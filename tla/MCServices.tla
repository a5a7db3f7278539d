------------------------------ MODULE MCServices ------------------------------
(* The services around the routes: OAuthSession, WebCapability, JobRunner,   *)
(* EventStream, MarketFlow and BriefingGate.  They share no state, so a      *)
(* behaviour exercises one of them, its scope, and leaves the others at a    *)
(* first state.  Services.cfg gives the constants their values for TLC;      *)
(* ServicesProofs proves the invariants and steps for all of them.           *)
EXTENDS Integers, FiniteSets, Sequences

CONSTANTS
  Threads, MaxTokens,                               \* OAuthSession
  Conids, Ttl, MaxTime, Unknown,                    \* WebCapability
  Scripts, FirstSlot, LastSlot, MaxByHand, ByHand, InGroup,      \* JobRunner
  Requests, System, Partial, Dedicated, Charts, MaxAsked,        \* MarketFlow
  None, Cold

VARIABLES
  scope,
  session, proc, issued, live, opened, failed, denied,             \* OAuthSession
  up, streaming, primed, cache, probe, tick, lastUp, probes,       \* WebCapability
  slot, status, running, results, fired,                           \* JobRunner
  data, readable, connected, turn, sent, wire, shown,              \* EventStream
  filter, lock, req, intel, asked,                                 \* MarketFlow
  clock, level, cached                                             \* BriefingGate

O == INSTANCE OAuthSession

W == INSTANCE WebCapability WITH now <- tick

R == INSTANCE JobRunner WITH now <- slot

E == INSTANCE EventStream WITH
  Kinds <- <<"briefing", "positions">>, Versions <- 1 .. 2, Buffer <- 2,
  Never <- None

M == INSTANCE MarketFlow WITH
  NoTicker <- None, NoRequest <- None, cache <- intel

B == INSTANCE BriefingGate WITH
  ReadMax <- 2, FetchMax <- 2, Budget <- 3, Lifetime <- 5, Episode <- 12,
  LastTick <- 26, now <- clock

ASSUME ServicesAssumption ==
  /\ O!SessionAssumption /\ W!CapabilityAssumption /\ R!RunnerAssumption
  /\ E!StreamAssumption /\ M!FlowAssumption /\ B!GateAssumption

Scopes == {"session", "capability", "jobs", "stream", "market", "briefing"}

oVars == <<session, proc, issued, live, opened, failed, denied>>
wVars == <<up, streaming, primed, cache, probe, tick, lastUp, probes>>
rVars == <<slot, status, running, results, fired>>
eVars == <<data, readable, connected, turn, sent, wire, shown>>
mVars == <<filter, lock, req, intel, asked>>
bVars == <<clock, level, cached>>
restVars == <<mVars, bVars>>
vars == <<scope, oVars, wVars, rVars, eVars, restVars>>

Init ==
  /\ scope \in Scopes
  /\ O!Init /\ W!Init /\ R!Init /\ E!Init /\ M!Init /\ B!Init
  /\ scope # "briefing" => level[1].until = 1
  /\ scope # "capability" => ~up
  /\ scope # "stream" => \A k \in {"briefing", "positions"} : data[k] = 1

Next ==
  \/ scope = "session" /\ O!Next /\ UNCHANGED <<scope, wVars, rVars, eVars, restVars>>
  \/ scope = "capability" /\ W!Next /\ UNCHANGED <<scope, oVars, rVars, eVars, restVars>>
  \/ scope = "jobs" /\ R!Next /\ UNCHANGED <<scope, oVars, wVars, eVars, restVars>>
  \/ scope = "stream" /\ E!Next /\ UNCHANGED <<scope, oVars, wVars, rVars, restVars>>
  \/ scope = "market" /\ M!Next /\ UNCHANGED <<scope, oVars, wVars, rVars, eVars, bVars>>
  \/ scope = "briefing" /\ B!Next /\ UNCHANGED <<scope, oVars, wVars, rVars, eVars, mVars>>

\* A connection is a session of the browser with one generator, so its fairness
\* is the one of EventStream.
Spec ==
  /\ Init /\ [][Next]_vars
  /\ WF_vars(scope = "stream" /\ E!Connect /\ UNCHANGED <<scope, oVars, wVars, rVars, restVars>>)
  /\ WF_vars(scope = "stream" /\ E!Look /\ UNCHANGED <<scope, oVars, wVars, rVars, restVars>>)
  /\ WF_vars(scope = "stream" /\ E!Receive /\ UNCHANGED <<scope, oVars, wVars, rVars, restVars>>)
  /\ WF_vars(scope = "briefing" /\ B!Work /\ UNCHANGED <<scope, oVars, wVars, rVars, eVars, mVars>>)
  /\ WF_vars(scope = "briefing" /\ B!Tick /\ UNCHANGED <<scope, oVars, wVars, rVars, eVars, mVars>>)

\* OAuthSession: a session reported as established is accepted, with excuses.
EstablishedMeansUsable == O!EstablishedMeansUsable

\* WebCapability: no answer outlives what it says.
LiveBackendIsRecent == W!LiveBackendIsRecent

\* WebCapability: the second probe of a session tells the market data.
SecondProbeTells == W!SecondProbeTells

\* JobRunner: the status of a script tells of its newest run.
StatusOfNewestRun == R!StatusOfNewestRun

\* EventStream: a browser left connected comes to show the data.
BrowserCatchesUp == E!BrowserCatchesUp

\* MarketFlow: among themselves the requests on the system pages do not mix
\* their tickers.
LockedReadsOwn == M!LockedReadsOwn

\* BriefingGate: the thread a briefing gives up on warms the cache.
LeakedFetchWarms == B!LeakedFetchWarms

=============================================================================
