---------------------------- MODULE WebCapability ----------------------------
(***************************************************************************)
(* What the dashboard believes of the CP gateway and what follows from it: *)
(* the probe of services/ibkr_web/capability.py with its cache of a        *)
(* minute, the two-step market data snapshots of snapshot.py, and the      *)
(* choice of the Greeks backend (state.resolve_greeks_backend).  The       *)
(* routes that probe are coroutines without an await in the probe, so one  *)
(* probe runs at a time; snapshots for a sync run in other threads.        *)
(***************************************************************************)
EXTENDS Integers, FiniteSets

CONSTANTS
  Conids,    \* the option contracts a probe looks at, the first three held
  Ttl,       \* life of the cached answer, in ticks
  MaxTime,   \* bound on the ticks that pass
  Unknown

\* What the model assumes of its constants; the module that instantiates it
\* states it as an ASSUME.
CapabilityAssumption ==
  /\ Ttl \in Nat \ {0} /\ MaxTime \in Nat /\ Unknown \notin BOOLEAN

VARIABLES
  up,         \* the gateway answers and its brokerage session is established
  streaming,  \* contracts the gateway streams in this session
  primed,     \* _PRIMED: contracts this process has asked for
  cache,      \* _CAPABILITY_CACHE: the last answer and its time, {} when none
  probe,      \* the probe under way: its start and what it has seen, {} when none
  now,
  lastUp,     \* history: when the gateway was last up
  probes      \* history: complete probes in this session of the gateway

vars == <<up, streaming, primed, cache, probe, now, lastUp, probes>>

------------------------------------------------------------------------------
(* snapshot.py                                                             *)

\* The gateway answers with data for the contracts it streams, and streams the
\* ones it is asked for from then on.
Answered(s, cs) == s \cap cs

\* The rows with data of a snapshot.  A contract this process has not asked for
\* makes it ask twice, and wait in between; asking again after a loss of the
\* session is left to the next caller, who is answered at once.
SnapshotData(cs) == IF cs \subseteq primed THEN Answered(streaming, cs) ELSE cs

\* The variant that asks for primed contracts only when they are streamed, as
\* it would if rows were kept with the primed set.
PrimesFor(cs) == IF cs \subseteq primed THEN {} ELSE cs

\* What a snapshot makes the gateway stream.
Primes(cs) == cs

------------------------------------------------------------------------------
(* capability.py                                                           *)

\* The answer of a probe that has asked for the session only.
Asked == [established |-> up, opra |-> Unknown, at |-> now]

\* The variant in which an answer does not age.
CachedForGood == {c \in cache : now - c.at >= 0}

\* What a route is told without a new probe: the cached answer, while it is
\* younger than Ttl.
Served == {c \in cache : now - c.at < Ttl}

\* The backend for "auto" and for "web_api"; other settings are explicit.
Backend(c) == IF c.opra = TRUE /\ c.established THEN "web_api" ELSE "bs_yfinance"

TypeOK ==
  /\ up \in BOOLEAN
  /\ streaming \subseteq Conids /\ primed \subseteq Conids
  /\ Cardinality(cache) <= 1 /\ Cardinality(probe) <= 1
  /\ now \in 0 .. MaxTime /\ lastUp \in 0 .. now

Init ==
  /\ up \in BOOLEAN
  /\ streaming = {} /\ primed = {} /\ cache = {} /\ probe = {}
  /\ now = 0 /\ lastUp = 0 /\ probes = 0

\* A probe begins unless the cached answer is served; ?refresh=1 forces one.
\* Its time is taken first, then it asks for the session.
BeginProbe ==
  /\ probe = {}
  /\ \E forced \in BOOLEAN : forced \/ Served = {}
  /\ probe' = {Asked}
  /\ UNCHANGED <<up, streaming, primed, cache, now, lastUp, probes>>

\* With a session it lists the accounts and positions and takes a snapshot of
\* the options; having none, or a request that fails on the way, leaves the
\* question open.
EndProbe ==
  \E p \in probe :
    /\ \/ /\ p.established /\ up
          /\ LET data == SnapshotData(Conids)
             IN cache' = {[p EXCEPT !.opra = IF Conids = {} THEN @ ELSE data # {}]}
          /\ streaming' = streaming \union Primes(Conids)
          /\ primed' = primed \union Conids
          /\ probes' = IF probes < 2 THEN probes + 1 ELSE probes
       \/ /\ cache' = {p}
          /\ UNCHANGED <<streaming, primed, probes>>
    /\ probe' = {}
    /\ UNCHANGED <<up, now, lastUp>>

\* invalidate: a sync has ended.
Invalidate ==
  /\ cache # {}
  /\ cache' = {}
  /\ UNCHANGED <<up, streaming, primed, probe, now, lastUp, probes>>

\* A sync thread takes a snapshot of some contracts.
SyncSnapshot ==
  /\ up
  /\ \E cs \in SUBSET Conids \ {{}} :
       /\ streaming' = streaming \union Primes(cs)
       /\ primed' = primed \union cs
  /\ UNCHANGED <<up, cache, probe, now, lastUp, probes>>

\* The gateway or its session is lost, and comes back streaming nothing.
Lose ==
  /\ up
  /\ up' = FALSE /\ streaming' = {} /\ probes' = 0
  /\ UNCHANGED <<primed, cache, probe, now, lastUp>>

Return ==
  /\ ~up
  /\ up' = TRUE /\ lastUp' = now
  /\ UNCHANGED <<streaming, primed, cache, probe, now, probes>>

\* The process restarts.
Restart ==
  /\ primed # {} \/ cache # {} \/ probe # {}
  /\ primed' = {} /\ cache' = {} /\ probe' = {}
  /\ UNCHANGED <<up, streaming, now, lastUp, probes>>

\* A probe takes less than a tick.
Tick ==
  /\ now < MaxTime
  /\ probe = {}
  /\ now' = now + 1
  /\ lastUp' = IF up THEN now + 1 ELSE lastUp
  /\ UNCHANGED <<up, streaming, primed, cache, probe, probes>>

Next ==
  \/ BeginProbe \/ EndProbe \/ Invalidate \/ SyncSnapshot
  \/ Lose \/ Return \/ Restart \/ Tick

Spec == Init /\ [][Next]_vars

------------------------------------------------------------------------------
(* Properties                                                              *)

\* No answer outlives what it says: a session reported as established, and the
\* choice of the live backend that follows, date from less than Ttl after the
\* gateway was last up.
LiveBackendIsRecent ==
  \A c \in Served :
    c.established \/ Backend(c) = "web_api" => now - lastUp < Ttl

\* A session that comes back is recognised: after its first complete probe no
\* other denies the market data that the account receives, although the set of
\* primed contracts has outlived the session it was built in.
SecondProbeTells ==
  [][\A p \in probe :
       cache' # cache /\ cache' # {} /\ probes >= 1 =>
         \A c \in cache' : c.opra # FALSE]_vars

=============================================================================
