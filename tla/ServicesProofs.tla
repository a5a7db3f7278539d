---------------------------- MODULE ServicesProofs ----------------------------
(***************************************************************************)
(* Theorems about the services, for any threads, tokens, contracts,        *)
(* scripts, requests and tickers.  Each service is alone in its scope: its *)
(* invariant speaks of its own variables, a step of MCServices is one of   *)
(* its steps or leaves them unchanged, and its theorem follows.            *)
(*                                                                         *)
(* The last section is about the store of their configuration,             *)
(* ConfigStore, which shares no variable with them.                        *)
(***************************************************************************)
EXTENDS MCServices, ConfigStore, TLAPS

-----------------------------------------------------------------------------
(* The session.  That it works is known of its token only: how the token     *)
(* came to be stored, who else knows it, and what has become of it.          *)

Step == {"idle", "token", "expiry", "open", "ready", "denied"}
Known == (1 .. issued) \union {None}

\* Tokens are issued ones, and a thread beyond idle has one.
TokenInv ==
  /\ issued \in 0 .. MaxTokens
  /\ session \in [lst: Known, ahead: BOOLEAN]
  /\ proc \in [Threads -> [at: Step, lst: Known]]
  /\ \A t \in Threads : proc[t].at # "idle" => proc[t].lst # None
  /\ live \subseteq 1 .. issued /\ opened \subseteq live
  /\ failed \subseteq 1 .. issued /\ denied \subseteq 1 .. issued

\* A token that is not stored yet is known to its thread only, and nothing has
\* been denied with it.
FreshInv ==
  \A t \in Threads : proc[t].at = "token" =>
    /\ session.lst # proc[t].lst
    /\ proc[t].lst \notin denied
    /\ \A u \in Threads : u # t => proc[u].lst # proc[t].lst

\* A denied token is in the session only until the thread it was denied to has
\* dropped it.
DropInv == session.lst \in denied => \E t \in Threads : proc[t].at = "denied"

\* A token is on its way, or its brokerage session was opened or refused, or
\* IBKR has ended it.
OnItsWay(k) == \E t \in Threads : /\ proc[t].at \in {"token", "expiry", "open"}
                                  /\ proc[t].lst = k
FateInv ==
  \A k \in 1 .. issued : OnItsWay(k) \/ k \in failed \union opened \/ k \notin live

SessionInv == TokenInv /\ FreshInv /\ DropInv /\ FateInv

\* One thread takes a step to at, working with k.
LEMMA GoesTo ==
  ASSUME TokenInv, NEW t \in Threads, NEW at \in Step, NEW k, O!Goes(t, at, k)
  PROVE  /\ DOMAIN proc' = Threads
         /\ proc'[t].at = at /\ proc'[t].lst = k
         /\ \A u \in Threads : u # t => proc'[u] = proc[u]
         /\ k \in Known => proc' \in [Threads -> [at: Step, lst: Known]]
BY DEF O!Goes, TokenInv

\* No issued token is None.
LEMMA TokensAreNumbers == TokenInv => issued \in Nat /\ None \notin 1 .. issued
BY ServicesAssumption DEF TokenInv, O!SessionAssumption

\* A token that was on its way still is, unless its thread has moved on.
LEMMA FateKept ==
  ASSUME FateInv, issued' = issued, NEW t \in Threads,
         \A u \in Threads : u # t => proc'[u] = proc[u],
         \/ proc[t].at \notin {"token", "expiry", "open"}
         \/ proc'[t].at \in {"token", "expiry", "open"} /\ proc'[t].lst = proc[t].lst
         \/ proc[t].lst \in failed' \union opened',
         failed \subseteq failed', opened \subseteq opened', live' = live
  PROVE  FateInv'
<1> SUFFICES ASSUME NEW k \in 1 .. issued, k \notin failed' \union opened', k \in live
             PROVE  OnItsWay(k)'
  BY DEF FateInv
<1>1. PICK u \in Threads : proc[u].at \in {"token", "expiry", "open"} /\ proc[u].lst = k
  BY DEF FateInv, OnItsWay
<1>2. proc'[u].at \in {"token", "expiry", "open"} /\ proc'[u].lst = k
  BY <1>1
<1> QED BY <1>2 DEF OnItsWay

\* What is known of the tokens is inductive.
LEMMA SessionStep == SessionInv /\ [O!Next]_(O!vars) => SessionInv'
<1> SUFFICES ASSUME SessionInv, [O!Next]_(O!vars)
             PROVE  SessionInv'
  OBVIOUS
<1> USE DEF SessionInv
<1>0. issued \in Nat /\ None \notin 1 .. issued
  BY TokensAreNumbers
<1>1. ASSUME NEW t \in Threads, O!UseSession(t)
      PROVE  SessionInv'
  <2>1. /\ proc[t].at = "idle" /\ session.lst # None
        /\ O!Goes(t, "ready", session.lst)
        /\ UNCHANGED <<session, issued, live, opened, failed, denied>>
    BY <1>1 DEF O!UseSession, O!Valid
  <2>2. /\ proc'[t].at = "ready" /\ proc'[t].lst = session.lst
        /\ \A u \in Threads : u # t => proc'[u] = proc[u]
        /\ proc' \in [Threads -> [at: Step, lst: Known]]
    BY <2>1, GoesTo DEF TokenInv, Step
  <2>3. TokenInv'
    BY <2>1, <2>2 DEF TokenInv, Known
  <2>4. FreshInv'
    BY <2>1, <2>2 DEF FreshInv
  <2>5. DropInv'
    BY <2>1, <2>2 DEF DropInv
  <2>6. FateInv'
    BY <2>1, <2>2, FateKept
  <2> QED BY <2>3, <2>4, <2>5, <2>6
<1>2. ASSUME NEW t \in Threads, O!AcquireToken(t)
      PROVE  SessionInv'
  <2>1. /\ proc[t].at = "idle" /\ issued < MaxTokens /\ issued' = issued + 1
        /\ live' = live \union {issued + 1}
        /\ O!Goes(t, "token", issued + 1)
        /\ UNCHANGED <<session, opened, failed, denied>>
    BY <1>2 DEF O!AcquireToken
  <2>2. /\ DOMAIN proc' = Threads
        /\ proc'[t].at = "token" /\ proc'[t].lst = issued + 1
        /\ \A u \in Threads : u # t => proc'[u] = proc[u]
    BY <2>1, GoesTo DEF Step
  <2>3. /\ Known \subseteq Known' /\ issued + 1 \in Known' /\ issued + 1 \notin Known
        /\ 1 .. issued \subseteq 1 .. issued' /\ issued' \in 0 .. MaxTokens
    BY <1>0, <2>1, ServicesAssumption DEF Known, O!SessionAssumption
  <2>4. proc' = [proc EXCEPT ![t] = [at |-> "token", lst |-> issued + 1]]
    BY <2>1 DEF O!Goes
  <2>5. proc' \in [Threads -> [at: Step, lst: Known']]
    BY <2>3, <2>4 DEF TokenInv, Step
  <2>6. TokenInv'
    BY <2>1, <2>2, <2>3, <2>5, ServicesAssumption DEF TokenInv, O!SessionAssumption
  <2>7. FreshInv'
    BY <2>1, <2>2, <2>3 DEF FreshInv, TokenInv, Known
  <2>8. DropInv'
    BY <2>1, <2>2 DEF DropInv
  <2>9. FateInv'
    <3> SUFFICES ASSUME NEW k \in 1 .. issued', k \notin failed \union opened, k \in live'
                 PROVE  OnItsWay(k)'
      BY <2>1 DEF FateInv
    <3>1. CASE k = issued + 1
      BY <2>2, <3>1 DEF OnItsWay
    <3>2. CASE k # issued + 1
      <4>1. k \in 1 .. issued /\ k \in live
        BY <1>0, <2>1, <3>2
      <4>2. PICK u \in Threads : /\ proc[u].at \in {"token", "expiry", "open"}
                                 /\ proc[u].lst = k
        BY <4>1 DEF FateInv, OnItsWay
      <4> QED BY <2>1, <2>2, <4>2 DEF OnItsWay
    <3> QED BY <3>1, <3>2
  <2> QED BY <2>6, <2>7, <2>8, <2>9
<1>3. ASSUME NEW t \in Threads, O!StoreToken(t)
      PROVE  SessionInv'
  <2>1. /\ proc[t].at = "token"
        /\ session' = [session EXCEPT !.lst = proc[t].lst]
        /\ O!Goes(t, "expiry", proc[t].lst)
        /\ UNCHANGED <<issued, live, opened, failed, denied>>
    BY <1>3 DEF O!StoreToken
  <2>2. /\ proc'[t].at = "expiry" /\ proc'[t].lst = proc[t].lst
        /\ \A u \in Threads : u # t => proc'[u] = proc[u]
        /\ proc' \in [Threads -> [at: Step, lst: Known]]
        /\ proc[t].lst \in Known
    BY <2>1, GoesTo DEF TokenInv, Step
  <2>3. session'.lst = proc[t].lst /\ session' \in [lst: Known, ahead: BOOLEAN]
    BY <2>1, <2>2 DEF TokenInv
  <2>4. TokenInv'
    BY <2>1, <2>2, <2>3 DEF TokenInv, Known
  <2>5. FreshInv'
    BY <2>1, <2>2, <2>3 DEF FreshInv
  <2>6. DropInv'
    BY <2>1, <2>3 DEF DropInv, FreshInv
  <2>7. FateInv'
    BY <2>1, <2>2, FateKept
  <2> QED BY <2>4, <2>5, <2>6, <2>7
<1>4. ASSUME NEW t \in Threads, O!StoreExpiry(t)
      PROVE  SessionInv'
  <2>1. /\ proc[t].at = "expiry"
        /\ session' = [session EXCEPT !.ahead = TRUE]
        /\ O!Goes(t, "open", proc[t].lst)
        /\ UNCHANGED <<issued, live, opened, failed, denied>>
    BY <1>4 DEF O!StoreExpiry
  <2>2. /\ proc'[t].at = "open" /\ proc'[t].lst = proc[t].lst
        /\ \A u \in Threads : u # t => proc'[u] = proc[u]
        /\ proc' \in [Threads -> [at: Step, lst: Known]]
    BY <2>1, GoesTo DEF TokenInv, Step
  <2>3. session'.lst = session.lst /\ session' \in [lst: Known, ahead: BOOLEAN]
    BY <2>1 DEF TokenInv
  <2>4. TokenInv'
    BY <2>1, <2>2, <2>3 DEF TokenInv, Known
  <2>5. FreshInv' /\ DropInv'
    BY <2>1, <2>2, <2>3 DEF FreshInv, DropInv
  <2>6. FateInv'
    BY <2>1, <2>2, FateKept
  <2> QED BY <2>4, <2>5, <2>6
<1>5. ASSUME NEW t \in Threads, O!OpenBrokerage(t)
      PROVE  SessionInv'
  <2>1. /\ proc[t].at = "open"
        /\ \/ /\ proc[t].lst \in live
              /\ opened' = opened \union {proc[t].lst}
              /\ O!Goes(t, IF session.lst = None THEN "idle" ELSE "ready", session.lst)
              /\ failed' = failed
           \/ /\ failed' = failed \union {proc[t].lst}
              /\ O!Goes(t, "idle", None)
              /\ opened' = opened
        /\ UNCHANGED <<session, issued, live, denied>>
    BY <1>5 DEF O!OpenBrokerage
  <2>2. PICK at \in {"idle", "ready"}, k \in {session.lst, None} :
          O!Goes(t, at, k) /\ (at = "ready" => k # None)
    BY <2>1
  <2>3. /\ proc'[t].at = at /\ proc'[t].lst = k
        /\ \A u \in Threads : u # t => proc'[u] = proc[u]
        /\ proc' \in [Threads -> [at: Step, lst: Known]]
    BY <2>2, GoesTo DEF TokenInv, Step, Known
  <2>4. proc[t].lst \in 1 .. issued
    BY <2>1 DEF TokenInv, Known
  <2>5. opened' \subseteq live /\ failed' \subseteq 1 .. issued
    BY <2>1, <2>4 DEF TokenInv
  <2>6. TokenInv'
    BY <2>1, <2>2, <2>3, <2>5 DEF TokenInv, Known
  <2>7. FreshInv'
    BY <1>0, <2>1, <2>2, <2>3 DEF FreshInv, TokenInv
  <2>8. DropInv'
    BY <2>1, <2>3 DEF DropInv
  <2>9. FateInv'
    BY <2>1, <2>3, FateKept
  <2> QED BY <2>6, <2>7, <2>8, <2>9
<1>6. ASSUME NEW t \in Threads, O!Request(t)
      PROVE  SessionInv'
  <2>1. /\ proc[t].at = "ready"
        /\ \/ O!Goes(t, "idle", None) /\ denied' = denied
           \/ /\ denied' = denied \union {proc[t].lst}
              /\ O!Goes(t, "denied", proc[t].lst)
        /\ UNCHANGED <<session, issued, live, opened, failed>>
    BY <1>6 DEF O!Request
  <2>2. PICK at \in {"idle", "denied"}, k \in {proc[t].lst, None} :
          /\ O!Goes(t, at, k)
          /\ \/ at = "idle" /\ denied' = denied
             \/ at = "denied" /\ k # None /\ denied' = denied \union {proc[t].lst}
    BY <2>1 DEF TokenInv
  <2>3. proc[t].lst \in 1 .. issued
    BY <2>1 DEF TokenInv, Known
  <2>4. /\ proc'[t].at = at /\ proc'[t].lst = k
        /\ \A u \in Threads : u # t => proc'[u] = proc[u]
        /\ proc' \in [Threads -> [at: Step, lst: Known]]
    BY <2>2, <2>3, GoesTo DEF Step, Known
  <2>5. denied' \subseteq 1 .. issued
    BY <2>2, <2>3 DEF TokenInv
  <2>6. TokenInv'
    BY <2>1, <2>2, <2>4, <2>5 DEF TokenInv, Known
  <2>7. FreshInv'
    BY <1>0, <2>1, <2>2, <2>3, <2>4 DEF FreshInv, TokenInv
  <2>8. DropInv'
    BY <2>1, <2>2, <2>4 DEF DropInv
  <2>9. FateInv'
    BY <2>1, <2>4, FateKept
  <2> QED BY <2>6, <2>7, <2>8, <2>9
<1>7. ASSUME NEW t \in Threads, O!DropDenied(t)
      PROVE  SessionInv'
  <2>1. /\ proc[t].at = "denied"
        /\ session' = [lst |-> None, ahead |-> FALSE]
        /\ O!Goes(t, "idle", None)
        /\ UNCHANGED <<issued, live, opened, failed, denied>>
    BY <1>7 DEF O!DropDenied, O!Empty
  <2>2. /\ proc'[t].at = "idle" /\ proc'[t].lst = None
        /\ \A u \in Threads : u # t => proc'[u] = proc[u]
        /\ proc' \in [Threads -> [at: Step, lst: Known]]
    BY <2>1, GoesTo DEF Step, Known
  <2>3. session'.lst = None /\ session' \in [lst: Known, ahead: BOOLEAN]
    BY <2>1 DEF Known
  <2>4. TokenInv'
    BY <2>1, <2>2, <2>3 DEF TokenInv, Known
  <2>5. FreshInv'
    BY <2>1, <2>2, <2>3 DEF FreshInv, TokenInv
  <2>6. DropInv'
    BY <1>0, <2>1, <2>3 DEF DropInv, TokenInv
  <2>7. FateInv'
    BY <2>1, <2>2, FateKept
  <2> QED BY <2>4, <2>5, <2>6, <2>7
<1>8. CASE O!Revoke
  <2>1. PICK k \in live : live' = live \ {k} /\ opened' = opened \ {k}
    BY <1>8 DEF O!Revoke
  <2>2. UNCHANGED <<session, proc, issued, failed, denied>>
    BY <1>8 DEF O!Revoke
  <2> QED BY <2>1, <2>2 DEF TokenInv, Known, FreshInv, DropInv, FateInv, OnItsWay
<1>9. CASE O!Expire
  <2>1. /\ session' = [session EXCEPT !.ahead = FALSE]
        /\ UNCHANGED <<proc, issued, live, opened, failed, denied>>
    BY <1>9 DEF O!Expire
  <2>2. session'.lst = session.lst /\ session' \in [lst: Known, ahead: BOOLEAN]
    BY <2>1 DEF TokenInv
  <2> QED BY <2>1, <2>2 DEF TokenInv, Known, FreshInv, DropInv, FateInv, OnItsWay
<1>10. CASE UNCHANGED O!vars
  BY <1>10 DEF O!vars, TokenInv, Known, FreshInv, DropInv, FateInv, OnItsWay
<1> QED BY <1>1, <1>2, <1>3, <1>4, <1>5, <1>6, <1>7, <1>8, <1>9, <1>10 DEF O!Next

\* A behaviour of the services is one of the session.
LEMMA SessionOfServices ==
  /\ Init => SessionInv
  /\ [Next]_vars => [O!Next]_(O!vars)
<1>1. ASSUME Init PROVE SessionInv
  <2>1. /\ session = [lst |-> None, ahead |-> FALSE] /\ issued = 0
        /\ proc = [t \in Threads |-> [at |-> "idle", lst |-> None]]
        /\ live = {} /\ opened = {} /\ failed = {} /\ denied = {}
    BY <1>1 DEF Init, O!Init, O!Empty, O!Idle
  <2>2. TokenInv
    BY <2>1, ServicesAssumption DEF TokenInv, Known, Step, O!SessionAssumption
  <2> QED BY <2>1, <2>2 DEF SessionInv, FreshInv, DropInv, FateInv
<1> QED BY <1>1 DEF Next, vars, oVars, O!vars

\* A session that GET /ibkr/status calls established works, whatever threads
\* acquire, use and drop it at once: IBKR accepts its token and has its brokerage
\* session, but for an acquisition or a drop half way, an opening that failed
\* and an end by IBKR that no request has met yet.
THEOREM EstablishedWorks == Spec => []EstablishedMeansUsable
<1>1. ASSUME SessionInv PROVE EstablishedMeansUsable
  <2> SUFFICES ASSUME session.lst # None,
                      \A t \in Threads :
                        proc[t].at \notin {"token", "expiry", "open", "denied"},
                      session.lst \notin failed \ denied,
                      session.lst \in live \union denied
               PROVE  session.lst \in live \cap opened
    BY DEF EstablishedMeansUsable, O!EstablishedMeansUsable, O!Established, O!Valid
  <2>1. session.lst \notin denied
    BY <1>1 DEF SessionInv, DropInv
  <2>2. session.lst \in 1 .. issued /\ ~OnItsWay(session.lst)
    BY <1>1 DEF SessionInv, TokenInv, Known, OnItsWay
  <2> QED BY <1>1, <2>1, <2>2 DEF SessionInv, FateInv
<1>2. SessionInv => EstablishedMeansUsable
  BY <1>1
<1> QED
  BY <1>2, SessionStep, SessionOfServices, PTL DEF Spec

-----------------------------------------------------------------------------
(* The capability of the gateway.                                          *)

\* An answer, of a probe that has ended or not.
ProbeAnswer == [established: BOOLEAN, opra: {Unknown, TRUE, FALSE}, at: Nat]

\* The gateway is up at the last time it was up.
UpInv == /\ tick \in Nat /\ lastUp \in 0 .. tick /\ up \in BOOLEAN
         /\ up => lastUp = tick

\* It was up at the time of any answer that says so; a probe under way knows
\* nothing of the market data.
AnswerInv == /\ cache \union probe \subseteq ProbeAnswer
             /\ \A c \in cache \union probe : c.established => c.at <= lastUp
             /\ \A p \in probe : p.opra = Unknown

\* A session that has been probed to the end streams the contracts of the probe.
StreamInv == probes \in Nat /\ (probes >= 1 => Conids \subseteq streaming)

CapabilityInv == UpInv /\ AnswerInv /\ StreamInv

\* What a probe that has run to its end tells of the market data.
Told == IF Conids = {} THEN Unknown ELSE W!SnapshotData(Conids) # {}

\* A probe ends with an answer, or leaves the question open.
LEMMA ProbeEnds ==
  ASSUME CapabilityInv, W!EndProbe
  PROVE  \E p \in probe :
           /\ \/ /\ cache' = {[p EXCEPT !.opra = Told]}
                 /\ streaming' = streaming \union Conids
                 /\ probes' \in Nat
              \/ cache' = {p} /\ UNCHANGED <<streaming, probes>>
           /\ probe' = {}
           /\ UNCHANGED <<up, tick, lastUp>>
<1>1. PICK p \in probe :
        /\ \/ /\ cache' = {[p EXCEPT !.opra = IF Conids = {} THEN p.opra
                                              ELSE W!SnapshotData(Conids) # {}]}
              /\ streaming' = streaming \union W!Primes(Conids)
              /\ probes' = IF probes < 2 THEN probes + 1 ELSE probes
           \/ cache' = {p} /\ UNCHANGED <<streaming, probes>>
        /\ probe' = {}
        /\ UNCHANGED <<up, tick, lastUp>>
  BY DEF W!EndProbe
<1>2. p.opra = Unknown
  BY DEF CapabilityInv, AnswerInv
<1> QED BY <1>1, <1>2 DEF CapabilityInv, StreamInv, Told, W!Primes

\* An answer that says so is no younger than any later time the gateway is up.
LEMMA AnswerOlder ==
  ASSUME CapabilityInv, NEW at \in Nat, lastUp <= at
  PROVE  \A c \in cache \union probe : c.established => c.at <= at
<1> SUFFICES ASSUME NEW c \in cache \union probe, c.established
             PROVE  c.at <= at
  OBVIOUS
<1>1. c \in ProbeAnswer /\ c.at <= lastUp
  BY DEF CapabilityInv, AnswerInv
<1>2. c.at \in Nat
  BY <1>1 DEF ProbeAnswer
<1>3. lastUp \in Nat
  BY DEF CapabilityInv, UpInv
<1> QED BY <1>1, <1>2, <1>3

\* That is inductive.
LEMMA CapabilityStep == CapabilityInv /\ [W!Next]_(W!vars) => CapabilityInv'
<1> SUFFICES ASSUME CapabilityInv, [W!Next]_(W!vars)
             PROVE  CapabilityInv'
  OBVIOUS
<1> USE DEF CapabilityInv
<1>1. CASE W!BeginProbe
  <2>1. /\ probe' = {[established |-> up, opra |-> Unknown, at |-> tick]}
        /\ UNCHANGED <<up, streaming, cache, tick, lastUp, probes>>
    BY <1>1 DEF W!BeginProbe, W!Asked
  <2>2. [established |-> up, opra |-> Unknown, at |-> tick] \in ProbeAnswer
    BY DEF UpInv, ProbeAnswer
  <2>3. AnswerInv'
    BY <2>1, <2>2 DEF AnswerInv, UpInv
  <2> QED BY <2>1, <2>3 DEF UpInv, StreamInv
<1>2. CASE W!EndProbe
  <2>1. PICK p \in probe :
           /\ \/ /\ cache' = {[p EXCEPT !.opra = Told]}
                 /\ streaming' = streaming \union Conids
                 /\ probes' \in Nat
              \/ cache' = {p} /\ UNCHANGED <<streaming, probes>>
           /\ probe' = {}
           /\ UNCHANGED <<up, tick, lastUp>>
    BY <1>2, ProbeEnds
  <2>2. p \in ProbeAnswer /\ Told \in {Unknown, TRUE, FALSE}
    BY DEF AnswerInv, Told
  <2>3. /\ [p EXCEPT !.opra = Told] \in ProbeAnswer
        /\ [p EXCEPT !.opra = Told].established = p.established
        /\ [p EXCEPT !.opra = Told].at = p.at
    BY <2>2 DEF ProbeAnswer
  <2>4. AnswerInv'
    BY <2>1, <2>2, <2>3 DEF AnswerInv
  <2> QED BY <2>1, <2>4 DEF UpInv, StreamInv
<1>3. CASE W!Invalidate \/ W!Restart
  BY <1>3 DEF W!Invalidate, W!Restart, UpInv, AnswerInv, StreamInv
<1>4. CASE W!SyncSnapshot
  BY <1>4 DEF W!SyncSnapshot, UpInv, AnswerInv, StreamInv
<1>5. CASE W!Lose
  <2>1. UpInv'
    BY <1>5 DEF W!Lose, UpInv
  <2>2. AnswerInv'
    BY <1>5 DEF W!Lose, AnswerInv
  <2>3. StreamInv'
    BY <1>5 DEF W!Lose, StreamInv
  <2> QED BY <2>1, <2>2, <2>3
<1>6. CASE W!Return
  <2>1. UpInv'
    <3>1. up' = TRUE /\ lastUp' = tick /\ tick' = tick
      BY <1>6 DEF W!Return
    <3>2. up' \in BOOLEAN /\ lastUp' \in 0 .. tick'
      BY <3>1 DEF UpInv
    <3> QED BY <3>1, <3>2 DEF UpInv
  <2>2. \A c \in cache \union probe : c.established => c.at <= tick
    BY AnswerOlder DEF UpInv
  <2>3. AnswerInv'
    BY <1>6, <2>2 DEF W!Return, AnswerInv
  <2>4. StreamInv'
    BY <1>6 DEF W!Return, StreamInv
  <2> QED BY <2>1, <2>3, <2>4
<1>7. CASE W!Tick
  <2>1. /\ tick' = tick + 1 /\ up' = up
        /\ lastUp' = tick' \/ (~up /\ lastUp' = lastUp)
    BY <1>7 DEF W!Tick
  <2>2. UpInv' /\ lastUp <= lastUp'
    BY <2>1 DEF UpInv
  <2>3. \A c \in cache \union probe : c.established => c.at <= lastUp'
    BY <2>2, AnswerOlder DEF UpInv
  <2>4. AnswerInv'
    BY <1>7, <2>3 DEF W!Tick, AnswerInv
  <2>5. StreamInv'
    BY <1>7 DEF W!Tick, StreamInv
  <2> QED BY <2>2, <2>4, <2>5
<1>8. CASE UNCHANGED W!vars
  BY <1>8 DEF W!vars, UpInv, AnswerInv, StreamInv
<1> QED BY <1>1, <1>2, <1>3, <1>4, <1>5, <1>6, <1>7, <1>8 DEF W!Next

\* A behaviour of the services is one of the capability.
LEMMA CapabilityOfServices ==
  /\ Init => CapabilityInv
  /\ [Next]_vars => [W!Next]_(W!vars)
BY DEF Init, Next, vars, wVars, W!vars, W!Init, CapabilityInv, UpInv, AnswerInv, StreamInv

\* No answer outlives what it says: an established session, and the choice of
\* the live backend that follows, date from less than Ttl after the gateway was
\* last up.
THEOREM LiveIsRecent == Spec => []LiveBackendIsRecent
<1>1. ASSUME CapabilityInv, NEW c \in W!Served,
             c.established \/ W!Backend(c) = "web_api"
      PROVE  tick - lastUp < Ttl
  <2>1. c \in ProbeAnswer /\ c \in cache /\ tick - c.at < Ttl
    BY <1>1 DEF CapabilityInv, UpInv, AnswerInv, StreamInv, W!Served
  <2>2. c.established
    BY <1>1 DEF W!Backend
  <2>3. c.at <= lastUp
    BY <1>1, <2>1, <2>2 DEF CapabilityInv, UpInv, AnswerInv, StreamInv
  <2>4. c.at \in Nat /\ lastUp \in Nat /\ tick \in Nat /\ Ttl \in Nat
    BY <1>1, <2>1, ServicesAssumption
    DEF CapabilityInv, UpInv, AnswerInv, StreamInv, ProbeAnswer, W!CapabilityAssumption
  <2> QED BY <2>1, <2>3, <2>4
<1>2. CapabilityInv => LiveBackendIsRecent
  BY <1>1 DEF LiveBackendIsRecent, W!LiveBackendIsRecent
<1> QED
  BY <1>2, CapabilityStep, CapabilityOfServices, PTL DEF Spec

\* After the first complete probe of a session of the gateway no other denies
\* the market data, whatever was primed in the sessions before.
THEOREM ProbeTells == Spec => SecondProbeTells
<1>1. ASSUME CapabilityInv, [W!Next]_(W!vars)
      PROVE  [\A p \in probe :
                cache' # cache /\ cache' # {} /\ probes >= 1 =>
                  \A c \in cache' : c.opra # FALSE]_(W!vars)
  <2> SUFFICES ASSUME W!Next, cache' # cache, probes >= 1, NEW c \in cache'
               PROVE  c.opra # FALSE
    BY <1>1
  <2>1. W!EndProbe
    BY DEF W!Next, W!BeginProbe, W!Invalidate, W!SyncSnapshot, W!Lose, W!Return,
           W!Restart, W!Tick
  <2>2. PICK p \in probe : c = [p EXCEPT !.opra = Told] \/ c = p
    BY <1>1, <2>1, ProbeEnds
  <2>3. p \in ProbeAnswer /\ p.opra = Unknown
    BY <1>1 DEF CapabilityInv, UpInv, AnswerInv, StreamInv
  <2>4. Unknown # FALSE
    BY ServicesAssumption DEF W!CapabilityAssumption
  <2>5. Told # FALSE
    BY <1>1, <2>4 DEF CapabilityInv, UpInv, AnswerInv, StreamInv, Told, W!SnapshotData, W!Answered
  <2> QED BY <2>2, <2>3, <2>4, <2>5 DEF ProbeAnswer
<1> QED
  BY <1>1, CapabilityStep, CapabilityOfServices, PTL
  DEF Spec, SecondProbeTells, W!SecondProbeTells

-----------------------------------------------------------------------------
(* The runs of scripts.  Two jobs may run one script, each at its own times:  *)
(* a run of the one has ended, or been killed, before the other is due.       *)

Scheduled(r) == r.job \notin {ByHand, InGroup} /\ r.watched

States == {"pending", "missing", "running", "ok", "error", "timeout"}

\* The status of a script is of a run that began by now.
StatusInv ==
  /\ slot \in Nat
  /\ \A k \in Scripts : status[k].start \in 0 .. slot
  /\ status \in [Scripts -> [state: States, start: Nat]]

\* A scheduled run began in this slot or the one before, when its job was due,
\* and no later run of its script has shown a status.
RunInv(r) ==
  /\ r.job \in R!ScriptJobs /\ r.key = R!ScriptOf[r.job] /\ r.key \in Scripts
  /\ r.start \in Nat /\ slot - r.start \in {0, 1}
  /\ R!Due(r.job, r.start)
  /\ status[r.key].start <= r.start

\* A script has one scheduled run at a time.
RunsInv ==
  /\ StatusInv
  /\ \A r \in running : Scheduled(r) => RunInv(r)
  /\ \A r, s \in running : Scheduled(r) /\ Scheduled(s) /\ r.key = s.key => r = s

\* A job that is due at one time of the day is due in one slot of it.
LEMMA SlotOfDay ==
  ASSUME NEW s \in Nat, NEW h \in 0 .. 23, NEW i \in 0 .. 11, R!At(s, {h}, {5 * i})
  PROVE  s % 288 = 12 * h + i
<1>1. (s % 288) \div 12 = h /\ 5 * (s % 12) = 5 * i
  BY DEF R!At, R!Hour, R!Minute, R!SlotsPerDay, R!SlotsPerHour
<1>2. s % 12 = i
  BY <1>1
<1>3. (s % 288) % 12 = s % 12
  OBVIOUS
<1>4. s % 288 \in 0 .. 287
  OBVIOUS
<1>5. s % 288 = 12 * ((s % 288) \div 12) + ((s % 288) % 12)
  BY <1>4
<1> QED BY <1>1, <1>2, <1>3, <1>5

\* The two jobs of one script are not due in the same slot or in the next one.
LEMMA JobsApart ==
  ASSUME NEW i \in R!ScriptJobs, NEW j \in R!ScriptJobs, i # j,
         R!ScriptOf[i] = R!ScriptOf[j],
         NEW s \in Nat, NEW t \in Nat, t - s \in {0, 1},
         R!Due(i, s), R!Due(j, t)
  PROVE  FALSE
<1>1. \/ i = "qd_refresh" /\ j = "qd_refresh_midday"
      \/ i = "qd_refresh_midday" /\ j = "qd_refresh"
      \/ i = "gex_oi_am" /\ j = "gex_oi_pm"
      \/ i = "gex_oi_pm" /\ j = "gex_oi_am"
  BY DEF R!ScriptJobs, R!ScriptOf
<1>2. t % 288 \in {s % 288, (s % 288) + 1, 0}
  OBVIOUS
<1> DEFINE TimeOf(job) == CASE job = "qd_refresh" -> 120 [] job = "qd_refresh_midday" -> 192
                            [] job = "gex_oi_am" -> 157 [] job = "gex_oi_pm" -> 204
<1>3. ASSUME NEW job \in {"qd_refresh", "qd_refresh_midday", "gex_oi_am", "gex_oi_pm"},
             NEW u \in Nat, R!Due(job, u)
      PROVE  u % 288 = TimeOf(job)
  <2>1. CASE job = "qd_refresh"
    <3>1. R!At(u, {10}, {5 * 0})
      BY <1>3, <2>1 DEF R!Due
    <3>2. u % 288 = 12 * 10 + 0
      BY <3>1, SlotOfDay
    <3> QED BY <2>1, <3>2
  <2>2. CASE job = "qd_refresh_midday"
    <3>1. R!At(u, {16}, {5 * 0})
      BY <1>3, <2>2 DEF R!Due
    <3>2. u % 288 = 12 * 16 + 0
      BY <3>1, SlotOfDay
    <3> QED BY <2>2, <3>2
  <2>3. CASE job = "gex_oi_am"
    <3>1. R!At(u, {13}, {5 * 1})
      BY <1>3, <2>3 DEF R!Due
    <3>2. u % 288 = 12 * 13 + 1
      BY <3>1, SlotOfDay
    <3> QED BY <2>3, <3>2
  <2>4. CASE job = "gex_oi_pm"
    <3>1. R!At(u, {17}, {5 * 0})
      BY <1>3, <2>4 DEF R!Due
    <3>2. u % 288 = 12 * 17 + 0
      BY <3>1, SlotOfDay
    <3> QED BY <2>4, <3>2
  <2> QED BY <2>1, <2>2, <2>3, <2>4
<1>4. s % 288 = TimeOf(i) /\ t % 288 = TimeOf(j)
  BY <1>1, <1>3
<1> QED BY <1>1, <1>2, <1>4

\* So while a job may fire, no scheduled run of its script goes on.
LEMMA FiresAlone ==
  ASSUME RunsInv, NEW j \in R!ScriptJobs, R!Due(j, slot),
         ~\E r \in running : r.job = j /\ r.watched
  PROVE  \A r \in running : Scheduled(r) => r.key # R!ScriptOf[j]
<1> SUFFICES ASSUME NEW r \in running, Scheduled(r), r.key = R!ScriptOf[j]
             PROVE  FALSE
  OBVIOUS
<1>1. RunInv(r) /\ r.job # j
  BY DEF RunsInv, Scheduled
<1> QED BY <1>1, JobsApart DEF RunInv, RunsInv, StatusInv

\* Runs and the status of their scripts are kept in step.
LEMMA RunsStep == RunsInv /\ [R!Next]_(R!vars) => RunsInv'
<1> SUFFICES ASSUME RunsInv, [R!Next]_(R!vars)
             PROVE  RunsInv'
  OBVIOUS
<1>a. StatusInv
  BY DEF RunsInv
<1>1. ASSUME NEW j \in R!ScriptJobs, R!FireJob(j)
      PROVE  RunsInv'
  <2> DEFINE key == R!ScriptOf[j]
  <2>1. key \in Scripts /\ R!Due(j, slot) /\ slot' = slot
    BY <1>1 DEF R!FireJob
  <2>2. CASE UNCHANGED <<status, running>>
    BY <2>1, <2>2 DEF RunsInv, StatusInv, RunInv, Scheduled
  <2>3. CASE ~\E r \in running : r.job = j /\ r.watched
    <3>1. \A r \in running : Scheduled(r) => r.key # key
      BY <2>1, <2>3, FiresAlone
    <3>2. /\ \E s \in {"running", "missing", "error"} :
                  status' = [status EXCEPT ![key] = [state |-> s, start |-> slot]]
          /\ running' \in {running, running \union {R!Run(key, j)}}
      BY <1>1, <2>3 DEF R!FireJob
    <3>3. /\ status'[key].start = slot
          /\ \A k \in Scripts : k # key => status'[k] = status[k]
          /\ status' \in [Scripts -> [state: States, start: Nat]]
      BY <1>a, <2>1, <3>2 DEF StatusInv, States
    <3>4. StatusInv'
      BY <1>a, <2>1, <3>3 DEF StatusInv
    <3> PICK new : new = R!Run(key, j)
      OBVIOUS
    <3>5. /\ new.key = key /\ new.job = j /\ new.watched
          /\ Scheduled(new) => new.start = slot
      BY DEF R!Run, Scheduled
    <3>6. Scheduled(new) => RunInv(new)'
      BY <1>a, <2>1, <3>3, <3>5 DEF RunInv, StatusInv
    <3>7. ASSUME NEW r \in running, Scheduled(r) PROVE RunInv(r)' /\ r.key # key
      BY <2>1, <3>1, <3>3, <3>7 DEF RunInv, RunsInv
    <3>8. \A r \in running' : r \in running \/ r = new
      BY <3>2
    <3> HIDE DEF key
    <3>9. \A r \in running' : Scheduled(r) => RunInv(r)'
      BY <3>6, <3>7, <3>8 DEF RunInv
    <3>10. \A r, s \in running' : Scheduled(r) /\ Scheduled(s) /\ r.key = s.key => r = s
      BY <3>5, <3>7, <3>8 DEF RunsInv
    <3> QED BY <3>4, <3>9, <3>10 DEF RunsInv, Scheduled
  <2> QED BY <1>1, <2>2, <2>3 DEF R!FireJob
<1>2. ASSUME NEW k \in Scripts, R!RunScript(k) \/ R!RunGroup(k)
      PROVE  RunsInv'
  <2>1. \E job \in {ByHand, InGroup} : running' = running \union {R!Run(k, job)}
    BY <1>2 DEF R!RunScript, R!RunGroup, R!StartsFor
  <2>2. \A r \in running' : Scheduled(r) => r \in running
    BY <2>1 DEF R!Run, Scheduled
  <2>3. UNCHANGED <<slot, status>>
    BY <1>2 DEF R!RunScript, R!RunGroup, R!StartsFor
  <2> QED BY <2>2, <2>3 DEF RunsInv, StatusInv, RunInv, Scheduled
<1>3. CASE R!EndScheduled
  <2>1. PICK r \in running :
          /\ Scheduled(r) /\ running' = running \ {r} /\ slot' = slot
          /\ \E s \in {"ok", "error", "timeout"} :
               status' = [status EXCEPT ![r.key] = [state |-> s, start |-> r.start]]
    BY <1>3 DEF R!EndScheduled, Scheduled
  <2>2. RunInv(r) /\ r.key \in Scripts /\ r.start \in 0 .. slot
    BY <1>a, <2>1 DEF RunsInv, RunInv, StatusInv
  <2>3. /\ status'[r.key].start = r.start
        /\ \A k \in Scripts : k # r.key => status'[k] = status[k]
        /\ status' \in [Scripts -> [state: States, start: Nat]]
    BY <1>a, <2>1, <2>2 DEF StatusInv, States
  <2>4. StatusInv'
    BY <1>a, <2>1, <2>2, <2>3 DEF StatusInv
  <2>5. ASSUME NEW x \in running', Scheduled(x) PROVE RunInv(x)'
    <3>1. x \in running /\ RunInv(x) /\ x.key # r.key
      BY <2>1, <2>5 DEF RunsInv
    <3> QED BY <2>1, <2>3, <3>1 DEF RunInv
  <2> QED BY <2>1, <2>4, <2>5 DEF RunsInv, Scheduled
<1>4. CASE R!EndByHand
  BY <1>4 DEF R!EndByHand, RunsInv, StatusInv, RunInv, Scheduled
<1>5. CASE R!Restart
  <2>1. \A r \in running' : ~Scheduled(r)
    <3>1. running' = {[r EXCEPT !.watched = FALSE, !.start = 0] : r \in running}
      BY <1>5 DEF R!Restart
    <3> SUFFICES ASSUME NEW r \in running PROVE ~[r EXCEPT !.watched = FALSE, !.start = 0].watched
      BY <3>1 DEF Scheduled
    <3> QED OBVIOUS
  <2>2. StatusInv'
    <3>1. slot' = slot /\ status' = [k \in Scripts |-> [state |-> "pending", start |-> 0]]
      BY <1>5 DEF R!Restart, R!Pending
    <3>2. status' \in [Scripts -> [state: States, start: Nat]]
      BY <3>1 DEF States
    <3> QED BY <1>a, <3>1, <3>2 DEF StatusInv
  <2> QED BY <2>1, <2>2 DEF RunsInv, Scheduled
<1>6. CASE R!NextSlot
  <2>1. slot' = slot + 1 /\ UNCHANGED <<status, running>>
    BY <1>6 DEF R!NextSlot
  <2>2. StatusInv'
    BY <1>a, <2>1 DEF StatusInv
  <2>3. ASSUME NEW r \in running, Scheduled(r) PROVE RunInv(r)'
    <3>1. RunInv(r) /\ ~R!Overdue(r)
      BY <1>6, <2>3 DEF RunsInv, R!NextSlot, Scheduled
    <3>2. slot' - r.start = 1
      BY <1>a, <2>1, <3>1 DEF RunInv, StatusInv, R!Overdue
    <3> QED BY <2>1, <3>1, <3>2 DEF RunInv
  <2> QED BY <2>1, <2>2, <2>3 DEF RunsInv, Scheduled
<1>7. CASE UNCHANGED R!vars
  BY <1>7 DEF R!vars, RunsInv, StatusInv, RunInv, Scheduled
<1> QED BY <1>1, <1>2, <1>3, <1>4, <1>5, <1>6, <1>7 DEF R!Next

\* A behaviour of the services is one of the scheduler.
LEMMA RunsOfServices ==
  /\ Init => RunsInv
  /\ [Next]_vars => [R!Next]_(R!vars)
<1>1. Init => RunsInv
  BY ServicesAssumption
  DEF Init, R!Init, R!Pending, R!RunnerAssumption, RunsInv, StatusInv, States
<1> QED BY <1>1 DEF Next, vars, rVars, R!vars

\* The status of a script tells of its newest run, although two jobs may run it
\* and each writes the status only when its own run ends: a run of the one job
\* has been killed before the other is due.
THEOREM NewestRunShows == Spec => StatusOfNewestRun
<1>1. ASSUME RunsInv, [R!Next]_(R!vars)
      PROVE  [\A k \in Scripts :
                status'[k] # status[k] /\ status'[k] # R!Pending
                  => status'[k].start >= status[k].start]_(R!vars)
  <2> SUFFICES ASSUME R!Next, NEW k \in Scripts,
                      status'[k] # status[k], status'[k] # R!Pending
               PROVE  status'[k].start >= status[k].start
    BY <1>1
  <2>1. /\ status \in [Scripts -> [state: States, start: Nat]]
        /\ slot \in Nat /\ status[k].start \in 0 .. slot
    BY <1>1 DEF RunsInv, StatusInv
  <2>2. ASSUME NEW j \in R!ScriptJobs, R!FireJob(j)
        PROVE  status'[k].start >= status[k].start
    <3>1. PICK s \in {"running", "missing", "error"} :
            status' = [status EXCEPT ![R!ScriptOf[j]] = [state |-> s, start |-> slot]]
      BY <2>2 DEF R!FireJob
    <3>2. status'[k].start = slot
      BY <2>1, <3>1
    <3> QED BY <2>1, <3>2
  <2>3. CASE R!EndScheduled
    <3>1. PICK r \in running, s \in {"ok", "error", "timeout"} :
            /\ Scheduled(r)
            /\ status' = [status EXCEPT ![r.key] = [state |-> s, start |-> r.start]]
      BY <2>3 DEF R!EndScheduled, Scheduled
    <3>2. k = r.key /\ status'[k].start = r.start
      BY <2>1, <3>1
    <3>3. RunInv(r)
      BY <1>1, <3>1 DEF RunsInv
    <3> QED BY <2>1, <3>2, <3>3 DEF RunInv
  <2>4. CASE R!Restart
    BY <2>4 DEF R!Restart
  <2> QED
    BY <2>2, <2>3, <2>4
    DEF R!Next, R!RunScript, R!RunGroup, R!StartsFor, R!EndByHand, R!NextSlot
<1> QED
  BY <1>1, RunsStep, RunsOfServices, PTL
  DEF Spec, StatusOfNewestRun, R!StatusOfNewestRun

-----------------------------------------------------------------------------
(* The market data.  The property speaks of what was read; what makes a      *)
(* read right is the filter, so the invariant says that the filter is the    *)
(* lock holder's once it has set it, unless the setting failed or somebody   *)
(* without the lock has set it since.                                        *)

KindsOfRequest == {"none", "system", "partial", "dedicated", "chart"}

FlowRequest ==
  [ticker: M!Tickers \union {None}, kind: KindsOfRequest,
   todo: Seq({"set"} \union M!Widgets),
   got: [M!Widgets -> M!Tickers \union {None}], mixed: BOOLEAN, unset: BOOLEAN]

ReqInv == req \in [Requests -> FlowRequest]

\* A slot that is idle holds no lock; who holds it is of a kind that takes it.
LockInv ==
  \A r \in Requests :
    lock = r => req[r].ticker # None /\ M!Locks(req[r].kind)

Excused(q) == q.mixed \/ q.unset

\* The holder of the lock has everything before it, or its ticker is filtered.
FilterInv ==
  \A r \in Requests :
    lock = r => \/ req[r].todo = M!Plan(req[r].kind)
                \/ Excused(req[r])
                \/ filter = req[r].ticker

FlowInv == M!TypeOK /\ ReqInv /\ LockInv /\ FilterInv /\ M!LockedReadsOwn

\* Every plan sets the filter first.
LEMMA PlanSetsFirst ==
  ASSUME NEW k \in KindsOfRequest
  PROVE  /\ M!Plan(k) \in Seq({"set"} \union M!Widgets)
         /\ M!Plan(k) # << >> /\ M!Plan(k)[1] = "set"
<1> DEFINE Steps == {"set", "gex", "dp", "drift"}
<1>1. {"set"} \union M!Widgets = Steps
  BY DEF M!Widgets
<1>2. \/ M!Plan(k) = <<"set", "gex", "set", "dp", "set", "drift">>
      \/ M!Plan(k) = <<"set", "set", "gex", "dp", "set", "drift">>
      \/ M!Plan(k) = <<"set", "gex", "dp", "drift">>
      \/ M!Plan(k) = <<"set", "set", "dp", "gex">>
  BY DEF M!Plan, KindsOfRequest
<1>3. /\ <<"set", "gex", "set", "dp", "set", "drift">> \in Seq(Steps)
      /\ <<"set", "set", "gex", "dp", "set", "drift">> \in Seq(Steps)
      /\ <<"set", "gex", "dp", "drift">> \in Seq(Steps)
      /\ <<"set", "set", "dp", "gex">> \in Seq(Steps)
  OBVIOUS
<1>4. M!Plan(k) # << >> /\ M!Plan(k)[1] = "set"
  BY <1>2
<1> QED BY <1>1, <1>2, <1>3, <1>4

LEMMA IdleIsFlowRequest == M!FlowAssumption => M!Idle \in FlowRequest
  BY DEF M!Idle, FlowRequest, KindsOfRequest

LEMMA FlowInit == ASSUME M!FlowAssumption, M!Init PROVE FlowInv
<1>1. M!Idle.kind = "none" /\ M!Idle.ticker = None
  BY DEF M!Idle
<1>2. M!TypeOK
  BY <1>1 DEF M!Init, M!TypeOK, M!FlowAssumption
<1>3. ReqInv
  BY IdleIsFlowRequest DEF M!Init, ReqInv
<1>4. LockInv /\ FilterInv
  BY DEF M!Init, LockInv, FilterInv, M!FlowAssumption
<1>5. M!LockedReadsOwn
  BY <1>1 DEF M!Init, M!LockedReadsOwn
<1> QED BY <1>2, <1>3, <1>4, <1>5 DEF FlowInv

------------------------------------------------------------------------------
(* The steps                                                               *)

\* A request that begins is of a kind and has all of its plan before it.
LEMMA FlowBegin ==
  ASSUME M!FlowAssumption, FlowInv, NEW r \in Requests, NEW t \in M!Tickers,
         M!Ask(r, t) \/ M!DrawChart(r, t)
  PROVE  FlowInv'
<1>1. PICK k \in KindsOfRequest :
        req' = [req EXCEPT ![r].ticker = t, ![r].kind = k, ![r].todo = M!Plan(k)]
  BY DEF M!Ask, M!DrawChart, M!Kind, KindsOfRequest
<1>2. /\ req[r] = M!Idle
      /\ UNCHANGED <<filter, lock, intel>>
      /\ asked' = asked + 1 /\ asked < MaxAsked
  BY DEF M!Ask, M!DrawChart
<1>3. lock # r
  BY <1>2 DEF FlowInv, LockInv, M!Idle
<1>4. req[r] \in FlowRequest
  BY DEF FlowInv, ReqInv
<1>5. /\ req'[r] \in FlowRequest
      /\ req'[r].got = M!Idle.got
      /\ \A q \in Requests \ {r} : req'[q] = req[q]
      /\ req' \in [Requests -> FlowRequest]
  <2>1. M!Plan(k) \in Seq({"set"} \union M!Widgets)
    BY PlanSetsFirst
  <2>2. req'[r] = [req[r] EXCEPT !.ticker = t, !.kind = k, !.todo = M!Plan(k)]
    BY <1>1 DEF FlowInv, ReqInv
  <2>3. req'[r] \in FlowRequest
    BY <1>4, <2>1, <2>2 DEF FlowRequest
  <2>4. req'[r].got = M!Idle.got
    BY <1>2, <1>4, <2>2 DEF FlowRequest
  <2>5. req' = [req EXCEPT ![r] = [req[r] EXCEPT !.ticker = t, !.kind = k, !.todo = M!Plan(k)]]
    BY <1>1
  <2> QED BY <2>2, <2>3, <2>4, <2>5 DEF FlowInv, ReqInv
<1>6. M!TypeOK'
  BY <1>2, <1>5 DEF FlowInv, M!TypeOK, M!FlowAssumption, FlowRequest
<1>7. LockInv' /\ FilterInv'
  BY <1>2, <1>3, <1>5 DEF FlowInv, LockInv, FilterInv
<1>8. M!LockedReadsOwn'
  BY <1>5 DEF FlowInv, M!LockedReadsOwn, M!Idle
<1> QED BY <1>5, <1>6, <1>7, <1>8 DEF FlowInv, ReqInv

LEMMA FlowAcquire ==
  ASSUME M!FlowAssumption, FlowInv, NEW r \in Requests, M!Acquire(r)
  PROVE  FlowInv'
<1>1. UNCHANGED <<filter, req, intel, asked>> /\ lock' = r /\ lock = None
  BY DEF M!Acquire
<1>2. M!TypeOK' /\ ReqInv' /\ M!LockedReadsOwn'
  BY <1>1 DEF FlowInv, M!TypeOK, ReqInv, M!LockedReadsOwn
<1>3. LockInv' /\ FilterInv'
  BY <1>1 DEF M!Acquire, M!Begins, FlowInv, LockInv, FilterInv
<1> QED BY <1>2, <1>3 DEF FlowInv

\* What a step leaves of the plan is a plan's rest.
LEMMA RestIsSequence ==
  ASSUME FlowInv, NEW r \in Requests, M!Runs(r)
  PROVE  M!Rest(r) \in Seq({"set"} \union M!Widgets)
  BY DEF FlowInv, ReqInv, FlowRequest, M!Runs, M!Rest

\* The filter is the request's own; everybody it is taken from is marked, but the
\* holder of the lock, who is alone in having it.
LEMMA FlowSetFilter ==
  ASSUME M!FlowAssumption, FlowInv, NEW r \in Requests, M!SetFilter(r)
  PROVE  FlowInv'
<1> DEFINE mine == [req[r] EXCEPT !.todo = M!Rest(r)]
           Theirs(q) == [req[q] EXCEPT
                           !.mixed = @ \/ (lock # r /\ req[q].ticker # None)]
<1>1. /\ req' = [q \in Requests |-> IF q = r THEN mine ELSE Theirs(q)]
      /\ filter' = req[r].ticker
      /\ UNCHANGED <<lock, intel, asked>>
  BY DEF M!SetFilter
<1>2. req \in [Requests -> FlowRequest] /\ req[r] \in FlowRequest
  BY DEF FlowInv, ReqInv
<1>3. mine \in FlowRequest /\ mine.ticker = req[r].ticker /\ mine.kind = req[r].kind
      /\ mine.got = req[r].got /\ mine.mixed = req[r].mixed /\ mine.unset = req[r].unset
  <2>1. M!Rest(r) \in Seq({"set"} \union M!Widgets)
    BY RestIsSequence DEF M!SetFilter
  <2> QED BY <1>2, <2>1 DEF FlowRequest
<1>4. ASSUME NEW q \in Requests
      PROVE  /\ Theirs(q) \in FlowRequest
             /\ Theirs(q).ticker = req[q].ticker /\ Theirs(q).kind = req[q].kind
             /\ Theirs(q).got = req[q].got /\ Theirs(q).todo = req[q].todo
             /\ Theirs(q).unset = req[q].unset
             /\ Theirs(q).mixed = (req[q].mixed \/ (lock # r /\ req[q].ticker # None))
  <2>1. req[q] \in FlowRequest
    BY <1>2
  <2>2. (req[q].mixed \/ (lock # r /\ req[q].ticker # None)) \in BOOLEAN
    BY <2>1 DEF FlowRequest
  <2> QED BY <2>1, <2>2 DEF FlowRequest
<1> HIDE DEF mine, Theirs
<1>5. ReqInv'
  BY <1>1, <1>3, <1>4 DEF ReqInv
<1>6. M!TypeOK'
  BY <1>1, <1>2, <1>5 DEF FlowInv, M!TypeOK, ReqInv, FlowRequest
<1>7. ASSUME NEW q \in Requests
      PROVE  /\ req'[q].ticker = req[q].ticker /\ req'[q].kind = req[q].kind
             /\ req'[q].got = req[q].got /\ req'[q].unset = req[q].unset
             /\ ~req'[q].mixed => ~req[q].mixed
  BY <1>1, <1>3, <1>4
<1>8. LockInv'
  BY <1>1, <1>7 DEF FlowInv, LockInv
<1>9. FilterInv'
  <2> SUFFICES ASSUME NEW q \in Requests, lock = q
               PROVE  \/ req'[q].todo = M!Plan(req'[q].kind)
                      \/ Excused(req'[q])
                      \/ filter' = req'[q].ticker
    BY <1>1 DEF FilterInv
  <2>1. CASE q = r
    BY <1>1, <1>7, <2>1
  <2>2. CASE q # r
    <3>1. req[q].ticker # None
      BY DEF FlowInv, LockInv
    <3> QED BY <1>1, <1>4, <2>2, <3>1 DEF Excused
  <2> QED BY <2>1, <2>2
<1>10. M!LockedReadsOwn'
  BY <1>7 DEF FlowInv, M!LockedReadsOwn
<1> QED BY <1>5, <1>6, <1>8, <1>9, <1>10 DEF FlowInv

LEMMA FlowSetFails ==
  ASSUME M!FlowAssumption, FlowInv, NEW r \in Requests, M!SetFails(r)
  PROVE  FlowInv'
<1> DEFINE mine == [req[r] EXCEPT !.todo = M!Rest(r), !.unset = TRUE]
<1>1. req' = [req EXCEPT ![r] = mine] /\ UNCHANGED <<filter, lock, intel, asked>>
  BY DEF M!SetFails
<1>2. req \in [Requests -> FlowRequest] /\ req[r] \in FlowRequest
  BY DEF FlowInv, ReqInv
<1>3. /\ mine \in FlowRequest /\ mine.unset
      /\ mine.ticker = req[r].ticker /\ mine.kind = req[r].kind
  <2>1. M!Rest(r) \in Seq({"set"} \union M!Widgets)
    BY RestIsSequence DEF M!SetFails
  <2> QED BY <1>2, <2>1 DEF FlowRequest
<1> HIDE DEF mine
<1>4. ReqInv' /\ M!TypeOK'
  BY <1>1, <1>2, <1>3 DEF FlowInv, ReqInv, M!TypeOK, FlowRequest
<1>5. LockInv' /\ FilterInv' /\ M!LockedReadsOwn'
  BY <1>1, <1>2, <1>3 DEF FlowInv, LockInv, FilterInv, Excused, M!LockedReadsOwn
<1> QED BY <1>4, <1>5 DEF FlowInv

\* A widget shows the filter, which is the reader's if it holds the lock and is
\* not excused: what has everything before it has to set the filter first.
LEMMA FlowFetch ==
  ASSUME M!FlowAssumption, FlowInv, NEW r \in Requests, NEW ok \in BOOLEAN, M!Fetch(r, ok)
  PROVE  FlowInv'
<1> DEFINE read == IF ok THEN filter ELSE None
           mine == [req[r] EXCEPT !.todo = M!Rest(r), !.got[M!Doing(r)] = read]
<1>1. /\ req' = [req EXCEPT ![r] = mine] /\ UNCHANGED <<filter, lock, intel, asked>>
      /\ M!Doing(r) \in M!Widgets /\ M!Runs(r)
  BY DEF M!Fetch
<1>2. req \in [Requests -> FlowRequest] /\ req[r] \in FlowRequest
  BY DEF FlowInv, ReqInv
<1>3. read \in M!Tickers \union {None}
  BY DEF FlowInv, M!TypeOK
<1>4. /\ mine \in FlowRequest
      /\ mine.ticker = req[r].ticker /\ mine.kind = req[r].kind
      /\ mine.mixed = req[r].mixed /\ mine.unset = req[r].unset
      /\ mine.got = [req[r].got EXCEPT ![M!Doing(r)] = read]
  <2>1. M!Rest(r) \in Seq({"set"} \union M!Widgets)
    BY <1>1, RestIsSequence
  <2> HIDE DEF read
  <2> QED BY <1>1, <1>2, <1>3, <2>1 DEF FlowRequest
<1>5. req[r].todo # M!Plan(req[r].kind)
  <2>1. req[r].kind \in KindsOfRequest
    BY <1>2 DEF FlowRequest
  <2>2. M!Plan(req[r].kind)[1] = "set"
    BY <2>1, PlanSetsFirst
  <2> QED BY <1>1, <2>2 DEF M!Doing, M!Widgets
<1>6. M!Locks(req[r].kind) => Excused(req[r]) \/ filter = req[r].ticker
  BY <1>1, <1>5 DEF M!Runs, FlowInv, FilterInv
<1> HIDE DEF mine
<1>7. ReqInv' /\ M!TypeOK'
  BY <1>1, <1>2, <1>4 DEF FlowInv, ReqInv, M!TypeOK, FlowRequest
<1>8. LockInv' /\ FilterInv'
  BY <1>1, <1>2, <1>4, <1>5 DEF FlowInv, LockInv, FilterInv, Excused
<1>9. M!LockedReadsOwn'
  <2> SUFFICES ASSUME NEW q \in Requests, NEW w \in M!Widgets,
                      req'[q].kind \in {"system", "partial"},
                      ~req'[q].mixed, ~req'[q].unset
               PROVE  req'[q].got[w] \in {None, req'[q].ticker}
    BY DEF M!LockedReadsOwn
  <2>1. CASE q # r
    BY <1>1, <1>2, <2>1 DEF FlowInv, M!LockedReadsOwn
  <2>2. CASE q = r
    <3>1. read \in {None, req[r].ticker}
      BY <1>1, <1>2, <1>4, <1>6, <2>2 DEF M!Locks, Excused
    <3>2. req[r].got[w] \in {None, req[r].ticker}
      BY <1>1, <1>2, <1>4, <2>2 DEF FlowInv, M!LockedReadsOwn
    <3>3. req[r].got \in [M!Widgets -> M!Tickers \union {None}]
      BY <1>2 DEF FlowRequest
    <3> HIDE DEF read
    <3> QED BY <1>1, <1>2, <1>4, <2>2, <3>1, <3>2, <3>3
  <2> QED BY <2>1, <2>2
<1> QED BY <1>7, <1>8, <1>9 DEF FlowInv

LEMMA FlowFinish ==
  ASSUME M!FlowAssumption, FlowInv, NEW r \in Requests, M!Finish(r)
  PROVE  FlowInv'
<1>1. /\ req' = [req EXCEPT ![r] = M!Idle] /\ UNCHANGED <<filter, asked>>
      /\ lock' = (IF lock = r THEN None ELSE lock)
  BY DEF M!Finish
<1>2. req \in [Requests -> FlowRequest] /\ req[r] \in FlowRequest
  BY DEF FlowInv, ReqInv
<1>3. M!Idle \in FlowRequest /\ M!Idle.kind = "none" /\ M!Idle.ticker = None
  BY IdleIsFlowRequest DEF M!Idle
<1>4. ReqInv'
  BY <1>1, <1>2, <1>3 DEF ReqInv
<1>5. M!TypeOK'
  <2>1. intel' \in [M!Tickers -> SUBSET (M!Tickers \union {None})]
    <3>1. {req[r].got[w] : w \in M!Widgets} \subseteq M!Tickers \union {None}
      BY <1>2 DEF FlowRequest
    <3> QED BY <3>1 DEF M!Finish, FlowInv, M!TypeOK
  <2> QED BY <1>1, <1>4, <2>1 DEF FlowInv, M!TypeOK, ReqInv, FlowRequest
<1>6. lock' # r /\ \A q \in Requests : lock' = q => lock = q /\ req'[q] = req[q]
  BY <1>1, <1>2 DEF M!FlowAssumption
<1>7. LockInv' /\ FilterInv'
  BY <1>1, <1>6 DEF FlowInv, LockInv, FilterInv
<1>8. M!LockedReadsOwn'
  BY <1>1, <1>2, <1>3 DEF FlowInv, M!LockedReadsOwn
<1> QED BY <1>4, <1>5, <1>7, <1>8 DEF FlowInv

LEMMA FlowNext == ASSUME M!FlowAssumption, FlowInv, [M!Next]_(M!vars) PROVE FlowInv'
<1>1. ASSUME NEW r \in Requests, M!Step(r) PROVE FlowInv'
  BY <1>1, FlowAcquire, FlowSetFilter, FlowSetFails, FlowFetch, FlowFinish DEF M!Step
<1>2. ASSUME NEW t \in M!Tickers, M!Expire(t) PROVE FlowInv'
  BY <1>2 DEF M!Expire, FlowInv, M!TypeOK, ReqInv, LockInv, FilterInv, M!LockedReadsOwn
<1>3. CASE UNCHANGED M!vars
  BY <1>3 DEF M!vars, FlowInv, M!TypeOK, ReqInv, LockInv, FilterInv, M!LockedReadsOwn
<1> QED BY <1>1, <1>2, <1>3, FlowBegin DEF M!Next

------------------------------------------------------------------------------

\* A behaviour of the services is one of the market data.
LEMMA FlowOfServices ==
  /\ Init => FlowInv
  /\ FlowInv /\ [Next]_vars => FlowInv'
<1>1. Init => FlowInv
  BY ServicesAssumption, FlowInit DEF Init
<1>2. [Next]_vars => [M!Next]_(M!vars)
  BY DEF Next, vars, restVars, mVars, M!vars
<1> QED BY <1>1, <1>2, ServicesAssumption, FlowNext

\* Filter, lock, requests and cache keep their types.
THEOREM FlowTypes == Spec => []M!TypeOK
<1>1. FlowInv => M!TypeOK
  BY DEF FlowInv
<1> QED BY <1>1, FlowOfServices, PTL DEF Spec

\* However many requests and tickers there are, those that hold _QD_SYSTEM_LOCK
\* (market_intelligence.py) do not read each other's tickers.
THEOREM LockKeepsTickersApart == Spec => []LockedReadsOwn
<1>1. FlowInv => LockedReadsOwn
  BY DEF FlowInv, LockedReadsOwn
<1> QED BY <1>1, FlowOfServices, PTL DEF Spec

------------------------------------------------------------------------------
(* The configuration.  The lock of config_store.py is enough for cfg() to     *)
(* reflect every answered update, with any number of threads, updates,       *)
(* resets, failed saves and restarts.  The promise speaks of answered        *)
(* requests only; what is inductive is that the memory also reflects what    *)
(* the requests under way have merged, and that no request has merged an     *)
(* update that has not been made, so that a reset wipes them all.            *)

\* Writing a piece of a configuration keeps a text a text.
LEMMA PieceWritten ==
  ASSUME NEW x \in TextSet(Config), NEW d \in Config
  PROVE  /\ [x EXCEPT !.head = {d}] \in TextSet(Config)
         /\ [x EXCEPT !.tail = {d}] \in TextSet(Config)
<1>1. {d} \in Piece(Config)
  BY DEF Piece
<1>2. QED
  BY <1>1 DEF TextSet

\* The empty text is a text.
LEMMA BlankType == Blank \in TextSet(Config)
BY DEF Blank, TextSet, Piece

\* No request, and the defaults.
LEMMA NoRequestType == NoRequest \in Thread /\ {} \in Config
BY DEF NoRequest, Thread, Config

\* A start loads a configuration.
LEMMA LoadedType ==
  ASSUME TypeOK
  PROVE  Loaded \in Config
<1>1. CASE conf = 0
  BY <1>1, NoRequestType DEF Loaded
<1>2. CASE conf # 0
  <2>1. text[conf] \in TextSet(Config)
    BY <1>2 DEF TypeOK
  <2>2. text[conf].head \subseteq Config
    BY <2>1 DEF TextSet, Piece
  <2>3. UNION Parse(text[conf]) \in SUBSET Update
    BY <2>2 DEF Parse, Config
  <2>4. QED
    BY <1>2, <2>3 DEF Loaded, Config
<1>3. QED
  BY <1>1, <1>2

\* A merge makes the next update, within the bound.
LEMMA MergeType ==
  ASSUME TypeOK, NEW u \in Update, Merge(u)
  PROVE  mem' \in Config /\ updates' \in 0..MaxUpdates
BY ConfigAssumption
   DEF TypeOK, Merge, Config, Update, ConfigAssumption

\* A request that begins.
LEMMA BeginType ==
  ASSUME TypeOK, NEW t \in Workers, NEW made \in Config, NEW todo \in Nat,
         Begin(t, made, todo)
  PROVE  th' \in [Workers -> Thread] /\ overlapped' \in BOOLEAN
<1>1. [NoRequest EXCEPT !.pc = "snapshot", !.made = made, !.todo = todo]
        \in Thread
  BY NoRequestType DEF Thread
<1>2. overlapped' \in BOOLEAN
  BY DEF Begin
<1>3. QED
  BY <1>1, <1>2 DEF Begin, TypeOK

-----------------------------------------------------------------------------

\* Type correctness of the configuration store: memory, files and requests stay
\* what the code makes them, and the counters within their bounds.
THEOREM ConfigTypeCorrect == ConfigSpec => []TypeOK
<1>1. ConfigInit => TypeOK
  <2> SUFFICES ASSUME ConfigInit
               PROVE  TypeOK
    OBVIOUS
  <2>1. text \in [Inodes -> TextSet(Config)]
    BY BlankType DEF ConfigInit
  <2>2. th \in [Workers -> Thread]
    BY NoRequestType DEF ConfigInit
  <2>3. {overlapped, unsaved, fellBack, restarted} \subseteq BOOLEAN
    BY DEF ConfigInit
  <2>4. {conf, bak, tmp} \subseteq Inodes \union {0}
    BY DEF ConfigInit
  <2>5. QED
    BY <2>1, <2>2, <2>3, <2>4, NoRequestType, ConfigAssumption
       DEF ConfigInit, TypeOK, ConfigAssumption
<1>2. TypeOK /\ [ConfigNext]_configVars => TypeOK'
  <2> SUFFICES ASSUME TypeOK, [ConfigNext]_configVars
               PROVE  TypeOK'
    OBVIOUS
  <2> USE DEF TypeOK, counts, history, files
  <2>1. ASSUME NEW t \in Workers, UpdateSection(t)
        PROVE  TypeOK'
    <3>1. PICK u \in Update, todo \in {0, 1} :
            Merge(u) /\ Begin(t, {u}, todo) /\ UNCHANGED <<resets, wiped>>
      BY <2>1 DEF UpdateSection
    <3>2. {u} \in Config /\ todo \in Nat
      BY DEF Config
    <3>3. th' \in [Workers -> Thread] /\ overlapped' \in BOOLEAN
      BY <3>1, <3>2, BeginType
    <3>4. mem' \in Config /\ updates' \in 0..MaxUpdates
      BY <3>1, MergeType
    <3>5. QED
      BY <3>1, <3>3, <3>4 DEF Begin
  <2>2. ASSUME NEW t \in Workers, ResetToDefaults(t)
        PROVE  TypeOK'
    <3>1. PICK todo \in {0, 1} : Begin(t, {}, todo)
      BY <2>2 DEF ResetToDefaults
    <3>2. th' \in [Workers -> Thread] /\ overlapped' \in BOOLEAN
      BY <3>1, BeginType, NoRequestType
    <3>3. resets' \in 0..MaxResets
      BY <2>2, ConfigAssumption DEF ResetToDefaults, ConfigAssumption
    <3>4. wiped' \in Config
      BY <2>2, ConfigAssumption
         DEF ResetToDefaults, Config, Update, ConfigAssumption
    <3>5. QED
      BY <2>2, <3>1, <3>2, <3>3, <3>4, NoRequestType
         DEF ResetToDefaults, Begin
  <2>3. ASSUME NEW t \in Workers, Snapshot(t)
        PROVE  TypeOK'
    <3>1. th' \in [Workers -> Thread]
      BY <2>3 DEF Snapshot, Thread
    <3>2. QED
      BY <2>3, <3>1 DEF Snapshot
  <2>4. ASSUME NEW t \in Workers, OpenTmp(t)
        PROVE  TypeOK'
    <3>1. PICK i \in Inodes :
            /\ tmp' = i
            /\ text' = [text EXCEPT ![i] = Blank]
            /\ th' = [th EXCEPT ![t] = [@ EXCEPT !.pc = "head", !.file = i]]
      BY <2>4 DEF OpenTmp
    <3>2. text' \in [Inodes -> TextSet(Config)]
      BY <3>1, BlankType
    <3>3. th' \in [Workers -> Thread]
      BY <3>1 DEF Thread
    <3>4. QED
      BY <2>4, <3>1, <3>2, <3>3 DEF OpenTmp
  <2>5. ASSUME NEW t \in Workers, WriteHead(t)
        PROVE  TypeOK'
    <3>1. th[t].data \in Config
      BY DEF Thread
    <3>2. text' \in [Inodes -> TextSet(Config)]
      BY <2>5, <3>1, PieceWritten DEF WriteHead
    <3>3. th' \in [Workers -> Thread]
      BY <2>5 DEF WriteHead, Goes, Thread
    <3>4. QED
      BY <2>5, <3>2, <3>3 DEF WriteHead
  <2>6. ASSUME NEW t \in Workers, WriteTail(t)
        PROVE  TypeOK'
    <3>1. th[t].data \in Config
      BY DEF Thread
    <3>2. text' \in [Inodes -> TextSet(Config)]
      BY <2>6, <3>1, PieceWritten DEF WriteTail
    <3>3. th' \in [Workers -> Thread]
      BY <2>6 DEF WriteTail, Thread
    <3>4. QED
      BY <2>6, <3>2, <3>3 DEF WriteTail
  <2>7. ASSUME NEW t \in Workers, Rotate(t)
        PROVE  TypeOK'
    <3>1. th' \in [Workers -> Thread]
      BY <2>7 DEF Rotate, Goes, Thread
    <3>2. QED
      BY <2>7, <3>1 DEF Rotate
  <2>8. ASSUME NEW t \in Workers, ReplaceFails(t)
        PROVE  TypeOK'
    BY <2>8, NoRequestType DEF ReplaceFails
  <2>9. ASSUME NEW t \in Workers, Answer(t)
        PROVE  TypeOK'
    <3>1. acked' \in Config
      BY <2>9 DEF Answer, Thread, Config
    <3>2. QED
      BY <2>9, <3>1, NoRequestType DEF Answer, Renamed
  <2>10. ASSUME NEW t \in Workers, NextSection(t)
         PROVE  TypeOK'
    <3>1. PICK u \in Update :
            /\ Renamed
            /\ Merge(u)
            /\ th' = [th EXCEPT ![t] =
                        [th[t] EXCEPT !.pc = "snapshot",
                                      !.todo = th[t].todo - 1,
                                      !.made = th[t].made \union {u}]]
      BY <2>10 DEF NextSection
    <3>2. th[t].todo - 1 \in Nat
      BY <2>10 DEF NextSection, Thread
    <3>3. th[t].made \union {u} \in Config
      BY DEF Thread, Config
    <3>4. th' \in [Workers -> Thread]
      <4>1. [th[t] EXCEPT !.pc = "snapshot", !.todo = th[t].todo - 1,
                          !.made = th[t].made \union {u}] \in Thread
        BY <3>2, <3>3 DEF Thread
      <4>2. QED
        BY <3>1, <4>1
    <3>5. mem' \in Config /\ updates' \in 0..MaxUpdates
      BY <3>1, MergeType
    <3>6. QED
      BY <2>10, <3>1, <3>4, <3>5 DEF NextSection, Renamed
  <2>11. ASSUME NEW t \in Workers, SaveFails(t)
         PROVE  TypeOK'
    BY <2>11, NoRequestType, ConfigAssumption DEF SaveFails, ConfigAssumption
  <2>12. CASE Restart
    <3>1. fellBack' \in BOOLEAN
      BY <2>12 DEF Restart
    <3>2. restarted' \in BOOLEAN /\ unsaved' \in BOOLEAN /\ overlapped' \in BOOLEAN
      BY <2>12 DEF Restart
    <3>3. {overlapped, unsaved, fellBack, restarted}' \subseteq BOOLEAN
      BY <3>1, <3>2
    <3>4. th' \in [Workers -> Thread]
      BY <2>12, NoRequestType DEF Restart
    <3>5. faults' \in 0..MaxFaults
      BY <2>12, ConfigAssumption DEF Restart, ConfigAssumption
    <3>6. QED
      BY <2>12, <3>3, <3>4, <3>5, LoadedType DEF Restart
  <2>13. CASE UNCHANGED configVars
    BY <2>13 DEF configVars
  <2>14. QED
    BY <2>1, <2>2, <2>3, <2>4, <2>5, <2>6, <2>7, <2>8, <2>9, <2>10, <2>11,
       <2>12, <2>13 DEF ConfigNext, Request
<1>3. QED
  BY <1>1, <1>2, PTL DEF ConfigSpec

-----------------------------------------------------------------------------
(* The memory.                                                             *)

\* What is answered or under way has been made, and is in memory unless a
\* reset has wiped it.
Made(t) == th[t].made
MadeInv ==
  /\ acked \subseteq 1..updates
  /\ \A t \in Workers : Made(t) \subseteq 1..updates
  /\ ~restarted => /\ acked \ wiped \subseteq mem
                   /\ \A t \in Workers : Made(t) \ wiped \subseteq mem

\* A step that leaves the memory alone keeps the invariant if each request has
\* made what it had, or nothing.
LEMMA MemoryUntouched ==
  ASSUME MadeInv, UNCHANGED <<mem, updates, wiped, acked>>,
         restarted' = restarted,
         \A t \in Workers : Made(t)' \in {Made(t), {}}
  PROVE  MadeInv'
BY DEF MadeInv

\* A merge adds to the memory what the request adds to its record.
LEMMA MergeKeeps ==
  ASSUME TypeOK, MadeInv, NEW u \in Update, Merge(u),
         UNCHANGED <<acked, wiped, restarted>>,
         \A t \in Workers : Made(t)' \subseteq Made(t) \union {u}
  PROVE  MadeInv'
<1>1. 1..updates \subseteq 1..updates' /\ u \in 1..updates'
  BY DEF Merge, TypeOK
<1>2. mem' = mem \union {u}
  BY DEF Merge
<1>3. QED
  BY <1>1, <1>2 DEF MadeInv

\* The invariant of the memory is inductive.
LEMMA MadeStep == TypeOK /\ MadeInv /\ [ConfigNext]_configVars => MadeInv'
<1> SUFFICES ASSUME TypeOK, MadeInv, [ConfigNext]_configVars
             PROVE  MadeInv'
  OBVIOUS
<1> USE DEF counts, history, files
<1>0. th \in [Workers -> Thread] /\ NoRequest.made = {}
  BY DEF TypeOK, NoRequest
<1>1. ASSUME NEW t \in Workers, UpdateSection(t)
      PROVE  MadeInv'
  <2>1. PICK u \in Update, todo \in {0, 1} :
          Merge(u) /\ Begin(t, {u}, todo) /\ UNCHANGED <<resets, wiped>>
    BY <1>1 DEF UpdateSection
  <2>2. \A s \in Workers : Made(s)' \subseteq Made(s) \union {u}
    BY <1>0, <2>1 DEF Begin, Made, NoRequest
  <2>3. QED
    BY <2>1, <2>2, MergeKeeps DEF Begin
<1>2. ASSUME NEW t \in Workers, ResetToDefaults(t)
      PROVE  MadeInv'
  <2>1. PICK todo \in {0, 1} : Begin(t, {}, todo)
    BY <1>2 DEF ResetToDefaults
  <2>2. \A s \in Workers : Made(s)' \in {Made(s), {}}
    BY <1>0, <2>1 DEF Begin, Made, NoRequest
  <2>3. QED
    BY <1>2, <2>1, <2>2 DEF ResetToDefaults, Begin, MadeInv
<1>3. ASSUME NEW t \in Workers,
             \/ Snapshot(t) \/ OpenTmp(t) \/ WriteHead(t) \/ WriteTail(t)
             \/ Rotate(t) \/ ReplaceFails(t) \/ SaveFails(t)
      PROVE  MadeInv'
  <2>1. UNCHANGED <<mem, updates, wiped, acked, restarted>>
    BY <1>3 DEF Snapshot, OpenTmp, WriteHead, WriteTail, Rotate, ReplaceFails,
                SaveFails
  <2>2. CASE ReplaceFails(t) \/ SaveFails(t)
    BY <1>0, <2>1, <2>2, MemoryUntouched DEF ReplaceFails, SaveFails, Made
  <2>3. CASE Rotate(t) \/ WriteHead(t)
    BY <1>0, <2>1, <2>3, MemoryUntouched
       DEF Rotate, WriteHead, Goes, Made, Thread
  <2>4. CASE Snapshot(t)
    BY <1>0, <2>1, <2>4, MemoryUntouched DEF Snapshot, Made, Thread
  <2>5. CASE OpenTmp(t)
    <3>1. PICK i \in Inodes :
            th' = [th EXCEPT ![t] = [@ EXCEPT !.pc = "head", !.file = i]]
      BY <2>5 DEF OpenTmp
    <3>2. QED
      BY <1>0, <2>1, <3>1, MemoryUntouched DEF Made, Thread
  <2>6. CASE WriteTail(t)
    BY <1>0, <2>1, <2>6, MemoryUntouched DEF WriteTail, Made, Thread
  <2>7. QED
    BY <1>3, <2>2, <2>3, <2>4, <2>5, <2>6
<1>4. ASSUME NEW t \in Workers, Answer(t)
      PROVE  MadeInv'
  <2>1. \A s \in Workers : Made(s)' \in {Made(s), {}}
    BY <1>0, <1>4 DEF Answer, Made
  <2>2. acked' = acked \union Made(t)
    BY <1>4 DEF Answer, Made
  <2>3. UNCHANGED <<mem, updates, wiped, restarted>>
    BY <1>4 DEF Answer, Renamed
  <2>4. QED
    BY <2>1, <2>2, <2>3 DEF MadeInv
<1>5. ASSUME NEW t \in Workers, NextSection(t)
      PROVE  MadeInv'
  <2>1. PICK u \in Update :
          /\ Renamed
          /\ Merge(u)
          /\ th' = [th EXCEPT ![t] =
                      [th[t] EXCEPT !.pc = "snapshot",
                                    !.todo = th[t].todo - 1,
                                    !.made = th[t].made \union {u}]]
          /\ UNCHANGED <<resets, acked>>
    BY <1>5 DEF NextSection
  <2>2. \A s \in Workers : Made(s)' \subseteq Made(s) \union {u}
    <3>1. TAKE s \in Workers
    <3>2. CASE s = t
      BY <1>0, <2>1, <3>2 DEF Made, Thread
    <3>3. CASE s # t
      BY <1>0, <2>1, <3>3 DEF Made
    <3>4. QED
      BY <3>2, <3>3
  <2>3. QED
    BY <2>1, <2>2, MergeKeeps DEF Renamed
<1>6. CASE Restart
  <2>1. \A s \in Workers : Made(s)' \in {Made(s), {}}
    BY <1>0, <1>6 DEF Restart, Made
  <2>2. restarted' = TRUE /\ UNCHANGED <<acked, updates>>
    BY <1>6 DEF Restart
  <2>3. QED
    BY <2>1, <2>2 DEF MadeInv
<1>7. CASE UNCHANGED configVars
  BY <1>7 DEF configVars, MadeInv, Made
<1>8. QED
  BY <1>1, <1>2, <1>3, <1>4, <1>5, <1>6, <1>7 DEF ConfigNext, Request

\* The lock is enough for the memory: however requests interleave and saves
\* fail, cfg() reflects every answered update until the next restart.
THEOREM MemoryIsEnough == ConfigSpec => []MemoryKeepsAnswered
<1>1. ConfigInit => MadeInv
  BY DEF ConfigInit, MadeInv, Made, NoRequest
<1>2. MadeInv => MemoryKeepsAnswered
  BY DEF MadeInv, MemoryKeepsAnswered, Owed
<1>3. QED
  BY <1>1, <1>2, MadeStep, ConfigTypeCorrect, PTL DEF ConfigSpec
-----------------------------------------------------------------------------
(* The file, as long as no two requests have overlapped.                   *)

\* What a thread in a save knows when no other request is under way: its
\* snapshot is the memory, the temporary file is its own and holds what it has
\* written so far, and between the renames there is no configuration file.
InSave(t) ==
  LET h == th[t] IN
  /\ h.made \ wiped \subseteq mem
  /\ h.pc \in {"open", "head", "tail", "rotate", "replace"} => h.data = mem
  /\ h.pc \in {"head", "tail", "rotate", "replace"} => tmp # 0
  /\ h.pc \in {"head", "tail"} => h.file = tmp
  /\ h.pc \in {"tail", "rotate", "replace"} => text[tmp].head = {h.data}
  /\ h.pc \in {"rotate", "replace"} => text[tmp].tail = {h.data}
  /\ h.pc = "replace" => conf = 0

FileFacts ==
  /\ \A s, t \in Workers : ~Idle(s) /\ ~Idle(t) => s = t
  /\ tmp # 0 => tmp # conf
  /\ Owed \subseteq mem
  /\ \A t \in Workers : InSave(t)
  /\ conf = 0 /\ bak = 0 => acked = {}
  /\ (\A t \in Workers : th[t].pc # "replace") => Owed \subseteq Loaded

FileInv == ~overlapped /\ ~fellBack => FileFacts

\* A step of the one thread in a request leaves the others idle, and what they
\* know true.
LEMMA OthersIdle ==
  ASSUME TypeOK, FileFacts, NEW t \in Workers, ~Idle(t), NEW x,
         th' = [th EXCEPT ![t] = x],
         mem \subseteq mem', wiped' = wiped
  PROVE  /\ \A s \in Workers : s # t => th'[s] = th[s] /\ th[s].pc = "idle"
         /\ \A s \in Workers : s # t => InSave(s)'
         /\ \A s, u \in Workers : ~Idle(s)' /\ ~Idle(u)' => s = u
<1>1. \A s \in Workers : s # t => th'[s] = th[s] /\ th[s].pc = "idle"
  BY DEF TypeOK, FileFacts, Idle
<1>2. \A s \in Workers : s # t => InSave(s)'
  BY <1>1 DEF FileFacts, InSave
<1>3. QED
  BY <1>1, <1>2 DEF Idle

\* The first step of a request finds every thread idle.
LEMMA BeginsAlone ==
  ASSUME TypeOK, FileFacts, NEW t \in Workers, NEW made, NEW todo,
         Begin(t, made, todo), ~overlapped'
  PROVE  /\ \A s \in Workers : th[s].pc = "idle"
         /\ \A s \in Workers : s # t => th'[s] = th[s]
         /\ th'[t].pc = "snapshot" /\ th'[t].made = made
BY DEF Begin, Idle, TypeOK, NoRequest

\* What the names and the inodes have to do with the memory is inductive.
LEMMA FileStep == TypeOK /\ MadeInv /\ FileInv /\ [ConfigNext]_configVars => FileInv'
<1> SUFFICES ASSUME TypeOK, MadeInv, FileInv, [ConfigNext]_configVars,
                    ~overlapped', ~fellBack'
             PROVE  FileFacts'
  BY DEF FileInv
<1> USE DEF counts, history, files
<1>0. th \in [Workers -> Thread] /\ NoRequest.made = {} /\ NoRequest.pc = "idle"
  BY DEF TypeOK, NoRequest
<1>1. FileFacts
  <2>1. CASE Restart
    BY <2>1 DEF Restart, FileInv
  <2>2. CASE UNCHANGED configVars
    BY <2>2 DEF configVars, FileInv
  <2>3. ASSUME NEW t \in Workers, Request(t)
        PROVE  ~overlapped /\ ~fellBack
    <3>1. fellBack' = fellBack
      BY <2>3 DEF Request, UpdateSection, ResetToDefaults, Begin, Snapshot,
                  OpenTmp, WriteHead, WriteTail, Rotate, ReplaceFails, Answer,
                  NextSection, SaveFails, Renamed
    <3>2. overlapped' = overlapped \/ (overlapped => overlapped')
      BY <2>3 DEF Request, UpdateSection, ResetToDefaults, Begin, Snapshot,
                  OpenTmp, WriteHead, WriteTail, Rotate, ReplaceFails, Answer,
                  NextSection, SaveFails, Renamed
    <3>3. QED
      BY <3>1, <3>2
  <2>4. QED
    BY <2>1, <2>2, <2>3 DEF ConfigNext, FileInv
<1>2. ASSUME NEW t \in Workers, UpdateSection(t)
      PROVE  FileFacts'
  <2>1. PICK u \in Update, todo \in {0, 1} :
          Merge(u) /\ Begin(t, {u}, todo) /\ UNCHANGED <<resets, wiped>>
    BY <1>2 DEF UpdateSection
  <2>2. /\ \A s \in Workers : th[s].pc = "idle"
        /\ \A s \in Workers : s # t => th'[s] = th[s]
        /\ th'[t].pc = "snapshot" /\ th'[t].made = {u}
    BY <1>1, <2>1, BeginsAlone
  <2>3. mem' = mem \union {u} /\ wiped' = wiped
    BY <2>1 DEF Merge
  <2>4. UNCHANGED <<conf, bak, tmp, text, acked>>
    BY <2>1 DEF Begin
  <2>5. \A s \in Workers : InSave(s)'
    BY <1>1, <2>2, <2>3 DEF FileFacts, InSave
  <2>6. Owed \subseteq Loaded /\ Owed' = Owed /\ Loaded' = Loaded
    BY <1>1, <2>2, <2>3, <2>4 DEF FileFacts, Owed, Loaded
  <2>7. QED
    BY <1>1, <2>2, <2>3, <2>4, <2>5, <2>6 DEF FileFacts, Idle
<1>3. ASSUME NEW t \in Workers, ResetToDefaults(t)
      PROVE  FileFacts'
  <2>1. PICK todo \in {0, 1} : Begin(t, {}, todo)
    BY <1>3 DEF ResetToDefaults
  <2>2. /\ \A s \in Workers : th[s].pc = "idle"
        /\ \A s \in Workers : s # t => th'[s] = th[s]
        /\ th'[t].pc = "snapshot" /\ th'[t].made = {}
    BY <1>1, <2>1, BeginsAlone
  <2>3. wiped' = 1..updates /\ UNCHANGED <<conf, bak, tmp, text, acked>>
    BY <1>3, <2>1 DEF ResetToDefaults, Begin
  <2>4. Owed' = {}
    BY <2>3 DEF Owed, MadeInv
  <2>5. \A s \in Workers : InSave(s)'
    BY <2>2, <2>3 DEF InSave, MadeInv, Made
  <2>6. QED
    BY <1>1, <2>2, <2>3, <2>4, <2>5 DEF FileFacts, Idle
<1>4. ASSUME NEW t \in Workers, Snapshot(t)
      PROVE  FileFacts'
  <2>1. /\ th' = [th EXCEPT ![t] = [th[t] EXCEPT !.pc = "open", !.data = mem]]
        /\ th[t].pc = "snapshot"
        /\ UNCHANGED <<mem, conf, bak, tmp, text, acked, wiped>>
    BY <1>4 DEF Snapshot
  <2>2. th'[t].pc = "open" /\ th'[t].data = mem /\ th'[t].made = th[t].made
    BY <1>0, <2>1 DEF Thread
  <2>3. InSave(t)'
    BY <1>1, <2>1, <2>2 DEF FileFacts, InSave
  <2>4. /\ \A s \in Workers : s # t => th'[s] = th[s] /\ th[s].pc = "idle"
        /\ \A s \in Workers : s # t => InSave(s)'
        /\ \A s, u \in Workers : ~Idle(s)' /\ ~Idle(u)' => s = u
    BY <1>1, <2>1, OthersIdle DEF Idle
  <2>5. (\A s \in Workers : th[s].pc # "replace") /\ Owed' = Owed /\ Loaded' = Loaded
    BY <2>1, <2>4 DEF Owed, Loaded
  <2>6. QED
    BY <1>1, <2>1, <2>3, <2>4, <2>5 DEF FileFacts
<1>5. ASSUME NEW t \in Workers, OpenTmp(t)
      PROVE  FileFacts'
  <2>1. PICK i \in Inodes :
          /\ th[t].pc = "open"
          /\ IF tmp = 0 THEN Unused(i) ELSE i = tmp
          /\ tmp' = i
          /\ text' = [text EXCEPT ![i] = Blank]
          /\ th' = [th EXCEPT ![t] = [th[t] EXCEPT !.pc = "head", !.file = i]]
          /\ UNCHANGED <<mem, conf, bak, acked, wiped>>
    BY <1>5 DEF OpenTmp
  <2>2. i # 0 /\ i # conf
    BY <1>1, <2>1, ConfigAssumption DEF FileFacts, Unused, ConfigAssumption
  <2>3. /\ th'[t].pc = "head" /\ th'[t].file = i
        /\ th'[t].data = th[t].data /\ th'[t].made = th[t].made
    BY <1>0, <2>1 DEF Thread
  <2>4. InSave(t)'
    BY <1>1, <2>1, <2>2, <2>3 DEF FileFacts, InSave
  <2>5. /\ \A s \in Workers : s # t => th'[s] = th[s] /\ th[s].pc = "idle"
        /\ \A s \in Workers : s # t => InSave(s)'
        /\ \A s, u \in Workers : ~Idle(s)' /\ ~Idle(u)' => s = u
    BY <1>1, <2>1, OthersIdle DEF Idle
  <2>6. Loaded' = Loaded
    BY <2>1, <2>2 DEF Loaded, TypeOK
  <2>7. (\A s \in Workers : th[s].pc # "replace") /\ Owed' = Owed
    BY <2>1, <2>5 DEF Owed
  <2>8. QED
    BY <1>1, <2>1, <2>2, <2>4, <2>5, <2>6, <2>7 DEF FileFacts
<1>6. ASSUME NEW t \in Workers, WriteHead(t)
      PROVE  FileFacts'
  <2>1. /\ th[t].pc = "head"
        /\ text' = [text EXCEPT ![th[t].file].head = {th[t].data}]
        /\ th' = [th EXCEPT ![t] = [th[t] EXCEPT !.pc = "tail"]]
        /\ UNCHANGED <<mem, conf, bak, tmp, acked, wiped>>
    BY <1>6 DEF WriteHead, Goes
  <2>2. th[t].file = tmp /\ tmp # 0 /\ tmp # conf /\ tmp \in Inodes
    BY <1>1, <2>1 DEF FileFacts, InSave, TypeOK
  <2>3. /\ th'[t].pc = "tail" /\ th'[t].file = th[t].file
        /\ th'[t].data = th[t].data /\ th'[t].made = th[t].made
    BY <1>0, <2>1 DEF Thread
  <2>4. text'[tmp].head = {th[t].data} /\ (conf # 0 => text'[conf] = text[conf])
    BY <2>1, <2>2 DEF TypeOK, TextSet
  <2>5. InSave(t)'
    BY <1>1, <2>1, <2>2, <2>3, <2>4 DEF FileFacts, InSave
  <2>6. /\ \A s \in Workers : s # t => th'[s] = th[s] /\ th[s].pc = "idle"
        /\ \A s \in Workers : s # t => InSave(s)'
        /\ \A s, u \in Workers : ~Idle(s)' /\ ~Idle(u)' => s = u
    BY <1>1, <2>1, OthersIdle DEF Idle
  <2>7. Loaded' = Loaded
    BY <2>1, <2>4 DEF Loaded
  <2>8. (\A s \in Workers : th[s].pc # "replace") /\ Owed' = Owed
    BY <2>1, <2>6 DEF Owed
  <2>9. QED
    BY <1>1, <2>1, <2>5, <2>6, <2>7, <2>8 DEF FileFacts
<1>7. ASSUME NEW t \in Workers, WriteTail(t)
      PROVE  FileFacts'
  <2>1. /\ th[t].pc = "tail"
        /\ text' = [text EXCEPT ![th[t].file].tail = {th[t].data}]
        /\ th' = [th EXCEPT ![t] = [th[t] EXCEPT !.pc = "rotate", !.file = 0]]
        /\ UNCHANGED <<mem, conf, bak, tmp, acked, wiped>>
    BY <1>7 DEF WriteTail
  <2>2. th[t].file = tmp /\ tmp # 0 /\ tmp # conf /\ tmp \in Inodes
    BY <1>1, <2>1 DEF FileFacts, InSave, TypeOK
  <2>3. /\ th'[t].pc = "rotate"
        /\ th'[t].data = th[t].data /\ th'[t].made = th[t].made
    BY <1>0, <2>1 DEF Thread
  <2>4. /\ text'[tmp].tail = {th[t].data} /\ text'[tmp].head = text[tmp].head
        /\ conf # 0 => text'[conf] = text[conf]
    BY <2>1, <2>2 DEF TypeOK, TextSet
  <2>5. InSave(t)'
    BY <1>1, <2>1, <2>2, <2>3, <2>4 DEF FileFacts, InSave
  <2>6. /\ \A s \in Workers : s # t => th'[s] = th[s] /\ th[s].pc = "idle"
        /\ \A s \in Workers : s # t => InSave(s)'
        /\ \A s, u \in Workers : ~Idle(s)' /\ ~Idle(u)' => s = u
    BY <1>1, <2>1, OthersIdle DEF Idle
  <2>7. Loaded' = Loaded
    BY <2>1, <2>4 DEF Loaded
  <2>8. (\A s \in Workers : th[s].pc # "replace") /\ Owed' = Owed
    BY <2>1, <2>6 DEF Owed
  <2>9. QED
    BY <1>1, <2>1, <2>5, <2>6, <2>7, <2>8 DEF FileFacts
<1>8. ASSUME NEW t \in Workers, Rotate(t)
      PROVE  FileFacts'
  <2>1. /\ th[t].pc = "rotate"
        /\ conf' = 0 /\ bak' = IF conf = 0 THEN bak ELSE conf
        /\ th' = [th EXCEPT ![t] = [th[t] EXCEPT !.pc = "replace"]]
        /\ UNCHANGED <<mem, tmp, text, acked, wiped>>
    BY <1>8 DEF Rotate, Goes
  <2>2. /\ th'[t].pc = "replace"
        /\ th'[t].data = th[t].data /\ th'[t].made = th[t].made
    BY <1>0, <2>1 DEF Thread
  <2>3. InSave(t)'
    BY <1>1, <2>1, <2>2 DEF FileFacts, InSave
  <2>4. /\ \A s \in Workers : s # t => th'[s] = th[s] /\ th[s].pc = "idle"
        /\ \A s \in Workers : s # t => InSave(s)'
        /\ \A s, u \in Workers : ~Idle(s)' /\ ~Idle(u)' => s = u
    BY <1>1, <2>1, OthersIdle DEF Idle
  <2>5. tmp # 0 /\ Owed' = Owed
    BY <1>1, <2>1 DEF FileFacts, InSave, Owed
  <2>6. bak' = 0 => acked = {}
    BY <1>1, <2>1 DEF FileFacts
  <2>7. QED
    BY <1>1, <2>1, <2>2, <2>3, <2>4, <2>5, <2>6 DEF FileFacts
<1>9. ASSUME NEW t \in Workers, ReplaceFails(t) \/ SaveFails(t)
      PROVE  FileFacts'
  <2>1. SaveFails(t)
    BY <1>1, <1>9 DEF ReplaceFails, FileFacts, InSave
  <2>2. /\ th[t].pc \in {"open", "head", "tail"}
        /\ th' = [th EXCEPT ![t] = NoRequest]
        /\ UNCHANGED <<mem, conf, bak, tmp, text, acked, wiped>>
    BY <2>1 DEF SaveFails
  <2>3. th'[t] = NoRequest
    BY <1>0, <2>2
  <2>4. InSave(t)'
    BY <1>0, <2>3 DEF InSave
  <2>5. /\ \A s \in Workers : s # t => th'[s] = th[s] /\ th[s].pc = "idle"
        /\ \A s \in Workers : s # t => InSave(s)'
        /\ \A s, u \in Workers : ~Idle(s)' /\ ~Idle(u)' => s = u
    BY <1>1, <2>2, OthersIdle DEF Idle
  <2>6. (\A s \in Workers : th[s].pc # "replace") /\ Owed' = Owed /\ Loaded' = Loaded
    BY <2>2, <2>5 DEF Owed, Loaded
  <2>7. QED
    BY <1>1, <2>2, <2>4, <2>5, <2>6 DEF FileFacts
<1>10. ASSUME NEW t \in Workers, Answer(t)
       PROVE  FileFacts'
  <2>1. /\ th[t].pc = "replace"
        /\ tmp # 0 /\ conf' = tmp /\ tmp' = 0
        /\ acked' = acked \union th[t].made
        /\ th' = [th EXCEPT ![t] = NoRequest]
        /\ UNCHANGED <<mem, bak, text, wiped>>
    BY <1>10 DEF Answer, Renamed
  <2>2. th'[t] = NoRequest
    BY <1>0, <2>1
  <2>3. InSave(t)'
    BY <1>0, <2>2 DEF InSave
  <2>4. /\ \A s \in Workers : s # t => th'[s] = th[s] /\ th[s].pc = "idle"
        /\ \A s \in Workers : s # t => InSave(s)'
        /\ \A s, u \in Workers : ~Idle(s)' /\ ~Idle(u)' => s = u
    BY <1>1, <2>1, OthersIdle DEF Idle
  <2>5. text[tmp].head = {mem} /\ text[tmp].tail = {mem}
    BY <1>1, <2>1 DEF FileFacts, InSave
  <2>6. Loaded' = mem
    BY <2>1, <2>5 DEF Loaded, Parse
  <2>7. Owed' \subseteq mem
    BY <1>1, <2>1 DEF FileFacts, InSave, Owed
  <2>8. QED
    BY <1>1, <2>1, <2>3, <2>4, <2>6, <2>7 DEF FileFacts
<1>11. ASSUME NEW t \in Workers, NextSection(t)
       PROVE  FileFacts'
  <2>1. PICK u \in Update :
          /\ th[t].pc = "replace"
          /\ tmp # 0 /\ conf' = tmp /\ tmp' = 0
          /\ mem' = mem \union {u}
          /\ th' = [th EXCEPT ![t] =
                      [th[t] EXCEPT !.pc = "snapshot",
                                    !.todo = th[t].todo - 1,
                                    !.made = th[t].made \union {u}]]
          /\ UNCHANGED <<bak, text, wiped, acked>>
    BY <1>11 DEF NextSection, Renamed, Merge
  <2>2. th'[t].pc = "snapshot" /\ th'[t].made = th[t].made \union {u}
    BY <1>0, <2>1 DEF Thread
  <2>3. InSave(t)'
    BY <1>1, <2>1, <2>2 DEF FileFacts, InSave
  <2>4. /\ \A s \in Workers : s # t => th'[s] = th[s] /\ th[s].pc = "idle"
        /\ \A s \in Workers : s # t => InSave(s)'
        /\ \A s, v \in Workers : ~Idle(s)' /\ ~Idle(v)' => s = v
    BY <1>1, <2>1, OthersIdle DEF Idle
  <2>5. text[tmp].head = {mem} /\ text[tmp].tail = {mem}
    BY <1>1, <2>1 DEF FileFacts, InSave
  <2>6. Loaded' = mem
    BY <2>1, <2>5 DEF Loaded, Parse
  <2>7. Owed' \subseteq mem
    BY <1>1, <2>1 DEF FileFacts, Owed
  <2>8. QED
    BY <1>1, <2>1, <2>3, <2>4, <2>6, <2>7 DEF FileFacts
<1>12. CASE Restart
  <2>1. /\ mem' = Loaded
        /\ th' = [s \in Workers |-> NoRequest]
        /\ conf = 0 => bak = 0
        /\ UNCHANGED <<conf, bak, tmp, text, acked, wiped>>
    BY <1>12 DEF Restart
  <2>2. Owed \subseteq Loaded
    <3>1. CASE \A s \in Workers : th[s].pc # "replace"
      BY <1>1, <3>1 DEF FileFacts
    <3>2. CASE \E s \in Workers : th[s].pc = "replace"
      <4>1. conf = 0
        BY <1>1, <3>2 DEF FileFacts, InSave
      <4>2. QED
        BY <1>1, <2>1, <4>1 DEF FileFacts, Owed
    <3>3. QED
      BY <3>1, <3>2
  <2>3. Owed' = Owed /\ Loaded' = Loaded
    BY <2>1 DEF Owed, Loaded
  <2>4. \A s \in Workers : th'[s] = NoRequest
    BY <2>1
  <2>5. \A s \in Workers : InSave(s)'
    BY <1>0, <2>4 DEF InSave
  <2>6. QED
    BY <1>0, <1>1, <2>1, <2>2, <2>3, <2>4, <2>5 DEF FileFacts, Idle
<1>13. CASE UNCHANGED configVars
  BY <1>1, <1>13 DEF configVars, FileFacts, InSave, Owed, Loaded, Idle
<1>14. QED
  BY <1>2, <1>3, <1>4, <1>5, <1>6, <1>7, <1>8, <1>9, <1>10, <1>11, <1>12, <1>13
     DEF ConfigNext, Request

\* Outside the two renames of save(), as long as no two requests have
\* overlapped, a restart brings back every answered update, however often saves
\* fail and the process restarts.
THEOREM RestartIsEnough == ConfigSpec => []RestartKeepsAnsweredOutsideRename
<1>1. ConfigInit => MadeInv
  BY DEF ConfigInit, MadeInv, Made, NoRequest
<1>2. ConfigInit => FileInv
  BY DEF ConfigInit, FileInv, FileFacts, InSave, Idle, NoRequest, Owed, Loaded
<1>3. FileInv => RestartKeepsAnsweredOutsideRename
  BY DEF FileInv, FileFacts, RestartKeepsAnsweredOutsideRename
<1>4. QED
  BY <1>1, <1>2, <1>3, MadeStep, FileStep, ConfigTypeCorrect, PTL DEF ConfigSpec

=============================================================================
