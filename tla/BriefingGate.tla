---------------------------- MODULE BriefingGate ----------------------------
(***************************************************************************)
(* The briefing and the market intelligence call each other.  get_briefing *)
(* (routes/briefing.py) runs get_market_intelligence("SPY") in a thread    *)
(* and waits two seconds for its regime gate; on a cold cache that         *)
(* function first asks get_briefing for the macro regime, which starts the *)
(* next thread, and so on until one of them fills the cache.               *)
(* Level 1 is the briefing a user asks for, level n + 1 the briefing asked *)
(* for in the thread that level n started.  Time is counted in ticks and   *)
(* goes on when nothing else can; reading and fetching take between one    *)
(* tick and a bound.                                                       *)
(***************************************************************************)
EXTENDS Integers, Sequences, FiniteSets

CONSTANTS
  ReadMax,    \* longest time the first half of a briefing takes
  FetchMax,   \* longest time the market data take
  Budget,     \* the two seconds of the briefing
  Lifetime,   \* the five minutes of the cache
  Episode,    \* time enough for what a cold briefing sets off
  LastTick,   \* bound on the clock
  Cold, None

\* What the model assumes of its constants; the module that instantiates it
\* states it as an ASSUME.
GateAssumption ==
  /\ {ReadMax, FetchMax, Budget, Lifetime, Episode, LastTick} \subseteq Nat \ {0}
  /\ Cold \notin Nat

VARIABLES
  now,
  level,   \* the briefings under way, each with the thread that asked for it
  cached   \* since when the intelligence of SPY is cached, or Cold

vars == <<now, level, cached>>

Levels == DOMAIN level
Fresh == cached # Cold /\ now - cached < Lifetime

\* A level: where its briefing is, until when it reads, waits or fetches, and
\* what it answered for the gate.
Reading(t) == [at |-> "reads", until |-> t, gate |-> None]

TypeOK ==
  /\ now \in 0 .. LastTick
  /\ cached \in 0 .. LastTick \union {Cold}
  /\ \A i \in Levels :
       /\ level[i].at \in {"reads", "waits", "fetches", "ended"}
       /\ level[i].gate \in {None, "gate"}

Init ==
  /\ now = 0
  /\ \E d \in 1 .. ReadMax : level = <<Reading(d)>>
  /\ cached = Cold

------------------------------------------------------------------------------

\* A briefing has its gate, or None: level 1 ends, a deeper one returns to its
\* thread, which fetches the data; it does not look at the cache again.
Answered(i, gate) ==
  \E d \in 1 .. FetchMax :
    level' = [level EXCEPT ![i].at = IF i = 1 THEN "ended" ELSE "fetches",
                           ![i].until = now + d, ![i].gate = gate]

\* The macro part is read and a thread started: it finds the cache fresh and is
\* back at once, or asks for a briefing of its own.
Submit(i) ==
  /\ level[i].at = "reads" /\ level[i].until <= now
  /\ \/ Fresh /\ Answered(i, "gate")
     \/ /\ ~Fresh
        /\ \E d \in 1 .. ReadMax :
             level' = Append([level EXCEPT ![i].at = "waits", ![i].until = now + Budget],
                             Reading(now + d))
  /\ UNCHANGED <<now, cached>>

\* The variant that waits for the thread however long it takes.
GiveUpNever(i) == FALSE /\ Answered(i, None) /\ UNCHANGED <<now, cached>>

\* future.result(timeout=2.0) gives up: the briefing goes on without a gate.
GiveUp(i) ==
  /\ level[i].at = "waits" /\ level[i].until <= now
  /\ level[i + 1].at # "ended"
  /\ Answered(i, None)
  /\ UNCHANGED <<now, cached>>

\* The thread came back in time.
Receive(i) ==
  /\ level[i].at = "waits" /\ level[i + 1].at = "ended"
  /\ Answered(i, "gate")
  /\ UNCHANGED <<now, cached>>

\* The thread of a level has its data: they are cached for everyone.
Fill(i) ==
  /\ level[i].at = "fetches" /\ level[i].until <= now
  /\ level' = [level EXCEPT ![i].at = "ended"]
  /\ cached' = now
  /\ UNCHANGED now

Due == \E i \in Levels : level[i].at # "ended" /\ level[i].until <= now
Received == \E i \in Levels : level[i].at = "waits" /\ level[i + 1].at = "ended"

\* Time goes on when no level has anything to do.
Tick ==
  /\ ~Due /\ ~Received
  /\ now < LastTick
  /\ now' = now + 1
  /\ UNCHANGED <<level, cached>>

\* A user asks again once all is quiet.
AskAgain ==
  /\ \A i \in Levels : level[i].at = "ended"
  /\ \E d \in 1 .. ReadMax : level' = <<Reading(now + d)>>
  /\ now + Episode <= LastTick
  /\ UNCHANGED <<now, cached>>

\* What the threads do.
Work == \E i \in Levels : Submit(i) \/ GiveUp(i) \/ Receive(i) \/ Fill(i)

Next == \/ Work
        \/ Tick
        \/ AskAgain

\* The threads run and the clock does too.
Fairness == WF_vars(Work) /\ WF_vars(Tick)
Spec == Init /\ [][Next]_vars /\ Fairness

------------------------------------------------------------------------------

\* The thread a briefing gives up on warms the cache: after a cold start the
\* intelligence comes to be cached (briefing.py: "the leaked fetch still warms
\* the cache for next call").
LeakedFetchWarms == level[1].at = "waits" ~> cached # Cold /\ Fresh

=============================================================================
