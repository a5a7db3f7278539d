------------------------------ MODULE IvHistory ------------------------------
(***************************************************************************)
(* The history of at-the-money volatilities behind GET /options/iv-rank    *)
(* (routes/options_analytics.py).  Every call reads the whole file, adds   *)
(* the day's value of its ticker, drops the ticker's junk and its oldest   *)
(* days, and writes the whole file back over itself; a file it cannot read *)
(* is an empty history.                                                    *)
(* A snapshot is <<ticker, day, sane>>: sane is a value of 1% to 500%.     *)
(***************************************************************************)
EXTENDS Integers, FiniteSets

CONSTANTS
  Threads, Tickers,
  Keep,     \* days kept of a ticker (252)
  LastDay,  \* bound on the days that pass
  Torn,     \* a text that does not parse
  Idle

\* What the model assumes of its constants; the module that instantiates it
\* states it as an ASSUME.
HistoryAssumption ==
  /\ Keep \in Nat \ {0} /\ LastDay \in Nat
  /\ \A h \in SUBSET (Tickers \X (0 .. LastDay) \X BOOLEAN) : h # Torn
  /\ Idle \notin {"opening", "filling"}

VARIABLES
  file,    \* the snapshots in the file, or Torn
  proc,    \* per thread: Idle, or the history it is about to write
  today,
  kept,    \* history: the values calls have taken, <<ticker, day>>
  excuse   \* history: calls have overlapped, a write has failed or been cut off

vars == <<file, proc, today, kept, excuse>>

------------------------------------------------------------------------------
Load == IF file = Torn THEN {} ELSE file

DaysOf(hist, ticker) == {s[2] : s \in {x \in hist : x[1] = ticker}}

\* The last Keep of a set of days.
Newest(days) == {d \in days : Cardinality({e \in days : e > d}) < Keep}
Oldest(days) == {d \in days : Cardinality({e \in days : e < d}) < Keep}

\* The variant that keeps the first days instead of the last.
SnapshotOldest(hist, ticker, sane) ==
  LET added == IF sane THEN hist \union {<<ticker, today, TRUE>>} ELSE hist
  IN {s \in added : s[1] = ticker => s[2] \in Oldest(DaysOf(added, ticker))}

\* The history with today's value of the ticker.  A value that is not sane is
\* not stored, and answered with an error after the rest has been saved.
Snapshot(hist, ticker, sane) ==
  LET junkless == {s \in hist : s[1] = ticker => s[3]}
      added == IF sane THEN junkless \union {<<ticker, today, TRUE>>} ELSE junkless
  IN {s \in added : s[1] = ticker => s[2] \in Newest(DaysOf(added, ticker))}

------------------------------------------------------------------------------
TypeOK ==
  /\ file = Torn \/ file \subseteq Tickers \X (0 .. LastDay) \X BOOLEAN
  /\ \A t \in Threads :
       proc[t].at \in {Idle, "opening", "filling"}
  /\ today \in 0 .. LastDay
  /\ excuse \in BOOLEAN

Rest == [at |-> Idle, hist |-> {}, adds |-> {}]

\* A store of an earlier version may hold junk.
Init ==
  /\ file \in {{}} \union {{<<t, 0, FALSE>>} : t \in Tickers}
  /\ proc = [t \in Threads |-> Rest]
  /\ today = 0
  /\ kept = {}
  /\ excuse = FALSE

\* A call has its volatility and reads the file.
GetIvRank(t) ==
  /\ proc[t].at = Idle
  /\ \E ticker \in Tickers, sane \in BOOLEAN :
       proc' = [proc EXCEPT ![t] = [at |-> "opening",
                                    hist |-> Snapshot(Load, ticker, sane),
                                    adds |-> IF sane THEN {<<ticker, today>>} ELSE {}]]
  /\ excuse' = (excuse \/ \E u \in Threads : proc[u].at # Idle)
  /\ UNCHANGED <<file, today, kept>>

\* It opens the file for writing, which empties it.
OpenHistory(t) ==
  /\ proc[t].at = "opening"
  /\ proc' = [proc EXCEPT ![t].at = "filling"]
  /\ file' = Torn
  /\ UNCHANGED <<today, kept, excuse>>

\* It writes the history; over the text of another call it leaves a tail.
FillHistory(t) ==
  /\ proc[t].at = "filling"
  /\ file' \in {proc[t].hist} \union (IF file = Torn THEN {} ELSE {Torn})
  /\ kept' = kept \union proc[t].adds
  /\ proc' = [proc EXCEPT ![t] = Rest]
  /\ UNCHANGED <<today, excuse>>

\* The write fails, which is logged and not answered, or the process dies.
CutOff ==
  /\ \E dead \in SUBSET Threads :
       /\ \E t \in dead : proc[t].at # Idle
       /\ \/ Cardinality(dead) = 1
          \/ dead = Threads
       /\ proc' = [t \in Threads |-> IF t \in dead THEN Rest ELSE proc[t]]
  /\ excuse' = TRUE
  /\ UNCHANGED <<file, today, kept>>

\* Calls do not last over midnight.
NextDay ==
  /\ today < LastDay
  /\ \A t \in Threads : proc[t].at = Idle
  /\ today' = today + 1
  /\ UNCHANGED <<file, proc, kept, excuse>>

Next ==
  \/ \E t \in Threads : GetIvRank(t) \/ OpenHistory(t) \/ FillHistory(t)
  \/ CutOff \/ NextDay

Spec == Init /\ [][Next]_vars

------------------------------------------------------------------------------
(* Properties                                                              *)

\* The history loses nothing of its own accord: while no two calls have
\* overlapped and none was cut off, the newest Keep values taken of a ticker
\* are in the file whenever it is not being written.
HistoryKept ==
  \/ excuse
  \/ \E t \in Threads : proc[t].at = "filling"
  \/ /\ file # Torn
     /\ \A ticker \in Tickers :
          \A d \in Newest(DaysOf(kept, ticker)) : <<ticker, d, TRUE>> \in file

=============================================================================
