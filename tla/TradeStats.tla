----------------------------- MODULE TradeStats -----------------------------
(***************************************************************************)
(* The two summaries of the closed trades: GET /trade-outcomes             *)
(* (routes/options_analytics.py) and the report of journal_analytics.py,   *)
(* each written on its own.  A trade carries a realized P&L, which may be  *)
(* missing or NaN, and a value of its conditions at entry.  Rounding and   *)
(* quotients are left out: both divide the same sums by the same counts.   *)
(* Also what a trade is: an opening or a closing, read off IBKR's fills or *)
(* off two snapshots of the book.                                          *)
(***************************************************************************)
EXTENDS Integers, FiniteSetsExt

CONSTANTS
  Missing,   \* a field that is not there
  NaN        \* a number that is none

\* The sum of a field of the trades of S.
Total(f, S) == MapThenSumSet(LAMBDA i : f[i], S)

\* The numbers the route counts: records with a P&L, NaN read as 0.
RoutePnls(pnl) ==
  [i \in {j \in DOMAIN pnl : pnl[j] # Missing} |-> IF pnl[i] = NaN THEN 0 ELSE pnl[i]]

\* The numbers the report counts: those _num takes.
ReportPnls(pnl) ==
  [i \in {j \in DOMAIN pnl : pnl[j] \notin {Missing, NaN}} |-> pnl[i]]

Won(p)  == {i \in DOMAIN p : p[i] > 0}
Lost(p) == {i \in DOMAIN p : p[i] < 0}

\* What both print of the numbers they count; no_closed tells the case in which
\* the averages are None.
Figures(p) ==
  [closed |-> Cardinality(DOMAIN p), wins |-> Cardinality(Won(p)),
   losses |-> Cardinality(Lost(p)), total |-> Total(p, DOMAIN p),
   grossWin |-> Total(p, Won(p)), grossLoss |-> - Total(p, Lost(p))]

RouteSummary(pnl) == Figures(RoutePnls(pnl))
ReportStats(pnl)  == Figures(ReportPnls(pnl))

\* The trades the report puts in each range of a field: the first that holds
\* the value, its lower end in, its upper end out.
Buckets(value, ranges) ==
  [r \in ranges |-> {i \in DOMAIN value : /\ value[i] \notin {Missing, NaN}
                                          /\ r[1] <= value[i]
                                          /\ value[i] < r[2]}]

------------------------------------------------------------------------------
(* The two readings of a change of a position: a fill that tells the         *)
(* position after it, and the difference of two snapshots.                   *)

Size(n) == IF n < 0 THEN -n ELSE n

\* _classify_fill_action.
ClassifyFill(signed, after) ==
  LET before == after - signed
  IN IF before = 0 /\ after # 0 THEN "OPEN"
     ELSE IF after = 0 /\ before # 0 THEN "CLOSE"
     ELSE IF before # 0 /\ after # 0 /\ (after > 0) # (before > 0) THEN "REVERSE"
     ELSE IF Size(after) > Size(before) THEN "OPEN"
     ELSE IF Size(after) < Size(before) THEN "CLOSE"
     ELSE "FLAT"

\* _diff_legs: the leg was not there or grew; and the reverse.
IsOpened(before, after) == after # 0 /\ Size(after) > Size(before)
IsClosed(before, after) == before # 0 /\ Size(after) < Size(before)

\* An OPEN is opened and a CLOSE closed, by either reading; a leg that turned is
\* neither or either, by its size.
FillsMatchDiffs(before, after) ==
  LET kind == ClassifyFill(after - before, after)
  IN before # after =>
       /\ kind = "OPEN" => IsOpened(before, after) /\ ~IsClosed(before, after)
       /\ kind = "CLOSE" => IsClosed(before, after) /\ ~IsOpened(before, after)
       /\ kind = "REVERSE" <=> before * after < 0
       /\ kind # "FLAT"

------------------------------------------------------------------------------

\* The two summaries of the same trades differ in nothing but the NaN ones, which
\* the route counts as trades that neither won nor lost.
SummariesAgree(pnl) ==
  LET route == RouteSummary(pnl)
      report == ReportStats(pnl)
  IN /\ route = [report EXCEPT !.closed = @ + Cardinality({i \in DOMAIN pnl : pnl[i] = NaN})]
     /\ route.total = route.grossWin - route.grossLoss

=============================================================================
