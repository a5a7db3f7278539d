------------------------------ MODULE Playbook ------------------------------
(***************************************************************************)
(* The post-earnings playbook: services/playbook.py and the route to it.   *)
(* A situation q has the gap and the crush of the volatility, in percent;  *)
(* the concentration, or Unknown; and the thesis: the set of its points    *)
(* that hold, or NoThesis.                                                 *)
(***************************************************************************)
EXTENDS Integers

CONSTANTS Unknown, NoThesis, Failed,
          Points,                \* what a thesis is checked for
          CrushFloor, PrimeLow,  \* settings of the matrix
          HighConcentration, HighLow, HighHigh, HighCap

\* _matrix_lookup: the verdict on a gap.  The settings have an upper end of the
\* prime band as well, which only the texts show.
Matrix(gap) ==
  IF gap >= 2 THEN "PASS"
  ELSE IF gap >= -3 THEN "EVALUATE"
  ELSE IF gap >= PrimeLow THEN "PRIME_ENTRY"
  ELSE IF gap >= -15 THEN "CONDITIONAL" ELSE "PASS"

\* _band_label: the band a gap is shown in.
Band(gap) ==
  IF gap >= 5 THEN "over 5" ELSE IF gap >= 2 THEN "mild up"
  ELSE IF gap >= -3 THEN "flat" ELSE IF gap >= PrimeLow THEN "prime"
  ELSE IF gap >= -15 THEN "down" ELSE "under -15"

Concentrated(q) == q.conc # Unknown /\ q.conc > HighConcentration

\* What replaces the matrix for a concentrated name.
TightenedBand(gap) ==
  IF HighLow <= gap /\ gap < HighHigh THEN "PRIME_ENTRY"
  ELSE IF gap > 5 THEN "PROFIT_TRIM" ELSE "PASS"

\* The floor of the crush comes first, so that of the conditional band, the same
\* setting, never decides.
Verdict(q) ==
  LET v == IF Concentrated(q) THEN TightenedBand(q.gap) ELSE Matrix(q.gap)
  IN IF q.crush < CrushFloor \/ (v = "CONDITIONAL" /\ q.crush < CrushFloor)
     THEN "PASS" ELSE v

\* How many contracts at most, Unknown when there is no limit.
SizeCap(q) ==
  IF Verdict(q) \in {"PASS", "PROFIT_TRIM"} THEN 0
  ELSE IF Concentrated(q) /\ Verdict(q) = "PRIME_ENTRY" THEN HighCap ELSE Unknown

\* final_action: an entry waits for a thesis of which every point holds.
FinalAction(q) ==
  IF Verdict(q) \in {"PASS", "PROFIT_TRIM"} THEN Verdict(q)
  ELSE IF q.thesis # NoThesis /\ q.thesis = Points THEN "PROCEED" ELSE "HOLD"

\* POST /playbook/post_earnings: without a concentration it takes that of the
\* book, 0 for a ticker the book does not have, none when it cannot be read.  A
\* thesis it hands over in fields the service's class does not have, which fails.
Answer(q, book) ==
  IF q.thesis # NoThesis THEN Failed
  ELSE FinalAction([q EXCEPT !.conc =
         IF q.conc # Unknown THEN q.conc
         ELSE IF book = Failed THEN Unknown
         ELSE IF q.ticker \in DOMAIN book THEN book[q.ticker] ELSE 0])

=============================================================================
