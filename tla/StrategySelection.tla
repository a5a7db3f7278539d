------------------------- MODULE StrategySelection -------------------------
(***************************************************************************)
(* Which strategy the selector recommends on a ticker: pick_short_call_    *)
(* delta and get_strategy_metrics of routes/options.py.  A situation s is  *)
(*   days: to earnings, NoDays when none is known                          *)
(*   ivr: the IV rank;  regime: the gate's label;  below: of the weekly    *)
(*   200-SMA, or Unread;  conc: percent of the book, or Unread             *)
(*   credit: of each strategy, from Black-Scholes prices and strikes that  *)
(*   are rounded, any value from 0;  yield: its annualized yield           *)
(* Deltas are in percent.                                                  *)
(***************************************************************************)
EXTENDS Integers, FiniteSetsExt, SequencesExt

CONSTANTS NoDays, Unread, TrendGate

\* What get_strategy_metrics reads for an earnings date nobody knows.
Days(s) == IF s.days = NoDays THEN 999 ELSE s.days

\* The strategies in the order the code builds them.
Strategies == <<"pcs", "csp", "pmcc", "iron_condor", "diagonal">>
Bias(id) == IF id = "iron_condor" THEN "neutral" ELSE "bullish"
IdealIvr(id) == CASE id = "pcs" -> 40 [] id = "csp" -> 30 [] id = "pmcc" -> 25
                  [] id = "iron_condor" -> 55 [] OTHER -> 30

\* The target delta of the short call: 30, nudged, and kept within 20 and 40.
Nudges(s) ==
  (IF s.ivr >= 70 THEN -5 ELSE IF s.ivr <= 35 THEN 5 ELSE 0)
  + (IF s.below = TRUE THEN 5 ELSE 0)
  + (IF Days(s) <= 10 THEN -5 ELSE 0)
  + (IF s.conc # Unread /\ s.conc > 20 THEN 3 ELSE 0)
ShortCallDelta(s) == Max({20, Min({40, 30 + Nudges(s)})})

\* regime_score: how the volatility, the regime and the earnings fit.
RegimeScore(s, id) ==
  LET fit == (IF s.ivr >= IdealIvr(id) THEN 2
              ELSE IF 4 * s.ivr >= 3 * IdealIvr(id) THEN 1 ELSE 0)
             + (IF Bias(id) = s.regime THEN 2 ELSE IF s.regime = "neutral" THEN 1 ELSE 0)
      penalty == IF Days(s) <= 7 THEN 2 ELSE IF Days(s) <= 14 THEN 1 ELSE 0
  IN Min({5, Max({0, fit - penalty})})

\* The variant in which the window ends a day early.
EarningsSafeLate(s, id) == Days(s) >= IF id = "pmcc" THEN 14 ELSE 10

EarningsSafe(s, id) == Days(s) > IF id = "pmcc" THEN 14 ELSE 10

\* The gate on the weekly trend, when the setting is on.
TrendActive(s) == TrendGate /\ s.below = TRUE

\* The score once the trend has had its say.
Score(s, id) ==
  IF TrendActive(s) /\ Bias(id) = "bullish" THEN Max({0, RegimeScore(s, id) - 2})
  ELSE RegimeScore(s, id)

\* Why a strategy is not eligible: the first reason that holds.
GateReason(s, id) ==
  IF s.credit[id] <= 0 THEN "zero_credit"
  ELSE IF ~EarningsSafe(s, id) THEN "earnings_window"
  ELSE IF TrendActive(s) /\ Bias(id) = "bullish" THEN "below_wk200"
  ELSE "none"
Eligible(s, id) == GateReason(s, id) = "none"

\* The ranking: by score, then by yield, both falling, those that tie in the
\* order they were built, since sort() with reverse=True is stable.
Place(id) == CHOOSE i \in DOMAIN Strategies : Strategies[i] = id
Above(s, a, b) ==
  \/ Score(s, a) > Score(s, b)
  \/ Score(s, a) = Score(s, b) /\ s.yield[a] > s.yield[b]
  \/ Score(s, a) = Score(s, b) /\ s.yield[a] = s.yield[b] /\ Place(a) < Place(b)

\* How many strategies the sorted list has before one.
Rank(s, id) == Cardinality({a \in ToSet(Strategies) : Above(s, a, id)})

\* The first of the list that is eligible, "none" when none is.
Recommended(s) ==
  LET open == {id \in ToSet(Strategies) : Eligible(s, id)}
  IN IF open = {} THEN "none"
     ELSE CHOOSE id \in open : \A other \in open : Rank(s, id) <= Rank(s, other)

\* What the selector promises of a situation: it recommends the best of what is
\* eligible, nothing within the blackout of the entry gates, nothing bullish
\* under the weekly average; and with the earnings nearer no strategy is scored
\* higher or becomes eligible.
Sound(s, blackout, horizon) ==
  LET r == Recommended(s)
      open == {id \in ToSet(Strategies) : Eligible(s, id)}
  IN /\ IF open = {} THEN r = "none"
        ELSE r \in open /\ \A id \in open \ {r} : ~Above(s, id, r)
     /\ Days(s) <= blackout => r = "none"
     /\ TrendActive(s) => r \in {"none", "iron_condor"}
     /\ \A d \in horizon, id \in ToSet(Strategies) :
          LET near == [s EXCEPT !.days = d]
          IN d <= Days(s) => /\ Score(near, id) <= Score(s, id)
                             /\ Eligible(near, id) => Eligible(s, id)

=============================================================================
