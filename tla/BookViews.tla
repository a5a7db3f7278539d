----------------------------- MODULE BookViews -----------------------------
(***************************************************************************)
(* What routes/manage.py and services/state.py read off the book of legs:  *)
(* the beta-weighted greeks, the put spreads that hedge it, the calls that *)
(* could be written, the account limits, the series of cluster shares and  *)
(* the values scripts post.  A leg is [ticker, type, right, qty, strike,   *)
(* dte, delta, vega, value, strategy], type being "STK" for stock, dte the *)
(* days to its expiry and delta, in percent, NoGreek when missing.         *)
(***************************************************************************)
EXTENDS Integers, Sequences, FiniteSetsExt, SequencesExt

CONSTANTS NoGreek, Unknown,
          LeapMinDte,    \* strategy.leap_core_min_dte
          Keep           \* the 400 points of cluster_history.json

Abs(n) == IF n < 0 THEN -n ELSE n
Total(F(_), S) == MapThenSumSet(F, S)
Of(b, right, sign) == {i \in DOMAIN b : b[i].right = right /\ b[i].qty * sign > 0}
Units(b, I) == Total(LAMBDA i : Abs(b[i].qty), I)

------------------------------------------------------------------------------
(* Greeks: beta and price are functions on the tickers that have one.      *)

\* The multiplier of an option.
Contract == 100

At(f, t, default) == IF t \in DOMAIN f THEN f[t] ELSE default

\* compute_beta_weighted_delta, in dollars times 100: the code divides by the
\* price of SPY.  A leg without a delta counts nothing, one without a price as
\* if it cost 1, and without betas the answer is the sum the sync saved.
BetaDelta(b, beta, price) ==
  Total(LAMBDA i : b[i].qty * At(price, b[i].ticker, 1) * At(beta, b[i].ticker, 1)
          * (IF b[i].type = "STK" THEN 100
             ELSE IF b[i].delta = NoGreek THEN 0 ELSE b[i].delta * Contract),
        DOMAIN b)

\* compute_beta_weighted_vega; with no beta at all it is the raw vega.
BetaVega(b, beta) ==
  Total(LAMBDA i : b[i].vega * b[i].qty * Contract * At(beta, b[i].ticker, 1),
        {i \in DOMAIN b : b[i].type # "STK" /\ b[i].vega # NoGreek})

\* _parse_macro_regime: of the words of the daily report "bearish" wins.
MacroRegime(words) == IF "bearish" \in words THEN "bearish"
                      ELSE IF "bullish" \in words THEN "bullish" ELSE "neutral"
VixState(vix) == IF vix = Unknown THEN "normal"
                 ELSE IF vix > 35 THEN "stress" ELSE IF vix > 25 THEN "elevated" ELSE "normal"

------------------------------------------------------------------------------
(* The hedge: put spreads on SPY, per expiry.                              *)

SpyPuts(b, dte) == {b[i] : i \in {j \in DOMAIN b : /\ b[j].ticker = "SPY"
                                                   /\ b[j].right = "P"
                                                   /\ b[j].dte = dte}}

\* The put of P with the lowest strike: a fold that takes it last goes through P
\* from the highest strike down.
Lowest(puts) == CHOOSE l \in puts : \A m \in puts : l.strike <= m.strike

\* The variant in which a long put may be taken again and again.
TakeFromKeeping(s, short, l) ==
  LET take == IF l.strike > s.strike THEN Min({short.left[l], short.need}) ELSE 0
  IN [short EXCEPT !.need = @ - take, !.pays = @ + take * (l.strike - s.strike)]

\* The short put s takes contracts of the long put l, if that is above it.
TakeFrom(s, short, l) ==
  LET take == IF l.strike > s.strike THEN Min({short.left[l], short.need}) ELSE 0
  IN [need |-> short.need - take, left |-> [short.left EXCEPT ![l] = @ - take],
      pays |-> short.pays + take * (l.strike - s.strike)]

\* It takes what it needs of the long puts that are left, the highest first.
PairShort(longs, acc, s) ==
  LET short == MapThenFoldSet(LAMBDA l, so : TakeFrom(s, so, l),
                              [need |-> - s.qty, left |-> acc.left, pays |-> acc.pays],
                              LAMBDA l : l, Lowest, longs)
  IN [left |-> short.left, pays |-> short.pays]

\* What the spreads of one expiry pay at most: the short puts, the highest
\* strike first, each take the highest long puts that are left.
Payout(puts) ==
  LET longs == {l \in puts : l.qty > 0}
  IN MapThenFoldSet(LAMBDA s, acc : PairShort(longs, acc, s),
                    [left |-> [l \in longs |-> l.qty], pays |-> 0], LAMBDA s : s,
                    Lowest, {l \in puts : l.qty < 0}).pays

\* _compute_b2_hedge: the payout of all expiries, and the delta in dollars of
\* what is to be protected, options outside SPY and OST with a delta and a spot.
MaxPayout(b) == Total(LAMBDA d : Payout(SpyPuts(b, d)), {b[i].dte : i \in DOMAIN b})
Engine(b, price) ==
  Abs(Total(LAMBDA i : b[i].qty * b[i].delta * price[b[i].ticker],
            {i \in DOMAIN b : /\ b[i].ticker \in DOMAIN price \ {"SPY", "OST"}
                              /\ b[i].type # "STK" /\ b[i].delta # NoGreek}))

\* Both are in the dollars of one hundred shares, the bounds a quarter and 33%.
HedgeVerdict(b, price) ==
  IF 100 * (100 * MaxPayout(b)) < 25 * Engine(b, price) THEN "under"
  ELSE IF 100 * (100 * MaxPayout(b)) > 33 * Engine(b, price) THEN "over"
  ELSE "in_band"

\* The older measure: the market value of what is a hedge, in thousands.
HedgeLegs(b) == {i \in DOMAIN b : \/ b[i].strategy = "SPY_HEDGE"
                                  \/ b[i].ticker = "SPY" /\ b[i].right = "P"}
CoverageOk(b) == Total(LAMBDA i : b[i].value, HedgeLegs(b)) \in 20 .. 30

\* What a set of puts of one expiry is worth at a price of SPY on that day.
Worth(puts, p) == Total(LAMBDA l : l.qty * Max({0, l.strike - p}), puts)

\* Every short put has a long one above it: at each strike, counted from the
\* top, the long contracts strictly above are as many as the short ones down to
\* it.
Covered(puts) ==
  LET Held(S) == Total(LAMBDA l : Abs(l.qty), S)
  IN \A s \in {l \in puts : l.qty < 0} :
       Held({l \in puts : l.qty > 0 /\ l.strike > s.strike})
       >= Held({l \in puts : l.qty < 0 /\ l.strike >= s.strike})

\* The payout of covered spreads is what they are worth at most, if as many
\* contracts are long as short, and never more than that; it is never negative.
PaysWhatItSays(puts) ==
  LET worth == Worth(puts, 0)
  IN /\ Payout(puts) >= 0
     /\ Covered(puts) => Payout(puts) <= worth
     /\ Covered(puts) /\ Total(LAMBDA l : l.qty, puts) = 0 => Payout(puts) = worth

------------------------------------------------------------------------------
(* The calls that could be written, the limits and the lists.              *)

\* covered_call_candidates: contracts of long calls that live longer than the
\* minimum, less the short calls of the ticker of any expiry.  A candidate may
\* have a call to recommend, when the selector has a credit for the ticker, and
\* then a note when earnings are near.
Unwritten(b, t) ==
  Units(b, {i \in Of(b, "C", 1) : b[i].ticker = t /\ b[i].dte > LeapMinDte})
  - Units(b, {i \in Of(b, "C", -1) : b[i].ticker = t})
Cores(b) == {b[i].ticker : i \in {j \in Of(b, "C", 1) : b[j].dte > LeapMinDte}}
CallCandidates(b, credit, safe) ==
  {[ticker |-> t, unwritten |-> Unwritten(b, t),
    call |-> At(credit, t, 0) > 0, deferred |-> At(credit, t, 0) > 0 /\ t \notin safe] :
   t \in {u \in Cores(b) : Unwritten(b, u) > 0}}

\* profit_targets: the share of its premium, in percent, a short leg has earned
\* when it cost price to close, or Unknown without an entry basis.
Captured(credit, price) ==
  IF credit = 0 THEN Unknown ELSE (100 * (credit - price)) \div credit

\* risk_limits: a value that is not there breaches nothing, and the status has
\* two answers only.
Breaches(cash, cashFloor, excess, excessFloor) ==
  {x \in {"cash"} : cash # Unknown /\ cash < cashFloor}
  \union {x \in {"excess"} : excess # Unknown /\ excess < excessFloor}
RiskStatus(cash, cashFloor, excess, excessFloor) ==
  IF Breaches(cash, cashFloor, excess, excessFloor) = {} THEN "within limits" ELSE "BREACH"
StaleData(age, limit) == IF age = Unknown THEN Unknown ELSE age > limit

\* validate_jade_lizard: the credit has to be more than the call spread is wide.
JadeLizardPasses(putCredit, spreadCredit, short, long) ==
  putCredit + spreadCredit > long - short

\* record_cluster_history: one point a day, rewritten only when it has moved.
\* Shares are in tenths of a percent, which the code rounds to.
Recorded(points, day, pct) ==
  IF points # << >> /\ Last(points).day = day
  THEN IF Abs(Last(points).pct - pct) > 0
       THEN [points EXCEPT ![Len(points)].pct = pct] ELSE points
  ELSE LET all == Append(points, [day |-> day, pct |-> pct])
       IN SubSeq(all, Max({1, Len(all) - Keep + 1}), Len(all))

\* hydrate_asset: what a script posts of a ticker replaces what was there.
Hydrated(assets, t, entry) ==
  [u \in DOMAIN assets \union {t} |-> IF u = t THEN entry ELSE assets[u]]

=============================================================================
