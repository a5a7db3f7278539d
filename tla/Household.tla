----------------------------- MODULE Household -----------------------------
(***************************************************************************)
(* The household of two books (routes/household.py): the live one at IBKR  *)
(* and the stored snapshot of the other.  A read h has                     *)
(*   store: what the file says, or Missing: the euros of the other book    *)
(*     by name and in total, the tickers left out, and the shares to show  *)
(*     when there is no live book (its seed)                               *)
(*   book: Missing, or the euros at IBKR, 0 without a net liquidation, and *)
(*     each ticker's share of them in percent                              *)
(* Shares are rounded to hundredths of a percent.                          *)
(***************************************************************************)
EXTENDS Integers, FiniteSetsExt, SequencesExt

CONSTANTS Missing, Unknown,
          EmergencySeed,   \* the shares the code has for a missing store
          Top,             \* 7: how many names are shown
          NameCap,         \* 15 percent of the household
          LeftOut          \* SPY and OST

Hundredths(x, whole) == (20000 * x + whole) \div (2 * whole)

Total(h) == h.book.euros + h.store.total

\* The euros of a name in both books; a share of IBKR's is of its net liquidation.
Euros(h, t) ==
  (IF t \in DOMAIN h.book.share \ h.store.exclude
   THEN (h.book.share[t] * h.book.euros) \div 100 ELSE 0)
  + (IF t \in DOMAIN h.store.names THEN h.store.names[t] ELSE 0)

LiveNames(h) == (DOMAIN h.book.share \ h.store.exclude) \union DOMAIN h.store.names
Share(h, t) == Hundredths(Euros(h, t), Total(h))

\* The largest names; of those that tie at the cut which is the files' order.
Largest(h) ==
  CHOOSE S \in kSubset(Min({Top, Cardinality(LiveNames(h))}), LiveNames(h)) :
    \A t \in S, u \in LiveNames(h) \ S : Share(h, t) >= Share(h, u)

\* _compute_household: the shares shown.  Without a book they are a seed's.
Live(h) == h.store # Missing /\ h.book # Missing /\ h.book.euros > 0
Shares(h) ==
  IF h.store = Missing THEN EmergencySeed
  ELSE IF ~Live(h) THEN h.store.seed
  ELSE [t \in Largest(h) |-> Share(h, t)]

------------------------------------------------------------------------------
(* The ladder on which short calls are given up, and who may climb it.     *)

\* _stage_from_coverage, with the bands between the rungs of the docs.
Stage(short, long) ==
  IF 4 * short >= 3 * long THEN 0
  ELSE IF 8 * short >= 3 * long THEN 1
  ELSE IF 8 * short >= long THEN 2 ELSE 3

\* The calls of a ticker, long and short; any call is taken for a LEAP.
Calls(legs, t, side) ==
  MapThenSumSet(LAMBDA i : side * legs[i].qty,
    {i \in DOMAIN legs : legs[i].ticker = t /\ legs[i].right = "C"
                         /\ side * legs[i].qty > 0})
Holders(legs) == {t \in {legs[i].ticker : i \in DOMAIN legs} \ LeftOut :
                    Calls(legs, t, 1) > 0}

\* The four gates of a name: each TRUE, FALSE or Unknown.  What the briefing
\* cannot tell of the cash counts as too little, unless it fails altogether.
Gates(h, t, briefing, above) ==
  [name   |-> IF t \in DOMAIN Shares(h) THEN Shares(h)[t] < 100 * NameCap ELSE Unknown,
   cash   |-> IF briefing = Missing THEN Unknown ELSE briefing.cash = "ok",
   regime |-> IF briefing = Missing \/ briefing.regime = Unknown THEN Unknown
              ELSE briefing.regime # "bearish",
   trend  |-> above]

\* get_uncap_stages: what it says of a name with these gates at this stage.
UncapVerdict(gates, stage) ==
  IF gates.regime = FALSE \/ gates.trend = FALSE THEN "de-stage"
  ELSE IF stage = 3 THEN "uncapped"
  ELSE IF \A g \in DOMAIN gates : gates[g] = TRUE THEN "advance" ELSE "hold"

\* The rows of the tracker.
Rows(h, legs, briefing, above) ==
  [t \in Holders(legs) |->
     UncapVerdict(Gates(h, t, briefing, above[t]),
                  Stage(Calls(legs, t, -1), Calls(legs, t, 1)))]

------------------------------------------------------------------------------
(* The tail hedge: long puts on SPY far out of the money.                  *)

\* The spot of the first leg on SPY that has one.
SpySpot(legs) ==
  LET known == SelectSeq(legs, LAMBDA l : l.ticker = "SPY" /\ l.spot # 0)
  IN IF known = << >> THEN 0 ELSE known[1].spot

\* As far as 15 percent, rounded to a tenth.
FarOut(l, spot) ==
  /\ spot # 0 /\ l.strike # 0
  /\ (2000 * (spot - l.strike) + spot) \div (2 * spot) >= 150
TailPuts(legs) ==
  {i \in DOMAIN legs : /\ legs[i].ticker = "SPY" /\ legs[i].right = "P"
                       /\ legs[i].qty > 0 /\ FarOut(legs[i], SpySpot(legs))}

\* Three months before the first of them expires it is to be rolled; an expiry
\* that cannot be read is no expiry.
RollFlag(legs) == \E i \in TailPuts(legs) : legs[i].dte # Unknown /\ legs[i].dte < 90

\* What they are worth, against three quarters of a percent a quarter, in percent.
HedgeValue(legs) ==
  LET priced == {i \in TailPuts(legs) : legs[i].value # Unknown}
  IN IF priced = {} THEN Unknown
     ELSE MapThenSumSet(LAMBDA i : IF legs[i].value < 0 THEN - legs[i].value
                                   ELSE legs[i].value, priced)
Utilization(legs, netLiq) ==
  LET budget == (15 * netLiq + 1000) \div 2000
  IN IF HedgeValue(legs) = Unknown \/ budget = 0 THEN Unknown
     ELSE (100 * HedgeValue(legs)) \div budget

=============================================================================
