---------------------------- MODULE MarketRegime ----------------------------
(***************************************************************************)
(* What routes/market_intelligence.py makes of the numbers it fetched: the *)
(* walls of the gamma exposure, the regime and its gate, the trade setups  *)
(* and the risk checks.  A read q is                                       *)
(*   exposure: a function from strikes to net exposure, empty when the     *)
(*     fetch failed;  gexPrice, dpPrice, driftPrice: the prices the three  *)
(*     fetches bring, or 0                                                 *)
(*   floors: the dark pool levels, each [price, notional]                  *)
(*   drift: the bias of the flow, or "none";  macro: the regime of the     *)
(*     report;  term: the shape of the VIX curve, or "none"                *)
(***************************************************************************)
EXTENDS Integers, FiniteSetsExt, SequencesExt

CONSTANT NoFlip

Abs(n) == IF n < 0 THEN -n ELSE n

\* The strike pair between which the exposure first changes sign: the flip zone
\* lies in the middle.  Doubled, to stay an integer.
FlipPairs(exposure) ==
  {s \in (DOMAIN exposure) \X (DOMAIN exposure) :
     /\ s[1] < s[2] /\ ~ \E c \in DOMAIN exposure : s[1] < c /\ c < s[2]
     /\ exposure[s[1]] * exposure[s[2]] < 0}
FlipZone2(q) ==
  IF FlipPairs(q.exposure) = {} THEN NoFlip
  ELSE LET first == CHOOSE s \in FlipPairs(q.exposure) :
                      \A t \in FlipPairs(q.exposure) : s[1] <= t[1]
       IN first[1] + first[2]

\* The gamma regime, "none" without a price or a flip zone.
Gamma(q) ==
  IF q.gexPrice = 0 \/ FlipZone2(q) = NoFlip THEN "none"
  ELSE IF 2 * q.gexPrice > FlipZone2(q) THEN "positive" ELSE "negative"

\* The walls: the strike of the largest exposure on each side, or 0.
CallWall(q) ==
  LET up == {k \in DOMAIN q.exposure : q.exposure[k] > 0}
  IN IF up = {} THEN 0
     ELSE CHOOSE k \in up : \A j \in up : q.exposure[k] >= q.exposure[j]
PutWall(q) ==
  LET down == {k \in DOMAIN q.exposure : q.exposure[k] < 0}
  IN IF down = {} THEN 0
     ELSE CHOOSE k \in down : \A j \in down : q.exposure[k] <= q.exposure[j]

\* The price is the first one any fetch brought.
Price(q) == IF q.gexPrice # 0 THEN q.gexPrice
            ELSE IF q.dpPrice # 0 THEN q.dpPrice ELSE q.driftPrice

\* The floor nearest to the price, and how far the price is above it.
NearestFloor(q) ==
  CHOOSE f \in q.floors : \A g \in q.floors :
    Abs(f.price - Price(q)) <= Abs(g.price - Price(q))
FloorGap(q) == Price(q) - NearestFloor(q).price

------------------------------------------------------------------------------
(* The signals: each a source and a weight; one of weight 0 is kept out.   *)

Signal(source, weight, holds) == IF holds THEN {<<source, weight>>} ELSE {}

Signals(q) ==
  Signal("GEX", 2, Gamma(q) = "positive")
  \union Signal("GEX", -2, Gamma(q) = "negative")
  \union (IF q.floors = {} \/ Price(q) = 0 THEN {}
          ELSE Signal("DarkPool", 1, 0 < FloorGap(q) /\ FloorGap(q) < 5)
               \union Signal("DarkPool", -1, -5 < FloorGap(q) /\ FloorGap(q) <= 0))
  \union Signal("NetDrift", 1, q.drift = "bullish")
  \union Signal("NetDrift", -1, q.drift = "bearish")
  \union Signal("Macro", 1, q.macro = "bullish")
  \union Signal("Macro", -1, q.macro = "bearish")
  \union Signal("VIXTerm", 1, q.term = "contango")
  \union Signal("VIXTerm", -2, q.term = "backwardation")
  \union Signal("Divergence", -1, Gamma(q) = "positive" /\ q.drift = "bearish")

\* The score the code adds up beside the list; the gate's label is its sign.
Score(q) ==
  (CASE Gamma(q) = "positive" -> IF q.drift = "bearish" THEN 1 ELSE 2
     [] Gamma(q) = "negative" -> -2 [] OTHER -> 0)
  + (IF q.floors = {} \/ Price(q) = 0 \/ FloorGap(q) \notin -4 .. 4 THEN 0
     ELSE IF FloorGap(q) > 0 THEN 1 ELSE -1)
  + (CASE q.drift = "bullish" -> 1 [] q.drift = "bearish" -> -1 [] OTHER -> 0)
  + (CASE q.macro = "bullish" -> 1 [] q.macro = "bearish" -> -1 [] OTHER -> 0)
  + (CASE q.term = "contango" -> 1 [] q.term = "backwardation" -> -2 [] OTHER -> 0)
GateLabel(q) == IF Score(q) > 0 THEN "bullish"
                ELSE IF Score(q) < 0 THEN "bearish" ELSE "neutral"
Overall(q) ==
  CASE Score(q) >= 3 -> "Strongly Bullish" [] Score(q) = 2 -> "Bullish"
    [] Score(q) = 1 -> "Mildly Bullish"    [] Score(q) = 0 -> "Neutral"
    [] Score(q) = -1 -> "Mildly Bearish"   [] Score(q) = -2 -> "Bearish"
    [] OTHER -> "Strongly Bearish"

\* The signals listed to the user account for the score: their weights add up to
\* it, and the regime and the gate the briefing shows agree on its sign.
Explained(q) ==
  /\ MapThenSumSet(LAMBDA s : s[2], Signals(q)) = Score(q)
  /\ GateLabel(q) = CASE Overall(q) \in {"Strongly Bullish", "Bullish", "Mildly Bullish"} -> "bullish"
                      [] Overall(q) = "Neutral" -> "neutral" [] OTHER -> "bearish"

------------------------------------------------------------------------------
(* The setups and the checks.                                              *)

\* An iron condor at the walls, when they are less than 3% of the price apart.
\* Nothing asks that the put wall be the lower one.
GammaPin(q) ==
  /\ Gamma(q) = "positive"
  /\ CallWall(q) # 0 /\ PutWall(q) # 0
  /\ 100 * (CallWall(q) - PutWall(q)) < 3 * Price(q)
FloorBounce(q) ==
  /\ q.floors # {}
  /\ 0 < FloorGap(q) /\ FloorGap(q) < 8
  /\ NearestFloor(q).notional > 500
Breakdown(q) == Gamma(q) = "negative"
BreakdownTarget(q) ==
  LET below == {f.price : f \in {g \in q.floors : g.price < Price(q)}}
  IN IF below = {} THEN (97 * Price(q)) \div 100 ELSE Max(below)
Setups(q) ==
  IF Price(q) = 0 THEN {}
  ELSE {s \in {"neutral"} : GammaPin(q)} \union {s \in {"bullish"} : FloorBounce(q)}
       \union {s \in {"bearish"} : Breakdown(q)}

\* The checks of the book: its shares and deltas, in percent, against limits
\* that come from the settings, or else from this module.
RiskChecks(share, delta, limit, act, watch, gamma) ==
  [concentration |-> {t \in DOMAIN share : share[t] > limit},
   critical      |-> {t \in DOMAIN share : 2 * share[t] > 3 * limit}
                     \union {l \in DOMAIN delta : Abs(delta[l]) >= act},
   warning       |-> {l \in DOMAIN delta : Abs(delta[l]) >= watch /\ Abs(delta[l]) < act},
   regime        |-> gamma = "negative"]

=============================================================================
