------------------------------- MODULE Decisions -------------------------------
(* Decisions side by side: PositionRules, a state machine, and the operators  *)
(* of PreTradeGates, StrategySelection, OptionMath, BookViews, TradeStats and *)
(* MarketRegime, each on its inputs.  A behaviour looks at one of them, its   *)
(* scope: a book of positions over time, or one input that is given.          *)
EXTENDS PositionRules

CONSTANTS Scopes, Nothing, None, t1, t2

ASSUME NamesAssumption ==
  Nothing \notin Int /\ None \notin Int /\ Nothing # None

VARIABLES
  scope,
  given   \* the input looked at, or Nothing

------------------------------------------------------------------------------
(* PositionRules: the shapes of position the strategies hold, and every way  *)
(* to be long or short calls at three strikes of one expiry.  Days and       *)
(* thresholds are scaled down and keep their order.                          *)

Near == 4
Far == 8

LegOf(right, qty, strike, expiry, delta, strategy, stamp) ==
  [right |-> right, qty |-> qty, strike |-> strike, expiry |-> expiry,
   delta |-> delta, strategy |-> strategy, stamp |-> stamp]
Call(qty, strike, expiry, delta, strategy) ==
  LegOf("C", qty, strike, expiry, delta, strategy, "ok")
Put(qty, strike, expiry, delta) == LegOf("P", qty, strike, expiry, delta, "", "ok")
Shares == LegOf("", 1, 0, NoDay, NoDelta, "", "")

\* A spread of calls: the contracts held (or short) at each strike.
Held3 == [1 .. 3 -> -2 .. 1]
Spread(h) ==
  LET At(k) == IF h[k] = 0 THEN << >>
               ELSE <<LegOf("C", h[k], k, Near, 25, "",
                            IF h[k] < 0 THEN "critical_gamma" ELSE "")>>
  IN At(1) \o At(2) \o At(3)

MCHedges == {<<Put(1, 2, Near, 25), Put(-1, 1, Near, 25)>>}
MCBooks ==
  MCHedges \union ({Spread(h) : h \in Held3} \ {<< >>})
  \union {<<Call(1, 1, Far, 41, s), Call(-1, 2, Near, 25, s)>> : s \in {"", "PMCC"}}
  \union {<<Call(-1, 3, Near, 25, ""), Put(-1, 2, Near, 25), Put(1, 1, Near, 25)>>,
          <<Put(-1, 2, Near, 25), Put(1, 1, Near, 25), Call(1, 1, Far, 41, "")>>,
          <<Call(-1, 2, Near, 25, ""), Shares>>,
          <<Call(-1, 2, NoDay, 25, ""), Shares>>,
          <<Call(1, 1, Far, 41, ""), Put(1, 1, Near, 25)>>}

------------------------------------------------------------------------------
(* Gates: days scaled down, the limits and what is next to them.           *)

GateDefault == [concentration_limit_pct |-> 20, vix_high |-> 30,
                leap_earnings_blackout_days |-> 3, single_name_cap_pct |-> 25,
                cluster_cap_pct |-> 40, vrp_min_entry_pp |-> 2]
P == INSTANCE PreTradeGates WITH
  Tickers <- {t1, t2}, NoDate <- Nothing, NoMap <- Nothing, NoVix <- Nothing,
  Unread <- Nothing, Down <- Nothing, BlackoutDays <- 1, LeapDte <- 2, HighConcentration <- 25,
  Default <- GateDefault

LegBooks ==
  {<< >>} \union {<<[ticker |-> t1, strategy |-> s, dte |-> d, mv |-> mv, pct |-> 20]>> :
                 s \in {"PMCC", "CC"}, d \in {2, 3}, mv \in {199, 200}}

\* What the files say: the first source of the concentration that is there.
Concentrations == {<<[t \in {t1} |-> pct], 0>> : pct \in {19, 20, 24, 25}}
           \union {<<Nothing, netLiq>> : netLiq \in {0, 10000}}
GateRead(date, excluded, held, share, vix, dash, macro) ==
  [calendar |-> [t \in {t1, t2} |-> IF t = t1 THEN date ELSE Nothing],
   tiers |-> [tier1 |-> <<t1>>, tickers |-> <<t1, t2>>],
   excluded |-> excluded, legs |-> held, cached |-> share[1], netLiq |-> share[2],
   vix |-> vix, dash |-> dash, config |-> << >>,
   macro |-> macro, term |-> IF macro = Nothing THEN Nothing ELSE "backwardation",
   exDiv |-> IF macro = "defer" THEN {t1} ELSE Nothing, cluster |-> {t1},
   vrp |-> [t \in {t1, t2} |-> IF macro = "defer" THEN 1 ELSE Nothing],
   weekly |-> [t \in {t1, t2} |-> IF macro = "defer" THEN "below" ELSE Nothing]]
EarningsDays == {Nothing, -1, 0, 1, 2, 3, 4}
Exclusions == {{}, {t1}}
Dashboards == {<< >>, [vix_high |-> 29]}
GateReads ==
  {GateRead(date, excluded, held, share, vix, dash, macro) :
   date \in EarningsDays, excluded \in Exclusions, held \in LegBooks,
   share \in Concentrations, vix \in {Nothing, 29, 30}, dash \in Dashboards,
   macro \in {Nothing, "clear", "defer"}}

------------------------------------------------------------------------------
(* Selection: each day next to a threshold, volatilities of every fit.     *)

S == INSTANCE StrategySelection WITH
  NoDays <- Nothing, Unread <- Nothing, TrendGate <- TRUE
Horizon == {0, 7, 8, 10, 11, 14, 15}
Situations ==
  [days : Horizon \union {Nothing}, ivr : {10, 24, 31, 41, 60},
   regime : {"bullish", "neutral", "bearish"}, below : {TRUE, FALSE, Nothing},
   conc : {Nothing},
   credit : [ToSet(S!Strategies) -> {0, 1}],
   yield : {[id \in ToSet(S!Strategies) |-> IF id \in best THEN 2 ELSE 1] :
              best \in {{}, {"csp", "diagonal"}, {"pcs"}}}]

------------------------------------------------------------------------------
(* Strikes: every delta that falls in three steps as the strike rises.     *)

M == INSTANCE OptionMath WITH Rounds <- 5, Tick <- 3, GridSteps <- 10, MaxDte <- 60
Spot == 8
Deltas3(a, b, c) ==
  [k \in 1 .. 2 * Spot |-> IF k < a THEN 90 ELSE IF k < b THEN 50
                           ELSE IF k < c THEN 22 ELSE 5]
Tables == {Deltas3(a, b, c) : a \in 2 .. 8, b \in 5 .. 12, c \in 7 .. 16}

------------------------------------------------------------------------------
(* Hedges: what may be held of the puts at four strikes of one expiry.     *)

V == INSTANCE BookViews WITH
  NoGreek <- Nothing, Unknown <- Nothing, LeapMinDte <- 90, Keep <- 3
PutsHeld == {f \in [1 .. 4 -> -2 .. 2] : \E k \in 1 .. 4 : f[k] # 0}
PutsOf(f) == {[strike |-> k, qty |-> f[k]] : k \in {j \in 1 .. 4 : f[j] # 0}}

------------------------------------------------------------------------------
(* Statistics: four trades, each of a loss, of nothing, or of none.        *)

T == INSTANCE TradeStats WITH Missing <- None, NaN <- Nothing
Pnls == [1 .. 4 -> {-3, -1, 0, 2, None, Nothing}]

------------------------------------------------------------------------------
(* The regime of the market.                                               *)

G == INSTANCE MarketRegime WITH NoFlip <- Nothing
\* What the fetches may bring: exposures at three strikes, prices on both sides
\* of them and levels nearer and farther than each threshold.
RegimeReads ==
  [exposure : {<< >>} \union [{96, 100, 104} -> {-2, -1, 1}],
   gexPrice : {0, 98, 102}, dpPrice : {0, 100}, driftPrice : {0},
   floors : {{}} \union {{[price |-> p, notional |-> 600]} : p \in {90, 95, 99, 104}},
   drift : {"bullish", "bearish", "none"}, macro : {"bullish", "bearish", "neutral"},
   term : {"contango", "backwardation", "none"}]

------------------------------------------------------------------------------

Inputs == CASE scope = "gates" -> GateReads
            [] scope = "selection" -> Situations
            [] scope = "strikes" -> Tables
            [] scope = "hedge" -> PutsHeld
            [] scope = "statistics" -> Pnls
            [] scope = "regime" -> RegimeReads
            [] OTHER -> {}

AllInit ==
  /\ scope \in Scopes /\ given = Nothing
  /\ Init
  /\ scope # "book" => legs \in MCHedges /\ quote = {}

Look == given = Nothing /\ given' \in Inputs /\ UNCHANGED <<scope, vars>>

AllNext == \/ scope = "book" /\ Next /\ UNCHANGED <<scope, given>>
           \/ Look

AllSpec == AllInit /\ [][AllNext]_<<scope, given, vars>>

Given(s) == scope = s /\ given # Nothing

\* StrategySelection: what the selector recommends.
SelectionSound == Given("selection") => S!Sound(given, 10, Horizon)

\* OptionMath: the selector and the collar find the strike of their delta.
StrikesMeetTheirDelta ==
  Given("strikes") => \A d \in {10, 30, 70} : M!FoundStrikesMeet(given, Spot, d)

\* OptionMath, the docstring of scenario_estimate: "estimate delta/theta/vega/
\* notional using BS at a standard entry point (0.20 short leg, same logic as
\* strategy_metrics)": the strikes of the estimate meet their delta, too.
ScenarioStrikesMeetTheirDelta ==
  Given("strikes") => \A d \in {10, 30, 70} : M!ScenarioStrikesMeet(given, Spot, d)

\* BookViews: the hedge pays what the coverage says.
HedgePaysWhatItSays == Given("hedge") => V!PaysWhatItSays(PutsOf(given))

\* What the code writes more than once says the same each time: the rule for an
\* entry in three routes (PreTradeGates), the need for an alert in the monitor and
\* the scans (PositionRules), the summary of the closed trades in a route and a
\* script and what a trade is (TradeStats), and the score of the market beside
\* the list of its signals (MarketRegime).
CopiesAgree ==
  /\ scope = "book" => ViewsAgree
  /\ Given("gates") => \A t \in {t1, t2} : P!CopiesAgree(given, t)
  /\ Given("statistics") => /\ T!SummariesAgree(given)
                            /\ \A before, after \in -2 .. 2 : T!FillsMatchDiffs(before, after)
  /\ Given("regime") => G!Explained(given)

=============================================================================
