----------------------------- MODULE MCDecisions -----------------------------
(* Decisions for TLC, with what no behaviour of it reaches: the operators of  *)
(* StrategySelection, OptionMath and BookViews on more inputs, and those of   *)
(* DailyBriefing, Playbook, Household and TrendReads.  TLC evaluates these    *)
(* assumptions, each on a few inputs against what it is to say, and then      *)
(* checks the behaviours.                                                     *)
EXTENDS Decisions

------------------------------------------------------------------------------
(* What no behaviour reaches, on a few inputs each against what it is to     *)
(* say.                                                                      *)

\* StrategySelection: a short call is sold no nearer to the money because the
\* earnings are nearer, and further from it when the volatility is high.
ASSUME ShortCallsStepBack ==
  \A below \in {TRUE, FALSE, Nothing}, conc \in {Nothing, 20, 21} :
  \A d, e \in Horizon \union {Nothing}, v, w \in {30, 50, 70} :
    LET Delta(days, ivr) ==
          S!ShortCallDelta([days |-> days, ivr |-> ivr, below |-> below, conc |-> conc])
    IN /\ Delta(d, v) \in 20 .. 40
       /\ S!Days([days |-> d]) <= S!Days([days |-> e]) => Delta(d, v) <= Delta(e, v)
       /\ v <= w => Delta(d, w) <= Delta(d, v)

\* OptionMath: the scan finds the limits of a call spread, except that a limit at
\* the cap or beyond is shown as unlimited; after the last expiry the forward P&L
\* is the one at expiry.
ASSUME LimitsOfSpreads ==
  \A a \in {60, 75}, b \in {80, 105}, debit \in 0 .. 3, side \in {1, -1} :
    LET At(k, n, price) ==
          [right |-> "C", strike |-> k, qty |-> n, premium |-> price, expiry |-> 2]
        spread == <<At(a, side, debit + 1), At(b, -side, 1)>>
        cap == Max({10 * debit, 8})
        Shown(x) == IF x \in 1 - cap .. cap - 1 THEN x ELSE "unlimited"
        pays == b - a - debit
    IN /\ M!MaxProfit(spread, 80) = Shown(IF side = 1 THEN pays ELSE debit)
       /\ M!MaxLoss(spread, 80) = Shown(IF side = 1 THEN -debit ELSE -pays)
       /\ \A p \in {50, 70, 90, 110} :
            /\ M!ForwardPnl(spread, p, 2, <<9, 9>>) = M!AtExpiry(spread, p)
            /\ M!ForwardPnl(spread, p, 1, <<9, 9>>) = - M!NetPremium(spread)

\* OptionMath: the proposals for a roll are options of the pool, no two of one
\* strike, the first of them the nearest of all to the first profile.
Chains == {[strike : {7, 9, 10}, dte : {30, d}, mid : {1}, oi : {5}, delta : {x, 30}] :
           d \in {13, 45, 120}, x \in {0, 10, 20}}
ASSUME RollsDiffer ==
  \A chain \in Chains, right \in {"C", "P"} :
    LET pool == M!RollPool(chain, right, Spot, 9, 40, 5)
        rolls == M!RollProposals(pool, right, 40)
    IN /\ ToSet(rolls) \subseteq pool /\ (pool # {} => rolls # << >>)
       /\ \A i, j \in DOMAIN rolls : i # j => rolls[i].strike # rolls[j].strike
       /\ \A o \in pool : M!Distance(rolls[1], M!Profiles(right)[1], 40)
                          <= M!Distance(o, M!Profiles(right)[1], 40)
       /\ right = "C" => \A o \in pool : o.strike >= 9

\* OptionMath: the estimate of a long strategy is never short, of a contract no
\* longer than the stock.
ASSUME ScenarioDeltaBounded ==
  \A t \in Tables, q \in {1, 3} :
    /\ M!ScenarioDelta(t, Spot, "COVERED_CALL", q) \in 0 .. 100 * q
    /\ M!ScenarioDelta(t, Spot, "BULL_CALL_SPREAD", q) >= 0
    /\ M!ScenarioDelta(t, Spot, "CSP", q) = q * M!ScenarioDelta(t, Spot, "CSP", 1)

\* PreTradeGates: the report offers what the scan of the universe lets proceed,
\* before which the scan lists nothing; an open row is never an exit as well.
ASSUME ReportMatchesScan ==
  \A m \in {g \in GateReads : g.vix = 29 /\ g.netLiq = 0 /\ g.macro = Nothing} :
    /\ P!Candidates(m) = {t \in P!Listed(m) : P!Verdict(P!RowFailures(m, t)) = "PROCEED"}
    /\ \A t \in P!Candidates(m), u \in P!Listed(m) \ P!Candidates(m) :
         P!RowRank(m, t)[1] < P!RowRank(m, u)[1]
    /\ \A t \in P!PostEarnings(m) : "earnings_blackout" \in P!RowFailures(m, t)
ASSUME UrgentRowsAreShown ==
  \A rows \in SUBSET [ticker : {t1}, strategy : {"CSP", "SPY_HEDGE"}, roll : BOOLEAN,
                      urgency : {"URGENT"}, verdict : {"ACT_IMMEDIATELY", "HOLD"},
                      netMv : {0}, pct : {5}] :
    /\ P!UrgentActions(rows) <= 2 * Cardinality(P!RollRows(rows) \union P!StopRows(rows))
    /\ P!ExitRows(rows) = {}

\* TradeStats: ranges that adjoin put each trade with a value in one of them.
ASSUME BucketsPartition ==
  \A value \in [1 .. 3 -> {-1, 0, 5, 9, None, Nothing}] :
    LET b == T!Buckets(value, {<<-9, 0>>, <<0, 5>>, <<5, 99>>})
    IN /\ UNION {b[r] : r \in DOMAIN b} = {i \in 1 .. 3 : value[i] \notin {None, Nothing}}
       /\ \A r, q \in DOMAIN b : r # q => b[r] \intersect b[q] = {}

\* MarketRegime: a bearish setup excludes a neutral one and points below the
\* price; what is critical is not also a warning.
ASSUME SetupsExclude ==
  \A q \in {r \in RegimeReads : r.term = "none" /\ r.macro = "neutral" /\ r.drift = "none"} :
    /\ ~ {"neutral", "bearish"} \subseteq G!Setups(q)
    /\ "bearish" \in G!Setups(q) => G!BreakdownTarget(q) < G!Price(q)
ASSUME ChecksExclude ==
  \A d \in {-45, -30, 0, 29, 30, 40, 41}, x \in {20, 21, 30, 31} :
    LET c == G!RiskChecks([t \in {t1} |-> x], [t \in {t2} |-> d], 20, 40, 30, "negative")
    IN /\ c.critical \intersect c.warning = {} /\ c.regime
       /\ c.concentration = {} => t1 \notin c.critical

\* BookViews: the greeks of a book are those of its parts, and of the opposite
\* book the opposite; stock, a missing delta and a ticker without a price or a
\* beta among them.
Line(t, type, qty, delta) ==
  [ticker |-> t, type |-> type, right |-> IF type = "STK" THEN "S" ELSE "C",
   qty |-> qty, strike |-> 8, dte |-> 100, delta |-> delta, vega |-> delta,
   value |-> 15, strategy |-> "SPY_HEDGE"]
Pieces == {Line(t, y, n, d) : t \in {t1, t2}, y \in {"STK", "OPT"}, n \in {-1, 2},
                             d \in {Nothing, 40}}
ASSUME GreeksAdd ==
  \A x, y \in Pieces :
    LET beta == [t \in {t1} |-> 2]
        price == [t \in {t2} |-> 3]
        Delta(b) == V!BetaDelta(b, beta, price)
        Vega(b) == V!BetaVega(b, beta)
        Minus(l) == [l EXCEPT !.qty = -@]
    IN /\ Delta(<<x, y>>) = Delta(<<x>>) + Delta(<<y>>)
       /\ Vega(<<x, y>>) = Vega(<<x>>) + Vega(<<y>>)
       /\ Delta(<<Minus(x)>>) = - Delta(<<x>>) /\ Vega(<<Minus(x)>>) = - Vega(<<x>>)
       /\ V!CoverageOk(<<x, y>>) /\ ~V!CoverageOk(<<x>>)

\* BookViews: as many calls as are unwritten leave nothing to write, and a ticker
\* the selector has no credit for has no call to recommend.
ASSUME CandidatesAreUnwritten ==
  \A n \in 1 .. 3, written \in 0 .. 4, credit \in {0, 1}, safe \in SUBSET {t1} :
    LET b == <<Line(t1, "OPT", n, 40), Line(t1, "OPT", -written, 10)>>
        found == V!CallCandidates(b, [t \in {t1} |-> credit], safe)
    IN /\ found = {} <=> written >= n
       /\ \A c \in found : /\ c.unwritten + written = n
                           /\ c.deferred => c.call /\ c.ticker \notin safe
                           /\ c.call <=> credit = 1

\* BookViews: one more spread never makes a hedge too small, and a book without
\* an engine and a hedge is in its band.
ASSUME HedgesGrow ==
  \A d \in {0, 20, 40}, n \in 1 .. 2 :
    LET Spy(k, q) == [Line("SPY", "OPT", q, 0) EXCEPT !.right = "P", !.strike = k]
        engine == <<Line(t1, "OPT", 2, d)>>
        one == engine \o <<Spy(8, 1), Spy(7, -1)>>
        more == engine \o <<Spy(8, 1 + n), Spy(7, -1 - n)>>
        Verdict(b) == V!HedgeVerdict(b, [t \in {t1} |-> 5])
    IN /\ Verdict(one) # "under" => Verdict(more) # "under"
       /\ Verdict(engine) = IF d = 0 THEN "in_band" ELSE "under"
       /\ V!MaxPayout(more) = 1 + n

\* BookViews: no more limits are breached with more cash and a lower floor, none
\* with unknown cash; what has not been bought back for more has earned at most
\* its premium; a lizard that passes loses nothing above its calls.
ASSUME LimitsGiveWay ==
  \A cash, excess \in {Nothing, 1, 2}, floor \in {1, 2, 3} :
    /\ V!RiskStatus(cash, floor, excess, floor) = "within limits"
         <=> \A x \in {cash, excess} : x = Nothing \/ x >= floor
    /\ V!StaleData(cash, floor) \in {Nothing, TRUE, FALSE}
    /\ cash # Nothing => V!Captured(floor, cash) <= 100 /\ V!Captured(0, cash) = Nothing
    /\ cash # Nothing => (V!JadeLizardPasses(cash, cash, 5, 5 + floor) <=> 2 * cash - floor > 0)

\* BookViews: the series of cluster shares keeps one point a day, in order and
\* not more than it may, the last of them of the newest reading.
ASSUME SeriesIsOrdered ==
  \A read \in [1 .. 5 -> [step : {0, 1}, pct : {1, 2}]] :
    LET Day(i) == FoldFunctionOnSet(+, 0, [j \in 1 .. 5 |-> read[j].step], 1 .. i)
        points == FoldLeft(LAMBDA ps, i : V!Recorded(ps, Day(i), read[i].pct),
                           << >>, [i \in 1 .. 5 |-> i])
    IN /\ Len(points) <= 3
       /\ \A i, j \in DOMAIN points : i < j => points[i].day < points[j].day
       /\ Last(points) = [day |-> Day(5), pct |-> read[5].pct]

\* BookViews: the words of the report and the volatility each give one regime,
\* and what is posted of one ticker leaves the others alone.
ASSUME ReadingsAreKept ==
  /\ \A words \in SUBSET {"bullish", "bearish"} :
       V!MacroRegime(words) = "bullish" <=> words = {"bullish"}
  /\ V!VixState(Nothing) = V!VixState(25) /\ V!VixState(26) = V!VixState(35)
  /\ \A assets \in [{t1} -> 1 .. 2], t \in {t1, t2} :
       LET after == V!Hydrated(assets, t, 9)
       IN after[t] = 9 /\ \A u \in DOMAIN assets \ {t} : after[u] = assets[u]

------------------------------------------------------------------------------
(* The briefing, on books of two lines and every list of a few actions.     *)

D == INSTANCE DailyBriefing WITH
  Missing <- Nothing, Empty <- None, DeltaBias <- 5000, SoftPct <- 300,
  HardPct <- 400, NoGate <- {"SPY", "OST"}, StaleHours <- 24

BookLine(t, type, role, qty, mult, delta) ==
  [ticker |-> t, type |-> type, right |-> IF type = "STK" THEN "S" ELSE "P", role |-> role,
   qty |-> qty, strike |-> 5, mult |-> mult, delta |-> delta,
   strategy |-> IF type = "STK" THEN "STOCK" ELSE "PCS"]
BookLines == {BookLine(t, y, r, n, x, d) : t \in {t1, "SPY"}, y \in {"STK", "OPT"},
                r \in {"", "short", "long"}, n \in {-1, 2}, x \in {Nothing, None, 100},
                d \in {Nothing, -30}}

\* DailyBriefing: a name that is to be salvaged is frozen, one that is short, the
\* hedge and a book without a net liquidation never; more of a long line freezes
\* no less.  Of a spread one line is the short put, whatever names the roles.
ASSUME GatesOfNames ==
  \A x, y \in BookLines, netLiq \in {0, 700, 1000} :
    LET b == <<x, y>>
        price == [t \in {t1, "SPY"} |-> 4]
        more == <<[x EXCEPT !.qty = 3], y>>
    IN /\ D!Salvage(b, price, netLiq) \subseteq D!Frozen(b, price, netLiq)
       /\ \A t \in D!Frozen(b, price, netLiq) :
            netLiq # 0 /\ t # "SPY" /\ D!Dollars(b, price, t) > 0
       /\ x.type = "STK" /\ x.qty = 2
          => D!Frozen(b, price, netLiq) \subseteq D!Frozen(more, price, netLiq)
       /\ x.mult = 100 /\ y.mult = 100 /\ x.type = "OPT" /\ y.type = "OPT"
          /\ x.ticker = y.ticker
          => D!Dollars(b, price, x.ticker) = 4 * D!PortfolioDelta(b)
ASSUME SpreadsCountOnce ==
  \A role \in {"", "short"}, long \in {"", "long"}, n \in 1 .. 2 :
    LET b == <<BookLine(t1, "OPT", role, -n, 100, -30), BookLine(t1, "OPT", long, n, 100, -10)>>
    IN /\ D!ShortPuts(b) = {1} /\ D!PutNotional(b) = 500 * n
       /\ D!Bias(b) = "neutral" /\ D!Bias(<<[b[1] EXCEPT !.qty = -9]>>) = "long"

\* DailyBriefing: more volatility never leaves fewer entries, and the setting is
\* a ceiling, but for 0, which is no setting.
ASSUME BudgetOfTheWeek ==
  \A v, w \in {Nothing, 0, 17, 18, 25, 26}, static \in 0 .. 6, dynamic \in BOOLEAN :
    LET Most(vix) == D!WeeklyMax(vix, static, dynamic)
    IN /\ static # 0 => Most(v) <= static
       /\ Nothing \notin {v, w} /\ 0 < v /\ v <= w => Most(v) <= Most(w)
       /\ \A d \in {Nothing, 0, 9} :
            LET journal == <<[action |-> "OPEN", day |-> 3, rules |-> {}],
                             [action |-> "OPEN", day |-> 1, rules |-> {}],
                             [action |-> "OPEN", day |-> 4, rules |-> {"roll"}],
                             [action |-> "CLOSE", day |-> 4, rules |-> {}]>>
                used == D!Used(journal, 3, d)
            IN D!Remaining(Most(v), used) + used >= Most(v) /\ used \in {0, 1, 9}

\* DailyBriefing: an action that is shown is not behind one that matters less, and
\* one that is left out leaves eight that matter as much; an old book is told
\* first.
Rows(n) == [i \in 1 .. n |-> [ticker |-> t1, strategy |-> "PMCC", short |-> i > 1,
                              alert |-> IF i > 6 THEN "broken" ELSE "critical_gamma"]]
Found(n) == [i \in 1 .. n |-> [ticker |-> t2, days |-> IF i = 2 THEN 10 ELSE Nothing,
                               signal |-> IF i > 3 THEN "PRIME_CRUSH" ELSE "GOOD_SPREAD"]]
ASSUME FirstThingsFirst ==
  \A n \in 0 .. 10, k \in 0 .. 5, held \in {<< >>, <<t1, t2>>, <<t2, t1>>},
     age \in {Nothing, 24, 25} :
    LET shown == D!Actions(Rows(n), held, [t \in {t1, t2} |-> IF t = t1 THEN 5 ELSE 6],
                           Found(k), age)
        Weight(a) == CASE a.priority = "HIGH" -> 3 [] a.priority = "MED" -> 2 [] OTHER -> 1
        highs == Max({0, n - 1}) + (IF age = 25 THEN 1 ELSE 0)
    IN /\ \A i, j \in DOMAIN shown : i < j => Weight(shown[i]) >= Weight(shown[j])
       /\ Cardinality({i \in DOMAIN shown : shown[i].priority = "HIGH"}) = Min({8, highs})
       /\ age = 25 => shown[1].ticker = Nothing
       /\ Len(shown) = Min({8, highs + (IF held = << >> THEN 0 ELSE 1)
                               + k - (IF k >= 2 THEN 1 ELSE 0)})

\* PreTradeGates: what the candidates page shows as tradable and the check stops
\* fails a gate the page does not know; the page stops nothing the check allows.
ASSUME PageIsTheWeakerGate ==
  \A m \in {g \in GateReads : g.macro = Nothing}, t \in {t1, t2} :
    LET row == [ticker |-> t, days |-> Nothing]
    IN /\ P!Tradable(m, row)
          => P!HardFailures(m, t) \subseteq {"concentration", "vix", "leap_blackout"}
       /\ P!CanTrade(m, t) => P!Tradable(m, row)
       /\ m.calendar[t] = -1 => P!Tradable(m, row) = P!Tradable(m, [row EXCEPT !.days = 4])

------------------------------------------------------------------------------
(* The playbook, the household and the trends.                             *)

B == INSTANCE Playbook WITH
  Unknown <- Nothing, NoThesis <- None, Failed <- Nothing, Points <- {"p", "q"},
  CrushFloor <- 15, PrimeLow <- -8, HighConcentration <- 50, HighLow <- -8,
  HighHigh <- -5, HighCap <- 1
Prints == [ticker : {t1}, gap : -17 .. 7, crush : {14, 15}, conc : {Nothing, 50, 51},
           thesis : {None} \union SUBSET {"p", "q"}]

\* Playbook: an entry needs the crush, the whole thesis and a gap between the
\* bands that pass; a concentrated name never gets more than the same name would
\* without its share; only what may be entered has no limit of its size.
ASSUME PlaybookIsCautious ==
  \A q \in Prints :
    LET slim == [q EXCEPT !.conc = Nothing]
    IN /\ B!FinalAction(slim) = "PROCEED"
          <=> q.crush >= 15 /\ q.thesis = {"p", "q"} /\ q.gap \in -15 .. 1
       /\ B!FinalAction(q) = "PROCEED" => B!FinalAction(slim) = "PROCEED"
       /\ B!Verdict(q) = "PROFIT_TRIM" => B!Verdict(slim) = "PASS" /\ B!SizeCap(q) = 0
       /\ B!SizeCap(q) = Nothing => B!FinalAction(q) \in {"PROCEED", "HOLD"}
       /\ B!Band(q.gap) = "prime" <=> B!Matrix(q.gap) = "PRIME_ENTRY"

\* Playbook: the route says PROCEED of nothing, and the page, which always sends
\* a thesis, is never answered.
ASSUME RouteNeverProceeds ==
  \A q \in Prints, book \in {Nothing, << >>, [t \in {t1} |-> 60]} :
    /\ B!Answer(q, book) # "PROCEED"
    /\ q.thesis # None <=> B!Answer(q, book) = Nothing

H == INSTANCE Household WITH
  Missing <- Nothing, Unknown <- None, EmergencySeed <- [t \in {t1} |-> 1550],
  Top <- 2, NameCap <- 34, LeftOut <- {"SPY"}
Names == {t1, t2, "SPY", "x"}
HouseReads ==
  [store : {Nothing} \union [names : {<< >>} \union [{t1} -> {20, 40}], total : {40},
                            exclude : {{"SPY"}}, seed : {[t \in {t2} |-> 900]}],
   book : {Nothing} \union [euros : {0, 100}, share : [Names -> {0, 20, 25, 50}]]]
Truths == {TRUE, FALSE, None}

\* Household: in a book without borrowing a name the cut leaves out has a share it
\* could climb with, but none it is judged by, so it is held; what is left out is
\* no larger than what is shown.
ASSUME CutNamesAreHeld ==
  \A h \in HouseReads, t \in Names :
    LET gates == H!Gates(h, t, [cash |-> "ok", regime |-> "neutral"], TRUE)
    IN /\ H!Live(h) /\ t \in H!LiveNames(h) \ DOMAIN H!Shares(h)
          => /\ H!UncapVerdict(gates, 0) = "hold"
             /\ \A u \in DOMAIN H!Shares(h) : H!Share(h, t) <= H!Shares(h)[u]
             /\ MapThenSumSet(LAMBDA u : h.book.share[u], Names) <= 100
                => H!Share(h, t) < 3400
       /\ ~H!Live(h) => H!Shares(h) \in {[u \in {t1} |-> 1550], [u \in {t2} |-> 900]}

\* Household: a call more on the short side never climbs the ladder; whoever may
\* climb has all its gates known and open, and losing what one knows never sends
\* a name down.
ASSUME LadderIsClimbedInOrder ==
  /\ \A short \in 0 .. 5, long \in 1 .. 4 :
       /\ H!Stage(short + 1, long) <= H!Stage(short, long)
       /\ H!Stage(short, long) = 3 <=> 8 * short < long
       /\ short >= long => H!Stage(short, long) = 0
  /\ \A gates \in [{"name", "cash", "regime", "trend"} -> Truths], stage \in 0 .. 3 :
       LET verdict == H!UncapVerdict(gates, stage)
       IN /\ verdict = "advance"
             => stage < 3 /\ \A g \in DOMAIN gates : gates[g] = TRUE
          /\ verdict # "de-stage"
             => \A g \in DOMAIN gates : H!UncapVerdict([gates EXCEPT ![g] = None], stage) # "de-stage"

\* Household: a row is of a ticker with a long call; a leg of a hedge counts when
\* it is long and as far out as the spot of the first leg says, and a nearer
\* expiry never lifts the flag.
HouseLeg(t, right, qty, strike, dte) ==
  [ticker |-> t, right |-> right, qty |-> qty, strike |-> strike, spot |-> 100,
   dte |-> dte, value |-> -75]
ASSUME HedgesAreFarPuts ==
  \A right \in {"C", "P"}, n \in {-1, 1}, k \in {84, 85, 86}, dte \in {None, 89, 90},
     ctx \in {Nothing, [cash |-> "low", regime |-> "bearish"]} :
    LET put == <<HouseLeg("SPY", right, n, k, dte)>>
        calls == put \o <<HouseLeg(t1, "C", n, k, dte), HouseLeg(t2, "C", -1, k, dte)>>
        rows == H!Rows([store |-> Nothing], calls, ctx, [t \in {t1} |-> TRUE])
    IN /\ H!TailPuts(put) # {} <=> right = "P" /\ n = 1 /\ k < 86
       /\ H!RollFlag(put) <=> H!TailPuts(put) # {} /\ dte = 89
       /\ H!Utilization(put, 10000) = IF H!TailPuts(put) = {} THEN None ELSE 100
       /\ DOMAIN rows = {t \in {t1} : n = 1}
       /\ \A t \in DOMAIN rows : rows[t] = IF ctx = Nothing THEN "uncapped" ELSE "de-stage"

W == INSTANCE TrendReads WITH
  Failed <- Nothing, Unknown <- None,
  Least <- [a \in {"200w", "50d", "200d", "10m", "20m"} |->
              CASE a = "200w" -> 30 [] a = "50d" -> 50 [] a = "200d" -> 200
                [] a = "10m" -> 10 [] OTHER -> 20],
  Length <- [a \in {"200w"} |-> 200]
Closes == {Nothing} \union
  [bars : {9, 10, 19, 20, 29, 30, 50, 199, 200}, spot : {99, 100, 102, 103},
   average : {[a \in {"200w", "50d", "200d", "10m", "20m"} |->
                 IF a \in high THEN 103 ELSE 100] : high \in {{}, {"50d", "10m"}, {"200w", "200d", "20m"}}}]

\* TrendReads: no gate closes, and no thesis breaks, for what could not be read;
\* of two averages only one of which is there the monthly trend is of that one,
\* the daily one of neither; a failed read is served as long as a good one.
ASSUME GapsAreNoBreach ==
  /\ \A c \in Closes :
       /\ c = Nothing \/ c.bars < 30 <=> W!Gate(c) = "unknown"
       /\ W!Gate(c) = "act" => c.spot < c.average["200w"] /\ W!WeeklyLength(c) >= 30
       /\ c = Nothing \/ c.bars < 10 <=> W!MonthlyTrend(c) = "unknown"
       /\ c # Nothing /\ c.bars \in 10 .. 19
          => W!MonthlyTrend(c) = IF c.spot < c.average["10m"] THEN "down" ELSE "up"
       /\ c # Nothing /\ c.bars \in 50 .. 199 => W!DailyTrend(c) = "mixed" /\ W!KeyLevel(c) = "50d"
       /\ W!KeyLevel(c) = None <=> W!DailyTrend(c) = "unknown"
  /\ \A entry \in {None} \union [at : 0 .. 2, c : {Nothing, "bars"}], now \in 2 .. 4 :
       LET read == W!Served(entry, now, 2, "bars")
       IN read.c = Nothing <=> entry # None /\ entry.c = Nothing /\ now < entry.at + 2

==============================================================================
