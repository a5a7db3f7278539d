---------------------------- MODULE DailyBriefing ----------------------------
(***************************************************************************)
(* What the briefing (routes/briefing.py) makes of the book and the        *)
(* journal: the greeks of the portfolio, the beta-adjusted dollar delta of *)
(* each name with its gates, the entries left for the week and the actions *)
(* of the day.  A leg is [ticker, type, right, role, qty, strike, mult,    *)
(* delta, strategy], type being "STK" for stock and delta in percent.  A   *)
(* journal entry is [action, day, rules], a row of the book [ticker,       *)
(* alert, strategy, short], a candidate [ticker, signal, days].            *)
(***************************************************************************)
EXTENDS Integers, FiniteSetsExt, SequencesExt

CONSTANTS
  Missing,     \* a field that is not there
  Empty,       \* a multiplier that is an empty string
  DeltaBias,   \* the bias thresholds, 5000 on either side
  SoftPct,     \* beta_dd_soft_gate_pct, in tenths of a percent
  HardPct,     \* beta_dd_hard_backstop_pct
  NoGate,      \* the hedge and the inert line, SPY and OST
  StaleHours   \* 24

------------------------------------------------------------------------------
(* Greeks and dollar deltas.                                               *)

\* An empty multiplier is one share to the greeks, a contract to the rest.
GreekMultiplier(leg) ==
  CASE leg.mult = Missing -> 100 [] leg.mult = Empty -> 1 [] OTHER -> leg.mult
DollarMultiplier(leg) == IF leg.mult \in {Missing, Empty, 0} THEN 100 ELSE leg.mult

\* portfolio_delta, in percent of a share; stock has no delta and counts nothing.
PortfolioDelta(b) ==
  MapThenSumSet(LAMBDA i : b[i].delta * b[i].qty * GreekMultiplier(b[i]),
                {i \in DOMAIN b : b[i].delta # Missing})
Bias(b) == IF PortfolioDelta(b) > DeltaBias THEN "long"
           ELSE IF PortfolioDelta(b) < -DeltaBias THEN "short" ELSE "neutral"

\* The short puts of the put credit spreads, by role or by sign, and what they
\* would cost if assigned.
ShortPuts(b) ==
  {i \in DOMAIN b : /\ b[i].strategy = "PCS"
                    /\ \/ b[i].role \in {"short", "short_put"}
                       \/ b[i].qty < 0 /\ (b[i].right = "P" \/ b[i].role = "")}
PutNotional(b) ==
  MapThenSumSet(LAMBDA i : b[i].strike * GreekMultiplier(b[i])
                  * (IF b[i].qty < 0 THEN -b[i].qty ELSE b[i].qty),
                {i \in ShortPuts(b) : b[i].strike # Missing})

\* compute_beta_dd: the dollars times 100 that move with a name, of the names
\* that have a price, and their share of the net liquidation in tenths.
Named(b, price) ==
  {b[i].ticker : i \in {j \in DOMAIN b : /\ b[j].ticker \in DOMAIN price
                                         /\ b[j].type = "STK" \/ b[j].delta # Missing}}
Dollars(b, price, t) ==
  MapThenSumSet(LAMBDA i : b[i].qty * price[t]
                  * (IF b[i].type = "STK" THEN 100
                     ELSE b[i].delta * DollarMultiplier(b[i])),
                {i \in DOMAIN b : /\ b[i].ticker = t
                                  /\ b[i].type = "STK" \/ b[i].delta # Missing})
Share(b, price, t, netLiq) ==
  IF netLiq = 0 THEN Missing
  ELSE (20 * Dollars(b, price, t) + netLiq) \div (2 * netLiq)

\* A name over the soft gate is frozen, one over the backstop to be salvaged.
Over(b, price, netLiq, limit) ==
  {t \in Named(b, price) \ NoGate : /\ Share(b, price, t, netLiq) # Missing
                                    /\ Share(b, price, t, netLiq) > limit}
Frozen(b, price, netLiq) == Over(b, price, netLiq, SoftPct)
Salvage(b, price, netLiq) == Over(b, price, netLiq, HardPct)

------------------------------------------------------------------------------
(* Pacing: how many entries the week still has.                            *)

\* _dynamic_pacing_max: by volatility, under the static setting unless that is 0.
WeeklyMax(vix, static, dynamic) ==
  IF ~dynamic \/ vix = Missing \/ vix <= 0 THEN static
  ELSE LET band == IF vix < 18 THEN 2 ELSE IF vix <= 25 THEN 3 ELSE 5
       IN IF static = 0 THEN band ELSE Min({band, static})

\* The openings of the week in the journal that are no rolls and no hedges.
JournalUsed(journal, monday) ==
  Cardinality({i \in DOMAIN journal :
    /\ journal[i].action = "OPEN"
    /\ journal[i].day # Missing /\ journal[i].day >= monday
    /\ journal[i].rules \intersect {"roll", "hedge"} = {}})

\* compute_pacing: the count of weekly_position_opens (TradeLedger), when there
\* is one, is preferred to the journal's.
Used(journal, monday, diff) ==
  IF diff # Missing THEN diff ELSE JournalUsed(journal, monday)
Remaining(max, used) == Max({0, max - used})

------------------------------------------------------------------------------
(* The actions of the day.                                                 *)

Action(priority, ticker) == [priority |-> priority, ticker |-> ticker]

\* Of the book: an alert state, but not the delta of a long call alone.
RowActions(rows) ==
  LET Alarms(r) ==
        \/ r.alert \in {"approaching", "breaking", "broken"}
        \/ /\ r.alert = "critical_gamma"
           /\ r.strategy \in {"PMCC", "DIAGONAL", "LEAPS"} => r.short
      alarmed == SelectSeq(rows, Alarms)
  IN [i \in DOMAIN alarmed |-> Action("HIGH", alarmed[i].ticker)]

\* Of the tickers held, in the order of a set, days on which they report.
EarningsActions(held, days) ==
  LET near == SelectSeq(held, LAMBDA t : days[t] \in 0 .. 5)
  IN [i \in DOMAIN near |-> Action("MED", near[i])]

\* Of the candidates, outside their blackout.
SignalActions(found) ==
  LET open == SelectSeq(found, LAMBDA c : /\ c.days \notin 0 .. 10
                                          /\ c.signal \in {"PRIME_CRUSH", "GOOD_SPREAD"})
  IN [i \in DOMAIN open |->
        Action(IF open[i].signal = "PRIME_CRUSH" THEN "MED" ELSE "LOW", open[i].ticker)]

\* compute_actions: a warning of an old book first, then by priority, each in
\* the order it was found; eight are shown.
Actions(rows, held, days, found, age) ==
  LET stale == IF age # Missing /\ age > StaleHours THEN <<Action("HIGH", Missing)>>
               ELSE << >>
      all == stale \o RowActions(rows) \o EarningsActions(held, days) \o SignalActions(found)
      Of(p) == SelectSeq(all, LAMBDA a : a.priority = p)
      sorted == Of("HIGH") \o Of("MED") \o Of("LOW")
  IN SubSeq(sorted, 1, Min({8, Len(sorted)}))

=============================================================================
