--------------------------- MODULE PreTradeGates ---------------------------
(***************************************************************************)
(* The gates an entry has to pass (routes/manage.py).  The rule is written *)
(* three times: for one ticker (/manage/pre_trade_check), for the universe *)
(* (/manage/pretrade_all) and in the trade report (/manage/trade_report).  *)
(* Everything is an operator on m, a record of what the files say:         *)
(*   calendar: days until the last earnings date of a ticker, or NoDate    *)
(*   tiers: the lists of the universe;  excluded: its excluded tickers     *)
(*   legs: the book, each [ticker, mv, pct, strategy, dte, expiry]         *)
(*   cached: the concentration of the file, or NoMap;  netLiq: or 0        *)
(*   vix: or NoVix;  dash: the "strategy" part of dashboard_settings.json  *)
(*   config: the settings of the configuration store                       *)
(*   macro, term, exDiv, vrp, weekly: what the advisories read, Down when  *)
(*   a source fails.  Percentages are in tenths.                           *)
(***************************************************************************)
EXTENDS Integers, FiniteSetsExt, SequencesExt

CONSTANTS Tickers, NoDate, NoMap, NoVix, Unread, Down,
          BlackoutDays,   \* the 10 days of earnings_state_from_days
          LeapDte,        \* the 90 days beyond which a leg is a LEAP
          HighConcentration, \* the 50 percent of the candidates page
          Default         \* the default of each limit

ListedTiers == <<"tier1", "tier2", "tier3", "tickers">>

\* The limit a gate uses: from the dashboard settings, else its default.  No
\* route writes a limit there; the settings page writes the other store.
Limit(m, k) == IF k \in DOMAIN m.dash THEN m.dash[k] ELSE Default[k]

\* days_to_earnings knows no past date.
DaysToEarnings(m, t) ==
  IF m.calendar[t] = NoDate \/ m.calendar[t] < 0 THEN NoDate ELSE m.calendar[t]
EarningsState(d) == IF d = NoDate THEN "unverified"
                    ELSE IF d <= BlackoutDays THEN "blackout" ELSE "known"

\* compute_concentration: the saved one, else from market values, else the
\* sum of the legs' own shares.
LegsOf(m, t) == {i \in DOMAIN m.legs : m.legs[i].ticker = t}
Tenths(x, whole) == (2000 * x + whole) \div (2 * whole)
Concentration(m, t) ==
  IF m.cached # NoMap
  THEN IF t \in DOMAIN m.cached THEN m.cached[t] ELSE 0
  ELSE IF m.netLiq # 0
  THEN Tenths(MapThenSumSet(LAMBDA i : m.legs[i].mv, LegsOf(m, t)), m.netLiq)
  ELSE MapThenSumSet(LAMBDA i : m.legs[i].pct, LegsOf(m, t))

Vix(m) == IF m.vix = NoVix THEN 0 ELSE m.vix

\* A leg the gate takes for a LEAP: by its label, not by its structure.
HasLeap(m, t) ==
  \E i \in LegsOf(m, t) : /\ m.legs[i].strategy \in {"PMCC", "LEAPS", "DIAGONAL"}
                          /\ m.legs[i].dte > LeapDte
Near(m, t, days) == DaysToEarnings(m, t) # NoDate /\ DaysToEarnings(m, t) <= days

------------------------------------------------------------------------------
(* The three copies.                                                       *)

\* The variant that lets the limit be reached.
HardFailuresAtLimit(m, t) ==
  {g \in {"excluded", "earnings_blackout", "concentration", "vix", "leap_blackout"} :
     ~ CASE g = "excluded" -> t \notin m.excluded
         [] g = "earnings_blackout" -> EarningsState(DaysToEarnings(m, t)) # "blackout"
         [] g = "concentration" ->
              Concentration(m, t) <= Limit(m, "concentration_limit_pct")
         [] g = "vix" -> Vix(m) < Limit(m, "vix_high")
         [] OTHER -> ~ (HasLeap(m, t)
                        /\ Near(m, t, Limit(m, "leap_earnings_blackout_days")))}

\* The gates that fail in pre_trade_check.
HardFailures(m, t) ==
  {g \in {"excluded", "earnings_blackout", "concentration", "vix", "leap_blackout"} :
     ~ CASE g = "excluded" -> t \notin m.excluded
         [] g = "earnings_blackout" -> EarningsState(DaysToEarnings(m, t)) # "blackout"
         [] g = "concentration" ->
              Concentration(m, t) < Limit(m, "concentration_limit_pct")
         [] g = "vix" -> Vix(m) < Limit(m, "vix_high")
         [] OTHER -> ~ (HasLeap(m, t)
                        /\ Near(m, t, Limit(m, "leap_earnings_blackout_days")))}

\* The failures of a row of pretrade_all.
RowFailures(m, t) ==
  {g \in {"excluded"} : t \in m.excluded}
  \union {g \in {"earnings_blackout"} :
            EarningsState(DaysToEarnings(m, t)) = "blackout"}
  \union {g \in {"concentration"} :
            Concentration(m, t) >= Limit(m, "concentration_limit_pct")}
  \union {g \in {"vix"} : Vix(m) >= Limit(m, "vix_high")}
  \union {g \in {"leap_blackout"} :
            HasLeap(m, t) /\ Near(m, t, Limit(m, "leap_earnings_blackout_days"))}

\* What trade_report asks of an entry candidate.
CanTrade(m, t) ==
  /\ t \notin m.excluded
  /\ EarningsState(DaysToEarnings(m, t)) # "blackout"
  /\ Concentration(m, t) < Limit(m, "concentration_limit_pct")
  /\ Vix(m) < Limit(m, "vix_high")
  /\ ~ (HasLeap(m, t) /\ Near(m, t, Limit(m, "leap_earnings_blackout_days")))

\* can_trade of a row of the candidates page, whose own days to the earnings come
\* first and whose limit of the concentration is no setting.
RowDays(m, row) == IF row.days # NoDate THEN row.days ELSE DaysToEarnings(m, row.ticker)
Tradable(m, row) ==
  /\ row.ticker \notin m.excluded
  /\ EarningsState(RowDays(m, row)) # "blackout"
  /\ Concentration(m, row.ticker) < HighConcentration

\* The tickers the two scans go through, each once.
Listed(m) == UNION {ToSet(m.tiers[k]) : k \in ToSet(ListedTiers) \intersect DOMAIN m.tiers}

------------------------------------------------------------------------------
(* The advisories: each is ok, amber or, when its source is down, unknown. *)

Flag(known, amber) == IF ~known THEN "unknown" ELSE IF amber THEN "amber" ELSE "ok"

Cfg(m, k) == IF k \in DOMAIN m.config THEN m.config[k] ELSE Default[k]
ClusterPct(m) == MapThenSumSet(LAMBDA t : Concentration(m, t), m.cluster)

\* The market-wide sources and those of a ticker, each failing on its own.
Advisories(m, t) ==
  [macro_defer   |-> Flag(m.macro # Down, m.macro = "defer"),
   vix_term      |-> Flag(m.term # Down, m.term = "backwardation"),
   ex_div        |-> Flag(m.exDiv # Down, m.exDiv # Down /\ t \in m.exDiv),
   vrp           |-> Flag(m.vrp[t] # Unread, m.vrp[t] # Unread
                                             /\ m.vrp[t] < Cfg(m, "vrp_min_entry_pp")),
   concentration |-> Flag(TRUE, \/ Concentration(m, t) >= Cfg(m, "single_name_cap_pct")
                                \/ /\ t \in m.cluster
                                   /\ ClusterPct(m) >= Cfg(m, "cluster_cap_pct")),
   trend         |-> Flag(m.weekly[t] # Unread, m.weekly[t] = "below")]

CautionFlags(m, t) == {a \in DOMAIN Advisories(m, t) : Advisories(m, t)[a] = "amber"}

\* A row adds a flag for an earnings date nobody knows; the single check names
\* it in the text of its gate only.
RowCaution(m, t) ==
  CautionFlags(m, t)
  \union {f \in {"earnings_unverified"} : EarningsState(DaysToEarnings(m, t)) = "unverified"}

\* The three copies of the rule answer alike: the same gates fail, the report
\* offers what the check lets proceed, and a row warns of whatever the check
\* warns of and of an earnings date nobody knows, of nothing else.
CopiesAgree(m, t) ==
  /\ HardFailures(m, t) = RowFailures(m, t)
  /\ CanTrade(m, t) <=> HardFailures(m, t) = {}
  /\ RowCaution(m, t) \ CautionFlags(m, t)
     = {f \in {"earnings_unverified"} : DaysToEarnings(m, t) = NoDate}
  /\ CautionFlags(m, t) \subseteq RowCaution(m, t)

Verdict(failures) == IF failures = {} THEN "PROCEED" ELSE "BLOCKED"

\* The order of pretrade_all: what may proceed first, then by earnings; a day
\* of earnings today counts as none known.
RowRank(m, t) ==
  LET d == DaysToEarnings(m, t)
  IN <<IF RowFailures(m, t) = {} THEN 0 ELSE 1, IF d \in {NoDate, 0} THEN 999 ELSE d>>

\* The sections of the report.  A row of the book is [ticker, strategy, roll,
\* urgency, verdict, netMv, pct], rolls and verdicts being those of the rules
\* that judge a position.
Candidates(m) == {t \in Listed(m) : CanTrade(m, t)}
Shown(ranked) == SubSeq(ranked, 1, IF Len(ranked) > 20 THEN 20 ELSE Len(ranked))
RollRows(rows) == {r \in rows : r.strategy # "SPY_HEDGE" /\ r.roll}
StopRows(rows) == {r \in rows : r.verdict \in {"ACT", "ACT_IMMEDIATELY", "WATCH"}}
ExitRows(rows) == {r \in rows : r.netMv > 0 /\ r.pct < 20}
PostEarnings(m) ==
  {t \in Listed(m) : /\ DaysToEarnings(m, t) # NoDate
                     /\ DaysToEarnings(m, t) \in -3 .. 0}
UrgentActions(rows) ==
  Cardinality({r \in RollRows(rows) : r.urgency = "URGENT"})
  + Cardinality({r \in StopRows(rows) : r.verdict = "ACT_IMMEDIATELY"})

=============================================================================
