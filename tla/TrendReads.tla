----------------------------- MODULE TrendReads -----------------------------
(***************************************************************************)
(* The trend of a ticker in three time frames and the technical gate of    *)
(* the weekly one (routes/options_analytics.py).  The closes c of a time   *)
(* frame are Failed, when the request was not answered, or a record of     *)
(*   bars: how many there are;  spot: the last                             *)
(*   average: the average over a length; fewer bars make a shorter one     *)
(***************************************************************************)
EXTENDS Integers, FiniteSetsExt

CONSTANTS Failed, Unknown,
          Least, Length   \* the lengths of each time frame's averages

\* A read: which averages there are and whether the price is below each.
Read(c, averages) ==
  [a \in averages |->
     IF c = Failed \/ c.bars < Least[a] THEN Unknown ELSE c.spot < c.average[a]]

\* weekly_trend_state: below the average over 200 weeks, or over what there is
\* when that is 30 at least.
WeeklyBelow(c) == Read(c, {"200w"})["200w"]
WeeklyLength(c) == Min({c.bars, Length["200w"]})

\* daily_trend_state: an average that is missing is neither above nor below, so
\* that with one of the two the trend is mixed.
DailyTrend(c) ==
  LET below == Read(c, {"50d", "200d"})
  IN IF \A a \in DOMAIN below : below[a] = Unknown THEN "unknown"
     ELSE IF \A a \in DOMAIN below : below[a] = FALSE THEN "up"
     ELSE IF \A a \in DOMAIN below : below[a] = TRUE THEN "down" ELSE "mixed"

\* The average next to the price, the shorter one of two as near.
KeyLevel(c) ==
  LET there == {a \in {"50d", "200d"} : Read(c, {"50d", "200d"})[a] # Unknown}
      Off(a) == IF c.spot < c.average[a] THEN c.average[a] - c.spot
                ELSE c.spot - c.average[a]
  IN IF there = {} THEN Unknown
     ELSE IF \A a \in there : "50d" \in there /\ Off("50d") <= Off(a) THEN "50d"
     ELSE "200d"

\* monthly_trend_state: by the averages there are.
MonthlyTrend(c) ==
  LET below == Read(c, {"10m", "20m"})
      there == {a \in DOMAIN below : below[a] # Unknown}
  IN IF there = {} THEN "unknown"
     ELSE IF \A a \in there : ~below[a] THEN "up"
     ELSE IF \A a \in there : below[a] THEN "down" ELSE "mixed"

\* get_technical_gate: the state of a ticker; within three percent over the
\* average it is watched.
Gate(c) ==
  IF WeeklyBelow(c) = Unknown THEN "unknown"
  ELSE IF WeeklyBelow(c) THEN "act"
  ELSE IF 100 * (c.spot - c.average["200w"]) < 3 * c.average["200w"] THEN "watch"
  ELSE "hold"

\* A time frame's cache: an entry [at, c] is served while it is younger than ttl,
\* one of a failed request like any other.
Served(entry, now, ttl, fetched) ==
  IF entry # Unknown /\ now - entry.at < ttl THEN entry ELSE [at |-> now, c |-> fetched]

=============================================================================
