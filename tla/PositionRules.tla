---------------------------- MODULE PositionRules ----------------------------
(***************************************************************************)
(* The rules that judge an open position.  services/state.py folds the     *)
(* legs held on one ticker into a row, services/stop_loss.py and           *)
(* services/roll.py turn the row into a verdict and an urgency, and        *)
(* routes/manage.py shows them in its scans and raises alerts from them.   *)
(* The rules are operators on a book, the sequence of legs of one ticker   *)
(* in the order of active_positions.json; the state machine is a book      *)
(* that ages, drifts and is closed leg by leg under those rules.           *)
(* A leg is [right, qty, strike, expiry, delta, strategy, stamp]: right is *)
(* "C", "P" or "" for stock, expiry a day or NoDay, delta in percent or    *)
(* NoDelta, stamp the alert_state the sync saved.                          *)
(***************************************************************************)
EXTENDS Integers, Sequences, SequencesExt, FiniteSetsExt

CONSTANTS
  Books,          \* the books a behaviour may start from
  SpyBooks,       \* those held on SPY
  Quotes,         \* what the market data says of the price, see Fears
  Deltas,         \* deltas, in percent, the sync may save
  NoDelta, NoDay, \* a delta, an expiry, that is missing
  LastDay,        \* bound on the days that pass
  DeltaWatch, DeltaAct, DeltaCritical, DeltaHigh,  \* thresholds of config_store
  DteUrgent, DteWarning, DteLow, DteManage,
  LeapMinDte, LeapRollDte, LeapRollDelta,
  DteExceptions   \* the expiries of strategy.dte_exceptions

Leg == [right: {"C", "P", ""}, qty: Int, strike: Nat,
        expiry: Nat \union {NoDay}, delta: Deltas \union {NoDelta},
        strategy: STRING, stamp: STRING]

ASSUME RulesAssumption ==
  /\ NoDelta \notin Int /\ NoDay \notin Int
  /\ Deltas \subseteq Int
  /\ Books \subseteq Seq(Leg) /\ SpyBooks \subseteq Books
  /\ LastDay \in Nat
  /\ \A t \in {DeltaWatch, DeltaAct, DeltaCritical, DeltaHigh, DteUrgent,
               DteWarning, DteLow, DteManage, LeapMinDte, LeapRollDte,
               LeapRollDelta} : t \in Nat

\* An account holds one position per contract: the sync finds the leg of a
\* contract by its id, or by ticker, expiry, strike and right.
OneLegEach(b) ==
  \A i, j \in DOMAIN b :
    /\ b[i].right # "" /\ b[i].right = b[j].right
    /\ b[i].strike = b[j].strike /\ b[i].expiry = b[j].expiry
    => i = j

ASSUME ContractsAssumption == \A b \in Books : OneLegEach(b)

\* The order of the defaults.  The settings can break it: then a leg that is due
\* by the roll rules is not yet in the scan of profit_targets.
ASSUME DueAssumption == DteUrgent <= DteManage /\ DteWarning <= DteManage

VARIABLES
  legs,   \* the legs held on the ticker
  spy,    \* the ticker is SPY
  quote,  \* the last market data of the ticker
  today   \* days since the start, bounded by LastDay

vars == <<legs, spy, quote, today>>

------------------------------------------------------------------------------
(* The row of a book: aggregate_positions_by_ticker.                       *)

Abs(n) == IF n < 0 THEN -n ELSE n
Calls(b) == {i \in DOMAIN b : b[i].right = "C"}
Puts(b) == {i \in DOMAIN b : b[i].right = "P"}
Short(b) == {i \in DOMAIN b : b[i].qty < 0}
Long(b) == {i \in DOMAIN b : b[i].qty > 0}
Stock(b) == {i \in DOMAIN b : b[i].right = ""}
Dated(b) == {i \in DOMAIN b : b[i].expiry # NoDay}

\* The leg of I that expires first, or last; the first of them in the book
\* when several do, and 0 when I is empty.
Nearest(b, I) ==
  IF I = {} THEN 0
  ELSE Min({i \in I : \A j \in I : b[i].expiry <= b[j].expiry})
Farthest(b, I) ==
  IF I = {} THEN 0
  ELSE Min({i \in I : \A j \in I : b[i].expiry >= b[j].expiry})

PrimaryShort(b) == Nearest(b, Calls(b) \cap Short(b) \cap Dated(b))
PrimaryShortPut(b) == Nearest(b, Puts(b) \cap Short(b) \cap Dated(b))
PrimaryLong(b) == Farthest(b, Calls(b) \cap Long(b) \cap Dated(b))
ShortLeg(b) == IF PrimaryShort(b) # 0 THEN PrimaryShort(b)
               ELSE PrimaryShortPut(b)

\* The strategy most legs are labelled with.  The code breaks a tie in the
\* order of a set of strings; the books of the runs have no tie.
Labels(b) == {b[i].strategy : i \in DOMAIN b} \ {""}
Votes(b, s) == Quantify(DOMAIN b, LAMBDA i : b[i].strategy = s)
Labelled(b) ==
  CHOOSE s \in Labels(b) : \A r \in Labels(b) : Votes(b, s) >= Votes(b, r)

\* The strategy read off the structure when no leg is labelled.
Inferred(b, onSpy) ==
  LET sc == Calls(b) \cap Short(b)
      lc == Calls(b) \cap Long(b)
      sp == Puts(b) \cap Short(b)
      lp == Puts(b) \cap Long(b)
      diagonal ==
        /\ sc \cap Dated(b) # {} /\ lc \cap Dated(b) # {}
        /\ \A i \in sc \cap Dated(b), j \in lc \cap Dated(b) :
             b[i].expiry < b[j].expiry
  IN IF onSpy /\ sp # {} /\ lp # {} THEN "SPY_HEDGE"
     ELSE IF diagonal THEN "PMCC"
     ELSE IF sp # {} /\ lp # {} /\ sc = {} THEN "PCS"
     ELSE IF sc # {} /\ lp # {} /\ lc = {} THEN "JADE_LIZARD"
     ELSE IF lc # {} /\ sc \union sp \union lp = {} THEN "LEAPS"
     ELSE IF sc # {} /\ lc \union sp \union lp = {} THEN "CC"
     ELSE IF Stock(b) # {} /\ sc \union lc = {} THEN "STOCK"
     ELSE "MIXED"

Strategy(b, onSpy) == IF Labels(b) # {} THEN Labelled(b) ELSE Inferred(b, onSpy)

\* The delta of the row: of the short call, else of the short put, else, only
\* when nothing is short, of the long call.
CurrentDelta(b) ==
  LET call == PrimaryShort(b)
      put == PrimaryShortPut(b)
      long == PrimaryLong(b)
  IN IF call # 0 /\ b[call].delta # NoDelta THEN b[call].delta
     ELSE IF put # 0 THEN b[put].delta
     ELSE IF call = 0 /\ long # 0 THEN b[long].delta
     ELSE NoDelta

\* The expiry the roll rules look at: of the short leg, else of the long call.
RollExpiry(b) ==
  IF ShortLeg(b) # 0 THEN b[ShortLeg(b)].expiry
  ELSE IF PrimaryLong(b) # 0 THEN b[PrimaryLong(b)].expiry
  ELSE NoDay

------------------------------------------------------------------------------
(* Expiry-matched verticals: short_call_vertical_exempt.                   *)

\* The leg of I with the highest strike: a fold that takes it last goes through
\* I from the lowest strike up.
Highest(strike, I) == CHOOSE i \in I : \A j \in I : strike[j] <= strike[i]

\* The variant in which the long call keeps what it gives.
TakeFromKeeping(strike, s, short, l) ==
  [short EXCEPT !.need = IF strike[l] < strike[s]
                         THEN @ - Min({short.left[l], @}) ELSE @]

\* The short call s takes contracts from the long call l, if that is below it.
TakeFrom(strike, s, short, l) ==
  LET take == IF strike[l] < strike[s] THEN Min({short.left[l], short.need}) ELSE 0
  IN [need |-> short.need - take, left |-> [short.left EXCEPT ![l] = @ - take]]

\* It takes what it needs from the long calls, the lowest first.
CoverShort(strike, size, longs, acc, s) ==
  LET short == MapThenFoldSet(LAMBDA l, so : TakeFrom(strike, s, so, l),
                              [need |-> size[s], left |-> acc.left], LAMBDA l : l,
                              LAMBDA I : Highest(strike, I), longs)
  IN [left |-> short.left,
      covered |-> IF short.need = 0 THEN acc.covered \union {strike[s]}
                  ELSE acc.covered]

\* The strikes of the short calls that long calls cover in full, the lowest
\* served first.
Cover(strike, size, longs, shorts) ==
  MapThenFoldSet(LAMBDA s, acc : CoverShort(strike, size, longs, acc, s),
                 [left |-> [l \in longs |-> size[l]], covered |-> {}], LAMBDA s : s,
                 LAMBDA I : Highest(strike, I), shorts).covered

CoveredStrikes(b, expiry) ==
  LET At(I) == {i \in I \cap Calls(b) : b[i].expiry = expiry}
  IN Cover([i \in DOMAIN b |-> b[i].strike], [i \in DOMAIN b |-> Abs(b[i].qty)],
           At(Long(b)), At(Short(b)))

VerticalExempt(b) ==
  /\ PrimaryShort(b) # 0
  /\ b[PrimaryShort(b)].strike \in CoveredStrikes(b, b[PrimaryShort(b)].expiry)

\* The alert_state of the row: the stamp of the sync, unless a short call that
\* is not exempt has drifted past the critical delta.
AlertState(b, onSpy) ==
  LET stamp == b[IF ShortLeg(b) # 0 THEN ShortLeg(b) ELSE 1].stamp
      delta == CurrentDelta(b)
      base == IF stamp = "" THEN IF delta = NoDelta THEN "unknown" ELSE "safe"
              ELSE IF stamp = "ok" THEN "safe" ELSE stamp
      drifted == /\ Calls(b) \cap Short(b) # {}
                 /\ Strategy(b, onSpy) \notin {"SPY_HEDGE", "STOCK"}
                 /\ delta # NoDelta /\ Abs(delta) > DeltaCritical
  IN IF drifted /\ ~VerticalExempt(b) /\ base \in {"safe", "watch", "unknown"}
     THEN "critical_gamma"
     ELSE IF VerticalExempt(b) /\ base = "critical_gamma" THEN "watch"
     ELSE base

------------------------------------------------------------------------------
(* Stop-loss verdicts: evaluate_stop_loss.  0 is SAFE, 1 WATCH, 2 ACT,     *)
(* 3 ACT_IMMEDIATELY.                                                      *)

LongOnly == {"LEAPS", "SPY_HEDGE", "STOCK"}

DeltaScore(strategy, delta) ==
  IF delta = NoDelta \/ strategy \in LongOnly THEN 0
  ELSE IF Abs(delta) >= DeltaCritical THEN 3
  ELSE IF Abs(delta) >= DeltaAct THEN 2
  ELSE IF Abs(delta) >= DeltaWatch THEN 1
  ELSE 0

\* What a quote adds: a price under the 200-day average, less a buffer, is 2, a
\* price under a dark-pool floor 1; without a price neither is looked at.
Fears(q) == (IF "below_sma" \in q THEN {2} ELSE {})
            \union (IF "below_floor" \in q THEN {1} ELSE {})

\* drawdown is 2 past the act threshold, 1 past the warning threshold and 0
\* when there is none, or no peak to tell it from.
StopScore(strategy, delta, q, drawdown, broken) ==
  Max({DeltaScore(strategy, delta), drawdown, IF broken THEN 2 ELSE 0}
      \union Fears(q))

\* GET /manage/stop_loss/{id} takes the drawdown and the broken thesis from the
\* query; the scans have neither.
StopOne(b, onSpy, q, drawdown, broken) ==
  StopScore(Strategy(b, onSpy), CurrentDelta(b), q, drawdown, broken)

StopAll(b, onSpy, q) ==
  IF Strategy(b, onSpy) = "SPY_HEDGE" \/ VerticalExempt(b) THEN 0
  ELSE StopOne(b, onSpy, q, 0, FALSE)

------------------------------------------------------------------------------
(* Roll urgencies: evaluate_roll.  0 is NONE, 1 APPROACHING, 2 WARNING,    *)
(* 3 URGENT.                                                               *)

Dte(expiry, day) == Max({0, expiry - day})

TimeUrgency(expiry, day) ==
  IF expiry = NoDay \/ expiry \in DteExceptions THEN 0
  ELSE IF Dte(expiry, day) <= DteUrgent THEN 3
  ELSE IF Dte(expiry, day) <= DteWarning THEN 2
  ELSE IF Dte(expiry, day) <= DteLow THEN 1
  ELSE 0

DeltaUrgency(strategy, delta) ==
  IF delta = NoDelta \/ strategy \in LongOnly THEN 0
  ELSE IF Abs(delta) > DeltaCritical THEN 3
  ELSE IF Abs(delta) > DeltaHigh THEN 2
  ELSE 0

\* The variant in which the delta decides as soon as it has something to say.
RollUrgencyOverrides(strategy, delta, expiry, day) ==
  IF DeltaUrgency(strategy, delta) > 0 THEN DeltaUrgency(strategy, delta)
  ELSE TimeUrgency(expiry, day)

RollUrgency(strategy, delta, expiry, day) ==
  Max({TimeUrgency(expiry, day), DeltaUrgency(strategy, delta)})

RollAll(b, onSpy, day) ==
  IF Strategy(b, onSpy) \in LongOnly \/ VerticalExempt(b) THEN 0
  ELSE RollUrgency(Strategy(b, onSpy), CurrentDelta(b), RollExpiry(b), day)

------------------------------------------------------------------------------
(* The scans of single legs, and the monitor.                              *)

\* leap_roll_all: 0 when the leg is no LEAP core or needs no roll.  Its second
\* test for URGENT, a DTE of 60 or less, is never met by a core, whose DTE is
\* above 90.
LeapRoll(l, day) ==
  LET dte == IF l.expiry = NoDay THEN 0 ELSE Dte(l.expiry, day)
      decayed == l.delta # NoDelta /\ l.delta <= LeapRollDelta
      urgent == l.delta # NoDelta /\ l.delta <= LeapRollDelta - 5
  IN IF l.right # "C" \/ l.qty <= 0 \/ dte <= LeapMinDte THEN 0
     ELSE IF ~decayed /\ dte > LeapRollDte THEN 0
     ELSE IF urgent THEN 3
     ELSE 2

\* profit_targets: a short leg whose time is up.  What it has captured of its
\* premium is left out.
TimeManaged(l, day) ==
  /\ l.qty < 0 /\ l.right \in {"C", "P"} /\ l.expiry # NoDay
  /\ Dte(l.expiry, day) <= DteManage

\* monitor_alerts: the severity of the alert a row needs.
MonitorSkips(b, onSpy) ==
  \/ Strategy(b, onSpy) \in LongOnly
  \/ /\ Strategy(b, onSpy) \in {"PMCC", "DIAGONAL"}
     /\ Calls(b) \cap Short(b) = {}

MonitorNeed(b, onSpy, q, day) ==
  LET stop == StopOne(b, onSpy, q, 0, FALSE)
      roll == RollUrgency("", CurrentDelta(b), RollExpiry(b), day)
  IN IF b = << >> \/ MonitorSkips(b, onSpy) THEN "none"
     ELSE IF stop = 3 THEN "critical"
     ELSE IF stop = 2 THEN "warn"
     ELSE IF roll = 3 THEN "critical"
     ELSE IF roll = 2 THEN "warn"
     ELSE "none"

------------------------------------------------------------------------------
(* A position over time.                                                   *)

Init ==
  /\ legs \in Books
  /\ spy = (legs \in SpyBooks)
  /\ quote \in Quotes
  /\ today = 0

\* A day passes.
DayPasses ==
  /\ today < LastDay
  /\ today' = today + 1
  /\ UNCHANGED <<legs, spy, quote>>

\* A sync saves another delta for a leg the row may read.
DeltaMoves ==
  \E i \in {PrimaryShort(legs), PrimaryShortPut(legs), PrimaryLong(legs)} \ {0},
     d \in Deltas \union {NoDelta} :
    /\ legs' = [legs EXCEPT ![i].delta = d]
    /\ UNCHANGED <<spy, quote, today>>

\* The market data changes, or cannot be had.
PriceMoves ==
  \E q \in Quotes :
    /\ quote' = q
    /\ UNCHANGED <<legs, spy, today>>

\* A leg is closed and the next sync drops it.
LegCloses ==
  \E i \in DOMAIN legs :
    /\ legs' = RemoveAt(legs, i)
    /\ UNCHANGED <<spy, quote, today>>

Next == DayPasses \/ DeltaMoves \/ PriceMoves \/ LegCloses

Spec == Init /\ [][Next]_vars

------------------------------------------------------------------------------
(* Properties.                                                             *)

\* A leg is a leg, and every rule gives one of its answers.
TypeOK ==
  /\ legs \in Seq(Leg) /\ spy \in BOOLEAN
  /\ quote \in Quotes /\ today \in 0 .. LastDay
  /\ legs # << >> =>
       /\ StopAll(legs, spy, quote) \in 0 .. 3
       /\ RollAll(legs, spy, today) \in 0 .. 3
       /\ MonitorNeed(legs, spy, quote, today) \in {"none", "warn", "critical"}

\* Contracts short at the strikes K up to k, and held below k.
Owed(b, expiry, K, k) ==
  MapThenSumSet(LAMBDA i : Abs(b[i].qty),
    {i \in Calls(b) \cap Short(b) : /\ b[i].expiry = expiry
                                   /\ b[i].strike \in K /\ b[i].strike <= k})
Held(b, expiry, k) ==
  MapThenSumSet(LAMBDA i : b[i].qty,
    {i \in Calls(b) \cap Long(b) : b[i].expiry = expiry /\ b[i].strike < k})

\* Long calls can cover all the short ones at the strikes K at once.
Coverable(b, expiry, K) ==
  \A k \in K : Owed(b, expiry, K, k) <= Held(b, expiry, k)

\* The greedy allocation never uses a long contract for two short ones, exempts
\* the primary short call whenever it and those below it can all be covered,
\* and an exempt row is not shown as critical gamma (the promise of the
\* docstring of short_call_vertical_exempt).
ExemptIffCovered ==
  LET p == PrimaryShort(legs)
      exp == legs[p].expiry
      upTo == {legs[i].strike : i \in {j \in Calls(legs) \cap Short(legs) :
                 legs[j].expiry = exp /\ legs[j].strike <= legs[p].strike}}
  IN p # 0 =>
       /\ Coverable(legs, exp, CoveredStrikes(legs, exp))
       /\ Coverable(legs, exp, upTo) => VerticalExempt(legs)
       /\ VerticalExempt(legs) => AlertState(legs, spy) # "critical_gamma"

\* Waiting never helps: when only a day passes, no roll becomes less urgent, no
\* short leg leaves the scan of profit_targets, and a LEAP core leaves that of
\* leap_roll_all only when it has become too short-dated to be a core.
TimeNeverCalms ==
  [][legs' = legs /\ spy' = spy /\ today' > today =>
       /\ RollAll(legs, spy, today') >= RollAll(legs, spy, today)
       /\ \A i \in DOMAIN legs :
            /\ TimeManaged(legs[i], today) => TimeManaged(legs[i], today')
            /\ legs[i].expiry # NoDay /\ legs[i].expiry - today' > LeapMinDte =>
                 LeapRoll(legs[i], today') >= LeapRoll(legs[i], today)]_vars

\* Drift against the position never helps: when one known delta grows, and
\* nothing else changes, no verdict and no urgency gets better, whatever the
\* query says of the drawdown and the thesis.
DriftNeverCalms ==
  [][/\ DOMAIN legs' = DOMAIN legs /\ today' = today /\ quote' = quote
     /\ \A i \in DOMAIN legs :
          \/ legs'[i] = legs[i]
          \/ /\ NoDelta \notin {legs[i].delta, legs'[i].delta}
             /\ Abs(legs'[i].delta) >= Abs(legs[i].delta)
     => /\ RollAll(legs', spy, today) >= RollAll(legs, spy, today)
        /\ StopAll(legs', spy, quote) >= StopAll(legs, spy, quote)
        /\ \A d \in 0 .. 2, broken \in BOOLEAN :
             StopOne(legs', spy, quote, d, broken)
               >= StopOne(legs, spy, quote, d, broken)]_vars

\* Neither waiting nor drift makes a verdict or an urgency better.
NothingCalms == TimeNeverCalms /\ DriftNeverCalms

\* The monitor and the scans tell one story: what the monitor alerts on, the
\* scans show as ACT or WARNING at least, except an exempt vertical; what they
\* show so, the monitor alerts on, except what it skips; and a short leg that
\* is due by time is in profit_targets.
ViewsAgree ==
  LET shown == \/ StopAll(legs, spy, quote) >= 2
               \/ RollAll(legs, spy, today) >= 2
      needed == MonitorNeed(legs, spy, quote, today) # "none"
      due == ShortLeg(legs) # 0 /\ TimeUrgency(RollExpiry(legs), today) >= 2
  IN legs # << >> =>
       /\ needed /\ ~VerticalExempt(legs) => shown
       /\ shown /\ ~MonitorSkips(legs, spy) => needed
       /\ due => TimeManaged(legs[ShortLeg(legs)], today)

=============================================================================
