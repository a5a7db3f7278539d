-------------------------- MODULE ConditionalAlerts --------------------------
(***************************************************************************)
(* app/routes/conditional_alerts.py: the alerts of conditional_alerts.json *)
(* on one ticker, the routes that create, change and delete them, and the  *)
(* two passes that fire them: the intraday pass on live quotes and the EOD *)
(* pass on the daily close.  The scheduler calls the passes from its own   *)
(* threads, users from the worker threads, and nothing locks the file: a   *)
(* pass reads all alerts, fetches quotes over the network, and saves all   *)
(* the alerts it read.  Until the first save there is no file, and every   *)
(* request works on one object in memory, which it changes in place.       *)
(***************************************************************************)
EXTENDS Naturals, FiniteSets

CONSTANTS
  Alerts,         \* the ids create can draw
  CloseAlerts,    \* those of the types in CLOSE_ALERT_TYPES
  WeeklyAlerts,   \* those of the types weekly_close_*
  PositionAlerts, \* those of the types pnl_pct, dte_lte and delta_gte
  AboveAlerts,    \* those that fire at or above their threshold
  Thresholds,     \* thresholds a user may set
  Levels,         \* prices, and values of a position
  Threads,        \* the threads of the scheduler and of the server
  MaxRequests,    \* bound on requests started
  MaxFaults       \* bound on failed saves and crashes

ASSUME AlertsAssumption ==
  /\ CloseAlerts \subseteq Alerts
  /\ WeeklyAlerts \subseteq CloseAlerts
  /\ PositionAlerts \subseteq Alerts \ CloseAlerts
  /\ AboveAlerts \subseteq Alerts
  /\ Thresholds \subseteq Nat
  /\ Levels \subseteq Nat \ {0}
  /\ MaxRequests \in Nat
  /\ MaxFaults \in Nat

VARIABLES
  file,       \* conditional_alerts.json, once it is there
  present,    \* whether it is there
  default,    \* _DEFAULT_CA, which _load hands out as long as it is not
  th,         \* the request each thread is in
  issued,     \* ids drawn so far
  deleted,    \* ids whose deletion has taken effect
  answered,   \* ids whose creation or change was answered with success
  armings,    \* creations and threshold changes that have taken effect
  reports,    \* answers that list the alert as newly triggered
  overlapped, \* history: some request started while another was running
  clashed,    \* history: so did two on the default object
  requests,   \* requests started, bounded by MaxRequests
  faults      \* failed saves and crashes, bounded by MaxFaults

vars == <<file, present, default, th, issued, deleted, answered, armings,
          reports, overlapped, clashed, requests, faults>>

\* An alert.  bar and at are triggered_close_date, a weekday or a Friday, and
\* triggered_close; for the intraday types, at is the quote it fired on, which
\* the code only logs.
Entry == [there: BOOLEAN, thr: Thresholds \union {0}, triggered: BOOLEAN,
          snoozed: BOOLEAN, at: Levels \union {0},
          bar: {"none", "weekday", "friday"}]
NoEntry == [there |-> FALSE, thr |-> 0, triggered |-> FALSE, snoozed |-> FALSE,
            at |-> 0, bar |-> "none"]

File == [Alerts -> Entry]
Empty == [a \in Alerts |-> NoEntry]

\* What _load returns.
Shown == IF present THEN file ELSE default

\* A thread: its next step, the operation, the alert it is about, the alerts
\* it has read or changed, whether they are the default object, and those it
\* fired.
Op == {"create", "patch", "rearm", "delete", "evaluate", "close"}
Thread == [pc: {"idle", "quotes", "bar", "save"}, op: Op, about: SUBSET Alerts,
           data: File, shared: BOOLEAN, fired: SUBSET Alerts]
NoRequest == [pc |-> "idle", op |-> "create", about |-> {}, data |-> Empty,
              shared |-> FALSE, fired |-> {}]

Idle(t) == th[t].pc = "idle"

\* What thread t will save.
Doc(t) == IF th[t].shared THEN default ELSE th[t].data

\* The alerts, the requests under way and the counters keep their types.
TypeOK ==
  /\ file \in File
  /\ present \in BOOLEAN
  /\ default \in File
  /\ th \in [Threads -> Thread]
  /\ issued \subseteq Alerts
  /\ deleted \subseteq Alerts
  /\ answered \subseteq Alerts
  /\ armings \in [Alerts -> Nat]
  /\ reports \in [Alerts -> Nat]
  /\ overlapped \in BOOLEAN
  /\ clashed \in BOOLEAN
  /\ requests \in 0..MaxRequests
  /\ faults \in 0..MaxFaults

Init ==
  /\ file = Empty
  /\ present \in BOOLEAN
  /\ default = Empty
  /\ th = [t \in Threads |-> NoRequest]
  /\ issued = {}
  /\ deleted = {}
  /\ answered = {}
  /\ armings = [a \in Alerts |-> 0]
  /\ reports = [a \in Alerts |-> 0]
  /\ overlapped = FALSE
  /\ clashed = FALSE
  /\ requests = 0
  /\ faults = 0

-----------------------------------------------------------------------------
(* The routes up to their save or their first quote.                       *)

Counted(count, A) == [a \in Alerts |-> IF a \in A THEN count[a] + 1 ELSE count[a]]

\* From here on others read the change.
TakesEffect(op, about) ==
  /\ deleted' = IF op = "delete" THEN deleted \union about ELSE deleted
  /\ armings' = IF op \in {"create", "rearm"}
                THEN Counted(armings, about) ELSE armings

\* Thread t has read the alerts and goes on at pc with data.  Without a file it
\* has changed the default object itself.
Start(t, pc, op, about, data) ==
  /\ Idle(t)
  /\ requests < MaxRequests
  /\ requests' = requests + 1
  /\ th' = [th EXCEPT ![t] = [pc |-> pc, op |-> op, about |-> about,
                              data |-> data, shared |-> ~present, fired |-> {}]]
  /\ IF present THEN UNCHANGED <<default, deleted, armings>>
     ELSE default' = data /\ TakesEffect(op, about)
  /\ overlapped' = (overlapped \/ \E u \in Threads : ~Idle(u))
  /\ clashed' = (clashed \/ (~present /\ \E u \in Threads : th[u].shared))
  /\ UNCHANGED <<file, present, answered, reports, faults>>

NewEntry(thr) == [NoEntry EXCEPT !.there = TRUE, !.thr = thr]

CreateConditionalAlert(t, a) ==
  /\ a \notin issued
  /\ issued' = issued \union {a}
  /\ \E thr \in Thresholds :
       Start(t, "save", "create", {a}, [Shown EXCEPT ![a] = NewEntry(thr)])

Snoozed(e, b) == [e EXCEPT !.snoozed = b]

\* A new threshold arms the alert; the record of its last close stays.
RearmedKeepsTriggered(e, thr) == [e EXCEPT !.thr = thr]
Rearmed(e, thr) == [e EXCEPT !.thr = thr, !.triggered = FALSE]

UpdateConditionalAlert(t, a) ==
  /\ Shown[a].there
  /\ \E b \in BOOLEAN :
       \/ Start(t, "save", "patch", {a},
                [Shown EXCEPT ![a] = Snoozed(Shown[a], b)])
       \/ \E thr \in Thresholds :
            Start(t, "save", "rearm", {a},
                  [Shown EXCEPT ![a] = Rearmed(Snoozed(Shown[a], b), thr)])
  /\ UNCHANGED issued

DeleteConditionalAlert(t, a) ==
  /\ Shown[a].there
  /\ Start(t, "save", "delete", {a}, [Shown EXCEPT ![a] = NoEntry])
  /\ UNCHANGED issued

EvaluateConditionalAlerts(t) ==
  /\ Start(t, "quotes", "evaluate", {}, Shown)
  /\ UNCHANGED issued

EvaluateCloseAlerts(t) ==
  /\ Start(t, "bar", "close", {}, Shown)
  /\ UNCHANGED issued

-----------------------------------------------------------------------------
(* The two passes.                                                         *)

\* Those a pass looks at: it skips the triggered and the snoozed.
ActiveIgnoresSnooze(d) == {a \in Alerts : d[a].there /\ ~d[a].triggered}
ActiveIgnoresTriggered(d) == {a \in Alerts : d[a].there /\ ~d[a].snoozed}
Active(d) == {a \in Alerts : d[a].there /\ ~d[a].triggered /\ ~d[a].snoozed}

\* The comparisons: a missing quote counts as 0.
Meets(a, thr, level) ==
  IF a \in AboveAlerts THEN level >= thr ELSE 0 < level /\ level <= thr

\* state.get_positions, which state.py does not define: the AttributeError is
\* caught, and no alert on a position finds a leg.
WithPositions(A) == A \ PositionAlerts

\* The intraday pass leaves the close alerts alone.
Intraday(d) == Active(d) \ CloseAlerts

FireEntry(e, level, bar) == 
  [e EXCEPT !.triggered = TRUE, !.at = level, !.bar = bar]

\* The copy d with the alerts of F fired.
WithFired(d, F, level, bar) ==
  [a \in Alerts |-> IF a \in F THEN FireEntry(d[a], level[a], bar) ELSE d[a]]

\* The thread fires the alerts of F, the default object's in place.
FireAll(t, F, level, bar) ==
  LET h == th[t] IN
  /\ th' = [th EXCEPT ![t] =
              [h EXCEPT !.pc = "save", !.fired = F,
                        !.data = WithFired(h.data, F, level, bar)]]
  /\ default' = IF h.shared
                THEN WithFired(default, {a \in F : default[a].there}, level, bar)
                ELSE default

\* The alerts as a pass comes to them, one by one: as it read them or, those of
\* the default object, as others have made them by then.
Seen(t) ==
  IF th[t].shared
  THEN {[a \in Alerts |-> IF a \in A THEN default[a] ELSE th[t].data[a]] :
          A \in SUBSET Alerts}
  ELSE {th[t].data}

\* The loop of evaluate_conditional_alerts, each alert with a quote of its own
\* or none.
LiveQuotes(t) ==
  \E d \in Seen(t), level \in [Alerts -> Levels \union {0}] :
    /\ th[t].pc = "quotes"
    /\ \A a \in Alerts \ Intraday(d) : level[a] = 0
    /\ FireAll(t, WithPositions({a \in Intraday(d) : Meets(a, d[a].thr, level[a])}),
               level, "none")
    /\ UNCHANGED <<file, present, issued, deleted, answered, armings, reports,
                   overlapped, clashed, requests, faults>>

\* Those a bar may fire: the weekly ones only on a Friday.
OnBar(d, bar) ==
  {a \in Active(d) \intersect CloseAlerts :
     a \in WeeklyAlerts => bar = "friday"}

\* The loop of evaluate_close_alerts on the bar fetched once for the ticker:
\* without one the alerts are skipped.
DailyClose(t) ==
  \E d \in Seen(t), close \in Levels, bar \in {"none", "weekday", "friday"} :
    /\ th[t].pc = "bar"
    /\ FireAll(t, IF bar = "none" THEN {}
                  ELSE {a \in OnBar(d, bar) : Meets(a, d[a].thr, close)},
               [a \in Alerts |-> close], bar)
    /\ UNCHANGED <<file, present, issued, deleted, answered, armings, reports,
                   overlapped, clashed, requests, faults>>

-----------------------------------------------------------------------------
(* The end of a request.                                                   *)

\* _save, which creates the file, and the answer.
Save(t) ==
  LET h == th[t] IN
  /\ h.pc = "save"
  /\ file' = Doc(t)
  /\ present' = TRUE
  /\ IF h.shared THEN UNCHANGED <<deleted, armings>>
     ELSE TakesEffect(h.op, h.about)
  /\ answered' = IF h.op = "delete" THEN answered ELSE answered \union h.about
  /\ reports' = Counted(reports, h.fired)
  /\ th' = [th EXCEPT ![t] = NoRequest]
  /\ UNCHANGED <<default, issued, overlapped, clashed, requests, faults>>

Stop(T) ==
  /\ faults < MaxFaults
  /\ faults' = faults + 1
  /\ th' = [t \in Threads |-> IF t \in T THEN NoRequest ELSE th[t]]
  /\ UNCHANGED <<file, present, issued, deleted, answered, armings, reports,
                 overlapped, clashed, requests>>

\* _save raises: nothing is reported, and what was changed in the default object
\* stays changed.
RequestFails(t) == ~Idle(t) /\ Stop({t}) /\ UNCHANGED default

\* A restart makes the default object anew.
Crash == Stop(Threads) /\ default' = Empty

Request(t) ==
  \/ \E a \in Alerts : \/ CreateConditionalAlert(t, a)
                       \/ UpdateConditionalAlert(t, a)
                       \/ DeleteConditionalAlert(t, a)
  \/ EvaluateConditionalAlerts(t)
  \/ EvaluateCloseAlerts(t)
  \/ LiveQuotes(t)
  \/ DailyClose(t)
  \/ Save(t)
  \/ RequestFails(t)

Next == Crash \/ \E t \in Threads : Request(t)

Spec == Init /\ [][Next]_vars

-----------------------------------------------------------------------------
(* What the alerts promise.                                                *)

\* What a triggered alert says of itself: the level it fired on meets the
\* threshold it has now; a close alert fired on a bar, a weekly one on a
\* Friday's.
Confirmed(a, e) ==
  e.triggered =>
    /\ Meets(a, e.thr, e.at)
    /\ a \in CloseAlerts => e.at > 0 /\ e.bar # "none"
    /\ a \in WeeklyAlerts => e.bar = "friday"

\* However requests interleave, fail or crash, every alert that is shown as
\* triggered is confirmed: no wick fires a close alert, and no change of the
\* threshold leaves a trigger of the old one.  Only two requests that work on
\* the default object at once can leave one.
TriggersConfirmed == ~clashed => \A a \in Alerts : Confirmed(a, Shown[a])

\* As long as no two requests have overlapped, an alert is reported as newly
\* triggered at most once for each time it was armed.
ReportedOncePerArming ==
  ~overlapped => \A a \in Alerts : reports[a] <= armings[a]

\* As long as no two requests have overlapped, the alerts live as
\* AlertLifecycle says.
Phase(a) ==
  CASE a \in deleted -> "gone"
    [] a \notin deleted /\ Shown[a].triggered -> "fired"
    [] a \notin deleted /\ ~Shown[a].triggered /\ Shown[a].there -> "armed"
    [] OTHER -> "none"

Lifecycle == INSTANCE AlertLifecycle WITH
               phase <- [a \in Alerts |-> Phase(a)],
               snoozed <- [a \in Alerts |-> Shown[a].snoozed]

ImplementsLifecycle ==
  /\ Lifecycle!Init
  /\ [][~overlapped' => [Lifecycle!Next]_(Lifecycle!vars)]_vars

=============================================================================
