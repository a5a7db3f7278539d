----------------------- MODULE ConditionalAlertsProofs -----------------------
(* Theorems about the conditional alerts, for every set of alerts, threads, *)
(* thresholds and prices.                                                   *)
EXTENDS ConditionalAlerts, TLAPS

(***************************************************************************)
(* What the steps do to the state, action by action.                       *)
(***************************************************************************)

\* A thread between two requests, and an alert that is not there.
LEMMA NoRequestType ==
  NoRequest \in Thread /\ NoEntry \in Entry /\ Empty \in File
<1>1. NoEntry \in Entry
  BY DEF NoEntry, Entry
<1>2. Empty \in File
  BY <1>1 DEF Empty, File
<1>3. QED
  BY <1>1, <1>2 DEF NoRequest, Thread, Op

\* What is shown, and what a thread saves, are alerts.
LEMMA ShownType == TypeOK => Shown \in File /\ \A t \in Threads : Doc(t) \in File
<1> SUFFICES ASSUME TypeOK
             PROVE  Shown \in File /\ \A t \in Threads : Doc(t) \in File
  OBVIOUS
<1>1. \A t \in Threads : th[t].data \in File
  BY DEF TypeOK, Thread
<1>2. QED
  BY <1>1 DEF TypeOK, Shown, Doc

\* Counting keeps counters.
LEMMA CountedType ==
  ASSUME NEW count \in [Alerts -> Nat], NEW A
  PROVE  /\ Counted(count, A) \in [Alerts -> Nat]
         /\ \A a \in Alerts :
              Counted(count, A)[a] = IF a \in A THEN count[a] + 1 ELSE count[a]
BY DEF Counted

\* So does the effect of a request.
LEMMA TakesEffectType ==
  ASSUME TypeOK, NEW op, NEW about \in SUBSET Alerts, TakesEffect(op, about)
  PROVE  deleted' \subseteq Alerts /\ armings' \in [Alerts -> Nat]
BY CountedType DEF TakesEffect, TypeOK

\* The alerts the routes make are alerts.
LEMMA EntryTypes ==
  ASSUME NEW e \in Entry, NEW thr \in Thresholds, NEW b \in BOOLEAN,
         NEW level \in Levels \union {0},
         NEW bar \in {"none", "weekday", "friday"}
  PROVE  /\ NewEntry(thr) \in Entry
         /\ Snoozed(e, b) \in Entry
         /\ Rearmed(e, thr) \in Entry
         /\ FireEntry(e, level, bar) \in Entry
<1>1. NewEntry(thr) \in Entry
  BY DEF NewEntry, NoEntry, Entry
<1>2. Snoozed(e, b) \in Entry
  BY DEF Snoozed, Entry
<1>3. Rearmed(e, thr) \in Entry
  BY DEF Rearmed, Entry
<1>4. FireEntry(e, level, bar) \in Entry
  BY DEF FireEntry, Entry
<1>5. QED
  BY <1>1, <1>2, <1>3, <1>4

\* A route that changes one alert works on alerts.
LEMMA ChangeType ==
  ASSUME NEW d \in File, NEW a \in Alerts, NEW e \in Entry
  PROVE  [d EXCEPT ![a] = e] \in File
BY DEF File

\* A request that starts.
LEMMA StartType ==
  ASSUME TypeOK, NEW t \in Threads, NEW pc \in {"quotes", "bar", "save"},
         NEW op \in Op, NEW about \in SUBSET Alerts, NEW data \in File,
         Start(t, pc, op, about, data), issued' \in SUBSET Alerts
  PROVE  TypeOK'
<1>1. [pc |-> pc, op |-> op, about |-> about, data |-> data,
       shared |-> ~present, fired |-> {}] \in Thread
  BY DEF Thread, TypeOK
<1>2. th' \in [Threads -> Thread]
  BY <1>1 DEF Start, TypeOK
<1>3. requests' \in 0..MaxRequests
  BY AlertsAssumption DEF AlertsAssumption, Start, TypeOK
<1>4. overlapped' \in BOOLEAN /\ clashed' \in BOOLEAN
  BY DEF Start
<1>5. /\ default' \in File /\ deleted' \subseteq Alerts
      /\ armings' \in [Alerts -> Nat]
  BY TakesEffectType DEF Start, TypeOK
<1>6. QED
  BY <1>2, <1>3, <1>4, <1>5 DEF Start, TypeOK

\* A pass that fires.
LEMMA FireAllType ==
  ASSUME TypeOK, NEW t \in Threads, NEW F \in SUBSET Alerts,
         NEW level \in [Alerts -> Levels \union {0}],
         NEW bar \in {"none", "weekday", "friday"},
         FireAll(t, F, level, bar)
  PROVE  th' \in [Threads -> Thread] /\ default' \in File
<1>1. th[t] \in Thread /\ th[t].data \in File /\ default \in File
  BY DEF TypeOK, Thread
<1>2. ASSUME NEW d \in File, NEW G \in SUBSET Alerts
      PROVE  WithFired(d, G, level, bar) \in File
  <2>1. ASSUME NEW a \in Alerts
        PROVE  d[a] \in Entry /\ FireEntry(d[a], level[a], bar) \in Entry
    <3>1. d[a] \in Entry
      BY DEF File
    <3>2. level[a] \in Levels \union {0}
      OBVIOUS
    <3>3. QED
      BY <3>1, <3>2 DEF FireEntry, Entry
  <2>2. QED
    BY <2>1 DEF WithFired, File
<1>3. \A d \in File :
        [th[t] EXCEPT !.pc = "save", !.fired = F, !.data = d] \in Thread
  BY <1>1 DEF Thread
<1>4. th' \in [Threads -> Thread]
  BY <1>1, <1>2, <1>3 DEF FireAll, TypeOK
<1>5. default' \in File
  BY <1>1, <1>2 DEF FireAll
<1>6. QED
  BY <1>4, <1>5

\* A pass sees alerts.
LEMMA SeenType ==
  ASSUME TypeOK, NEW t \in Threads, NEW d \in Seen(t)
  PROVE  d \in File
<1>1. default \in File /\ th[t].data \in File
  BY DEF TypeOK, Thread
<1>2. QED
  BY <1>1 DEF Seen, File

\* A request that stops.
LEMMA StopType ==
  ASSUME TypeOK, NEW T \in SUBSET Threads, Stop(T), default' \in File
  PROVE  TypeOK'
<1>1. faults' \in 0..MaxFaults
  BY AlertsAssumption DEF AlertsAssumption, Stop, TypeOK
<1>2. th' \in [Threads -> Thread]
  BY NoRequestType DEF Stop, TypeOK
<1>3. QED
  BY <1>1, <1>2 DEF Stop, TypeOK

-----------------------------------------------------------------------------

\* Type correctness of the alerts: the file, the copies the threads work on and
\* the counters stay what the code makes them, within the bounds.
THEOREM TypeCorrect == Spec => []TypeOK
<1>1. Init => TypeOK
  <2>1. Init => /\ file \in File /\ default \in File
                /\ th \in [Threads -> Thread]
    BY NoRequestType DEF Init
  <2>2. Init => /\ issued \subseteq Alerts
                /\ deleted \subseteq Alerts
                /\ answered \subseteq Alerts
                /\ armings \in [Alerts -> Nat]
                /\ reports \in [Alerts -> Nat]
    BY DEF Init
  <2>3. Init => requests \in 0..MaxRequests /\ faults \in 0..MaxFaults
    BY AlertsAssumption DEF AlertsAssumption, Init
  <2>4. Init => overlapped \in BOOLEAN /\ clashed \in BOOLEAN /\ present \in BOOLEAN
    BY Zenon DEF Init
  <2>5. QED
    BY <2>1, <2>2, <2>3, <2>4 DEF TypeOK
<1>2. TypeOK /\ [Next]_vars => TypeOK'
  <2> SUFFICES ASSUME TypeOK, [Next]_vars
               PROVE  TypeOK'
    OBVIOUS
  <2>0. Shown \in File
    BY ShownType
  <2>1. ASSUME NEW t \in Threads, NEW a \in Alerts, CreateConditionalAlert(t, a)
        PROVE  TypeOK'
    <3>1. PICK thr \in Thresholds :
            Start(t, "save", "create", {a}, [Shown EXCEPT ![a] = NewEntry(thr)])
      BY <2>1 DEF CreateConditionalAlert
    <3>2. NewEntry(thr) \in Entry
      BY DEF NewEntry, NoEntry, Entry
    <3>3. [Shown EXCEPT ![a] = NewEntry(thr)] \in File
      BY <3>2, ChangeType, <2>0
    <3>4. issued' \in SUBSET Alerts
      BY <2>1 DEF CreateConditionalAlert, TypeOK
    <3>5. "create" \in Op /\ {a} \in SUBSET Alerts
      BY DEF Op
    <3>6. QED
      BY <3>1, <3>3, <3>4, <3>5, StartType
  <2>2. ASSUME NEW t \in Threads, NEW a \in Alerts, UpdateConditionalAlert(t, a)
        PROVE  TypeOK'
    <3>1. issued' \in SUBSET Alerts /\ {a} \in SUBSET Alerts
      BY <2>2 DEF UpdateConditionalAlert, TypeOK
    <3>2. "patch" \in Op /\ "rearm" \in Op
      BY DEF Op
    <3>3. Shown[a] \in Entry
      BY <2>0 DEF File
    <3>4. ASSUME NEW b \in BOOLEAN,
                 Start(t, "save", "patch", {a},
                       [Shown EXCEPT ![a] = Snoozed(Shown[a], b)])
          PROVE  TypeOK'
      <4>1. Snoozed(Shown[a], b) \in Entry
        BY <3>3 DEF Snoozed, Entry
      <4>2. [Shown EXCEPT ![a] = Snoozed(Shown[a], b)] \in File
        BY <4>1, ChangeType, <2>0
      <4>3. QED
        BY <3>1, <3>2, <3>4, <4>2, StartType
    <3>5. ASSUME NEW b \in BOOLEAN, NEW thr \in Thresholds,
                 Start(t, "save", "rearm", {a},
                       [Shown EXCEPT ![a] = Rearmed(Snoozed(Shown[a], b), thr)])
          PROVE  TypeOK'
      <4>1. Rearmed(Snoozed(Shown[a], b), thr) \in Entry
        <5>1. Snoozed(Shown[a], b) \in Entry
          BY <3>3 DEF Snoozed, Entry
        <5>2. QED
          BY <5>1 DEF Rearmed, Entry
      <4>2. [Shown EXCEPT ![a] = Rearmed(Snoozed(Shown[a], b), thr)] \in File
        BY <4>1, ChangeType, <2>0
      <4>3. QED
        BY <3>1, <3>2, <3>5, <4>2, StartType
    <3>6. QED
      BY <2>2, <3>4, <3>5 DEF UpdateConditionalAlert
  <2>3. ASSUME NEW t \in Threads, NEW a \in Alerts, DeleteConditionalAlert(t, a)
        PROVE  TypeOK'
    <3>1. [Shown EXCEPT ![a] = NoEntry] \in File
      BY NoRequestType, ChangeType, <2>0
    <3>2. issued' \in SUBSET Alerts /\ {a} \in SUBSET Alerts
      BY <2>3 DEF DeleteConditionalAlert, TypeOK
    <3>3. "delete" \in Op
      BY DEF Op
    <3>4. QED
      BY <2>3, <3>1, <3>2, <3>3, StartType DEF DeleteConditionalAlert
  <2>4. ASSUME NEW t \in Threads,
               EvaluateConditionalAlerts(t) \/ EvaluateCloseAlerts(t)
        PROVE  TypeOK'
    <3>1. issued' \in SUBSET Alerts /\ Shown \in File
      BY <2>0, <2>4 DEF EvaluateConditionalAlerts, EvaluateCloseAlerts, TypeOK
    <3>2. "evaluate" \in Op /\ "close" \in Op /\ {} \in SUBSET Alerts
      BY DEF Op
    <3>3. CASE EvaluateConditionalAlerts(t)
      BY <3>1, <3>2, <3>3, StartType DEF EvaluateConditionalAlerts
    <3>4. CASE EvaluateCloseAlerts(t)
      BY <3>1, <3>2, <3>4, StartType DEF EvaluateCloseAlerts
    <3>5. QED
      BY <2>4, <3>3, <3>4
  <2>5. ASSUME NEW t \in Threads, LiveQuotes(t)
        PROVE  TypeOK'
    <3>1. PICK level \in [Alerts -> Levels \union {0}], F \in SUBSET Alerts :
            FireAll(t, F, level, "none")
      BY <2>5 DEF LiveQuotes, WithPositions, Intraday, Active
    <3>2. th' \in [Threads -> Thread] /\ default' \in File
      BY <3>1, FireAllType
    <3>3. QED
      BY <2>5, <3>2 DEF LiveQuotes, TypeOK
  <2>6. ASSUME NEW t \in Threads, DailyClose(t)
        PROVE  TypeOK'
    <3>1. PICK close \in Levels, bar \in {"none", "weekday", "friday"},
               F \in SUBSET Alerts :
            FireAll(t, F, [a \in Alerts |-> close], bar)
      <4> DEFINE fired(d, close, bar) ==
            IF bar = "none" THEN {}
            ELSE {a \in OnBar(d, bar) : Meets(a, d[a].thr, close)}
      <4>1. \A d, close, bar : fired(d, close, bar) \in SUBSET Alerts
        BY DEF OnBar, Active
      <4>2. PICK d \in Seen(t), close \in Levels,
                 bar \in {"none", "weekday", "friday"} :
              FireAll(t, fired(d, close, bar), [a \in Alerts |-> close], bar)
        BY <2>6 DEF DailyClose
      <4> HIDE DEF fired
      <4>3. QED
        BY <4>1, <4>2
    <3>2. [a \in Alerts |-> close] \in [Alerts -> Levels \union {0}]
      OBVIOUS
    <3>3. th' \in [Threads -> Thread] /\ default' \in File
      BY <3>1, <3>2, FireAllType
    <3>4. QED
      BY <2>6, <3>3 DEF DailyClose, TypeOK
  <2>7. ASSUME NEW t \in Threads, Save(t)
        PROVE  TypeOK'
    <3>1. th[t] \in Thread /\ th[t].about \in SUBSET Alerts
      BY DEF TypeOK, Thread
    <3>2. file' \in File /\ answered' \subseteq Alerts /\ present' \in BOOLEAN
      BY <2>7, <3>1, ShownType DEF Save, TypeOK
    <3>3. deleted' \subseteq Alerts /\ armings' \in [Alerts -> Nat]
      BY <2>7, <3>1, TakesEffectType DEF Save, TypeOK
    <3>4. reports' \in [Alerts -> Nat]
      BY <2>7, CountedType DEF Save, TypeOK
    <3>5. th' \in [Threads -> Thread]
      BY <2>7, NoRequestType DEF Save, TypeOK
    <3>6. QED
      BY <2>7, <3>2, <3>3, <3>4, <3>5 DEF Save, TypeOK
  <2>8. ASSUME NEW t \in Threads, RequestFails(t)
        PROVE  TypeOK'
    <3>1. default' \in File
      BY <2>8 DEF RequestFails, TypeOK
    <3>2. QED
      BY <2>8, <3>1, StopType, {t} \in SUBSET Threads DEF RequestFails
  <2>9. CASE Crash
    <3>1. default' \in File
      BY <2>9, NoRequestType DEF Crash
    <3>2. QED
      BY <2>9, <3>1, StopType DEF Crash
  <2>10. CASE UNCHANGED vars
    BY <2>10 DEF vars, TypeOK
  <2>11. QED
    BY <2>1, <2>2, <2>3, <2>4, <2>5, <2>6, <2>7, <2>8, <2>9, <2>10
       DEF Next, Request
<1>3. QED
  BY <1>1, <1>2, PTL DEF Spec

-----------------------------------------------------------------------------
(***************************************************************************)
(* Confirmed triggers.  What is shown is confirmed whatever the            *)
(* interleaving because every copy a thread may save is: a copy is         *)
(* confirmed when it is read, and each handler keeps it so.  As long as    *)
(* requests do not clash on the default object, it has one user, and is    *)
(* what a pass has read until the pass fires.                              *)
(***************************************************************************)

AllConfirmed(d) == \A a \in Alerts : Confirmed(a, d[a])

ConfirmedInv ==
  ~clashed =>
    /\ AllConfirmed(file) /\ AllConfirmed(default)
    /\ \A t \in Threads :
         /\ AllConfirmed(th[t].data)
         /\ th[t].shared /\ th[t].pc \in {"quotes", "bar"} => th[t].data = default
         /\ th[t].shared => \A u \in Threads \ {t} : ~th[u].shared

\* An alert nobody triggered confirms nothing.
LEMMA EmptyConfirmed == AllConfirmed(Empty)
BY DEF AllConfirmed, Confirmed, NoEntry, Empty

\* A start keeps the triggers confirmed if its copy is.
LEMMA StartConfirmed ==
  ASSUME TypeOK, ConfirmedInv, NEW t \in Threads, NEW pc, NEW op, NEW about,
         NEW data, Start(t, pc, op, about, data),
         ~clashed => AllConfirmed(data)
  PROVE  ConfirmedInv'
<1> SUFFICES ASSUME ~clashed'
             PROVE  ConfirmedInv'
  BY DEF ConfirmedInv
<1>1. ~clashed
  BY DEF Start
<1>2. \A u \in Threads \ {t} : th'[u] = th[u]
  BY DEF Start, TypeOK
<1>3. /\ th'[t].data = data /\ th'[t].shared = ~present
      /\ ~present => \A u \in Threads : ~th[u].shared
  BY DEF Start, TypeOK
<1>4. file' = file /\ default' = IF present THEN default ELSE data
  BY DEF Start
<1>5. ASSUME NEW u \in Threads, th'[u].shared, th'[u].pc \in {"quotes", "bar"}
      PROVE  th'[u].data = default'
  <2>1. CASE u = t
    BY <1>3, <1>4, <1>5, <2>1
  <2>2. CASE u # t
    BY <1>1, <1>2, <1>3, <1>4, <1>5, <2>2 DEF ConfirmedInv
  <2>3. QED
    BY <2>1, <2>2
<1>6. ASSUME NEW u \in Threads, NEW v \in Threads \ {u}, th'[u].shared
      PROVE  ~th'[v].shared
  BY <1>1, <1>2, <1>3, <1>6 DEF ConfirmedInv
<1>7. AllConfirmed(file') /\ AllConfirmed(default')
      /\ \A u \in Threads : AllConfirmed(th'[u].data)
  BY <1>1, <1>2, <1>3, <1>4 DEF ConfirmedInv
<1>8. QED
  BY <1>5, <1>6, <1>7 DEF ConfirmedInv, AllConfirmed

\* A change of one alert keeps the others.
LEMMA ChangeConfirmed ==
  ASSUME NEW d \in File, AllConfirmed(d), NEW a \in Alerts, NEW e,
         Confirmed(a, e)
  PROVE  AllConfirmed([d EXCEPT ![a] = e])
BY DEF AllConfirmed, File

\* A pass that clashes with no other sees what it has read.
LEMMA SeenRead ==
  ASSUME TypeOK, ConfirmedInv, ~clashed, NEW t \in Threads,
         th[t].pc \in {"quotes", "bar"}, NEW d \in Seen(t)
  PROVE  d = th[t].data /\ (th[t].shared => default = d)
<1>1. th[t].data \in File
  BY DEF TypeOK, Thread
<1>2. CASE ~th[t].shared
  BY <1>2 DEF Seen
<1>3. CASE th[t].shared
  <2>1. default = th[t].data
    BY <1>3 DEF ConfirmedInv
  <2>2. PICK A \in SUBSET Alerts :
          d = [a \in Alerts |-> IF a \in A THEN default[a] ELSE th[t].data[a]]
    BY <1>3 DEF Seen
  <2>3. d = [a \in Alerts |-> th[t].data[a]]
    BY <2>1, <2>2
  <2>4. QED
    BY <1>1, <2>1, <2>3 DEF File
<1>4. QED
  BY <1>2, <1>3

\* A pass keeps them too if what it fires meets the threshold.
LEMMA FireAllConfirmed ==
  ASSUME TypeOK, ConfirmedInv, NEW t \in Threads, NEW F,
         NEW level, NEW bar, FireAll(t, F, level, bar),
         file' = file, clashed' = clashed, th[t].pc \in {"quotes", "bar"},
         ~clashed => \A a \in F \intersect Alerts :
           Confirmed(a, FireEntry(th[t].data[a], level[a], bar))
  PROVE  ConfirmedInv'
<1> SUFFICES ASSUME ~clashed
             PROVE  ConfirmedInv'
  BY DEF ConfirmedInv
<1>1. th[t] \in Thread
  BY DEF TypeOK
<1>2. th' = [th EXCEPT ![t] = [th[t] EXCEPT !.pc = "save", !.fired = F,
                              !.data = WithFired(th[t].data, F, level, bar)]]
  BY DEF FireAll
<1>3. /\ \A u \in Threads \ {t} : th'[u] = th[u]
      /\ th'[t].data = WithFired(th[t].data, F, level, bar)
      /\ th'[t].shared = th[t].shared /\ th'[t].pc = "save"
  BY <1>1, <1>2 DEF TypeOK, Thread
<1>4. AllConfirmed(WithFired(th[t].data, F, level, bar))
  BY DEF WithFired, AllConfirmed, ConfirmedInv
<1>5. /\ AllConfirmed(default')
      /\ ~th[t].shared => default' = default
  <2>1. CASE th[t].shared
    <3>1. default = th[t].data
      BY <2>1 DEF ConfirmedInv
    <3>2. default' = WithFired(default, {a \in F : default[a].there}, level, bar)
      BY <2>1 DEF FireAll
    <3>3. QED
      BY <2>1, <3>1, <3>2 DEF WithFired, AllConfirmed, ConfirmedInv
  <2>2. CASE ~th[t].shared
    BY <2>2 DEF FireAll, ConfirmedInv
  <2>3. QED
    BY <2>1, <2>2
<1>6. AllConfirmed(file') /\ \A u \in Threads : AllConfirmed(th'[u].data)
  BY <1>3, <1>4 DEF ConfirmedInv
<1>7. \A u \in Threads : th'[u].shared = th[u].shared
  BY <1>3
<1>8. ASSUME NEW u \in Threads, th'[u].shared, th'[u].pc \in {"quotes", "bar"}
      PROVE  th'[u].data = default'
  BY <1>3, <1>5, <1>8 DEF ConfirmedInv
<1>9. \A u \in Threads : th'[u].shared => \A v \in Threads \ {u} : ~th'[v].shared
  BY <1>7 DEF ConfirmedInv
<1>10. QED
  BY <1>5, <1>6, <1>8, <1>9 DEF ConfirmedInv, AllConfirmed

\* No interleaving of the routes and the passes, no failed save and no crash
\* leaves an alert shown as triggered that its recorded level does not confirm,
\* unless requests have clashed on the default object.
THEOREM TriggersAreConfirmed == Spec => []TriggersConfirmed
<1>1. Init => ConfirmedInv
  <2> SUFFICES ASSUME Init
               PROVE  ConfirmedInv
    OBVIOUS
  <2>1. \A t \in Threads : th[t].data = Empty /\ th[t].shared = FALSE
    BY DEF Init, NoRequest
  <2>2. QED
    BY <2>1, EmptyConfirmed DEF Init, ConfirmedInv
<1>2. TypeOK /\ ConfirmedInv /\ [Next]_vars => ConfirmedInv'
  <2> SUFFICES ASSUME TypeOK, ConfirmedInv, [Next]_vars
               PROVE  ConfirmedInv'
    OBVIOUS
  <2>0. (~clashed => AllConfirmed(Shown)) /\ Shown \in File
    BY ShownType DEF ConfirmedInv, Shown
  <2>1. ASSUME NEW t \in Threads, NEW a \in Alerts, CreateConditionalAlert(t, a)
        PROVE  ConfirmedInv'
    <3>1. PICK thr \in Thresholds :
            Start(t, "save", "create", {a}, [Shown EXCEPT ![a] = NewEntry(thr)])
      BY <2>1 DEF CreateConditionalAlert
    <3>2. Confirmed(a, NewEntry(thr))
      BY DEF Confirmed, NewEntry, NoEntry
    <3>3. ~clashed => AllConfirmed([Shown EXCEPT ![a] = NewEntry(thr)])
      BY <2>0, <3>2, ChangeConfirmed
    <3>4. QED
      BY <3>1, <3>3, StartConfirmed
  <2>2. ASSUME NEW t \in Threads, NEW a \in Alerts, UpdateConditionalAlert(t, a)
        PROVE  ConfirmedInv'
    <3>1. Shown[a] \in Entry /\ (~clashed => Confirmed(a, Shown[a]))
      BY <2>0 DEF File, AllConfirmed
    <3>2. ASSUME NEW b \in BOOLEAN,
                 Start(t, "save", "patch", {a},
                       [Shown EXCEPT ![a] = Snoozed(Shown[a], b)])
          PROVE  ConfirmedInv'
      <4>1. ~clashed => Confirmed(a, Snoozed(Shown[a], b))
        BY <3>1 DEF Confirmed, Snoozed, Entry
      <4>2. ~clashed => AllConfirmed([Shown EXCEPT ![a] = Snoozed(Shown[a], b)])
        BY <2>0, <4>1, ChangeConfirmed
      <4>3. QED
        BY <3>2, <4>2, StartConfirmed
    <3>3. ASSUME NEW b \in BOOLEAN, NEW thr \in Thresholds,
                 Start(t, "save", "rearm", {a},
                       [Shown EXCEPT ![a] = Rearmed(Snoozed(Shown[a], b), thr)])
          PROVE  ConfirmedInv'
      <4>1. Confirmed(a, Rearmed(Snoozed(Shown[a], b), thr))
        BY <3>1 DEF Confirmed, Snoozed, Rearmed, Entry
      <4>2. ~clashed => AllConfirmed([Shown EXCEPT ![a] = Rearmed(Snoozed(Shown[a], b), thr)])
        BY <2>0, <4>1, ChangeConfirmed
      <4>3. QED
        BY <3>3, <4>2, StartConfirmed
    <3>4. QED
      BY <2>2, <3>2, <3>3 DEF UpdateConditionalAlert
  <2>3. ASSUME NEW t \in Threads, NEW a \in Alerts, DeleteConditionalAlert(t, a)
        PROVE  ConfirmedInv'
    <3>1. Confirmed(a, NoEntry)
      BY DEF Confirmed, NoEntry
    <3>2. ~clashed => AllConfirmed([Shown EXCEPT ![a] = NoEntry])
      BY <2>0, <3>1, ChangeConfirmed
    <3>3. QED
      BY <2>3, <3>2, StartConfirmed DEF DeleteConditionalAlert
  <2>4. ASSUME NEW t \in Threads,
               EvaluateConditionalAlerts(t) \/ EvaluateCloseAlerts(t)
        PROVE  ConfirmedInv'
    BY <2>0, <2>4, StartConfirmed
       DEF EvaluateConditionalAlerts, EvaluateCloseAlerts
  <2>5. ASSUME NEW t \in Threads, LiveQuotes(t)
        PROVE  ConfirmedInv'
    <3>1. PICK d \in Seen(t), level \in [Alerts -> Levels \union {0}] :
            FireAll(t, WithPositions({a \in Intraday(d) : Meets(a, d[a].thr, level[a])}),
                    level, "none")
      BY <2>5 DEF LiveQuotes
    <3>2. \A a \in Alerts : d[a] \in Entry
      BY SeenType DEF File
    <3>3. ASSUME NEW a \in Alerts,
                 a \in WithPositions({x \in Intraday(d) : Meets(x, d[x].thr, level[x])})
          PROVE  Confirmed(a, FireEntry(d[a], level[a], "none"))
      <4>1. a \notin CloseAlerts /\ a \notin WeeklyAlerts
        BY <3>3, AlertsAssumption DEF AlertsAssumption, WithPositions, Intraday
      <4>2. Meets(a, d[a].thr, level[a])
        BY <3>3 DEF WithPositions
      <4>3. QED
        BY <3>2, <4>1, <4>2 DEF Confirmed, FireEntry, Entry
    <3>4. /\ file' = file /\ clashed' = clashed
          /\ th[t].pc \in {"quotes", "bar"}
      BY <2>5 DEF LiveQuotes
    <3>5. ~clashed => d = th[t].data
      BY <3>4, SeenRead
    <3>6. QED
      BY <3>1, <3>3, <3>4, <3>5, FireAllConfirmed
  <2>6. ASSUME NEW t \in Threads, DailyClose(t)
        PROVE  ConfirmedInv'
    <3> DEFINE fired(d, close, bar) ==
                 IF bar = "none" THEN {}
                 ELSE {a \in OnBar(d, bar) : Meets(a, d[a].thr, close)}
    <3>1. PICK d \in Seen(t), close \in Levels,
               bar \in {"none", "weekday", "friday"} :
            FireAll(t, fired(d, close, bar), [a \in Alerts |-> close], bar)
      BY <2>6 DEF DailyClose
    <3>2. \A a \in Alerts : d[a] \in Entry
      BY SeenType DEF File
    <3>3. close \in Nat /\ close > 0
      BY AlertsAssumption DEF AlertsAssumption
    <3>4. ASSUME NEW a \in fired(d, close, bar) \intersect Alerts
          PROVE  Confirmed(a, FireEntry(d[a], [x \in Alerts |-> close][a], bar))
      <4>1. bar # "none" /\ (a \in WeeklyAlerts => bar = "friday")
        BY <3>4 DEF OnBar
      <4>2. Meets(a, d[a].thr, close)
        BY <3>4
      <4>3. QED
        BY <3>2, <3>3, <4>1, <4>2 DEF Confirmed, FireEntry, Entry
    <3>5. /\ file' = file /\ clashed' = clashed
          /\ th[t].pc \in {"quotes", "bar"}
      BY <2>6 DEF DailyClose
    <3>6. ~clashed => d = th[t].data
      BY <3>5, SeenRead
    <3> HIDE DEF fired
    <3>7. QED
      BY <3>1, <3>4, <3>5, <3>6, FireAllConfirmed
  <2>7. ASSUME NEW t \in Threads, Save(t)
        PROVE  ConfirmedInv'
    <3>1. /\ file' = IF th[t].shared THEN default ELSE th[t].data
          /\ UNCHANGED <<default, clashed>>
      BY <2>7 DEF Save, Doc
    <3>2. \A u \in Threads : th'[u] = IF u = t THEN NoRequest ELSE th[u]
      BY <2>7 DEF Save, TypeOK
    <3>3. NoRequest.data = Empty /\ NoRequest.shared = FALSE
      BY DEF NoRequest
    <3>4. QED
      BY <3>1, <3>2, <3>3, EmptyConfirmed DEF ConfirmedInv, AllConfirmed
  <2>8. ASSUME NEW T, Stop(T), default' \in {default, Empty},
               default' = Empty => T = Threads \/ default = Empty
        PROVE  ConfirmedInv'
    <3>1. \A u \in Threads : th'[u] = NoRequest \/ th'[u] = th[u]
      BY <2>8 DEF Stop
    <3>2. file' = file /\ clashed' = clashed
      BY <2>8 DEF Stop
    <3>3. NoRequest.data = Empty /\ NoRequest.shared = FALSE
      BY DEF NoRequest
    <3>4. T = Threads => \A u \in Threads : th'[u] = NoRequest
      BY <2>8 DEF Stop
    <3>5. default' = default \/ (default' = Empty /\ T = Threads)
      BY <2>8
    <3>6. QED
      BY <3>1, <3>2, <3>3, <3>4, <3>5, EmptyConfirmed DEF ConfirmedInv, AllConfirmed
  <2>9. CASE UNCHANGED vars
    BY <2>9 DEF vars, ConfirmedInv, AllConfirmed
  <2>10. ASSUME NEW t \in Threads, RequestFails(t)
         PROVE  ConfirmedInv'
    BY <2>8, <2>10 DEF RequestFails
  <2>11. CASE Crash
    BY <2>8, <2>11 DEF Crash
  <2>12. QED
    BY <2>1, <2>2, <2>3, <2>4, <2>5, <2>6, <2>7, <2>9, <2>10, <2>11
       DEF Next, Request
<1>3. ConfirmedInv => TriggersConfirmed
  BY DEF ConfirmedInv, AllConfirmed, TriggersConfirmed, Shown
<1>4. QED
  BY <1>1, <1>2, <1>3, TypeCorrect, PTL DEF Spec

-----------------------------------------------------------------------------
(***************************************************************************)
(* As long as no two requests have overlapped, what is shown changes by    *)
(* the effect of one request at a time: when it is saved, or, on the       *)
(* default object, at once.                                                *)
(***************************************************************************)

Passes == {"evaluate", "close"}

\* What request h has made of the alerts s, the ids of gone being deleted.
Copy(h, s, gone) ==
  /\ h.pc \in {"quotes", "bar"} =>
       h.op \in Passes /\ h.fired = {} /\ h.data = s
  /\ h.op \in Passes => h.about = {}
  /\ h.pc = "save" /\ h.op \in Passes =>
       /\ h.fired \subseteq Active(s)
       /\ \E level, bar : h.data = WithFired(s, h.fired, level, bar)
  /\ h.op \notin Passes =>
       /\ h.pc = "save"
       /\ h.fired = {}
       /\ \E a \in Alerts :
            /\ h.about = {a}
            /\ h.op = "create" =>
                 /\ s[a] = NoEntry /\ a \notin gone
                 /\ \E thr \in Thresholds :
                      h.data = [s EXCEPT ![a] = NewEntry(thr)]
            /\ h.op # "create" => s[a].there
            /\ h.op = "patch" => \E b \in BOOLEAN :
                 h.data = [s EXCEPT ![a] = Snoozed(s[a], b)]
            /\ h.op = "rearm" => \E b \in BOOLEAN, thr \in Thresholds :
                 h.data = [s EXCEPT ![a] = Rearmed(Snoozed(s[a], b), thr)]
            /\ h.op = "delete" => h.data = [s EXCEPT ![a] = NoEntry]

\* What a request h on the default object s still has to do: to fire, or to be
\* saved.
Shares(h, s) ==
  /\ h.pc \in {"quotes", "bar"} =>
       h.op \in Passes /\ h.fired = {} /\ h.data = s
  /\ h.op \in Passes => h.about = {}
  /\ h.op \notin Passes =>
       /\ h.pc = "save" /\ h.fired = {}
       /\ \E a \in Alerts : h.about = {a} /\ (h.op # "delete" => s[a].there)

Works(h, s, gone) == IF h.shared THEN Shares(h, s) ELSE Copy(h, s, gone)

\* An alert that is not there is nothing; a deleted one, and one that was never
\* created, is not there.
Recorded ==
  \A a \in Alerts :
    /\ Shown[a].there \/ Shown[a] = NoEntry
    /\ a \in deleted \/ a \notin issued => Shown[a] = NoEntry
    /\ a \in deleted => a \in issued

\* An alert waiting to fire has been armed once more than it was reported.
Bounded(reported, armed, s) ==
  \A a \in Alerts :
    /\ reported[a] <= armed[a]
    /\ s[a].there /\ ~s[a].triggered => reported[a] < armed[a]

\* What has fired on the default object and is yet to be reported.
Pending == UNION {th[t].fired : t \in {u \in Threads : ~Idle(u) /\ th[u].shared}}

Alone ==
  /\ \A t, u \in Threads : ~Idle(t) /\ ~Idle(u) => t = u
  /\ Recorded
  /\ Bounded(Counted(reports, Pending), armings, Shown)
  /\ \A t \in Threads :
       ~Idle(t) => th[t].shared = ~present /\ Works(th[t], Shown, deleted)

AloneInv == ~overlapped => Alone

\* Before a creation is saved its id has been drawn; the file is there once a
\* request about an alert has been answered.
DrawnInv ==
  /\ \A t \in Threads : th[t].op = "create" => th[t].about \subseteq issued
  /\ answered # {} => present

\* How a request changes what is shown: the step of AlertLifecycle of that name,
\* spelled out.
Effect(op, about, fired) ==
  \/ /\ op \in Passes /\ about = {}
     /\ fired \subseteq Active(Shown)
     /\ \E level, bar : Shown' = WithFired(Shown, fired, level, bar)
     /\ UNCHANGED <<deleted, armings>>
  \/ \E a \in Alerts :
     /\ op = "create" /\ about = {a} /\ fired = {}
     /\ Shown[a] = NoEntry /\ a \notin deleted /\ a \in issued'
     /\ \E thr \in Thresholds : Shown' = [Shown EXCEPT ![a] = NewEntry(thr)]
     /\ UNCHANGED deleted /\ armings' = Counted(armings, {a})
  \/ \E a \in Alerts, b \in BOOLEAN :
     /\ op = "patch" /\ about = {a} /\ fired = {} /\ Shown[a].there
     /\ Shown' = [Shown EXCEPT ![a] = Snoozed(Shown[a], b)]
     /\ UNCHANGED <<deleted, armings>>
  \/ \E a \in Alerts, b \in BOOLEAN, thr \in Thresholds :
     /\ op = "rearm" /\ about = {a} /\ fired = {} /\ Shown[a].there
     /\ Shown' = [Shown EXCEPT ![a] = Rearmed(Snoozed(Shown[a], b), thr)]
     /\ UNCHANGED deleted /\ armings' = Counted(armings, {a})
  \/ \E a \in Alerts :
     /\ op = "delete" /\ about = {a} /\ fired = {} /\ Shown[a].there
     /\ Shown' = [Shown EXCEPT ![a] = NoEntry]
     /\ deleted' = deleted \union {a} /\ UNCHANGED armings

\* A copy of what is shown that takes effect.
LEMMA CopyTakesEffect ==
  ASSUME NEW h, h.op \in Op, h.pc = "save", Copy(h, Shown, deleted),
         Shown' = h.data, TakesEffect(h.op, h.about),
         h.op = "create" => h.about \subseteq issued'
  PROVE  Effect(h.op, h.about, h.fired)
<1>1. CASE h.op \in Passes
  BY <1>1 DEF Copy, Passes, TakesEffect, Effect
<1>2. CASE h.op = "create"
  BY <1>2 DEF Copy, Passes, TakesEffect, Effect
<1>3. CASE h.op = "patch"
  BY <1>3 DEF Copy, Passes, TakesEffect, Effect
<1>4. CASE h.op = "rearm"
  <2>1. PICK a \in Alerts, b \in BOOLEAN, thr \in Thresholds :
          /\ h.about = {a} /\ h.fired = {} /\ Shown[a].there
          /\ h.data = [Shown EXCEPT ![a] = Rearmed(Snoozed(Shown[a], b), thr)]
    BY <1>4 DEF Copy, Passes
  <2>2. UNCHANGED deleted /\ armings' = Counted(armings, {a})
    BY <1>4, <2>1 DEF TakesEffect
  <2>3. QED
    BY <1>4, <2>1, <2>2 DEF Effect
<1>5. CASE h.op = "delete"
  BY <1>5 DEF Copy, Passes, TakesEffect, Effect
<1>6. QED
  BY <1>1, <1>2, <1>3, <1>4, <1>5 DEF Op, Passes

\* An effect keeps the records, and leaves room for the reports of what it fired.
LEMMA EffectKeeps ==
  ASSUME TypeOK, Recorded, Bounded(reports, armings, Shown),
         NEW op, NEW about, NEW fired, Effect(op, about, fired),
         issued \subseteq issued'
  PROVE  Recorded' /\ Bounded(Counted(reports, fired), armings', Shown')
<1>1. Shown \in File /\ armings \in [Alerts -> Nat] /\ reports \in [Alerts -> Nat]
  BY ShownType DEF TypeOK
<1>2. \A a \in Alerts : Shown[a] \in Entry
  BY <1>1 DEF File
<1>3. \A a \in Alerts : Shown[a].there => a \in issued /\ a \notin deleted
  BY DEF Recorded, NoEntry
<1>4. CASE /\ fired \subseteq Active(Shown)
           /\ \E level, bar : Shown' = WithFired(Shown, fired, level, bar)
           /\ UNCHANGED <<deleted, armings>>
  <2>1. PICK level, bar : Shown' = WithFired(Shown, fired, level, bar)
    BY <1>4
  <2>2. \A a \in Alerts :
          Shown'[a] = IF a \in fired THEN FireEntry(Shown[a], level[a], bar)
                                     ELSE Shown[a]
    BY <2>1 DEF WithFired
  <2>3. \A a \in fired : a \in Alerts /\ Shown[a].there /\ ~Shown[a].triggered
    BY <1>4 DEF Active
  <2>4. \A a \in fired : Shown'[a].there /\ Shown'[a].triggered
    <3>1. \A l : \A e \in Entry :
            FireEntry(e, l, bar).there = e.there /\ FireEntry(e, l, bar).triggered
      BY DEF FireEntry, Entry
    <3>2. QED
      BY <1>2, <2>2, <2>3, <3>1
  <2>5. Recorded'
    BY <1>3, <1>4, <2>2, <2>3, <2>4 DEF Recorded
  <2>6. \A a \in Alerts :
          Counted(reports, fired)[a] = IF a \in fired THEN reports[a] + 1 ELSE reports[a]
    BY <1>1, CountedType
  <2>7. \A a \in Alerts : reports[a] \in Nat /\ armings[a] \in Nat
    BY <1>1
  <2>8. Bounded(Counted(reports, fired), armings', Shown')
    <3>1. SUFFICES ASSUME NEW a \in Alerts
                   PROVE  /\ Counted(reports, fired)[a] <= armings[a]
                          /\ Shown'[a].there /\ ~Shown'[a].triggered
                               => Counted(reports, fired)[a] < armings[a]
      BY <1>4 DEF Bounded
    <3>2. CASE a \in fired
      BY <2>3, <2>4, <2>6, <2>7, <3>2 DEF Bounded
    <3>3. CASE a \notin fired
      BY <2>2, <2>6, <3>3 DEF Bounded
    <3>4. QED
      BY <3>2, <3>3
  <2>9. QED
    BY <2>5, <2>8
<1>5. ASSUME NEW a \in Alerts, NEW e \in Entry,
             fired = {}, Shown' = [Shown EXCEPT ![a] = e],
             e.there \/ e = NoEntry,
             deleted' \in {deleted, deleted \union {a}}, a \in issued',
             a \in deleted' => e = NoEntry,
             \/ armings' = Counted(armings, {a})
             \/ /\ armings' = armings
                /\ e.there /\ ~e.triggered => Shown[a].there /\ ~Shown[a].triggered
      PROVE  Recorded' /\ Bounded(Counted(reports, fired), armings', Shown')
  <2>1. \A x \in Alerts : Shown'[x] = IF x = a THEN e ELSE Shown[x]
    BY <1>1, <1>5 DEF File
  <2>2. Recorded'
    BY <1>5, <2>1 DEF Recorded
  <2>3. Counted(reports, fired) = reports
    BY <1>1, <1>5 DEF Counted
  <2>4. \A x \in Alerts : armings[x] \in Nat /\ reports[x] \in Nat
    BY <1>1
  <2>5. CASE armings' = Counted(armings, {a})
    <3>1. \A x \in Alerts :
            armings'[x] = IF x = a THEN armings[x] + 1 ELSE armings[x]
      BY <2>5 DEF Counted
    <3>2. \A x \in Alerts \ {a} : armings'[x] = armings[x] /\ Shown'[x] = Shown[x]
      BY <2>1, <3>1
    <3>3. reports[a] < armings'[a] /\ reports[a] <= armings'[a]
      BY <2>4, <3>1 DEF Bounded
    <3>4. QED
      BY <2>2, <2>3, <3>2, <3>3 DEF Bounded
  <2>6. CASE /\ armings' = armings
             /\ e.there /\ ~e.triggered => Shown[a].there /\ ~Shown[a].triggered
    BY <2>1, <2>2, <2>3, <2>6 DEF Bounded
  <2>7. QED
    BY <1>5, <2>5, <2>6
<1>6. ASSUME NEW a \in Alerts, fired = {}, Shown[a] = NoEntry, a \notin deleted,
             a \in issued', NEW thr \in Thresholds,
             Shown' = [Shown EXCEPT ![a] = NewEntry(thr)],
             UNCHANGED deleted, armings' = Counted(armings, {a})
      PROVE  Recorded' /\ Bounded(Counted(reports, fired), armings', Shown')
  <2>1. NewEntry(thr) \in Entry /\ NewEntry(thr).there
    BY DEF NewEntry, NoEntry, Entry
  <2>2. QED
    BY <1>5, <1>6, <2>1
<1>7. ASSUME NEW a \in Alerts, NEW b \in BOOLEAN, fired = {}, Shown[a].there,
             Shown' = [Shown EXCEPT ![a] = Snoozed(Shown[a], b)],
             UNCHANGED <<deleted, armings>>
      PROVE  Recorded' /\ Bounded(Counted(reports, fired), armings', Shown')
  <2>1. Snoozed(Shown[a], b) \in Entry /\ Snoozed(Shown[a], b).there
    BY <1>2, <1>7 DEF Snoozed, Entry
  <2>2. Snoozed(Shown[a], b).triggered = Shown[a].triggered
    BY <1>2 DEF Snoozed, Entry
  <2>3. a \in issued' /\ a \notin deleted'
    BY <1>3, <1>7
  <2>4. QED
    BY <1>5, <1>7, <2>1, <2>2, <2>3
<1>8. ASSUME NEW a \in Alerts, NEW b \in BOOLEAN, NEW thr \in Thresholds,
             fired = {}, Shown[a].there,
             Shown' = [Shown EXCEPT ![a] = Rearmed(Snoozed(Shown[a], b), thr)],
             UNCHANGED deleted, armings' = Counted(armings, {a})
      PROVE  Recorded' /\ Bounded(Counted(reports, fired), armings', Shown')
  <2>1. Rearmed(Snoozed(Shown[a], b), thr) \in Entry
        /\ Rearmed(Snoozed(Shown[a], b), thr).there
    BY <1>2, <1>8 DEF Snoozed, Rearmed, Entry
  <2>2. a \in issued' /\ a \notin deleted'
    BY <1>3, <1>8
  <2>3. QED
    BY <1>5, <1>8, <2>1, <2>2
<1>9. ASSUME NEW a \in Alerts, fired = {}, Shown[a].there,
             Shown' = [Shown EXCEPT ![a] = NoEntry],
             deleted' = deleted \union {a}, UNCHANGED armings
      PROVE  Recorded' /\ Bounded(Counted(reports, fired), armings', Shown')
  <2>1. NoEntry \in Entry /\ ~NoEntry.there
    BY NoRequestType DEF NoEntry
  <2>2. a \in issued'
    BY <1>3, <1>9
  <2>3. QED
    BY <1>5, <1>9, <2>1, <2>2
<1>10. QED
  <2>1. CASE op = "rearm"
    <3>1. PICK a \in Alerts, b \in BOOLEAN, thr \in Thresholds :
            /\ fired = {} /\ Shown[a].there
            /\ Shown' = [Shown EXCEPT ![a] = Rearmed(Snoozed(Shown[a], b), thr)]
            /\ UNCHANGED deleted /\ armings' = Counted(armings, {a})
      BY <2>1 DEF Effect, Passes
    <3>2. QED
      BY <1>8, <3>1
  <2>2. CASE op # "rearm"
    BY <1>4, <1>6, <1>7, <1>9, <2>2 DEF Effect
  <2>3. QED
    BY <2>1, <2>2

\* No request under way has anything to report.
LEMMA NonePending ==
  ASSUME \A u \in Threads : ~Idle(u) /\ th[u].shared => th[u].fired = {}
  PROVE  Pending = {}
BY DEF Pending

\* Counting nothing.
LEMMA CountedNone ==
  ASSUME NEW count \in [Alerts -> Nat]
  PROVE  Counted(count, {}) = count
BY DEF Counted

\* What a request about an alert is about is there, unless it was deleted.
LEMMA EffectThere ==
  ASSUME TypeOK, NEW op \in Op \ Passes, NEW about, NEW fired,
         Effect(op, about, fired)
  PROVE  \E a \in Alerts : about = {a} /\ (op # "delete" => Shown'[a].there)
<1>1. Shown \in File /\ \A a \in Alerts : Shown[a] \in Entry
  BY ShownType DEF File
<1>2. ASSUME NEW a \in Alerts, NEW e, e.there, Shown' = [Shown EXCEPT ![a] = e]
      PROVE  Shown'[a].there
  BY <1>1, <1>2 DEF File
<1>3. ASSUME NEW a \in Alerts, NEW b \in BOOLEAN, NEW thr \in Thresholds,
             Shown[a].there
      PROVE  /\ NewEntry(thr).there /\ Snoozed(Shown[a], b).there
             /\ Rearmed(Snoozed(Shown[a], b), thr).there
  BY <1>1, <1>3 DEF NewEntry, NoEntry, Snoozed, Rearmed, Entry
<1>4. CASE op = "create"
  BY <1>1, <1>2, <1>4 DEF Effect, Passes, NewEntry, NoEntry
<1>5. CASE op = "patch"
  <2>1. PICK a \in Alerts, b \in BOOLEAN :
          /\ about = {a} /\ Shown[a].there
          /\ Shown' = [Shown EXCEPT ![a] = Snoozed(Shown[a], b)]
    BY <1>5 DEF Effect, Passes
  <2>2. Snoozed(Shown[a], b).there
    BY <1>1, <2>1 DEF Snoozed, Entry
  <2>3. QED
    BY <1>2, <2>1, <2>2
<1>6. CASE op = "rearm"
  <2>1. PICK a \in Alerts, b \in BOOLEAN, thr \in Thresholds :
          /\ about = {a} /\ Shown[a].there
          /\ Shown' = [Shown EXCEPT ![a] = Rearmed(Snoozed(Shown[a], b), thr)]
    BY <1>6 DEF Effect, Passes
  <2>2. QED
    BY <1>2, <1>3, <2>1
<1>7. CASE op = "delete"
  BY <1>7 DEF Effect, Passes
<1>8. QED
  BY <1>4, <1>5, <1>6, <1>7 DEF Op, Passes

\* What a step that runs alone does to what the lifecycle is about: an effect,
\* an answer, or a restart while nothing has been answered.
Moves ==
  \/ \E op, about, fired :
       /\ Effect(op, about, fired)
       /\ answered' \in {answered, answered \union IF op = "delete" THEN {} ELSE about}
  \/ /\ Shown' = Shown /\ deleted' = deleted
     /\ \/ answered' = answered
        \/ \E a \in Alerts : Shown[a].there /\ answered' = answered \union {a}
  \/ /\ Shown' = Empty /\ answered = {}
     /\ deleted' = deleted /\ answered' = answered

\* A request that starts alone.
LEMMA StartAlone ==
  ASSUME TypeOK, AloneInv, NEW t \in Threads, NEW pc, NEW op \in Op, NEW about,
         NEW data, Start(t, pc, op, about, data), ~overlapped',
         op \in Passes => pc \in {"quotes", "bar"},
         issued \subseteq issued', op = "create" => about \subseteq issued',
         Alone => Copy([pc |-> pc, op |-> op, about |-> about, data |-> data,
                        shared |-> ~present, fired |-> {}], Shown, deleted)
  PROVE  Alone' /\ Moves
<1> DEFINE h == [pc |-> pc, op |-> op, about |-> about, data |-> data,
                 shared |-> ~present, fired |-> {}]
<1>1. /\ Alone /\ \A u \in Threads : Idle(u)
      /\ UNCHANGED <<file, present, answered, reports>>
  BY DEF Start, AloneInv
<1>2. Copy(h, Shown, deleted)
  BY <1>1
<1>3. th'[t] = h /\ \A u \in Threads \ {t} : Idle(u)'
  BY <1>1 DEF Start, TypeOK, Idle
<1> HIDE DEF h
<1>4. h.pc = pc /\ h.op = op /\ h.about = about /\ h.data = data
      /\ h.shared = ~present /\ h.fired = {}
  BY DEF h
<1>5. Pending = {} /\ Pending' = {}
  <2>1. Pending = {}
    BY <1>1 DEF Pending
  <2>2. Pending' = {}
    BY <1>3, <1>4 DEF Pending
  <2>3. QED
    BY <2>1, <2>2
<1>6. /\ Counted(reports, {}) = reports
      /\ Bounded(reports, armings, Shown)
      /\ Recorded
  BY <1>1, <1>5, CountedNone DEF Alone, TypeOK
<1>7. ASSUME Recorded', Bounded(reports, armings', Shown'),
             Works(h, Shown', deleted')
      PROVE  Alone'
  <2>1. Bounded(Counted(reports, Pending), armings, Shown)'
    BY <1>1, <1>5, <1>6, <1>7
  <2>2. \A u, v \in Threads : ~Idle(u)' /\ ~Idle(v)' => u = v
    BY <1>3
  <2>3. \A u \in Threads : ~Idle(u)' =>
          th'[u].shared = ~present' /\ Works(th'[u], Shown', deleted')
    BY <1>1, <1>3, <1>4, <1>7
  <2>4. QED
    BY <1>7, <2>1, <2>2, <2>3 DEF Alone
<1>8. ASSUME Shown' = Shown, UNCHANGED <<deleted, armings>>,
             Works(h, Shown, deleted)
      PROVE  Alone' /\ Moves
  <2>1. Recorded'
    BY <1>6, <1>8 DEF Recorded
  <2>2. QED
    BY <1>1, <1>6, <1>7, <1>8, <2>1 DEF Moves
<1>9. CASE present
  <2>1. Shown' = Shown /\ UNCHANGED <<deleted, armings>>
    BY <1>1, <1>9 DEF Start, Shown
  <2>2. QED
    BY <1>2, <1>4, <1>8, <1>9, <2>1 DEF Works
<1>10. CASE ~present
  <2>1. Shown' = data /\ TakesEffect(op, about)
    BY <1>1, <1>10 DEF Start, Shown
  <2>2. CASE op \in Passes
    <3>1. data = Shown /\ about = {}
      BY <1>2, <1>4, <2>2 DEF Copy
    <3>2. UNCHANGED <<deleted, armings>>
      BY <2>1, <2>2 DEF TakesEffect, Passes
    <3>3. Shares(h, Shown)
      BY <1>2, <1>4, <2>2 DEF Copy, Shares
    <3>4. QED
      BY <1>4, <1>8, <1>10, <2>1, <3>1, <3>2, <3>3 DEF Works
  <2>3. CASE op \notin Passes
    <3>1. pc = "save"
      BY <1>2, <1>4, <2>3 DEF Copy
    <3>2. Effect(op, about, {})
      BY <1>2, <1>4, <2>1, <3>1, CopyTakesEffect
    <3>3. Recorded' /\ Bounded(reports, armings', Shown')
      BY <1>6, <3>2, EffectKeeps
    <3>4. \E a \in Alerts : about = {a} /\ (op # "delete" => Shown'[a].there)
      BY <2>3, <3>2, EffectThere
    <3>5. Shares(h, Shown')
      BY <1>4, <2>3, <3>1, <3>4 DEF Shares
    <3>6. Works(h, Shown', deleted')
      BY <1>4, <1>10, <3>5 DEF Works
    <3>7. QED
      BY <1>1, <1>7, <3>2, <3>3, <3>6 DEF Moves
  <2>4. QED
    BY <2>2, <2>3
<1>11. QED
  BY <1>9, <1>10

\* The five kinds of request that start.
Starts(t) ==
  \/ \E a \in Alerts : \/ CreateConditionalAlert(t, a)
                       \/ UpdateConditionalAlert(t, a)
                       \/ DeleteConditionalAlert(t, a)
  \/ EvaluateConditionalAlerts(t)
  \/ EvaluateCloseAlerts(t)

\* A request that starts alone leaves everything as it says.
LEMMA RequestsStartAlone ==
  ASSUME TypeOK, AloneInv, NEW t \in Threads, Starts(t), ~overlapped'
  PROVE  Alone' /\ Moves
<1> DEFINE h(pc, op, about, data) ==
             [pc |-> pc, op |-> op, about |-> about, data |-> data,
              shared |-> ~present, fired |-> {}]
           Is(x, op, about, data) ==
             /\ x.pc = "save" /\ x.op = op /\ x.about = about
             /\ x.data = data /\ x.fired = {}
<1>1. ASSUME NEW op, NEW about, NEW data
      PROVE  Is(h("save", op, about, data), op, about, data)
  OBVIOUS
<1> HIDE DEF h
<1>2. ASSUME NEW a \in Alerts, CreateConditionalAlert(t, a)
      PROVE  Alone' /\ Moves
  <2>1. PICK thr \in Thresholds :
          Start(t, "save", "create", {a}, [Shown EXCEPT ![a] = NewEntry(thr)])
    BY <1>2 DEF CreateConditionalAlert
  <2>2. issued' = issued \union {a} /\ a \notin issued
    BY <1>2 DEF CreateConditionalAlert
  <2>3. ASSUME Alone
        PROVE  Copy(h("save", "create", {a}, [Shown EXCEPT ![a] = NewEntry(thr)]),
                    Shown, deleted)
    <3>1. Shown[a] = NoEntry /\ a \notin deleted
      BY <2>2, <2>3 DEF Alone, Recorded
    <3>2. \A x : Is(x, "create", {a}, [Shown EXCEPT ![a] = NewEntry(thr)])
                  => Copy(x, Shown, deleted)
      BY <3>1 DEF Copy, Passes
    <3> HIDE DEF Is
    <3>3. QED
      BY <1>1, <3>2
  <2>4. QED
    BY <2>1, <2>2, <2>3, StartAlone DEF h, Op, Passes
<1>3. ASSUME NEW a \in Alerts, UpdateConditionalAlert(t, a)
      PROVE  Alone' /\ Moves
  <2>1. Shown[a].there /\ issued' = issued
    BY <1>3 DEF UpdateConditionalAlert
  <2>2. ASSUME NEW b \in BOOLEAN,
               Start(t, "save", "patch", {a},
                     [Shown EXCEPT ![a] = Snoozed(Shown[a], b)])
        PROVE  Alone' /\ Moves
    <3>1. \A x : Is(x, "patch", {a}, [Shown EXCEPT ![a] = Snoozed(Shown[a], b)])
                  => Copy(x, Shown, deleted)
      BY <2>1 DEF Copy, Passes
    <3> HIDE DEF Is
    <3>2. Copy(h("save", "patch", {a}, [Shown EXCEPT ![a] = Snoozed(Shown[a], b)]),
               Shown, deleted)
      BY <1>1, <3>1
    <3>3. QED
      BY <2>1, <2>2, <3>2, StartAlone DEF h, Op, Passes
  <2>3. ASSUME NEW b \in BOOLEAN, NEW thr \in Thresholds,
               Start(t, "save", "rearm", {a},
                     [Shown EXCEPT ![a] = Rearmed(Snoozed(Shown[a], b), thr)])
        PROVE  Alone' /\ Moves
    <3>1. \A x : Is(x, "rearm", {a},
                     [Shown EXCEPT ![a] = Rearmed(Snoozed(Shown[a], b), thr)])
                  => Copy(x, Shown, deleted)
      BY <2>1 DEF Copy, Passes
    <3> HIDE DEF Is
    <3>2. Copy(h("save", "rearm", {a},
                 [Shown EXCEPT ![a] = Rearmed(Snoozed(Shown[a], b), thr)]),
               Shown, deleted)
      BY <1>1, <3>1
    <3>3. QED
      BY <2>1, <2>3, <3>2, StartAlone DEF h, Op, Passes
  <2>4. QED
    BY <1>3, <2>2, <2>3 DEF UpdateConditionalAlert
<1>4. ASSUME NEW a \in Alerts, DeleteConditionalAlert(t, a)
      PROVE  Alone' /\ Moves
  <2>1. /\ Shown[a].there /\ issued' = issued
        /\ Start(t, "save", "delete", {a}, [Shown EXCEPT ![a] = NoEntry])
    BY <1>4 DEF DeleteConditionalAlert
  <2>2. \A x : Is(x, "delete", {a}, [Shown EXCEPT ![a] = NoEntry])
                => Copy(x, Shown, deleted)
    BY <2>1 DEF Copy, Passes
  <2> HIDE DEF Is
  <2>3. Copy(h("save", "delete", {a}, [Shown EXCEPT ![a] = NoEntry]), Shown, deleted)
    BY <1>1, <2>2
  <2>4. QED
    BY <2>1, <2>3, StartAlone DEF h, Op, Passes
<1>5. ASSUME NEW pc \in {"quotes", "bar"}, NEW op \in Passes,
             Start(t, pc, op, {}, Shown), UNCHANGED issued
      PROVE  Alone' /\ Moves
  <2>1. Copy(h(pc, op, {}, Shown), Shown, deleted)
    BY DEF h, Copy, Passes
  <2>2. op \in Op /\ op # "create"
    BY DEF Passes, Op
  <2>3. QED
    BY <1>5, <2>1, <2>2, StartAlone DEF h
<1>6. QED
  BY <1>2, <1>3, <1>4, <1>5
     DEF Starts, EvaluateConditionalAlerts, EvaluateCloseAlerts, Passes

\* A pass that runs alone fires active alerts of what is shown.
LEMMA PassAlone ==
  ASSUME TypeOK, AloneInv, ~overlapped, NEW t \in Threads, NEW F, NEW level,
         NEW bar, FireAll(t, F, level, bar),
         NEW d \in Seen(t), F \subseteq Active(d),
         th[t].pc \in {"quotes", "bar"},
         UNCHANGED <<file, present, issued, deleted, answered, armings, reports>>
  PROVE  Alone' /\ Moves
<1> DEFINE h == th[t]
<1>1. Alone /\ ~Idle(t) /\ h \in Thread /\ h.data \in File
  BY DEF AloneInv, Idle, TypeOK, Thread
<1>2. /\ h.op \in Passes /\ h.data = Shown /\ h.fired = {} /\ h.about = {}
      /\ h.shared = ~present
  BY <1>1 DEF Alone, Works, Copy, Shares
<1>3. F \subseteq Active(Shown)
  <2>1. h.shared => default = h.data
    BY <1>2 DEF Shown
  <2>2. CASE h.shared
    <3>1. PICK A \in SUBSET Alerts :
            d = [a \in Alerts |-> IF a \in A THEN default[a] ELSE h.data[a]]
      BY <2>2 DEF Seen
    <3>2. d = [a \in Alerts |-> h.data[a]]
      BY <2>1, <2>2, <3>1
    <3>3. QED
      BY <1>1, <1>2, <3>2 DEF File
  <2>3. CASE ~h.shared
    BY <1>2, <2>3 DEF Seen
  <2>4. QED
    BY <2>2, <2>3
<1>4. th' = [th EXCEPT ![t] = [h EXCEPT !.pc = "save", !.fired = F,
                               !.data = WithFired(h.data, F, level, bar)]]
  BY DEF FireAll
<1>5. /\ th'[t].pc = "save" /\ th'[t].op = h.op /\ th'[t].fired = F
      /\ th'[t].about = {} /\ th'[t].shared = h.shared
      /\ th'[t].data = WithFired(Shown, F, level, bar)
      /\ \A u \in Threads : u # t => th'[u] = th[u] /\ Idle(u)
  BY <1>1, <1>2, <1>4 DEF Thread, TypeOK, Alone
<1>6. Pending = {} /\ Pending' = IF h.shared THEN F ELSE {}
  <2>1. Pending = {}
    BY <1>2, <1>5 DEF Pending
  <2>2. \A u \in Threads : ~Idle(u)' <=> u = t
    BY <1>5 DEF Idle
  <2>3. Pending' = IF h.shared THEN F ELSE {}
    BY <1>5, <2>2 DEF Pending
  <2>4. QED
    BY <2>1, <2>3
<1>7. Recorded /\ Bounded(reports, armings, Shown)
      /\ Counted(reports, {}) = reports
  BY <1>1, <1>6, CountedNone DEF Alone, TypeOK
<1>8. ASSUME Recorded', Bounded(Counted(reports, Pending'), armings, Shown'),
             Works(th'[t], Shown', deleted)
      PROVE  Alone'
  <2>1. Bounded(Counted(reports, Pending), armings, Shown)'
    BY <1>8
  <2>2. \A u, v \in Threads : ~Idle(u)' /\ ~Idle(v)' => u = v
    BY <1>5 DEF Idle
  <2>3. \A u \in Threads : ~Idle(u)' =>
          th'[u].shared = ~present' /\ Works(th'[u], Shown', deleted')
    BY <1>2, <1>5, <1>8 DEF Idle
  <2>4. QED
    BY <1>8, <2>1, <2>2, <2>3 DEF Alone
<1> HIDE DEF h
<1>9. CASE h.shared
  <2>1. \A a \in F : default[a].there
    BY <1>2, <1>3, <1>9 DEF Active, Shown
  <2>2. {a \in F : default[a].there} = F
    BY <2>1
  <2>3. Shown' = WithFired(Shown, F, level, bar)
    BY <1>2, <1>9, <2>2 DEF Shown, FireAll, h
  <2>4. Effect(h.op, {}, F)
    BY <1>2, <1>3, <2>3 DEF Effect
  <2>5. Recorded' /\ Bounded(Counted(reports, F), armings', Shown')
    BY <1>7, <2>4, EffectKeeps
  <2>6. Works(th'[t], Shown', deleted)
    BY <1>2, <1>5, <1>9 DEF Works, Shares
  <2>7. QED
    BY <1>6, <1>8, <1>9, <2>4, <2>5, <2>6 DEF Moves
<1>10. CASE ~h.shared
  <2>1. Shown' = Shown
    BY <1>2, <1>10 DEF Shown
  <2>2. Recorded'
    BY <1>7, <2>1 DEF Recorded
  <2>3. \E l, b : th'[t].data = WithFired(Shown, F, l, b)
    BY <1>5
  <2>4. Copy(th'[t], Shown, deleted)
    BY <1>2, <1>3, <1>5, <2>3 DEF Copy
  <2>5. QED
    BY <1>5, <1>6, <1>7, <1>8, <1>10, <2>1, <2>2, <2>4 DEF Works, Moves
<1>11. QED
  BY <1>9, <1>10

\* A save that runs alone.
LEMMA SaveAlone ==
  ASSUME TypeOK, AloneInv, DrawnInv, ~overlapped, NEW t \in Threads, Save(t)
  PROVE  Alone' /\ Moves
<1> DEFINE h == th[t]
<1>1. Alone /\ ~Idle(t) /\ h.op \in Op /\ h.pc = "save"
  BY DEF AloneInv, Idle, Save, TypeOK, Thread
<1>2. \A u \in Threads : Idle(u)' /\ (u # t => Idle(u))
  <2>1. \A u \in Threads : u # t => Idle(u)
    BY <1>1 DEF Alone
  <2>2. \A u \in Threads : th'[u] = IF u = t THEN NoRequest ELSE th[u]
    BY DEF Save, TypeOK
  <2>3. QED
    BY <2>1, <2>2 DEF Idle, NoRequest
<1>3. /\ reports' = Counted(reports, h.fired) /\ issued' = issued
      /\ answered' = IF h.op = "delete" THEN answered ELSE answered \union h.about
      /\ Shown' = Doc(t)
  BY DEF Save, Shown
<1>4. Pending = (IF h.shared THEN h.fired ELSE {}) /\ Pending' = {}
  <2>1. Pending' = {}
    BY <1>2 DEF Pending
  <2>2. Pending = IF h.shared THEN h.fired ELSE {}
    BY <1>1, <1>2 DEF Pending
  <2>3. QED
    BY <2>1, <2>2
<1>5. /\ reports \in [Alerts -> Nat] /\ Counted(reports, {}) = reports
      /\ reports' \in [Alerts -> Nat] /\ Counted(reports', {}) = reports'
  BY <1>3, CountedType, CountedNone DEF TypeOK
<1>6. Recorded /\ Works(h, Shown, deleted) /\ h.shared = ~present
  BY <1>1 DEF Alone
<1>7. ASSUME Recorded', Bounded(reports', armings', Shown')
      PROVE  Alone'
  <2>1. Bounded(Counted(reports, Pending), armings, Shown)'
    BY <1>4, <1>5, <1>7
  <2>2. QED
    BY <1>2, <1>7, <2>1 DEF Alone
<1>8. CASE h.shared
  <2>1. Shown' = Shown /\ UNCHANGED <<deleted, armings>>
    BY <1>3, <1>6, <1>8 DEF Save, Doc, Shown
  <2>2. Recorded'
    BY <1>3, <1>6, <2>1 DEF Recorded
  <2>3. Bounded(reports', armings', Shown')
    BY <1>1, <1>3, <1>4, <1>8, <2>1 DEF Alone
  <2>4. \/ answered' = answered
        \/ \E a \in Alerts : Shown[a].there /\ answered' = answered \union {a}
    <3>1. Shares(h, Shown)
      BY <1>6, <1>8 DEF Works
    <3>2. CASE h.op \in Passes
      BY <1>3, <3>1, <3>2 DEF Shares
    <3>3. CASE h.op \notin Passes
      BY <1>3, <3>1, <3>3 DEF Shares
    <3>4. QED
      BY <3>2, <3>3
  <2>5. QED
    BY <1>7, <2>1, <2>2, <2>3, <2>4 DEF Moves
<1>9. CASE ~h.shared
  <2>1. Copy(h, Shown, deleted) /\ Shown' = h.data /\ TakesEffect(h.op, h.about)
    BY <1>3, <1>6, <1>9 DEF Works, Save, Doc
  <2>2. h.op = "create" => h.about \subseteq issued'
    BY <1>3 DEF DrawnInv
  <2> HIDE DEF h
  <2>3. Effect(h.op, h.about, h.fired)
    BY <1>1, <2>1, <2>2, CopyTakesEffect
  <2>4. Bounded(reports, armings, Shown)
    BY <1>1, <1>4, <1>5, <1>9 DEF Alone
  <2>5. Recorded' /\ Bounded(Counted(reports, h.fired), armings', Shown')
    BY <1>3, <1>6, <2>3, <2>4, EffectKeeps
  <2>6. answered' \in {answered, answered \union IF h.op = "delete" THEN {} ELSE h.about}
    BY <1>3
  <2>7. QED
    BY <1>3, <1>7, <2>3, <2>5, <2>6 DEF Moves
<1>10. QED
  BY <1>8, <1>9

\* A request that fails, or a crash: what is shown stays, or nothing had been
\* answered.
LEMMA StopAlone ==
  ASSUME TypeOK, AloneInv, DrawnInv, ~overlapped, NEW T, Stop(T),
         default' = default \/ (default' = Empty /\ T = Threads)
  PROVE  Alone' /\ Moves
<1>1. \A u \in Threads : th'[u] = th[u] \/ (th'[u] = NoRequest /\ Idle(u)')
  BY DEF Stop, Idle, NoRequest
<1>2. Alone
  BY DEF AloneInv
<1>3. UNCHANGED <<file, present, issued, deleted, answered, armings, reports>>
  BY DEF Stop
<1>4. \A u, v \in Threads : ~Idle(u)' /\ ~Idle(v)' => u = v
  BY <1>1, <1>2 DEF Alone, Idle
<1>5. \A u \in Threads : ~Idle(u)' => ~Idle(u) /\ th'[u] = th[u]
  BY <1>1 DEF Idle
<1>6. Pending' \subseteq Pending
  <2>1. SUFFICES ASSUME NEW u \in Threads, ~Idle(u)', th'[u].shared, NEW a \in th'[u].fired
                 PROVE  a \in Pending
    BY DEF Pending
  <2>2. QED
    BY <1>5, <2>1 DEF Pending
<1>7. ASSUME NEW s, \A a \in Alerts : s[a] = Shown[a] \/ ~s[a].there
      PROVE  Bounded(Counted(reports, Pending'), armings, s)
  <2>1. SUFFICES ASSUME NEW a \in Alerts
                 PROVE  /\ Counted(reports, Pending')[a] <= armings[a]
                        /\ s[a].there /\ ~s[a].triggered
                             => Counted(reports, Pending')[a] < armings[a]
    BY DEF Bounded
  <2>2. Counted(reports, Pending')[a] <= Counted(reports, Pending)[a]
    BY <1>6 DEF Counted, TypeOK
  <2>3. /\ Counted(reports, Pending)[a] \in Nat
        /\ Counted(reports, Pending')[a] \in Nat /\ armings[a] \in Nat
    BY CountedType DEF TypeOK
  <2>4. QED
    BY <1>2, <1>7, <2>2, <2>3 DEF Alone, Bounded
<1>8. CASE Shown' = Shown
  <2>1. Recorded'
    BY <1>2, <1>3, <1>8 DEF Alone, Recorded
  <2>2. Bounded(Counted(reports, Pending), armings, Shown)'
    BY <1>3, <1>7, <1>8
  <2>3. \A u \in Threads : ~Idle(u)' =>
          th'[u].shared = ~present' /\ Works(th'[u], Shown', deleted')
    BY <1>2, <1>3, <1>5, <1>8 DEF Alone
  <2>4. QED
    BY <1>3, <1>4, <1>8, <2>1, <2>2, <2>3 DEF Alone, Moves
<1>9. CASE Shown' # Shown
  <2>1. ~present /\ Shown' = Empty /\ T = Threads
    BY <1>3, <1>9 DEF Shown
  <2>2. \A a \in Alerts : Shown'[a] = NoEntry /\ ~Shown'[a].there
    BY <2>1 DEF Empty, NoEntry
  <2>3. Recorded'
    BY <1>2, <1>3, <2>2 DEF Alone, Recorded
  <2>4. Bounded(Counted(reports, Pending), armings, Shown)'
    BY <1>3, <1>7, <2>2
  <2>5. \A u \in Threads : Idle(u)'
    BY <2>1 DEF Stop, Idle, NoRequest
  <2>6. answered = {}
    BY <2>1 DEF DrawnInv
  <2>7. QED
    BY <1>3, <2>1, <2>3, <2>4, <2>5, <2>6 DEF Alone, Moves
<1>10. QED
  BY <1>8, <1>9

\* No step forgets an overlap.
LEMMA OverlapStays == [Next]_vars => (overlapped => overlapped')
<1> SUFFICES ASSUME [Next]_vars, overlapped
             PROVE  overlapped'
  OBVIOUS
<1>1. ASSUME NEW t \in Threads, Starts(t)
      PROVE  overlapped'
  <2>1. PICK pc, op, about, data : Start(t, pc, op, about, data)
    BY <1>1 DEF Starts, CreateConditionalAlert, UpdateConditionalAlert,
                DeleteConditionalAlert, EvaluateConditionalAlerts,
                EvaluateCloseAlerts
  <2>2. QED
    BY <2>1 DEF Start
<1>2. ASSUME NEW t \in Threads, LiveQuotes(t) \/ DailyClose(t)
      PROVE  overlapped'
  BY <1>2 DEF LiveQuotes, DailyClose
<1>3. ASSUME NEW t \in Threads, Save(t)
      PROVE  overlapped'
  BY <1>3 DEF Save
<1>4. CASE Crash \/ \E t \in Threads : RequestFails(t)
  BY <1>4 DEF Crash, RequestFails, Stop
<1>5. CASE UNCHANGED vars
  BY <1>5 DEF vars
<1>6. QED
  BY <1>1, <1>2, <1>3, <1>4, <1>5 DEF Next, Request, Starts

\* A step of the requests that run alone.
LEMMA StepAlone ==
  ASSUME TypeOK, AloneInv, DrawnInv, [Next]_vars
  PROVE  AloneInv' /\ DrawnInv' /\ (~overlapped' => Moves)
<1>1. overlapped => overlapped'
  BY OverlapStays
<1>2. SUFFICES DrawnInv' /\ (~overlapped' => Alone' /\ Moves)
  BY DEF AloneInv
<1>3. ASSUME NEW t \in Threads, Starts(t)
      PROVE  DrawnInv' /\ (~overlapped' => Alone' /\ Moves)
  <2>1. PICK pc, op, about, data : Start(t, pc, op, about, data)
    BY <1>3 DEF Starts, CreateConditionalAlert, UpdateConditionalAlert,
                DeleteConditionalAlert, EvaluateConditionalAlerts,
                EvaluateCloseAlerts
  <2>2. issued \subseteq issued'
    BY <1>3 DEF Starts, CreateConditionalAlert, UpdateConditionalAlert,
                DeleteConditionalAlert, EvaluateConditionalAlerts,
                EvaluateCloseAlerts
  <2>3. th'[t].op = "create" => th'[t].about \subseteq issued'
    <3>1. ASSUME NEW p, NEW o, NEW s, NEW d, Start(t, p, o, s, d)
          PROVE  th'[t].op = o /\ th'[t].about = s
      BY <3>1 DEF Start, TypeOK
    <3>2. ASSUME NEW a \in Alerts, CreateConditionalAlert(t, a)
          PROVE  th'[t].about \subseteq issued'
      BY <3>1, <3>2 DEF CreateConditionalAlert
    <3>3. ASSUME NEW a \in Alerts,
                 UpdateConditionalAlert(t, a) \/ DeleteConditionalAlert(t, a)
          PROVE  th'[t].op # "create"
      BY <3>1, <3>3 DEF UpdateConditionalAlert, DeleteConditionalAlert
    <3>4. CASE EvaluateConditionalAlerts(t) \/ EvaluateCloseAlerts(t)
      BY <3>1, <3>4 DEF EvaluateConditionalAlerts, EvaluateCloseAlerts
    <3>5. QED
      BY <1>3, <3>2, <3>3, <3>4 DEF Starts
  <2>4. \A u \in Threads : u # t => th'[u] = th[u]
    BY <2>1 DEF Start, TypeOK
  <2>5. UNCHANGED <<answered, present>>
    BY <2>1 DEF Start
  <2>6. DrawnInv'
    BY <2>2, <2>3, <2>4, <2>5 DEF DrawnInv
  <2>7. QED
    BY <1>3, <2>6, RequestsStartAlone
<1>4. ASSUME NEW t \in Threads, LiveQuotes(t) \/ DailyClose(t)
      PROVE  DrawnInv' /\ (~overlapped' => Alone' /\ Moves)
  <2>1. PICK d \in Seen(t) : \E F, level, bar :
          FireAll(t, F, level, bar) /\ F \subseteq Active(d)
    <3>1. CASE LiveQuotes(t)
      <4>1. PICK d \in Seen(t), level \in [Alerts -> Levels \union {0}] : FireAll(t,
              WithPositions({a \in Intraday(d) : Meets(a, d[a].thr, level[a])}),
              level, "none")
        BY <3>1 DEF LiveQuotes
      <4>2. WithPositions({a \in Intraday(d) : Meets(a, d[a].thr, level[a])})
              \subseteq Active(d)
        BY DEF WithPositions, Intraday
      <4>3. QED
        BY <4>1, <4>2
    <3>2. CASE DailyClose(t)
      <4> DEFINE fired(d, close, bar) ==
                   IF bar = "none" THEN {}
                   ELSE {a \in OnBar(d, bar) : Meets(a, d[a].thr, close)}
      <4>1. PICK d \in Seen(t), close \in Levels,
                 bar \in {"none", "weekday", "friday"} :
              FireAll(t, fired(d, close, bar), [a \in Alerts |-> close], bar)
        BY <3>2 DEF DailyClose
      <4>2. fired(d, close, bar) \subseteq Active(d)
        BY DEF OnBar
      <4> HIDE DEF fired
      <4>3. QED
        BY <4>1, <4>2
    <3>3. QED
      BY <1>4, <3>1, <3>2
  <2>2. PICK F, level, bar : FireAll(t, F, level, bar) /\ F \subseteq Active(d)
    BY <2>1
  <2>3. /\ th[t].pc \in {"quotes", "bar"}
        /\ UNCHANGED <<file, present, issued, deleted, answered, armings, reports,
                       overlapped>>
    BY <1>4 DEF LiveQuotes, DailyClose
  <2>4. \A u \in Threads : th'[u].op = th[u].op /\ th'[u].about = th[u].about
    BY <2>2 DEF FireAll, TypeOK, Thread
  <2>5. DrawnInv'
    BY <2>3, <2>4 DEF DrawnInv
  <2>6. QED
    BY <2>2, <2>3, <2>5, PassAlone
<1>5. ASSUME NEW t \in Threads, Save(t)
      PROVE  DrawnInv' /\ (~overlapped' => Alone' /\ Moves)
  <2>1. \A u \in Threads : th'[u] = NoRequest \/ th'[u] = th[u]
    BY <1>5 DEF Save, TypeOK
  <2>2. DrawnInv'
    BY <1>5, <2>1 DEF DrawnInv, NoRequest, Save
  <2>3. QED
    BY <1>1, <1>5, <2>2, SaveAlone
<1>6. ASSUME NEW T, Stop(T),
             default' = default \/ (default' = Empty /\ T = Threads)
      PROVE  DrawnInv' /\ (~overlapped' => Alone' /\ Moves)
  <2>1. \A u \in Threads : th'[u] = NoRequest \/ th'[u] = th[u]
    BY <1>6 DEF Stop
  <2>2. DrawnInv'
    BY <1>6, <2>1 DEF DrawnInv, NoRequest, Stop
  <2>3. QED
    BY <1>1, <1>6, <2>2, StopAlone
<1>7. ASSUME UNCHANGED vars
      PROVE  DrawnInv' /\ (~overlapped' => Alone' /\ Moves)
  <2>1. UNCHANGED <<file, present, default, th, issued, deleted, answered,
                    armings, reports, overlapped>>
    BY <1>7 DEF vars
  <2>2. Shown' = Shown /\ Pending' = Pending
    BY <2>1 DEF Shown, Pending, Idle
  <2>3. DrawnInv'
    BY <2>1 DEF DrawnInv
  <2>4. Recorded => Recorded'
    BY <2>1, <2>2 DEF Recorded
  <2>5. Alone => Alone'
    BY <2>1, <2>2, <2>4 DEF Alone, Idle
  <2>6. QED
    BY <2>1, <2>2, <2>3, <2>5 DEF AloneInv, Moves
<1>8. ASSUME NEW t \in Threads, RequestFails(t)
      PROVE  DrawnInv' /\ (~overlapped' => Alone' /\ Moves)
  BY <1>6, <1>8 DEF RequestFails
<1>9. CASE Crash
  BY <1>6, <1>9 DEF Crash
<1>10. QED
  BY <1>3, <1>4, <1>5, <1>7, <1>8, <1>9 DEF Next, Request, Starts

\* The initial state.
LEMMA InitAlone == Init => AloneInv /\ DrawnInv
<1> SUFFICES ASSUME Init
             PROVE  AloneInv /\ DrawnInv
  OBVIOUS
<1>1. \A t \in Threads : Idle(t) /\ th[t].about = {}
  BY DEF Init, Idle, NoRequest
<1>2. Shown = Empty /\ \A a \in Alerts : Shown[a] = NoEntry /\ ~Shown[a].there
  BY DEF Init, Shown, Empty, NoEntry
<1>3. Pending = {}
  BY <1>1 DEF Pending
<1>4. \A a \in Alerts : Counted(reports, Pending)[a] = 0 /\ armings[a] = 0
  BY <1>3 DEF Init, Counted
<1>5. Recorded /\ Bounded(Counted(reports, Pending), armings, Shown)
  BY <1>2, <1>4 DEF Init, Recorded, Bounded
<1>6. QED
  BY <1>1, <1>5 DEF Init, AloneInv, Alone, DrawnInv

\* The invariant of the requests that run alone.
LEMMA AloneAlways == Spec => [](TypeOK /\ AloneInv /\ DrawnInv)
<1>1. TypeOK /\ (AloneInv /\ DrawnInv) /\ [Next]_vars => (AloneInv /\ DrawnInv)'
  BY StepAlone
<1>2. QED
  BY <1>1, InitAlone, TypeCorrect, PTL DEF Spec

\* Without overlapping requests no alert is reported twice for one arming: a
\* crash after the save or before it, a failed save, its trace in the default
\* object and a second pass included.
THEOREM ReportedOnceAlone == Spec => []ReportedOncePerArming
<1>1. TypeOK /\ AloneInv => ReportedOncePerArming
  <2> SUFFICES ASSUME TypeOK, Alone, NEW a \in Alerts
               PROVE  reports[a] <= armings[a]
    BY DEF AloneInv, ReportedOncePerArming
  <2>1. Counted(reports, Pending)[a] <= armings[a]
    BY DEF Alone, Bounded
  <2>2. /\ Counted(reports, Pending)[a] \in {reports[a], reports[a] + 1}
        /\ reports[a] \in Nat /\ armings[a] \in Nat
    BY CountedType DEF TypeOK
  <2>3. QED
    BY <2>1, <2>2
<1>2. QED
  BY <1>1, AloneAlways, PTL

-----------------------------------------------------------------------------
(***************************************************************************)
(* The refinement.  Phase is spelled out for an alert that is recorded,    *)
(* and each move of the requests that run alone is one step of the         *)
(* lifecycle.                                                              *)
(***************************************************************************)

\* The phase of an alert that is recorded.
LEMMA PhaseOf ==
  ASSUME Recorded, NEW a \in Alerts, Shown[a] \in Entry
  PROVE  /\ Shown[a] = NoEntry /\ a \notin deleted => Phase(a) = "none"
         /\ a \in deleted => Phase(a) = "gone"
         /\ Shown[a].there /\ Shown[a].triggered => Phase(a) = "fired"
         /\ Shown[a].there /\ ~Shown[a].triggered => Phase(a) = "armed"
         /\ Shown[a].there \/ Shown[a] = NoEntry
         /\ Shown[a] = NoEntry => ~Shown[a].there
<1>1. Shown[a].there => a \notin deleted
  BY DEF Recorded, NoEntry
<1>2. Shown[a] = NoEntry => ~Shown[a].there /\ ~Shown[a].triggered
  BY DEF NoEntry
<1>3. Shown[a].there \/ Shown[a] = NoEntry
  BY DEF Recorded
<1>4. QED
  BY <1>1, <1>2, <1>3 DEF Phase

\* An effect is a step of the lifecycle.
LEMMA EffectRefines ==
  ASSUME TypeOK, TypeOK', Recorded, Recorded', NEW op, NEW about, NEW fired,
         Effect(op, about, fired),
         answered' \in {answered, answered \union IF op = "delete" THEN {} ELSE about}
  PROVE  Lifecycle!Next
<1> DEFINE phase == [a \in Alerts |-> Phase(a)]
           snz == [a \in Alerts |-> Shown[a].snoozed]
<1>1. Recorded /\ Recorded'
  OBVIOUS
<1>2. \A a \in Alerts : Shown[a] \in Entry /\ Shown'[a] \in Entry
  <2>1. Shown' \in File
    BY DEF TypeOK, Shown
  <2>2. QED
    BY <2>1, ShownType DEF File
<1>3. Shown \in File
  BY ShownType
<1>4. \A a \in Alerts :
        /\ Shown'[a] = NoEntry /\ a \notin deleted' => Phase(a)' = "none"
        /\ a \in deleted' => Phase(a)' = "gone"
        /\ Shown'[a].there /\ Shown'[a].triggered => Phase(a)' = "fired"
        /\ Shown'[a].there /\ ~Shown'[a].triggered => Phase(a)' = "armed"
  <2>1. ASSUME NEW a \in Alerts
        PROVE  /\ Shown'[a].there => a \notin deleted'
               /\ Shown'[a] = NoEntry => ~Shown'[a].there /\ ~Shown'[a].triggered
    BY <1>1 DEF Recorded, NoEntry
  <2>2. QED
    BY <2>1 DEF Phase
<1>5. \A a \in Alerts : Shown'[a] = Shown[a] /\ (a \in deleted' <=> a \in deleted)
        => Phase(a)' = Phase(a)
  BY DEF Phase
<1>6. CASE /\ op \in Passes /\ about = {}
           /\ fired \subseteq Active(Shown)
           /\ \E level, bar : Shown' = WithFired(Shown, fired, level, bar)
           /\ UNCHANGED <<deleted, armings>>
  <2>1. PICK level, bar : Shown' = WithFired(Shown, fired, level, bar)
    BY <1>6
  <2>2. \A a \in Alerts :
          Shown'[a] = IF a \in fired THEN FireEntry(Shown[a], level[a], bar)
                                      ELSE Shown[a]
    BY <2>1 DEF WithFired
  <2>3. \A a \in fired : a \in Alerts /\ Shown[a].there /\ ~Shown[a].triggered
                          /\ ~Shown[a].snoozed
    BY <1>6 DEF Active
  <2>4. \A a \in fired : Shown'[a].there /\ Shown'[a].triggered
                          /\ Shown'[a].snoozed = Shown[a].snoozed
    <3>1. \A e \in Entry : \A l, b :
            /\ FireEntry(e, l, b).there = e.there
            /\ FireEntry(e, l, b).snoozed = e.snoozed
            /\ FireEntry(e, l, b).triggered = TRUE
      BY DEF FireEntry, Entry
    <3>2. QED
      BY <1>2, <2>2, <2>3, <3>1
  <2>5. \A a \in fired : Phase(a) = "armed" /\ Phase(a)' = "fired"
    BY <1>1, <1>2, <1>4, <2>3, <2>4, PhaseOf
  <2>6. \A a \in Alerts \ fired : Phase(a)' = Phase(a)
    BY <1>5, <1>6, <2>2
  <2>7. snz' = snz
    BY <2>2, <2>4
  <2>8. phase' = [a \in Alerts |-> IF a \in fired THEN "fired" ELSE phase[a]]
    BY <2>5, <2>6
  <2>9. Lifecycle!Fire(fired)
    BY <1>6, <2>3, <2>5, <2>7, <2>8 DEF Lifecycle!Fire
  <2>10. fired \in SUBSET Alerts
    BY <2>3
  <2>11. QED
    BY <2>9, <2>10 DEF Lifecycle!Next
<1>7. ASSUME NEW a \in Alerts, NEW e \in Entry, Shown' = [Shown EXCEPT ![a] = e],
             deleted' \in {deleted, deleted \union {a}}
      PROVE  /\ Shown'[a] = e
             /\ phase' = [phase EXCEPT ![a] = Phase(a)']
             /\ snz' = [snz EXCEPT ![a] = e.snoozed]
  <2>1. \A x \in Alerts : Shown'[x] = IF x = a THEN e ELSE Shown[x]
    BY <1>3, <1>7 DEF File
  <2>2. \A x \in Alerts \ {a} : Phase(x)' = Phase(x)
    BY <1>5, <1>7, <2>1
  <2>3. QED
    BY <2>1, <2>2
<1>8. ASSUME NEW a \in Alerts, Shown[a] = NoEntry, a \notin deleted,
             NEW thr \in Thresholds, Shown' = [Shown EXCEPT ![a] = NewEntry(thr)],
             UNCHANGED deleted, answered' \in {answered, answered \union {a}}
      PROVE  Lifecycle!Create(a)
  <2>1. /\ NewEntry(thr) \in Entry /\ NewEntry(thr).there
        /\ ~NewEntry(thr).triggered /\ NewEntry(thr).snoozed = FALSE
    BY DEF NewEntry, NoEntry, Entry
  <2>2. Phase(a) = "none"
    BY <1>1, <1>2, <1>8, PhaseOf
  <2>3. phase' = [phase EXCEPT ![a] = Phase(a)'] /\ Shown'[a] = NewEntry(thr)
        /\ snz' = [snz EXCEPT ![a] = NewEntry(thr).snoozed]
    <3> HIDE DEF phase, snz
    <3>1. QED
      BY <1>7, <1>8, <2>1
  <2>4. Phase(a)' = "armed"
    BY <1>4, <2>1, <2>3
  <2>5. snz[a] = FALSE
    BY <1>8 DEF NoEntry
  <2>6. snz' = snz
    BY <2>1, <2>3, <2>5
  <2>7. QED
    BY <1>8, <2>2, <2>3, <2>4, <2>6 DEF Lifecycle!Create, Lifecycle!MayAnswer
<1>9. ASSUME NEW a \in Alerts, Shown[a].there, NEW e \in Entry, e.there,
             Shown' = [Shown EXCEPT ![a] = e], UNCHANGED deleted,
             ~e.triggered \/ e.triggered = Shown[a].triggered,
             answered' \in {answered, answered \union {a}}
      PROVE  Lifecycle!Change(a)
  <2>1. phase' = [phase EXCEPT ![a] = Phase(a)'] /\ Shown'[a] = e
        /\ snz' = [snz EXCEPT ![a] = e.snoozed]
    BY <1>7, <1>9
  <2>2. Phase(a) \in {"armed", "fired"}
    BY <1>1, <1>2, <1>9, PhaseOf
  <2>3. Phase(a)' = "armed" \/ Phase(a)' = Phase(a)
    <3>1. CASE ~e.triggered
      BY <1>4, <1>9, <2>1, <3>1
    <3>2. CASE e.triggered /\ e.triggered = Shown[a].triggered
      BY <1>1, <1>2, <1>4, <1>9, <2>1, <3>2, PhaseOf
    <3>3. QED
      BY <1>9, <3>1, <3>2
  <2>4. phase' \in {phase, [phase EXCEPT ![a] = "armed"]}
    BY <2>1, <2>3
  <2>5. e.snoozed \in BOOLEAN
    BY DEF Entry
  <2>6. \E b \in BOOLEAN : snz' = [snz EXCEPT ![a] = b]
    BY <2>1, <2>5
  <2>7. QED
    BY <1>9, <2>2, <2>4, <2>6
       DEF Lifecycle!Change, Lifecycle!Live, Lifecycle!MayAnswer
<1>10. ASSUME NEW a \in Alerts, Shown[a].there, Shown' = [Shown EXCEPT ![a] = NoEntry],
              deleted' = deleted \union {a}, UNCHANGED answered
       PROVE  Lifecycle!Delete(a)
  <2>1. NoEntry \in Entry /\ NoEntry.snoozed = FALSE
    BY NoRequestType DEF NoEntry
  <2>2. phase' = [phase EXCEPT ![a] = Phase(a)']
        /\ snz' = [snz EXCEPT ![a] = NoEntry.snoozed]
    <3> HIDE DEF phase, snz
    <3>1. QED
      BY <1>7, <1>10, <2>1
  <2>3. Phase(a) \in {"armed", "fired"} /\ Phase(a)' = "gone"
    BY <1>1, <1>2, <1>4, <1>10, PhaseOf
  <2>4. QED
    BY <1>10, <2>1, <2>2, <2>3 DEF Lifecycle!Delete, Lifecycle!Live
<1>11. ASSUME NEW a \in Alerts, NEW b \in BOOLEAN, Shown[a].there,
              Shown' = [Shown EXCEPT ![a] = Snoozed(Shown[a], b)], UNCHANGED deleted,
              answered' \in {answered, answered \union {a}}
       PROVE  Lifecycle!Change(a)
  <2>1. /\ Snoozed(Shown[a], b) \in Entry /\ Snoozed(Shown[a], b).there
        /\ Snoozed(Shown[a], b).triggered = Shown[a].triggered
    BY <1>2, <1>11 DEF Snoozed, Entry
  <2>2. QED
    BY <1>9, <1>11, <2>1
<1>12. ASSUME NEW a \in Alerts, NEW b \in BOOLEAN, NEW thr \in Thresholds,
              Shown[a].there, UNCHANGED deleted,
              answered' \in {answered, answered \union {a}},
              Shown' = [Shown EXCEPT ![a] = Rearmed(Snoozed(Shown[a], b), thr)]
       PROVE  Lifecycle!Change(a)
  <2>1. /\ Rearmed(Snoozed(Shown[a], b), thr) \in Entry
        /\ Rearmed(Snoozed(Shown[a], b), thr).there
        /\ ~Rearmed(Snoozed(Shown[a], b), thr).triggered
    <3>1. Snoozed(Shown[a], b) \in Entry /\ Snoozed(Shown[a], b).there
      BY <1>2, <1>12 DEF Snoozed, Entry
    <3>2. \A e \in Entry : /\ Rearmed(e, thr) \in Entry
                           /\ Rearmed(e, thr).there = e.there
                           /\ ~Rearmed(e, thr).triggered
      BY DEF Rearmed, Entry
    <3>3. QED
      BY <3>1, <3>2
  <2>2. QED
    BY <1>9, <1>12, <2>1
<1>13. ASSUME NEW a \in Alerts,
              Lifecycle!Create(a) \/ Lifecycle!Change(a) \/ Lifecycle!Delete(a)
       PROVE  Lifecycle!Next
  BY <1>13 DEF Lifecycle!Next
<1> HIDE DEF phase, snz
<1>14. CASE op = "rearm"
  <2>1. PICK a \in Alerts, b \in BOOLEAN, thr \in Thresholds :
          /\ about = {a} /\ Shown[a].there /\ UNCHANGED deleted
          /\ Shown' = [Shown EXCEPT ![a] = Rearmed(Snoozed(Shown[a], b), thr)]
    BY <1>14 DEF Effect, Passes
  <2>2. QED
    BY <1>12, <1>13, <1>14, <2>1
<1>15. CASE op = "patch"
  <2>1. PICK a \in Alerts, b \in BOOLEAN :
          /\ about = {a} /\ Shown[a].there /\ UNCHANGED deleted
          /\ Shown' = [Shown EXCEPT ![a] = Snoozed(Shown[a], b)]
    BY <1>15 DEF Effect, Passes
  <2>2. QED
    BY <1>11, <1>13, <1>15, <2>1
<1>16. CASE op = "create"
  <2>1. PICK a \in Alerts, thr \in Thresholds :
          /\ about = {a} /\ Shown[a] = NoEntry /\ a \notin deleted
          /\ UNCHANGED deleted /\ Shown' = [Shown EXCEPT ![a] = NewEntry(thr)]
    BY <1>16 DEF Effect, Passes
  <2>2. QED
    BY <1>8, <1>13, <1>16, <2>1
<1>17. CASE op = "delete"
  <2>1. PICK a \in Alerts :
          /\ Shown[a].there /\ Shown' = [Shown EXCEPT ![a] = NoEntry]
          /\ deleted' = deleted \union {a}
    BY <1>17 DEF Effect, Passes
  <2>2. QED
    BY <1>10, <1>13, <1>17, <2>1
<1>18. CASE op \in Passes
  BY <1>6, <1>18 DEF Effect, Passes
<1>19. QED
  BY <1>14, <1>15, <1>16, <1>17, <1>18 DEF Effect

\* A restart before anything was answered is a step of the lifecycle.
LEMMA RestartRefines ==
  ASSUME TypeOK, Recorded, Recorded', Shown' = Empty, answered = {},
         deleted' = deleted, answered' = answered
  PROVE  [Lifecycle!Next]_(Lifecycle!vars)
<1> DEFINE phase == [a \in Alerts |-> Phase(a)]
           snz == [a \in Alerts |-> Shown[a].snoozed]
<1> PICK F \in SUBSET Alerts : F = {a \in Alerts : Shown[a].there}
  OBVIOUS
<1>1. \A a \in Alerts : Shown[a] \in Entry /\ Shown'[a] = NoEntry /\ NoEntry \in Entry
  BY ShownType, NoRequestType DEF File, Empty
<1>2. \A a \in Alerts : Phase(a)' = IF a \in deleted THEN "gone" ELSE "none"
  BY <1>1 DEF Phase, NoEntry
<1>3. \A a \in F : Phase(a) \in {"armed", "fired"} /\ a \notin deleted
  BY <1>1, PhaseOf DEF Recorded, NoEntry
<1>4. \A a \in Alerts \ F : Phase(a)' = Phase(a) /\ Shown[a].snoozed = FALSE
  <2>1. \A a \in Alerts \ F : Shown[a] = NoEntry
    BY DEF Recorded
  <2>2. QED
    BY <1>1, <1>2, <2>1, PhaseOf DEF NoEntry
<1>5. phase' = [a \in Alerts |-> IF a \in F THEN "none" ELSE phase[a]]
  BY <1>2, <1>3, <1>4
<1>6. snz' = [a \in Alerts |-> a \notin F /\ snz[a]]
  <2>1. \A a \in Alerts : Shown'[a].snoozed = FALSE
    BY <1>1 DEF NoEntry
  <2>2. \A a \in Alerts : (a \notin F /\ Shown[a].snoozed) = FALSE
    BY <1>4
  <2>3. QED
    BY <2>1, <2>2
<1>7. Lifecycle!Restart(F)
  BY <1>3, <1>5, <1>6 DEF Lifecycle!Restart, Lifecycle!Live
<1> HIDE DEF phase, snz
<1>8. Lifecycle!Next
  BY <1>7 DEF Lifecycle!Next
<1>9. QED
  BY <1>8

\* Without overlapping requests the alerts implement their lifecycle: created
\* once, fired only armed and unsnoozed, armed again only by a new threshold,
\* gone for good when deleted, and lost by a restart only when no request about
\* them was answered.
THEOREM LifecycleImplemented == Spec => ImplementsLifecycle
<1>1. Init => Lifecycle!Init
  <2> SUFFICES ASSUME Init
               PROVE  Lifecycle!Init
    OBVIOUS
  <2>1. \A a \in Alerts : Phase(a) = "none" /\ Shown[a].snoozed = FALSE
    BY DEF Init, Phase, Shown, Empty, NoEntry
  <2>2. answered = {}
    BY DEF Init
  <2>3. QED
    BY <2>1, <2>2 DEF Lifecycle!Init
<1>2. TypeOK /\ TypeOK' /\ AloneInv /\ AloneInv' /\ DrawnInv /\ [Next]_vars
        => (~overlapped' => [Lifecycle!Next]_(Lifecycle!vars))
  <2> SUFFICES ASSUME TypeOK, TypeOK', AloneInv, AloneInv', DrawnInv, [Next]_vars,
                      ~overlapped'
               PROVE  [Lifecycle!Next]_(Lifecycle!vars)
    OBVIOUS
  <2>1. ~overlapped
    BY OverlapStays
  <2>2. Moves /\ Recorded /\ Recorded'
    BY <2>1, StepAlone DEF AloneInv, Alone
  <2>3. CASE \E op, about, fired :
               /\ Effect(op, about, fired)
               /\ answered' \in {answered, answered \union IF op = "delete" THEN {} ELSE about}
    BY <2>2, <2>3, EffectRefines
  <2>4. CASE /\ Shown' = Shown /\ deleted' = deleted
             /\ answered' = answered
    BY <2>4 DEF Lifecycle!vars, Phase
  <2>5. ASSUME NEW a \in Alerts, Shown' = Shown, deleted' = deleted,
               Shown[a].there, answered' = answered \union {a}
        PROVE  [Lifecycle!Next]_(Lifecycle!vars)
    <3>1. Shown[a] \in Entry
      BY ShownType DEF File
    <3>2. Phase(a) \in {"armed", "fired"}
      BY <2>2, <2>5, <3>1, PhaseOf
    <3>3. \A x \in Alerts : Phase(x)' = Phase(x)
      BY <2>5 DEF Phase
    <3>4. Lifecycle!Answer(a)
      BY <2>5, <3>2, <3>3 DEF Lifecycle!Answer, Lifecycle!Live
    <3>5. QED
      BY <3>4 DEF Lifecycle!Next
  <2>6. CASE /\ Shown' = Empty /\ answered = {}
             /\ deleted' = deleted /\ answered' = answered
    BY <2>2, <2>6, RestartRefines
  <2>7. QED
    BY <2>2, <2>3, <2>4, <2>5, <2>6 DEF Moves
<1>3. QED
  BY <1>1, <1>2, AloneAlways, PTL DEF Spec, ImplementsLifecycle

=============================================================================
