--------------------------- MODULE PositionAlerts ---------------------------
(***************************************************************************)
(* alerts.json: the alerts of routes/alerts.py, which users create, snooze *)
(* and delete, and monitor_alerts of routes/manage.py, which adds one for  *)
(* each ticker whose position needs it (MonitorNeed of PositionRules) and  *)
(* is not silenced by an alert that is active or was snoozed less than     *)
(* Cooldown hours ago.  Every request runs in a thread of its own, reads   *)
(* the file, works on its copy and saves it; the monitor asks for quotes   *)
(* in between.  Nothing locks the file.                                    *)
(***************************************************************************)
EXTENDS Integers, FiniteSets, TLC

CONSTANTS
  Tickers,      \* tickers with a position
  Ids,          \* ids a new alert can draw
  Threads,      \* threads of the server
  Cooldown,     \* hours a snoozed alert silences its ticker
  NoAlert,      \* an id no alert has
  Never,        \* no snoozed_at
  MaxTime,      \* bound on the hours that pass
  MaxRequests,  \* bound on requests
  MaxFaults     \* bound on failed saves and damages of the file

Time == 0 .. MaxTime

\* An alert.  monitor tells the source "position_monitor" from all others;
\* severity and message are left out.
Alert == [ticker: Tickers, monitor: BOOLEAN, snoozed: BOOLEAN,
          snoozedAt: Time \union {Never}, createdAt: Time]

ASSUME AlertsAssumption ==
  /\ Never \notin Nat /\ NoAlert \notin Alert
  /\ {Cooldown, MaxTime, MaxRequests, MaxFaults} \subseteq Nat

VARIABLES
  alerts,     \* the alerts of alerts.json, by id
  damaged,    \* alerts.json is not JSON, as an overlap of saves may leave it
  need,       \* tickers whose position needs an alert, as the market has it
  now,        \* hours since the start
  th,         \* the request of each thread
  overlap,    \* history: two requests have overlapped
  requests, faults

alertVars == <<alerts, damaged, need, now, th, overlap, requests, faults>>

NewAlert(t, mon) ==
  [ticker |-> t, monitor |-> mon, snoozed |-> FALSE,
   snoozedAt |-> Never, createdAt |-> now]

Table == [Ids -> Alert \union {NoAlert}]
There(table) == {i \in Ids : table[i] # NoAlert}

\* A thread: its step, the copy it works on, whether it could read the file, and
\* of a pass whether it has made an alert, when it began, the tickers it has yet
\* to judge and, for the properties, those in need ever since it began.
Thread == [pc: {"idle", "judging", "saving"}, pass: BOOLEAN, copy: Table,
           read: BOOLEAN, made: BOOLEAN, since: Time, left: SUBSET Tickers,
           steady: SUBSET Tickers]
Free == [pc |-> "idle", pass |-> FALSE, copy |-> [i \in Ids |-> NoAlert],
         read |-> FALSE, made |-> FALSE, since |-> 0, left |-> {}, steady |-> {}]

------------------------------------------------------------------------------
(* What a pass makes of the file it reads.                                 *)

\* The variant that counts the cooldown from the creation.
DismissedFromCreation(a) == a.createdAt

Dismissed(a) == IF a.snoozedAt # Never THEN a.snoozedAt ELSE a.createdAt

\* The variant in which an alert of any source silences its ticker.
SilencedByAny(table, time) ==
  {table[i].ticker : i \in {j \in There(table) :
     ~table[j].snoozed \/ time - Dismissed(table[j]) < Cooldown}}

Silenced(table, time) ==
  {table[i].ticker : i \in {j \in There(table) :
     /\ table[j].monitor
     /\ ~table[j].snoozed \/ time - Dismissed(table[j]) < Cooldown}}

------------------------------------------------------------------------------
(* Requests.                                                               *)

\* An id nothing holds: uuid4 draws no id again.
Fresh == {i \in Ids : /\ alerts[i] = NoAlert
                      /\ \A t \in Threads : th[t].copy[i] = NoAlert}

\* The first step of every request.
Begins(t) ==
  /\ th[t].pc = "idle"
  /\ requests < MaxRequests
  /\ requests' = requests + 1
  /\ overlap' = (overlap \/ \E u \in Threads \ {t} : th[u].pc # "idle")
  /\ UNCHANGED <<alerts, damaged, need, now, faults>>

\* A route of alerts.py has read the file and changed its copy.
Ready(t, table) ==
  th' = [th EXCEPT ![t] = [Free EXCEPT !.pc = "saving", !.copy = table,
                                       !.read = TRUE]]

\* POST /alerts.  The body may name any source.
Create(t) ==
  /\ Begins(t) /\ ~damaged
  /\ \E i \in Fresh, k \in Tickers, mon \in BOOLEAN :
       Ready(t, [alerts EXCEPT ![i] = NewAlert(k, mon)])

\* PATCH /alerts/{id} with snoozed; other fields do not matter here.
Update(t) ==
  /\ Begins(t) /\ ~damaged
  /\ \E i \in There(alerts), snooze \in BOOLEAN :
       Ready(t, [alerts EXCEPT ![i].snoozed = snooze,
                               ![i].snoozedAt = IF snooze THEN now ELSE @])

\* DELETE /alerts/{id}.
Delete(t) ==
  /\ Begins(t) /\ ~damaged
  /\ \E i \in There(alerts) : Ready(t, [alerts EXCEPT ![i] = NoAlert])

\* A request that finds no such alert, or a damaged file, is refused and
\* changes nothing.

\* POST /manage/monitor_alerts: a file it cannot read is an empty one, but the
\* document to add the alerts to stays unbound.
PassBegins(t) ==
  /\ Begins(t)
  /\ th' = [th EXCEPT ![t] =
       [Free EXCEPT !.pc = "judging", !.pass = TRUE, !.since = now,
                    !.read = ~damaged,
                    !.copy = IF damaged THEN @ ELSE alerts,
                    !.left = Tickers \ (IF damaged THEN {}
                                        ELSE Silenced(alerts, now)),
                    !.steady = need]]

\* The pass judges the position of a ticker by the quotes of the moment.
Judge(t) ==
  /\ th[t].pc = "judging"
  /\ \E k \in th[t].left :
       \/ /\ k \in need
          /\ \E i \in Fresh :
               th' = [th EXCEPT ![t] =
                 [th[t] EXCEPT !.left = @ \ {k}, !.made = TRUE,
                               !.copy = [th[t].copy EXCEPT
                                           ![i] = NewAlert(k, TRUE)]]]
       \/ /\ k \notin need
          /\ th' = [th EXCEPT ![t] = [th[t] EXCEPT !.left = @ \ {k}]]
  /\ UNCHANGED <<alerts, damaged, need, now, overlap, requests, faults>>

\* The variant in which the document defaults to an empty one.
JudgedOnDefault(t) ==
  /\ th[t].pc = "judging" /\ th[t].left = {}
  /\ th' = [th EXCEPT ![t] = IF th[t].made
                             THEN [@ EXCEPT !.pc = "saving"] ELSE Free]
  /\ UNCHANGED <<alerts, damaged, need, now, overlap, requests, faults>>

\* All are judged: the pass answers when it has made nothing, fails on the
\* unbound document when it has not read the file, and saves otherwise.
Judged(t) ==
  /\ th[t].pc = "judging" /\ th[t].left = {}
  /\ th' = [th EXCEPT ![t] = IF th[t].made /\ th[t].read
                             THEN [@ EXCEPT !.pc = "saving"] ELSE Free]
  /\ UNCHANGED <<alerts, damaged, need, now, overlap, requests, faults>>

\* save_alerts replaces the file by the copy.
Save(t) ==
  /\ th[t].pc = "saving"
  /\ alerts' = th[t].copy
  /\ damaged' = FALSE
  /\ th' = [th EXCEPT ![t] = Free]
  /\ UNCHANGED <<need, now, overlap, requests, faults>>

\* save_alerts fails.  A route of alerts.py answers 500; the pass swallows the
\* error and answers with the alerts it made.
AlertsSaveFails(t) ==
  /\ th[t].pc = "saving"
  /\ faults < MaxFaults
  /\ faults' = faults + 1
  /\ th' = [th EXCEPT ![t] = Free]
  /\ UNCHANGED <<alerts, damaged, need, now, overlap, requests>>

------------------------------------------------------------------------------
(* The surroundings.                                                       *)

Tick ==
  /\ now < MaxTime
  /\ now' = now + 1
  /\ UNCHANGED <<alerts, damaged, need, th, overlap, requests, faults>>

\* Positions and prices move: a ticker comes into need, or out of it.
Drift ==
  \E k \in Tickers :
    /\ need' = IF k \in need THEN need \ {k} ELSE need \union {k}
    /\ th' = [t \in Threads |-> [th[t] EXCEPT !.steady = @ \intersect need']]
    /\ UNCHANGED <<alerts, damaged, now, overlap, requests, faults>>

\* The file is damaged, and someone puts the last whole one back.
Damage ==
  /\ ~damaged /\ faults < MaxFaults
  /\ damaged' = TRUE
  /\ faults' = faults + 1
  /\ UNCHANGED <<alerts, need, now, th, overlap, requests>>
Repair ==
  /\ damaged
  /\ damaged' = FALSE
  /\ UNCHANGED <<alerts, need, now, th, overlap, requests, faults>>

\* A file without alerts, or with one, which may have been snoozed before
\* snoozed_at was recorded.
AlertsInit ==
  /\ now = 0
  /\ \/ alerts = [i \in Ids |-> NoAlert]
     \/ \E i \in Ids, k \in Tickers, mon \in BOOLEAN, s \in BOOLEAN :
          alerts = [j \in Ids |-> IF j = i
                                 THEN [NewAlert(k, mon) EXCEPT !.snoozed = s]
                                 ELSE NoAlert]
  /\ damaged = FALSE
  /\ need \in SUBSET Tickers
  /\ th = [t \in Threads |-> Free]
  /\ overlap = FALSE /\ requests = 0 /\ faults = 0

Requests(t) ==
  \/ Create(t) \/ Update(t) \/ Delete(t)
  \/ PassBegins(t) \/ Judge(t) \/ Judged(t)
  \/ Save(t) \/ AlertsSaveFails(t)

AlertsNext == (\E t \in Threads : Requests(t)) \/ Tick \/ Drift \/ Damage \/ Repair

AlertsSpec == AlertsInit /\ [][AlertsNext]_alertVars

------------------------------------------------------------------------------
(* Properties.                                                             *)

\* The file, the clock and the threads hold what they should.
AlertsTypeOK ==
  /\ alerts \in Table /\ damaged \in BOOLEAN
  /\ need \subseteq Tickers /\ now \in Time
  /\ th \in [Threads -> Thread]
  /\ overlap \in BOOLEAN
  /\ requests \in 0 .. MaxRequests /\ faults \in 0 .. MaxFaults

\* As long as no two requests have overlapped, a pass never adds an alert for a
\* ticker that has an active alert of the monitor, or one whose snooze, for
\* that ticker, is younger than the cooldown ("Skips positions that already
\* have an active alert", and "cooldown to prevent re-fire spam").
SilenceHolds ==
  [][~overlap => \A t \in Threads, i, j \in There(alerts') :
       /\ th[t].pass /\ th'[t].pc = "idle"
       /\ alerts[i] = NoAlert /\ j # i /\ alerts'[j].monitor
       /\ alerts'[j].ticker = alerts'[i].ticker
       => /\ alerts'[j].snoozed
          /\ alerts'[j].snoozedAt # Never =>
               now - alerts'[j].snoozedAt >= Cooldown]_alertVars

\* As long as no two requests have overlapped and no save has failed, when a
\* pass that has read the file ends, every ticker that was in need all along
\* has an alert of the monitor that is active or was silenced when it began.
NothingMissed ==
  [][\A t \in Threads :
       /\ ~overlap /\ faults = 0
       /\ th[t].pass /\ th[t].read /\ th[t].pc # "idle" /\ th'[t].pc = "idle"
       /\ faults' = 0
       => \A k \in th[t].steady : \E i \in There(alerts') :
            /\ alerts'[i].monitor /\ alerts'[i].ticker = k
            /\ ~alerts'[i].snoozed
               \/ th[t].since - Dismissed(alerts'[i]) < Cooldown]_alertVars

\* However requests interleave, no request that could not read the alerts saves
\* a file: a damaged alerts.json, and the alerts that can be recovered from it,
\* is never replaced by a pass that took it for empty.
BlindNeverSaves ==
  [][\A t \in Threads :
       th[t].pc = "saving" /\ th'[t].pc = "idle" /\ alerts' # alerts
       => th[t].read]_alertVars

\* For TLC: threads, ids and tickers are interchangeable.
Symmetry == Permutations(Threads) \union Permutations(Ids)
            \union Permutations(Tickers)

=============================================================================
