------------------------------ MODULE JobRunner ------------------------------
(***************************************************************************)
(* The scheduler (app/scheduler/runner.py) and the routes that run the     *)
(* same scripts by hand (app/routes/run.py).  The clock counts slots of    *)
(* five minutes from Monday 00:00 UTC, the finest grain of the cron        *)
(* triggers and the time after which a scheduled script is killed.         *)
(* A script that runs is [key, job, start, watched]: job is the id of the  *)
(* scheduler's job, or ByHand; start is the slot of a scheduled one, 0 of  *)
(* the others; watched is FALSE when the process that started it has died. *)
(***************************************************************************)
EXTENDS Integers, FiniteSets

CONSTANTS
  Scripts,    \* the scripts a behaviour looks at, among the ones of ScriptOf
  FirstSlot, LastSlot,   \* the part of the week it looks at
  MaxByHand,  \* bound on the scripts that run by hand or are orphans
  ByHand, InGroup

SlotsPerDay == 288
SlotsPerHour == 12
\* What the model assumes of its constants; the module that instantiates it
\* states it as an ASSUME.
RunnerAssumption ==
  /\ FirstSlot \in Nat /\ LastSlot \in FirstSlot .. 7 * SlotsPerDay - 1
  /\ MaxByHand \in Nat

VARIABLES
  now,
  status,   \* _job_status: per script what the last scheduled run came to
  running,  \* the script processes that are alive
  results,  \* the scripts with a result in script_results.json
  fired     \* the jobs the scheduler has dealt with in this slot

vars == <<now, status, running, results, fired>>

------------------------------------------------------------------------------
(* build_scheduler                                                         *)

Weekday(s) == s \div SlotsPerDay < 5
Hour(s) == (s % SlotsPerDay) \div SlotsPerHour
Minute(s) == 5 * (s % SlotsPerHour)

At(s, hours, minutes) == Weekday(s) /\ Hour(s) \in hours /\ Minute(s) \in minutes
Every(n) == {m \in 0 .. 59 : m % n = 0}

\* The script of each job.
ScriptOf ==
  [qd_refresh |-> "qd_refresh", qd_refresh_midday |-> "qd_refresh",
   premarket |-> "premarket", iv_crush |-> "iv_crush",
   position_monitor |-> "position_monitor", dark_pool_alert |-> "dark_pool_alert",
   eod_review |-> "eod_review", whale_flow |-> "whale_flow",
   max_pain |-> "max_pain", gex_oi_am |-> "gex_oi", gex_oi_pm |-> "gex_oi"]

ScriptJobs == DOMAIN ScriptOf

Due(job, s) ==
  CASE job = "qd_refresh" -> At(s, {10}, {0})
    [] job = "qd_refresh_midday" -> At(s, {16}, {0})
    [] job = "premarket" -> At(s, {11}, {0})
    [] job = "iv_crush" -> At(s, 13 .. 20, Every(30))
    [] job = "position_monitor" -> At(s, 13 .. 19, Every(5))
    [] job = "dark_pool_alert" -> At(s, 13 .. 19, Every(15))
    [] job = "eod_review" -> At(s, {20}, {5})
    [] job = "whale_flow" -> At(s, {12, 16}, {0})
    [] job = "max_pain" -> At(s, {13, 18}, {0})
    [] job = "gex_oi_am" -> At(s, {13}, {5})
    [] job = "gex_oi_pm" -> At(s, {17}, {0})

------------------------------------------------------------------------------
Pending == [state |-> "pending", start |-> 0]
Run(key, job) ==
  [key |-> key, job |-> job, watched |-> TRUE,
   start |-> IF job \in {ByHand, InGroup} THEN 0 ELSE now]
Others == {r \in running : r.job \in {ByHand, InGroup} \/ ~r.watched}

TypeOK ==
  /\ now \in FirstSlot .. LastSlot
  /\ \A k \in Scripts :
       status[k].state \in {"pending", "missing", "running", "ok", "error", "timeout"}
  /\ results \subseteq Scripts

Init ==
  /\ now = FirstSlot
  /\ status = [k \in Scripts |-> Pending]
  /\ running = {} /\ results = {} /\ fired = {}

\* The scheduler deals with a job that is due: it is skipped while its last run
\* goes on, and fails at once when the script is missing or cannot be started.
FireJob(job) ==
  /\ ScriptOf[job] \in Scripts /\ Due(job, now) /\ job \notin fired
  /\ fired' = fired \union {job}
  /\ LET key == ScriptOf[job]
         Shows(s) == status' = [status EXCEPT ![key] = [state |-> s, start |-> now]]
     IN \/ /\ \E r \in running : r.job = job /\ r.watched
           /\ UNCHANGED <<status, running>>
        \/ /\ ~\E r \in running : r.job = job /\ r.watched
           /\ \/ Shows("running") /\ running' = running \union {Run(key, job)}
              \/ \E s \in {"missing", "error"} : Shows(s) /\ UNCHANGED running
  /\ UNCHANGED <<now, results>>

\* The variant without a timeout: a script may run for as long as it likes.
OverdueNever(r) == r.start > now

\* SCRIPT_TIMEOUT, five minutes.
Overdue(r) == now - r.start >= 1

\* A scheduled script ends or is killed, and the thread that waits for it
\* writes what came of it.
EndScheduled ==
  \E r \in {x \in running : x.job \notin {ByHand, InGroup} /\ x.watched} :
    /\ running' = running \ {r}
    /\ \E s \in IF Overdue(r) THEN {"ok", "error", "timeout"} ELSE {"ok", "error"} :
         status' = [status EXCEPT ![r.key] = [state |-> s, start |-> r.start]]
    /\ UNCHANGED <<now, results, fired>>

\* A script started by a request; it runs in the thread of the request.
StartsFor(key, job) ==
  /\ Cardinality(Others) < MaxByHand
  /\ running' = running \union {Run(key, job)}
  /\ UNCHANGED <<now, status, results, fired>>

\* POST /run/{key}: the script must be on the list and its file exist, and
\* QuantData be enabled if it needs it.
RunScript(key) == StartsFor(key, ByHand)

\* A script of POST /run/group/{name}, under the same conditions; the next one
\* starts when it has ended.
RunGroup(key) == StartsFor(key, InGroup)

\* It ends or is killed after two minutes.  /run/{key} keeps the result of a
\* script that ended, best effort, and a group keeps none; the status of the
\* scheduler is not touched.
EndByHand ==
  \E r \in {x \in running : x.job \in {ByHand, InGroup} \/ ~x.watched} :
    /\ running' = running \ {r}
    /\ results' \in {results, IF r.watched /\ r.job = ByHand
                               THEN results \union {r.key} ELSE results}
    /\ UNCHANGED <<now, status, fired>>

\* The application dies and starts again; the scripts it had started live on.
\* Jobs of this slot that were not dealt with are not made up for.
Restart ==
  /\ Cardinality(running) <= MaxByHand
  /\ \E k \in Scripts : status[k] # Pending
  /\ status' = [k \in Scripts |-> Pending]
  /\ running' = {[r EXCEPT !.watched = FALSE, !.start = 0] : r \in running}
  /\ fired' = {j \in ScriptJobs : Due(j, now)}
  /\ UNCHANGED <<now, results>>

\* Time passes.  What is overdue is killed and what is due is fired first.
NextSlot ==
  /\ now < LastSlot
  /\ \A r \in running : r.watched /\ r.job \notin {ByHand, InGroup} => ~Overdue(r)
  /\ \A j \in ScriptJobs : ScriptOf[j] \in Scripts /\ Due(j, now) => j \in fired
  /\ now' = now + 1
  /\ fired' = {}
  /\ UNCHANGED <<status, running, results>>

Next ==
  \/ \E j \in ScriptJobs : FireJob(j)
  \/ \E k \in Scripts : RunScript(k) \/ RunGroup(k)
  \/ EndScheduled \/ EndByHand \/ Restart \/ NextSlot

Spec == Init /\ [][Next]_vars

------------------------------------------------------------------------------
(* Properties                                                              *)

\* The status of a script tells of its newest run, although two jobs may run it
\* and each writes the status when its own run ends.
StatusOfNewestRun ==
  [][\A k \in Scripts :
       status'[k] # status[k] /\ status'[k] # Pending
         => status'[k].start >= status[k].start]_vars

=============================================================================
