---------------------------- MODULE PositionSync ----------------------------
(***************************************************************************)
(* How the book of positions gets from IBKR to active_positions.json and   *)
(* the MySQL table: app/routes/ibkr.py with the two sync services, the     *)
(* auto-sync task of app/main.py, the confirmation of an uploaded          *)
(* screenshot, and the read path of app/routes/positions.py.               *)
(*                                                                         *)
(* The coroutines run one at a time on the event loop, between their       *)
(* awaits; only the fetch of a sync runs in a thread of the executor.  All *)
(* writers of active_positions.json are coroutines, so a save is one step  *)
(* here, but a sync saves what it computed from a copy it read before its  *)
(* fetch.  MySQL is written by the fetching thread, Redis best effort.     *)
(* The fetch itself is one step: the broker answers with the book of one   *)
(* moment, and ibkr_last_sync is taken for that moment.                    *)
(***************************************************************************)
EXTENDS Naturals, FiniteSets

CONSTANTS
  Legs,        \* the contracts the account may hold
  Options,     \* those that are options
  FirstBook,   \* those it holds at the start
  Annotated,   \* those users put notes or a strategy on
  TaskJob,     \* the sync of the auto-sync task
  Manual,      \* the syncs, retries and previews users start
  MaxTrades,   \* bound on trades at the broker
  MaxEvents    \* bound on changes of the gateway and of the setting,
               \* confirmed screenshots, faults and crashes together

Jobs == {TaskJob} \union Manual

ASSUME SyncAssumption ==
  /\ Options \subseteq Legs
  /\ FirstBook \subseteq Legs
  /\ Annotated \subseteq Legs
  /\ TaskJob \notin Manual
  /\ MaxTrades \in Nat
  /\ MaxEvents \in Nat

VARIABLES
  book,       \* broker: the legs held
  trades,     \* broker: trades so far
  gateway,    \* the gateway has a session and quotes Greeks
  enabled,    \* security.use_ibkr_web_api
  file,       \* active_positions.json
  db,         \* the legs that have a row in the MySQL positions table
  record,     \* Redis: the last sync attempt
  cap,        \* the capability cache: "none" or the verdict it holds
  job,        \* the syncs under way
  events,     \* what has happened so far, bounded by MaxEvents
  overlapped, \* history: some job or confirmation ran during another job
  missing,    \* history: a write to MySQL failed
  lost        \* history: a result was not recorded over an earlier one

broker == <<book, trades, gateway>>
history == <<overlapped, missing, lost>>
vars == <<broker, enabled, file, db, record, cap, job, events, history>>

\* The file: its legs, those with notes or a strategy, where the legs come from
\* ({v} the broker's book after v trades, {} the user) and what ibkr_last_sync
\* stands for ({v} a moment after v trades, {} null).
Version == {{}} \union {{v} : v \in 0..MaxTrades}
Positions == [legs: SUBSET Legs, noted: SUBSET Annotated, origin: Version,
              asof: Version]
NoPositions == [legs |-> {}, noted |-> {}, origin |-> {}, asof |-> {}]

\* The record: status, backend, and whether the attempt has saved the file.
Backend == {"web_api", "bs_yfinance"}
Attempt == [status: {"none", "ok", "error"}, back: Backend \union {"none"},
            kept: BOOLEAN]
NoAttempt == [status |-> "none", back |-> "none", kept |-> FALSE]

\* A job: its next step, what it is, its backend, the one of the recorded
\* attempt it repeats, the positions it will save, and whether its success is
\* already in Redis.
Job == [pc: {"idle", "fetch", "record", "save"},
        op: {"sync", "retry", "preview"}, back: Backend,
        prior: Backend \union {"none"}, data: Positions, told: BOOLEAN]
NoJob == [pc |-> "idle", op |-> "sync", back |-> "web_api", prior |-> "none",
          data |-> NoPositions, told |-> FALSE]

Idle(j) == job[j].pc = "idle"

\* A job between its save and its record keeps the event loop busy.
Holds(j) == \/ job[j].op = "sync" /\ job[j].pc = "save"
            \/ job[j].op = "retry" /\ job[j].pc = "record"
LoopFree == \A j \in Jobs : ~Holds(j)

\* The file, the table, the record and the jobs under way keep their types; a
\* recorded attempt is one that has ended.
TypeOK ==
  /\ book \subseteq Legs
  /\ trades \in 0..MaxTrades
  /\ gateway \in BOOLEAN
  /\ enabled \in BOOLEAN
  /\ file \in Positions
  /\ db \subseteq Legs
  /\ record \in Attempt
  /\ cap \in {"none", "up", "down"}
  /\ job \in [Jobs -> Job]
  /\ events \in 0..MaxEvents
  /\ overlapped \in BOOLEAN
  /\ missing \in BOOLEAN
  /\ lost \in BOOLEAN

Init ==
  /\ book = FirstBook
  /\ trades = 0
  /\ gateway = TRUE
  /\ enabled = TRUE
  /\ file = NoPositions
  /\ db = {}
  /\ record = NoAttempt
  /\ cap = "none"
  /\ job = [j \in Jobs |-> NoJob]
  /\ events = 0
  /\ overlapped = FALSE /\ missing = FALSE /\ lost = FALSE

-----------------------------------------------------------------------------
(* The surroundings.                                                       *)

Happens == events < MaxEvents /\ events' = events + 1

\* A leg is opened or closed at the broker.
Trade ==
  /\ trades < MaxTrades
  /\ trades' = trades + 1
  /\ \E l \in Legs :
       book' = IF l \in book THEN book \ {l} ELSE book \union {l}
  /\ UNCHANGED <<gateway, enabled, file, db, record, cap, job, events, history>>

\* The gateway loses or regains its session; the user turns the Web API off or
\* on.
Change ==
  /\ Happens
  /\ \/ gateway' = ~gateway /\ UNCHANGED enabled
     \/ enabled' = ~enabled /\ UNCHANGED gateway
  /\ UNCHANGED <<book, trades, file, db, record, cap, job, history>>

\* Redis drops the record, after a day or with its memory.
RecordExpires ==
  /\ LoopFree
  /\ Happens
  /\ record' = NoAttempt
  /\ UNCHANGED <<broker, enabled, file, db, cap, job, history>>

-----------------------------------------------------------------------------
(* The capability cache.                                                   *)

\* _check_web_api: the Web API counts as up when the session is established and
\* a held option is quoted with its Greeks.
Probe == IF gateway /\ book \intersect Options # {} THEN "up" ELSE "down"

\* get_capability: the cached verdict, or a new one.
Verdict == IF cap = "none" THEN Probe ELSE cap

\* Other routes ask for it, forced to probe or not.
GetCapability ==
  /\ LoopFree
  /\ cap' = Probe
  /\ UNCHANGED <<broker, enabled, file, db, record, job, events, history>>

\* Sixty seconds have passed.
CapabilityExpires ==
  /\ cap # "none"
  /\ cap' = "none"
  /\ UNCHANGED <<broker, enabled, file, db, record, job, events, history>>

\* resolve_greeks_backend under "auto" or "web_api".
Resolved == IF Verdict = "up" THEN "web_api" ELSE "bs_yfinance"

-----------------------------------------------------------------------------
(* A job up to its await.                                                  *)

\* What the fetch of a job uses of the file it has read: the Web API takes only
\* the notes from it.
Existing(op, back) ==
  IF op = "preview" THEN NoPositions
  ELSE IF back = "web_api" THEN [NoPositions EXCEPT !.noted = file.noted]
  ELSE [file EXCEPT !.asof = {}]

Begin(j, op, back, prior) ==
  /\ LoopFree
  /\ Idle(j)
  /\ job' = [job EXCEPT ![j] = [pc |-> "fetch", op |-> op, back |-> back,
                                prior |-> prior, data |-> Existing(op, back),
                                told |-> FALSE]]
  /\ overlapped' = (overlapped \/ \E i \in Jobs : ~Idle(i))
  /\ UNCHANGED <<broker, enabled, file, db, record, events, missing, lost>>

\* trigger_sync and retry_last_upload with the Web API turned off in the
\* settings, with a backend asked for or remembered, or with the resolved one.
Dispatch(j, op, wish, prior) ==
  \/ ~enabled /\ Begin(j, op, "bs_yfinance", prior) /\ UNCHANGED cap
  \/ enabled /\ wish # "none" /\ Begin(j, op, wish, prior) /\ UNCHANGED cap
  \/ enabled /\ wish = "none" /\ Begin(j, op, Resolved, prior) /\ cap' = Verdict

\* The variant that tries what was last tried.
AutoSyncAsBefore == Dispatch(TaskJob, "sync", record.back, "none")

AutoSync == Dispatch(TaskJob, "sync", "none", "none")

TriggerSync(j) ==
  \E wish \in Backend \union {"none"} : Dispatch(j, "sync", wish, "none")

\* The backend of the recorded attempt, if any, is tried again.
RetryLastUpload(j) == Dispatch(j, "retry", record.back, record.back)

\* preview_sync goes to IBKR only if the Web API is the resolved backend, and
\* does not look at the setting.
PreviewSync(j) ==
  /\ Verdict = "up"
  /\ cap' = Verdict
  /\ Begin(j, "preview", "web_api", "none")

-----------------------------------------------------------------------------
(* The fetch, in a thread of the executor.                                 *)

Goes(j, pc, data) ==
  job' = [job EXCEPT ![j] = [@ EXCEPT !.pc = pc, !.data = data]]

Ends(j) == job' = [job EXCEPT ![j] = NoJob]

\* The step after the fetch: a sync records its success before it saves, a
\* retry after.
Finish(op) == IF op = "sync" THEN "record" ELSE "save"

\* The broker's book, with the notes of the positions that were there when the
\* job began.
FetchedBare(j) == [legs |-> book, noted |-> {}, origin |-> {trades},
                   asof |-> {trades}]
Fetched(j) == [legs |-> book, noted |-> job[j].data.noted \intersect book,
               origin |-> {trades}, asof |-> {trades}]

\* The variant that updates rows and adds none to a table that has some.
UpsertedUpdates(legs) == IF db = {} THEN legs ELSE db

\* upsert_positions adds and updates rows and deletes none.
Upserted(legs) == db \union legs

\* _do_sync: all or none of the rows are written, and a failed write to MySQL
\* does not abort the sync.
FetchPositions(j) ==
  LET d == Fetched(j) IN
  /\ job[j].pc = "fetch" /\ job[j].back = "web_api"
  /\ gateway
  /\ \/ db' = Upserted(d.legs) /\ UNCHANGED <<events, missing>>
     \/ Happens /\ missing' = TRUE /\ UNCHANGED db
  /\ IF job[j].op = "preview" THEN Ends(j) ELSE Goes(j, Finish(job[j].op), d)
  /\ UNCHANGED <<broker, enabled, file, record, cap, overlapped, lost>>

SyncSynthetic(j) ==
  LET d == job[j].data
      kept == IF d.legs = {} THEN file ELSE d
  IN
  /\ job[j].pc = "fetch" /\ job[j].back = "bs_yfinance"
  /\ Goes(j, Finish(job[j].op), [kept EXCEPT !.asof = file.asof])
  /\ UNCHANGED <<broker, enabled, file, db, record, cap, events, history>>

-----------------------------------------------------------------------------
(* The end of a job, on the event loop.                                    *)

Told(status, back, kept) == [status |-> status, back |-> back, kept |-> kept]

\* What a failed job leaves in Redis, if it reaches Redis: a preview nothing, a
\* retry the backend it was asked to repeat.
Failure(j) ==
  CASE job[j].op = "sync" -> {record, Told("error", job[j].back, FALSE)}
    [] job[j].op = "retry" -> {record, Told("error", job[j].prior, FALSE)}
    [] job[j].op = "preview" -> {record}

\* No session, or an error of the broker.
FetchFails(j) ==
  /\ LoopFree
  /\ job[j].pc = "fetch"
  /\ \/ job[j].back = "web_api" /\ ~gateway /\ UNCHANGED events
     \/ Happens
  /\ record' \in Failure(j)
  /\ Ends(j)
  /\ UNCHANGED <<broker, enabled, file, db, cap, history>>

\* _store_sync_result never raises: without Redis the job goes on.
Stored(ok) == IF ok THEN UNCHANGED events ELSE Happens

RecordSync(j) ==
  \E told \in BOOLEAN :
    /\ LoopFree
    /\ Stored(told)
    /\ job[j].op = "sync" /\ job[j].pc = "record"
    /\ record' = IF told THEN Told("ok", job[j].back, FALSE) ELSE record
    /\ job' = [job EXCEPT ![j] = [@ EXCEPT !.pc = "save", !.told = told]]
    /\ UNCHANGED <<broker, enabled, file, db, cap, history>>

\* state.save_positions and capability.invalidate.
SaveSync(j) ==
  /\ job[j].op = "sync" /\ job[j].pc = "save"
  /\ file' = job[j].data
  /\ cap' = "none"
  /\ record' = IF job[j].told THEN [record EXCEPT !.kept = TRUE] ELSE record
  /\ Ends(j)
  /\ UNCHANGED <<broker, enabled, db, events, history>>

SaveRetry(j) ==
  /\ LoopFree
  /\ job[j].op = "retry" /\ job[j].pc = "save"
  /\ file' = job[j].data
  /\ cap' = "none"
  /\ Goes(j, "record", NoPositions)
  /\ UNCHANGED <<broker, enabled, db, record, events, history>>

RecordRetry(j) ==
  \E told \in BOOLEAN :
    /\ job[j].op = "retry" /\ job[j].pc = "record"
    /\ Stored(told)
    /\ record' = IF told THEN Told("ok", job[j].back, TRUE) ELSE record
    /\ Ends(j)
    /\ UNCHANGED <<broker, enabled, file, db, cap, history>>

\* The variant that leaves the record alone.
SaveFailsQuietly(j) ==
  /\ job[j].pc = "save"
  /\ Holds(j) \/ LoopFree
  /\ Happens
  /\ Ends(j)
  /\ UNCHANGED <<broker, enabled, file, db, record, cap, history>>

\* A full disk: the error is recorded over the success, if Redis answers.
SaveFails(j) ==
  /\ job[j].pc = "save"
  /\ Holds(j) \/ LoopFree
  /\ Happens
  /\ record' \in Failure(j)
  /\ lost' = (lost \/ (job[j].told /\ record' = record))
  /\ Ends(j)
  /\ UNCHANGED <<broker, enabled, file, db, cap, overlapped, missing>>

\* confirm_ibkr_upload writes the positions the user has confirmed.
ConfirmIbkrUpload ==
  \E legs \in SUBSET Legs \ {{}} :
  \E noted \in SUBSET (legs \intersect Annotated) :
    /\ LoopFree
    /\ Happens
    /\ file' = [file EXCEPT !.legs = legs, !.noted = noted, !.origin = {}]
    /\ overlapped' = (overlapped \/ \E j \in Jobs : ~Idle(j))
    /\ UNCHANGED <<broker, enabled, db, record, cap, job, missing, lost>>

\* The process dies and is started again.
Crash ==
  /\ \E j \in Jobs : ~Idle(j)
  /\ Happens
  /\ cap' = "none"
  /\ job' = [j \in Jobs |-> NoJob]
  /\ lost' = (lost \/ ~LoopFree)
  /\ UNCHANGED <<broker, enabled, file, db, record, overlapped, missing>>

-----------------------------------------------------------------------------
OnLoop(j) == FetchFails(j) \/ RecordSync(j) \/ SaveRetry(j)

Busy(j) ==
  \/ FetchPositions(j)
  \/ SyncSynthetic(j)
  \/ SaveSync(j)
  \/ RecordRetry(j)

Next ==
  \/ Trade
  \/ Change
  \/ RecordExpires
  \/ GetCapability
  \/ CapabilityExpires
  \/ AutoSync
  \/ ConfirmIbkrUpload
  \/ Crash
  \/ \E j \in Manual : TriggerSync(j) \/ RetryLastUpload(j) \/ PreviewSync(j)
  \/ \E j \in Jobs : OnLoop(j) \/ Busy(j) \/ SaveFails(j)

\* Auto-sync stays turned on; every fetch ends, for its requests have timeouts;
\* the event loop runs the coroutines that are ready in turn, and finishes what
\* it has begun.
Fairness ==
  /\ SF_vars(AutoSync \/ OnLoop(TaskJob) \/ Busy(TaskJob))
  /\ \A j \in Manual : WF_vars(Busy(j))

Spec == Init /\ [][Next]_vars /\ Fairness

-----------------------------------------------------------------------------
(* What the sync promises.                                                 *)

\* GET /positions: the rows of MySQL, if there are any.
Shown == IF db = {} THEN file.legs ELSE db

\* Between jobs the record in Redis tells whether the attempt has saved its
\* positions, but for a crash or a result Redis has not taken.
RecordTellsSaved ==
  LoopFree /\ ~lost => (record.status = "ok" <=> record.kept)

\* As long as MySQL has taken every write, GET /positions leaves out none of
\* the positions a sync has brought from the broker.
NothingOpenIsHidden ==
  ~missing /\ file.origin # {} => file.legs \subseteq Shown

\* As long as no two jobs have overlapped, a position that stays in the file
\* keeps its notes and strategy, unless the user confirms another.
NotesSurviveSyncs ==
  [][~overlapped' /\ ~ConfirmIbkrUpload
       => file.noted \intersect file'.legs \subseteq file'.noted]_vars

\* With auto-sync on, the gateway up and an option in the book from some time
\* on, the file holds the broker's book again and again, whatever users start.
BookCatchesUp ==
  <>[](gateway /\ enabled /\ book \intersect Options # {})
    => []<>(file.legs = book)

=============================================================================
