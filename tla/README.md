# Fortress V4 in TLA+

Specifications, model-checking runs and proofs for the Fortress V4 API: a FastAPI
service for one options account, with an order queue, alerts, a position sync with
Interactive Brokers, settings, and state kept in JSON files.

## 1. The system

One process serves everything. What runs concurrently in it:

* `def` route handlers run in a pool of worker threads, several at a time;
* `async def` handlers and the auto-sync task (`app/main.py`) are coroutines: they share
  the event loop and interleave at their `await`s only. Some hand a fetch to an executor
  thread and wait; those without an `await` (the event stream, the capability probe) run
  in one piece;
* APScheduler (`app/scheduler/runner.py`) runs its jobs in threads of its own;
* the briefing starts threads that it may give up on.

Shared by all of them: the JSON files under `BASE_DIR` (no lock), the configuration in
memory (a lock around the memory, none around the file), caches and sessions in module
globals, MySQL and Redis (both best effort: their errors are logged and swallowed), IBKR,
and the data service with its one filter per user.

### 1.1 Inventory

| Component | State | Operations | Correct when | Hard because of |
|---|---|---|---|---|
| Order approval queue (`routes/orders.py`, `services/ibkr_web/orders.py`) | `pending_orders.json`; orders at the broker | submit, decline, force-decline, preview, approve, expire-stale; conid resolution, placement and reply confirmation | only an approval reaches the broker, once; what is offered is not live; a decline is final | handlers overlap around calls of seconds; lost answers; a crash between placement and save |
| JSON state files (`services/state.py` 44-162) | one file, its `.tmp`, up to 50 backups; `DEFAULT_...` objects | `read_json`, `write_json` | a reader gets one whole document; no answered update is lost | read-change-save without a lock; one fixed temporary name; backups named after their second and copied in pieces; failures between steps |
| Configuration store (`services/config_store.py`, `routes/settings.py`) | `_config` in memory, `fortress_config.json`, `.bak`, `.tmp` | section update, preset, reset, restore, load | memory reflects every answered update; a restart brings it back | saves outside the lock; two renames; several saves per request |
| Conditional alerts (`routes/conditional_alerts.py`) | `conditional_alerts.json`; until its first save one object in memory | create, patch, delete, intraday pass, EOD pass | an alert fires on a level that meets its threshold, once per arming, never snoozed | passes save a copy read minutes earlier; scheduler and users run them at once |
| Position sync and display (`routes/ibkr.py`, `ibkr_sync_*.py`, `db_v4.py`, `positions.py`) | `active_positions.json`, the MySQL positions table, the last attempt in Redis, the capability cache | auto-sync, sync, retry, preview, confirm a screenshot, read | notes survive; the record is true; nothing open is hidden; the book catches up | awaits of many seconds between read and save; three stores written in turn, two of them best effort |
| Position alerts (`routes/alerts.py`, `routes/manage.py` 1572-1731) | `alerts.json` | list, create, snooze, delete, `monitor_alerts` | one active alert of the monitor per ticker in need; a snooze silences it for four hours; alerts that cannot be read are not overwritten | a read, minutes of quotes and a save; a read error and a save error swallowed |
| Stop-loss and roll rules (`state.py` 497-812, `services/stop_loss.py`, `roll.py`, the scans of `manage.py`) | none | aggregate, exempt, judge, scan | a verdict never improves because time passes or a delta drifts; the exemption is right; all views agree | boundaries, missing inputs, the same verdict computed in three places |
| Position ledger and outcomes (`routes/options_analytics.py` 1806-2241) | `position_snapshots.json`, `entry_conditions.json`, `trade_outcomes.json` | snapshot, weekly pacing, capture of entry conditions, log of a closed trade | pacing charges what was opened; nothing is back-filled; a record serves one trade | three files written one after the other, two of them in place; an unreadable file is an empty one |
| Curated events and volatility history (`options_analytics.py` 723-1624) | three calendars, `iv_history.json` | post, read, gate; record a day's volatility | a silent gate knows why; no day is lost | files truncated and then filled; unreadable is empty |
| Earnings calendar (`routes/calendar.py`, `routes/earnings_fetch.py`) | `earnings_blocklist.json` | edit, confirm, fetch, judge | confirmed dates stay; unknown is never clear | edits and fetches read and save apart, in threads of their own; a fetch takes a minute |
| Journal and universe (`routes/journal.py`, `routes/universe.py`) | `journal.json`, `ticker_universe.json` | add, delete, link; move, exclude | links come in pairs | two halves of a link; overlapping saves |
| IBKR session and clients (`services/ibkr_web/`) | OAuth session, capability cache, primed contracts | token exchange, `ssodh/init`, requests, probe, snapshot | a session that looks valid works; the cache does not outlive what it says | a module global filled in steps by several threads; priming that outlives a session |
| Scheduler and script runs (`scheduler/runner.py`, `routes/run.py`) | `_job_status`, `script_results.json` | cron jobs, manual runs | the status tells of the newest run | several writers of one record, timeouts and restarts |
| Event stream (`routes/stream.py`) | hashes per connection | look, send what changed | a browser comes to show the data | failing sources, lost connections |
| Market intelligence (`routes/market_intelligence.py`, `routes/chart.py`) | the user-wide filter at the service, a lock, a cache per ticker | fetch, read, score | a request answers for its own ticker; score and explanation agree | the filter is shared and only some requests lock |
| Briefing (`routes/briefing.py`) | none of its own; threads it leaks | gather, judge, list actions | the cache warms up; what matters most is shown | it calls the market read, which calls it |
| Gates, selector, playbook, household, reports (`manage.py`, `options.py`, `playbook.py`, `candidates.py`, `household.py`) | none | decisions on what the files say | copies of a rule agree; the recommendation is the best of what is allowed; searches find what they look for | thresholds, missing inputs, rules written two or three times |
| Other views, pricing, front end, gateways, workflow scripts | caches | reads and statistics | out of scope | floating point, external data |

How they interact: `orders.py` reaches the file through `state.py` and the broker through
`ibkr_web/orders.py`. The scheduler calls the alert passes and runs scripts. The auto-sync
task calls the very coroutine `POST /ibkr/sync` calls. `trigger_sync` reads the
configuration in memory, the capability cache and `active_positions.json`; its fetch writes
MySQL from an executor thread; then the coroutine writes Redis, the file, and clears the
cache. `GET /positions` reads MySQL first and the file second. The scans and `monitor_alerts`
read the file, fold it into a row per ticker and judge each row by the rules. The gates read
the earnings calendar, the curated stores, the universe, the trend reads and the
configuration. The briefing reads the pacing of the ledger and runs the market read, which
asks for a briefing when its cache is cold. The stream polls the briefing, the positions and
the alerts.

`PROJECT.json` lists the hazards line by line, with the properties that watch over each.

## 2. Modules

State machines, with their proofs where there are any:

| Module | Models | Role |
|---|---|---|
| `PendingOrders`, `PendingOrdersProofs` | the order queue and what the broker holds; six theorems | detailed |
| `JsonText` | a file's text as two pieces | shared by the stores |
| `StateStore`, `StateStoreProofs` | `read_json`/`write_json` with names, inodes, handles, backups; five theorems | detailed |
| `AtomicFile` | "atomic replace with backup-before-write" | abstract, implemented by `StateStore` |
| `ConfigStore` | memory, file, `.bak`, `.tmp` of the configuration; three theorems, in `ServicesProofs` | detailed |
| `ConditionalAlerts`, `ConditionalAlertsProofs` | routes and passes over `conditional_alerts.json`; four theorems | detailed |
| `AlertLifecycle` | created, armed, fired, gone | abstract, implemented by `ConditionalAlerts` |
| `PositionSync`, `PositionSyncProofs` | the sync jobs, three stores, the capability cache, the broker's book; four theorems | detailed, composes them |
| `PositionRules`, `PositionRulesProofs` | the row of a ticker, its verdicts and urgencies, the scans and the monitor's judgement; two theorems | operators, and a position over time |
| `PositionAlerts` | routes and the monitor over `alerts.json`; four theorems, in `PositionSyncProofs` | detailed |
| `TradeLedger` | snapshots, pacing, entry conditions, outcomes | detailed |
| `CuratedStores` | the three calendars and their gates | detailed |
| `IvHistory` | the volatility history | detailed |
| `EarningsCalendar` | the calendar, its fetch and the judgements of a date | detailed |
| `TradeJournal` | universe and journal | detailed |
| `OAuthSession` | the session object under threads | detailed |
| `WebCapability` | probe, cache, priming, choice of the backend | detailed |
| `JobRunner` | a part of the week: cron jobs, runs by hand, statuses | detailed |
| `EventStream` | one connection, its generator and the browser | detailed |
| `MarketFlow` | filter, lock, caches, requests | detailed |
| `BriefingGate` | the chain of briefings and market reads, with a clock | detailed |
| `MCStores`, `StoresProofs` | the ledger, the four stores, side by side; ten theorems about them | for TLC and for TLAPS |
| `MCServices`, `ServicesProofs` | the six services, side by side; six theorems about them, and those of `ConfigStore` | for TLC and for TLAPS |
| `Decisions`, `DecisionsProofs` | a position over time and the inputs of the operators, side by side; five theorems about them | for TLC and for TLAPS |
| `MCDecisions` | `Decisions`, and the assumptions of 2.12 | for TLC |

Operators on inputs, without variables: `PreTradeGates`, `StrategySelection`, `OptionMath`,
`BookViews`, `TradeStats`, `MarketRegime`, `DailyBriefing`, `Playbook`, `Household`,
`TrendReads`.

For TLC: `MCPendingOrders` and `MCConditionalAlerts` give constants and symmetry; `StateStore`,
`ConfigStore`, `PositionSync` and `PositionAlerts` get theirs from the `.cfg`.
`ConfigStore` and `PositionAlerts` name their variables and operators (`ConfigInit`, `AlertsNext`)
so that a proof module can extend them beside another specification; nothing is shared.
`MCStores`, `MCServices` and `Decisions` put several components side by side: they share
no state, so a behaviour exercises one, its `scope`, and leaves the others at one first
state. That is an economy of runs and of proof modules, not a composition; the components
that do act on each other are composed in `PositionSync` (jobs, file, table, record,
capability cache), `BriefingGate` (briefing and market read) and `TradeLedger` (three files
and the pacing). `MCStores` and `MCServices` take the threads, tickers and bounds of their
components as CONSTANTS, so that the theorems about them hold for all of these.

### 2.1 Conventions

*Grain.* A handler is split where another thread can run and matter: after its read and
guards, after each call to the outside, at its save. A thread's record holds its next step
(`pc`) and the copy it works on, which is what it will save. In `PositionSync` the steps are
the code between two awaits; `LoopFree` keeps other coroutines out while one is between two
steps that have no await between them.

*Refused requests* (404, 409, 400) change nothing and are the absence of a step.

*Data.* An order's payload, a quote, a document are members of small sets: a document of
`StateStore` is the set of requests it reflects, so that a lost update is a missing element;
a configuration is the set of section updates it reflects; a price is below, at or above a
threshold; a leg is a model value.

*History variables* (`overlapped`, `excused`, `acked`, `wiped`, ...) record what has happened
for the properties to speak of; no action reads one in its guard. Each variable says so.

*Variants.* A definition such as `ApproveOrderTwice` or `FetchedBare` stands above the one it
is a faulty variant of. `PROJECT.json` ("mutants") names the property each variant breaks
when it takes the original's place.

### 2.2 PendingOrders

`queue` is the file, `th` the handlers, `placed` how many orders the broker has accepted
under each client order id. One action per route: `SubmitPendingOrder`, `DeclineOrder`,
`ForceDeclineOrder`, `ExpireStaleOrders`, `PreviewOrder`, `ApproveOrder` read and check;
`ResolveLegConids` and `PlaceOrder` are the calls to IBKR; `SavePendingOrders` ends all of
them. `PlaceOrder` chooses among what IBKR and the network can make of the order and of the
reply loop: accepted and told so; accepted on a confirmation whose answer is lost
(`place_order` still reports ok, without an id); a prompt never confirmed, also reported
ok; refused; accepted although the first answer is lost. `RequestFails` and `Crash` may
hit between any two steps. Whether IBKR deduplicates a repeated client order id is not
known from the code; the model lets it accept both.

Some statuses exist on one side only: `orders.py:10` lists "approved", which no code sets,
and leaves out "expired", which `expire_stale_orders` sets. The model has those the code sets.

### 2.3 StateStore, AtomicFile, JsonText

Names (`path`, `tmp`) point to inodes; an open handle keeps its inode when the name is
moved. `write_json` is `CopyOpen`, `CopyHead`, `CopyTail` (`copy2` into the backup named after
the second `now`, which it creates or truncates and then fills), `ListOld` and `Unlink` (what
is too old is listed once and unlinked one by one), `OpenTmp` (create or truncate the one
`.tmp`), `WriteHead`, `WriteTail`, `Replace`. A fault may hit between any two of them, so a copy
can be cut off; it counts among those that are kept. A second save of the same second truncates
a good backup and fills it anew. A text is two pieces, which is enough for a reader to tell
whole, half-written and mixed files apart. `default` is the module-level object that `read_json`
hands out when there is no file and that handlers change in place. `AtomicFile` is what is left
of the promise of the docstrings: a save replaces a whole document by the next, which loses
nothing, and at that moment the replaced one is whole in a backup. How long it stays there is
not promised, and the code does not keep it for long: the next save of the same second may be
cut off after it has truncated it.

### 2.4 ConfigStore

`mem` is `_config`; `conf`, `bak`, `tmp` are names. A request merges a section under the
lock, takes a `Snapshot`, writes and renames without the lock (`OpenTmp` to `Renamed`), and
either answers or goes on with its next section (`apply_preset`, `config_restore`).
`Restart` is `load`, which reads `fortress_config.json` and never the `.bak`.

### 2.5 ConditionalAlerts, AlertLifecycle

`file` has an entry per alert, once it is there (`present`); until then `_load` returns
`default`, the module's `_DEFAULT_CA`, and `Shown` is whichever of the two a request reads.
`CreateConditionalAlert`, `UpdateConditionalAlert` and `DeleteConditionalAlert` are the routes;
`EvaluateConditionalAlerts` then `LiveQuotes`, and `EvaluateCloseAlerts` then `DailyClose`, are
the passes; `Save` ends each, creates the file and reports. Without a file a request changes
`default` in place: others see the change before the save, it stays when the save fails
(`RequestFails`), and only a restart (`Crash`) takes it back. So a change takes effect
(`TakesEffect`, which counts armings and deletions) in `default` at once and in a file with the
save. `Seen` is what a pass meets when it comes to an alert: its copy or, of the default object,
what others have made of it by then. `WithPositions` is the branch that needs
`state.get_positions`, a function that does not exist. Refinement: `AlertLifecycle!phase` of an
alert is "gone" once its deletion has taken effect, else "fired", "armed" or "none" as its entry
in `Shown` says; `answered` holds the alerts a request about which was answered, and the one
thing a restart may do (`Restart`) is lose alerts of which none was.

### 2.6 PositionSync

`book` is what the broker holds, `file` the positions file with the origin of its legs and
what `ibkr_last_sync` stands for, `db` the rows of the MySQL table, `record` the last
attempt in Redis, `cap` the capability cache, `job` the syncs under way. `AutoSync`,
`TriggerSync`, `RetryLastUpload` and `PreviewSync` choose a backend and start the fetch
(`Dispatch`, `Begin`); `FetchPositions` is the Web API fetch with its upsert,
`SyncSynthetic` the one without a broker; `RecordSync`/`SaveSync` and
`SaveRetry`/`RecordRetry` end them in the two orders the two routes use; `SaveFails`,
`FetchFails` and `Crash` are the ways out. `GetCapability` and `CapabilityExpires` move the
cache under their feet. The broker's answer and the stamp are taken as of one moment.
MySQL's schema is not in the repository: a row per contract is assumed, and the rows of one
upsert are committed together, as `upsert_positions` does. Contracts without a conid, which
get no row, are left out. A second trade account is left out.

### 2.7 PositionRules

`legs` are the legs held on one ticker, `quote` what the market data says of its price,
`today` the day. The operators follow the code function by function:
`aggregate_positions_by_ticker` is `PrimaryShort`, `PrimaryShortPut`, `PrimaryLong`,
`Strategy`, `CurrentDelta`, `RollExpiry` and `AlertState`; `short_call_vertical_exempt` is a
fold of `CoverShort` over the short calls, each a fold of `TakeFrom` over the long ones, both
over sets of positions in the book, of which `Highest` gives the last one to be served;
`evaluate_stop_loss` is `StopScore`, `evaluate_roll` is `RollUrgency`; `StopOne`, `StopAll`,
`RollAll`, `LeapRoll`, `TimeManaged` and `MonitorNeed` are the routes. Actions let a day
pass, a sync save another delta, the price move and a leg be closed. Verdicts and urgencies
are numbers so that "worse" is "greater". Prices are reduced to what the rules ask of them
(below the average, below a floor), drawdowns to their score; deltas are whole percents.
`OneLegEach` says that a book has one leg per contract, which is how the sync reads an account
(`ibkr_sync_web.py:106`, `:251`) and an assumption on the books; with two legs of one contract
the set of covered strikes says of both what the loop found out of one.
When several strategies are labelled equally often the code picks by the order of a set of
strings, which differs between processes; the books of the run have no such tie. What a
short leg has captured of its premium is left out; the proposals for a roll are in
`OptionMath`.

### 2.8 PositionAlerts

`alerts` is the file by id, `damaged` that it is not JSON, `need` the tickers for which
`MonitorNeed` is not "none", `now` the hours, `th` the requests. `Create`, `Update` and
`Delete` read and change; `PassBegins` reads and works out who is `Silenced`; `Judge` judges
one ticker by the quotes of the moment and, if it needs an alert, adds it to the copy;
`Judged` ends the pass or goes on to `Save`. A pass that cannot read the file takes it for
empty but has no document to save: it fails if it has made an alert (`existing_data` is
unbound, an accident that is also a protection; `BlindNeverSaves` holds because of it).
`Damage` stands for what `StateStore` shows two overlapping writers may do, and `Repair` for
a backup put back. An id is not drawn twice (`uuid4`, of which the code keeps 32 bits).

### 2.9 TradeLedger

`snaps` is the book of each day as snapshotted, `entries` the conditions captured for the
short legs, `outcomes` the trades logged. A request reads (`CaptureLoad`, `EntriesLoad`,
`LogTradeOutcomeReads`), waits for quotes, and writes: the snapshots in one step
(`CaptureSave`, an atomic replace), the other two files in two (`EntriesOpen` truncates,
`EntriesFill` writes; likewise `OutcomesOpen`, `OutcomesFill`), between which anybody reads an
empty store. `Trade` and `Midnight` move the book and the day. `PositionOpens` is the weekly
count of the briefing, per ticker, with the quantities that grew since the last snapshot
before the week as its base.

### 2.10 The stores: CuratedStores, IvHistory, EarningsCalendar, TradeJournal

*CuratedStores*: the macro events, the headlines and the ex-dividend dates. The code of the
three differs in the row, so `kind` picks one. `OpenStore` truncates, `FillStore` writes,
`FillFails` and `Crash` leave the text torn, which the readers take for an empty store; what
they say then (`Stale`, `Warnings`) is the subject of `SilenceIsInformed`.

*IvHistory*: `GetIvRank` reads the history and adds today's value, `OpenHistory` and
`FillHistory` write all of it back. `Newest` and `Oldest` are the two ends the pruning keeps
and drops.

*EarningsCalendar*: `UpsertEntry`, `ConfirmDate` and `DeleteEntry` read and change (`Start`), the
fetch reads (`BeginFetch`) and takes in the answers ticker by ticker (`FetchTicker`); `Save` writes
the whole document of either, `RequestFails` and `Crash` leave it. Like the alerts, the calendar
is an object in memory until its first save. `missed` records what others have saved of a ticker
since a request read it. `Status`, `EarningsState` and `IsBlackout` are the three judgements of a
date.

*TradeJournal*: `UniverseEdits` and `JournalEdits` are what a route makes of a document;
`ReadUniverse`, `ReadJournal` and `Save` let a second route save in between. `Admitted` is
the rule on new entries of excluded tickers and rule breaks, which one on `General` passes.

### 2.11 The services: OAuthSession, WebCapability, JobRunner, EventStream, MarketFlow, BriefingGate

*OAuthSession*: `session` is the module's one object; each field is written in a step of its
own, as the lines are, and a thread holds the object it found (`StoreExpiry` writes into
whatever is the session by then).

*WebCapability*: `streaming` is what the gateway streams, `primed` what this process believes
it does; the two part when the session is lost. `BeginProbe` and `EndProbe` surround the wait
of the snapshot; `Served` and `Backend` are what the callers see until the answer is `Ttl` old.

*JobRunner*: `Due` is the table of the cron triggers in slots of five minutes; `FireJob`,
`RunScript` and `RunGroup` start scripts, `EndScheduled` and `EndByHand` end them and write the
two statuses, `Restart` orphans the processes.

*EventStream*: `turn` is where the generator is in its tick, `sent` its hashes, `wire` what it
has sent and the browser has not read. A hash is taken to tell versions apart.

*MarketFlow*: a request is a plan of steps, `Plan(kind)`: set the filter, read a widget, take
and release the lock. That one user has one filter is how the code uses the service, which is
not in the repository.

*BriefingGate*: `level` is the chain of briefings, each asked for in the thread the one before
has started; the clock moves when nothing else can, and a wait of two seconds is `Budget`
ticks against bounds on reading and fetching.

### 2.12 Operator modules

Each follows its functions one by one and takes a record of what they read; missing values are
values of their own. *PreTradeGates* has the gates three times, as the code does; `Tradable`
is the candidates page. *StrategySelection* is the selector with its cut-offs. *OptionMath* is the
three searches for a strike, on a falling table of deltas in the place of Black-Scholes, the
limits of a position, the proposals for a roll and the scenario estimate. *BookViews* is the
greeks, the hedge, the covered-call candidates, the account limits and the series of cluster
shares; *TradeStats* the two summaries of closed trades and the two ways to detect one;
*MarketRegime* the walls, the regime, the setups and the checks; *DailyBriefing* the greeks of
the portfolio, the dollar deltas, the entries of the week and the list of actions; *Playbook*
the post-earnings matrix and its route; *Household* the two books; *TrendReads* the three time
frames of the trend.

They have no actions, so their properties are about inputs. Where a mutant of the code tells
most, the inputs are scopes of the run `decisions`, one state per input; the rest are
assumptions of `MCDecisions`, which TLC evaluates over all their bounded inputs before it
starts:

| Assumption | What it says of every input |
|---|---|
| `ShortCallsStepBack` | a short call is sold no nearer to the money because earnings are nearer, and further from it at a high volatility |
| `LimitsOfSpreads` | the scan of prices finds the limits of a call spread, up to those shown as unlimited; after the last expiry the forward P&L is that at expiry |
| `RollsDiffer` | the proposals for a roll are options of the pool, no two of one strike, the nearest first |
| `ScenarioDeltaBounded` | the estimate of a long strategy is never short, nor longer than the stock |
| `ReportMatchesScan`, `UrgentRowsAreShown` | the trade report offers what the scan lets proceed; no row is both open and an exit; urgent rows survive the cut |
| `PageIsTheWeakerGate` | the candidates page stops nothing that the check allows, and what it misses fails a gate it does not know |
| `BucketsPartition` | ranges that adjoin put a trade in one of them |
| `SetupsExclude`, `ChecksExclude` | no contrary setups of one reading; what is critical is not also a warning |
| `GreeksAdd` | the greeks of a book are those of its parts |
| `CandidatesAreUnwritten`, `HedgesGrow` | calls are offered only where a lot has none; one more spread never makes a hedge too small |
| `LimitsGiveWay` | more cash or a lower floor never adds a breach, unknown cash has none |
| `SeriesIsOrdered`, `ReadingsAreKept` | the series of cluster shares is in order, bounded, with the last reading in it; a post on one ticker leaves the others |
| `GatesOfNames`, `SpreadsCountOnce` | the gates on dollar deltas freeze the right names; of a spread one line is the short put |
| `BudgetOfTheWeek`, `FirstThingsFirst` | more volatility never leaves fewer entries; the list of actions puts the most urgent first |
| `PlaybookIsCautious`, `RouteNeverProceeds` | a share in the book never makes a verdict bolder; the route never says PROCEED (3.2) |
| `CutNamesAreHeld`, `LadderIsClimbedInOrder`, `HedgesAreFarPuts` | a name the cut of the household leaves out is held; the ladder is climbed with known, open gates only; a flagged hedge stays flagged as its expiry nears |
| `GapsAreNoBreach` | no gate closes and no thesis breaks for a trend that could not be read |

## 3. Runs

| Run | Bounds | What it shows |
|---|---|---|
| `orders` | 2 handlers at a time, 2 orders (1 DAY), 5 requests, every outcome, 2 faults | the queue against the broker |
| `orders_decline` (violation) | 1 order, 3 requests, no fault | a decline answered with success leaves a live order |
| `state_store` | 2 writers, 3 requests, 1 kept backup over 2 seconds, 2 faults | the file and its backups, both written in pieces, against `AtomicFile` |
| `config` | 2 requests at a time, 3 updates, 1 reset, 2 faults | memory and file |
| `alerts` | 2 threads, 3 alerts (intraday, daily, weekly), 4 requests, 1 fault, with and without a first file | alerts against `AlertLifecycle` |
| `sync` | auto-sync and 1 other job, 2 legs, 1 trade, 1 other event | the three stores against the broker, and that the book catches up |
| `position_alerts` | 2 threads, 2 requests, 2 tickers, 3 ids, 2 hours with a cooldown of 2, 1 fault | the monitor and the users over one file |
| `ledger` | 2 threads, 3 legs (one of them SPY's), Friday and 2 days, 2 trades, 3 requests, 1 fault | pacing, captures and outcomes against what was traded |
| `stores` | a scope for each of 4 components: 2 threads, a few days, up to 4 payloads and 3 ids | calendars, volatility history, universe and journal |
| `services` | a scope for each of 6 components: 2 threads and 3 tokens; 2 contracts, 5 ticks; a Friday and 2 scripts; 2 kinds of event, a wire of 2; 2 requests; a clock of 26 | sessions, caches, statuses, the stream, the shared filter |
| `decisions` | 7 scopes: 71 books over 6 days with 5 deltas on, above and below the thresholds; for the others every input next to each threshold or missing | the rules over time and copy against copy |
| `decisions_scenario` (violation) | one scope of `decisions` | the scenario's put strikes are not those of its delta |

Why the bounds are enough to meet the interesting cases. Every conflict over a file in this
code is between two parties, a writer with an old copy and one with a newer, so two threads
meet it and a third repeats it. Requests bound how long a story may be: five suffice for
submit, approve, lose the answer, approve again with a decline or an expiry in between; four
for create, fire, re-arm, fire; three saves for two that collide and a third that reads the
result. Two faults allow one to strike during what another has left. Inodes are one more than
names and handles need, so the supply never blocks a step. In `sync` the one event may be any
of a lost session, the setting, a screenshot, a Redis or MySQL failure, a full disk or a
crash, and the number of jobs is not bounded at all. In `position_alerts` two requests are a
snooze and the pass after it, or two that overlap, and the first file may hold an alert
already. In `ledger` the three days are the one the week is compared with, and two of the
week, so that a snapshot is replaced, a leg is opened and closed on different days, and a roll
keeps a ticker's count. In `services` three tokens are one that is lost, its successor, and
one taken meanwhile; the ticks outlast the cache twice; Friday has every job of the two
scripts, and the end of the week; a wire of two holds a tick's events of both kinds; the
clock outlasts what a cold briefing sets off (`Episode`) twice. In `decisions` the thresholds
keep their order and lie one or two days, or a few percent, apart, so each is met from below,
exactly and from above; contracts per leg are 1 or 2, enough for a long call to cover one
short call and part of another; in the other scopes a scaled threshold has a value on it and
on either side, and each missing value occurs. Every safety and action property of the
passing runs is proved (section 5): for every value of the bounds, and of the scopes of
`decisions` that look at inputs for every input of their sets.

### 3.1 What is shown to hold

Always, whatever overlaps, fails or crashes:

* `TriggersConfirmed`: a triggered alert is one its recorded level confirms. Only two requests
  at once on the default object, before there is a file, can leave another (`clashed`).
* `MemoryKeepsAnswered`: until a restart, `cfg()` reflects every answered update.
* `RecordTellsSaved`, but for a crash and a result Redis has not taken;
  `NothingOpenIsHidden`, as long as MySQL took every write; `BookCatchesUp`.
* `BlindNeverSaves`: no request saves alerts it could not read.
* `PacingBracketsOpens`: the week is charged with no more than the legs opened and no less
  than what the tickers gained. `BackfillsNothing`: no conditions for a leg that did not grow
  between the two snapshots compared. Both up to a snapshot taken of an unreadable book,
  which is saved as an empty one (`options_analytics.py:1880`).
* `SilenceIsInformed`: a catalyst gate warns of everything the last stored post warns of, or
  says that its calendar is stale. `HistoryKept`: the newest values taken of a ticker are in
  the volatility history, up to an overlap of calls or one cut off, which `excuse` records.
* `ConfirmedKept`: a confirmed date that lies ahead goes away by a request in which the user
  names the ticker, or by one that has not seen it: the save of a fetch, or of an edit of another
  ticker, that read the calendar before (`missed`), and a restart before the first save. It says
  that no request that has seen the date takes it away, not that overlaps are harmless: they are
  not (3.2). `NeverClearByMistake`: a date that is unknown, past or in the
  blackout is never a clear one, and the three judgements bar the same tickers.
* `LinksComeInPairs`: an entry that names a partner still in the journal names one that
  carries a stamp itself, whatever saves over whatever.
* `EstablishedMeansUsable`: a session that looks valid works, with the excuses the code
  leaves: a thread half way, an `ssodh/init` that failed (`oauth_client.py:279` stores the
  token before), a token that IBKR ended.
* `LiveBackendIsRecent`, `SecondProbeTells`: the capability cache does not outlive what it
  says, and priming that has outlived its session misleads one probe and not the next.
* `StatusOfNewestRun`, `BrowserCatchesUp`, `LeakedFetchWarms`.
* `LockedReadsOwn`: requests that hold the lock read their own ticker, up to a failed PUT and a
  request without the lock.

As long as no two requests on the same file overlap (`~overlapped`), which is what the code
relies on without enforcing it:

* `OneLivePlacement`, `OfferedMeansNotLive`, `DeclineIsFinal`. The first two hold up to the
  three excuses counted in `excused`: a lost answer, a crash or a failure before the save,
  and an expiry by the local clock. In each of them the code offers a live order again.
* `WholeWhileAlone`, `AckedKeptWhileAlone`, `NoTraceOfFailures` and `ImplementsAtomicFile`
  (the last two also need a file that was there: without one, a failed request has changed
  the default object). `ImplementsAtomicFile` includes that a save replaces nothing of which
  there is no whole backup, however many copies were cut off before.
* `ReportedOncePerArming` and `ImplementsLifecycle`, also from a fresh install, where an arming
  is one that has taken effect, in the file or in the default object, answered or not.
* `RestartKeepsAnsweredOutsideRename`, `NotesSurviveSyncs`, `RecordUsedOnce`.
* `SilenceHolds` and `NothingMissed`: a pass adds no alert where one is active or was snoozed
  within the cooldown, and leaves one for every ticker that was in need throughout.

Of the decisions, for every input of the bounds:

* `NothingCalms`: waiting, or drift of a delta, never makes a verdict or an urgency better (a
  LEAP core that has become short-dated leaves its scan; the property says so).
* `ExemptIffCovered`: the greedy cover finds the primary short call exempt whenever it can be
  covered together with those below it, and never spends a contract twice.
* `CopiesAgree`: the gates of an entry in three routes, the need of an alert in the monitor
  and the scans (up to exempt verticals and what the monitor skips), the summary of the
  closed trades in a route and a script, and the score of the market beside its signals.
* `SelectionSound`: what is recommended is the best of what is eligible, nothing within the
  blackout and nothing bullish under the weekly average; nearer earnings raise no score. `StrikesMeetTheirDelta`: the searches of the selector and the collar
  end next to the strike of the delta. `HedgePaysWhatItSays`: the payout of covered
  spreads is never more than what they are worth at most, and that if as many are long as
  short.

### 3.2 What is shown not to hold

Two statements of the repository disagree with the code; each has its run and its entry under
"findings": `orders.py:148` (a decline can leave a live order) and `options.py:1347` (the
strike search of the scenario estimate claims the logic of `strategy_metrics`, whose inverted
branch was corrected there only).

Met on the way and not given a run.

*Files and configuration.* `state.py:60` and `:80`: two writers share the temporary file, so a
reader may meet a malformed one. `state.py:72`: a backup that was cut off, or is being written
over by a save of the same second, counts as one of the 50. `config_store.py:9`: a crash
between the two renames makes `load` answer the defaults (`:367`, `:380`). `settings.py:559`:
the account id is mirrored into `dashboard_settings.json` by one route; `settings.py:123`: the
LEAP blackout it accepts never reaches the gates; `settings.py:1222`: an update of the
credentials on a damaged file drops the other tools.

*Alerts and positions.* `conditional_alerts.py:183`: alerts on positions are never evaluated,
for `state.get_positions` does not exist. `state.py:711`: the delta of a long call does trigger
stop-loss and roll alerts. `manage.py:1580` leaves WARNING out of what the monitor alerts on;
`manage.py:1606`: an active "warn" alert keeps the "critical" one of its ticker away. The second
URGENT test of `leap_roll_all`, a DTE of 60, is never met past its filter of 90.
`GET /manage/roll/{id}` leaves the delta out and can answer NONE where `roll_all` says URGENT.
`manage.py:1533`: "last 3 days" after earnings is never met, as past dates have no distance.
`manage.py:749` rules out "within limits" for unknown values, which `risk_limits` answers.

*Sync and broker.* `ibkr.py:220`, "without writing anything to disk": a preview writes MySQL and
the settings. `db_v4.py:128` never deletes a row, so `GET /positions` keeps closed positions. A
retry skips the beta enrichment of the sync it repeats. `docs/shared/SYSTEM.md:206`
"Force-cancel any order" does not cancel at the broker; the docstring of `approve_order` speaks
of a what-if preview it does not make.

*Market and briefing.* Requests without the lock set the user-wide filter under one that holds
it (`market_intelligence.py:185`). A briefing on a cold cache never gets its gate, whatever the
speed of the service (`briefing.py:606`). A static pacing of 0 counts as no setting
(`briefing.py:319`). Walls that have crossed are pinned between all the same
(`market_intelligence.py:707`). A failed trend read is served for hours
(`options_analytics.py:838`, `:890`, `:943`); with one of two averages the daily trend is
"mixed" and the monthly one is of what there is.

*Decisions.* `routes/playbook.py:56` passes a thesis fields that `services/playbook.py:13` does
not have, so any request with one, which the page always sends (`static/phase4.js:229`), ends
in a TypeError and PROCEED cannot be reached; the upper end of the prime band is only shown.
A limit at the cap of the scan or beyond is "unlimited" even for defined-risk spreads
(`options.py:418`). Names beyond the first seven of the household have no known share and can
never be eligible; the seed's shares are used as if they were live.
`earnings_fetch.py:137`, "Existing confirmed dates are preserved" (`:10`): the fetch saves the
calendar it has read a minute before, so a date that is confirmed meanwhile is lost; so are
the other tickers' changes with an edit that overlaps another (`calendar.py:100`).

## 4. Fairness

`PositionSync`: strong fairness of the auto-sync's steps: the task loops for ever, its sleep
ends, its requests have timeouts, and the event loop serves ready coroutines in turn, so a job
of somebody else cannot shut it out although it disables the step again and again. Weak
fairness of the steps of other jobs, for the same reasons. Nothing is assumed of users, the
broker, the gateway or the cache. `BookCatchesUp` needs its premise: with no option in the
book the capability probe has nothing to quote, the resolver falls back to the synthetic sync,
and the file keeps the last book; that is how the code is written, and dropping the premise
makes TLC show it.

`EventStream`: weak fairness of `Connect` (the browser's EventSource reconnects by itself), of
`Look` (the generator's sleep ends) and of `Receive`. Nothing of the data, the sources or the
connection, which may fail for ever; `BrowserCatchesUp` has as its premise that they do not.

`BriefingGate`: weak fairness of the threads' steps (`Work`) and of the clock (`Tick`): reads and
fetches have timeouts. That a new briefing is asked for is not assumed.

The other modules are safety only: a worker thread may be killed at any step.

## 5. Proofs

TLAPS checks every leaf; what is assumed of the constants are the named assumptions of the
modules (`OrdersAssumption`: finitely many threads; inode 0 is none; bounds are naturals).
The theorems hold for every number of threads, orders, alerts, inodes and every bound.

* `PendingOrdersProofs`: `IInv` = `TypeOK` and `AskingInv` (placements plus approvals still
  on their way do not exceed the calls of `approve_order`; needed because a placement alone
  does not show that its approval is used up), `GenuineInv` (of the file and of every copy),
  `FreshInv` (an undrawn id is nowhere, so a submission overwrites nothing), `HandlerInv`
  (the shape of a handler at each step) and `AloneInv` (without overlap at most one handler
  runs, its copy differs from the file by its own order, and live orders are not offered).
  Conclusions: `TypeCorrect`, `ApprovedBeforePlaced`, `IdsAreGenuine`, `PlacedOnceAlone`,
  `OfferedNotLiveAlone`, `DeclinedStaysDeclined`.
* `StateStoreProofs`: `DiskInv` and `WriterInv` (the published inode is whole and is not the
  one being written) and `BackupInv` (from its copy on, the backup of the writer's second holds
  the document that it will replace, as far as it is copied) give `WholeAlone`,
  `AckedKeptAlone`, `FailuresLeaveNoTrace` and the step simulation
  `StoreImplementsAtomicFile`. `CopyStep` is what keeps `BackupInv`: with `CopiesPast`, that no
  backup is later than the clock, `LatestNotOld` shows that pruning spares the newest.
* `ServicesProofs`, whose last section is about `ConfigStore`:
  `MadeInv` (every request's merged updates that no reset has wiped are
  in memory) gives `MemoryIsEnough`. `FileInv`, that without overlap, and until `load` has
  fallen back to the defaults, the names hold what the step of the one save under way says
  and the file what is owed, gives `RestartIsEnough`.
* `ConditionalAlertsProofs`: `ConfirmedInv`, that every copy a request may save is confirmed, like
  the file, and so is the default object unless two requests have clashed on it, gives
  `TriggersAreConfirmed`. `AloneInv`: without overlap at most one request runs, and what it will
  save differs from what is shown as its operation says or, when it works on the default object,
  not at all; a report still to come is one that its arming allows. With it every step takes
  effect as a step of `AlertLifecycle`, and a restart loses only what was never answered
  (`EffectRefines`, `RestartRefines`), which gives `ReportedOnceAlone` and the simulation
  `LifecycleImplemented`.
* `PositionSyncProofs`: `TypeCorrect` rests on the module's type invariant alone. `RecordInv`,
  that only a sync between its record and its save has a success in Redis it has not saved,
  and that at most one job keeps the loop busy, gives `RecordIsTrue`. `RowsInv`, that while
  MySQL took every write the legs of the file and of every job's copy have their rows, gives
  `NoneIsHidden`. `NotesInv`, that without overlap a job between its fetch and its save holds
  every note the file has on a leg it keeps, gives `NotesAreKept`.
* `PositionSyncProofs`, whose last section is about `PositionAlerts`:
  `AlertIInv` = `AlertsTypeOK`, `OneAtATime` (requests that have not overlapped),
  `Discipline` (a thread that saves has read the file and judged all; one between requests
  keeps nothing) and `PassInv`: the copy of a pass that runs alone differs from the file by
  one new, active alert for each ticker judged in need, and by nothing for the tickers the
  file silenced when it was read. The properties speak of one step and are not inductive;
  `PassInv` is what relates the copy at the save to the reading. Conclusions: `AlertTypeCorrect`,
  `NoBlindSave`, `SilenceKept`, `NoneMissed`.
* `StoresProofs`: one invariant per store.
  `CuratedInv` (the file is torn, empty and unstamped, or what was stored whole last) gives
  `SilenceInformed`.
  `HistoryInv` gives `NewestAreKept`: what keeps a value is that a call carries the newest
  ones through the time the file is empty; `NewestOfPart` (what is among the newest of a set
  is among the newest of a part that holds it) and `SnapshotHolds` are the lemmas.
  `CalendarInv` with `ReadInv`, that a request will save every confirmed date ahead of a ticker
  it is not about and of which it has missed nothing, gives `ConfirmedStays`; types are enough
  for `NeverClear`.
  `JournalInv` (pairs and identifiers of every document a request holds, like those of the
  file) gives `LinksInPairs`, by one lemma for each edit.
  `LedgerInv` has three parts. `LedgerTypes`. `AccountsInv`: a snapshot in the store, or in
  the hands of a capture, accounts for the book: a leg that is shorter than the snapshot
  shows has grown since, and one that was not short in it was opened; every snapshot accounts
  so for the later ones (`Chained`). It gives `NothingBackfilled`. `RecordsInv`: without
  overlap a record that a closed trade has used is gone from the store and from every document
  on its way there, which gives `RecordsServeOnce`.
  `PacingBrackets` needs more than the invariant. Sums over a finite set are those of the
  community modules; `SumUnfolds`, `SumSplit`, `SumSubadditive` and `SumOfSizes` say of them
  what is needed. A gain of a ticker is at most the number of its legs opened (`GainOpened`),
  gains over two spans add up to no less than the gain over both (`GainsAdd`), and the openings
  of adjoining spans are disjoint; so the first day of the chain for which `ChargedBetween`
  would fail has a predecessor, and there is none.
* `ServicesProofs`: `SessionInv` (a token is on its way, or its brokerage session was opened or
  refused, or IBKR has ended it; one not stored yet is known to one thread) gives
  `EstablishedWorks`. `CapabilityInv` (an answer that says established is no younger than
  `lastUp`; a session probed to its end streams its contracts) gives `LiveIsRecent` and
  `ProbeTells`. `RunsInv` (a script has one scheduled run at a time, and no run under way is
  older than the status) gives `NewestRunShows`, for any part of the week; `JobsApart` and
  `FiresAlone` show that of the code's table of jobs two of one script are due further apart
  than a run may last. `FlowInv` = `FilterInv` (the holder of the lock has everything before it, is
  excused, or has its ticker in the filter) and `LockInv` (only requests of the kinds that
  lock hold it) gives `LockKeepsTickersApart`.

In the last two modules a step of `MCStores` or `MCServices` is a step of one component or leaves
that component's variables unchanged (the lemmas `CuratedOfStores`, `HistoryOfStores`, ...),
so an invariant of the component's steps is one of the whole specification. The assumptions
of the components are definitions (`LedgerAssumption`, `FlowAssumption`, ...), whose
conjunction `StoresAssumption` or `ServicesAssumption` is the ASSUME that TLC evaluates.

`PositionRulesProofs` and `DecisionsProofs` are about the run `decisions`: the first about the
rules for a book, for any books, days, deltas and thresholds that `RulesAssumption`,
`ContractsAssumption` and `DueAssumption` allow, with the lemmas on folds, sums and greedy
matching; the second about the inputs of the other scopes. A behaviour of `Decisions` is one of
`PositionRules` (`RulesOfDecisions`), so the theorems of the first hold of the run (`RulesHold`).

* Two invariants: `BookInv` (a sequence of legs on a day) and `OneLegEach` of the book. The
  rest is about operators, most of them folds over finite sets: `FoldsAgree` and what follows
  it say that a fold is the recursion it stands for and that there is one; `SumSplit` and
  `SumUnion`, that a sum is taken in any order.
* `WaitingNeverHelps`: every verdict and urgency is the greatest of a few reads, each of which
  grows with time and with drift (`DeltaScoresGrow`, `RollGrowsWithTime`, `LegsAgeAsRows`);
  the strategy, the primary legs and the exemption depend on neither (`SameStrategy`,
  `SameLegs`, `SameExemption`).
* The short calls of `PositionRules` and the put spreads of `BookViews` are served by one
  greedy loop, so what it achieves is shown once, of short legs that may use more of the long
  legs the later they are served (`IsMarket`). It meets all of them if of every first part the
  need is no more than what they may use (`Fits`, `AllMet`): a leg that is not met has used up
  all it may use, and those before it took no more than they needed (`MetNoMore`).
  `ExemptionIsRight` follows by `CoverMatches` and `MetWhenFits`.
* `HedgesPayWhatTheySay`: the payout of spreads that all find their partners is what the puts
  are worth in all, less what is left over (`PaidInFull`, `WorthOfPuts`). `SpreadsPay` says so
  of any finite set of puts with one leg per strike; the puts of the scope are such sets.
* `SelectorIsSound`: scores are clipped sums (`ScoreIs`), which nearer earnings lower; the
  comparison of two strategies orders the eligible ones, so the one of least rank is above
  all others.
* `SearchesFindTheirStrike`: each round of `Bisect` halves a bracket that the crossing stays in
  (`RoundKeepsBracket`), whatever the table of deltas.
* `CopiesSayTheSame`: the copies of the gates (`gates`), of the judgement of a position, of the
  statistics and of the score of the regime, each for every input.

What the proofs said of the model: `ExemptIffCovered` needs `OneLegEach`, which the books of the
run had without saying so; the branches of `ClassifyFill` overlapped, so that what a reversal is
called was left to the order of a CASE, which only the code's chain of `if`s settles; and the
scan of `profit_targets` may lag behind the roll rules when the settings put `DteUrgent` or
`DteWarning` above `DteManage`, hence `DueAssumption`.

Induction over a finite set is written with `MinimalSet`: a non-empty set of subsets of a
finite set has a minimal one. It needs no theorem with an operator as a parameter: the
subsets for which a lemma fails are a set, and a minimal one is refuted.

Only model-checked: the assumptions of `MCDecisions` in the table of 2.12, which TLC evaluates
over all their bounded inputs and which nothing is proved from, and the two runs that end in a
violation. Out of the prover's reach: liveness under fairness and ENABLED (`BookCatchesUp`,
`BrowserCatchesUp`, `LeakedFetchWarms`), induction over data with the library's theorems,
RECURSIVE operators (there are none here).

## 6. Not modelled

`import_backup`, the credential routes and the account-id mirror of the settings; the badge
summary of the alerts; OCR and chart uploads; the metrics and suggestions of the journal; the
views of market data that keep nothing and decide nothing (exposures, skew, liquidity, the term
structure, price checks), their discovery of widgets and portfolio paging; the keep-alive of
the gateway's session (`session.py`) and the limits of requests; the sources, volumes and
floating-point mathematics of market data; authentication; the front end, the gateway
containers and the workflow scripts, which are clients of the routes. Black-Scholes is a table
that falls where it falls. Wall-clock durations are modelled only where an order of things
depends on them (`WebCapability`, `JobRunner`, `BriefingGate`). `PROJECT.json` ("components")
gives the status of each part.

## 7. Plan

Built and checked: all modules of section 2. Proved: every safety and action property of the
passing runs. Left for later work, in this order:

1. The account-id mirror and `import_backup` in `ConfigStore`; the session keep-alive beside
   `WebCapability`.
2. Of the assumptions of 2.12, those that hold of inputs of any size (`RollsDiffer`,
   `GreeksAdd`, `SeriesIsOrdered`), as theorems about their modules.
3. The spreads of `HedgesPayWhatTheySay` without the condition of one leg per strike: the loop
   of `manage.py` does not need it, the order of the fold does.

## 8. Running

    tlc -workers 2 -config PendingOrders.cfg MCPendingOrders.tla
    tlc -workers 2 -config PositionSync.cfg PositionSync.tla
    tlc -workers 2 -config TradeLedger.cfg MCStores.tla
    tlc -workers 2 -config Stores.cfg MCStores.tla
    tlc -workers 2 -config Services.cfg MCServices.tla
    tlc -workers 2 -config Decisions.cfg MCDecisions.tla
    tlapm PendingOrdersProofs.tla
    tlapm StoresProofs.tla
    tlapm PositionRulesProofs.tla
    tlapm DecisionsProofs.tla

Each passing run finishes within three minutes on two workers; `DecisionsProofs` takes ten
minutes, every other module of proofs less than five.
