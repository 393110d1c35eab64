# Superset, verified where it is hard to test

TLA+ models, model-checking runs and machine-checked proofs of the parts of
Apache Superset (this repository) in which several processes, requests, answers
or timers work on the same state, and of those in which a long sequence of legal
calls has to keep a structure sound.

Superset is a Flask application with a metadata database, Celery workers and a
Celery beat, Redis, an optional Node server for WebSockets, and a browser front
end. Most of its code is a pure translation (form data to SQL, results to
payloads, props to markup) or wiring. What is left is modelled here: rows of the
metadata database that web requests and workers read, work on and write back
with nothing between them but a status column or a check; tasks that may die at
any point; events that travel over streams that are ordered differently; caches
that must not hand one user's rows to another; answers that reach a page in any
order; and trees that are edited by drag and drop.

## 1. Inventory

| Component | State it keeps | Operations | Talks to | Modelled in |
|---|---|---|---|---|
| Alert and report execution (`superset/reports/commands`, `dao.py`) | `ReportSchedule.last_state`, the execution log | the state classes' `next`, `set_state`, `create_log`, `send`, `send_error`; deactivation, deletion, pruning | metadata database, notification channels | `ReportSchedule`, `ReportHistory`, `ReportLifecycle`, `ReportRefinement` |
| Report scheduler (`superset/tasks/scheduler.py`) | none | `scheduler`, `cron_schedule_window` | beat, broker | `ReportCron` |
| SQL Lab execution (`superset/sql_lab.py`, `views/core.py`) | the row of the query, the results backend, a connection | `sql_json_exec`, `get_sql_results`, `stop_query` | metadata database, broker, the analysed database | `SqlLabQuery` |
| Engine specs (`db_engine_specs`) | none | limits, fetching, cancellation | the analysed database | parameters of `SqlLabQuery` |
| SQL Lab front end (`superset-frontend/src/SqlLab`) | the queries of the store, polls, validations | run, poll, stop, fetch results, validate | the requests above | `SqlLabClient` |
| Tabs of SQL Lab (`SqlLab/actions/sqlLab.js`, its reducers, `views/sql_lab.py`) | the page's tabs and their history, the browser's local storage, rows of tabs and of their tables | load, migrate, add, copy, switch, close, set the text | requests to `TabStateView` | `SqlLabTabs` |
| Global async queries (`utils/async_query_manager.py`, `tasks/async_queries.py`, `asyncEvent.ts`) | two Redis streams; the client's cursor, listeners and timers | `update_job`, `read_events`, `processEvents`, polling, reconnecting | Redis, WebSocket server | `AsyncEvents` |
| WebSocket server (`superset-websocket`) | sockets, channels, `lastFirehoseId`, three timers | the firehose loop, ranges for reconnecting clients, `trackClient`, `pong`, `checkSockets`, `cleanChannel` | Redis, browsers | `AsyncEvents`, `SocketRegistry` |
| Caches of chart data (`common/query_context.py`, `utils/cache.py`, `charts/`) | cache entries under keys, cached query contexts | get, compute, set, force, background jobs | cache, analysed database, security manager | `ChartDataCache` |
| Charts of a dashboard in the browser (`src/chart`, `Dashboard.jsx`) | the state of each chart, active and applied filters, tabs, edit mode | trigger, request, answer, annotations, refresh | chart data API | `ChartQueries` |
| Dashboard editing (`src/dashboard/reducers`, `views/core.py` save) | the layout tree, the undo history, the flag of unsaved changes, the time of the last change | drop, delete, hydrate, undo, redo, save | save requests | `DashboardLayout`, `DashboardEditing` |
| Filter scopes (`src/dashboard/.../filterscope`, `util/`) | a scope per filter field; what is checked in the dialog | open, check, save | the layout | `FilterScopes` |
| Commands on charts, dashboards, datasets, databases, reports | metadata rows, their links, owners and permissions | create, update, delete, bulk delete: a check and a later commit | metadata database | `MetadataCommands` |
| Import and export of bundles (`commands/export.py`, `commands/importers/v1`, each kind's commands) | rows with an id of the installation and a uuid that travels | export, import, with and without overwrite | metadata database | `BundleTransfer` |
| Tags (`models/tags.py`, `common/tags.py`, `views/tags.py`) | tags, tagged objects | listeners on save and delete, `sync_tags`, user tags | metadata database | `ImplicitTags` |
| Security manager (`security/manager.py`) | permissions | `set_perm`, ownership, row level filters | | within `MetadataCommands` and `ChartDataCache` |
| Connectors (`connectors/sqla/models.py`) | none | the query of a chart with its limit of series | the analysed database, which changes meanwhile | `SeriesQuery` |
| Alert evaluation, notifications | none | query and validators; email, Slack | the outside | choices of outcomes in `ReportSchedule` |
| Legacy schedules, cache warm-up, thumbnails, SQL parsing, migrations, command line, deployment | | | | not modelled (section 6) |

### What makes each of them correct, and what is hard about it

*Alert and report execution.* The beat sends an execution every time the crontab
says so, whether or not the one before is over; any worker takes it. `last_state`
is read once when the state class is chosen and written several times later,
each time in a transaction of its own, and each write is followed by a log row
in another transaction. A worker may be killed by its time limit between any
two. Correct means: the schedule is not left WORKING without anyone to end it;
what stalls is unlocked; recipients are not nagged within the grace period;
owners are told of errors, once per grace period; what the grace period is
computed from is there.

*Scheduler.* It records nothing of what it sent. That every time of a crontab is
sent exactly once rests on the windows of consecutive beats touching exactly,
hence on how late the task runs.

*SQL Lab.* The web request creates the row and sends the task *before* it
commits the limit; the worker and `stop_query` each load the row in their own
session. The page learns of all this by polls that overtake one another and ask
for what changed since a time of the browser's own clock. Correct means: a
successful query has its results stored; a stopped one does not go on; the rows
are those of the limit and "not limited" is told only when it is so; every query
ends, and the page learns that it has; it shows as stopped only what has ended,
and the validation of the text that stands in the editor. With
SQLLAB_BACKEND_PERSISTENCE tabs move from the browser's storage to the server one
request at a time while the page is used, fails and is reloaded, and come back with
their text only when they are switched to: no tab, text or table may be lost.

*Global async queries and the WebSocket server.* A job's event goes to two
streams with two XADDs. A tab that polls asks from its last id on; events
without a listener are retried by timers, and each retry sets the last id
*back*. A tab on a WebSocket that reconnects is sent a range of one stream,
bounded by ids of the other. Sockets are kept by their last pong, which is looked
at by a timer of another period; the lists of channels are rebuilt while clients
join them. Correct means: no event is skipped, who waits is served, a client that
answers keeps its socket and its channel, and what a vanished one leaves is
reclaimed.

*Charts and their cache.* A cached result is keyed by the question, the filters
of the asking user and the time the dataset's row changed; misses may be
computed by a job whose result the browser fetches later, under a key that is
computed again. In the page, filters, tabs, edit mode and refreshes trigger
queries whose answers arrive in any order. Correct means: rows are those of the
asker's filters and of the dataset as it was when asked, or newer; forced is
fresh; done is served; filters take effect; annotations never go back; nothing
loads for ever; of limited series the top ones are shown.

*Dashboards.* A drop may wrap, unwrap, delete or move containers; a save's answer
clears flags and history of edits that it does not know; what the dialog of
scopes shows is stored in another form and read back. Correct means: the layout
stays a valid tree in which what was dropped stands beside its target and no chart
is lost; the flag tells of every unsaved change; nobody's save is overwritten
unseen; what was checked is what is filtered.

*Metadata.* Every command checks and commits in two steps, without a lock. Bundles
name rows by uuid, but layouts and metadata by ids of the installation they come
from. Tags are kept by listeners that bulk operations do not call. Correct means:
a deletion leaves no reference, report or permission behind; owners stay owners;
an import restores what was exported and touches nothing else; owners find their
objects.

The hazards, each at the line where it bites and with the properties that watch
it, are listed in `PROJECT.json` under `hazards`.

## 2. The modules

    reports   ReportSchedule ---- MCReportSchedule        two workers, an owner, crashes
                |-- ReportHistory ---- MCReportHistory    + what recipients and owners saw
                |-- ReportRefinement -- ReportLifecycle   one worker implements the lifecycle
                |     `-- ReportRefinementProofs          theorems
                `-- ReportScheduleProofs                  theorems
              ReportCron (ServerProofs)                   the beat and the cron window
    SQL Lab   SqlLabQuery ---- MCSqlLabQuery              one query on the server
              SqlLabClient                                the page
              MCSqlLab = SqlLabQuery + SqlLabClient
              SqlLabProofs                                theorems, also of SqlLabTabs
    charts    AsyncEvents                                 one channel of async events
              ChartQueries                                the charts of a dashboard
              MCCharts = AsyncEvents + ChartQueries
    pages     DashboardLayout, DashboardEditing, FilterScopes, SqlLabTabs
              MCDashboards = the four of them
              LayoutProofs                                theorems of DashboardLayout
              PageProofs                                  theorems of AsyncEvents,
                                                          ChartQueries, DashboardEditing
                                                          and FilterScopes
    server    MetadataCommands, ImplicitTags,
              BundleTransfer (MCBundles)                  (MetadataProofs)
              ChartDataCache, SocketRegistry,
              SeriesQuery (MCSeriesQuery)                 (ServerProofs)
              MCServer = these and ReportCron
    data      RecursionTheorems                           recursion and least counterexamples,
                                                          for the proofs

A module that stands beside another under one `MC` module shares no state with
it. The `MC` module then has a variable, `part` or `side`, that says which one runs;
the others rest in a first state, so that the state space is the sum, not the
product, of theirs, and fairness is stated for the part that runs. `PROJECT.json`
maps every definition to the lines it models.

**ReportSchedule.** The state is the row (`type`, `active`, `last_state`,
`deleted`), the log, the broker's waiting messages and, per worker, where its
execution is (`pc`), which class it runs (`handler`), what its session read
(`loaded`) and whom it reached. The steps are the commits and what lies between
them: `Start` reads the row and picks the class; `EnterWorking`, `WorkingNext`,
`Succeed`, `Fail`, ... are calls of `set_state`; `create_log` is the commit of the
row that goes with each; `EvaluateAlert`, `send` and `send_error` choose among the
outcomes of calls to the outside. The session emits an UPDATE of `last_state` only
when the value differs from the one it has loaded: the "WORKING" that
`ReportWorkingState` writes is therefore no write at all, and that is what keeps a
late refusal from overwriting a final state (`StallOnlyAfterCrash` fails when the
write is always emitted). The log is kept as the age of the newest row of each kind
that a query of `dao.py` looks for; ages stop growing at `Horizon`, past every
period, so time is unbounded and the state space is not. `Crash` is a killed
worker, a SoftTimeLimitExceeded that no handler catches, or any other exception
that is not a CommandException: all of them end the execution without another
commit. `ReportHistory` adds what the code does not keep: when a recipient was last
reached, and when the owners were last told or, from then on, when the execution that told
them made its log row (the MARKER), from which the code counts. `ReportLifecycle` is the abstract
specification: enter WORKING from a final state, notify, leave to a state that the
starting state allows, SUCCESS only when everyone was notified. `ReportRefinement`
maps one worker's executions to it.

**ReportCron.** Time in units (8 to a minute, 2 to a second's margin); beats at
whole minutes; a task runs between the least and the greatest delay. The crontab is
any set of minutes.

**SqlLabQuery.** The row (`status`, `limit`, `limiting_factor`, the cancel key,
`results_key`), the results backend, the web request (`web`), the executor
(`worker`: a Celery worker or the request itself), the connection and a concurrent
`stop_query` (`stopper`). Of the data only the number of rows is kept.
`handle_query_error` commits FAILED without a look at the row; `HandleException`
looks first, as `execute_sql_statement` does. What `cancel_query` ends depends on the
engine (`cancels`): the connection with all that would still be executed on it (MySQL,
PostgreSQL), only what the session executes at that moment (Snowflake's
SYSTEM$CANCEL_ALL_QUERIES), or nothing, when there is no cancel key. A time limit is an exception that may
be raised wherever the executor is, except while it handles another
(`FailUnchecked`).

**SqlLabClient.** The store's queries with the time of the last change seen, the
polls on their way with the time they ask from, requests to run, stop and fetch,
and the validations of the text with the id of their request. The server is coarser
here: a row is a state and the time of its last change; answers to polls may be up to
`Lag` old, overtake one another or be lost, and the browser's clock may be ahead.

**SqlLabTabs.** Local storage, the server's rows and the page, and the requests between
them in two steps: `Handle` (the server commits and answers) and `Hear` (the page takes
the answer, as the action and the reducers do). A request may fail, an answer may be
lost, a reload leaves requests that are handled and not heard. A text is the tab it was
written in, or the placeholder of a tab that is not loaded; of a tab's other fields, its
tables and its queries only one table is kept.

**AsyncEvents.** The ids of each job's event in the two streams, the server's place
in the firehose (`lastFirehoseId`, the pending `xread`, the pending `ranges`), the id
that the tab put into the URL of its socket (`lastId`), the socket and what is on the
wire, and the tab: its cursor, listeners, retry counters, timers and poll. A Redis id
is a pair of a millisecond and a sequence number, given by `NextId` as XADD does.
`increment_id` (Python: the last digit) and `incrementId` (TypeScript: the sequence
number) are modelled as they compute. The transport is a variable that never changes,
so that one run checks both.

**SocketRegistry.** The maps `sockets` and `channels` and the two intervals of
`index.ts`, with time in ticks: a timer fires at the tick it is due, a pong arrives
within `PongWithin` of its ping. A client may close, which the server is told, or
vanish, which it is not.

**ChartQueries.** Per chart what `chartReducer` keeps and the requests in flight;
React renders before the next handler runs, so that what a change triggers and what
the rendered charts then request is one step with it.

**ChartDataCache.** Entries under keys of the question, the filters' ids and the
dataset's time of change; requests in steps (read, look up, compute, store, answer),
jobs that store a query context and are fetched later; edits of the dataset's row and
of its parts (which do not move the row's time), new rows in the source, dropped and
refused entries.

**SeriesQuery.** A table as the sum per group and time; the subquery or the prequery
that ranks groups, filters, row level filters, HAVING and null; the table may change,
and the prequery fail or find nothing, between the two. A limit of 0 is none, and with
`time_groupby_inline` no limit is applied (`QueryUnlimited`).

**DashboardLayout.** The flat map of components with the ids of their children;
`getDropPosition`, `handleDrop` and `handleComponentDrop` as one step per drop, with
the wrapping rows, unwrapped tabs and emptied containers that go with it.
**DashboardEditing.** A layout is a number, new with each edit; the history of
redux-undo with its limit, the flags, the times that pages carry and the server's
comparison in whole seconds. **FilterScopes.** The tree of containers and charts; both
translations, `getFilterScopeFromNodesTree` and `getChartIdsInFilterScope`, as
functions on that tree; one field or several edited at once.

**MetadataCommands.** One table of rows of five kinds with owners, references and
names, and two concurrent requests, each a check (`pending`) and a commit; datasets go
with their database, as the ORM's relationship cascades; set_perm and the permissions; `excuses` records which of the races and failures that the code
does not exclude have happened, so that properties name what they except.
**BundleTransfer.** Two sites, each with rows, links and a next id; export to files,
import as one transaction, deletions and saves in between. **ImplicitTags.** Objects,
owners, tags and tagged objects; requests with their listeners as one transaction, the
three statements of `sync_tags` one by one (though its module cannot be loaded as it
stands, section 6). Users add and remove tags of any name, those that the listeners keep
included; `byHand` is a history variable, of the owner tags touched so since the object was
last updated.

## 3. The runs

| Run | Question | Instance | States |
|---|---|---|---|
| `report_concurrent` | WORKING without a holder? SUCCESS or GRACE without its log row? | 2 workers, an owner editing, pruning, 1 crash | 4.5 M |
| `report_history` | Anyone told twice in a grace period? Is a stalled schedule unlocked? Do executions implement the lifecycle? | 1 worker, 2 recipients, pruning, 1 crash, grace 2, timeout 1, fairness | 305 k |
| `sql_lab` | *Server*: results before success, stop, exact rows, termination? *Page*: is the end learnt, is stopped ended, is the validation the latest? | requests around SQL_MAX_ROW = 2, engines that cancel each of three things, 2 stops, 1 killed worker; 2 queries, 2 polls, times 0 to 2, clocks right and ahead | 257 k |
| `charts` | *Events*: skipped, or waited for for ever? *Charts*: do filters take effect, annotations go back, charts load for ever? | 2 jobs, both transports, 1 fault; 2 charts, 1 filter, 3 actions of the user | 283 k |
| `dashboards` | *Layout*: valid, what was dropped beside its target, no chart lost? *Editing*: does the flag tell? *Scopes*: what was checked? *SQL Lab's tabs*: is a tab, its text or its table lost? | 4 layouts with 2 edits each; undo limit 1, 3 edits; 3 charts, 2 tabs, 2 filter boxes; 1 or 2 stored tabs, 2 loads, 2 acts, a fault | 352 k |
| `server` | The seven parts of section 2 that are commands, caches, transfers, tags, queries, windows and timers: what may none of them do? | below | 1.0 M |
| `report_stalled_forever` | *fails*: a crash before the first log row | 1 worker | |
| `report_error_silenced` | *fails*: errors after a success go untold | 1 worker, no crash | |
| `sql_lab_stop_fails` | *fails*: a stopped query is recorded as failed | async | |
| `gaq_reconnect` | *fails*: the range of a reconnecting tab misses an event | 2 jobs, WebSocket | |
| `dashboard_collision` | *fails*: a save overwrites one made since the page was opened | 2 pages | |
| `filter_scopes` | *fails*: unchecked charts are filtered | 4 charts, 2 nested tabs | |

The six that fail each check one sentence of a document or comment that the code does
not keep; `findings` in `PROJECT.json` quotes it.

**What the passing runs show**, property by property:

- `report_concurrent`: `StallOnlyAfterCrash`, `GraceHasItsSuccess`.
- `report_history`: `NagsOncePerGracePeriod` (recipients), `OwnersToldOncePerGracePeriod`
  (owners, with the reason for silence: less than a grace period ago they were told, or an
  execution that had told them recorded so; the email itself may be older by the time that
  it took to record it), `StallRecovers`,
  `ImplementsLifecycle` (refinement).
- `sql_lab`: `ResultsBeforeSuccess`, `StoppedRunsNothing`, `RowsAreExact`, `NeverRunsAgain`,
  `QueriesEnd`; in the page `LateAnswersDoNotMislead` (`StoppedHasEnded`,
  `ValidationIsOfLatest`) and `EndIsLearnt`.
- `charts`: `PollSkipsNothing`, `PollServesListeners`, `FirehoseReaches`; `FiltersTakeEffect`,
  `AnnotationsNeverGoBack`, `LoadingEnds`.
- `dashboards`: `EditsAreSound` (`LayoutIsValid`, `LandsBesideTarget`),
  `OnlyDeletionsRemoveCharts`, `FlagTellsOfChanges`, `ScopesAreAsChecked`;
  `TabsAreKept` (`EditorsAreKept`, `TextsAreTheirs`, `TablesAreKept`).
- `server`: `DeletionsLeaveNothing` (`ReferencesResolve`, `ReportsHaveTarget`,
  `PermissionsAreRemoved`) and `OwnersAreKept` of the commands; `ImportFollowsBundle`
  (`ImportRestores`, `ImportKeepsTheRest`); `OwnersFindTheirObjects` of tags;
  `ServesRightRows` (`OwnRowsOnly`, `ReflectsDatasetRow`) and `AnswersAsTold`
  (`ForceIsFresh`, `DoneIsServed`) of the cache; `ShowsTheTopSeries`; `SentOnce` and
  `NoneMissed` of the cron windows; `LiveClientsAreServed` and `GoneClientsAreReclaimed`
  of the sockets.

Each has at least one mutant in `PROJECT.json`: a plausible bug in the modelled code
that the run finds by that property.

**Bounds, and why they are enough.** *Reports.* Two workers suffice for every pair of
executions to overlap; a third adds no new pair of commits. `MaxPending` = 1 lets an
execution be sent while another runs, and again after it. The periods give ages below,
at and above each of them. `Explored` leaves out of `report_concurrent` the edits and
crashes of reports (they differ from alerts only in what is evaluated) and, together,
a crash and the pruning or deletion of the log; the run without it, of 8.6 M states,
passes too, and so does stall recovery with two workers. *Cron*: 4 beats, every
crontab, delays below the margin, above it and around it. *SQL Lab*: limits and tables
below, at and above SQL_MAX_ROW, and two statements for a stop between them; two
queries are enough for one answer of a poll to hide another, and with times up to 2 and a
buffer of 1 polls do leave out rows that changed before the time they ask from (with answers
that take longer than the buffer, `Lag` = 2, `EndIsLearnt` fails). *Async events*: the
streams start at sequence 8, so that the ids pass from 9 to 10, where the last digit
carries; one retry stands for six; MAX_EVENT_COUNT and the server's read count are 1,
so that two events need two reads. From the twentieth event of one channel in one
millisecond on, `increment_id` skips ids and `PollSkipsNothing` does not hold: the run
stays below. *Layouts* start empty, with rows and a column, with tabs in the grid and
with nested tabs of the top level; two edits are enough to drop into what an edit made.
*Scopes*: three layouts stand for the 54 of three charts and two boxes (332 k states),
which passed by themselves, as did four charts under two tabs. *Tabs*: either one stored tab with
a table, a fault and an added tab, or two stored tabs, which race each other for being
active; a second load meets requests of the first; three rows hold a tab and the copy
that a lost answer makes. *Commands*: two requests
at a time and three in all, from four tables in each of which an id or two are free.
*Bundles*: five steps (export, import, edit, export, import) between a site with a dashboard
of two charts and a site that is empty, has other rows of the same names, or an earlier
copy of a part. *Tags*: two users, one id, which a chart, a dashboard and a query
share, four changes; users add a tag of an owner and one of their own (`Posted`), and remove
any. *Cache*: two readers, one with a row level filter, two requests, one change of
any kind; with three requests and two changes (8.5 M states) it passes too. *Series*: two
groups and null, two times, tables that rank them either way, limits of 0 to 2, with and
without joins and with an inline grain of the time, one insertion between the queries.
*Sockets*: two connections and two channels, timers of 2, 6 and 5 ticks, so that no two of
them keep step; the theorems cover every other setting.

**CHECK_DEADLOCK FALSE** stands where the system really ends or the bound does: a query
of SQL Lab is over, every job has posted and the tab has nothing left to wait for,
`ReportCron` has a last beat, an instance its last edit or request.

**Fairness.** *Reports*: the beat goes on, workers take messages and finish (a hung
execution is ended by the task's time limit, which is `Crash`), time passes. Nothing is
assumed of owners, pruning or crashes. *SQL Lab*: the web request and the worker do not
stall (statements are ended by SQLLAB_ASYNC_TIME_LIMIT_SEC and its hard limit; a killed
worker is excepted in `QueriesEnd`); nobody has to press stop. In the page requests are
answered, and the poll that is asked again and again is answered in the end (strong
fairness: single answers may be lost). *Events*: an open tab runs its timers and gets its
answers, and the server runs its loop; workers need not post and listeners need not be
registered. Failed polls and dropped sockets are bounded by `MaxFaults`. *Charts*: each
request is answered, with a result or an error. The other parts state no liveness and
need no fairness.

**What holds only with a premise.** `NagsOncePerGracePeriod` and
`OwnersToldOncePerGracePeriod` are stated of paths without a crash and without a partly
failed send: after a crash on the way to GRACE, or when one recipient of several fails,
the schedule is in ERROR, and the class that handles ERROR does not look at the grace
period. `StallRecovers` assumes that an entry into WORKING was logged. `SentOnce` and
`NoneMissed` assume that the delays stay on one side of the margin (`OneSide`).
`StoppedRunsNothing` is stated of engines whose `cancel_query` ends the connection.
`RowsAreExact` is stated of sync queries: the worker of an async one may read the row
before its limit is committed. `PollServesListeners` is stated of listeners whose event
is yet to come or held by a timer: a response that is slower than all retries of its event
finds it dropped. `EndIsLearnt` needs answers and clock within the buffer of five seconds.
`FiltersTakeEffect` leaves out a chart that was refreshed while it was hidden, and one that
queried in edit mode with filters that were changed back before edit mode was left.
`ReferencesResolve`, `ReportsHaveTarget` and `PermissionsAreRemoved` except the races, the
renaming of a database, the failure between two commits and the datasets deleted with a
database for which they were made after its check, all of which `excuses` records.
`ForceIsFresh` is stated of direct answers, `DoneIsServed` of data that no edit outdated and
no cache lost. `ImportRestores` is stated of bundles that hold all charts of the layout, and
what it says of the metadata of layouts in which no id is that of two charts
(`IdsAreClear`): one that was imported without some of its charts keeps their old ids, which
may be those of others here.
`ShowsTheTopSeries` names beside its definition what it excepts: engines with an inline grain
of the time and an extra phase without groups, where every series is shown, HAVING, and null. `ScopesAreAsChecked` is
stated of the layouts in which the two translations are inverse. `TextsAreTheirs` leaves out tabs that are shown without having been switched to, and
`TablesAreKept` a table whose own request failed (section 6). Drops of a component into
its own descendants are outside `Careful`. `OwnersFindTheirObjects` is stated of objects that
were saved with the listeners on, and not of a user whose owner tag was added or removed by
name since the object was last updated.

## 4. The proofs

Each theorem holds for every value of the constants that the named assumptions of its
module allow; the properties among them are also checked by a run.

**`ReportScheduleProofs`**, for any set of workers and recipients, any periods
and any bounds (`PeriodsAssumption`, `BoundsAssumption`, `NoneAssumption`):

- `TypeCorrect`: `Spec => []TypeOK`.
- `StallsOnlyAfterCrash`: `Spec => []StallOnlyAfterCrash`. The property is not
  inductive: that an execution *holds* WORKING does not say that its final write
  will be emitted, for `set_state` drops a write of the value its session holds.
  `IInv` adds `LoadedFitsClass` (an execution about to enter WORKING has read
  another state, so its write is emitted; one in the working class has read
  WORKING, so its refusal is not) and strengthens the holder to one that
  `WillLeave`: it has not reloaded the row since it entered, or read WORKING
  when it did. Another execution's `create_log` reloads only its own session, and
  whoever takes the row out of WORKING falsifies the premise.
- `GraceIsKnown`: `Spec => []GraceHasItsSuccess`, inductive with the types. Every
  step of an execution but its creation of log rows is an instance of one lemma,
  `KeepsSuccess`: GRACE is written only where the log has a success, SUCCESS only
  by who then stands before the commit of its row.

**`ReportRefinementProofs`**, for one worker (`OneWorker`), no edits (`NobodyEdits`) and
any recipients, periods and crashes:

- `Refines`: the specification implies `ImplementsLifecycle`. Initial states map to
  initial states; each action of the worker maps to one action of `ReportLifecycle` or to
  a stutter, by an invariant that ties where the execution is to what the row holds, what
  its session has read and whom it has reached.
- `NagsOnce`: the specification implies `NagsOncePerGracePeriod`. The invariant `NInv` says
  that while a recipient was reached less than a grace period ago the schedule is `Quiet`:
  on its way to the SUCCESS row of that very execution, or in SUCCESS or GRACE, or WORKING
  in an execution that left SUCCESS, with a success in the log that is no older than the
  notification. It needs the log to be kept for a grace period: with LogRetention + 1 <
  GracePeriod pruning removes the SUCCESS row while the period lasts, and the property
  does not hold.
- `OwnersToldOnce`: likewise `OwnersToldOncePerGracePeriod`, under the same hypothesis. `OInv`
  says that while the owners were told less than a grace period ago the MARKER is about
  to be logged or in the log and no older, and that there is no MARKER newer than the last
  time they were told or an execution that told them recorded so; that a row that is no error and older than the
  MARKER never stays alone when the log is pruned, so that without rows that are no error
  `find_last_error_notification` finds the MARKER; and that without an email there is no
  MARKER.

**`SqlLabProofs`**, first of `SqlLabQuery`, for any requests, any SQL_MAX_ROW, any number of stops
and of killed workers (`RequestsAssumption`, `LimitsAssumption`,
`NoneAssumption`):

- `TypeCorrect`, `ResultsAreThere` (`ResultsBeforeSuccess`),
  `NothingRunsOnceStopped` (`StoppedRunsNothing`) and `NoneRunsAgain`
  (`NeverRunsAgain`) from one invariant, `IInv`, the types and `Ordered`: the row
  precedes the worker (`InOrder`); a query can be stopped only once the executor
  has committed its cancel key (`StopNeedsKey`), hence past the commit of
  "running"; where cancelling ends the connection it stays closed between
  `cancel_query` and the commit of "stopped" (`CancelledRunsNothing`), as the executor
  opens only one (of engines that cancel less the theorem says nothing); only an
  executor that is done leaves a success (`SuccessIsLast`), after storing the
  data it fetched (`DataBeforeSuccess`).
- `RowsAreExactAlways`: `Spec => []RowsAreExact`, from `RowsInv`, which follows a
  sync query through its stages: the limit stays what was computed, one row more
  is asked for, and what was fetched is the smaller of the limit and the rows of
  the statement.

Then of `SqlLabClient`, for any queries, texts, lag of the server, error of the clock and
number of requests (`ClientAssumption`):

- `PageTypeCorrect` and `LateAnswersAreHarmless` (`LateAnswersDoNotMislead`). `PageInv` adds
  that no answer on its way tells more than the server does: that a query was stopped is
  answered (`StopsAreSo`), and the rows of a poll show an end (`PollsAreSo`), only when
  the query has ended. The time that the next poll asks from is a greatest element of a
  set; that there is one is shown without induction over the set: `GreatestExists` takes
  the element at the least distance from the set's bound.

Then of `SqlLabTabs`, for any tabs in local storage and any bounds on tabs, rows, loads,
acts and faults (`TabsAssumption`):

- `TabTypeCorrect` and `TabsKept` (`TabsAreKept`). That tabs are kept is not inductive: a
  tab leaves local storage for what an answer says, and its text comes back from what a
  page showed. `TabsInv` says of each request under way that its id and its text are those
  of its tab, and of each editor that its text is, once it was loaded or active. What no
  step undoes is gathered in `Grows`, by which all that was sound remains so
  (`WhatStays`). `OnlyKeeps`, that a history without one tab lists the others, counts
  ranks with Cardinality.

**`RecursionTheorems`** is about no part of the system and holds only lemmas that the other
proofs use. It says that a function which
is defined by recursion on a measure exists and satisfies its definition
(`RecursionIsDefined`), for any body, given as a constant operator that an INSTANCE
replaces, and that where a natural number, a measure or a finite set has a property there
is a least one (`LeastNumber`, `LeastByMeasure`, `LeastSubset`). The induction theorems of
the library take an operator as a parameter, which the provers cannot instantiate; with a
least counterexample no induction is needed. So folds over sets (the import of files, sums
and peaks of series) and functions on trees (scopes) can be proved about.

**`ServerProofs`**, first of `SocketRegistry`, for any connections and channels and any settings of the timers
that leave a client time to answer (`TimersAssumption`: the interval of pings and the time
of an answer together are less than the timeout):

- `RegistryTypeCorrect`, and `LiveAreServed` (`LiveClientsAreServed`). The property is not
  inductive: `RegistryInv` adds `PongsAreRecent`, that the last pong of a live client is
  no older than the time since the last check or, with a ping on its way, exceeds the age
  of the ping by at most one interval; at a check then nobody who lives is overdue
  (`NoneOverdue`). `CleanKeepsActive` says that a list that is rebuilt keeps its open sockets.
- `GoneAreReclaimed` (`GoneClientsAreReclaimed`), from `GoneInv`: the pong of a socket whose
  client went away is at least as old as its going, so the first check after the timeout
  drops it; its place in a channel lasts one interval of the collection longer.

Then of `ChartDataCache`, for any readers, filters, questions and number of requests,
edits and losses (`CacheAssumption`):

- `CacheTypeCorrect`, `RightRowsServed` (`ServesRightRows`) and `AnsweredAsTold`
  (`AnswersAsTold`). No property of an answer is inductive, for an answer is as good
  as the entry that another request stored. `CacheInv` says of every entry that its rows
  are of the filters and the dataset's row that its key names (`EntriesAreSound`), and of every
  request that what it saw is no newer than what there is (`SeesThePast`), that what it is
  about to store or was given is sound (`AnswerIsSound`), and that until something is lost
  what its job needs is in the caches (`JobIsServed`).

Then of `SeriesQuery`, for any finite sets of groups and times and any tables and requests
(`SeriesAssumption`):

- `SeriesTypeCorrect` and `TopSeriesShown` (`ShowsTheTopSeries`). The measures that groups
  are ranked by are folds (MapThenSumSet) and greatest values: that they are numbers, and
  that a sum is positive exactly when some time has rows (`SumIsPositive`), is shown of a
  least set of times for which it would not be so (`LeastOfSets`). `SeriesInv` says that the groups
  that a prequery found are the first (`FirstOf`) of the table as it was at the ranking,
  and that the points of an answer are those of the groups joined, of the table as it is:
  of all groups where nothing is limited.

Then of `ReportCron`, for every period of the beat, margin, crontab, range of delays and
number of beats (`ClockAssumption`):

- `CronTypeCorrect`, `EverySentOnce` (`SentOnce`) and `NoneIsMissed` (`NoneMissed`).
  The heart is the lemma `WindowIs`: when the delays stay on one side of the
  margin (`OneSide`), the window of a task that runs in time holds exactly one
  minute, its beat's own or the next. The invariant says that tasks do run in
  time (`FiredRecently`) and that what is sent is that minute (`SentByWindow`);
  both theorems then are arithmetic on beats.

**`MetadataProofs`**, first of `MetadataCommands`, for any users, tables, pairs of
requests and number of requests (`MetaAssumption`):

- `MetaTypeCorrect` and `DeletionsAreClean` (`DeletionsLeaveNothing`), from `MetaInv`: what a
  request keeps of its check agrees with the rows as long as no race is recorded
  (`SeenIsSo`), until a database is renamed a dataset, its permissions and the
  requests that will add or remove them have the name of its database (`NamesAgree`), and the three parts of the property. `DoneKeeps` says what any commit
  keeps of the other request's check, `RemovedIsSound` what a deletion leaves.
- `OwnersStayOwners` (`OwnersAreKept`), an action property, from the same invariant.

Then of `ImplicitTags`, for any users, objects and number of changes (`TagsAssumption`):

- `TagTypeCorrect` and `OwnersFind` (`OwnersFindTheirObjects`), from `TagsInv`, which follows the
  three statements of `sync_tags` through whatever is saved between them. What was touched by
  hand stays excepted until the object is updated, which replaces all of its owner tags
  (`TagRight`).

Then of `BundleTransfer`, for any sites and rows, bundles of any size and any number of
steps (`TransferAssumption`: what the sites store at first is sound, and uuids of different
kinds are different):

- `TransferTypeCorrect` and `ImportDoesAsTold` (`ImportFollowsBundle`). The import of the
  files of one kind is a fold, a `Stage`. `StageStep` shows of one file more what is then
  shown of all (`StageIsSound`): rows of other kinds stay (`OthersStay`), who changed a row
  fitted it (`Touched`), a row that is not as it was is a copy of a file (`Copied`), and
  where no two files of one parent have one name, each file leads to its copy or to the
  row that had its uuid (`Landed`). `ImportGoesThrough` puts the four stages one after another.
  `BundleOK` is what an import may rely on: the uuids of a bundle's files are unique, and
  what they need came along (`ExportIsSound`). `ChangesAreSpokenFor` and
  `DashboardIsCopied` with `RestoredLayout` are the two parts of the property.

**`PageProofs`**, first of `ChartQueries`, for any charts, filters, values, scopes, tabs and
number of actions (`ChartQueriesAssumption`):

- `ChartTypeCorrect`, `FiltersAlwaysTakeEffect` (`FiltersTakeEffect`) and
  `AnnotationsGoForward` (`AnnotationsNeverGoBack`, an action property). `QueriedAsApplied`
  splits the first in two: the applied filters are the active ones outside of edit mode,
  and a chart without a pending query made its last one with the applied filters. It
  rests on `OnlyAffectedChange`: the query of a chart that `applyFilters` does not select is
  the same with the old filters and the new, whatever scopes changed. The second needs
  that a request for annotations that was not aborted is newer than those shown.

Then of `DashboardEditing`, for any editors, contents, limit of the history and number of
saves (`EditingAssumption`):

- `EditingTypeCorrect` and `FlagAlwaysTells` (`FlagTellsOfChanges`). `LeadsBack`
  strengthens the property along the history: undoing everything leads to what was
  saved, unless the history was noticed to be too long, and a page whose flag is off has
  nothing to undo.

Then of `AsyncEvents`, for any finite set of jobs and any faults, retries and number of
events in an answer (`BoundsAssumption`):

- `PollsSkipNothing`: if the stream cannot pass a sequence number of 19 in one
  millisecond (`FewEvents`, a hypothesis of the theorem and not of the module, for at 19
  `increment_id` answers 110), then `Spec => []PollSkipsNothing`. The tab's cursor moves
  back when a retried event is processed, so the invariant says the same, `Fine`, of every
  id that the tab may come to ask from: its cursor, those of its timers and that of the
  poll on its way; and of an answer on its way that it leaves nothing out (`Told`). The
  lemmas: `IncrementIsNext`, that `increment_id` skips no id below the carry;
  `NextIsAfter`, that XADD's ids grow; `InOrderSorts` and `FirstAreEarliest`, that the first events
  of a range are those up to the last of them, shown by counting ranks with
  Cardinality.

Then of `FilterScopes`, for any tabs, charts, filter boxes and columns
(`ScopesAssumption`):

- `ScopesTypeCorrect` and `ScopesAppliedAsChecked` (`ScopesAreAsChecked`). What is stored is
  the translation of what was checked; `RoundTrip` says that translating it back gives the
  same charts. It follows from the same of every container (`ScopesAreSound`): one for
  which it failed, nearest to the last container, would have its parts in order, and so
  itself. `ScopesInv` adds that what is checked of each edited field is what the tree
  displays of it, and that stored scopes filter what was wanted. Like the property, it says
  so only of layouts in which a tab that lies beside charts holds charts or tabs, not both,
  and those tabs hold no tabs (`FewTabsBesideCharts`).

**`LayoutProofs`**, of `DashboardLayout`, for any saved layouts and any number of components
and edits (`LayoutAssumption`, `SavedLayouts`), as long as nobody makes one of the drops
that `Refusable` names (`Careful`, a hypothesis of each theorem: with such a drop the
layout breaks, see section 3):

- `LayoutTypeCorrect`, `EditsStaySound` (`EditsAreSound`) and `ChartsStayUnlessDeleted`
  (`OnlyDeletionsRemoveCharts`, an action property). The inductive invariant `LayoutInv` is
  about the flat map and not about the page: the layout is one that may be saved
  (`MayBeSaved`), and an id is free. A component has one parent at most, of a type that takes
  it; TABS are in a TAB only at the top level; and there is no circle. The last is said
  without a path: among components that are not topmost there is always one whose parent
  is not among them (`IsForest`). A set of components for which it failed would be a circle,
  so the proofs of all edits take one such set and find the parent (`Regrafted`, `Pruned`, `Grown`).
- What the page shows is computed by `Subtree` level by level, up to the bound of components.
  `SubtreeHolds` shows that this finds everything below a component once, in its parent
  (`PageHolds`): were a level not empty beyond the bound there would be more components on
  the way to it than there are ids. With it the invariant gives `LayoutIsValid`.
- Each of the reducer's functions is described by what it does to the children of every
  component (`MovedTo`, `InRow`, `IsDeleted`, `IsCollapsed`). A move keeps the forest because its
  destination is not below what moves: neither `isValidChild` nor `getDropPosition`
  compares more than types and depths, so this is one of the conditions of `Refusable`. `PutNext` shows
  that the index that `handleDrop` corrected is right after the component has left its list.

**Proving changed the models** in six places. In `DashboardLayout` the layouts that a page is
loaded with were a list of the model; any set is now allowed whose members may have been
saved (`SavedLayouts`), and TLC checks that those of the run are. A child is removed from a
list by `RemoveFirst`, as `indexOf` and `splice` or a filter of unique ids do, and what a
parent may hold has one definition (`Fits`) for the property and the assumption. In `BundleTransfer` a file was said to speak
for a row by its name whatever database its dataset came from, which larger instances than
the run's refute: `SpeaksFor` now asks the same of the file of the parent. The metadata of a
layout was said to be restored also where two charts have one id (`IdsAreClear`). Both
theorems needed what the site's own database guarantees, now in `TransferTypeOK`. `AffectedCharts` was written with a CASE whose guards
overlapped, which TLC resolves and a proof cannot: its value was underdetermined.
`MetadataCommands` forgot, in bulk deletions, which database each dataset had been checked
with, and left out that datasets are deleted with their database; with that,
`PermissionsAreRemoved` needed one more exception, which two requests reach. `InOrder` is
defined by the ranks of ids instead of by sorting, and `Only` instead of SelectSeq.

**Only model-checked**: every liveness property. The types of `AsyncEvents` are bounded as
its runs are, and proved only as far as `PollsSkipNothing` needs them; those of the `MC`
modules are the conjunctions of those of their parts. Out of the prover's reach are
liveness under fairness and ENABLED, and any module that reaches a RECURSIVE operator; no
module of the project declares one.

## 5. Plan

Done: every module listed above is model-checked; proved are the safety properties of the
reports (6 theorems with the refinement and the grace periods), the scheduler (3), SQL
Lab on the server (5), in the page (2) and its tabs (2), the socket registries (3), the
cache of chart data (3), limited series (2), the commands (3), tags (2), bundles (2), charts
in the page (3), editing of dashboards (2), polling for async events (1), the scopes of
filters (2) and the layout of dashboards (3).

Next, proving more: the types of `AsyncEvents`.

Next, extending the model:

1. The queries of tabs, the table browser, and two pages of SQL Lab on one local storage.
2. Native filters, whose scopes are kept with the `parents` of components.
3. A second tab of the channel, and the trimming of the streams, in `AsyncEvents`.
4. The scheduler's loop over several schedules, composed with executions.

## 6. Not modelled

| Part | Why |
|---|---|
| Alert evaluation | Validators over the one row of a query: a pure function, whose three outcomes are choices in `ReportSchedule`. |
| Notifications | Pure I/O; whether each recipient is reached is a choice. |
| Legacy email reports and alerts (`tasks/schedules.py`) | Superseded by `superset/reports`, disabled by default. |
| Cache warm-up and thumbnails | Tasks without state that issue requests. |
| `viz.py`, `connectors`, `charts`' post-processing, other than `SeriesQuery` | Form data to SQL, data frames to payloads: functions of one request. |
| Engine specs other than limits and cancellation | Functions: error extraction, time grains, partitions. |
| SQL parsing | A function on strings, over the tokens of an external library. |
| Roles, access look-ups and access requests | Look-ups; see below for what was met on the way. |
| Explore controls, chart plugins, `superset-ui` | Rendering and functions on props. |
| Migrations, command line, configuration, deployment, documentation, examples, translations | Run once, constants of the modules, or no program logic. |

**Met while modelling, and not in a run.** Divergences and hazards that no property of
the project states, since they lie outside a module or are a line each:

- *Reports.* The scheduler sends the executions of all schedules in one loop without a
  handler: a crontab that croniter refuses stops the rest (`tasks/scheduler.py:57`). A
  crash on the way to GRACE lets an alert nag again. The legacy alerts repeat on retry.
- *SQL Lab.* An async query whose limit exceeds SQL_MAX_ROW stores more rows than
  `config.py:639` says (`sql_lab.py:213` computes `increased_limit` before line 241 lowers
  the limit). The worker may read the row before its limit is committed
  (`views/core.py:2439`). The dedupe by `client_id` and the insert are two transactions
  (`views/core.py:2614`). Statements of Presto and Hive, which override `handle_cursor`,
  end by polling and not by `cancel_query` (`db_engine_specs/base.py:1319`). Snowflake's
  cancel ends only what its session executes at that moment (`snowflake.py:158`); when it
  falls between the look at the row (`sql_lab.py:459`) and the execution (`266`) it returns
  True, the query is recorded as stopped, and its next statement is executed. What the page
  shows as stopped may turn into success when the answer of its request arrives.
- *Tabs of SQL Lab.* Closing the last tab of the page's history shows another tab without
  switching to it: its placeholder (`getInitialState.js:96`, "actual state will be loaded
  on tab switch") stands in the editor, and leaving the editor stores it over the server's
  text. A table or query whose own request fails is not sent again ("Superset will retry
  later", `actions/sqlLab.js:434`, `452`), for its tab has left the local storage. A tab
  whose migration failed goes from the page when it is switched to, until the next load
  (`activate` answers 404). A copy of a tab that is not loaded is a copy of the
  placeholder. A tab that was closed elsewhere answers 403 when it is loaded
  (`views/sql_lab.py:173`, before the look that would answer 404), so it stays.
- *Async events.* A soft time limit posts no event (`tasks/async_queries.py:65`). Until
  its first event the server reads from `$` anew at each timeout (`index.ts:218`). After
  the last reconnection the page says that it falls back to polling and polls once
  (`asyncEvent.ts:243`).
- *Cache.* Columns and metrics do not move the dataset's time, so results of older
  definitions are served (`UPDATING.md:195` says otherwise); an edited clause of a row
  level filter keeps its id and so its cached results.
- *Dashboards.* When the last tab of the top level is deleted,
  `findFirstParentContainerId` fails. Scopes of native filters are derived from `parents`,
  which moves leave stale.
- *Commands.* A dataset that is made for a database between the check and the commit of the
  database's deletion is deleted with it by the ORM (`connectors/sqla/models.py:503`), and
  its permission stays: only the command for datasets removes it.
- *Bundles.* A row of the same unique name is taken over although overwrite was not asked
  for: `importers/v1/__init__.py:126` compares uuids, `hooks.ts:418` asks on that basis.
  Two dashboards of one title are exported to one file (`commands/export.py:62`). A chart
  without a dataset exports a bundle that fails validation. Links to charts that have left
  the dashboard stay when it is overwritten. Data of datasets is loaded outside the
  transaction.
- *Tags.* Removing a favorite ignores the object's type (`models/tags.py:249`); `sync_tags`
  gives tags of favorites the type of types (`common/tags.py:354`), after which favoring
  raises; bulk deletions call no listeners. `common/tags.py:17` imports `Metadata`, a name
  that SQLAlchemy does not have, so that `sync_tags` fails when it is called. A tag that is
  posted with a prefix that is no type is a KeyError (`views/tags.py:106`).
  "User "alice" can find all their objects by querying for the tag `owner:alice`"
  (`models/tags.py:45`) holds only until someone removes that tag by its name
  (`views/tags.py:133`), and others find them who were tagged as owners by name (`104`).
- *Series.* "A sub query (or an extra phase where sub queries are not supported) is applied
  to limit the number of time series that get fetched and displayed" (`controls.jsx:375`):
  neither is where the grain of the time is part of the statement (`time_groupby_inline`:
  ClickHouse, Elasticsearch, OpenDistro; `connectors/sqla/models.py:1351`), and an extra
  phase that fails or finds nothing is no condition (`1425`, `1476-1489`), so that all
  series are shown. The ascending order is not passed to the extra phase.
- *Access requests.* Approving with a role to extend looks up a permission by another name
  (`views/core.py:372`); fulfilled requests are cleaned up by the approver's access
  (`views/core.py:298`); `get_datasources_accessible_by_user` compares tuples with strings
  (`security/manager.py:585`).
