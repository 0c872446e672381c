# Verification of cpa-usage

This directory holds TLA+ models of the Go server of cpa-usage
(`src/cmd`, `src/internal`), the TLC configurations that check them on small
instances, and TLAPS proofs of their main invariants. `PROJECT.json` lists
components, runs, mutants, hazards, findings and theorems, and maps every
definition to the source lines it stands for.

## 1. The system

cpa-usage is a single process with one SQLite database. It takes usage messages
out of the queue of a CPA server, stores them, aggregates them, mirrors CPA's
auth files and providers, asks providers for their quotas, and serves a web UI.

| Component | State it keeps | Operations | Talks to |
|---|---|---|---|
| Queue client (`cpa/redis_queue_client.go`) | the settled transport, a mutex | `PopUsage` over Redis `LPOP` or HTTP | CPA |
| Usage intake and inbox (`poller/redis_drain.go`, `service/redis_usage_*.go`, `repository/redis_usage_inbox.go`) | inbox rows with status and attempt count, `usage_events`, three "running" flags, throughput counters | pull, process, manual sync, daily cleanup | queue client, database |
| Hourly rollups (`repository/usage_rollups_hourly.go`, `usage_rollup_backfill*.go`) | rollup rows, one backfill state row | increment on ingestion, batched rebuild, checkpoint, read gate | inbox processing (same transaction), analytics |
| Quota refresh (`quota/`) | task store, worker tokens, latest observation per auth file | refresh, task poll, synchronous check, stop | providers, database |
| Process lifecycle (`app/app.go`, `cmd/server/main.go`) | close attempt, HTTP admission, wait groups, contexts | `Run`, `Close` | everything |
| Manual sync (`app/manual_sync.go`) | running flag, last status | one command of two stages | intake, metadata sync |
| Metadata sync and identities (`service/sync.go`, `repository/usage_identities.go`) | identities, statistics and their event cursor | periodic and manual replacement, aggregation, account toggling | CPA, database |
| Schema and its migrations (`repository/db.go`, `repository/migration/`) | the tables and columns, `schema_migrations` | create a fresh file, or run 34 versions in order | every start |
| Backup, storage cleanup (`app/backup_runner.go`, `backup/`, `app/maintenance.go`) | clocks, retry counter, files | daily jobs | database |
| Sessions and login (`auth/`, `api/auth.go`) | sessions, failed-login window | login, logout, validate | HTTP handlers |
| Model support (`service/model_support.go`) | none | one load with bounded workers and a deadline | CPA |
| Passive quota (`quota/passive.go`) | none | signals of an auth file become quota rows | metadata sync |
| Analytics (`repository/analytics*.go`) | none | a report of many statements over rollups and raw events | rollups, events, prices |
| Overview and request health (`repository/usage_overview.go`, `usage_health.go`) | none | fold of events, two health grids | events, prices |
| Event list and export (`repository/usage_events.go`, `api/usage_events.go`) | the client's page and window end | pages, filter options, CSV | events |
| Diagnostics (`repository/usage_performance.go`, `usage_failures.go`, `usage_model_mappings.go`, `usage_analysis.go`) | none | totals, groups, remainders, percentiles | events |
| Pricing (`service/pricing_service.go`) | model prices | set, delete | all reports with costs |
| Key aliases, update check, configuration, logging, web UI | rows or caches | reads and upserts | HTTP handlers |

What is hard about it:

* **The pop is destructive.** Popping, storing, decoding, recording and marking
  are five separate steps. Any of them may fail, and the process may stop
  between any two.
* **At-least-once inside.** A batch whose events were committed but whose rows
  were not marked is processed again. Deduplication rests on a key derived from
  an inbox id that must never be reused.
* **Three flags, four kinds of actor.** Two background loops and any number of
  manual syncs share the two stages.
* **Two writers of one aggregate.** Ingestion increments rollups that the
  backfill rebuilds.
* **Late answers.** A slow quota check must not overwrite a newer one, and the
  identity it belongs to may have disappeared meanwhile.
* **Totals read early.** A metadata sync reads every identity's total and cursor
  in one statement and overwrites them one transaction at a time, while another
  sync does the same and ingestion goes on.
* **A mirror with several writers.** Listings fetched earlier, account requests
  and failures of single providers reach the same rows in any order.
* **Reports without a snapshot.** An analytics report is some twenty statements
  with commits in between, some of them reading rollups and some raw events of
  the same window; totals and remainders are combined by addition and
  subtraction.
* **Upgrades.** Migrations move statistics, cursors and the schedule of the
  backfill from one representation to the next and may stop between any two.
* **Jobs of the calendar.** Backups fail, are retried, are interrupted in the
  middle of a copy, and old ones are removed all the while.
* **Shutdown.** Admission, draining, cancelling and closing happen in a fixed
  order while requests and a second `Close` keep arriving.

## 2. Modules

```
UsageDelivery        what may become of a message (abstract)
 ^ refined by
UsageInbox           pull, process, manual sync, cleanup, crash    UsageInboxProofs
QueueClient          one PopUsage call, both transports            OperationsProofs

UsageRollup          ingestion, backfill, checkpoint, read gate    UsageRollupProofs
QuotaRefresh         tasks, workers, checks, observations, stop    QuotaRefreshProofs
AppLifecycle         Run, Close, HTTP admission, manual sync       AppLifecycleProofs
IdentitySync         metadata syncs, statistics, account toggling  IdentitySyncProofs
SchemaMigration      creation, 34 migrations, failures, restarts   SchemaMigrationProofs

DatabaseBackup       schedule, copy, retries, retention, cleanup clock
ApiAccess            login window, sessions, bearer token, sync limiter
ModelSupport         bounded workers, deadline, coverage claims
PassiveQuota         signals in any order to quota rows
 v composed by
MCOperations         these four and QueueClient                    OperationsProofs

ReportData           events, rollups, prices and their writers
 ^ extended by
AnalyticsReport      window plan, statements, figures of a report  ReportsProofs
UsageOverview        overview fold and both health grids           ReportsProofs
UsageListing         pages, filter options, export                 ReportsProofs
UsageDiagnostics     performance, failures, mappings, analysis tab ReportsProofs
 v composed by
MCReports            one report among the writers
```

Each `MC*` module names model values, sets, workloads and symmetry for TLC.
`MCOperations`, `MCReports` and `MCQuotaRefresh` also have a variable `focus`
that fixes what a behaviour is about: the parts they hold share no state, or
only read it, so nothing is lost by exploring them beside each other instead of
in their product.
`MCIdentityMirror` has a variable `story` instead: one behaviour has overlapping
syncs with one account request, the other has two account requests and their
syncs; their product is beyond TLC's reach in one run.
Operators that stand directly before a definition and bear its name with a
suffix (`IsEarliest_Latest` before `IsEarliest`, `WaitHTTPNot` before `WaitHTTP`) are
mutants: plausible bugs that the property listed with them in `PROJECT.json`
detects. No specification uses them.

### Conventions

One step is one critical section of a lock, one database statement or
transaction, one channel or wait-group operation, or one exchange with another
process. The database is opened with a single connection
(`SetMaxOpenConns(1)`), so statements and transactions do not overlap, but
everything between them does. A statement may fail without effect at any time;
this also stands for a cancelled context. A commit whose error hides a success
is not modelled.

### UsageDelivery
`fate[m]` of every message: unsent, queued, held (popped, not stored), stored,
recorded (a usage event exists) or dropped: given up by the inbox, popped and
never stored, or taken from the queue by a command whose answer nobody received.
The allowed moves are the promise of the pipeline: a recorded or dropped message
is final, a malformed one is never recorded, only a stored one is recorded, and
nothing returns to the queue.

### UsageInbox
The queue is an interval of message numbers. `status`, `attempts`, `rowMsg` and
`old` are the columns of `redis_usage_inboxes`; `eventOf` is `usage_events`
by its key `redis-inbox:<id>`; `lastId` is the AUTOINCREMENT counter. The flags
are those of `RedisDrain`; `pc`, `buf` and `batch` are the locals of the two
loops and of every manual sync request. A message's content is its identity and
whether it decodes. `Expire` is the passing of a retention cutoff, and
`CleanupProcessed`/`CleanupFailed` the two deletes of the daily cleanup. `Crash`
drops all memory and keeps the database; whatever was popped and not inserted
becomes `lost`. Here an ambiguous pop takes effect before the call returns;
QueueClient covers commands executed later.

### UsageRollup
A rollup value is a sum (or maximum) over the events counted in its hour, so the
model keeps how often each event is counted (`counted`). `InsertUsageEvents` is
the insert transaction with its increments, `ReadStatus` ... `SaveFailed` are
the statements of one backfill batch, `Retry` and `Restart` start the next one.
`Init` is an upgrade with any set of legacy events; `LegacyHours` says in which
hours they may lie.

### QueueClient
`Connect`, `Send`, `GiveUp`, `ReplyLost`, `ReadReply` are the points at which a
call can succeed or fail. `GiveUp` leaves the command behind (`late`) and
`ServerPopsLate` may execute it after the call has returned. `FallBack` is
allowed only while nothing destructive has been sent, which is the
`effectState` check of `PopUsage`.

### QuotaRefresh
A task's id is its sequence number and names its worker. `StartRefreshTask` is
the critical section of the lifecycle lock around the creation of the task, the
index entry and the goroutine. `FindIdentity`, `Observe` and `Save` are shared
by workers and synchronous callers: between them the identity can disappear and
return (`SyncIdentity`) and another checker can save a later observation.
Expiry is a set of tasks; the purge runs at the start of the operations that
call it in the code.

### AppLifecycle
`run` is where `Run` is, `at[c]` where each call of `Close` is, from
`beginCloseAttempt` through the steps of `closeRuntime` to
`finishCloseAttempt`. Handlers, workers and background runners are present or
not; while present they may use the database at any time, which is what makes
`ResourcesOutliveUsers` the right statement. `ShutdownReturns` either finds no
handler left or reports the drain deadline.

### IdentitySync
`cpa` and `keys` are CPA's auth files and provider keys, `row`, `type`,
`disabled`, `passive`, `total` and `cursor` the columns of `usage_identities`
that the properties tell apart. A sync (the runner's or the metadata stage of a
manual one) fetches the auth files, replaces their identities, fetches one
provider type after the other, replaces the provider identities of the types
that answered, and aggregates: `ListIdentities` reads totals and cursors,
`Aggregate` handles one identity from what was read. Each fetch and each
transaction may fail, with the rest of the round going on or ending as in
`SyncMetadata`. An account request resolves the file, sets the flag at CPA,
persists it, reads CPA back and stores what it read (`SetIdentityDisabled` ...
`UpdateState`). A time of 0 is a missing passive quota. QuotaRefresh keeps its
own one-bit view of an identity (`SyncIdentity`).

### SchemaMigration
`db` is what the properties tell apart of a database file: its tables, the
columns a migration asks for, events with their hour, key and cache-read fact,
identities with what their totals count and their cursor, the backfill row,
whether the inbox holds processable rows, and the applied versions. Every
version is an operator named after its migration, from database to database;
`orderedMigrations` is their order. `RunMigration` is one transaction of
`runSchemaMigration`; `AutoMigrate` creates one table a step, because the code
has no transaction around it. `Init` is an empty file, a legacy database from
before the first migration, perhaps with two events of one key, or one of the
published release before the accounting cutover with its backfill anywhere.
`Refused` are the versions that return an error and leave the file as it was. `Fail` is a failing statement or
a crash, `FinishInbox` the old consumer that the cutover's error message asks
for.

### DatabaseBackup
A day has `DayTicks` ticks; moments are days ago and a tick of the day, so that
the clock need not grow. `PlanBackup` is the top of the loop with `nextDelay`
over the remembered and the stored time, `StartCopy`, `FinishCopy` and
`FailCopy` the phases of `WriteDatabase`, `CleanBackups` the retention, which
may break off. `Restart` keeps the files only, a partial copy among them. The
cleanup runner shares the clock; what it deletes is UsageInbox's. `MaxInterval`
bounds the configured intervals, so that ages beyond it and the retention, which
nothing tells apart, can be one.

### ApiAccess
Both kinds of sessions: a map (`sessions`), or signed tokens that carry their
expiry and survive a restart and a logout. `BeginLogin`, `recordFailedAttempt`
and `clearFailedAttempts` are separate critical sections, as are the lookup and
the comparison of `Validate`.

### ModelSupport
`StartAccount` waits for a slot of the semaphore, `AuthFileAnswered`,
`ModelsAnswered` and `CatalogAnswered` are the three requests, each of which may
fail and fails after `Deadline`. `Coverage` is the result's claim of each model.

### PassiveQuota
A signal is a field of a group or of one of its windows with the outcome of
parsing it. `VisitSignal` takes them in any order, `normalizeCodexPassiveRows`
builds the rows when none is left.

### ReportData, AnalyticsReport
An event has a tick (the resolution of timestamps) and a kind (provider, model,
key, result, accounting, latency). `rolled` is the set of events the rollups
count, `backfilled` the read gate; how both come about is UsageRollup's subject.
A report is a queue of statements (`todo`), one for each figure and segment of
the window plan; each adds to its figure the bag of rows it selects, with the
time the segment gives them and whether their model was priced at that moment.
All columns of the SQL are sums over that bag. Writers commit between any two
statements.

### UsageOverview, UsageListing, UsageDiagnostics
The overview reads events and prices in two statements and folds them one at a
time; request health reads its totals and blocks in two more. `Bounded` tells the
ranges with a start and an end from range "all", whose `start` and `end` no
definition looks at; its health grids end by `clock`, the time at which each of
the two was built. A window is as long as its whole minutes, rounded up
(`computeWindowMinutes`). A list request
counts, lists filter options and loads a page; the client goes on to the next
page with the same window end. `Slice` states `LIMIT` and `OFFSET` by the
positions of the rows, a position being one more than the number of rows sorted
before it; a percentile is likewise the sample of a rank. A diagnostic report is the sequence of its
statements, within a transaction or not, each of which keeps the population it
saw; the analysis tab's `modelsByAPI` joins two of its statements by the API's
shown name.

## 3. Runs

| Run | States | Shows |
|---|---|---|
| `inbox` | 6,290 | With both loops, two manual syncs, failures, crashes and cleanup: events and messages correspond one to one; every popped message is in exactly one place; a row is given up only when malformed or after all attempts; the pipeline implements UsageDelivery; every row settles and the queue drains. |
| `rollup` | 113,073 | Readable rollups are exact, and the backfill completes although it fails and restarts again and again. |
| `rollup_upgrade_hour` | violation | Finding 1. |
| `quota` | 121,116 | One active task per auth; every accepted task has a worker until it is finished; a completed task's answer (or a newer one) is in the database; the stored observation never goes back; accepted tasks finish; the stop returns. |
| `app_close` | 80,578 | Database and log outlive their users; nothing is admitted after its wait; a signal ends `Run`; every `Close` returns. |
| `identity_stats` | 306,834 | Every total counts exactly the events up to its cursor. |
| `identity_mirror` | 686,011 | With two syncs, an account request, provider types that fail one by one, and crashes, and with two account requests for one file, the mirror of an auth file and of a key that moves between types ends up, and stays, as CPA has it. |
| `schema_migration` | 1,043,894 | An open database has the current schema; migrated totals can be continued from their cursor; no migration takes an hour from the backfill's schedule; the database always opens again, but for a file with duplicate event keys, which stays at the version before the unique index. |
| `operations` | 680,509 | No torn file is taken for a backup; a recent backup is kept; backups and cleanups go on; failed logins are bounded by the limit and the requests in flight; ended sessions are refused; a claim that one account alone has a model is true; a call pops at most once; no loss is reported as success; QueueClient implements UsageDelivery; quota rows say what the signals say, in any order. |
| `reports` | 1,462,909 | Every event of a window is counted once by every figure; rollups and raw events give the same figures; the overview's folds equal the counts; paging skips nothing; an export is complete or refused; the parts of a diagnostic report describe one population. |
| `day_buckets` | violation | Finding 2. |
| `request_health` | violation | Finding 3. |

No run checks a type invariant: those of UsageInbox, UsageRollup, QuotaRefresh
and QueueClient are proved, the others describe the shape of the state.

### Bounds

* `inbox`: two messages, the second malformed, batches of two, two attempts, two
  manual syncs. A batch mixes a good and a bad row, a row can fail, be retried
  and be discarded, a new id can follow a cleanup, and two manual syncs overlap
  both loops. A listed batch holds every row, so the run does not show rows that
  wait behind a full batch; that each row in front of them is given up or
  processed is `RowsSettle`. The proofs cover any number of messages and any
  batch size.
* `rollup*`: three events (two for the finding) over the hours 0..3 with the
  upgrade in hour 2 and batches of one hour. Several batches, ingestion into an
  hour before, in and after the batch, and two hours after the upgrade happen.
* `quota`: one token (the code has more; one is the tightest case) and three
  tasks. Behaviours look at two auths that compete for it, at one auth whose
  expired task is followed by the next, or at one auth with a worker and a
  synchronous check, where two answers are saved in the wrong order with an
  identity removed between.
* `app_close`: one other closer beside `Run`, two requests, one worker and one
  runner. Two requests are needed for competing manual syncs.
* `identity_*`: the runner and a manual sync. `identity_stats` has one auth file,
  three events and two source times: an event can arrive before, between and
  after the reads of both syncs, and the file can disappear and return with its
  totals. `identity_mirror` leaves statistics out and tells two stories: two
  overlapping syncs with one file, one key, two provider types, one account
  request and one change at CPA; and two account requests for the file that may
  both take effect at CPA and be persisted and read back in any order, with the
  runner's sync and no keys.
* `schema_migration`: two keys and two auth indexes, two events in two hours, one
  failed start. Two identities can compete for one event, two events can have one
  key, and a failure can hit any step of a creation or of an upgrade.
* `operations`: days of three ticks, one retained day, a daily and a shorter
  interval, all retries and one stop; two requests of one client at a limit of
  two failures, so both can pass the check together; three accounts, one
  inactive, one worker slot; four messages in batches of two with two callers;
  four signals of one group, enough for a verdict and a full window.
* `reports`: two ticks an hour and two hours a day, so that a window can start
  and end inside an hour and a day boundary lies inside a window; two to four
  events by kind of report, for an analytics report without costs at one tick
  before, in and after the full hours; one commit (two while listing) during a report; page
  size 1 and group limits of 1, so that limits bite. The overview is asked for
  seven days, a window one tick shorter that has as many minutes, a day and
  "all"; its grids are built at one of two times (`Clocks`). API keys are set,
  blank or the word "unknown". The offset of the time zone
  is a whole hour; `day_buckets` has half an hour.

Deadlock is checked except in `app_close`, where the process ends.

### Fairness

* Every goroutine that is able to continue does (weak fairness of each loop's,
  request's, worker's and closer's step): the Go scheduler.
* Pulling and processing repeat on a timer and a failure is not permanent:
  strong fairness of the statements that must succeed for progress (`Pop`,
  `List`, `InsertEvents` or its failure, the marks; for the backfill the steps of
  a batch). Nothing is assumed of a row's own success: a row that fails for ever
  is discarded by its attempt count, which is what `RowsSettle` shows. Crashes
  and failures stay possible infinitely often.
* A blocked worker that is offered a token again and again gets it
  (`AcquireToken`, strong): channel sends are queued first in, first out.
* Metadata syncs recur on a timer, and now and then one of them meets no
  failure: strong fairness of a runner's round marked `good`, in which no request
  or statement fails and the process does not stop. Manual syncs and account
  requests may fail every time.
* A backup that is tried again and again succeeds now and then (strong fairness
  of `FinishCopy`), timers expire, and a stopped process is started again.
* A start of the process goes through its steps, and the consumer deployed
  before finishes its inbox if it gets the chance again and again
  (`FinishInbox`): the cutover's error message demands it of the operator.
  Failures of starts are bounded.
* In AppLifecycle handlers, workers and runners are assumed to end only after
  their context is done. `app_close` does not assume that a handler ever ends by
  itself.

## 4. Proofs

All theorems hold for every value of the constants that satisfies the module's
assumption (positive batch sizes and limits, distinct names of actors, finite
sets of requests, accounts, keys and auth indexes, an upgrade hour that has a predecessor, intervals
up to `MaxInterval`). The parts of `MCOperations` and `MCReports` have
specifications of their own for this (`PopSpec`, `AccessSpec`, `BackupSpec`,
`SupportSpec`, `PassiveSpec`, `AnalyticsSpec`, `OverviewSpec`, `ListSpec`,
`DiagSpec`): a behaviour of the run is
one of them with the other parts standing still. Every inductive invariant was
checked with TLC on the instances of section 3 before it was proved.

* **UsageInboxProofs.** `SpecTypeOK`, `SpecEventsMatchMessages`,
  `SpecConservation`, `SpecStageExclusion`, `SpecNoSilentDrop`,
  `SpecImplementsDelivery`. The inductive invariant `Inv`
  conjoins the type invariant with the order of the counters (`CountersOK`),
  what rows mean (`RowsOK`, `AttemptsOK`), who may be in which stage
  (`StagesOK`), what popped messages an actor holds (`BufOK`) and what a listed
  batch may contain (`BatchOK`). `Conservation` is not inductive alone: that an
  insert does not store a message twice needs `BufOK` (held messages lie above
  every stored one), and that needs `StagesOK` (one puller at a time). That a
  replay cannot attach an event to another message needs `BatchOK` and the
  never-reused id. `NoSilentDrop` adds that a failed row was charged an attempt
  (`ChargedOK`). For the refinement, `FateFacts` reads the fate of a message off
  the one place `Conservation` gives it, and each action is shown to move
  messages only along the moves of UsageDelivery (`Goes`).
* **UsageRollupProofs.** `SpecTypeOK`, `SpecCoveredHoursExact`,
  `SpecNeverOvercounted`, `SpecRollupExactWhenReadable`,
  `SpecCheckpointMonotone`. `Inv` adds that the running batch has read the
  present state row (`BatchOwnsState`), that its plan starts right behind the
  checkpoint (`PlanOK`), and that an event missing from a rollup is a legacy
  event (`OnlyLegacyMissing`). `SpecRollupExactWhenReadable` carries the
  condition that no legacy event lies in the upgrade's own hour or later; the
  finding is what happens without it.
* **AppLifecycleProofs.** `SpecResourcesOutliveUsers`, `SpecOneCloseOwner`,
  `SpecCloseReturnsClosed`, `SpecCancelledOnlyAtDeadline`,
  `SpecManualSyncOwned`, `SpecNoAdmissionAfterDrain`, for any number of
  requests, workers, runners and closers. `Inv` says who owns the close attempt
  and where the others can be (`OwnerOK`, `MainOK`), what has ended by each step
  of the teardown (`DrainedOK`), what is still open (`ResourceOK`), what returned
  calls report (`ReturnedOK`) and why a context is gone (`CancelOK`). The proofs
  of `TypeOK` leave out its Boolean flags, which only TLC checks.
* **IdentitySyncProofs.** `SpecStatsExact`, `SpecHistoryAdvances`, for any number
  of identities and manual syncs. `Inv` conjoins where events and cursors can
  be (`EventsOK`, `CursorOK`), that what a sync has read is an exact pair of
  total and cursor not ahead of the row (`SnapOK`), the shape of listings
  (`ListingOK`), and `StatsExact`. The argument: the pair read was
  exact and event ids only grow, so the events behind the old cursor are exactly
  those another sync may have added since plus the new ones; writing old total
  plus that delta is exact again and never less than what stands in the row.
  `SplitAt` adds up the two parts of a set of events by the cardinality
  theorems, and `MaxOfBounded` gives the largest event id.

* **QuotaRefreshProofs.** `SpecTypeOK`, `SpecTokensHeld`,
  `SpecOneActiveTaskPerAuth`, `SpecAcceptedTaskHasWorker`,
  `SpecCompletedIsPersisted`, `SpecObservationAdvances`, for any number of
  tasks, tokens, auth files and callers. That tasks of one auth exclude each
  other is not inductive: enqueue looks only at the index, so `IInv` says that a
  task in progress is its auth's entry (`ActiveIndexed`), which a cleanup keeps
  because only finished tasks expire (`ExpiredFinished`), which rests on the
  agreement of a task's status with its worker's place (`WorkerMatchesStatus`).
  `Saved` carries what a checker has stored up to the moment its task is marked
  completed; `TokensHeld` counts the workers that hold a token.
* **OperationsProofs.** Five parts that share nothing.
  `SpecPopTypeOK`, `SpecOneCommandPerCall`, `SpecNoSilentLoss` and
  `SpecImplementsDelivery` are about the queue client, for any number of
  callers, messages and late commands: `PopInv` says that only the holder of the
  mutex has a command under way (`HolderOnly`), how many were sent at each point
  of the call (`IssuedMatches`), and that every popped message is returned,
  errored or in exactly one answer (`Accounted`, `Apart`).
  `SpecFailuresBounded` needs a count that the code does not keep: failures
  recorded plus requests that passed the check and may still record one; the
  limit bounds the first at the moment a request passes, the set of requests the
  second. `SpecEndedSessionsRefused` follows a request's view of its session.
  `SpecNoTornBackup` and `SpecRecentBackupKept` rest on the copy being renamed
  only when whole, and on the file of the last success being there as long as
  it is within the retention. `SpecSingleClaimSound` compares the observed
  accounts with the true ones by cardinality. `SpecPassiveRowsFaithful`: the
  groups hold exactly the facts of the signals visited so far (`PassiveInv`),
  which no order can change because the keys of a map differ.
* **SchemaMigrationProofs.** `SpecSchemaCurrent`, `SpecHandOver`,
  `SpecScheduleNeverShrinks`, for any events, keys, auth indexes, hours and number
  of failures. `SchemaInv` says that the ledger of a file with tables is `1 .. n`
  for some `n`, and `StagedAt(n, d)` what such a file has: its tables and columns
  (`SchemaAt`) and its identities (`RowsAt`), each stated once as a function of
  `n`; `Created(k, d)` is a creation past its first `k` tables. A torn creation is
  a file at version 0. Each version that is not refused leads from `n - 1` to `n`
  whatever path the file took, which is what the lemmas show version by version;
  from the unique index on no file has duplicate event keys. `HandOver`
  follows the totals through the two migrations that compute them; the second
  gives raw rows to auth indexes one after the other, which is a recursive
  function over an ordering of the rows, reasoned about by the least step that
  fails. The sets of keys and of auth indexes are assumed to be finite, as those
  of a database file are.
* **ReportsProofs.** `SpecPagesSkipNothing`, `SpecExportComplete`,
  `SpecDiagnosticsConsistent`, `SpecReportExactlyOnce`, `SpecSameRows`,
  `SpecLocalTimesKept`, `SpecWholeGridsAgree`.
  For the list: what was stored at the first count and has not been shown lies
  behind the rows of the pages so far (`Unseen`), and storing rows only pushes it
  further back (`PositionGrows`).
  For diagnostics: an open transaction keeps what was read equal to what would be
  read now (`Snapshot`), so a finished report has one population; over one
  population the SQL counts partition as the Go classification does
  (`ExecutionExact`), remainders are exact (`RemainderExact`), and the
  nearest-rank percentile is the smallest sample with its part of the population
  (`NearestRank`). That every rank is taken follows from the pigeonhole theorem
  for finite sets.
  For analytics: the segments of a plan split the window (`RollupPlanSplits`),
  whatever the length of an hour, because an hour lies before, in or after the
  full hours exactly as its moments do (`HourOrder`). `ReportInv` says of the
  statements still to run that those of one figure are disjoint, inside the
  window, and read rollups only when they hold every event (`JobsInv`), and of the
  rows read that no event has two and none is read again, while every event of
  the start is read or still to be read (`RowsInv`). The key trends select what
  the key breakdown shows, which changes while the breakdown is read: nothing is
  read of them until then (`Untouched`). `FlagsInv` adds which time and price a
  row carries; with it the rows of an undisturbed report are those of the raw
  events up to the moment within the hour, and in a zone of whole hours up to the
  local hour and day.
  For the health grids: `LoadInv` says what a load has read and by which clocks;
  `SecondsIndex` that dividing whole seconds finds the block when blocks are whole
  seconds; `ShiftedGrid` that the grids of range "all", built at two times, lie
  apart by a whole number of blocks.

Only model-checked, and why:

* Liveness, for the prover does not reason about fairness: `RowsSettle`,
  `QueueDrains`, `BackfillCompletes`, `TasksFinish`, `StopEnds`,
  `SignalEndsRun`, `CloseReturns`, `MirrorConverges`, `OpensEventually`,
  `BackupJobsGoOn`.
* `OverviewAddsUp`: it is about a fold over a sequence and sums over sets, which
  need induction over data.
* `SourcesAgree`: its sums and rankings likewise. What they are taken over is
  proved: `SpecReportExactlyOnce`, `SpecSameRows` and, for the day buckets and the
  heatmap, `SpecLocalTimesKept`.

## 5. Plan

Every component of section 1 that keeps state of its own or combines several
statements is modelled, within the limits that section 7 names, and every safety
property of the passing runs is proved but for the two named above. What could
be added:

1. The two sums: a first-order sum over finite sets, with its induction carried
   out by a least counterexample as in SchemaMigrationProofs, in place of the
   library's folds.
2. The provider specific normalisation of active quota payloads (section 7).

## 6. Findings

1. `rollup_upgrade_hour`: events stored before an upgrade in the hour of the
   upgrade are in no rollup, since the backfill stops at the hour before and
   ingestion only increments. The gate for rollup reads looks at the status of
   the backfill and not at the window, so later reads of that hour miss those
   events. ADR 0005 says that rollups are read only for covered windows and that
   ingestion rebuilds the affected buckets. `RollupExactWhenReadable` shows that
   this is the only gap: without such events the rollups are exact whenever they
   are read.
2. `day_buckets`: the local day of a rollup row is that of the start of its UTC
   hour. In a zone whose offset is no whole number of hours local midnight lies
   inside a UTC hour, and the events after it are put on the day before. ADR 0006
   promises that day buckets from raw events and from rollups agree.
   `SourcesAgree` shows that they do in zones of whole hours, and
   `SpecLocalTimesKept` proves it of every row.
3. `request_health`: for the ranges 4h, 8h, 12h and today a block of the health
   grid is a 672nd of 24 hours, 128.57 s. The overview places attempts by that
   span, the request health endpoint by 129 s in whole seconds. A test demands
   that the two projections are equal, for the range 24h. `SpecWholeGridsAgree`
   proves that they are wherever blocks begin and step at whole seconds: for the
   long ranges, and for 24h when its window ends at a whole second. Range "all" has
   no end and each projection takes the present time instead, so that the two grids
   may be shifted against each other; there it is proved of the blocks that both
   show.

Observed on the way, without a document to hold it against: a first start that
is interrupted while tables are created leaves a database without
`model_price_settings` for good, because the next start sees tables, runs the
migrations, and none of them creates that one (`SchemaCurrent` excepts exactly
this case); a legacy file with duplicate event keys never opens again, as the
migration that adds the unique index refuses it and nothing else removes them
(`OpensEventually` excepts exactly this case); a backup interval that is not a
number of days has no pause between failing copies once its retries are used up;
the analysis tab lists the models of blank API keys and of keys that read
"unknown" under both, because it joins them by the name it shows.

## 7. Not modelled

RESP and HTTP bytes, TLS, JSON shapes, CSV text, redaction, logging and process
metrics; the provider specific normalisation of active quota payloads, and of
passive signals other than Codex windows and verdicts; two spellings of one
passive signal that differ in case or outer blanks (`normalizedPassiveSignals`
keeps one of the two, by the order of a Go map); key aliases and the
update check (single reads and upserts, a cached lookup); insights that pick a
maximum out of a modelled breakdown; configuration parsing; the React client.
These have no protocol of their own or are tested better by examples. SQLite's
durability is assumed: a committed transaction survives a crash.
