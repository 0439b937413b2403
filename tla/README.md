# Verification of OpenStock

OpenStock (`vnalpha` over `vnstock`) keeps a local DuckDB warehouse of Vietnamese
market data, fetches into it through a data service that chooses among providers, and
builds research artifacts, a symbol memory and sandboxed computations from it. What it
computes is numeric; what is hard to get right is the order in which things happen and
what is left when they do not: a durable job queue in SQLite, workers with leases,
maintenance runs whose ledger lives in a second database, resumable finalization
stages, lock files between processes, Markdown cards beside claims, workspaces made of
files, bars promoted from disputed evidence, providers behind cooldowns. These TLA+
modules model that part, TLC checks them on small instances, and TLAPS proves the
central invariants for instances of every size.

Source paths below are relative to `src/vnalpha/src/vnalpha/`, those that start with
`vnstock/` to `src/vnstock/`.

## Inventory

| component | state | operations | hard behaviours | correctness |
|---|---|---|---|---|
| queue repository (`provisioning_queue/repository.py`, `_submission.py`, `_lifecycle.py`, `_operations.py`) | SQLite tables `provision_job`, `pruned_provision_job` | submit or join, claim, heartbeat, complete, fail, cancel, acknowledge, requeue expired, prune; `jobs retry` | several processes; lease expiry against a late report; cancel against completion; retry delay; a timestamp taken before the wait for the write lock; pruning | one active job per identity, bounded attempts, final ends, cancellation wins, nothing forgotten |
| worker (`provisioning_queue/worker.py`, `_worker_execution.py`, `_worker_runtime.py`) | program position, held job, heartbeat thread, stop event, flock | process one job, stage boundary, stage, report | crash at any point, SIGTERM, lost lease within a stage, cancellation between check and stage | the job stays the worker's, success means all stages, every job ends, the flock comes back |
| maintenance producer (`maintenance/producer.py`) and finalization trigger (`provisioning_queue/finalization_trigger.py`) | DuckDB `maintenance_run`, `maintenance_run_job` | create, resume, find, submit, map, close; trigger after a job, `maintain finalize` | two databases without a common transaction, crash between them, two producers, missed triggers | stable mappings, no duplicate submission, finalization only after acquisition, and eventually |
| session finalizer (`maintenance/session_finalizer.py`) | `maintenance_finalization_stage`, run status | seven stages | attempts interrupted between stages, reuse of earlier rows, evidence that changes meanwhile | success is earned, results rest on coverage, no success lost |
| warehouse writing (`warehouse/write_coordinator.py`, `transaction.py`) | flock per file, writable connection, two context variables | outermost and nested transaction | nesting, a caught inner failure, failed open, death, two files | all or nothing for an outermost call, one writer, every waiter served |
| data-ensure lock (`data_availability/lock.py`) | a file: owner token, mtime | acquire, release | death inside acquire, takeover by age, late release | exclusion within `stale_seconds` |
| data-ensure flow (`data_availability/service.py`, `planner.py`, `cache.py`, `results.py`) | bars, features, relative strength, score of one symbol and date | look, plan, sync, build, score, answer | failing and half-done actions, bars renewed between two flows | READY is of one piece, one flow repairs what it finds |
| workspace lock (`workspace_context/locking.py`) and context (`lifecycle.py`, `mutations.py`, `persistence.py`, `retention.py`, `recovery.py`) | lock file; `workspace.json`, archive, `latest.json`, `index.json` | record, compact, archive, reactivate, resume, create, recover | single system calls interleave; state read before the lock; death between two files | one owner, acknowledged inputs kept, archiving not undone, recovery ends active |
| symbol memory (`symbol_memory/`) | events, claims, corrections, cards, archive, manifest | ingest, project, correct, expire, compact, repair, rotate, retrieve | evidence in any order, a rollback that does not reach files, edits during an update | supersession justified, no lone conflict, card matches commit, no look-ahead |
| sandbox job (`sandbox/`) | job row, job directory, manifest, container | prepare, approve, execute, finalize | executions of one approval, one lost at any step and rolled back, a container nobody could kill | one execution counts, nothing unchecked runs, the manifest describes the files |
| ingestion (`ingestion/`) | raw rows, canonical bars, quarantine, gap observations, watermark | download, daily sync, build, scan, repair | two providers that disagree, later rows that fail a rule, a stop between steps | bars rest on uncontested evidence, repairs tell the truth |
| provider routing (`vnstock/vnstock/core/provider/`, `core/runtime/`, `service/server.py`) | health record per provider in memory | resolve, serve, record, cool down, restart | failures with different thresholds, callers that retry | status agrees with outcomes, providers come back |
| provider dispatch (`vnstock/vnstock/ui/_base.py`) | pool counter, cache | dispatch, cache, validate | threads, cache shared by calls of different quality | strict answers are valid (they are not) |
| direct daily maintenance (`maintenance/daily.py`, `ledger.py`, `cli_app/maintain.py`) | the warehouse under one outermost transaction, a row of `maintenance_run` | acquiring, mending and deriving stages, conclude, persist, commit | stages that catch what fails in them, a transaction spoiled by that, death, work of earlier commands skipped | work and its row together, the exit code tells the row, success is current |
| closed loop, analytics, research pipelines, assistant, terminal, observability, disclosures, clients | | | | not modelled, see the end |

How they interact: producers, interactive flows and the command line *submit* to the
queue; the worker *claims* and *reports*, and after each report *triggers* the
finalization code, which reads and writes the ledger and submits the finalization job
to the queue; that job runs in the worker, writes stage rows and the run's status and,
in its memory stage, the claims and cards of the symbol memory. Everything that writes
the warehouse goes through the write coordinator, one process at a time. The
data-ensure flow takes its own lock, calls ingestion, and ingestion asks the data
service, which routes by health. `jobs prune` reads the ledger and deletes from the
queue. No transaction spans SQLite, DuckDB and files.

## Modules

| module | models | role |
|---|---|---|
| `ProvisioningQueue` | the SQLite tables and every writing operation, with the clock | detailed queue |
| `JobQueue`, `QueueRefinement` | what the queue promises, without clock and priorities; the mapping `Seen` | abstract queue and refinement |
| `ProvisioningWorker` | worker processes, composed with `JobQueue` | composition |
| `MaintenanceRun` | one run: ledger, its jobs, producers, worker, operator, pruning | composition over two stores |
| `SessionFinalizer` | the stages and rows of the finalization job | refines what `MaintenanceRun` leaves open as `FinalizationStage` |
| `WarehouseTransaction` | write coordinator and transactions | component |
| `DailyMaintenance` | one direct daily command after another, as one transaction each | component |
| `EnsureLock`, `DataEnsure` | the lock file of a data-ensure flow, and the flow | components |
| `WorkspaceLock`, `WorkspaceContext` | the lock file of a workspace, system call by system call; the files of the workspaces | components |
| `MemoryClaims`, `MemoryCards`, `MemoryArchive`, `MemoryRetrieval` | the symbol memory | components |
| `SandboxJob` | one sandbox job, its callers and its container | component |
| `OhlcvIngestion` | the daily bars of one symbol | component |
| `ProviderPlugins`, `ProviderRouting`, `ProviderDispatch` | the providers and their order; provider choice in the service; pooled and cached calls in the library | components |
| `ProvisioningQueueProofs`, `ProvisioningWorkerProofs`, `MaintenanceRunProofs`, `OhlcvIngestionProofs` | theorems about one component; worker and router together | proofs |
| `LocksProofs`, `MarketDataProofs`, `MemoryProofs`, `RecordsProofs` | theorems about the components and the compositions of `MCLocks`, `MCMarketData`, `MCMemory` and `MCMaintenanceRun` | proofs |
| `MC*` | instances for TLC | model checking |

An MC module may hold several instances. Where components share no state, a variable
`part`, chosen in the initial state, says which of them moves in a behaviour, and the
others stand still: one run answers the same kind of question about several
components, and each has exactly the behaviours it would have alone. A conjunction such
as `LocksInvariant` collects their state properties; each conjunct that is about a
hazard has a mutant of its own. The MC modules declare the bounds of their instances as
constants (`MCProvisioningWorker` the callers, `MCLocks` and `MCMarketData` all of them) with
what the proofs assume of them, and the `.cfg` gives the values: a theorem about such a
composition is about every size. In `MCMaintenanceRun` and `MCMemory` the bounds of an
instance are a record, a *model*, and the parameter of one instance of the component
(`Files(m)`, `Claims(m)`, `Retrieval(m)`): the general theorems speak of every `m` that
satisfies the assumption they name, those about the composition of the models it lists.

### ProvisioningQueue

`job` is the table of rows, a function on job ids; `pruned` the tombstones; `clock` the
instant, `now` the timestamp of the transaction that runs next. One action is one `BEGIN
IMMEDIATE` transaction; `now` may lie up to `MaxWait` behind `clock`, because the code
takes its timestamp before it waits
for SQLite's write lock. `SubmitOrJoin` joins an active row of the identity and raises
the priority of a queued one, or inserts. `Claim` first recovers expired leases and then
takes the first row of the `ORDER BY`. `Heartbeat`, `Complete`, `Fail` and
`AcknowledgeCancellation` need a live lease of the caller; an operation that raises is
a disabled action. `Prune` takes the oldest batch of old terminal rows and only then
skips retained ones, as the code does: a batch full of retained rows prunes nothing.
`QueueRefinement` is checked with `MaxWait` 0, since `JobQueue` promises exactness that
a late timestamp gives up by up to the busy timeout.

### ProvisioningWorker

`pc` names the points of `process_one`, `_process_claimed` and
`execute_handler_stages` between which other processes can act: taking the flock,
the claim, each boundary check, opening the warehouse, entering a stage (renewing
the lease), leaving it (joining the heartbeat thread), the commit, the final
heartbeat, and the report. `Crash` may happen anywhere and stands for kills and for
exceptions nobody catches; it gives back the flock and drops the open transaction,
not the lease. `RequestStop` is SIGTERM. History variables `done` and `late` record
which stages took effect in the current attempt and how many began after a
cancellation request.

### MaintenanceRun and SessionFinalizer

Each DuckDB transaction and each queue operation is one action. A producer walks
the goals (`look`, `find`, `submit`, `map`) and finishes; the state it compares at the
end is the one it read at the start. `MaybeSubmit` is the transaction of
`maybe_submit_session_finalization`, `SubmitWithoutCommit` the same with a death
between the SQLite submission and the DuckDB commit. `EndSilently` covers the ends no
trigger follows: cancelling a queued job and recovery at the attempt limit.
`ReadRetained` and `PruneJobs` are the two halves of `jobs prune`. In
`SessionFinalizer`, `stageRow` holds each stage's recorded status and, as history, how
much of the frozen universe its artifact covers; `eligible` is the present evidence and
`benchmark` the benchmark's, which come and go between stages because others use the
warehouse (a canonical build also deletes bars); `Execute` is refusal for
lack of coverage, reuse of a successful row, or building with an arbitrary result. Only the
coverage stage looks at the minimum and at the benchmark.

### DailyMaintenance

`saved` is the committed warehouse, `here` what the command's transaction sees, `spoiled`
the `rollback_only` of `WarehouseTransaction`: `Caught` sets it where a stage may have
caught the failure of a nested transaction, and `Commit` then rolls the whole command
back although its result has been printed. `run` holds the local variables of `_execute`
that decide how it goes on, and `reply` what the caller was told. The bars of a symbol are
`Behind` the session, with a `Gap`, or `Whole`. `Elsewhere` is what other commands change
between two of these. `--dry-run` and the choice of a source are left out.

### Locks and transactions

`EnsureLock`: `acquire` and `release` are atomic because of the guard's flock;
`CrashInAcquire` has the three files a death inside can leave. `WorkspaceLock` has no
guard, so every system call of acquiring, judging stale and releasing is an action,
and a file has an identity (inode and token). `WarehouseTransaction`: a process stacks
`frames`, an exception travels outwards (`raising`) and may be caught at any level;
`pending` are the writes of the open transaction, `db` the committed ones.

### DataEnsure

The bars of the symbol and of the benchmark are two blocks each, the history of
`min_required_bars` and the session of the target date, with a version for their
values; `features`, `strength` and `score` remember the version they were computed
from. `flow` walks through the snapshots and plans of
`ensure_data_availability`; an action succeeds when its postcondition holds after it.
`Raise` and `Die` cut an action short, for features also between the two tables it
writes. Flows of the same symbol and date exclude each other (`EnsureLock`), so other
commands act between two flows.

### Workspaces

`WorkspaceContext` makes one step of each file read or written. An operation is a
sequence of the steps left, so a crash just drops it and the next start finds the
files. It takes the lock as exclusive; `WorkspaceLock` says when it is. `Damage` makes a
`workspace.json`, `latest.json` or `index.json` unreadable between two operations (`broken`
are those of the shared two that do not parse), and `RecoveryFails` a file access of a start:
`Rescue` then goes on with a temporary workspace in the root, or outside of it when that
fails as well.

### Symbol memory

`MemoryClaims` is the claims of one predicate: the identity of a claim is its evidence,
so the table is a function from evidence to status, and `accept` decides for each match
in turn. `MemoryCards` puts the card, its lock and its record beside the claims, with
the outer transaction that the coordinated executor opens around a command, or the
provisioning worker around the finalizer's memory stage. An update has a transaction of
its own nested in it, whose failure dooms the outer one; a compaction and the maintenance
have none, so what they did before a failure is committed. `MemoryArchive`
copies events in pages to files named by content, then writes the manifest.
`MemoryRetrieval` goes through the rows of one query as of a date, the next by priority
each time, and selects or omits it; `used` and `notes` are the counters of that loop,
`Tokens` counts what they should be.

### SandboxJob

An execution is one transaction of the write coordinator, from the load of the job to the
COMMIT (`assistant/managed_sandbox.py:34-37`, `chat/controller.py:898-902`): `status` is the
committed row and `row` what the caller's own transaction sees. `RollBack` is a kill, an
exception nothing catches or a COMMIT that fails: the row is QUEUED again, its approval
(committed earlier) holds, the files stay as they were, and another caller may execute the
job. The container is Docker's: it may outlive the timeout and its caller, and its name, made
of the job's directory, makes an execution beside it fail (`NameIsTaken`).

### OhlcvIngestion

A row's prices are a member of `Values` or `Bad`. An operation commits step by step and
`Stop` may end it after any step. `Contested`, `RankedBefore` and `Promoted` are the
candidate choice of `build_canonical_ohlcv`; `Kind` and the observations are the gap
scan and repair.

### ProviderRouting and ProviderDispatch

The service answers one request at a time, so `Serve` is routing, fetch and record in
one step. The record caps the failure count at the threshold, beyond which nothing
tells counts apart. `calm` is a switch: from some moment on the providers answer.
`ProviderDispatch` interleaves threads between reading the cache, fetching, writing
the cache and validating.

## Runs

| run | parts and bounds | states | shows |
|---|---|---|---|
| `queue` | *queue*: 2 identities, 2 workers, 2 jobs, instants 0..4, timestamps up to 1 old, lease 2, delay 2, 2 attempts, batch 1; *exact*: 1 worker, 2 priorities, timestamps exact | 1.2 M | the queue's properties; priorities; `ImplementsJobQueue` |
| `worker` | 2 workers, 1 job, 2 stages (one with a warehouse transaction), 2 attempts, 2 interruptions, one identity without handler; *routing*: 3 providers, 1 caller | 141 k | ownership, stages, cancellation, termination; health, routing, and that providers come back |
| `maintenance` | *maintenance*: 2 producers, 1 goal, 2 jobs, 1 crash; *states*, *inputs*, *startup*: 1 or 2 processes, up to 3 workspaces, 2 inputs, limit 1, up to 2 crashes, failing recoveries or damaged files; *daily*: 2 symbols, 1 command; *again*: 1 symbol, 2 commands | 3.2 M | races of producers, worker, operator and prune; the files of workspaces; what daily commands record |
| `locks` | *ensure*: 3 flows, `stale_seconds` 2, instants 0..5; *workspace*: 3 processes, 2 interruptions; *warehouse*: 2 processes, 2 files, 3 units, depth 3; *archive*: 4 events, page 2, 2 crashes; *sandbox*: 2 executors, 2 turns, a preparer | 169 k | ownership, atomicity, sealing, and that waiters, dead locks, events and runs are attended to |
| `memory` | *claims*: 2 sources of one authority, 3 values, 2 dates, 4 events; *ranked*: two authorities; *notes*: the user; *cards*: 2 symbols, 2 updates, 2 cards, 1 edit, 1 crash or late failure; *failures*: 4 cards; *retrieval*: 4 claims, 2 days, budgets 3 and 2 | 1.7 M | claims, cards, retrieval |
| `market_data` | *equity*, *index*: 1 session, 2 providers, 3 requests; *gaps*: 2 sessions, 2 requests; *ensure*: 1 correction of earlier rows; *stages*: 4 stages; *run*: 1 producer, 2 goals, 2 jobs, 1 crash | 1.4 M | bars, gaps, ensure flows; the stages that finalize a run, resumption, and `RunIsFinalized` |
| `maintenance_regress`, `maintenance_prune`, `finalizer_stale`, `provider_retry`, `dispatch_strict`, `daily_rollback` | small | | the six disagreements below |

Why these bounds are enough. *Queue*: two jobs and two workers are the least with which
a join, a competition for a claim, a takeover and a batch that leaves a row behind all
happen; lease and delay of 2 within instants 0..4 let a lease be renewed, expire exactly
and be late, a late timestamp fall before or on the end of a lease, and a job be
claimed a second time and reach its attempt limit. *Worker*: one job suffices because the
flock makes claims sequential; what matters is where the two interruptions fall.
*Maintenance*: `FewCombined` lets any two of a crash, each working producer and a pruning
pass come together, not three; *run* adds several goals. *Daily* and *again*: with two symbols one fails
while the other succeeds, with two commands work is skipped, redone and overtaken. *Stages*: four have an
ordinary stage and one that may be skipped between coverage and result; the proofs cover
every number. *Workspace lock*: the third process is the one that finds a lock stale
while two exchange it. *Warehouse*: depth 3 has a unit that fails inside one that catches
inside a third. *Archive*: four events over pages of two make a second page and a late
arrival. *Claims*: three values of one date make a conflict with a third side. *Cards*: the
second symbol lets a stage or a maintenance fail after one card is written. *Bars*: the third request is
the one whose rows come after a promotion and a contest. *Ensure*: with one correction a
version may differ between bars, features, relative strength and score of each series.
`MaxJobs`, `MaxRuns`, `MaxEvents`, `MaxUnits` and the like limit what others add; the code
has no such limits.

Deadlock is not checked in `queue` (the bounded clock stops), `locks` (a clock, and jobs
and archives that are done) and `memory` (bounded evidence). It is checked in the others.

### Fairness

* `ProvisioningWorker`: a worker that can take a step takes it: a running process, or one that
  failed and that systemd starts again (`Restart=on-failure`). A worker that was asked to stop
  is not started again by anybody who is assumed to (`StartAgain` has no fairness), so
  `EveryJobEnds` speaks of jobs while not all workers are stopped. The lease of a job no
  worker holds runs out. Nothing is assumed of the heartbeat thread, of callers, crashes or
  stops; crashes and stops are finitely many.
* `MaintenanceRun` (part *run*): processes take their steps, a producer that died is run
  again for its run (the API's `maintenance_run_id`; the command line has no such option),
  and the operator or a timer repeats `maintain finalize`. Without the last, a run whose
  last job was cancelled from the queue stays ACQUIRING: that is the purpose of the command.
  Pruning is left out, because a pruned mapped job (finding 2) blocks the run for good. A
  finalization job is not assumed to execute any stage, only to end.
* `WorkspaceLock`: file times get old (`Age`) and the processes inside a transaction go on;
  nobody has to ask for the lock again after a timeout.
* `WarehouseTransaction`: bodies end, closing and unlocking follow, and a process that waits
  for a flock which is free again and again gets it (strong fairness, the kernel's queue).
* `MemoryArchive`: a rotation that began writes on; crashes are finite. That a rotation begins
  is not assumed (only `/memory maintain` begins one, for symbols it compacted and among the
  first hundred): it is the hypothesis of `EveryEventIsArchived`, which says that no event is
  passed over by all rotations of a maintenance that is repeated.
* `SandboxJob`: a transaction that began goes on until it commits or is lost; that one begins
  is not assumed, nor that a container ends by itself (the wait for it has a timeout).
* `ProviderRouting`: requests are answered and cooldowns pass. Callers need not ask:
  `ExplicitRequestsRecover` speaks of one that does.

## Findings

1. `maintenance_regress`: `produce` decides by the state it read before its submissions
   and writes ACQUIRING unconditionally (`maintenance/producer.py:140-142`). The design
   document gives the order ENQUEUING, ACQUIRING, FINALIZATION_QUEUED, FINALIZING; a run
   already queued for finalization, or closed, goes back.
2. `maintenance_prune`: the retained ids are read before the delete
   (`cli_app/jobs.py:91`), the help text promises that all maintenance-linked jobs are
   retained. A job mapped in between by a resumed producer is lost, and then the
   run's acquisition never counts as complete.
3. `finalizer_stale`: reused stages are not compared with the evidence they were built
   on, so a run can be SUCCESS with an artifact over part of the universe.
4. `provider_retry`: only a success takes a provider out of FAILING, and automatic routing
   never asks a FAILING one, so the end of the cooldown changes nothing
   (`vnstock/vnstock/core/provider/plugin_router.py:335`). A caller that retries the refusal
   it is told to be retryable is refused for ever.
5. `dispatch_strict`: the library caches a frame before it validates it
   (`vnstock/vnstock/ui/_base.py:133`), so a strict call may be answered with an invalid one.
6. `daily_rollback`: a stage that catches the failure of a nested warehouse operation leaves the
   command's transaction spoiled, so a command that printed PARTIAL ends with exit code 1 and
   nothing written (`maintenance/daily.py:402`, `warehouse/transaction.py:37`). The
   specification says that when one symbol remains partial the process exits 3.

### Further divergences, without a run

Met while modelling; the models behave as the code does, and properties are stated
beside them.

* *Maintenance.* An abandoned finalization leaves the run FINALIZING
  (`maintenance/session_finalizer.py:154`). A coverage row that is SUCCESS is not written again
  and no later stage asks for the benchmark or the minimum: when a build deletes bars in between
  or before a retry, stages run, and a run may end PARTIAL, below the minimum coverage.
* *Direct daily maintenance.* A command for a date that is no session opens the writer path and
  stores a NOOP row, though the specification says it opens no persistent writer path;
  `maintain proof` counts every row but NOOP ones, whatever its status; a run that found and
  repaired a gap is always PARTIAL.
* *Locks.* A data-ensure lock displaced by age while its owner works is still believed held
  ("until explicit release"). Of two contenders that find a dead owner's workspace or memory
  lock stale, the slower may remove the file of the faster.
* *Workspaces.* Archive and reactivate read the state before the lock and lose an input
  recorded in between; `latest.json` may name an archived workspace; the last of two writers
  of `index.json` wins; recovery may quarantine a state written meanwhile. Nobody repairs an
  `index.json` that does not parse: each save raises after the state was written. A start
  that has to create a workspace then raises, for all that it is for "preserving startup": making
  the temporary workspace fails for the same reason, and catches only OSError
  (`workspace_context/recovery.py:156`). It leaves an active workspace, which the next start finds.
* *Symbol memory.* A third value of a disputed date is accepted ACTIVE beside the conflict;
  newer evidence does not resolve a conflict; a value that returns is not remembered; a
  rolled-back stage leaves its cards, and one bad card undoes the stage
  (`symbol_memory/selective_projection.py:100`). When the row of the session or the COMMIT
  fails, after the handlers that restore a card have ended, the claims are rolled back and a
  card stays that no record names (`commands/executor.py:159`). A maintenance that fails at a
  symbol reports it, but commits the claims it has expired there, without their card
  (`symbol_memory/maintenance.py:46`); one that meets a lock ends FAILED and commits what it
  did before. An edit saved during an update that fails is overwritten by the restored card; the limit of
  the claim list hides the newest claims; retrieval as of a date judges by today's status.
* *Sandbox.* VALIDATING is never seen from outside and RUNNING is never stored. An execution
  that dies or raises is rolled back to QUEUED with its approval, although its container may
  have run: executed again, the job runs a second time, in the same directory. While the
  container of the lost execution is still there, that execution fails at once, for its name
  is taken, and the job ends FAILED. The rows of the session and of the turn are finished in
  transactions of their own (`assistant/managed_sandbox.py:38-53`) and are not modelled. A
  container nobody killed may rewrite outputs after the manifest.
* *Ingestion.* The daily sync never fetches a gap older than its overlap again; a failing
  row that ranks first removes the bar although an older valid one exists; a batch that fails
  the quality check is stored without a rebuild; the daily build resolves no gap observation;
  superseded values of a provider still contest its peers; for an index a failing row of the
  preferred provider removes another's good bar (`03-data-pipeline.md`: "Provider preference
  cannot override a failed quality gate"); `NOT_YET_PUBLISHED` is unreachable; an empty answer
  is a true gap again at the next repair.
* *Ensure flow.* Without `force_refresh` rebuilt features do not lead to a new score when one
  is fresh by date; a date that is no trading day never satisfies the postconditions; a cache
  hit may answer READY from features and a score older than the bars; a score of another policy
  makes scoring fail until an explicit rebuild; a cache hit does not look at `symbol_master`; a
  death between `save_feature_snapshot` and `save_relative_strength_snapshots` of a rebuild
  leaves new features beside the relative strength of the old bars, and both count as exact.
* *Dispatch.* Failover between pooled providers never happens: the api methods raise tenacity's
  `RetryError`, which the handler does not count as retriable, and the pools are reached with
  no source only; a list of symbols loses the call's quality and cache options; strict mode
  returns unvalidated data when the validator itself fails.
* *Closed loop (read, not modelled).* `propose` revives terminal states; promote and rollback
  may interleave so that the marker and the deployment disagree.

## Proofs

TLAPS proves, for every value of the constants allowed by the named assumptions:

* `ProvisioningQueueProofs`: `QueueInvariant` from `QueueAssumption` (positive lease and
  attempt limit, priorities in 0..1000). `IInv` conjoins the state properties, those
  about one row collected in `RowInv`. They need each other: an inserted id is fresh
  because the rows' ids are issued ones; a claimed row stays within the attempt limit
  because a queued row has an attempt left; a queued row that is cancelled carries no
  lease; a claim never touches a job whose cancellation was requested. Operations but
  insertion, pruning and the clock rewrite rows in place: `RowsRewritten` says when that
  preserves `IInv`. `TypeCorrect`, `SubmissionIsUnique`, `AttemptLimit`, `LeaseDiscipline`,
  `CancellationIsHonoured` and `HistoryIsComplete` follow. `EndsAreFinal`,
  `LeasesAreExclusive` and `ClaimsAreInTurn` are action properties, for every `MaxWait`.
  `QueueImplementsJobQueue` is the refinement: `Table` maps the initial state and every
  operation to one of `JobQueue` or to a stutter. Its hypothesis `MaxWait = 0` is needed: a
  transaction with an older timestamp sees a lease as live again that another has
  seen lapse, and an abstract lease cannot come back. What remains true of late
  timestamps is `LeasesAreExclusive`.
* `ProvisioningWorkerProofs`: `WorkerInduction`, then `WorkersAreSafe`. The strengthening says
  what each place of `process_one` means: inside the gate the flock is the worker's
  (`Guarded`), the held job is RUNNING with the worker as owner (`WorkerOwnsItsJob`), the
  stages done so far are exactly those before the present one (`StagesInOrder`), and once a
  stage began too late no other worker is past the check (`LateOnce`). `QueueAdvances` and
  `RunningStay` say what the queue's operations of others leave; the gate is what lets them be
  applied to the worker's own job. Of the router, `HealthInvariant`, for every list of
  providers: the strengthening `StatusTells` says that a status DEGRADED or FAILING is exactly
  that the last recorded outcome was a failure; `RoutingIsSound` follows with `LastResort`, which
  needs that the first of a tier exists. `WorkersAreSafeTogether` and `ChoicesAreSound` state
  both for the composition that the run `worker` checks.
* `MaintenanceRunProofs`: `RunInduction`, then `FinalizationWaits` and, as an action property,
  `RecordedJobsStay`. Beside `FinalizationAfterAcquisition` the strengthening says that the
  queue is a sequence of jobs that is only appended to, that nothing precedes the run, and
  where producers stand among the goals. `OnlyMissingIsSubmitted`: a producer that is alone
  (`Alone`) submits for no goal that has a job of the run. `MissingInv` says that between
  `find_by_identity` and `submit_or_join` nobody else adds such a job: retries need
  one, other callers submit without the run's correlation id, and the worker and prune only end
  and drop jobs. Two producers at once may both find nothing and submit twice.
* `LocksProofs` is about the composition that the run `locks` checks, from `LockAssumption` and
  `LocksAssumption` (finitely many processes and interruptions, no process or file is the value
  that stands for none, the preparer is no executor). Each part has its invariant:
  - data-ensure lock, any number of flows, any `stale_seconds` and any clock: `LockInv` bounds
    mtime and acquisition times by the clock; `LockOwnership` and `LockExclusion` follow;
  - workspace lock: until the first interruption (`Undisturbed`) no file is found stale,
    who created the file owns it until he removes it, and no two processes do; file identities
    never run out because the processes are finitely many. After an interruption the lock can
    have two owners (see the divergences), so the invariant claims types only;
  - archive: until a rotation is interrupted the files hold what the manifest lists and the
    batch at hand, each event once; that the manifest is backed holds after deaths too;
  - warehouse, any number of writers, files, units and depth: `ProcessInv` says what a call holds
    by the place it has reached, `UnitsInv` that the units of open transactions are disjoint and
    undecided and that a failed unit spoils its transaction. `AllOrNothing`, `SingleWriter`,
    `CallsEndClean`, `WarehouseTypes` and the action property `SuccessIsDurable` follow;
  - sandbox, any number of executors and turns (`SandboxInduction`): `OneAtWork` is the lock of
    the coordinator. `ExecutorPlaced` says what an executor knows at each of its places: that in
    its transaction the committed row is still "queued"; before the claim, that it holds an
    approval and has written nothing; after it (`Working`), that what it has digested for the
    manifest is what the files hold; and of one that has succeeded so far (`Succeeding`), that
    evidence and output are good. `WritersHide` says that nobody is in the middle of a write
    beside a manifest: without that a torn file would be described, and an execution after a
    lost one would inherit the description. `OneAnswered` says that one execution commits.
    `OneRunPerJob`, `OnlyCheckedCodeRuns`, `ManifestIsTrue` and `SuccessHasEvidence` follow.
  `EnsureLockHolds`, `LocksAreSafe`, `FilesAreTrue` and `OkIsDurable` put them together.
* `RecordsProofs` is about `WorkspaceContext`, `DailyMaintenance` and their composition in the run
  `maintenance`, from `RecordsAssumption` (a process is not 0, which stands for none) and, for all
  other models, `Fit` (no process is 0, the bounds are counted, the operations are the known ones).
  - files of workspaces, for any number of processes, workspaces, inputs, crashes, failing
    recoveries and damaged files:
    `FilesInv` says what a process knows by the steps it has left (`Placed`: its workspace, before
    a step that needs one; that the lock is its own, before an unlock), and that what it
    will save does not make an archived workspace active (`Faithful`): it carries an archived
    state, reactivates, has just made the directory, or holds the lock of a workspace that is
    not archived. `WorkspacesAreSound` (types) and `ArchivesAreKept` follow.
  - `InputsAreKept` needs more (`KeptInv`), and operations that load inside the lock
    (`Mild`): the lost input of archiving (see the divergences) is exactly where it fails.
    From loading to saving, what a process carries and the archive have together every input
    that the file and the archive had (`Keeps`), and a pointer is written behind a state file.
  - `StartsRecover` is about one process (`StartInv`): the steps of a recovery that look for a
    workspace come before those that name or make one, what it carries and publishes is active,
    and at its end the pointer names it (`Recovers`). Only an index that does not parse makes it
    give up, after its state was saved (`EndsWell`). Where nothing was interrupted, a saved
    workspace is in the index or about to be entered (`Indexing`).
  - the daily command, for all symbols and numbers of runs (`DailyInv`): what the row will say
    is settled by the stages that are over; while the transaction is open nothing of it is
    saved. `CommandsAreRecorded` and `SuccessesAreCurrent` follow.
  `RecordsAreKept` and `RecordsMove` put them together.
* `MemoryProofs` is about the parts of symbol memory that make up the run `memory`.
  - claims, for all sources, values and dates (`Configured`): `Better` is transitive, so a claim
    superseded by one that is superseded itself still has a better one (`SupersessionIsJustified`).
    `ConflictsHaveTwoSides` needs equal authorities (`OneAuthority`); with ranked sources one side
    may be superseded alone. `HistoryIsAuditable` is about the steps.
  - cards, for any number of symbols, updates, losses and edits (`Bounded`): `CardsInv` says which
    lock a unit has at each place, that a unit takes up a symbol once (`Fresh`), and that claims
    which the transaction has changed have their card, or are the symbol at hand, unless the
    transaction is doomed or the maintenance has failed at the symbol (`Rendered`). That a
    commit takes claims and record together (`CardsAreCommitted`, with the exception of such a
    symbol) depends on the last clause: a failed nested update leaves claims without a card in a
    transaction that can only roll back. `EditsSurvive` follows, too. Where nobody dies, edits,
    runs a stage or fails late (`Undisturbed`), `FailuresInv` adds which record the transaction
    will leave (`Outcome`) and what a handler will restore, and `FailuresAreUndone` follows.
  - retrieval, for any rows, sizes, budgets and days (`Counted`): the invariant of the loop says
    that its counters are the tokens of what it has selected (`Summed`), by one token set that
    grows by a disjoint one, and that what was considered comes before what is left (`Ordered`):
    so a claim omitted early is not overtaken, and `RetrievalIsBounded` follows for its budgets.
  `BetterSupersedes`, `ConflictsAreKept`, `MemoryIsSound`, `HistoryIsKept`, `DocumentsAreCommitted`
  and `EditsAreKept` are the properties of the run.
* `OhlcvIngestionProofs`: `BarsInduction`, for any number of sessions, providers, values and
  requests (`Configured`: they are counted, and the preferred providers form a list). Uncontested
  bars and accounted evidence are inductive only together with what the rows are (`RawInv`: a
  request stores one row of a session), what a bar was when it was promoted (`BarInv`), which
  steps belong to which command (`StepInv`), and what a repair has told so far (`ToldInv`: before
  its second look nothing it did not fetch, and after it only true observations). `BarsAreSound`
  and, as action properties, `RepairIsTrue` and, where no provider is preferred, `BarsYield`
  follow. With a preferred provider the last is false (see the divergences).
* `MarketDataProofs` is about the composition that the run `market_data` checks, from
  `FinalizerAssumption` and `MarketAssumption` (the bounds are naturals).
  - stages, for every number above 2: what the coverage row says was so when it was written, and
    an attempt at stage k has a row for every stage before k. `CoverageIsRequired`,
    `SuccessRequiresStages` and `StagesAreKept` follow;
  - ensure flow: `FlowInv` says, for the flow's place, which actions it has left and what they
    are enough for. While it provisions, every series is complete or will be when the
    actions left succeed (`SymbolInv`, `BenchmarkInv`); when it builds and scores,
    features and relative strength are of the promoted bars, or are about to be, unless something
    failed (`FeaturesInv`, `ScoreInv`). `AnswersHold` needs all of it: that a READY answer is of
    one piece, and that one undisturbed pass suffices, depend on what was planned two steps before;
  - bars and gaps: three instances of `OhlcvIngestionProofs`; the run, with one producer: one of
    `MaintenanceRunProofs`.
  `DataIsSound`, `BarsYield`, `AnswersHold` and `MissingOnly` put them together.

The strengthened invariants were checked by TLC on the bounds of the runs before they were
proved, those of the ingestion on an equity, an index and a pair of gaps.

Only model-checked: all liveness, which needs fairness and ENABLED (`EveryJobEnds`, `GateIsReleased`,
`ExplicitRequestsRecover`, `DeadLockIsRemoved`, `EveryWaiterIsServed`, `EveryEventIsArchived`,
`EveryRunConcludes`, `RunIsFinalized`), and what the runs that find a disagreement refute
(`ProviderDispatch` has no other). `ClaimsFollowPriority` and `ImplementsJobQueue` of the run
`queue` join two instances of the queue; `ClaimsAreInTurn` and `QueueImplementsJobQueue` are proved
of one with any constants. Induction over data is out of the prover's reach, since no installed
prover instantiates an induction scheme: that is why retrieval is a loop with an invariant and
its tokens a set, not a sum. That a nonempty set of naturals has a least element, which queue,
router and ingestion need of a `CHOOSE`, is within it, by a fact on well-founded relations.

## Not modelled, and why

Most of the repository is not a state machine: notebooks and guides (`vnstock/docs`, more than
forty thousand lines), field maps and parsers of the providers, numeric and tabular code
(features, scoring, outcomes, valuation, fundamentals, analytics, research packages), report
and terminal rendering. A model checker has nothing to say of them, so the modelled share of
all lines stays small however much of the coordination is covered. Assistant and chat depend
on language models; logging and tracing decide nothing.

Within reach and left out: the closed loop, a developer's tool beside the product; workspace cleaning, export and
the migration of legacy roots; intraday bars, other price bases and FiinQuantX's own path;
memory adapters of research evidence; the service's authentication and an administrator's
DISABLED status. Within the modelled part: payload and error texts, read-only queries, schema
migration and the queue's health gate.

## What could come next

1. The acquiring stages of `DailyMaintenance` refined to the operations of `OhlcvIngestion`.
2. The closed loop's attempts, promotion and rollback.
3. Goal identity as an operator: equal goals, equal identities.
