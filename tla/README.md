# Computed fields, their outbox and its neighbours: a TLA+ development

Teable is a spreadsheet over PostgreSQL. Formulas, lookups and roll-ups are
*computed fields*: their cells are columns of the user's tables and must follow
every change of the cells they depend on, across records, tables and bases. The
v2 engine (`src/packages/v2/adapter-table-repository-postgres/src/record/computed/`,
below `computed/`) does a part of that in the user's transaction and the rest in
background workers, with a transactional outbox between them. That engine is the
concurrent heart of the program. Around it stand the queue that wakes the workers,
the activity it shows to users, the unit of work, the undo store, outgoing webhooks, and
the migration of a space to a database of its own, which has to stop the engine without
losing a write. These are the subjects of the modules.

## 1. Inventory

| Component | State | Operations | Works with | What is hard | What makes it correct |
|---|---|---|---|---|---|
| **Computed outbox** `computed/outbox/ComputedUpdateOutbox.ts` | `computed_update_outbox`, its spill table `computed_update_outbox_seed`, the dead letter | `enqueueOrMerge`, `enqueueSeedTask`, `enqueueFieldBackfill`, `claimBatch`, `claimById`, `renewLease`, `markDone`, `releaseForRetry`, `markFailed` | called in users' transactions, by workers, by schema changes | merges against claims, lost leases and late answers, inline or spilled seeds, busy merge locks, the attempt budget | no work lost; a run sees all that its row says; one pending row per plan; only the owner settles |
| **Claim transactions** (same file) | row locks, the global and the per-base advisory lock | the statements of the two claims and of the takeover | each other, heartbeats, settlements | three kinds of claims under different locks | what was read stays true; live leases kept; limits kept |
| **Lock planner** `computed/ComputedUpdateLock.ts` | none | records to advisory keys | every recomputation | granularity by record count | overlapping runs share a key |
| **Updater** `computed/ComputedFieldUpdater.ts` | temporary dirty table, locks, the cells | seed locks, dirty propagation, target locks, one statement per level | strategies, workers | READ COMMITTED between statements | no stale overwrite |
| **Hybrid strategy** `computed/strategies/HybridWithOutboxStrategy.ts` | the user's transaction | sync levels, async rest, requeue on a missed lock, dispatch | updater, outbox | what is left over must reach the outbox | a stale cell always has work |
| **Worker** `computed/worker/ComputedUpdateWorker.ts` | claimed tasks, heartbeats | claim, run, next stage, release, fail, split | outbox, updater, planner | crashes, lock misses, lost leases | all work ends |
| **Planner** `computed/ComputedUpdatePlanner.ts`, `FieldDependencyGraph.ts` | metadata | stages, levels, cycles | strategies, workers | closure over edge kinds | every dependent is planned |
| **Pause registry** `computed/pause/` | pause scopes | pause, resume | claims | claims while it changes | nothing paused is claimed |
| **Space migration** `src/apps/nestjs-backend/src/features/space/space-data-db-migration*.ts` | job rows, bindings, triggers and a delta log on the source, artifacts on the target, pauses | start, claim, copy, replay, gate, drain, validate, switch, cancel, recover, roll back | write guard, pause registry, record writes | one row written by workers, requests and recovery; writers that go on | no answered write lost; the live target kept; gate and pause given back |
| **Field backfill** `computed/ComputedFieldBackfillService.ts` | none of its own | one `UPDATE` over the table per new field, in the schema change or as a task | outbox | no lock against recomputations of the same cells | every cell of a new field is filled |
| **Wake-ups, redrive, admission** `src/apps/nestjs-backend/src/features/v2/computed-outbox-trigger/` | BullMQ jobs, a recovery probe, redrive runs, permits in Redis | publish after commit, handle, defer, replay, redrive, admit | outbox, worker, Redis | deduplication by id, lost publications, outages, killed processes, clocks | a task that could be claimed is on its way; no more handlers than permits |
| **Activity** `computed/activity/` | the fields each task will compute, counters per field and table, gates in the process | attach, run, done, retry, repair | outbox transactions, readers | reads before locks; locks kept to the commit; late workers | counters say what is attached; no hidden standstill; repairs add up |
| **Unit of work** `src/packages/v2/adapter-db-postgres-shared/src/unitOfWork.ts` | transaction, after-commit handlers | begin, commit, retry | everything | handlers against retries | handlers run once, after commit |
| **Undo/redo store** `src/packages/v2/adapter-undo-redo-keyv/` | a stack per window, one key an entry | append, undo, redo | commands | requests that stop between two keys | it is the stack of the memory store |
| **Webhook delivery** `src/apps/nestjs-backend/src/features/webhook-delivery/` | delivery rows, endpoints | enqueue per endpoint, post what is due, retry | record events, a repeated job | rounds overlap and nothing claims a row | a row is given up only after its posts; every row ends |
| **Realtime, legacy backend, domain core, SQL generation, client** | | | | | not in scope, see section 8 |

`PROJECT.json` lists every component with its status, and the hazards at the
lines where they bite.

## 2. Modules

| Module | Models | State |
|---|---|---|
| `WorkQueue` | abstract: what an outbox promises | work queued, in hand, dead |
| `ComputedOutbox` | every operation of the outbox, one transaction an action | `outbox`, `seedRows`, `deadLetter`: the tables; `held`: what runs have in memory; `paused` |
| `OutboxClaim` | the claim transactions statement by statement | `row`, `rowLock`, `globalLock`, `baseLock`, `phase`, `picked` |
| `ComputedLockPlan` | the keys of a set of records | none |
| `ComputedRecompute` (extends `ComputedLockPlan`) | users' transactions and worker runs over cells | `val` committed, `draft` uncommitted cells, `keys` held, `phase`, `plan`, `level`, `snap`; `queued`, `hand`, `dead` |
| `MCComputedOutbox`, `MCOutboxClaim`, `MCComputedRecompute` | the small instances | |
| `ComputedOutbox_proofs`, `OutboxClaim_proofs`, `ComputedRecompute_proofs`, `WakeupDelivery_proofs`, `ComputedActivity_proofs`, `UnitOfWork_proofs`, `SpaceMigration_proofs`, `SideBySide_proofs` | theorems and their proofs, each beside the module it extends; the last one is about `TaskSplit`, `BaseAdmission` and `WebhookDelivery` | |
| `SplitState`, `AdmissionState`, `UnitOfWorkState`, `WebhookState`, `ActivityState` | the state of five components and what must hold of it: the component's module extends it with the steps, and the run of several components extends it too, so that run and theorem speak of one definition | |
| `TaskSplit` | the split of a large task, its retries and twins | `rows`, `worker`; `stale`, `given`: what is still to be computed, what is in the dead letter |
| `WakeupDelivery` | how a row reaches a worker | `row`, `jobs`, `handler`, `permits`, `probe`, `redrive`; history `unarmed` |
| `BaseAdmission` | the permits of a base, with clocks | `permit` in Redis; `active`, `lost`, `renewal` in the process |
| `UnitOfWork` | attempts, hooks and scopes of transactions | `call`, `txs`, `objects`, `hooks`, `ran` |
| `UndoStack` | abstract: one stack with a cursor | `entries`, `cursor`, `answer` |
| `UndoRedoStore` | that stack over the keys of a store | `meta`, `kept`, `todo` (the writes a request has yet to make) |
| `SpaceMigration` | a space moves while it is written to | `job`, `worker`, `rollback`, `bound`; `source`, `target`, `there`, `capture`, `log`, `pause`, `tgtPause`; `computing`, `open`, `acked`; history `overlooked`, `traceless` |
| `MCWakeupDelivery`, `MCSpaceMigration`, `MCSideBySide` | the small instances; the last has eight components in one run | `scene`, `subject`: what the behaviour is about |
| `ComputedActivity` | what users see of the outbox | `row`, `refs`, `shown`: the tables; `rowLock`, `lock`, `gate`; `tx` the open transactions, `hand` what workers claimed; history `late`, `stirred` |
| `WebhookDelivery` | rows posted to endpoints by rounds | `delivery`, `enabled`, `toEnqueue`, `round`; history `posts`, `refused` |
| `MCOutboxAndActivity` | an instance of `MCComputedOutbox` and two of `ComputedActivity` in one run | `subject` |

The first three state machines look at one system at three grains.

* **`OutboxClaim`** splits a claim into lock, read, check and commit. It shows
  what `ComputedOutbox` relies on when a claim is one step there.
* **`ComputedOutbox`** has each operation as one step and arbitrary callers: any
  writer enqueues anything at any time, any run settles what it claimed in any
  order, late, or never. It implements **`WorkQueue`** under the mapping in its
  definition `Queue`: the work of a row is its plan with each of its seeds.
* **`ComputedRecompute`** keeps of the outbox what `WorkQueue` promises (work is
  queued, in hand or dead) and models what is done with it: the transactions that
  update cells.

### ComputedOutbox

A row is a record: `status`, `plan` (the merge key: base, seed table, plan hash
and change type), `solo` (its plan hash was made unique by `uniquifyPlanHash`),
`attempts`, `inline` and `spilled` (`seed_record_ids`, and whether it is null),
`all` (`seedAllTableIds`), `owner` (`locked_by`), `live` (`locked_at` is inside
the lease), `due` (`next_run_at` has passed). Time is only in the last two:
`LeaseExpires` and `BecomesDue` may happen at any moment.

`createClaimOwner` makes a fresh owner for every claim, so an `Owner` is one
claim, and `held[o]` is the memory of the run that made it. Names that nothing
refers to are used again, which keeps long histories finite.

| Code | Action |
|---|---|
| `enqueueOrMerge`, `enqueueSeedTask`, `enqueueFieldBackfill` | `EnqueueNew`, `EnqueueMerge`, `EnqueueBypass` (merge lock busy) |
| `claimBatch`, `claimById`, `claimById` with takeover | `ClaimBatch`, `ClaimById`, `TakeOver` |
| `renewLease` | `RenewLease` |
| `markDone` | `MarkDone`, `LeaseLost` |
| `releaseForRetry` | `ReleaseReturn`, `ReleaseMerge`, `ReleaseBypass`, `LeaseLost` |
| `markFailed` | `FailDead`, `FailRetry`, `FailRefused` (the unique index refuses the update), `LeaseLost` |
| process death, time, operators | `Crash`, `LeaseExpires`, `BecomesDue`, `PauseOne`, `ResumeOne` |

### OutboxClaim

Each task has a seed table of its own, so the limit in question is the one per
base. `BeginBatch`, `BeginById` and `BeginTakeover` are the advisory locks or
their absence; `LockBatch` and `LockOne` are the `FOR UPDATE SKIP LOCKED`
selects; `CheckBatch`, `CheckById` and `CheckNothing` count and filter; `Commit`
writes the rows and releases everything. Settlements and renewals are single
statements that wait for the row lock.

### ComputedRecompute

A record stands for one of its cells. A user's transaction (`Writer`) writes
sources (`Write`), then either recomputes (`LockSeeds`, `LockTargets`, one
`ReadLevel` and `StoreLevel` per level) and leaves the rest to the outbox, or
leaves everything (`LeaveToWorkers`, or `MissLock`), and commits (`CommitWrite`).
A worker's run takes units of work (`Claim`), checks its lease (`Begin`, `Skip`),
goes through the same update steps, and commits with the next stage and
`markDone` in its transaction (`CommitRun`); otherwise it fails and gives the
work back or buries it.

READ COMMITTED is explicit: a level's statement reads (`ReadLevel`: committed
cells and its own) and stores in a later step, once no other transaction holds
the rows. Between the two others may commit; the row is then overwritten with
what was computed from the older reading, which is what PostgreSQL does to an
`UPDATE ... FROM (SELECT ...)` whose condition still holds.

### TaskSplit

`splitLargeComputedTask` and `splitLargeSeedTask` enqueue one part after the other
(`EnqueuePart`) and then call `markDone` (`EndSplit`), each in a transaction of its own.
A worker that has lost its lease meanwhile gets `false` from `markDone` and goes on
with the whole task, so the parts and the whole are computed side by side. A record is
`stale` until a run that read it succeeds; a `poison` record makes every run fail.
`MarkFailed` is refused by the unique index when a twin is pending: the row then
waits for `LeaseEnds`.

### WakeupDelivery and BaseAdmission

The outbox row is durable, the wake-up is not. `AfterCommit` is the publication after
a writer's commit, `Deliver` .. `Retry` the handler of a job await by await, `Defer`
the wake-up it leaves when it cannot claim, `LastCall` the one the processor leaves
when a job has failed for the last time. `Publish` is the publisher: while its probe
runs every other publication fails at once, and `Recover` asks for a full redrive.
`StartScan`, `Scan` and `ScanEnds` are a redrive row by row, `Reconcile` the one every
five minutes. BullMQ is modelled by what the code relies on: `Added` leaves a job
alone whose id exists, `Removed` frees the id, `Crash` gives a stalled job out once
more. There is no time: a delayed job may be delivered at any later moment.

`BaseAdmission` has time, and nothing else of the queue: a tick lowers the lease in
Redis and the belief of the process together; answers arrive late, twice or never.

### UnitOfWork

`Begin` is a top-level `withTransaction`, `Nest` the same in the other scope inside it:
it joins when both scopes are one physical database (`single`), and has attempts,
a commit and hooks of its own when they are not. `Retry` is the attempt after a
deadlock or a serialization failure, `CommitFails` a COMMIT that failed or whose
answer was lost. `RunHook` runs one hook; hooks may throw, and be registered at any time.

### UndoRedoStore and UndoStack

`UndoStack` is `MemoryUndoRedoStore` with the limit of the key-value store, plus the two
things an interrupted append may cost (`LoseUndone`, `LoseOldest`). In `UndoRedoStore`
a request reads (`AppendSplit`, `AppendInline`, `Undo`, `Redo`), and then makes its writes one
key at a time (`WriteKey`), until it is done or stops (`Interrupt`).

### ComputedActivity

Every operation of the outbox has one on its activity in the same transaction: it reads
the attached rows of its task (`Started`), waits for gates (`TakeGate`, enqueues only) and for the
advisory lock of each table in the order of ids (`TakeLock`), then writes the rows and the
counters it counts from them (`Apply`). Locks stay until `Commit`; gates, which are
promises in the memory of one process, open after `Apply`. All writers and workers of the
model share that process. `Settle` is the lease check of `markDone` and of the retries: one
statement on the row, which waits for a locked row only where it names the lease the
statement asks for. `Register` is what a seed task does once it has planned. `RollBack` is
PostgreSQL breaking a cycle of waiting transactions; it does not see the gates. `Look` is `getByTableId`, which finds
a table that does not add up and has `reconcileTable` repair it.

### WebhookDelivery

`EnqueueEvent` and `Enqueue` spread an event over the endpoints, one row and one transaction each. A
round (`ListDue`, `Post`, `Record`, `Stop`) reads the due rows, posts one after the other and
writes each whole row back from the copy it read. The job starts every five seconds
whether or not the last round has ended, so rounds overlap.

### SpaceMigration

One space; a write is a number, given out in the order in which writes execute. The
worker's job is one action per await of `runMigrationJob`:

| Code | Action |
|---|---|
| `startMigrationForSpace`, `cancelMigrationForSpace` | `Start`; `AskCancel` (the check and the pause) and `Cancel` (the update) |
| `claimNextPendingMigrationJob`, `recoverStaleActiveMigrationJobs` | `Claim`; `RecoverStale`, `Mend` |
| `runMigrationJob`, copying | `Prepare`, `CloseInitialGate`, `OpenSnapshot`, `InstallCapture`, `OpenInitialGate`, `StartCopy`, `FinishCopy`, `CatchUp` |
| `runMigrationJob`, cutting over | `CloseFinalGate`, `PauseSource`, `Drain`, `CutOver` |
| `validateCopyForJob`, `validateAndSwitchJob` | `BeginValidation`, `EndValidation`, `CompleteTest`, `EnterSwitch`, `Bind`, `FinishSwitch`, `Tidy` |
| its catch blocks | `Fail`, `SeeCancel`, `Unwind`, `CompleteFailed` |
| `rollbackMigrationForSpace` | `RollbackBegin`, `RollbackProof`, `RollbackRestore`, `RollbackResume`, `RollbackFail` |
| the write guard and a record write, a computed task | `Admit`, `Commit`; `StartComputing`, `FinishComputing` |

Nobody waits for users. `Drain` waits for computed tasks (and, in the code, for schema
operations and background writers), `EndValidation` and `RollbackProof` for nobody: a write that
`Admit` let in before the gate closed may `Commit` at any later step. What does wait is
PostgreSQL: `CREATE TRIGGER` and `DROP SCHEMA` for the transactions that have written to the
tables (`Unended`). A migration compares contents (`Matches`), a rollback compares the
relations, the row counts and the newest `__created_time` or `__last_modified_time`
(`Untouched`). So every commit to the target is marked when it moves none of these
(`traceless`): always for a computed task (`UpdateFromSelectBuilder` sets no timestamp; a computed task
may run on the target, too), and for a user's write by choice, since a changed cell moves the
timestamp, a shuffle of a row order or a table without these columns does not.

Two constants name what the code assumes and does not enforce: `HeartbeatsOnTime` (a job with
a living worker never looks stale) and `CancelsInTime` (the state a cancellation checked
still holds at its update).

## 3. Properties

*ComputedOutbox.* `TypeOK`; `PendingUnique` (one mergeable pending row per
plan: the index would abort a user's write otherwise); `SeedRowsOwned` (row and
spill table agree); `OwnerSeesRow` (a run that owns a row has in memory exactly
what it says, so that finishing never takes unseen work with it);
`OnlyOwnerSettles` (a row leaves processing only by the hand of its `locked_by`);
`NoWorkLost` (the refinement of `WorkQueue`); `OnlyDoneEnds` (work leaves the rows and the dead
letter only when its owner reports it done. `WorkQueue` lets a run finish what it
has in hand at any step, so the refinement alone would take a release that deletes its row and merges
nothing for a run that has finished).

*OutboxClaim.* `ChecksStayTrue` (what a claim read holds at all its later
statements); `LiveLeaseKept` (no live lease is lost but to an explicit
takeover); `BaseLimitKept`, checked for batch claims alone as `BatchLimitKept`.

*ComputedRecompute.* `TargetsExclusive` (transactions that update at the same
time share no dirty record); `StaleIsInWork` (a committed cell that differs from
its formula over committed cells has work that will recompute it);
`EventuallySettled` (once writes and faults stop, every cell becomes fresh, but
for those that depend on work in the dead letter).

*TaskSplit.* `SplitKeepsRecords` (a stale record is in a row or in the dead letter,
wherever a split stopped); `EveryRecordSettles` (it is computed or given up in the
end: rows that were refused their retry and rows of dead workers come back).

*WakeupDelivery.* `NoTaskForgotten` (a task that could be claimed has a job that may
still claim or defer it, a publication about to be made, or a redrive that will come by;
only a pause without an end, a redrive that failed or one that met the running job of
the same revision leaves it to the five-minute reconciliation); `DueTaskRuns` (it is claimed
in the end, unless paused).

*BaseAdmission.* `BeliefOutlived` (a process stops believing in its permit before Redis
gives it away); `CapacityKept` (no more handlers pass `assertActive` than the capacity).

*UnitOfWork.* `HooksFollowTheirAttempt` (a hook runs only after the outcome of the very
attempt that registered it); `ResultTellsWhatHappened` (over one physical database the
result says what was committed, in both scopes, but for a lost COMMIT answer or a hook
that threw).

*UndoRedoStore.* `KeepsTheStack`: the refinement of `UndoStack`, whatever request stops
between whichever two writes.

*ComputedActivity.* `CountersTrue` (the counters that are committed say what is attached
and nothing is attached to a task that has ended, whatever commits between two reads of a
process; it stops at the first task taken over from a worker that is still at work, since such
a worker may leave attached rows behind, and the code relies on the repair there: `late` remembers these
tasks); `CyclesAreSeen` (a circle of waits that runs through the gates,
where PostgreSQL does not find it, has in it a transaction that enqueues again while it keeps the
locks of an earlier enqueue: the gates open before the commit, the locks do not. There is no
other such circle); `HealsTheTable` (what a
repair commits adds up even after that, unless a worker of such a task commits between the look and the
repair: `stirred`).

*WebhookDelivery.* `DeadWasTried` (a row is in the dead letter only if it was refused for
good or posted as often as its budget says, whatever rounds overlap); `DeliveriesEnd` (every row
is delivered or given up in the end).

*SpaceMigration.* `NoWriteLost` (the database the space is bound to holds every
write that was answered); `LiveTargetKept` (no clean-up drops the database the space lives
in); `SwitchesToACopy` (at the switch the two databases are equal, computed writes
included, unless the late resume of an earlier rollback lifted the pause: see section 6); `RollsBackUntouched` (a rollback forgets nothing); `GivesBack` (gate and pause
are given back whatever happens, but for the pauses `PauseForgotten` names).

Three of these leave out what the code lets go, and nothing else. `overlooked` is the
writes that were still open when a switch compared the two databases, or when a rollback took its
proof: they commit to the database that is given up. `traceless` is the writes to the target that the proof
of a rollback cannot see. Without either exclusion TLC finds a lost write: a user's
transaction past the guard commits to the source between comparison and binding, and the
rollback after a row order was changed in the target. That `SwitchesToACopy` leaves
`traceless` out in the other direction has a cause of its own: a computed task that began in the
target before a rollback may write there while the next job copies to it. Everything else stays in the properties:
a write that commits before the comparison, also between snapshot and trigger or during a replay,
must be in the target, and a write that moved a count or a timestamp before the proof keeps the
rollback from happening.

## 4. Runs and bounds

| Run | Asks | Bounds |
|---|---|---|
| `OutboxSpill` | uniqueness, ownership, spill table, attempt budget, no work lost, none ended unreported | two rows of one plan, so a release can meet its twin; two claims at once; two items and inline limit 1, so a merge of two spills; two attempts. Names are reused, so claims follow each other without end. Activity: two tables, plans `{2}` and `{1, 2}`, two tasks, one user, two workers, a reader, one merge, one fault (failed run, crash or lost lease), one enqueue per transaction. Once more with three tasks and up to two enqueues per transaction, no merge and no fault |
| `OutboxScopes` | limits, pauses, batch claims, no work lost | a seed plan and a backfill plan in two scopes, inline limit 2 (nothing spills), one attempt |
| `SideBySide` | eight small questions, one per value of `subject` | see below |
| `RecomputeFan` | exclusion, staleness and liveness with two workers and a user | two cells over two sources of another table, so that the user leaves everything to the workers; leases lost in mid-run; records locked one by one |
| `SettlesStages` | the same over stages | a chain through two stages with failures and the dead letter |
| `Migration` | what a migration may never do | one worker, two jobs (a second one meets what the first left), two writes (one on each side of a snapshot, a gate or the switch), one crash, one cancellation, a failure at every await before the switch and in a rollback |
| `Delivery` | wake-ups | one base, capacity 1, two attempts a job, one pause; `scene` is two slots without faults, one slot with one fault (outage, crash, failed task or thrown call), or one slot and two tasks |

`SideBySide` runs components that have nothing to do with each other in one model: the
initial state picks a subject and the others stand still, so its states are the sum of
theirs, not the product. Its instances: a claim of each kind on two rows; two batch claims on
three rows of two bases with limit 1; a task of two records split into two, one of them
poisoned, two workers, one fault, five rows (the task, its parts and twins under unique
keys); three attempts and two failures of a unit of work with one hook; an undo stack
of limit 3 found with up to two entries and four appends, so that the limit and
a cursor inside the stack both occur; two permit holders, capacity 1, leases of two
ticks; one migration job with one crash for `GivesBack`; one endpoint with two rows and
two rounds, one fault (a crash of a round or a switch-off).

Bounds on history in the recompute runs: `MaxWork` stops new writes while that much work
is left (the work itself is never cut), `MaxDead` bounds the dead letter. Two units of work
are what two overlapping runs need, and races of three actors (a user and two
workers) are in reach. `Value` is 0..2 with sums as formulas, so a stale sum
differs from the right one. Runs that check liveness use no symmetry.

`CHECK_DEADLOCK FALSE` stands in every configuration: when the bounds are used
up or all claims are settled, the modelled system may really stop.

### Disagreements found

| Run | Shows |
|---|---|
| `SeedMergeSpilled` | `mergeSeedTask` reads the pending payload from the inline column, null once the seeds are spilled: merging into such a row drops seeds (`MergeKeepsQueued`) |
| `ClaimMixedLimit` | a batch claim and a by-id claim lock different keys and exceed the base limit together (`BaseLimitKept`) |
| `RecomputeMixed` | a run above `maxRecordLocks` and one below lock the same record under different keys; the older reading overwrites the newer cell and no work is left (`StaleIsInWork`) |
| `MigrationCancel` | a cancellation and the worker both write the job's state unconditionally: a job whose cancellation was answered binds the space (`CanceledNeverSwitches`) |
| `MigrationCleanup` | an error between the binding and the update to `succeeded` is unwound like a failed copy: the target the space lives in is dropped (`SwitchedTargetKept`) |

The passing runs avoid these by their instances, and say so by them: seed plans
do not spill in `OutboxScopes`, payloads name no whole tables in the runs of
`NoWorkLost`, one kind of claim for `BatchLimitKept`, all sets of
records on one side of `maxRecordLocks` in the recompute runs, `CancelsInTime` and
failures before the switch only in `Migration` (its properties also leave out the states of
`CancelHeeded`: a job that goes on after its cancellation).

## 5. Fairness

`FairSpec` of `ComputedRecompute` assumes that a transaction or run that has begun
takes its next step (the process is scheduled, statements return or time out),
and that a free worker that could claim something claims something (the loop of
`runOnce` polls; wake-ups and the sweep stand behind it). Nothing is assumed
of faults or users: `CalmDown` may happen at any time or never, and the property
speaks of the behaviours in which it does. After it no statement fails and no lease is
lost: heartbeats renew them in time, which `renewLease` every third of the lease
is there to do. Before it leases may be lost in `RecomputeFan`; `SettlesStages` has crashes and
failures in their place. Try-locks need no strong fairness: a run
that misses gives its work back, and the one that holds the lock ends.

`TaskSplit` assumes the same of its workers and that the lease of a dead worker ends.

`FairSpec` of `WakeupDelivery` assumes that living processes go on, that timers fire, that
Redis comes back, that a pause with an end ends, and that a waiting job of a task is
delivered if a slot is free again and again (strong fairness per task, which is the
first-in-first-out order of the queue). A pause without an end may stay for ever. The
reconciliation is taken to come when nothing else is on its way, since five minutes are longer than
any other delay. `NoTaskForgotten` is what shows that little depends on it. The price is that a
full redrive and one for actionable rows only meet in the model when Redis comes back while one runs
(`Recover`), never by the timer: that a full one is not weakened by the other is `rerunFull`, which is in
`Stronger` but which no property turns on.

`FairSpec` of `WebhookDelivery` assumes that the job goes on starting rounds, that a round goes
on, and that a backoff ends. Nothing is assumed of endpoints and their answers.

`FairSpec` of `SpaceMigration` assumes that the worker's loop goes on (`runForever`),
that a request to roll back runs until it ends or is killed, and that transactions of
writers end. Nothing is assumed of users, of cancellations, failures and crashes.

## 6. What is proved

By TLAPS, for every value of the constants that meets the stated hypotheses. Without
others these are the named `ASSUME`s of the modules (typing of the constant functions,
limits above zero, `NoOwner` and `Nobody` outside the names), which TLC evaluates in every
run. A proof module's `Parameters` says the same of the constants of a module without
`ASSUME`s: finite sets of owners or records, numbers that are natural. Every invariant
is proved by the usual three facts: it holds initially, every step keeps it, and it implies the
property.

**`ComputedOutbox_proofs`**

* `TypeCorrect`: `TypeOK`. One lemma per group of operations. It is also the
  proof that no row ever has a spent budget.
* `OwnerAlwaysSeesRow`: `OwnerSeesRow` is inductive with `TypeOK`. An enqueue
  or a merge touches no processing row, since `FindPending` asks for the status; a claim
  makes the memory from the row and its owner is written nowhere else
  (`FreeOwner`); a merge into a twin touches pending rows only.
* `PendingAlwaysUnique`: needs `TypeOK` and `OwnerSeesRow`: when a row
  returns to pending, the look-up used the plan in the run's memory, which
  `OwnerSeesRow` says is the plan of the row.
* `OnlyOwnerEverSettles`: every step that takes a row out of processing checks
  `locked_by` first.
* `SeedRowsAlwaysOwned`: every path that writes or deletes a row does the same to its
  spilled seeds, and a merge writes them to one of the two places, whatever both held.

And every step of the outbox is a step of `WorkQueue` or none:

* `OutboxLosesNoWork` is the refinement `NoWorkLost`, under two hypotheses: `SeedsStayInline` (a seed task stays under the inline limit; `SeedMergeSpilled` shows
  what happens above it) and `NoWholeTables` (`RetryInput` and `DeadRecord` drop
  `seedAllTableIds`). The mapping needs that no run has two rows of one
  plan in hand (`ApartInRun`), that only computed tasks spill (`OthersPlain`), and
  `OwnerSeesRow`: what a settling run takes away is what the row says.
* `OnlyDoneEverEnds`: `OnlyDoneEnds`, under the same hypotheses and from the same invariant. A row is deleted
  in three places only (`LeavesByHand`); the burial and the merge into a twin keep its work because what the
  run has in memory is the row (`OwnedWork`).
* `MergesAlwaysKeepQueued`: `MergeKeepsQueued`, which the violation run refutes, holds under
  `SeedsStayInline` alone.

**`OutboxClaim_proofs`**

* `ChecksAlwaysStayTrue` and, from it, `LiveLeaseAlwaysKept`. The inductive invariant is
  `IInv == TypeOK /\ RowsHeld /\ RowShape /\ ChecksStayTrue`: a transaction that has read holds
  the locks of its rows (`RowsHeld`), pending rows have no owner and no lease
  (`RowShape`), and the checked rows are claimable. `ChecksStayTrue` alone is not
  inductive: it needs the row locks, which keep renewals and settlements out.
* `BatchLimitAlwaysKept`: `BaseLimitKept` where all claims are batch claims and heartbeats are on
  time. The global lock lets one transaction at a time past it (`OneAtATime`), what a claim has
  checked still fits (`CheckedFits`) since everything else lowers the count, and a late
  heartbeat, which would raise it, is what the second hypothesis excludes. `ClaimMixedLimit`
  shows the first one is needed.

**`ComputedRecompute_proofs`**: `TargetsAlwaysExclusive` and `StaleAlwaysInWork` for any dependency
graph, any number of users and workers. Hypothesis `OneGrain`: two sets of records that share a
record lock it under the same key. It holds when no table has more records than
`maxRecordLocks` (`GrainOfSmallTables`), or when everything is locked by table
(`GrainOfLargeLocks`); `RecomputeMixed` shows the property fail without it.
The invariant says of each transaction that it holds the locks of all it may recompute, that it
writes nothing else but its user's sources, and that every level it has computed agrees
with what it reads, unless work that is not its own covers the cell. The last part is what
`StaleIsInWork` lacks: it is about committed cells only, and a commit makes drafts committed.

**`WakeupDelivery_proofs`**: `TypeCorrect` and `NoTaskEverForgotten`, for any number of processes, consumer
slots, tasks, faults and pauses; `Parameters` says that the slots are finitely many.
`NoTaskForgotten` is about tasks that could be claimed, and that changes with every pause and every
timer, so it is not inductive. `OpenTasksMinded` asks for more: a task that is not done, due or
not, is on its way or in the hands of a worker. For this to give the property back, what a worker has
must not be claimable (`WorkedOnRests`); for a step of a slot to keep it, the slot must have
a job of its own that is active (`SlotsHold`), and no two jobs one id (`IdsApart`), or
the deferral of one job could be swallowed by another. A redrive that rests was not asked again
(`AsksKept`), or an asked-for full redrive could be counted on that never comes.

**`ComputedActivity_proofs`**: `CountersAlwaysTrue`, `RepairAlwaysHeals` and `CyclesAlwaysSeen`, for any
plans over finitely many tables and tasks, any number of users and workers, and one reader
(finite because the counters are cardinalities). `CountersTrue` is about committed tables; the
invariant has to say why a transaction that counted some time ago may commit its count now.

* Who may write for a task: the transaction that inserts it, that has its row locked, or whose
  worker has it in hand (`Owns`). For a task that was not taken over this is one at a time
  (`Apart`, `Leased`, `RowsLocked`).
* Where it may write: `Fenced` says that whatever a transaction has attached or taken away
  lies in tables whose locks it keeps. So of two open transactions no one changes what the other
  has counted, and `Summed` (the counters a transaction is about to write are the count of what it sees)
  survives the commits of all others.
* The reads come before the locks. `Fetched` says that the tables read are still all the tables
  of the task when the locks are there: nobody else may attach to the task meanwhile. For a
  task in `late` this is false, which is what the property leaves out.
* `RepairAlwaysHeals` is an action property: `Repaired` says of a repair that has done its
  writes and is not yet stirred that its counters are the count of what it sees, and that this has no row
  of an ended task. It needs no hypothesis on `late`.
* `CyclesAlwaysSeen` needs no bound on the enqueues of a transaction, and no hypothesis but that the
  constants are as said. `AtGates`, kept beside the invariant: a process with an enqueue before it
  has locked no row that somebody has a lease on, and asks for the gates in their order. So
  (`WaitsForGates`) whoever waits for a process at the gates that does not enqueue again
  (`EnqueuesAgain`) is at an earlier gate itself. In a circle without such a transaction nobody waits for
  the one with the least gate; hence none of it is at the gates, and the database sees it.

**`SideBySide_proofs`**, about three of the components of the run `SideBySide`:

* `SplitTypeCorrect`, and `SplitAlwaysKeepsRecords` for any records, limit and workers.
  That some row has a record is not inductive, since `markDone` deletes a row for the reason
  that its parts exist. `SolidKept` asks for a row with the record that no
  worker is about to delete for this reason. It rests on the arithmetic of the parts
  (`PartsCover`: each record of a task is in one of its parts).
* `BaseTypeCorrect`, `BeliefAlwaysOutlived` (at every instant, with the answers
  of the scripts under way; an owner that begins has no renewal of an earlier one left, `RenewsInside`)
  and, from it and the count of `ACQUIRE_SCRIPT`, `CapacityAlwaysKept`.
* `DeadAlwaysTried` for any endpoints, rows and rounds. Rounds that overlap write back counts they read
  long before, so a count may go down and says nothing of the posts of a row; but no
  row and no round has a count above them (`RowsPosted`, `ItemsPosted`, `PostCounted`), which is enough: a row is
  given up on a count that reaches the budget.

**`UnitOfWork_proofs`**: `HooksAlwaysFollowTheirAttempt` and `ResultAlwaysTells`, for any number of retries
and hooks. The invariant relates a call, its object and its transaction: the state of an object
agrees with how its transaction ended (`Outcomes`), the hooks queued on an object are of its
transaction (`Queued`), and two calls never share an object (`Apart`). For the result it adds
that no hook that was registered is missing from both the queue and `ran`, and that a
call which returned an error left no transaction committed but one with a hook that threw.

**`SpaceMigration_proofs`**: `TypeCorrect` without hypotheses, and `NoWriteEverLost`,
`LiveTargetAlwaysKept`, `SwitchAlwaysCopies` and `RollbackAlwaysUntouched` for any number of
jobs, writes, cancellations and crashes under `Hypotheses`: one worker process; `HeartbeatsOnTime` and
`CancelsInTime`; failures at any await before the switch and in a rollback. These are
the conditions of the run `Migration`, `MigrationCancel` and `MigrationCleanup` show two of them needed.
`IInv == TypeOK /\ Control /\ (~Spoilt => Data)`. `Control` says that the rows of the jobs agree
with where the worker and the rollback are, and holds always. `Data` says what the databases
hold at each place, and which jobs may touch them: that the copy has every write of the source but those
`overlooked` (`ACopy`), which have yet to commit or have committed after the comparison, and
nothing the source lacks but what is `traceless`; while a rollback is under way, that
the target has gained nothing else since its proof (`TargetQuiet`); and that a write open in the target finds its
tables there (`Grounded`), since `DROP SCHEMA` waits for it. `Spoilt` is a job that went on
after a cancellation; it never ends, and is what `CancelHeeded` leaves out. Two things the
proof brought to light and the instance of the run cannot show:

* With three jobs, equality at the switch can fail: the first is canceled, so
  a third may start; the second switches and is rolled back up to its last
  step; the third meets the second's pause and relies on it (`PauseSource` takes
  a pause of another owner for its own); then the last step of the rollback lifts it
  after the third has drained, and a computed task writes to the source before the binding.
  `ResumedLate` names this state in `SwitchesToACopy`.
* With two worker processes `LiveTargetKept` fails: a job fails, the next one starts and is switched by the
  other worker, and the catch block of the first one drops the same schemas late. It refuses only
  jobs that read as switched (`cleanupTargetArtifactsForJob`).

## 7. What is only model-checked

Liveness, which is out of the prover's reach under fairness: `EventuallySettled`,
`EveryRecordSettles`, `DueTaskRuns`, `GivesBack`, `DeliveriesEnd`. The refinement
`KeepsTheStack` of the undo store (its stack is read off the store
by `SelectSeq`, a recursion over the ids that are left).
`BatchLimitKept` of the run `SideBySide` is `BaseLimitKept` of an instance
with batch claims only: the theorem `BatchLimitAlwaysKept` states it for `OutboxClaim` itself. Where
a theorem has hypotheses, the runs check the property on instances that meet them, and the violation runs on instances that do not.

## 8. What is not modelled, and why

* Links do not change, so the dependency graph is constant; before-images and the
  edge kinds of the planner are left out. Dependency cycles and
  `MAX_STAGE_DEPTH` are left out.
* All seed locks are taken in one step, and all target locks in another: they are
  try-locks, so a partial set is a miss and nobody waits.
* The configuration without locks and the waiting locks of
  `SyncInTransactionStrategy` are left out. The sync policy is a fixed set of cells
  (`SyncCells`); its thresholds on dirty counts are left out.
* In `ComputedRecompute` a run may claim any seeds with the same steps: one task, several
  merged, or a part of one that was split; `TaskSplit` has the splitting.
* Enqueues are one step each in `ComputedOutbox`; the statements inside are left out, and with
  them the user's write that the unique index refuses.
* `WakeupDelivery`: the caps of one drain, several databases with their own retries, the
  monitor and the anomaly services; two processes with redrives against each other fit
  the module but not the instance.
* `SpaceMigration`: preflight, inventory and disk checks fail or pass at the awaits they stand
  at; the copying itself, sequences, several spaces in one job and progress are left out.
  A stale job of a living worker (`HeartbeatsOnTime` FALSE) is left out: two workers on one job
  is what the heartbeats are there to prevent. The move of a base between spaces is another service.
* `UndoRedoStore` takes the requests of one window one at a time; expiry is left out.
* `ComputedActivity`: a unit of work may enqueue several times (`enqueueFieldBackfill` for several fields, or
  several updates of records in one transaction). Then the standstill that `CyclesAreSeen` leaves out does
  happen, in the model and in the code: a transaction that has attached fields to a table keeps
  its lock and waits for the gate of that table, while another one of the same process has the gate and waits
  for the lock. No document of the code promises otherwise, so it is no violation run; with merges, or a
  fault beside it, the instance with two enqueues is too large. The failed status, metrics and durations, several
  fields of a table, claims of several rows, the release that merges into a twin and the
  publication to editors are left out, and so is the liveness of the display.
* `WebhookDelivery`: payloads, signatures, `retryDead` and `deleteDelivery`, which
  nothing calls. Of two overlapping rounds a late failed post may write `pending` over `delivered`, so
  an endpoint may get an event it has acknowledged once more: the model has it, and no
  document of the code promises otherwise.
* Field backfill writes cells without the locks of `ComputedRecompute`; a backfill that reads before
  and writes after a recomputation of the same cells is not in the model.
* The in-process dispatch timer, the other two update strategies, quotas, the realtime transport, the domain core, the
  SQL generators, the legacy backend and the client: `PROJECT.json` gives the reason
  for each.

## 9. Plan

Done: the outbox, its claims, the recompute path, task splitting, wake-ups and admission,
the unit of work, the undo store, the activity, webhooks, space migration, and the
theorems of section 6.

Every safety property that a passing run checks is a theorem, but for the refinement
`KeepsTheStack`. What is left to prove is out of reach as section 7 says.

Next modules, if any: the enqueue transactions statement by statement; field backfill; the
planner's levels and cycles.
