-------------------------- MODULE ComputedOutbox --------------------------
(***************************************************************************)
(* The outbox of the computed-field engine: the table                      *)
(* computed_update_outbox, its spill table computed_update_outbox_seed and *)
(* the dead-letter table, with every operation of ComputedUpdateOutbox.ts  *)
(* that changes them.  Each operation is one database transaction, so one  *)
(* action.  The callers are the most general ones: any writer may enqueue  *)
(* anything at any time, and any worker run may settle what it claimed in  *)
(* any order, late, or never.                                              *)
(*                                                                         *)
(* A worker run is identified with its claim owner: createClaimOwner makes *)
(* a fresh one for every claim, so an Owner here is one claim and held[o]  *)
(* is what that run keeps in memory of the rows it claimed.  A row id or   *)
(* an owner is used again once nothing refers to it, which keeps a long    *)
(* history inside a finite set of names.                                   *)
(***************************************************************************)
EXTENDS Naturals, FiniteSets

CONSTANTS
    Task,            \* row ids (cuo...)
    Owner,           \* claim owners (<worker>:cuc...)
    Plan,            \* merge keys: base, seed table, plan hash, change type
    Item,            \* what a task asks to recompute: seed records, field ids
    Table,           \* tables the seed records live in
    PauseScope,      \* spaces, bases and tables an operator may pause
    Scope,           \* base:seedTable pairs (getClaimLockScope)
    Base,            \* bases
    Payload,         \* the [items, all] a writer may enqueue
    KindOf,          \* Plan -> {"computed", "seed", "backfill"}
    ScopeOf,         \* Plan -> Scope
    BaseOf,          \* Scope -> Base
    TableOf,         \* Item -> Table
    PausedBy,        \* Plan -> the pause scopes that match its rows
    InlineLimit,     \* config.seedInlineLimit
    MaxAttempts,     \* config.maxAttempts
    MaxPerBase,      \* config.maxConcurrentProcessingPerBase
    MaxPerSeedTable, \* config.maxConcurrentProcessingPerSeedTable
    BatchLimit,      \* params.limit of claimBatch
    NoOwner          \* locked_by is null

ASSUME FunctionsAssumption ==
    /\ KindOf \in [Plan -> {"computed", "seed", "backfill"}]
    /\ ScopeOf \in [Plan -> Scope]
    /\ BaseOf \in [Scope -> Base]
    /\ TableOf \in [Item -> Table]
    /\ PausedBy \in [Plan -> SUBSET PauseScope]
    /\ Payload \subseteq [items : SUBSET Item, all : SUBSET Table]

ASSUME LimitsAssumption ==
    /\ InlineLimit \in Nat
    /\ MaxAttempts \in Nat \ {0}
    /\ MaxPerBase \in Nat \ {0}
    /\ MaxPerSeedTable \in Nat \ {0}
    /\ BatchLimit \in Nat \ {0}

ASSUME OwnerAssumption == NoOwner \notin Owner

VARIABLES
    outbox,      \* the rows of computed_update_outbox, by id
    seedRows,    \* the rows of computed_update_outbox_seed, by task_id
    deadLetter,  \* the rows of computed_update_dead_letter
    held,        \* the items each worker run claimed and has not settled
    paused       \* the active rows of the pause-scope table

vars == <<outbox, seedRows, deadLetter, held, paused>>

\* A row.  spilled is "seed_record_ids is null"; solo says that its plan hash
\* was made unique (uniquifyPlanHash); live says that locked_at is inside the
\* lease window, due that next_run_at has passed.
Row == [status : {"pending", "processing"}, plan : Plan, solo : BOOLEAN,
        attempts : 0 .. MaxAttempts - 1,
        inline : SUBSET Item, spilled : BOOLEAN, all : SUBSET Table,
        owner : Owner \cup {NoOwner}, live : BOOLEAN, due : BOOLEAN]

\* A claimed item as the run holds it in memory.
Claim == [task : Task, plan : Plan, solo : BOOLEAN,
          attempts : 0 .. MaxAttempts - 1,
          items : SUBSET Item, all : SUBSET Table]

DeadTask == [task : Task, plan : Plan, items : SUBSET Item, all : SUBSET Table]

-----------------------------------------------------------------------------
(* The table and its rows *)

Rows == DOMAIN outbox

With(tbl, t, r) == [x \in DOMAIN tbl \cup {t} |-> IF x = t THEN r ELSE tbl[x]]

Without(tbl, t) == [x \in DOMAIN tbl \ {t} |-> tbl[x]]

Pending(t) == outbox[t].status = "pending"

Processing(t) == outbox[t].status = "processing"

\* Mutant of Owns: settling does not compare locked_by.
OwnsAnyLease(o, t) == t \in Rows /\ Processing(t)

Owns(o, t) == t \in Rows /\ Processing(t) /\ outbox[t].owner = o

\* Row ids that nothing refers to any more.
FreeTask(t) ==
    /\ t \notin Rows
    /\ \A o \in Owner : \A c \in held[o] : c.task # t
    /\ \A d \in deadLetter : d.task # t

\* Owners that nothing refers to any more.
FreeOwner(o) == held[o] = {} /\ \A t \in Rows : outbox[t].owner # o

\* Mutant of FindPending: the look-up forgets the status.
FindPendingAnyStatus(p) == {t \in Rows : outbox[t].plan = p /\ ~outbox[t].solo}

\* The pending row a task with this plan may be merged into.
FindPending(p) ==
    {t \in Rows : Pending(t) /\ outbox[t].plan = p /\ ~outbox[t].solo}

-----------------------------------------------------------------------------
(* What a row carries *)

Spills(items) == Cardinality(items) > InlineLimit

\* The seeds a claim loads: the spill table when the inline column is null.
SeedsOf(t) == IF outbox[t].spilled THEN seedRows[t] ELSE outbox[t].inline

\* Seeds of tables that are recomputed as a whole are not kept one by one.
Kept(items, all) == {i \in items : TableOf[i] \notin all}

Snapshot(t) ==
    [task |-> t, plan |-> outbox[t].plan, solo |-> outbox[t].solo,
     attempts |-> outbox[t].attempts,
     items |-> SeedsOf(t), all |-> outbox[t].all]

\* The new row of insertOutbox, insertSeedTask and insertFieldBackfill.
Stored(p, pay) ==
    IF KindOf[p] = "computed"
    THEN [items |-> Kept(pay.items, pay.all), all |-> pay.all]
    ELSE [items |-> pay.items, all |-> {}]

\* Mutant of Merged: a computed merge, too, reads the inline column alone.
MergedInlineOnly(t, pay) ==
    LET all == outbox[t].all \cup pay.all
    IN  [items |-> Kept(outbox[t].inline \cup pay.items, all), all |-> all]

\* Mutant of Merged: the last writer wins.
MergedLastWins(t, pay) == pay

\* mergeComputedTask, mergeSeedTask and the backfill merge.  A seed merge
\* parses the existing payload from the inline column alone.
Merged(t, pay) ==
    CASE KindOf[outbox[t].plan] = "computed" ->
            LET all == outbox[t].all \cup pay.all
            IN  [items |-> Kept(SeedsOf(t) \cup pay.items, all), all |-> all]
      [] KindOf[outbox[t].plan] = "seed" ->
            [items |-> outbox[t].inline \cup pay.items, all |-> {}]
      [] KindOf[outbox[t].plan] = "backfill" ->
            [items |-> outbox[t].inline \cup pay.items, all |-> {}]

\* A field list is never spilled; seeds are, above the inline limit.
SpillsFor(p, items) == KindOf[p] # "backfill" /\ Spills(items)

NewRow(p, solo, pay) ==
    LET s == Stored(p, pay)
    IN  [status |-> "pending", plan |-> p, solo |-> solo, attempts |-> 0,
         inline |-> IF SpillsFor(p, s.items) THEN {} ELSE s.items,
         spilled |-> SpillsFor(p, s.items), all |-> s.all,
         owner |-> NoOwner, live |-> FALSE, due |-> TRUE]

NewSeedRows(p, pay) ==
    LET s == Stored(p, pay) IN IF SpillsFor(p, s.items) THEN s.items ELSE {}

MergedRow(t, pay) ==
    LET m == Merged(t, pay)
        spills == SpillsFor(outbox[t].plan, m.items)
    IN  [outbox[t] EXCEPT !.inline = IF spills THEN {} ELSE m.items,
                          !.spilled = spills, !.all = m.all, !.due = TRUE]

\* Spilling upserts into the spill table, not spilling clears it.
MergedSeedRows(t, pay) ==
    LET m == Merged(t, pay)
    IN  IF SpillsFor(outbox[t].plan, m.items) THEN seedRows[t] \cup m.items ELSE {}

-----------------------------------------------------------------------------
(* Enqueueing: enqueueOrMerge, enqueueSeedTask, enqueueFieldBackfill *)

\* The merge lock was taken and no pending row has this plan.
EnqueueNew(t, p, pay) ==
    /\ FreeTask(t)
    /\ FindPending(p) = {}
    /\ outbox' = With(outbox, t, NewRow(p, FALSE, pay))
    /\ seedRows' = [seedRows EXCEPT ![t] = NewSeedRows(p, pay)]
    /\ UNCHANGED <<deadLetter, held, paused>>

\* The merge lock was taken and a pending row has this plan.
EnqueueMerge(t, p, pay) ==
    /\ t \in FindPending(p)
    /\ outbox' = [outbox EXCEPT ![t] = MergedRow(t, pay)]
    /\ seedRows' = [seedRows EXCEPT ![t] = MergedSeedRows(t, pay)]
    /\ UNCHANGED <<deadLetter, held, paused>>

\* Another transaction holds the merge lock: insert under a unique hash.
EnqueueBypass(t, p, pay) ==
    /\ FreeTask(t)
    /\ outbox' = With(outbox, t, NewRow(p, TRUE, pay))
    /\ seedRows' = [seedRows EXCEPT ![t] = NewSeedRows(p, pay)]
    /\ UNCHANGED <<deadLetter, held, paused>>

-----------------------------------------------------------------------------
(* Claiming *)

IsPaused(p) == PausedBy[p] \cap paused # {}

Stale(t) == Processing(t) /\ ~outbox[t].live

Claimable(t) ==
    /\ t \in Rows
    /\ (Pending(t) /\ outbox[t].due) \/ Stale(t)
    /\ ~IsPaused(outbox[t].plan)

Active == {t \in Rows : Processing(t) /\ outbox[t].live}

ScopeOfTask(t) == ScopeOf[outbox[t].plan]

BaseOfTask(t) == BaseOf[ScopeOfTask(t)]

\* filterRowsByConcurrency, getConcurrencyRetryAt: with T taken, no base and
\* no seed table of T is above its limit.
WithinLimits(T) ==
    \A t \in T :
        /\ Cardinality({u \in Active \cup T : BaseOfTask(u) = BaseOfTask(t)})
              <= MaxPerBase
        /\ Cardinality({u \in Active \cup T : ScopeOfTask(u) = ScopeOfTask(t)})
              <= MaxPerSeedTable

\* dedupeClaimRowsByScope
OnePerScope(T) == \A t, u \in T : ScopeOfTask(t) = ScopeOfTask(u) => t = u

Take(o, T) ==
    /\ FreeOwner(o)
    /\ outbox' = [t \in Rows |->
                    IF t \in T
                    THEN [outbox[t] EXCEPT !.status = "processing",
                                           !.owner = o, !.live = TRUE]
                    ELSE outbox[t]]
    /\ held' = [held EXCEPT ![o] = {Snapshot(t) : t \in T}]
    /\ UNCHANGED <<seedRows, deadLetter, paused>>

\* Rows locked by another transaction are skipped, so any part of what may be
\* claimed may be what this round gets.
ClaimBatch(o, T) ==
    /\ T # {}
    /\ Cardinality(T) <= BatchLimit
    /\ \A t \in T : Claimable(t)
    /\ OnePerScope(T)
    /\ WithinLimits(T)
    /\ Take(o, T)

ClaimById(o, t) ==
    /\ Claimable(t)
    /\ WithinLimits({t})
    /\ Take(o, {t})

\* allowProcessingTakeover: no deferral of any kind is looked at.
TakeOver(o, t) ==
    /\ t \in Rows
    /\ Take(o, {t})

RenewLease(o) ==
    /\ held[o] # {}
    /\ outbox' = [t \in Rows |->
                    IF Owns(o, t) /\ (\E c \in held[o] : c.task = t)
                    THEN [outbox[t] EXCEPT !.live = TRUE]
                    ELSE outbox[t]]
    /\ UNCHANGED <<seedRows, deadLetter, held, paused>>

-----------------------------------------------------------------------------
(* Settling.  The run drops its claim whatever the outcome: with the lease   *)
(* lost (the row gone, or owned by another run) nothing else happens.        *)

Drop(o, c) == held' = [held EXCEPT ![o] = @ \ {c}]

LeaseLost(o, c) ==
    /\ c \in held[o]
    /\ ~Owns(o, c.task)
    /\ Drop(o, c)
    /\ UNCHANGED <<outbox, seedRows, deadLetter, paused>>

\* Mutant of Settled: the seed rows are left behind.
SettledLeavingSeeds(t) == seedRows

\* The seed rows once row t is deleted.
Settled(t) == [seedRows EXCEPT ![t] = {}]

MarkDone(o, c) ==
    /\ c \in held[o]
    /\ Owns(o, c.task)
    /\ outbox' = Without(outbox, c.task)
    /\ seedRows' = Settled(c.task)
    /\ Drop(o, c)
    /\ UNCHANGED <<deadLetter, paused>>

\* A row that goes back to pending.
Returned(t) ==
    [outbox[t] EXCEPT !.status = "pending", !.owner = NoOwner,
                      !.live = FALSE, !.due = FALSE]

\* Mutant of RetryInput: the task is merged back without its seeds.
RetryInputSeedless(c) == [items |-> {}, all |-> {}]

\* computedOutboxItemToTaskInput and seedOutboxItemToTaskInput: the task as
\* it is merged back, without its seedAllTableIds.
RetryInput(c) == [items |-> c.items, all |-> {}]

\* Mutant of Twins: the release does not look for a pending row.
TwinsUnseen(c) == {}

\* The pending rows releaseForRetry finds under the plan hash of the claim.
Twins(c) == IF c.solo THEN {} ELSE FindPending(c.plan)

\* The merge lock was taken and no twin is pending.
ReleaseReturn(o, c) ==
    /\ c \in held[o]
    /\ Owns(o, c.task)
    /\ Twins(c) = {}
    /\ outbox' = [outbox EXCEPT ![c.task] = Returned(c.task)]
    /\ Drop(o, c)
    /\ UNCHANGED <<seedRows, deadLetter, paused>>

\* The merge lock was taken and a twin is pending: merge into it.
ReleaseMerge(o, c, twin) ==
    /\ c \in held[o]
    /\ Owns(o, c.task)
    /\ twin \in Twins(c)
    /\ outbox' = Without([outbox EXCEPT ![twin] = MergedRow(twin, RetryInput(c))],
                         c.task)
    /\ seedRows' = [Settled(c.task) EXCEPT
                       ![twin] = MergedSeedRows(twin, RetryInput(c))]
    /\ Drop(o, c)
    /\ UNCHANGED <<deadLetter, paused>>

\* The merge lock is busy: return the row under a unique hash.
ReleaseBypass(o, c) ==
    /\ c \in held[o]
    /\ Owns(o, c.task)
    /\ outbox' = [outbox EXCEPT ![c.task] = [Returned(c.task) EXCEPT !.solo = TRUE]]
    /\ Drop(o, c)
    /\ UNCHANGED <<seedRows, deadLetter, paused>>

\* buildDeadLetterValues keeps the seeds and not seedAllTableIds.
DeadRecord(c) == [task |-> c.task, plan |-> c.plan, items |-> c.items, all |-> {}]

\* Mutant of BudgetLeft: off by one.
BudgetLeftOffByOne(c) == c.attempts < MaxAttempts

BudgetLeft(c) == c.attempts + 1 < MaxAttempts

\* The attempt budget is spent, or the failure asks for the dead letter.
FailDead(o, c, direct) ==
    /\ c \in held[o]
    /\ Owns(o, c.task)
    /\ direct \/ ~BudgetLeft(c)
    /\ deadLetter' = deadLetter \cup {DeadRecord(c)}
    /\ outbox' = Without(outbox, c.task)
    /\ seedRows' = Settled(c.task)
    /\ Drop(o, c)
    /\ UNCHANGED paused

\* A failed task returns with one more attempt.  The update meets the unique
\* index of pending rows, and there is no merge here.
FailRetry(o, c) ==
    /\ c \in held[o]
    /\ Owns(o, c.task)
    /\ BudgetLeft(c)
    /\ Twins(c) = {}
    /\ outbox' = [outbox EXCEPT ![c.task] =
                    [Returned(c.task) EXCEPT !.attempts = c.attempts + 1]]
    /\ Drop(o, c)
    /\ UNCHANGED <<seedRows, deadLetter, paused>>

\* With a pending twin that update is refused and rolled back.  The run is
\* told of the error and goes on; the row stays in processing.
FailRefused(o, c) ==
    /\ c \in held[o]
    /\ Owns(o, c.task)
    /\ BudgetLeft(c)
    /\ Twins(c) # {}
    /\ Drop(o, c)
    /\ UNCHANGED <<outbox, seedRows, deadLetter, paused>>

-----------------------------------------------------------------------------
(* The environment *)

\* A worker process dies: what it held in memory is gone.
Crash(o) ==
    /\ held[o] # {}
    /\ held' = [held EXCEPT ![o] = {}]
    /\ UNCHANGED <<outbox, seedRows, deadLetter, paused>>

\* processingLeaseMs passes without a renewal.
LeaseExpires(t) ==
    /\ t \in Rows
    /\ Processing(t) /\ outbox[t].live
    /\ outbox' = [outbox EXCEPT ![t].live = FALSE]
    /\ UNCHANGED <<seedRows, deadLetter, held, paused>>

\* next_run_at passes.
BecomesDue(t) ==
    /\ t \in Rows
    /\ Pending(t) /\ ~outbox[t].due
    /\ outbox' = [outbox EXCEPT ![t].due = TRUE]
    /\ UNCHANGED <<seedRows, deadLetter, held, paused>>

PauseOne(s) ==
    /\ paused' = paused \cup {s}
    /\ UNCHANGED <<outbox, seedRows, deadLetter, held>>

\* resumeScope, or resume_at passes.
ResumeOne(s) ==
    /\ paused' = paused \ {s}
    /\ UNCHANGED <<outbox, seedRows, deadLetter, held>>

-----------------------------------------------------------------------------
Init ==
    /\ outbox = [t \in {} |-> t]
    /\ seedRows = [t \in Task |-> {}]
    /\ deadLetter = {}
    /\ held = [o \in Owner |-> {}]
    /\ paused = {}

Enqueue ==
    \E t \in Task, p \in Plan, pay \in Payload :
        \/ EnqueueNew(t, p, pay)
        \/ EnqueueMerge(t, p, pay)
        \/ EnqueueBypass(t, p, pay)

ClaimStep(o) ==
    \/ \E T \in SUBSET Rows : ClaimBatch(o, T)
    \/ \E t \in Rows : ClaimById(o, t)
    \/ \E t \in Rows : TakeOver(o, t)

Settle(o) ==
    \E c \in held[o] :
        \/ LeaseLost(o, c)
        \/ MarkDone(o, c)
        \/ ReleaseReturn(o, c)
        \/ \E twin \in Twins(c) : ReleaseMerge(o, c, twin)
        \/ ReleaseBypass(o, c)
        \/ \E direct \in BOOLEAN : FailDead(o, c, direct)
        \/ FailRetry(o, c)
        \/ FailRefused(o, c)

Environment ==
    \/ \E t \in Rows : LeaseExpires(t)
    \/ \E t \in Rows : BecomesDue(t)
    \/ \E s \in PauseScope : PauseOne(s)
    \/ \E s \in PauseScope : ResumeOne(s)

Next ==
    \/ Enqueue
    \/ \E o \in Owner : ClaimStep(o) \/ RenewLease(o) \/ Settle(o) \/ Crash(o)
    \/ Environment

Spec == Init /\ [][Next]_vars

-----------------------------------------------------------------------------
(* Properties *)

\* Every variable holds what its table or process can hold, and the primary
\* key of a claim is that of the row it was read from.
TypeOK ==
    /\ Rows \subseteq Task
    /\ outbox \in [Rows -> Row]
    /\ seedRows \in [Task -> SUBSET Item]
    /\ deadLetter \subseteq DeadTask
    /\ held \in [Owner -> SUBSET Claim]
    /\ paused \subseteq PauseScope

\* At most one pending row has a given (not uniquified) plan hash.  The
\* database has a unique index for it; the enqueue and release paths must
\* keep it by the merge lock and the look-up alone, for an enqueue runs inside
\* the user's own write and an index violation there aborts that write.
PendingUnique ==
    \A t, u \in Rows :
        /\ Pending(t) /\ Pending(u)
        /\ ~outbox[t].solo /\ ~outbox[u].solo
        /\ outbox[t].plan = outbox[u].plan
        => t = u

\* The two tables agree: seed rows exist only for a live row whose inline
\* column is null, so no deletion path leaves seeds behind for a later task,
\* and a row is never read from both places.
SeedRowsOwned ==
    \A t \in Task :
        /\ seedRows[t] # {} => t \in Rows /\ outbox[t].spilled
        /\ t \in Rows /\ outbox[t].spilled => outbox[t].inline = {}

\* A run that still owns a row has in memory exactly what the row says: work
\* enqueued after the claim went to another row, so that finishing, releasing
\* or burying the claim never takes with it work the run did not see.
OwnerSeesRow ==
    \A o \in Owner : \A c \in held[o] :
        Owns(o, c.task) => c = Snapshot(c.task)

SettledByOwner ==
    \A t \in Rows :
        Processing(t) /\ ~(t \in Rows' /\ Processing(t)')
        => \E c \in held[outbox[t].owner] :
              c.task = t /\ c \notin held'[outbox[t].owner]

\* A row leaves processing only when the run its locked_by names settles its
\* claim on it: a run whose lease another one took over can neither finish
\* nor release nor bury the row any more, however late it answers.
OnlyOwnerSettles == [][SettledByOwner]_vars

\* What the outbox promises, as the abstract queue of WorkQueue.tla: the work
\* of a row is what its plan asks for its seeds and its whole tables.
Work == Plan \X Item

Covers(items, all) == items \cup {i \in Item : TableOf[i] \in all}

WorkOf(t) == {outbox[t].plan} \X Covers(SeedsOf(t), outbox[t].all)

Queue == INSTANCE WorkQueue WITH
    Run <- Owner,
    queued <- UNION {WorkOf(t) : t \in {u \in Rows : Pending(u)}},
    running <- [o \in Owner |-> UNION {WorkOf(t) : t \in {u \in Rows : Owns(o, u)}}],
    dead <- UNION {{d.plan} \X Covers(d.items, d.all) : d \in deadLetter}

\* No operation loses work: what is pending leaves the queue only into the
\* hands of a run, and leaves a run's hands only because that run finished it,
\* gave it back, buried it in the dead letter, or lost it to another run.
NoWorkLost == Queue!Spec

\* The work of all rows, whoever has them, and of the dead letter.
InKeeping ==
    (UNION {WorkOf(t) : t \in Rows})
        \cup (UNION {{d.plan} \X Covers(d.items, d.all) : d \in deadLetter})

ReportsDone == \E o \in Owner : \E c \in held[o] : MarkDone(o, c)

\* Work ends in one way only, a run that still owns its row reports it done.
\* WorkQueue lets a run finish what it has in hand in any step; here a release
\* that merges its row into a twin, a burial or a merge of two payloads, each
\* of which deletes or rewrites rows, may not drop anything on the way.
OnlyDoneEnds == [][~ReportsDone => InKeeping \subseteq InKeeping']_vars

\* Merging into a pending row keeps all it already asked for.
MergeKeepsQueued ==
    [][\A t \in Rows : Pending(t) /\ t \in Rows' /\ Pending(t)'
         => WorkOf(t) \subseteq WorkOf(t)']_vars
=============================================================================
