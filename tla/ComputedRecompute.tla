------------------------- MODULE ComputedRecompute -------------------------
(***************************************************************************)
(* How computed cells follow the cells they depend on.  Two kinds of       *)
(* database transactions recompute: a user's write, through                *)
(* HybridWithOutboxStrategy (the first levels at once, the rest by the     *)
(* outbox) or by a seed task alone; and a worker's run of an outbox task.  *)
(* Both go through ComputedFieldUpdater: try the locks of the seeds, try   *)
(* the locks of every dirty record, then one UPDATE ... FROM (SELECT ...)  *)
(* per dependency level.  Transactions are READ COMMITTED: a statement     *)
(* reads what is committed when it starts and what its own transaction     *)
(* wrote; where it then meets a row another transaction has changed it     *)
(* waits for that one to end, and overwrites the row with what it computed *)
(* from its own, older reading.                                            *)
(*                                                                         *)
(* A record stands for one of its cells.  Links do not change here, so the *)
(* graph of the dependencies is constant.  Of the outbox this module keeps *)
(* what WorkQueue does: units of work that are queued, in hand or dead.    *)
(***************************************************************************)
EXTENDS ComputedLockPlan

CONSTANTS
    Source,       \* records users write
    Computed,     \* records with a computed cell
    Deps,         \* Computed -> the records its formula reads
    Level,        \* Record -> Nat: its place in the topological order
    Down,         \* Record -> the computed records that depend on it
    Value,        \* contents of a cell
    Input,        \* what users write
    Start,        \* Record -> Value: the cells at first, all up to date
    Eval(_, _),   \* Eval(c, reading): what the formula of c makes of a reading
    WriteSets,    \* the sets of sources one user write may change
    Writer,       \* user transactions
    Worker,       \* worker runs
    SyncCells,    \* the cells a user's transaction may compute itself
    MaxWork,      \* bound: no new write while this much work is left
    MaxDead,      \* bound: the dead letter holds at most this much
    LeasesKept    \* no run loses a task to another while it is running

Tx == Writer \cup Worker

ASSUME GraphAssumption ==
    /\ Record = Source \cup Computed
    /\ Source \cap Computed = {}
    /\ Deps \in [Computed -> SUBSET Record]
    /\ Level \in [Record -> Nat]
    /\ Down \in [Record -> SUBSET Computed]
    /\ \A s \in Source : Level[s] = 0
    /\ \A c \in Computed : Level[c] > 0 /\ \A d \in Deps[c] : Level[d] < Level[c]
    /\ \A r \in Record : Down[r] = {c \in Computed :
                                      \E d \in Deps[c] : d = r \/ d \in Down[r]}

ASSUME ValueAssumption ==
    /\ Input \subseteq Value
    /\ Start \in [Record -> Value]
    /\ \A c \in Computed :
        /\ \A reading \in [Deps[c] -> Value] : Eval(c, reading) \in Value
        /\ Start[c] = Eval(c, [d \in Deps[c] |-> Start[d]])

ASSUME RunAssumption ==
    /\ Writer \cap Worker = {}
    /\ WriteSets \subseteq SUBSET Source
    /\ SyncCells \subseteq Computed
    /\ MaxWork \in Nat /\ MaxDead \in Nat
    /\ LeasesKept \in BOOLEAN

VARIABLES
    val,     \* committed cells
    draft,   \* Tx -> the cells it wrote and has not committed
    keys,    \* Tx -> the advisory locks it holds
    phase,   \* Tx -> where it is
    plan,    \* Tx -> the seeds and the steps it works on
    level,   \* Tx -> the level it computes next
    snap,    \* Tx -> what its current statement computed
    queued,  \* work waiting in the outbox
    hand,    \* Worker -> work claimed by it
    dead,    \* work in the dead letter
    calm     \* no more writes and no more faults from here on

cells == <<val, draft>>
run == <<keys, phase, plan, level, snap>>
work == <<queued, hand, dead>>
vars == <<val, draft, keys, phase, plan, level, snap, queued, hand, dead, calm>>

Phase == {"idle", "claimed", "prepared", "seedsLocked", "computing", "storing",
          "missed", "computed", "failed"}

\* A unit of outbox work: one seed of a task, the cells the task recomputes,
\* and the cells of the whole stage it belongs to (affectedFieldIds).
Unit == [seed : Record, steps : SUBSET Computed, stage : SUBSET Computed]

PlanOf(seeds, steps, stage) == [seeds |-> seeds, steps |-> steps, stage |-> stage]

NoPlan == PlanOf({}, {}, {})

Units(p) == {[seed |-> s, steps |-> p.steps, stage |-> p.stage] : s \in p.seeds}

-----------------------------------------------------------------------------
(* Dirty records *)

DownOf(R) == UNION {Down[r] : r \in R}

\* prepareDirtyState: the seeds and all that depends on them.
Dirty(p) == p.seeds \cup DownOf(p.seeds)

\* planStage for changed seeds: all fields that depend on them.
FullPlan(seeds) == PlanOf(seeds, DownOf(seeds), DownOf(seeds))

\* The steps of one level.
StepsAt(p, l) == {c \in p.steps \cap Dirty(p) : Level[c] = l}

\* Mutant of NextStage: it keeps to the steps the task came with.
NextStageWithin(p) ==
    LET steps == p.steps \cap DownOf(p.steps)
    IN  PlanOf({r \in Dirty(p) : TableOf[r] \in {TableOf[c] : c \in p.stage}}, steps, steps)

\* planNextStage: what depends on cells of this stage, for the dirty records of
\* its tables.
NextStage(p) ==
    LET steps == DownOf(p.stage)
    IN  PlanOf({r \in Dirty(p) : TableOf[r] \in {TableOf[c] : c \in p.stage}}, steps, steps)

\* splitStepsByPolicy.  The default policy takes the cells of the seed table,
\* whatever they depend on; the other one takes the first levels.
SyncSteps(p) == p.steps \cap SyncCells

\* Mutant of AsyncPlan: the first step left over is skipped.
AsyncPlanOffByOne(p) ==
    LET left == p.steps \ SyncSteps(p)
    IN  [p EXCEPT !.steps = {c \in left : \E d \in left : Level[d] < Level[c]}]

AsyncPlan(p) == [p EXCEPT !.steps = @ \ SyncSteps(p)]

\* The steps this transaction computes, and what it leaves to the outbox.
Steps(x) == IF x \in Writer THEN SyncSteps(plan[x]) ELSE plan[x].steps

Rest(x) == IF x \in Writer THEN AsyncPlan(plan[x]) ELSE NextStage(plan[x])

UnitsIfAny(p) == IF p.steps = {} THEN {} ELSE Units(p)

-----------------------------------------------------------------------------
(* Reading and locking *)

Written(x) == DOMAIN draft[x]

Visible(x, r) == IF r \in Written(x) THEN draft[x][r] ELSE val[r]

Reading(x, c) == [d \in Deps[c] |-> Visible(x, d)]

Others(x) == Tx \ {x}

Free(x, K) == \A y \in Others(x) : keys[y] \cap K = {}

RowsFree(x, R) == \A y \in Others(x) : Written(y) \cap R = {}

Nothing == [r \in {} |-> r]

Idle(x) == phase[x] = "idle"

Becomes(x, from, to) == phase[x] = from /\ phase' = [phase EXCEPT ![x] = to]

\* The transaction ends: its locks are gone, and so is what it did not commit.
Ends(x) ==
    /\ draft' = [draft EXCEPT ![x] = Nothing]
    /\ keys' = [keys EXCEPT ![x] = {}]
    /\ snap' = [snap EXCEPT ![x] = Nothing]

\* Nothing of the plan outlives the run.
Forgets(x) ==
    /\ plan' = [plan EXCEPT ![x] = NoPlan]
    /\ level' = [level EXCEPT ![x] = 1]

-----------------------------------------------------------------------------
(* A user's write *)

Outstanding == queued \cup dead \cup UNION {hand[w] : w \in Worker}

Write(x, S, v) ==
    /\ ~calm
    /\ Cardinality(Outstanding) < MaxWork
    /\ RowsFree(x, S)
    /\ Becomes(x, "idle", "prepared")
    /\ draft' = [draft EXCEPT ![x] = [s \in S |-> v]]
    /\ plan' = [plan EXCEPT ![x] = FullPlan(S)]
    /\ UNCHANGED <<val, keys, level, snap, work, calm>>

\* enqueueSeedTask in the user's transaction: everything is left to workers.
LeaveToWorkers(x) ==
    /\ x \in Writer
    /\ Becomes(x, "prepared", "missed")
    /\ UNCHANGED <<cells, keys, plan, level, snap, work, calm>>

-----------------------------------------------------------------------------
(* A worker's claim *)

\* Mutant of Claimable: rows of runs that are gone are never taken over.
QueuedOnly == queued

\* What may be claimed: pending rows, and processing rows of runs that are
\* gone or, without LeasesKept, merely late.
Claimable ==
    queued \cup UNION {hand[w] : w \in {w \in Worker : LeasesKept \/ calm => Idle(w)}}

Claim(w, p) ==
    LET T == Units(p)
    IN  /\ T # {} /\ T \subseteq Claimable
        /\ Becomes(w, "idle", "claimed")
        /\ queued' = queued \ T
        /\ hand' = [v \in Worker |-> IF v = w THEN hand[w] \cup T ELSE hand[v] \ T]
        /\ plan' = [plan EXCEPT ![w] = p]
        /\ UNCHANGED <<cells, keys, level, snap, dead, calm>>

Owns(w) == Units(plan[w]) \subseteq hand[w]

\* ensureTaskActive: the lease was renewed, the transaction begins.
Begin(w) ==
    /\ Owns(w)
    /\ Becomes(w, "claimed", "prepared")
    /\ UNCHANGED <<cells, keys, plan, level, snap, work, calm>>

\* ensureTaskActive: the lease is lost.
Skip(w) ==
    /\ ~Owns(w)
    /\ Becomes(w, "claimed", "idle")
    /\ Forgets(w)
    /\ UNCHANGED <<cells, keys, snap, work, calm>>

-----------------------------------------------------------------------------
(* The computed update, in either transaction *)

SeedKeys(x) == KeysOf(plan[x].seeds)

\* Mutant of TargetKeys: the seeds' locks are all there is.
TargetKeysSeedsOnly(x) == SeedKeys(x)

TargetKeys(x) == KeysOf(Dirty(plan[x]))

\* acquireLocks with wait = false
LockSeeds(x) ==
    /\ Free(x, SeedKeys(x))
    /\ Becomes(x, "prepared", "seedsLocked")
    /\ keys' = [keys EXCEPT ![x] = @ \cup SeedKeys(x)]
    /\ UNCHANGED <<cells, plan, level, snap, work, calm>>

\* acquireDirtyTargetLocks with wait = false
LockTargets(x) ==
    /\ Steps(x) # {}
    /\ Free(x, TargetKeys(x))
    /\ Becomes(x, "seedsLocked", "computing")
    /\ keys' = [keys EXCEPT ![x] = @ \cup TargetKeys(x)]
    /\ level' = [level EXCEPT ![x] = 1]
    /\ UNCHANGED <<cells, plan, snap, work, calm>>

\* A user's transaction with nothing to compute itself takes no target locks.
NothingNow(x) ==
    /\ Steps(x) = {}
    /\ Becomes(x, "seedsLocked", "computed")
    /\ UNCHANGED <<cells, keys, plan, level, snap, work, calm>>

\* One of the locks is held: a user's transaction goes on and leaves the plan
\* to the outbox; a worker's transaction is rolled back.
MissLock(x) ==
    /\ \/ phase[x] = "prepared" /\ ~Free(x, SeedKeys(x))
       \/ phase[x] = "seedsLocked" /\ Steps(x) # {} /\ ~Free(x, TargetKeys(x))
    /\ IF x \in Writer
       THEN /\ phase' = [phase EXCEPT ![x] = "missed"]
            /\ UNCHANGED <<draft, keys, snap>>
       ELSE /\ phase' = [phase EXCEPT ![x] = "failed"]
            /\ Ends(x)
    /\ UNCHANGED <<val, plan, level, work, calm>>

\* The UPDATE writes the rows for which target IS DISTINCT FROM projected.
Changed(x, R) == {c \in R : Eval(c, Reading(x, c)) # Visible(x, c)}

\* The statement of a level starts: it reads.
ReadLevel(x) ==
    /\ Becomes(x, "computing", "storing")
    /\ snap' = [snap EXCEPT ![x] =
                  [c \in Changed(x, StepsAt([plan[x] EXCEPT !.steps = Steps(x)], level[x]))
                     |-> Eval(c, Reading(x, c))]]
    /\ UNCHANGED <<cells, keys, plan, level, work, calm>>

\* It has the rows it wants to write, having waited where it had to.
StoreLevel(x) ==
    /\ RowsFree(x, DOMAIN snap[x])
    /\ Becomes(x, "storing",
               IF \E c \in Steps(x) : Level[c] > level[x] THEN "computing" ELSE "computed")
    /\ draft' = [draft EXCEPT ![x] = [r \in Written(x) \cup DOMAIN snap[x] |->
                    IF r \in DOMAIN snap[x] THEN snap[x][r] ELSE draft[x][r]]]
    /\ snap' = [snap EXCEPT ![x] = Nothing]
    /\ level' = [level EXCEPT ![x] = @ + 1]
    /\ UNCHANGED <<val, keys, plan, work, calm>>

-----------------------------------------------------------------------------
(* The end of the transaction *)

Committed(x) == [r \in Record |-> Visible(x, r)]

\* A user's transaction commits, and with it what it leaves to the outbox.
CommitWrite(x) ==
    /\ x \in Writer
    /\ phase[x] \in {"missed", "computed"}
    /\ phase' = [phase EXCEPT ![x] = "idle"]
    /\ val' = Committed(x)
    /\ queued' = queued \cup
         UnitsIfAny(IF phase[x] = "missed" THEN plan[x] ELSE Rest(x))
    /\ Ends(x)
    /\ Forgets(x)
    /\ UNCHANGED <<hand, dead, calm>>

\* Next stage and markDone in the transaction of the run.  With the lease lost
\* markDone changes nothing, and the transaction commits all the same.
CommitRun(w) ==
    /\ w \in Worker
    /\ Becomes(w, "computed", "idle")
    /\ val' = Committed(w)
    /\ queued' = queued \cup UnitsIfAny(Rest(w))
    /\ hand' = [hand EXCEPT ![w] = @ \ Units(plan[w])]
    /\ Ends(w)
    /\ Forgets(w)
    /\ UNCHANGED <<dead, calm>>

\* A statement fails: a timeout, a deadlock's victim, any other error.  A run
\* may also fail before its transaction, on a plan it cannot read.
Fail(x) ==
    /\ ~calm
    /\ phase[x] \notin {"idle", "failed"}
    /\ IF x \in Writer
       THEN /\ phase' = [phase EXCEPT ![x] = "idle"]
            /\ Forgets(x)
       ELSE /\ phase' = [phase EXCEPT ![x] = "failed"]
            /\ UNCHANGED <<plan, level>>
    /\ Ends(x)
    /\ UNCHANGED <<val, work, calm>>

\* releaseForRetry or markFailed, in a transaction of its own.
GiveBack(w) ==
    /\ Becomes(w, "failed", "idle")
    /\ queued' = queued \cup (Units(plan[w]) \cap hand[w])
    /\ hand' = [hand EXCEPT ![w] = @ \ Units(plan[w])]
    /\ Forgets(w)
    /\ UNCHANGED <<cells, keys, snap, dead, calm>>

\* markFailed, the budget spent.
Bury(w) ==
    /\ ~calm
    /\ Becomes(w, "failed", "idle")
    /\ dead' = dead \cup (Units(plan[w]) \cap hand[w])
    /\ Cardinality(dead') <= MaxDead
    /\ hand' = [hand EXCEPT ![w] = @ \ Units(plan[w])]
    /\ Forgets(w)
    /\ UNCHANGED <<cells, keys, snap, queued, calm>>

\* A worker process dies.  Its rows stay in processing until the lease is over.
Crash(w) ==
    /\ ~calm
    /\ ~Idle(w)
    /\ phase' = [phase EXCEPT ![w] = "idle"]
    /\ Ends(w)
    /\ Forgets(w)
    /\ UNCHANGED <<val, work, calm>>

CalmDown ==
    /\ ~calm
    /\ calm' = TRUE
    /\ UNCHANGED <<cells, run, work>>

-----------------------------------------------------------------------------
Init ==
    /\ val = Start
    /\ draft = [x \in Tx |-> Nothing]
    /\ keys = [x \in Tx |-> {}]
    /\ phase = [x \in Tx |-> "idle"]
    /\ plan = [x \in Tx |-> NoPlan]
    /\ level = [x \in Tx |-> 1]
    /\ snap = [x \in Tx |-> Nothing]
    /\ queued = {}
    /\ hand = [w \in Worker |-> {}]
    /\ dead = {}
    /\ calm = FALSE

UserStep(x) ==
    \/ \E S \in WriteSets, v \in Input : Write(x, S, v)
    \/ LeaveToWorkers(x)
    \/ CommitWrite(x)

\* The seeds of one task, of two that were merged, or of a part of one that
\* was split.
TakeTask(w) ==
    \E u \in Claimable :
        \E seeds \in SUBSET {v.seed : v \in {v \in Claimable :
                                       v.steps = u.steps /\ v.stage = u.stage}} :
            Claim(w, PlanOf(seeds, u.steps, u.stage))

RunStep(w) == Begin(w) \/ Skip(w) \/ CommitRun(w) \/ GiveBack(w) \/ Bury(w) \/ Crash(w)

UpdateStep(x) ==
    \/ LockSeeds(x)
    \/ LockTargets(x)
    \/ NothingNow(x)
    \/ MissLock(x)
    \/ ReadLevel(x)
    \/ StoreLevel(x)
    \/ Fail(x)

Next ==
    \/ \E x \in Writer : UserStep(x)
    \/ \E w \in Worker : TakeTask(w) \/ RunStep(w)
    \/ \E x \in Tx : UpdateStep(x)
    \/ CalmDown

Spec == Init /\ [][Next]_vars

\* A step that has begun goes on; a worker that is free polls the outbox.
Fairness ==
    /\ \A x \in Writer : WF_vars(CommitWrite(x))
    /\ \A w \in Worker :
        /\ WF_vars(TakeTask(w))
        /\ WF_vars(Begin(w) \/ Skip(w) \/ CommitRun(w) \/ GiveBack(w))
    /\ \A x \in Tx : WF_vars(LockSeeds(x) \/ LockTargets(x) \/ NothingNow(x)
                            \/ MissLock(x) \/ ReadLevel(x) \/ StoreLevel(x))

FairSpec == Spec /\ Fairness

-----------------------------------------------------------------------------
(* Properties *)

\* Types: a cell holds a value, a lock is one the lock plan can ask for, and
\* work names records and computed records.
TypeOK ==
    /\ val \in [Record -> Value]
    /\ \A x \in Tx : Written(x) \subseteq Record /\ draft[x] \in [Written(x) -> Value]
    /\ \A x \in Tx : DOMAIN snap[x] \subseteq Computed /\ snap[x] \in [DOMAIN snap[x] -> Value]
    /\ DOMAIN draft = Tx /\ DOMAIN snap = Tx
    /\ \A x \in Tx : keys[x] \subseteq {RecordKey(r) : r \in Record}
                        \cup {TableKey(r) : r \in Record}
                        \cup (IF Shard = {} THEN {} ELSE {BatchKey(r) : r \in Record})
    /\ phase \in [Tx -> Phase]
    /\ plan \in [Tx -> [seeds : SUBSET Record, steps : SUBSET Computed,
                      stage : SUBSET Computed]]
    /\ level \in [Tx -> Nat]
    /\ queued \subseteq Unit
    /\ hand \in [Worker -> SUBSET Unit]
    /\ dead \subseteq Unit
    /\ calm \in BOOLEAN

\* The transaction is between its target locks and its end.
Updating(x) ==
    \/ phase[x] \in {"computing", "storing"}
    \/ phase[x] = "computed" /\ Steps(x) # {}

\* Two transactions that update at the same time share no dirty record, so
\* neither computes a cell from what the other is about to replace.
TargetsExclusive ==
    \A x, y \in Tx :
        x # y /\ Updating(x) /\ Updating(y) => Dirty(plan[x]) \cap Dirty(plan[y]) = {}

Fresh(c) == val[c] = Eval(c, [d \in Deps[c] |-> val[d]])

\* The cells a unit of work will recompute.
Targets(u) == u.steps \cap ({u.seed} \cup Down[u.seed])

InWork(c) == \E u \in Outstanding : c \in Targets(u)

\* A committed cell that differs from what its formula makes of the committed
\* cells it reads has work that will recompute it: queued, claimed, or in the
\* dead letter.  No interleaving of writes and runs leaves a cell stale with
\* nobody to know.
StaleIsInWork == \A c \in Computed : Fresh(c) \/ InWork(c)

\* Once the writes and the faults stop, every cell becomes up to date, but for
\* those that depend on work in the dead letter.
Settled ==
    \A c \in Computed : Fresh(c) \/ \E u \in dead : c \in Targets(u)

EventuallySettled == calm ~> [](calm /\ Settled)
=============================================================================
