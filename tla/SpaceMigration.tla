--------------------------- MODULE SpaceMigration ---------------------------
(***************************************************************************)
(* The migration of one space to a data database of its own               *)
(* (space-data-db-migration.service.ts, its worker and its write guard).  *)
(*                                                                         *)
(* A request creates a job; a worker claims it, copies the source from a  *)
(* snapshot, replays what triggers captured since, closes the write gate, *)
(* drains, replays the rest, validates and rebinds the space.  The job's  *)
(* state is a row of the meta database that the worker, the cancel and    *)
(* rollback requests, the recovery of stale jobs and the write guard read  *)
(* and write with no common transaction.  Every await of the worker is a  *)
(* step of its own.                                                        *)
(*                                                                         *)
(* A write to a record is a number: the order in which writes execute is  *)
(* the order of the bigserial of the delta log.                            *)
(***************************************************************************)
EXTENDS Integers, FiniteSets

CONSTANTS
  Workers,           \* worker processes polling for jobs
  MaxJobs,           \* bound: jobs requested for the space
  MaxWrites,         \* bound: writes, those of computed tasks included
  MaxCrashes,        \* bound: processes killed in the middle of a job
  MaxCancels,        \* bound: jobs somebody asks to cancel
  FailPoints,        \* where a call of the worker or of a rollback may throw
  HeartbeatsOnTime,  \* TRUE: the job of a live worker never looks stale
  CancelsInTime      \* TRUE: what the check of a cancellation saw still holds
                     \* at its update

PreSwitch ==
  {"claimed", "ready", "gated", "exported", "captured", "released", "copying",
   "copied", "caughtUp", "frozen", "paused", "drained", "cutOver",
   "validating", "validated", "switching"}
PostSwitch == {"bound"}
RollbackPoints == {"proof", "restore", "resume"}
Unwinding == {"failing", "cleaning", "mending", "tidy"}

ASSUME MigrationAssumption ==
  /\ MaxJobs \in Nat /\ MaxWrites \in Nat /\ MaxCrashes \in Nat /\ MaxCancels \in Nat
  /\ FailPoints \subseteq PreSwitch \cup PostSwitch \cup RollbackPoints
  /\ HeartbeatsOnTime \in BOOLEAN /\ CancelsInTime \in BOOLEAN

JobIds == 1 .. MaxJobs
Writes == 1 .. MaxWrites

\* activeSpaceDataDbMigrationStates without 'pending', which no code of the
\* repository creates
Active == {"waiting_worker", "preflight", "freezing_writes", "copying",
           "validating", "switching"}
\* the partial unique index of the job table leaves 'waiting_worker' out
Indexed == Active \ {"waiting_worker"}
Cancelable == {"waiting_worker", "preflight", "freezing_writes", "copying"}
WriteBlocking == {"freezing_writes", "switching"}
JobStates == Active \cup {"none", "succeeded", "failed", "canceled", "rolled_back"}

VARIABLES
  job,       \* the job rows: state and switchOnCompletion; "none" = not yet there
  worker,    \* what each worker runs: the next await and its local variables
  rollback,  \* the rollback request being served
  bound,     \* the job that bound the space to the target; 0: it is bound to
             \* the source
  source,    \* committed writes in the source database
  target,    \* writes in the artifacts of the space in the target database
  there,     \* do those artifacts exist
  capture,   \* the jobs whose triggers are installed on the source
  log,       \* the delta log of each job
  pause,     \* the job whose pause of computed updates is in the source, or 0
  tgtPause,  \* the same in the target
  computing, \* the databases in which a computed task runs
  open,      \* writes past the guard and not yet committed
  next,      \* the next write
  acked,     \* user writes answered as committed
  traceless, \* writes to the target that moved no row count and no timestamp:
             \* a computed cell, a row order, a link table without such columns
  overlooked,\* history: writes still open when a switch compared the databases
             \* or a rollback took its proof, to the database it gives up
  verified,  \* what validation counted in the target (validationStats)
  canceling, \* jobs with a cancel request past its check
  canceled,  \* jobs whose cancellation was answered
  crashes

dbVars == <<source, target, there, capture, log, pause, tgtPause>>
writerVars == <<computing, open, next, acked, traceless, overlooked>>
cancelVars == <<canceling, canceled>>
vars == <<job, worker, rollback, bound, dbVars, writerVars, verified,
          cancelVars, crashes>>

Idle == [at |-> "idle", job |-> 0, paused |-> FALSE, artifacts |-> FALSE,
         snapshot |-> {}, seen |-> 0]
NoRollback == [at |-> "idle", job |-> 0]

Init ==
  /\ job = [j \in JobIds |-> [state |-> "none", switch |-> FALSE]]
  /\ worker = [w \in Workers |-> Idle]
  /\ rollback = NoRollback
  /\ bound = 0
  /\ source = {} /\ target = {} /\ there = FALSE
  /\ capture = {} /\ log = [j \in JobIds |-> {}]
  /\ pause = 0 /\ tgtPause = 0
  /\ computing = {} /\ open = {} /\ next = 1 /\ acked = {}
  /\ traceless = {} /\ overlooked = {}
  /\ verified = {} /\ canceling = {} /\ canceled = {} /\ crashes = 0

State(j) == job[j].state
Job(w) == worker[w].job
At(w, p) == worker[w].at = p
Goto(w, p) == worker' = [worker EXCEPT ![w].at = p]

\* Mutant of Rest: the locals of the job survive it.
RestInJob(w) == worker' = [worker EXCEPT ![w].at = "idle"]

Rest(w) == worker' = [worker EXCEPT ![w] = Idle]

\* update where id: the worker writes the state of its job whatever it is now;
\* the index refuses a second running job of the space
MayHold(j, s) ==
  s \in Indexed => \A i \in JobIds \ {j} : State(i) \notin Indexed
SetState(j, s) ==
  /\ MayHold(j, s)
  /\ job' = [job EXCEPT ![j].state = s]

\* assertMigrationNotCanceled
NotCanceled(w) == State(Job(w)) # "canceled"

\* the writes past the guard and not yet committed in a database
Unended(db) == {x.id : x \in {y \in open : y.db = db}}

\* deleteMigrationComputedPause: a job lifts a pause of its own only
Lift(p, j) == IF p = j THEN 0 ELSE p

---------------------------------------------------------------------------
(* requests                                                                *)

\* findRestartableTargetArtifactJob
Restartable(j) ==
  \/ State(j) \in {"failed", "canceled"}
  \/ State(j) = "succeeded" /\ ~job[j].switch

\* a space that is bound to the target is no copy source; artifacts of the
\* latest restartable job are dropped, any others are a conflict; DROP SCHEMA waits
\* for the transactions that have written there
Start(j, switch) ==
  /\ State(j) = "none"
  /\ \A i \in 1 .. j - 1 : State(i) \notin Active \cup {"none"}
  /\ bound = 0
  /\ there => Unended("target") = {} /\ \E i \in JobIds : Restartable(i)
  /\ job' = [job EXCEPT ![j] = [state |-> "waiting_worker", switch |-> switch]]
  /\ there' = FALSE
  /\ target' = {}
  /\ tgtPause' = 0
  /\ UNCHANGED <<worker, rollback, bound, source, capture, log, pause,
                 writerVars, verified, cancelVars, crashes>>

\* cancelMigrationForSpace lifts the pause between its check ...
AskCancel(j) ==
  /\ State(j) \in Cancelable
  /\ j \notin canceling /\ Cardinality(canceling \cup canceled) < MaxCancels
  /\ canceling' = canceling \cup {j}
  /\ pause' = Lift(pause, j)
  /\ UNCHANGED <<job, worker, rollback, bound, source, target, there, capture, log,
                 tgtPause, writerVars, verified, canceled, crashes>>

\* ... and its update, which looks at the state no more
Cancel(j) ==
  /\ j \in canceling
  /\ CancelsInTime => State(j) \in Cancelable
  /\ job' = [job EXCEPT ![j].state = "canceled"]
  /\ canceling' = canceling \ {j}
  /\ canceled' = canceled \cup {j}
  /\ UNCHANGED <<worker, rollback, bound, dbVars, writerVars, verified, crashes>>

---------------------------------------------------------------------------
(* runMigrationJob, await by await                                         *)

Claim(w) ==
  /\ At(w, "idle")
  /\ \E j \in JobIds :
       /\ State(j) = "waiting_worker"
       /\ \A i \in 1 .. j - 1 : State(i) # "waiting_worker"
       /\ SetState(j, "preflight")
       /\ worker' = [worker EXCEPT ![w] = [Idle EXCEPT !.at = "claimed", !.job = j]]
  /\ UNCHANGED <<rollback, bound, dbVars, writerVars, verified, cancelVars, crashes>>

\* the tools, the schema operations and the inventory are checked
Prepare(w) ==
  /\ At(w, "claimed")
  /\ NotCanceled(w)
  /\ Goto(w, "ready")
  /\ UNCHANGED <<job, rollback, bound, dbVars, writerVars, verified, cancelVars, crashes>>

CloseInitialGate(w) ==
  /\ At(w, "ready")
  /\ SetState(Job(w), "freezing_writes")
  /\ Goto(w, "gated")
  /\ UNCHANGED <<rollback, bound, dbVars, writerVars, verified, cancelVars, crashes>>

OpenSnapshot(w) ==
  /\ At(w, "gated")
  /\ worker' = [worker EXCEPT ![w].at = "exported", ![w].snapshot = source]
  /\ UNCHANGED <<job, rollback, bound, dbVars, writerVars, verified, cancelVars, crashes>>

\* CREATE TRIGGER waits for the transactions that have written to the table
InstallCapture(w) ==
  /\ At(w, "exported")
  /\ Unended("source") = {}
  /\ capture' = capture \cup {Job(w)}
  /\ Goto(w, "captured")
  /\ UNCHANGED <<job, rollback, bound, source, target, there, log, pause, tgtPause,
                 writerVars, verified, cancelVars, crashes>>

OpenInitialGate(w) ==
  /\ At(w, "captured")
  /\ SetState(Job(w), "copying")
  /\ Goto(w, "released")
  /\ UNCHANGED <<rollback, bound, dbVars, writerVars, verified, cancelVars, crashes>>

\* a restore meets no schema of that name, or it fails
StartCopy(w) ==
  /\ At(w, "released")
  /\ NotCanceled(w)
  /\ ~there
  /\ SetState(Job(w), "copying")
  /\ there' = TRUE
  /\ target' = {}
  /\ worker' = [worker EXCEPT ![w].at = "copying", ![w].artifacts = TRUE]
  /\ UNCHANGED <<rollback, bound, source, capture, log, pause, tgtPause,
                 writerVars, verified, cancelVars, crashes>>

\* base schemas, then shared rows; a job that will switch pauses the computed
\* updates of the target before its outbox rows arrive
FinishCopy(w) ==
  /\ At(w, "copying")
  /\ there
  /\ SetState(Job(w), "copying")
  /\ target' = target \cup worker[w].snapshot
  /\ tgtPause' = IF job[Job(w)].switch /\ tgtPause = 0 THEN Job(w) ELSE tgtPause
  /\ worker' = [worker EXCEPT ![w].at = "copied", ![w].snapshot = {}]
  /\ UNCHANGED <<rollback, bound, source, there, capture, log, pause,
                 writerVars, verified, cancelVars, crashes>>

Replayable(j) == log[j] \cap source
LastSeq(j) == CHOOSE n \in Replayable(j) \cup {0} : \A m \in Replayable(j) : m <= n

\* the first replay may stop within the lag threshold
CatchUp(w) ==
  /\ At(w, "copied")
  /\ NotCanceled(w)
  /\ there
  /\ \E n \in 0 .. MaxWrites :
       target' = target \cup {x \in Replayable(Job(w)) : x <= n}
  /\ Goto(w, IF job[Job(w)].switch THEN "caughtUp" ELSE "cutOver")
  /\ UNCHANGED <<job, rollback, bound, source, there, capture, log, pause, tgtPause,
                 writerVars, verified, cancelVars, crashes>>

CloseFinalGate(w) ==
  /\ At(w, "caughtUp")
  /\ SetState(Job(w), "freezing_writes")
  /\ Goto(w, "frozen")
  /\ UNCHANGED <<rollback, bound, dbVars, writerVars, verified, cancelVars, crashes>>

\* a pause of another owner is left alone and not lifted later
PauseSource(w) ==
  /\ At(w, "frozen")
  /\ pause' = IF pause = 0 THEN Job(w) ELSE pause
  /\ worker' = [worker EXCEPT ![w].at = "paused",
                              ![w].paused = pause \in {0, Job(w)}]
  /\ UNCHANGED <<job, rollback, bound, source, target, there, capture, log, tgtPause,
                 writerVars, verified, cancelVars, crashes>>

\* waitForSourceComputedDrainForJob and the two other drains: none of them waits for
\* the writes that were let in before the gate closed
Drain(w) ==
  /\ At(w, "paused")
  /\ NotCanceled(w)
  /\ "source" \notin computing
  /\ Goto(w, "drained")
  /\ UNCHANGED <<job, rollback, bound, dbVars, writerVars, verified, cancelVars, crashes>>

\* the drains replaced copyStats, so the replay starts at the job's first row;
\* with lag threshold 0 it ends with every committed row applied
CutOver(w) ==
  /\ At(w, "drained")
  /\ NotCanceled(w)
  /\ there
  /\ target' = target \cup Replayable(Job(w))
  /\ Goto(w, "cutOver")
  /\ UNCHANGED <<job, rollback, bound, source, there, capture, log, pause, tgtPause,
                 writerVars, verified, cancelVars, crashes>>

\* keepWriteGate: a job that will switch validates in state freezing_writes
ValidationState(j) == IF job[j].switch THEN "freezing_writes" ELSE "validating"

BeginValidation(w) ==
  /\ At(w, "cutOver")
  /\ SetState(Job(w), ValidationState(Job(w)))
  /\ worker' = [worker EXCEPT ![w].at = "validating",
                              ![w].seen = LastSeq(Job(w))]
  /\ UNCHANGED <<rollback, bound, dbVars, writerVars, verified, cancelVars, crashes>>

\* Mutant of Matches: what is compared is what was copied.
MatchesSnapshot == there

\* counts and content hashes of both databases; a test run forgives a mismatch
\* when its log grew meanwhile
Matches == there /\ target = source

SourceChanged(w) == ~job[Job(w)].switch /\ LastSeq(Job(w)) > worker[w].seen

EndValidation(w) ==
  /\ At(w, "validating")
  /\ \/ /\ Matches \/ SourceChanged(w)
        /\ SetState(Job(w), ValidationState(Job(w)))
        /\ verified' = target
        /\ overlooked' = overlooked \cup (IF job[Job(w)].switch THEN Unended("source") ELSE {})
        /\ Goto(w, "validated")
     \/ /\ ~Matches /\ ~SourceChanged(w)
        /\ SetState(Job(w), "failed")
        /\ Goto(w, "failing")
        /\ UNCHANGED <<verified, overlooked>>
  /\ UNCHANGED <<rollback, bound, dbVars, computing, open, next, acked, traceless,
                 cancelVars, crashes>>

CompleteTest(w) ==
  /\ At(w, "validated")
  /\ ~job[Job(w)].switch
  /\ SetState(Job(w), "succeeded")
  /\ pause' = Lift(pause, Job(w))
  /\ tgtPause' = Lift(tgtPause, Job(w))
  /\ Goto(w, "tidy")
  /\ UNCHANGED <<rollback, bound, source, target, there, capture, log,
                 writerVars, verified, cancelVars, crashes>>

EnterSwitch(w) ==
  /\ At(w, "validated")
  /\ job[Job(w)].switch
  /\ SetState(Job(w), "switching")
  /\ Goto(w, "switching")
  /\ UNCHANGED <<rollback, bound, dbVars, writerVars, verified, cancelVars, crashes>>

\* the transaction that binds the space, apart from the update to 'succeeded'
Bind(w) ==
  /\ At(w, "switching")
  /\ bound' = Job(w)
  /\ Goto(w, "bound")
  /\ UNCHANGED <<job, rollback, dbVars, writerVars, verified, cancelVars, crashes>>

FinishSwitch(w) ==
  /\ At(w, "bound")
  /\ SetState(Job(w), "succeeded")
  /\ tgtPause' = Lift(tgtPause, Job(w))
  /\ Goto(w, "tidy")
  /\ UNCHANGED <<rollback, bound, source, target, there, capture, log, pause,
                 writerVars, verified, cancelVars, crashes>>

\* cleanupSourceDeltaCaptureForJob
DropCapture(j) ==
  /\ capture' = capture \ {j}
  /\ log' = [log EXCEPT ![j] = {}]

Tidy(w) ==
  /\ At(w, "tidy")
  /\ DropCapture(Job(w))
  /\ Rest(w)
  /\ UNCHANGED <<job, rollback, bound, source, target, there, pause, tgtPause,
                 writerVars, verified, cancelVars, crashes>>

---------------------------------------------------------------------------
(* failures of the worker                                                  *)

\* a checkpoint or the poll of a copy process sees the cancellation
SeeCancel(w) ==
  /\ worker[w].at \in {"claimed", "released", "copying", "copied", "paused", "drained"}
  /\ ~NotCanceled(w)
  /\ Goto(w, "failing")
  /\ UNCHANGED <<job, rollback, bound, dbVars, writerVars, verified, cancelVars, crashes>>

\* these steps write 'failed' themselves before they throw
MarksFailed(w) ==
  \/ worker[w].at \in {"claimed", "released", "paused", "validating", "switching"}
  \/ At(w, "copying") /\ NotCanceled(w)

Fail(w) ==
  /\ worker[w].at \in FailPoints
  /\ job' = IF MarksFailed(w) THEN [job EXCEPT ![Job(w)].state = "failed"] ELSE job
  /\ Goto(w, "failing")
  /\ UNCHANGED <<rollback, bound, dbVars, writerVars, verified, cancelVars, crashes>>

\* the catch block: the pause and the triggers of the job go first
Unwind(w) ==
  /\ At(w, "failing")
  /\ pause' = IF worker[w].paused THEN Lift(pause, Job(w)) ELSE pause
  /\ DropCapture(Job(w))
  /\ Goto(w, "cleaning")
  /\ UNCHANGED <<job, rollback, bound, source, target, there, tgtPause,
                 writerVars, verified, cancelVars, crashes>>

\* cleanupTargetArtifactsForJob refuses a job that reads as switched; else DROP SCHEMA
\* waits for the transactions that have written there
HasSwitched(j) == State(j) = "succeeded" /\ job[j].switch
DropTarget(j) ==
  IF HasSwitched(j)
  THEN UNCHANGED <<target, there, tgtPause>>
  ELSE Unended("target") = {} /\ there' = FALSE /\ target' = {} /\ tgtPause' = 0

\* ... then its artifacts, and completeFailedMigrationJob
CompleteFailed(w) ==
  /\ At(w, "cleaning")
  /\ IF worker[w].artifacts THEN DropTarget(Job(w))
     ELSE UNCHANGED <<target, there, tgtPause>>
  /\ job' = IF State(Job(w)) \in {"succeeded", "canceled", "rolled_back"} THEN job
            ELSE [job EXCEPT ![Job(w)].state = "failed"]
  /\ Rest(w)
  /\ UNCHANGED <<rollback, bound, source, capture, log, pause,
                 writerVars, verified, cancelVars, crashes>>

Crash(w) ==
  /\ ~At(w, "idle")
  /\ crashes < MaxCrashes
  /\ crashes' = crashes + 1
  /\ Rest(w)
  /\ UNCHANGED <<job, rollback, bound, dbVars, writerVars, verified, cancelVars>>

\* Mutant of LooksStale: a job that holds the write gate is left alone.
StaleWhileCopying(j) ==
  /\ State(j) \in {"copying", "validating"}
  /\ HeartbeatsOnTime => \A v \in Workers : Job(v) # j

\* recoverStaleActiveMigrationJobs, before a worker claims: the job of a dead
\* worker, or of a dead rollback request, becomes 'failed'
LooksStale(j) ==
  /\ State(j) \in Indexed
  /\ HeartbeatsOnTime =>
       /\ \A v \in Workers : Job(v) # j
       /\ rollback.job # j

\* Mutant of MayHaveArtifacts: a job in the middle of the switch counts too.
ArtifactsUntilSwitched(j) == State(j) \in {"copying", "validating", "switching"}

MayHaveArtifacts(j) == State(j) \in {"copying", "validating"}

RecoverStale(w, j) ==
  /\ At(w, "idle")
  /\ LooksStale(j)
  /\ job' = [job EXCEPT ![j].state = "failed"]
  /\ worker' = [worker EXCEPT ![w] =
       [Idle EXCEPT !.at = "mending", !.job = j,
                    !.artifacts = MayHaveArtifacts(j)]]
  /\ UNCHANGED <<rollback, bound, dbVars, writerVars, verified, cancelVars, crashes>>

Mend(w) ==
  /\ At(w, "mending")
  /\ pause' = Lift(pause, Job(w))
  /\ IF worker[w].artifacts THEN DropTarget(Job(w))
     ELSE UNCHANGED <<target, there, tgtPause>>
  /\ Rest(w)
  /\ UNCHANGED <<job, rollback, bound, source, capture, log,
                 writerVars, verified, cancelVars, crashes>>

---------------------------------------------------------------------------
(* rollbackMigrationForSpace                                               *)

RollbackBegin(j) ==
  /\ rollback.at = "idle"
  /\ HasSwitched(j)
  /\ SetState(j, "switching")
  /\ rollback' = [at |-> "proof", job |-> j]
  /\ UNCHANGED <<worker, bound, dbVars, writerVars, verified, cancelVars, crashes>>

\* Mutant of Untouched: the artifacts are there, whatever was written to them.
ArtifactsThere == there

\* inspectPostSwitchRollbackProof: the relations, the row counts of the validation, and
\* no timestamp of a row behind the switch
Untouched == there /\ target \ traceless = verified

RollbackProof ==
  /\ rollback.at = "proof"
  /\ \/ /\ Untouched
        /\ rollback' = [rollback EXCEPT !.at = "restore"]
        /\ overlooked' = overlooked \cup Unended("target")
        /\ UNCHANGED job
     \/ /\ ~Untouched
        /\ SetState(rollback.job, "succeeded")
        /\ rollback' = NoRollback
        /\ UNCHANGED overlooked
  /\ UNCHANGED <<worker, bound, dbVars, computing, open, next, acked, traceless, verified,
                 cancelVars, crashes>>

RollbackRestore ==
  /\ rollback.at = "restore"
  /\ bound' = 0
  /\ SetState(rollback.job, "rolled_back")
  /\ rollback' = [rollback EXCEPT !.at = "resume"]
  /\ UNCHANGED <<worker, dbVars, writerVars, verified, cancelVars, crashes>>

RollbackResume ==
  /\ rollback.at = "resume"
  /\ pause' = Lift(pause, rollback.job)
  /\ rollback' = NoRollback
  /\ UNCHANGED <<job, worker, bound, source, target, there, capture, log, tgtPause,
                 writerVars, verified, cancelVars, crashes>>

\* the job reads 'succeeded' again, wherever the rollback stopped
RollbackFail ==
  /\ rollback.at \in FailPoints
  /\ SetState(rollback.job, "succeeded")
  /\ rollback' = NoRollback
  /\ UNCHANGED <<worker, bound, dbVars, writerVars, verified, cancelVars, crashes>>

RollbackCrash ==
  /\ rollback.at # "idle"
  /\ crashes < MaxCrashes
  /\ crashes' = crashes + 1
  /\ rollback' = NoRollback
  /\ UNCHANGED <<job, worker, bound, dbVars, writerVars, verified, cancelVars>>

---------------------------------------------------------------------------
(* the writers of the space                                                *)

\* Mutant of Gated: only the switch itself keeps writes out.
GatedBySwitch == \E j \in JobIds : State(j) = "switching"

\* assertSpaceRecordWritable
Gated == \E j \in JobIds : State(j) \in WriteBlocking

Captured(x) == log' = [j \in JobIds |-> IF j \in capture THEN log[j] \cup {x} ELSE log[j]]

\* the guard, the routing and the statements of a write
Admit ==
  /\ next <= MaxWrites
  /\ ~Gated
  /\ bound # 0 => there
  /\ open' = open \cup {[id |-> next, db |-> IF bound = 0 THEN "source" ELSE "target"]}
  /\ next' = next + 1
  /\ IF bound = 0 THEN Captured(next) ELSE UNCHANGED log
  /\ UNCHANGED <<job, worker, rollback, bound, source, target, there, capture,
                 pause, tgtPause, computing, acked, traceless, overlooked, verified,
                 cancelVars, crashes>>

Commit(x) ==
  /\ x \in open
  /\ open' = open \ {x}
  /\ acked' = acked \cup {x.id}
  /\ \/ /\ x.db = "source"
        /\ source' = source \cup {x.id}
        /\ UNCHANGED <<target, traceless>>
     \/ /\ x.db = "target"
        /\ target' = target \cup {x.id}
        /\ traceless' \in {traceless, traceless \cup {x.id}}
        /\ UNCHANGED source
  /\ UNCHANGED <<job, worker, rollback, bound, there, capture, log, pause, tgtPause,
                 computing, next, overlooked, verified, cancelVars, crashes>>

\* computed tasks pass no guard: only the pause keeps them from being claimed
StartComputing(db) ==
  /\ \/ db = "source" /\ bound = 0 /\ pause = 0
     \/ db = "target" /\ bound # 0 /\ tgtPause = 0
  /\ db \notin computing
  /\ next <= MaxWrites
  /\ computing' = computing \cup {db}
  /\ UNCHANGED <<job, worker, rollback, bound, dbVars, open, next, acked, traceless,
                 overlooked, verified, cancelVars, crashes>>

\* its cells are written and committed, if the database has the tables; no timestamp of
\* a record moves
FinishComputing(db) ==
  /\ db \in computing
  /\ computing' = computing \ {db}
  /\ \/ /\ db = "source" /\ next <= MaxWrites
        /\ source' = source \cup {next} /\ Captured(next) /\ next' = next + 1
        /\ UNCHANGED <<target, traceless>>
     \/ /\ db = "target" /\ next <= MaxWrites /\ there
        /\ target' = target \cup {next} /\ traceless' = traceless \cup {next}
        /\ next' = next + 1
        /\ UNCHANGED <<source, log>>
     \/ /\ next <= MaxWrites => db = "target" /\ ~there
        /\ UNCHANGED <<source, target, log, next, traceless>>
  /\ UNCHANGED <<job, worker, rollback, bound, there, capture, pause, tgtPause,
                 open, acked, overlooked, verified, cancelVars, crashes>>

---------------------------------------------------------------------------
WorkerStep(w) ==
  \/ Claim(w) \/ Prepare(w) \/ CloseInitialGate(w) \/ OpenSnapshot(w)
  \/ InstallCapture(w) \/ OpenInitialGate(w) \/ StartCopy(w) \/ FinishCopy(w)
  \/ CatchUp(w) \/ CloseFinalGate(w) \/ PauseSource(w) \/ Drain(w) \/ CutOver(w)
  \/ BeginValidation(w) \/ EndValidation(w) \/ CompleteTest(w) \/ EnterSwitch(w)
  \/ Bind(w) \/ FinishSwitch(w) \/ Tidy(w)
  \/ SeeCancel(w) \/ Fail(w) \/ Unwind(w) \/ CompleteFailed(w) \/ Mend(w)
  \/ \E j \in JobIds : RecoverStale(w, j)

RollbackStep == RollbackProof \/ RollbackRestore \/ RollbackResume \/ RollbackFail

Databases == {"source", "target"}
WriterStep ==
  (\E x \in open : Commit(x)) \/ (\E db \in Databases : FinishComputing(db))

Next ==
  \/ \E j \in JobIds, switch \in BOOLEAN : Start(j, switch)
  \/ \E j \in JobIds : AskCancel(j) \/ Cancel(j) \/ RollbackBegin(j)
  \/ \E w \in Workers : WorkerStep(w) \/ Crash(w)
  \/ RollbackStep \/ RollbackCrash
  \/ WriterStep \/ Admit \/ \E db \in Databases : StartComputing(db)

Spec == Init /\ [][Next]_vars

\* the worker loop never ends, requests run to their end unless killed, and
\* transactions of writers end
Fairness ==
  /\ \A w \in Workers : WF_vars(WorkerStep(w))
  /\ WF_vars(RollbackStep)
  /\ WF_vars(WriterStep)

FairSpec == Spec /\ Fairness

---------------------------------------------------------------------------
\* Types of the job rows, of the processes and of the two databases.
TypeOK ==
  /\ job \in [JobIds -> [state : JobStates, switch : BOOLEAN]]
  /\ worker \in [Workers ->
       [at : {"idle"} \cup PreSwitch \cup PostSwitch \cup Unwinding,
        job : 0 .. MaxJobs, paused : BOOLEAN, artifacts : BOOLEAN,
        snapshot : SUBSET Writes, seen : 0 .. MaxWrites]]
  /\ \A w \in Workers : Job(w) = 0 <=> At(w, "idle")
  /\ rollback \in [at : {"idle"} \cup RollbackPoints, job : 0 .. MaxJobs]
  /\ rollback.job = 0 <=> rollback.at = "idle"
  /\ bound \in 0 .. MaxJobs
  /\ source \subseteq Writes /\ target \subseteq Writes /\ there \in BOOLEAN
  /\ capture \subseteq JobIds /\ log \in [JobIds -> SUBSET Writes]
  /\ pause \in 0 .. MaxJobs /\ tgtPause \in 0 .. MaxJobs
  /\ computing \subseteq Databases
  /\ open \subseteq [id : Writes, db : Databases]
  /\ next \in 1 .. MaxWrites + 1
  /\ acked \subseteq Writes /\ verified \subseteq Writes
  /\ traceless \subseteq Writes /\ overlooked \subseteq Writes
  /\ canceling \subseteq JobIds /\ canceled \subseteq JobIds
  /\ crashes \in 0 .. MaxCrashes

\* A job someone asked to cancel that still runs, or has switched the space.
\* What it may do is the subject of CanceledNeverSwitches; the other properties
\* are about the states without such a job.
Uncanceled(j) ==
  \/ State(j) # "canceled" \/ bound = j
  \/ \E w \in Workers : Job(w) = j

CancelHeeded == \A j \in canceling \cup canceled : ~Uncanceled(j)

\* The database the space is bound to holds every write that was answered as
\* committed, after a switch and after a rollback, but for two kinds the code lets go.
\* Nobody waits for the writes that the guard let in before the gate closed: one that
\* is still open when the databases are compared, or when the rollback takes its proof,
\* may commit behind the back of the switch (overlooked).  And the proof of a rollback
\* sees counts and timestamps: a write that moves neither goes with the target
\* (traceless).
NoWriteLost ==
  CancelHeeded =>
    acked \ (overlooked \cup traceless) \subseteq (IF bound = 0 THEN source ELSE target)

\* No cleanup drops the artifacts of the target while the space is bound to them.
LiveTargetKept == CancelHeeded => (bound # 0 => there)

\* At the instant of the switch the target is a copy of the source, what computed tasks
\* wrote included, but for the writes that were open when the two were compared
\* (overlooked), and for what a computed task still writes in the target that began there
\* before a rollback (traceless).  One thing more spoils it: a job that meets the
\* pause of an earlier job, rolled back and not yet resumed, relies on it, and
\* the resume of that rollback lifts it under the job.
ResumedLate == pause = 0 /\ \E j \in JobIds : State(j) = "rolled_back"
SwitchesToACopy ==
  [][CancelHeeded /\ bound = 0 /\ bound' # 0 =>
       \/ source \ target \subseteq overlooked /\ target \ source \subseteq traceless
       \/ ResumedLate]_vars

\* A rollback forgets nothing that was written to the target, but what its proof does
\* not see: writes that moved no count and no timestamp (traceless), and those that
\* were still open (overlooked).
RollsBackUntouched ==
  [][CancelHeeded /\ bound # 0 /\ bound' = 0 =>
       target \ source \subseteq overlooked \cup traceless]_vars

\* What a job takes from a space in use it gives back, whatever fails, is
\* canceled or is killed: its write gate opens again, and the pause it put on the
\* computed updates of the source is lifted.  The recovery looks at no job that is
\* canceled, or whose worker or rollback is killed once it reads 'failed' or
\* 'rolled_back': the pause of such a job is left out.
PauseForgotten(j) ==
  \/ canceling \cup canceled # {}
  \/ State(j) \in {"failed", "rolled_back"} /\ crashes > 0
Holds ==
  \/ Gated
  \/ bound = 0 /\ \E j \in JobIds : pause = j /\ ~PauseForgotten(j)
GivesBack == Holds ~> ~Holds

\* A job that was canceled does not rebind the space.
CanceledNeverSwitches == [][bound' # bound => bound' \notin canceled]_vars

\* The target a job has switched the space to is not dropped by its cleanup.
SwitchedTargetKept == bound # 0 => there
=============================================================================
