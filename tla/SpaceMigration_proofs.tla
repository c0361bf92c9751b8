------------------------ MODULE SpaceMigration_proofs ------------------------
(***************************************************************************)
(* Theorems about SpaceMigration and their proofs: for any number of jobs, *)
(* writes and crashes, what one worker process, the requests and the       *)
(* recovery do to the two databases loses no write and drops no database   *)
(* in use.  The hypotheses name what the code relies on; two workers, or   *)
(* a failure once the space is bound, are outside of them.                 *)
(*                                                                         *)
(* The invariant has three parts: what the rows of the jobs say agrees     *)
(* with where the worker and the rollback are (Control), always; and until *)
(* a cancellation comes too late (Spoilt), only the jobs this allows touch *)
(* the databases, and these hold what the place of the worker says (Data). *)
(***************************************************************************)
EXTENDS SpaceMigration, WellFoundedInduction, TLAPS

-----------------------------------------------------------------------------
(* Types *)

\* A set of numbers up to n has a greatest one.
LEMMA GreatestExists ==
    ASSUME NEW n \in Nat, NEW S \in SUBSET (0 .. n), S # {}
    PROVE  \E x \in S : \A y \in S : y <= x
<1> DEFINE R == OpToRel(<, Nat)
           T == {n - y : y \in S}
<1>1. IsWellFoundedOn(R, Nat)
  BY NatLessThanWellFounded
<1>0. \A y \in S : y \in Int /\ 0 <= y /\ y <= n /\ n - y \in Nat
  OBVIOUS
<1>2. T \subseteq Nat /\ T # {}
  <2>1. ASSUME NEW t \in T PROVE t \in Nat
    <3>1. PICK y \in S : t = n - y
      OBVIOUS
    <3> QED
      BY <1>0, <3>1
  <2>2. PICK y : y \in S
    OBVIOUS
  <2>3. n - y \in T
    BY <2>2
  <2> QED
    BY <2>1, <2>3
<1> HIDE DEF R
<1>3. PICK t \in T : \A u \in T : ~(<<u, t>> \in R)
  BY <1>1, <1>2, WFMin
<1>4. \A u \in T : ~(u < t)
  BY <1>2, <1>3 DEF R, OpToRel
<1>5. PICK x \in S : t = n - x
  BY <1>3
<1>6. ASSUME NEW y \in S PROVE y <= x
  <2>1. ~(n - y < n - x)
    BY <1>4, <1>5
  <2>2. x \in Int /\ y \in Int
    BY <1>0
  <2> QED
    BY <2>1, <2>2
<1> QED
  BY <1>6

LEMMA LastSeqType ==
    ASSUME TypeOK, NEW j \in JobIds
    PROVE  LastSeq(j) \in 0 .. MaxWrites
<1> DEFINE S == Replayable(j) \cup {0}
<1>1. S \in SUBSET (0 .. MaxWrites) /\ S # {}
  BY MigrationAssumption DEF TypeOK, Replayable, Writes
<1>2. \E x \in S : \A y \in S : y <= x
  BY <1>1, GreatestExists, MigrationAssumption
<1>3. LastSeq(j) \in S
  BY <1>2 DEF LastSeq
<1> QED
  BY <1>1, <1>3

Places == {"idle"} \cup PreSwitch \cup PostSwitch \cup Unwinding

Locals ==
    [at : Places, job : 0 .. MaxJobs, paused : BOOLEAN, artifacts : BOOLEAN,
     snapshot : SUBSET Writes, seen : 0 .. MaxWrites]

\* The parts of TypeOK.
JobsTyped == job \in [JobIds -> [state : JobStates, switch : BOOLEAN]]
WorkersTyped ==
    worker \in [Workers -> Locals] /\ \A w \in Workers : Job(w) = 0 <=> At(w, "idle")
RollbackTyped ==
    /\ rollback \in [at : {"idle"} \cup RollbackPoints, job : 0 .. MaxJobs]
    /\ rollback.job = 0 <=> rollback.at = "idle"
DataTyped ==
    /\ bound \in 0 .. MaxJobs /\ pause \in 0 .. MaxJobs /\ tgtPause \in 0 .. MaxJobs
    /\ source \subseteq Writes /\ target \subseteq Writes /\ verified \subseteq Writes
    /\ there \in BOOLEAN
LogTyped == capture \subseteq JobIds /\ log \in [JobIds -> SUBSET Writes]
WritersTyped ==
    /\ computing \subseteq Databases /\ next \in 1 .. MaxWrites + 1 /\ acked \subseteq Writes
    /\ open \subseteq [id : Writes, db : Databases]
    /\ traceless \subseteq Writes /\ overlooked \subseteq Writes
AskedTyped ==
    canceling \subseteq JobIds /\ canceled \subseteq JobIds /\ crashes \in 0 .. MaxCrashes

AllTyped ==
    /\ JobsTyped /\ WorkersTyped /\ RollbackTyped /\ DataTyped /\ LogTyped
    /\ WritersTyped /\ AskedTyped

LEMMA Parts == (TypeOK <=> AllTyped) /\ (TypeOK' <=> AllTyped')
BY Zenon DEF TypeOK, JobsTyped, WorkersTyped, Locals, Places, RollbackTyped, DataTyped, LogTyped,
    WritersTyped, AskedTyped, AllTyped

\* A worker whose locals are replaced, and one that goes on with its job.
LEMMA RunsWith ==
    ASSUME WorkersTyped, NEW w \in Workers, NEW r \in Locals, r.job = 0 <=> r.at = "idle",
           worker' = [worker EXCEPT ![w] = r]
    PROVE  WorkersTyped' /\ worker'[w] = r /\ \A v \in Workers \ {w} : worker'[v] = worker[v]
BY DEF WorkersTyped, Job, At

LEMMA GoesOn ==
    ASSUME WorkersTyped, NEW w \in Workers, NEW p \in Places, p # "idle", ~At(w, "idle"),
           Goto(w, p)
    PROVE  /\ WorkersTyped'
           /\ worker'[w] = [worker[w] EXCEPT !.at = p]
           /\ \A v \in Workers \ {w} : worker'[v] = worker[v]
<1> DEFINE r == [worker[w] EXCEPT !.at = p]
<1>1. worker[w] \in Locals /\ worker[w].job # 0
  BY DEF WorkersTyped, At, Job
<1>2. r \in Locals /\ r.at = p /\ r.job = worker[w].job
  BY <1>1 DEF Locals
<1>3. worker' = [worker EXCEPT ![w] = r]
  BY DEF Goto
<1> QED
  BY <1>1, <1>2, <1>3, RunsWith

LEMMA Rests ==
    ASSUME WorkersTyped, NEW w \in Workers, Rest(w), MaxJobs \in Nat, MaxWrites \in Nat
    PROVE  WorkersTyped' /\ worker'[w] = Idle /\ \A v \in Workers \ {w} : worker'[v] = worker[v]
<1>1. Idle \in Locals /\ Idle.job = 0 /\ Idle.at = "idle"
  BY DEF Idle, Locals, Places
<1> QED
  BY <1>1, RunsWith DEF Rest

\* The job of a worker that is not idle.
LEMMA RunsAJob ==
    ASSUME WorkersTyped, NEW w \in Workers, ~At(w, "idle"), MaxJobs \in Nat
    PROVE  Job(w) \in JobIds
BY DEF WorkersTyped, At, Job, Locals, JobIds

LEMMA SetsState ==
    ASSUME JobsTyped, NEW j \in JobIds, NEW s \in JobStates,
           job' = [job EXCEPT ![j].state = s]
    PROVE  /\ JobsTyped' /\ State(j)' = s /\ job'[j].switch = job[j].switch
           /\ \A i \in JobIds \ {j} : job'[i] = job[i]
BY DEF JobsTyped, State

\* What a step leaves alone keeps its types.
LEMMA Keeps ==
    ASSUME AllTyped
    PROVE  /\ UNCHANGED job => JobsTyped'
           /\ UNCHANGED worker => WorkersTyped'
           /\ UNCHANGED rollback => RollbackTyped'
           /\ UNCHANGED <<bound, source, target, there, pause, tgtPause, verified>> => DataTyped'
           /\ UNCHANGED <<capture, log>> => LogTyped'
           /\ UNCHANGED writerVars => WritersTyped'
           /\ UNCHANGED <<cancelVars, crashes>> => AskedTyped'
<1>1. UNCHANGED worker => WorkersTyped'
  BY DEF AllTyped, WorkersTyped, Job, At
<1>2. UNCHANGED job => JobsTyped'
  BY DEF AllTyped, JobsTyped
<1>3. UNCHANGED rollback => RollbackTyped'
  BY DEF AllTyped, RollbackTyped
<1>4. UNCHANGED <<bound, source, target, there, pause, tgtPause, verified>> => DataTyped'
  BY DEF AllTyped, DataTyped
<1>5. UNCHANGED <<capture, log>> => LogTyped'
  BY DEF AllTyped, LogTyped
<1>6. UNCHANGED writerVars => WritersTyped'
  BY DEF AllTyped, WritersTyped, writerVars
<1>7. UNCHANGED <<cancelVars, crashes>> => AskedTyped'
  BY DEF AllTyped, AskedTyped, cancelVars
<1> QED
  BY <1>1, <1>2, <1>3, <1>4, <1>5, <1>6, <1>7

LEMMA UnendedType ==
    ASSUME AllTyped, NEW db
    PROVE  Unended(db) \subseteq Writes
BY DEF AllTyped, WritersTyped, Unended

LEMMA WriterTypes ==
    ASSUME TypeOK,
           \/ Admit \/ (\E x \in open : Commit(x))
           \/ \E db \in Databases : StartComputing(db) \/ FinishComputing(db)
    PROVE  TypeOK'
<1>1. /\ JobsTyped /\ WorkersTyped /\ RollbackTyped /\ DataTyped /\ LogTyped
      /\ WritersTyped /\ AskedTyped /\ MaxWrites \in Nat
  BY Parts, MigrationAssumption DEF AllTyped
<1>2. ASSUME UNCHANGED <<job, worker, rollback, cancelVars, crashes>>
      PROVE  JobsTyped' /\ WorkersTyped' /\ RollbackTyped' /\ AskedTyped'
  BY <1>1, <1>2 DEF JobsTyped, WorkersTyped, RollbackTyped, AskedTyped, cancelVars, At, Job
<1>0. next <= MaxWrites => next \in Writes /\ next + 1 \in 1 .. MaxWrites + 1
  BY <1>1 DEF WritersTyped, Writes
<1>6. ASSUME NEW n \in Writes, Captured(n) PROVE log' \in [JobIds -> SUBSET Writes]
  BY <1>1, <1>6 DEF Captured, LogTyped
<1>3. CASE Admit
  <2>0. next \in Writes /\ next' \in 1 .. MaxWrites + 1
    BY <1>0, <1>3 DEF Admit
  <2>1. JobsTyped' /\ WorkersTyped' /\ RollbackTyped' /\ AskedTyped' /\ DataTyped'
    BY <1>1, <1>2, <1>3 DEF DataTyped, Admit
  <2>2. LogTyped'
    <3>1. CASE bound = 0
      <4>1. log' \in [JobIds -> SUBSET Writes]
        BY <1>3, <1>6, <2>0, <3>1 DEF Admit
      <4> QED
        BY <1>1, <1>3, <4>1 DEF LogTyped, Admit
    <3>2. CASE bound # 0
      BY <1>1, <1>3, <3>2 DEF LogTyped, Admit
    <3> QED
      BY <3>1, <3>2
  <2>3. ASSUME NEW d \in Databases
        PROVE  [id |-> next, db |-> d] \in [id : Writes, db : Databases]
    BY <2>0
  <2>4. open' \subseteq [id : Writes, db : Databases]
    BY <1>1, <1>3, <2>3 DEF WritersTyped, Admit, Databases
  <2>5. WritersTyped'
    BY <1>1, <1>3, <2>0, <2>4 DEF WritersTyped, Admit
  <2> QED
    BY <2>1, <2>2, <2>5, Parts DEF AllTyped
<1>4. CASE \E x \in open : Commit(x)
  <2>1. PICK x \in open : Commit(x)
    BY <1>4
  <2>2. x.id \in Writes
    BY <1>1, <2>1 DEF WritersTyped
  <2>3. JobsTyped' /\ WorkersTyped' /\ RollbackTyped' /\ AskedTyped'
    BY <1>2, <2>1 DEF Commit
  <2>4. DataTyped' /\ LogTyped'
    BY <1>1, <2>1, <2>2 DEF DataTyped, LogTyped, Commit
  <2>5. WritersTyped'
    BY <1>1, <2>1, <2>2 DEF WritersTyped, Commit
  <2> QED
    BY <2>3, <2>4, <2>5, Parts DEF AllTyped
<1>5. ASSUME NEW db \in Databases, StartComputing(db) PROVE TypeOK'
  <2>1. JobsTyped' /\ WorkersTyped' /\ RollbackTyped' /\ AskedTyped'
    BY <1>2, <1>5 DEF StartComputing
  <2>2. DataTyped' /\ LogTyped' /\ WritersTyped'
    BY <1>1, <1>5 DEF StartComputing, DataTyped, LogTyped, WritersTyped, dbVars
  <2> QED
    BY <2>1, <2>2, Parts DEF AllTyped
<1>7. ASSUME NEW db \in Databases, FinishComputing(db) PROVE TypeOK'
  <2>1. JobsTyped' /\ WorkersTyped' /\ RollbackTyped' /\ AskedTyped'
    BY <1>2, <1>7 DEF FinishComputing
  <2>2. DataTyped' /\ WritersTyped'
    BY <1>0, <1>1, <1>7 DEF DataTyped, WritersTyped, FinishComputing
  <2>3. LogTyped'
    <3>1. CASE next <= MaxWrites /\ Captured(next)
      <4>1. log' \in [JobIds -> SUBSET Writes]
        BY <1>0, <1>6, <3>1
      <4> QED
        BY <1>1, <1>7, <4>1 DEF LogTyped, FinishComputing
    <3>2. CASE UNCHANGED log
      BY <1>1, <1>7, <3>2 DEF LogTyped, FinishComputing
    <3> QED
      BY <1>7, <3>1, <3>2 DEF FinishComputing
  <2> QED
    BY <2>1, <2>2, <2>3, Parts DEF AllTyped
<1> QED
  BY <1>3, <1>4, <1>5, <1>7

\* The worker goes on to another place and may change the state of its job.
LEMMA MoveTypes ==
    ASSUME TypeOK, NEW w \in Workers,
           \/ Prepare(w) \/ CloseInitialGate(w) \/ OpenInitialGate(w) \/ CloseFinalGate(w)
           \/ Drain(w) \/ EnterSwitch(w) \/ SeeCancel(w) \/ Fail(w)
    PROVE  TypeOK'
<1>1. AllTyped /\ MaxJobs \in Nat
  BY Parts, MigrationAssumption
<1>2. ~At(w, "idle")
  BY MigrationAssumption DEF Prepare, CloseInitialGate, OpenInitialGate, CloseFinalGate, Drain,
      EnterSwitch, SeeCancel, Fail, At, PreSwitch, PostSwitch, RollbackPoints
<1>3. Job(w) \in JobIds
  BY <1>1, <1>2, RunsAJob DEF AllTyped
<1>4. UNCHANGED <<rollback, bound, dbVars, writerVars, verified, cancelVars, crashes>>
  BY DEF Prepare, CloseInitialGate, OpenInitialGate, CloseFinalGate, Drain, EnterSwitch,
      SeeCancel, Fail
<1>5. \/ UNCHANGED job
      \/ \E s \in JobStates : job' = [job EXCEPT ![Job(w)].state = s]
  BY DEF Prepare, CloseInitialGate, OpenInitialGate, CloseFinalGate, Drain, EnterSwitch,
      SeeCancel, Fail, SetState, JobStates, Active
<1>6. \E p \in Places \ {"idle"} : Goto(w, p)
  BY DEF Prepare, CloseInitialGate, OpenInitialGate, CloseFinalGate, Drain, EnterSwitch,
      SeeCancel, Fail, Places, PreSwitch, PostSwitch, Unwinding
<1>7. JobsTyped'
  BY <1>1, <1>3, <1>5, SetsState, Keeps DEF AllTyped
<1>8. WorkersTyped'
  BY <1>1, <1>2, <1>6, GoesOn DEF AllTyped
<1> QED
  BY <1>1, <1>4, <1>7, <1>8, Keeps, Parts DEF AllTyped, dbVars

\* The other steps of the worker that keep its job: they also fill its locals,
\* the databases or the delta log.
LEMMA StepTypes ==
    ASSUME TypeOK, NEW w \in Workers,
           \/ OpenSnapshot(w) \/ InstallCapture(w) \/ StartCopy(w) \/ FinishCopy(w) \/ CatchUp(w)
           \/ PauseSource(w) \/ CutOver(w) \/ BeginValidation(w) \/ EndValidation(w)
           \/ CompleteTest(w) \/ Bind(w) \/ FinishSwitch(w) \/ Unwind(w)
    PROVE  TypeOK'
<1>1. AllTyped /\ MaxJobs \in Nat /\ MaxWrites \in Nat
  BY Parts, MigrationAssumption
<1>2. ~At(w, "idle")
  BY DEF OpenSnapshot, InstallCapture, StartCopy, FinishCopy, CatchUp, PauseSource, CutOver,
      BeginValidation, EndValidation, CompleteTest, Bind, FinishSwitch, Unwind, At
<1>3. Job(w) \in JobIds
  BY <1>1, <1>2, RunsAJob DEF AllTyped
<1>4. UNCHANGED <<rollback, cancelVars, crashes>> /\ WritersTyped'
  <2>1. UNCHANGED <<rollback, cancelVars, crashes>>
    BY DEF OpenSnapshot, InstallCapture, StartCopy, FinishCopy, CatchUp, PauseSource, CutOver,
        BeginValidation, EndValidation, CompleteTest, Bind, FinishSwitch, Unwind
  <2>2. CASE EndValidation(w)
    BY <1>1, <2>2, UnendedType DEF EndValidation, AllTyped, WritersTyped
  <2>3. CASE ~EndValidation(w)
    BY <1>1, <2>3, Keeps DEF OpenSnapshot, InstallCapture, StartCopy, FinishCopy, CatchUp,
        PauseSource, CutOver, BeginValidation, CompleteTest, Bind, FinishSwitch, Unwind
  <2> QED
    BY <2>1, <2>2, <2>3
<1>5. \/ UNCHANGED job
      \/ \E s \in JobStates : job' = [job EXCEPT ![Job(w)].state = s]
  <2>1. ValidationState(Job(w)) \in JobStates
    BY DEF ValidationState, JobStates, Active
  <2> QED
    BY <2>1 DEF OpenSnapshot, InstallCapture, StartCopy, FinishCopy, CatchUp, PauseSource, CutOver,
        BeginValidation, EndValidation, CompleteTest, Bind, FinishSwitch, Unwind, SetState,
        JobStates, Active
<1>6. JobsTyped'
  BY <1>1, <1>3, <1>5, SetsState, Keeps DEF AllTyped
<1>7. worker[w] \in Locals /\ worker[w].job # 0
  BY <1>1, <1>2 DEF AllTyped, WorkersTyped, At, Job
<1>8. LastSeq(Job(w)) \in 0 .. MaxWrites
  BY <1>3, LastSeqType
<1>9. WorkersTyped'
  <2>1. ASSUME NEW r \in Locals, r.at # "idle", r.job # 0, worker' = [worker EXCEPT ![w] = r]
        PROVE  WorkersTyped'
    BY <1>1, <2>1, RunsWith DEF AllTyped
  <2>2. ASSUME NEW p \in Places \ {"idle"}, Goto(w, p) PROVE WorkersTyped'
    BY <1>1, <1>2, <2>2, GoesOn DEF AllTyped
  <2>3. CASE OpenSnapshot(w)
    <3>1. [worker[w] EXCEPT !.at = "exported", !.snapshot = source] \in Locals
      BY <1>1, <1>7 DEF Locals, Places, PreSwitch, AllTyped, DataTyped
    <3> QED
      BY <1>7, <2>1, <2>3, <3>1 DEF OpenSnapshot, Locals
  <2>4. CASE StartCopy(w)
    <3>1. [worker[w] EXCEPT !.at = "copying", !.artifacts = TRUE] \in Locals
      BY <1>7 DEF Locals, Places, PreSwitch
    <3> QED
      BY <1>7, <2>1, <2>4, <3>1 DEF StartCopy, Locals
  <2>5. CASE FinishCopy(w)
    <3>1. [worker[w] EXCEPT !.at = "copied", !.snapshot = {}] \in Locals
      BY <1>7 DEF Locals, Places, PreSwitch
    <3> QED
      BY <1>7, <2>1, <2>5, <3>1 DEF FinishCopy, Locals
  <2>6. CASE PauseSource(w)
    <3>0. ASSUME NEW b \in BOOLEAN
          PROVE  [worker[w] EXCEPT !.at = "paused", !.paused = b] \in Locals
      BY <1>7 DEF Locals, Places, PreSwitch
    <3>2. (pause \in {0, Job(w)}) \in BOOLEAN
      OBVIOUS
    <3>1. [worker[w] EXCEPT !.at = "paused", !.paused = pause \in {0, Job(w)}] \in Locals
      BY <3>0, <3>2, Zenon
    <3> QED
      BY <1>7, <2>1, <2>6, <3>1 DEF PauseSource, Locals
  <2>7. CASE BeginValidation(w)
    <3>1. [worker[w] EXCEPT !.at = "validating", !.seen = LastSeq(Job(w))] \in Locals
      BY <1>7, <1>8 DEF Locals, Places, PreSwitch
    <3> QED
      BY <1>7, <2>1, <2>7, <3>1 DEF BeginValidation, Locals
  <2>8. CASE \/ InstallCapture(w) \/ CatchUp(w) \/ CutOver(w) \/ EndValidation(w)
             \/ CompleteTest(w) \/ Bind(w) \/ FinishSwitch(w) \/ Unwind(w)
    <3>1. \E p \in Places \ {"idle"} : Goto(w, p)
      BY <2>8 DEF InstallCapture, CatchUp, CutOver, EndValidation, CompleteTest, Bind,
          FinishSwitch, Unwind, Places, PreSwitch, PostSwitch, Unwinding
    <3> QED
      BY <2>2, <3>1
  <2> QED
    BY <2>3, <2>4, <2>5, <2>6, <2>7, <2>8
<1>10. Replayable(Job(w)) \subseteq Writes /\ worker[w].snapshot \subseteq Writes
  BY <1>1, <1>7 DEF AllTyped, DataTyped, Replayable, Locals
<1>11. DataTyped'
  <2>1. Job(w) \in 0 .. MaxJobs
    BY <1>1, <1>3 DEF JobIds
  <2>2. CASE \/ OpenSnapshot(w) \/ InstallCapture(w) \/ PauseSource(w) \/ BeginValidation(w)
             \/ CompleteTest(w) \/ Bind(w) \/ FinishSwitch(w) \/ Unwind(w)
    BY <1>1, <2>1, <2>2 DEF AllTyped, DataTyped, dbVars, OpenSnapshot, InstallCapture, PauseSource,
        BeginValidation, CompleteTest, Bind, FinishSwitch, Unwind, Lift
  <2>3. CASE StartCopy(w) \/ FinishCopy(w)
    BY <1>1, <1>10, <2>1, <2>3 DEF AllTyped, DataTyped, StartCopy, FinishCopy
  <2>4. CASE CatchUp(w)
    BY <1>1, <1>10, <2>4 DEF AllTyped, DataTyped, CatchUp
  <2>5. CASE CutOver(w) \/ EndValidation(w)
    BY <1>1, <1>10, <2>5 DEF AllTyped, DataTyped, CutOver, EndValidation, dbVars
  <2> QED
    BY <2>2, <2>3, <2>4, <2>5
<1>12. LogTyped'
  <2>1. CASE InstallCapture(w)
    BY <1>1, <1>3, <2>1 DEF AllTyped, LogTyped, InstallCapture
  <2>2. CASE Unwind(w)
    BY <1>1, <1>3, <2>2 DEF AllTyped, LogTyped, Unwind, DropCapture
  <2>3. CASE ~InstallCapture(w) /\ ~Unwind(w)
    BY <1>1, <2>3, Keeps DEF OpenSnapshot, StartCopy, FinishCopy, CatchUp, PauseSource, CutOver,
      BeginValidation, EndValidation, CompleteTest, Bind, FinishSwitch, dbVars
  <2> QED
    BY <2>1, <2>2, <2>3
<1> QED
  BY <1>1, <1>4, <1>6, <1>9, <1>11, <1>12, Keeps, Parts DEF AllTyped

\* The worker comes to rest, or takes up a job.
LEMMA RestTypes ==
    ASSUME TypeOK, NEW w \in Workers,
           \/ Tidy(w) \/ CompleteFailed(w) \/ Mend(w) \/ Crash(w) \/ Claim(w)
           \/ \E j \in JobIds : RecoverStale(w, j)
    PROVE  TypeOK'
<1>1. AllTyped /\ MaxJobs \in Nat /\ MaxWrites \in Nat /\ MaxCrashes \in Nat
  BY Parts, MigrationAssumption
<1>2. UNCHANGED <<rollback, writerVars, cancelVars, verified, bound, source>>
  BY DEF Tidy, CompleteFailed, Mend, Crash, Claim, RecoverStale, dbVars
<1>3. CASE Tidy(w) \/ CompleteFailed(w) \/ Mend(w) \/ Crash(w)
  <2>1. Rest(w) /\ ~At(w, "idle")
    BY <1>3 DEF Tidy, CompleteFailed, Mend, Crash, At
  <2>2. Job(w) \in JobIds
    BY <1>1, <2>1, RunsAJob DEF AllTyped
  <2>3. WorkersTyped'
    BY <1>1, <2>1, Rests DEF AllTyped
  <2>4. JobsTyped'
    <3>1. UNCHANGED job \/ job' = [job EXCEPT ![Job(w)].state = "failed"]
      BY <1>3 DEF Tidy, CompleteFailed, Mend, Crash
    <3> QED
      BY <1>1, <2>2, <3>1, SetsState, Keeps DEF AllTyped, JobStates
  <2>5. DataTyped'
    <3>1. there' \in BOOLEAN /\ target' \subseteq Writes
      BY <1>1, <1>3 DEF AllTyped, DataTyped, Tidy, CompleteFailed, Mend, Crash, DropTarget, dbVars
    <3>2. pause' \in 0 .. MaxJobs /\ tgtPause' \in 0 .. MaxJobs
      BY <1>1, <1>3 DEF AllTyped, DataTyped, Tidy, CompleteFailed, Mend, Crash, DropTarget, Lift,
          dbVars
    <3> QED
      BY <1>1, <1>2, <3>1, <3>2 DEF AllTyped, DataTyped
  <2>6. LogTyped'
    BY <1>1, <1>3, <2>2 DEF AllTyped, LogTyped, Tidy, CompleteFailed, Mend, Crash, DropCapture,
        dbVars
  <2>7. AskedTyped'
    BY <1>1, <1>2, <1>3 DEF AllTyped, AskedTyped, Tidy, CompleteFailed, Mend, Crash, cancelVars
  <2> QED
    BY <1>1, <1>2, <2>3, <2>4, <2>5, <2>6, <2>7, Keeps, Parts DEF AllTyped
<1>4. ASSUME NEW j \in JobIds, NEW r \in Locals, r.job = j, r.at # "idle",
             NEW s \in {"preflight", "failed"},
             worker' = [worker EXCEPT ![w] = r], job' = [job EXCEPT ![j].state = s],
             UNCHANGED <<dbVars, crashes>>
      PROVE  TypeOK'
  <2>1. j # 0
    BY <1>1 DEF JobIds
  <2>2. WorkersTyped'
    BY <1>1, <1>4, <2>1, RunsWith DEF AllTyped
  <2>3. JobsTyped'
    BY <1>1, <1>4, SetsState DEF AllTyped, JobStates, Active
  <2> QED
    BY <1>1, <1>2, <1>4, <2>2, <2>3, Keeps, Parts DEF AllTyped, dbVars
<1>5. Idle \in Locals /\ JobIds \subseteq 0 .. MaxJobs
  BY <1>1 DEF Idle, Locals, Places, JobIds
<1>6. CASE Claim(w)
  <2>1. PICK j \in JobIds :
           /\ SetState(j, "preflight")
           /\ worker' = [worker EXCEPT ![w] = [Idle EXCEPT !.at = "claimed", !.job = j]]
    BY <1>6 DEF Claim
  <2> DEFINE r == [Idle EXCEPT !.at = "claimed", !.job = j]
  <2>2. r \in Locals /\ r.job = j /\ r.at # "idle"
    BY <1>5, <2>1 DEF Locals, Places, PreSwitch
  <2> QED
    BY <1>4, <1>6, <2>1, <2>2 DEF Claim, SetState
<1>7. ASSUME NEW j \in JobIds, RecoverStale(w, j) PROVE TypeOK'
  <2> DEFINE r == [Idle EXCEPT !.at = "mending", !.job = j, !.artifacts = MayHaveArtifacts(j)]
  <2>1. MayHaveArtifacts(j) \in BOOLEAN
    BY DEF MayHaveArtifacts
  <2>2. r \in Locals /\ r.job = j /\ r.at # "idle"
    BY <1>5, <2>1 DEF Locals, Places, Unwinding
  <2> QED
    BY <1>4, <1>7, <2>2 DEF RecoverStale
<1> QED
  BY <1>3, <1>6, <1>7

\* Requests and the steps of a rollback.
LEMMA RequestTypes ==
    ASSUME TypeOK,
           \/ \E j \in JobIds : \/ \E switch \in BOOLEAN : Start(j, switch)
                                \/ AskCancel(j) \/ Cancel(j) \/ RollbackBegin(j)
           \/ RollbackStep \/ RollbackCrash
    PROVE  TypeOK'
<1>1. AllTyped /\ MaxJobs \in Nat /\ MaxCrashes \in Nat /\ 0 \in 0 .. MaxJobs
  BY Parts, MigrationAssumption DEF AllTyped
<1>2. ASSUME NEW j \in JobIds, NEW switch \in BOOLEAN, Start(j, switch) PROVE TypeOK'
  <2>1. JobsTyped'
    BY <1>1, <1>2 DEF AllTyped, JobsTyped, Start, JobStates, Active
  <2>2. DataTyped'
    BY <1>1, <1>2 DEF AllTyped, DataTyped, Start
  <2> QED
    BY <1>1, <1>2, <2>1, <2>2, Keeps, Parts DEF AllTyped, Start
<1>3. ASSUME NEW j \in JobIds, AskCancel(j) PROVE TypeOK'
  <2>1. DataTyped' /\ AskedTyped'
    BY <1>1, <1>3 DEF AllTyped, DataTyped, AskedTyped, AskCancel, Lift
  <2> QED
    BY <1>1, <1>3, <2>1, Keeps, Parts DEF AllTyped, AskCancel
<1>4. ASSUME NEW j \in JobIds, Cancel(j) PROVE TypeOK'
  <2>1. AskedTyped'
    BY <1>1, <1>4 DEF AllTyped, AskedTyped, Cancel
  <2>2. JobsTyped'
    BY <1>1, <1>4, SetsState DEF AllTyped, Cancel, JobStates
  <2> QED
    BY <1>1, <1>4, <2>1, <2>2, Keeps, Parts DEF AllTyped, Cancel, dbVars
<1>5. ASSUME NEW j \in JobIds, RollbackBegin(j) PROVE TypeOK'
  <2>1. RollbackTyped'
    BY <1>1, <1>5 DEF RollbackTyped, RollbackBegin, RollbackPoints, JobIds
  <2>2. JobsTyped'
    BY <1>1, <1>5, SetsState DEF AllTyped, RollbackBegin, SetState, JobStates, Active
  <2> QED
    BY <1>1, <1>5, <2>1, <2>2, Keeps, Parts DEF AllTyped, RollbackBegin, dbVars
<1>6. CASE RollbackStep \/ RollbackCrash
  <2>1. rollback.at # "idle" /\ rollback.job \in JobIds
    <3>1. rollback.at # "idle"
      BY <1>6, MigrationAssumption DEF RollbackStep, RollbackCrash, RollbackProof,
          RollbackRestore, RollbackResume, RollbackFail, PreSwitch, PostSwitch, RollbackPoints
    <3> QED
      BY <1>1, <3>1 DEF AllTyped, RollbackTyped, JobIds
  <2>2. \/ UNCHANGED job
        \/ \E s \in JobStates : job' = [job EXCEPT ![rollback.job].state = s]
    BY <1>6 DEF RollbackStep, RollbackCrash, RollbackProof, RollbackRestore, RollbackResume,
        RollbackFail, SetState, JobStates, Active
  <2>3. JobsTyped'
    BY <1>1, <2>1, <2>2, SetsState, Keeps DEF AllTyped
  <2>4. RollbackTyped'
    BY <1>1, <1>6, <2>1 DEF AllTyped, RollbackTyped, RollbackStep, RollbackCrash, RollbackProof,
        RollbackRestore, RollbackResume, RollbackFail, NoRollback, RollbackPoints
  <2>5. DataTyped'
    BY <1>1, <1>6 DEF AllTyped, DataTyped, RollbackStep, RollbackCrash, RollbackProof,
        RollbackRestore, RollbackResume, RollbackFail, dbVars, Lift
  <2>6. AskedTyped'
    BY <1>1, <1>6 DEF AllTyped, AskedTyped, RollbackStep, RollbackCrash, RollbackProof,
        RollbackRestore, RollbackResume, RollbackFail, cancelVars
  <2>7. UNCHANGED <<worker, capture, log>>
    BY <1>6 DEF RollbackStep, RollbackCrash, RollbackProof, RollbackRestore, RollbackResume,
        RollbackFail, dbVars
  <2>8. WritersTyped'
    <3>1. CASE RollbackProof
      BY <1>1, <3>1, UnendedType DEF RollbackProof, AllTyped, WritersTyped
    <3>2. CASE ~RollbackProof
      BY <1>1, <1>6, <3>2, Keeps DEF RollbackStep, RollbackCrash, RollbackRestore, RollbackResume,
          RollbackFail
    <3> QED
      BY <3>1, <3>2
  <2> QED
    BY <1>1, <2>3, <2>4, <2>5, <2>6, <2>7, <2>8, Keeps, Parts DEF AllTyped
<1> QED
  BY <1>2, <1>3, <1>4, <1>5, <1>6

LEMMA InitTyped == Init => TypeOK
<1> SUFFICES ASSUME Init PROVE TypeOK
  OBVIOUS
<1>1. MaxJobs \in Nat /\ MaxWrites \in Nat /\ MaxCrashes \in Nat
  BY MigrationAssumption
<1>2. JobsTyped
  BY DEF Init, JobsTyped, JobStates
<1>3. WorkersTyped
  BY <1>1 DEF Init, WorkersTyped, Idle, Locals, Places, Job, At
<1>4. RollbackTyped
  BY <1>1 DEF Init, NoRollback, RollbackTyped
<1>5. DataTyped
  <2>1. /\ bound = 0 /\ source = {} /\ target = {} /\ there = FALSE /\ pause = 0
        /\ tgtPause = 0 /\ verified = {}
    BY DEF Init
  <2> QED
    <3>1. there \in BOOLEAN
      BY <2>1
    <3>2. bound \in 0 .. MaxJobs /\ pause \in 0 .. MaxJobs /\ tgtPause \in 0 .. MaxJobs
      BY <1>1, <2>1
    <3> QED
      BY <2>1, <3>1, <3>2 DEF DataTyped
<1>6. LogTyped
  BY DEF Init, LogTyped
<1>7. WritersTyped
  <2>1. next \in 1 .. MaxWrites + 1
    BY <1>1 DEF Init
  <2> QED
    BY <2>1 DEF Init, WritersTyped
<1>8. AskedTyped
  BY <1>1 DEF Init, AskedTyped
<1> QED
  BY <1>2, <1>3, <1>4, <1>5, <1>6, <1>7, <1>8, Parts DEF AllTyped

LEMMA StepTyped ==
    ASSUME TypeOK, [Next]_vars
    PROVE  TypeOK'
<1>1. CASE Next
  <2>1. ASSUME NEW w \in Workers, WorkerStep(w) \/ Crash(w) PROVE TypeOK'
    BY <2>1, MoveTypes, StepTypes, RestTypes DEF WorkerStep
  <2>2. ASSUME WriterStep \/ Admit \/ \E db \in Databases : StartComputing(db) PROVE TypeOK'
    BY <2>2, WriterTypes DEF WriterStep
  <2>3. CASE \/ \E j \in JobIds : \/ \E switch \in BOOLEAN : Start(j, switch)
                                \/ AskCancel(j) \/ Cancel(j) \/ RollbackBegin(j)
             \/ RollbackStep \/ RollbackCrash
    BY <2>3, RequestTypes
  <2> QED
    BY <1>1, <2>1, <2>2, <2>3, Zenon DEF Next
<1>2. CASE UNCHANGED vars
  BY <1>2, Keeps, Parts DEF AllTyped, vars, dbVars
<1> QED
  BY <1>1, <1>2

\* The job rows, the locals of the workers, the two databases and the delta logs
\* keep their types whatever is requested, fails, is canceled or is killed.
THEOREM TypeCorrect == Spec => []TypeOK
<1>1. Init => TypeOK
  BY InitTyped
<1>2. TypeOK /\ [Next]_vars => TypeOK'
  BY StepTyped
<1> QED
  BY <1>1, <1>2, PTL DEF Spec

-----------------------------------------------------------------------------
(* The invariant *)

\* What the proofs below assume of the runs of the system: one process works
\* for the space, no live job is taken for stale, no cancellation answers on a
\* check that is out of date, and nothing fails between the commit that binds
\* the space and the end of its job.
Hypotheses ==
    /\ \A v, w \in Workers : v = w
    /\ HeartbeatsOnTime /\ CancelsInTime
    /\ FailPoints \subseteq PreSwitch \cup {"proof", "restore"}

Asked(j) == j \in canceling \cup canceled

\* A job someone asked to cancel that got past the states a cancellation may
\* still change.  It stays there, and then CancelHeeded is false for good.
Over == {"validating", "switching", "succeeded", "failed", "rolled_back"}
Spoilt == \E j \in JobIds : Asked(j) /\ State(j) \in Over

Early == PreSwitch \ {"validating", "validated", "switching"}
Running == {"preflight", "freezing_writes", "copying", "canceled"}
Settled == {"switching", "succeeded", "failed", "rolled_back"}

\* The row of a worker's job reads as its place says.
PlaceAgrees(w) ==
    /\ worker[w].at \in Early => State(Job(w)) \in Running
    /\ worker[w].at \in {"validating", "validated"} =>
         State(Job(w)) \in IF job[Job(w)].switch THEN {"freezing_writes", "canceled"}
                           ELSE {"validating"}
    /\ worker[w].at \in {"switching", "bound"} =>
         State(Job(w)) = "switching" /\ job[Job(w)].switch
    /\ worker[w].at \in {"failing", "cleaning"} =>
         State(Job(w)) \in Running \cup {"validating", "failed"}
    /\ At(w, "mending") => State(Job(w)) = "failed"

\* So does the row of the job that is being rolled back; no worker but one that
\* tidies up has that job.
RollbackAgrees ==
    /\ rollback.at \in {"proof", "restore"} =>
         /\ State(rollback.job) = "switching"
         /\ \A w \in Workers : Job(w) = rollback.job => At(w, "tidy")
    /\ rollback.at = "resume" => State(rollback.job) = "rolled_back"

RowsAgree ==
    /\ bound # 0 => State(bound) \in Settled
    /\ \A j \in JobIds : State(j) = "canceled" => j \in canceled
    /\ \A i, k \in JobIds : State(k) # "none" /\ i < k => State(i) # "none"

Control == (\A w \in Workers : PlaceAgrees(w)) /\ RollbackAgrees /\ RowsAgree

\* A write that is open in the target keeps its artifacts: what drops them waits.
Grounded == \A x \in open : x.db = "target" => there

\* The writes the code lets go.
Unseen == overlooked \cup traceless

\* What holds of the space, whichever of the two databases it is bound to.  A write
\* that is open in the other one was overlooked.
SpaceKept ==
    /\ acked \ Unseen \subseteq (IF bound = 0 THEN source ELSE target)
    /\ bound # 0 => there /\ verified \subseteq source
    /\ \A x \in open :
         x.db = (IF bound = 0 THEN "source" ELSE "target") \/ x.id \in overlooked

\* The job that bound the space is the only one at work, and nothing that is
\* left to do for it drops the target.
BinderAlone ==
    /\ bound # 0 =>
         /\ \A w \in Workers : ~At(w, "idle") =>
              /\ Job(w) = bound
              /\ worker[w].at \in {"bound", "tidy", "mending"}
              /\ At(w, "mending") => ~worker[w].artifacts
         /\ \A i \in JobIds \ {bound} : State(i) \notin Active
    /\ \A j \in JobIds : HasSwitched(j) => bound = j
    /\ \A w \in Workers : At(w, "bound") => bound = Job(w)

RollbackKept ==
    /\ rollback.at \in {"proof", "restore"} => bound = rollback.job
    /\ rollback.at = "restore" =>
         target \ source \subseteq Unseen /\ Unended("target") \subseteq overlooked

\* Before the switch the space is bound to the source and no other job is
\* active, unless someone asked to cancel one of them.
WorkerAlone(w) ==
    worker[w].at \in PreSwitch /\ ~Asked(Job(w)) =>
      bound = 0 /\ \A i \in JobIds \ {Job(w)} : State(i) \notin Active

ActiveAlone ==
    \A i, j \in JobIds : i # j /\ State(i) \in Active /\ State(j) \in Active =>
      \E k \in {i, j} : Asked(k) /\ State(k) \in Indexed

\* From the copy to the switch no write of a user is open in the target.
Copied == {"copying", "copied", "caughtUp", "frozen", "paused", "drained", "cutOver",
           "validating", "validated", "switching"}
TargetQuiet(w) == worker[w].at \in Copied => \A x \in open : x.db = "source"

\* From validation to the switch the target holds what the writers were answered.
TargetVerified(w) ==
    worker[w].at \in {"validated", "switching"} /\ job[Job(w)].switch /\ ~Asked(Job(w)) =>
      /\ there /\ acked \ Unseen \subseteq target /\ verified \subseteq source
      /\ Unended("source") \subseteq overlooked

\* The target is a copy of the source, as the switch may take it.
ACopy == source \ target \subseteq overlooked /\ target \ source \subseteq traceless

\* From the drain to the switch no computed task runs, and none may start.
Frozen == {"drained", "cutOver", "validating", "validated", "switching"}
SourceStill(w) ==
    worker[w].at \in Frozen \cup {"paused"} /\ job[Job(w)].switch /\ ~Asked(Job(w)) =>
      /\ At(w, "paused") => pause # 0 \/ ResumedLate
      /\ worker[w].at \in Frozen => (pause # 0 /\ "source" \notin computing) \/ ResumedLate
      /\ worker[w].at \in {"validated", "switching"} => ACopy \/ ResumedLate

Data ==
    /\ SpaceKept /\ BinderAlone /\ RollbackKept /\ ActiveAlone
    /\ \A w \in Workers :
         WorkerAlone(w) /\ TargetQuiet(w) /\ TargetVerified(w) /\ SourceStill(w)

IInv == TypeOK /\ Grounded /\ Control /\ (~Spoilt => Data)

\* Whatever drops the artifacts of the target waits for what is open there.
LEMMA StaysGrounded ==
    ASSUME TypeOK, Grounded, [Next]_vars
    PROVE  Grounded'
<1>1. ASSUME UNCHANGED open,
             there => there' \/ Unended("target") = {}
      PROVE  Grounded'
  BY <1>1 DEF Grounded, Unended
<1>2. ASSUME NEW w \in Workers, WorkerStep(w) \/ Crash(w) PROVE Grounded'
  <2>1. UNCHANGED open
    BY <1>2 DEF WorkerStep, Claim, Prepare, CloseInitialGate, OpenSnapshot, InstallCapture,
        OpenInitialGate, StartCopy, FinishCopy, CatchUp, CloseFinalGate, PauseSource, Drain, CutOver,
        BeginValidation, EndValidation, CompleteTest, EnterSwitch, Bind, FinishSwitch, Tidy,
        SeeCancel, Fail, Unwind, CompleteFailed, Mend, RecoverStale, Crash, writerVars
  <2>2. there => there' \/ Unended("target") = {}
    <3>1. CASE CompleteFailed(w) \/ Mend(w)
      BY <3>1 DEF CompleteFailed, Mend, DropTarget
    <3>2. CASE ~(CompleteFailed(w) \/ Mend(w))
      BY <1>2, <3>2 DEF WorkerStep, Claim, Prepare, CloseInitialGate, OpenSnapshot, InstallCapture,
          OpenInitialGate, StartCopy, FinishCopy, CatchUp, CloseFinalGate, PauseSource, Drain,
          CutOver, BeginValidation, EndValidation, CompleteTest, EnterSwitch, Bind, FinishSwitch,
          Tidy, SeeCancel, Fail, Unwind, RecoverStale, Crash, dbVars
    <3> QED
      BY <3>1, <3>2
  <2> QED
    BY <1>1, <2>1, <2>2
<1>3. ASSUME NEW j \in JobIds,
             \/ \E switch \in BOOLEAN : Start(j, switch)
             \/ AskCancel(j) \/ Cancel(j) \/ RollbackBegin(j)
      PROVE  Grounded'
  <2>1. UNCHANGED open /\ (there => there' \/ Unended("target") = {})
    BY <1>3 DEF Start, AskCancel, Cancel, RollbackBegin, dbVars, writerVars
  <2> QED
    BY <1>1, <2>1
<1>4. ASSUME RollbackStep \/ RollbackCrash PROVE Grounded'
  <2>1. UNCHANGED <<open, there>>
    BY <1>4 DEF RollbackStep, RollbackCrash, RollbackProof, RollbackRestore, RollbackResume,
        RollbackFail, dbVars, writerVars
  <2> QED
    BY <1>1, <2>1
<1>5. ASSUME WriterStep \/ Admit \/ \E db \in Databases : StartComputing(db) PROVE Grounded'
  <2>1. CASE Admit
    BY <2>1 DEF Admit, Grounded
  <2>2. ASSUME NEW x \in open, Commit(x) PROVE Grounded'
    BY <2>2 DEF Commit, Grounded
  <2>3. ASSUME NEW db \in Databases, StartComputing(db) \/ FinishComputing(db) PROVE Grounded'
    <3>1. UNCHANGED <<open, there>>
      BY <2>3 DEF StartComputing, FinishComputing, dbVars
    <3> QED
      BY <1>1, <3>1
  <2> QED
    BY <1>5, <2>1, <2>2, <2>3 DEF WriterStep
<1>6. CASE UNCHANGED vars
  BY <1>6 DEF vars, dbVars, writerVars, Grounded
<1> QED
  BY <1>2, <1>3, <1>4, <1>5, <1>6, Zenon DEF Next

\* A step of a worker that is neither idle nor tidying up keeps Control, when the
\* row of its job reads as its new place says.
LEMMA ControlStep ==
    ASSUME Control, JobsTyped, WorkersTyped, RollbackTyped, Hypotheses,
           NEW w \in Workers, NEW J \in JobIds, Job(w) = J, ~At(w, "idle"), ~At(w, "tidy"),
           PlaceAgrees(w)', Job(w)' \in {J, 0}, UNCHANGED <<rollback, canceled>>,
           bound' # 0 => State(bound)' \in Settled,
           \A i \in JobIds \ {J} : job'[i] = job[i],
           State(J)' # "none", State(J)' = "canceled" => State(J) = "canceled"
    PROVE  Control'
<1>1. \A v \in Workers : v = w
  BY DEF Hypotheses
<1>2. State(J) \in Running \cup {"validating", "switching", "failed"}
  <2>1. worker[w].at \in Places
    BY DEF WorkersTyped, Locals
  <2> QED
    BY <2>1 DEF Control, PlaceAgrees, At, Places, PreSwitch, PostSwitch, Unwinding, Early, Running
<1>3. RollbackAgrees'
  <2>1. rollback.at # "idle" => rollback.job # J /\ rollback.job \in JobIds
    BY <1>2 DEF Control, RollbackAgrees, RollbackTyped, RollbackPoints, Running, JobIds
  <2>2. rollback.at # "idle" => State(rollback.job)' = State(rollback.job) /\ rollback.job # Job(w)'
    BY <2>1 DEF State, RollbackTyped, JobIds
  <2>3. ASSUME rollback.at \in {"proof", "restore"}
        PROVE  (\A v \in Workers : Job(v) = rollback.job => At(v, "tidy"))'
    BY <1>1, <2>2, <2>3
  <2> QED
    BY <2>2, <2>3 DEF Control, RollbackAgrees
<1>4. RowsAgree'
  BY <1>2 DEF Control, RowsAgree, State, Running
<1> QED
  BY <1>1, <1>3, <1>4 DEF Control

\* What the writers did stays, but more of it may be overlooked.
Overlooks ==
    UNCHANGED <<computing, open, next, acked, traceless>> /\ overlooked \subseteq overlooked'

\* A job becomes active that was already, or alone, or is asked to end.
LEMMA ActiveStep ==
    ASSUME ActiveAlone, NEW J \in JobIds, \A i \in JobIds : Asked(i) => Asked(i)',
           \A i \in JobIds \ {J} : State(i)' = State(i),
           State(J)' \in Active =>
             \/ State(J)' \in Indexed /\ (State(J) \in Active \/ Asked(J))
             \/ \A i \in JobIds \ {J} : State(i) \notin Active
    PROVE  ActiveAlone'
<1>1. ASSUME NEW i \in JobIds \ {J}, State(i)' \in Active, State(J)' \in Active
      PROVE  \E k \in {i, J} : Asked(k)' /\ State(k)' \in Indexed
  BY <1>1 DEF ActiveAlone
<1>2. ASSUME NEW a \in JobIds, NEW b \in JobIds, a # b, State(a)' \in Active, State(b)' \in Active
      PROVE  \E k \in {a, b} : Asked(k)' /\ State(k)' \in Indexed
  <2>1. CASE a = J
    BY <1>1, <1>2, <2>1
  <2>2. CASE b = J
    BY <1>1, <1>2, <2>2
  <2>3. CASE a # J /\ b # J
    BY <1>2, <2>3 DEF ActiveAlone
  <2> QED
    BY <2>1, <2>2, <2>3
<1> QED
  BY <1>2 DEF ActiveAlone

\* A step of a worker up to the switch, or on its way out after a failure: the
\* space is bound to the source, and what is left to show is what the new place
\* of the worker promises.
Inner == PreSwitch \cup {"failing", "cleaning"}
Goals == {"freezing_writes", "copying", "validating", "switching", "succeeded", "failed"}

LEMMA UnboundKeeps ==
    ASSUME IInv, TypeOK', Grounded', Hypotheses, NEW w \in Workers, NEW J \in JobIds, Job(w) = J,
           worker[w].at \in Inner, worker'[w].at \in Inner \cup {"tidy", "idle"},
           Job(w)' \in {J, 0},
           worker'[w].at \in PreSwitch => worker[w].at \in PreSwitch /\ Job(w)' = J,
           UNCHANGED <<rollback, bound, source, cancelVars>>, Overlooks,
           UNCHANGED job \/ \E s \in Goals : job' = [job EXCEPT ![J].state = s],
           State(J) = "validating" => State(J)' \in Over,
           State(J) = "switching" => State(J)' \in {"switching", "failed"},
           State(J) = "failed" => State(J)' = "failed",
           ~HasSwitched(J)', PlaceAgrees(w)',
           Data /\ ~Spoilt' => TargetQuiet(w)' /\ TargetVerified(w)' /\ SourceStill(w)'
    PROVE  IInv'
<1>1. JobsTyped /\ WorkersTyped /\ RollbackTyped /\ DataTyped /\ MaxJobs \in Nat
  BY Parts, MigrationAssumption DEF IInv, AllTyped
<1>2. ~At(w, "idle") /\ ~At(w, "tidy")
  BY DEF At, Inner, PreSwitch
<1>3. \A v \in Workers : v = w
  BY DEF Hypotheses
<1>4. State(J) \in Running \cup {"validating", "switching", "failed"}
  BY DEF IInv, Control, PlaceAgrees, Inner, PreSwitch, Early, Running
<1>5. /\ \A i \in JobIds \ {J} : job'[i] = job[i]
      /\ job'[J].switch = job[J].switch
      /\ State(J)' = State(J) \/ State(J)' \in Goals
  BY <1>1 DEF JobsTyped, State
<1>6. Control'
  <2>1. bound' # 0 => State(bound)' \in Settled
    <3>1. State(J) \in Settled => State(J)' \in Settled
      BY <1>4, <1>5 DEF Settled, Over, Goals, Running
    <3> QED
      BY <1>1, <1>5, <3>1 DEF IInv, Control, RowsAgree, State, DataTyped, JobIds
  <2>2. State(J)' # "none" /\ (State(J)' = "canceled" => State(J) = "canceled")
    BY <1>4, <1>5 DEF Goals, Running
  <2> QED
    BY <1>1, <1>2, <1>5, <2>1, <2>2, ControlStep DEF IInv, cancelVars
<1>7. Spoilt => Spoilt'
  <2>1. \A i \in JobIds : State(i) \in Over => State(i)' \in Over
    BY <1>4, <1>5 DEF State, Over, Running
  <2> QED
    BY <2>1 DEF Spoilt, Asked, cancelVars
<1>8. ASSUME Data, ~Spoilt' PROVE Data'
  <2>1. bound = 0
    BY <1>2, <1>8 DEF Data, BinderAlone, Inner, PreSwitch, At
  <2>2. SpaceKept'
    BY <1>8, <2>1 DEF Data, SpaceKept, Unseen, Overlooks
  <2>3. BinderAlone'
    <3>1. ~At(w, "bound")'
      BY DEF At, Inner, PreSwitch
    <3>2. \A i \in JobIds : ~HasSwitched(i)'
      BY <1>1, <1>5, <1>8, <2>1 DEF Data, BinderAlone, HasSwitched, State, JobIds
    <3> QED
      BY <1>3, <2>1, <3>1, <3>2 DEF BinderAlone
  <2>4. RollbackKept'
    BY <1>1, <1>8, <2>1 DEF Data, RollbackKept, RollbackTyped
  <2>5. WorkerAlone(w)'
    <3>1. CASE worker'[w].at \in PreSwitch /\ ~Asked(J)'
      BY <1>5, <1>8, <2>1, <3>1 DEF Data, WorkerAlone, Asked, State, cancelVars
    <3>2. CASE ~(worker'[w].at \in PreSwitch /\ ~Asked(J)')
      BY <3>2 DEF WorkerAlone, Asked
    <3> QED
      BY <3>1, <3>2
  <2>6. ActiveAlone'
    <3>1. State(J)' \in Active => State(J)' \in Indexed /\ (State(J) \in Active \/ Asked(J))
      BY <1>4, <1>5 DEF IInv, Control, RowsAgree, Asked, Goals, Running, Active, Indexed, Over
    <3>2. \A i \in JobIds : Asked(i) => Asked(i)'
      BY DEF Asked, cancelVars
    <3>3. \A i \in JobIds \ {J} : State(i)' = State(i)
      BY <1>5 DEF State
    <3> QED
      BY <1>8, <3>1, <3>2, <3>3, ActiveStep DEF Data
  <2> QED
    BY <1>3, <1>8, <2>2, <2>3, <2>4, <2>5, <2>6 DEF Data
<1> QED
  BY <1>6, <1>7, <1>8 DEF IInv

LEMMA EarlySteps ==
    ASSUME IInv, TypeOK', Grounded', Hypotheses, NEW w \in Workers,
           \/ Prepare(w) \/ CloseInitialGate(w) \/ OpenSnapshot(w) \/ InstallCapture(w)
           \/ OpenInitialGate(w) \/ StartCopy(w) \/ FinishCopy(w) \/ CatchUp(w)
           \/ CloseFinalGate(w) \/ PauseSource(w) \/ Drain(w) \/ CutOver(w)
    PROVE  IInv'
<1>1. JobsTyped /\ WorkersTyped /\ WritersTyped /\ MaxJobs \in Nat
  BY Parts, MigrationAssumption DEF IInv, AllTyped
<1>2. worker[w].at \in Early
  BY DEF Prepare, CloseInitialGate, OpenSnapshot, InstallCapture, OpenInitialGate, StartCopy,
      FinishCopy, CatchUp, CloseFinalGate, PauseSource, Drain, CutOver, At, Early, PreSwitch
<1>3. Job(w) \in JobIds
  <2>1. ~At(w, "idle")
    BY <1>2 DEF At, Early, PreSwitch
  <2> QED
    BY <1>1, <2>1, RunsAJob
<1>4. worker'[w].at \in Early /\ worker'[w].job = worker[w].job
  BY <1>1 DEF Prepare, CloseInitialGate, OpenSnapshot, InstallCapture, OpenInitialGate, StartCopy,
      FinishCopy, CatchUp, CloseFinalGate, PauseSource, Drain, CutOver, Goto, Early, PreSwitch,
      WorkersTyped, Locals
<1>5. UNCHANGED <<rollback, bound, source, verified, writerVars, cancelVars>>
  BY DEF Prepare, CloseInitialGate, OpenSnapshot, InstallCapture, OpenInitialGate, StartCopy,
      FinishCopy, CatchUp, CloseFinalGate, PauseSource, Drain, CutOver, dbVars
<1>6. \/ UNCHANGED job
      \/ \E s \in {"freezing_writes", "copying"} : job' = [job EXCEPT ![Job(w)].state = s]
  BY DEF Prepare, CloseInitialGate, OpenSnapshot, InstallCapture, OpenInitialGate, StartCopy,
      FinishCopy, CatchUp, CloseFinalGate, PauseSource, Drain, CutOver, SetState
<1>0. ASSUME Data PROVE TargetQuiet(w)'
  <2>1. CASE StartCopy(w)
    <3>1. \A x \in open : x.db \in Databases /\ x.db # "target"
      BY <1>1, <2>1 DEF StartCopy, IInv, Grounded, WritersTyped
    <3> QED
      BY <1>5, <3>1 DEF TargetQuiet, Databases, writerVars
  <2>2. CASE ~StartCopy(w)
    <3>1. worker'[w].at \in Copied => worker[w].at \in Copied
      <4>1. CASE OpenSnapshot(w) \/ FinishCopy(w) \/ PauseSource(w)
        BY <1>1, <4>1 DEF Copied, At, OpenSnapshot, FinishCopy, PauseSource, WorkersTyped,
            Locals
      <4>2. CASE \/ Prepare(w) \/ CloseInitialGate(w) \/ InstallCapture(w) \/ OpenInitialGate(w)
                 \/ CatchUp(w) \/ CloseFinalGate(w) \/ Drain(w) \/ CutOver(w)
        BY <1>1, <4>2 DEF Copied, At, Prepare, CloseInitialGate, InstallCapture, OpenInitialGate,
            CatchUp, CloseFinalGate, Drain, CutOver, Goto, WorkersTyped, Locals
      <4> QED
        BY <2>2, <4>1, <4>2
    <3> QED
      BY <1>0, <1>5, <3>1 DEF Data, TargetQuiet, writerVars
  <2> QED
    BY <2>1, <2>2
<1>7. ASSUME Data PROVE TargetQuiet(w)' /\ TargetVerified(w)' /\ SourceStill(w)'
  <2> SUFFICES SourceStill(w)'
    BY <1>0, <1>4, <1>7 DEF TargetVerified, Early
  <2>0. worker[w] \in Locals /\ WorkersTyped
    BY <1>1 DEF WorkersTyped
  <2>1. CASE PauseSource(w)
    <3>1. worker'[w].at = "paused"
      BY <2>0, <2>1 DEF PauseSource, WorkersTyped
    <3>2. pause' # 0
      BY <1>1, <1>3, <2>1 DEF PauseSource, JobIds
    <3> QED
      BY <3>1, <3>2 DEF SourceStill, At, Frozen
  <2>2. CASE Drain(w) \/ CutOver(w)
    <3>1. worker'[w].at \in {"drained", "cutOver"} /\ worker'[w].job = worker[w].job
      BY <2>0, <2>2 DEF Drain, CutOver, Goto, WorkersTyped, Locals
    <3>2. UNCHANGED <<job, pause, computing, canceling, canceled>>
      BY <2>2 DEF Drain, CutOver, dbVars, writerVars, cancelVars
    <3>3. job[Job(w)].switch /\ ~Asked(Job(w)) =>
            (pause # 0 /\ "source" \notin computing) \/ ResumedLate
      BY <1>7, <2>2 DEF Data, SourceStill, Drain, CutOver, At, Frozen, ResumedLate
    <3> QED
      BY <3>1, <3>2, <3>3 DEF SourceStill, At, Job, Asked, ResumedLate, State
  <2>3. CASE CatchUp(w)
    <3>1. CASE job[Job(w)].switch
      <4>1. worker'[w].at = "caughtUp"
        BY <2>0, <2>3, <3>1 DEF CatchUp, Goto, WorkersTyped
      <4> QED
        BY <4>1 DEF SourceStill, Frozen
    <3>2. CASE ~job[Job(w)].switch
      <4>1. worker'[w].job = worker[w].job /\ UNCHANGED job
        BY <1>4, <2>3 DEF CatchUp
      <4> QED
        BY <3>2, <4>1 DEF SourceStill, Job
    <3> QED
      BY <3>1, <3>2
  <2>4. CASE \/ Prepare(w) \/ CloseInitialGate(w) \/ OpenSnapshot(w) \/ InstallCapture(w)
             \/ OpenInitialGate(w) \/ StartCopy(w) \/ FinishCopy(w) \/ CloseFinalGate(w)
    <3>1. worker'[w].at \in {"ready", "gated", "exported", "captured", "released", "copying",
                              "copied", "frozen"}
      <4>1. CASE OpenSnapshot(w) \/ StartCopy(w) \/ FinishCopy(w)
        BY <2>0, <4>1 DEF OpenSnapshot, StartCopy, FinishCopy, WorkersTyped, Locals
      <4>2. CASE \/ Prepare(w) \/ CloseInitialGate(w) \/ InstallCapture(w)
                 \/ OpenInitialGate(w) \/ CloseFinalGate(w)
        BY <2>0, <4>2 DEF Prepare, CloseInitialGate, InstallCapture, OpenInitialGate,
            CloseFinalGate, Goto, WorkersTyped, Locals
      <4> QED
        BY <2>4, <4>1, <4>2
    <3> QED
      BY <3>1 DEF SourceStill, Frozen
  <2> QED
    BY <2>1, <2>2, <2>3, <2>4
<1> QED
  <2>1. Early \subseteq PreSwitch /\ Early \subseteq Inner /\ Job(w)' = Job(w)
    BY <1>4 DEF Early, Inner, Job
  <2>2. State(Job(w)) \in Running /\ State(Job(w)) \notin {"validating", "switching", "failed"}
    BY <1>2 DEF IInv, Control, PlaceAgrees, Running
  <2>3. job'[Job(w)].state \in Running
    BY <1>1, <1>3, <1>6, <2>2 DEF JobsTyped, State, Running
  <2>4. PlaceAgrees(w)' /\ ~(State(Job(w))' = "succeeded")
    BY <1>4, <2>1, <2>3 DEF PlaceAgrees, At, State, Early, PreSwitch, Running
  <2>5. PICK J \in JobIds : Job(w) = J
    BY <1>3
  <2>6. ~HasSwitched(J)'
    BY <2>1, <2>4, <2>5 DEF HasSwitched, State
  <2>7. UNCHANGED job \/ \E s \in Goals : job' = [job EXCEPT ![J].state = s]
    BY <1>6, <2>5 DEF Goals
  <2>8. /\ worker[w].at \in Inner /\ worker'[w].at \in Inner \cup {"tidy", "idle"}
        /\ worker[w].at \in PreSwitch /\ Job(w)' = J
    BY <1>2, <1>4, <2>1, <2>5
  <2>9. Overlooks
    BY <1>5 DEF Overlooks, writerVars
  <2> QED
    BY <1>5, <1>7, <2>2, <2>4, <2>5, <2>6, <2>7, <2>8, <2>9, UnboundKeeps

\* The worker gives up, or comes to rest after it did.
LEMMA FailureSteps ==
    ASSUME IInv, TypeOK', Grounded', Hypotheses, NEW w \in Workers,
           \/ SeeCancel(w) \/ Fail(w) \/ Unwind(w) \/ CompleteFailed(w)
           \/ worker[w].at \in Inner /\ Crash(w)
    PROVE  IInv'
<1>1. JobsTyped /\ WorkersTyped /\ MaxJobs \in Nat /\ MaxWrites \in Nat
  BY Parts, MigrationAssumption DEF IInv, AllTyped
<1>2. worker[w].at \in Inner
  <2>1. worker[w].at \in Places
    BY <1>1 DEF WorkersTyped, Locals
  <2>2. Fail(w) => worker[w].at \in PreSwitch
    BY <2>1 DEF Fail, Hypotheses, Places, PostSwitch, Unwinding
  <2> QED
    BY <2>2 DEF SeeCancel, Unwind, CompleteFailed, At, Inner, PreSwitch
<1>3. PICK J \in JobIds : Job(w) = J
  <2>1. ~At(w, "idle")
    BY <1>2 DEF At, Inner, PreSwitch
  <2> QED
    BY <1>1, <2>1, RunsAJob
<1>4. \/ worker'[w].at \in {"failing", "cleaning"} /\ Job(w)' = J
      \/ worker'[w].at = "idle" /\ Job(w)' = 0
  <2>1. CASE SeeCancel(w) \/ Fail(w) \/ Unwind(w)
    BY <1>1, <1>3, <2>1 DEF SeeCancel, Fail, Unwind, Goto, WorkersTyped, Locals, Job
  <2>2. CASE CompleteFailed(w) \/ Crash(w)
    BY <1>1, <2>2, Rests DEF CompleteFailed, Crash, Idle, Job
  <2> QED
    BY <2>1, <2>2
<1>5. UNCHANGED <<rollback, bound, source, writerVars, cancelVars>>
  BY DEF SeeCancel, Fail, Unwind, CompleteFailed, Crash, dbVars
<1>6. UNCHANGED job \/ job' = [job EXCEPT ![J].state = "failed"]
  BY <1>3 DEF SeeCancel, Fail, Unwind, CompleteFailed, Crash
<1>7. State(J) \in Running \cup {"validating", "switching", "failed"}
  BY <1>2, <1>3 DEF IInv, Control, PlaceAgrees, Inner, PreSwitch, Early, Running
<1>8. State(J)' = State(J) \/ State(J)' = "failed"
  BY <1>1, <1>6 DEF JobsTyped, State
<1>9. PlaceAgrees(w)'
  <2>1. worker'[w].at \in {"failing", "cleaning"} => State(J)' # "switching"
    <3>1. CASE worker[w].at = "switching"
      BY <1>1, <1>2, <1>3, <1>4, <3>1 DEF SeeCancel, Fail, Unwind, CompleteFailed, Crash, At, State,
          MarksFailed, JobsTyped, Rest, Idle, WorkersTyped
    <3>2. CASE worker[w].at # "switching"
      <4>1. State(J) # "switching"
        BY <1>2, <1>3, <3>2 DEF IInv, Control, PlaceAgrees, Inner, PreSwitch, Early, Running
      <4> QED
        BY <1>8, <4>1
    <3> QED
      BY <3>1, <3>2
  <2>2. worker'[w].at \in {"failing", "cleaning"} => State(J)' \in Running \cup {"validating", "failed"}
    BY <1>7, <1>8, <2>1
  <2> QED
    BY <1>4, <2>2 DEF PlaceAgrees, At, Early, PreSwitch
<1>10. ~HasSwitched(J)'
  BY <1>7, <1>8 DEF HasSwitched, Running
<1>11. worker'[w].at \notin PreSwitch /\ TargetQuiet(w)' /\ TargetVerified(w)' /\ SourceStill(w)'
  BY <1>4 DEF TargetQuiet, TargetVerified, SourceStill, Copied, Frozen, PreSwitch
<1>12. worker'[w].at \in Inner \cup {"tidy", "idle"} /\ Job(w)' \in {J, 0}
  BY <1>4 DEF Inner
<1>13. UNCHANGED job \/ \E s \in Goals : job' = [job EXCEPT ![J].state = s]
  BY <1>6 DEF Goals
<1>14. /\ State(J) = "validating" => State(J)' \in Over
       /\ State(J) = "switching" => State(J)' \in {"switching", "failed"}
       /\ State(J) = "failed" => State(J)' = "failed"
  BY <1>8 DEF Over
<1>15. Overlooks
  BY <1>5 DEF Overlooks, writerVars
<1> QED
  BY <1>2, <1>3, <1>5, <1>9, <1>10, <1>11, <1>12, <1>13, <1>14, <1>15, UnboundKeeps

\* From validation to the point where the space will be bound, or to the end of
\* a test run.
LEMMA ValidationSteps ==
    ASSUME IInv, TypeOK', Grounded', Hypotheses, NEW w \in Workers,
           \/ BeginValidation(w) \/ EndValidation(w) \/ CompleteTest(w) \/ EnterSwitch(w)
    PROVE  IInv'
<1>1. JobsTyped /\ WorkersTyped /\ DataTyped /\ MaxJobs \in Nat
  BY Parts, MigrationAssumption DEF IInv, AllTyped
<1>2. worker[w].at \in {"cutOver", "validating", "validated"}
  BY DEF BeginValidation, EndValidation, CompleteTest, EnterSwitch, At
<1>3. PICK J \in JobIds : Job(w) = J
  <2>1. ~At(w, "idle")
    BY <1>2 DEF At
  <2> QED
    BY <1>1, <2>1, RunsAJob
<1>4. UNCHANGED <<rollback, bound, source, computing, open, next, acked, traceless, cancelVars>>
      /\ overlooked \subseteq overlooked'
  BY DEF BeginValidation, EndValidation, CompleteTest, EnterSwitch, dbVars, writerVars
<1>13. Overlooks /\ (Data => TargetQuiet(w)')
  BY <1>2, <1>4 DEF Overlooks, Data, TargetQuiet, Copied
<1>5. \A s : job' = [job EXCEPT ![J].state = s] =>
        State(J)' = s /\ job'[J].switch = job[J].switch
  BY <1>1, <1>3 DEF JobsTyped, State
<1>6. /\ State(J) \in Running \cup {"validating"}
      /\ worker[w].at \in {"validating", "validated"} =>
           IF job[J].switch THEN State(J) \in {"freezing_writes", "canceled"}
           ELSE State(J) = "validating"
  BY <1>2, <1>3 DEF IInv, Control, PlaceAgrees, Early, PreSwitch, Running
<1>7. ASSUME NEW p \in {"validating", "validated", "switching", "failing", "tidy"},
             NEW s \in Goals, job' = [job EXCEPT ![J].state = s],
             worker'[w].at = p, worker'[w].job = J,
             \/ p \in {"validating", "validated"} /\ s = ValidationState(J)
             \/ p = "switching" /\ s = "switching" /\ job[J].switch
             \/ p = "failing" /\ s = "failed"
             \/ p = "tidy" /\ s = "succeeded" /\ ~job[J].switch,
             State(J) = "validating" => s \in Over,
             Data /\ ~Spoilt' => TargetVerified(w)' /\ SourceStill(w)'
      PROVE  IInv'
  <2>1. State(J)' = s /\ job'[J].switch = job[J].switch /\ Job(w)' = J
    BY <1>5, <1>7 DEF Job
  <2>2. PlaceAgrees(w)'
    BY <1>7, <2>1 DEF PlaceAgrees, At, Early, PreSwitch, ValidationState
  <2>3. ~HasSwitched(J)'
    BY <1>7, <2>1 DEF HasSwitched, ValidationState
  <2>4. /\ worker[w].at \in Inner /\ worker'[w].at \in Inner \cup {"tidy", "idle"}
        /\ worker[w].at \in PreSwitch
    BY <1>2, <1>7 DEF Inner, PreSwitch
  <2>5. State(J) # "switching" /\ State(J) # "failed"
    BY <1>6 DEF Running
  <2> QED
    BY <1>3, <1>4, <1>7, <1>13, <2>1, <2>2, <2>3, <2>4, <2>5, UnboundKeeps
<1>12. ASSUME Data, NEW s, job' = [job EXCEPT ![J].state = s],
              worker'[w].at \in Frozen, worker'[w].job = J, UNCHANGED <<pause, computing>>,
              worker'[w].at \in {"validated", "switching"} /\ job[J].switch /\ ~Asked(J) =>
                ACopy' \/ ResumedLate
       PROVE  SourceStill(w)'
  <2>1. CASE job[J].switch /\ ~Asked(J)
    <3>1. (pause # 0 /\ "source" \notin computing) \/ ResumedLate
      BY <1>2, <1>3, <1>12, <2>1 DEF Data, SourceStill, Frozen
    <3>2. ResumedLate => ResumedLate'
      BY <1>1, <1>6, <1>12 DEF ResumedLate, State, JobsTyped, Running
    <3> QED
      BY <1>12, <2>1, <3>1, <3>2 DEF SourceStill, At, Frozen
  <2>2. CASE ~(job[J].switch /\ ~Asked(J))
    <3>1. ~(job'[worker'[w].job].switch /\ ~Asked(J)')
      BY <1>4, <1>5, <1>12, <2>2 DEF Asked, cancelVars
    <3> QED
      BY <1>12, <3>1 DEF SourceStill, Job, Asked
  <2> QED
    BY <2>1, <2>2
<1>8. CASE BeginValidation(w)
  <2>1. worker'[w].at = "validating" /\ worker'[w].job = J
    BY <1>1, <1>3, <1>8 DEF BeginValidation, WorkersTyped, Locals, Job
  <2>2. job' = [job EXCEPT ![J].state = ValidationState(J)] /\ ValidationState(J) \in Goals
    BY <1>3, <1>8 DEF BeginValidation, SetState, ValidationState, Goals
  <2>3. State(J) # "validating"
    BY <1>3, <1>8 DEF IInv, Control, PlaceAgrees, BeginValidation, At, Early, PreSwitch, Running
  <2>4. Data => SourceStill(w)'
    BY <1>12, <1>8, <2>1, <2>2 DEF BeginValidation, dbVars, writerVars, Frozen
  <2>5. TargetVerified(w)'
    BY <2>1 DEF TargetVerified
  <2> QED
    BY <1>7, <2>1, <2>2, <2>3, <2>4, <2>5
<1>9. CASE EndValidation(w)
  <2>0. At(w, "validating") /\ UNCHANGED <<target, there, pause, computing, open, acked>>
    BY <1>9 DEF EndValidation, dbVars, writerVars
  <2>1. CASE SetState(J, "failed") /\ Goto(w, "failing")
    <3>1. worker'[w].at = "failing" /\ worker'[w].job = J
      BY <1>1, <1>3, <2>1 DEF Goto, WorkersTyped, Locals, Job
    <3>2. job' = [job EXCEPT ![J].state = "failed"]
      BY <2>1 DEF SetState
    <3>3. TargetVerified(w)' /\ SourceStill(w)'
      BY <3>1 DEF TargetVerified, SourceStill, Frozen
    <3> QED
      BY <1>7, <3>1, <3>2, <3>3 DEF Goals, Over
  <2>2. CASE /\ Matches \/ SourceChanged(w)
             /\ SetState(J, ValidationState(J)) /\ verified' = target /\ Goto(w, "validated")
             /\ job[J].switch => overlooked' = overlooked \cup Unended("source")
    <3>1. worker'[w].at = "validated" /\ worker'[w].job = J
      BY <1>1, <1>3, <2>2 DEF Goto, WorkersTyped, Locals, Job
    <3>2. job' = [job EXCEPT ![J].state = ValidationState(J)] /\ ValidationState(J) \in Goals
      BY <2>2 DEF SetState, ValidationState, Goals
    <3>3. State(J) = "validating" => ValidationState(J) \in Over
      BY <1>3, <1>6, <2>0 DEF At, ValidationState, Over
    <3>4. ASSUME Data, job[J].switch, ~Asked(J)
          PROVE  there /\ target = source /\ acked \ Unseen \subseteq target
      <4>1. there /\ target = source
        BY <1>3, <2>2, <3>4 DEF Matches, SourceChanged
      <4>2. bound = 0
        BY <1>2, <1>3, <3>4 DEF Data, WorkerAlone, PreSwitch
      <4> QED
        BY <3>4, <4>1, <4>2 DEF Data, SpaceKept
    <3>5. ASSUME Data PROVE SourceStill(w)'
      <4>1. job[J].switch /\ ~Asked(J) => ACopy'
        BY <1>4, <2>0, <3>4, <3>5 DEF ACopy
      <4> QED
        BY <1>12, <2>0, <3>1, <3>2, <3>5, <4>1 DEF Frozen
    <3>6. ASSUME Data PROVE TargetVerified(w)'
      <4>1. CASE job[J].switch /\ ~Asked(J)
        <5>1. Unended("source")' \subseteq overlooked'
          BY <2>0, <2>2, <4>1 DEF Unended
        <5> QED
          BY <1>4, <2>0, <2>2, <3>1, <3>4, <3>6, <4>1, <5>1 DEF TargetVerified, Unseen
      <4>2. CASE ~(job[J].switch /\ ~Asked(J))
        BY <1>4, <1>5, <3>1, <3>2, <4>2 DEF TargetVerified, Asked, Job, cancelVars
      <4> QED
        BY <4>1, <4>2
    <3> QED
      BY <1>7, <3>1, <3>2, <3>3, <3>5, <3>6
  <2> QED
    BY <1>3, <1>9, <2>1, <2>2 DEF EndValidation
<1>10. CASE CompleteTest(w)
  <2>1. worker'[w].at = "tidy" /\ worker'[w].job = J /\ ~job[J].switch
    BY <1>1, <1>3, <1>10 DEF CompleteTest, Goto, WorkersTyped, Locals, Job
  <2>2. job' = [job EXCEPT ![J].state = "succeeded"]
    BY <1>3, <1>10 DEF CompleteTest, SetState
  <2>3. TargetVerified(w)' /\ SourceStill(w)'
    BY <2>1 DEF TargetVerified, SourceStill, Frozen
  <2> QED
    BY <1>7, <2>1, <2>2, <2>3 DEF Goals, Over
<1>11. CASE EnterSwitch(w)
  <2>0. /\ worker[w].at = "validated" /\ job[J].switch
        /\ UNCHANGED <<target, there, pause, computing, open, acked, verified, overlooked>>
    BY <1>3, <1>11 DEF EnterSwitch, At, dbVars, writerVars
  <2>1. worker'[w].at = "switching" /\ worker'[w].job = J
    BY <1>1, <1>3, <1>11 DEF EnterSwitch, Goto, WorkersTyped, Locals, Job
  <2>2. job' = [job EXCEPT ![J].state = "switching"]
    BY <1>3, <1>11 DEF EnterSwitch, SetState
  <2>3. ASSUME Data PROVE SourceStill(w)'
    <3>1. ~Asked(J) => ACopy \/ ResumedLate
      BY <1>3, <2>0, <2>3 DEF Data, SourceStill, Frozen
    <3>2. ACopy' <=> ACopy
      BY <1>4, <2>0 DEF ACopy
    <3> QED
      BY <1>12, <2>0, <2>1, <2>2, <2>3, <3>1, <3>2 DEF Frozen
  <2>4. ASSUME Data PROVE TargetVerified(w)'
    <3>1. ~Asked(J) => /\ there /\ acked \ Unseen \subseteq target /\ verified \subseteq source
                       /\ Unended("source") \subseteq overlooked
      BY <1>3, <2>0, <2>4 DEF Data, TargetVerified
    <3>2. Unended("source")' = Unended("source") /\ Unseen' = Unseen
      BY <1>4, <2>0 DEF Unended, Unseen
    <3> QED
      BY <1>4, <2>0, <2>1, <3>1, <3>2 DEF TargetVerified, Job, Asked, cancelVars
  <2> QED
    BY <1>7, <2>0, <2>1, <2>2, <2>3, <2>4 DEF Goals, Over
<1> QED
  BY <1>8, <1>9, <1>10, <1>11

\* Away from the places before the switch a worker promises nothing.
LEMMA PromisesNothing ==
    ASSUME NEW w, worker'[w].at \notin PreSwitch
    PROVE  WorkerAlone(w)' /\ TargetQuiet(w)' /\ TargetVerified(w)' /\ SourceStill(w)'
BY DEF WorkerAlone, TargetQuiet, TargetVerified, SourceStill, Copied, Frozen, PreSwitch

LEMMA BindStep ==
    ASSUME IInv, TypeOK', Grounded', Hypotheses, NEW w \in Workers, Bind(w)
    PROVE  IInv'
<1>1. JobsTyped /\ WorkersTyped /\ RollbackTyped /\ MaxJobs \in Nat
  BY Parts, MigrationAssumption DEF IInv, AllTyped
<1>2. worker[w].at = "switching" /\ ~At(w, "idle") /\ ~At(w, "tidy")
  BY DEF Bind, At
<1>3. PICK J \in JobIds : Job(w) = J
  BY <1>1, <1>2, RunsAJob
<1>4. UNCHANGED <<job, rollback, dbVars, writerVars, verified, cancelVars>> /\ bound' = J
  BY <1>3 DEF Bind
<1>5. worker'[w].at = "bound" /\ Job(w)' = J
  BY <1>1, <1>3 DEF Bind, Goto, WorkersTyped, Locals, Job
<1>6. State(J) = "switching" /\ job[J].switch
  BY <1>2, <1>3 DEF IInv, Control, PlaceAgrees
<1>7. Control'
  <2>1. PlaceAgrees(w)'
    BY <1>4, <1>5, <1>6 DEF PlaceAgrees, At, Early, PreSwitch, State
  <2> QED
    BY <1>1, <1>2, <1>3, <1>4, <1>5, <1>6, <2>1, ControlStep DEF IInv, cancelVars, State, Settled
<1>8. Spoilt => Spoilt'
  BY <1>4 DEF Spoilt, Asked, State, cancelVars
<1>9. ASSUME Data, ~Spoilt' PROVE Data'
  <2>1. ~Asked(J)
    BY <1>6, <1>8, <1>9 DEF Spoilt, Over
  <2>2. bound = 0 /\ \A i \in JobIds \ {J} : State(i) \notin Active
    BY <1>2, <1>3, <1>9, <2>1 DEF Data, WorkerAlone, PreSwitch
  <2>3. /\ there /\ acked \ Unseen \subseteq target /\ verified \subseteq source
        /\ Unended("source") \subseteq overlooked
    BY <1>2, <1>3, <1>6, <1>9, <2>1 DEF Data, TargetVerified
  <2>4. SpaceKept'
    <3>1. \A x \in open : x.db = "source" /\ x.id \in overlooked
      BY <1>2, <1>9, <2>3 DEF Data, TargetQuiet, Copied, Unended
    <3>2. J # 0
      BY <1>1 DEF JobIds
    <3> QED
      BY <1>4, <2>3, <3>1, <3>2 DEF SpaceKept, Unseen, dbVars, writerVars
  <2>5. BinderAlone'
    <3>1. \A i \in JobIds : ~HasSwitched(i)'
      BY <1>1, <1>4, <1>9, <2>2 DEF Data, BinderAlone, HasSwitched, State, JobIds
    <3>2. \A v \in Workers : v = w
      BY DEF Hypotheses
    <3> QED
      BY <1>4, <1>5, <2>2, <3>1, <3>2 DEF BinderAlone, At, State
  <2>6. RollbackKept'
    BY <1>1, <1>4, <1>9, <2>2 DEF Data, RollbackKept, RollbackTyped
  <2>7. ActiveAlone'
    BY <1>4, <1>9 DEF Data, ActiveAlone, State, Asked, cancelVars
  <2>8. \A v \in Workers :
          WorkerAlone(v)' /\ TargetQuiet(v)' /\ TargetVerified(v)' /\ SourceStill(v)'
    BY <1>5, PromisesNothing DEF Hypotheses, PreSwitch
  <2> QED
    BY <2>4, <2>5, <2>6, <2>7, <2>8 DEF Data
<1> QED
  BY <1>7, <1>8, <1>9 DEF IInv

LEMMA FinishSwitchStep ==
    ASSUME IInv, TypeOK', Grounded', Hypotheses, NEW w \in Workers, FinishSwitch(w)
    PROVE  IInv'
<1>1. JobsTyped /\ WorkersTyped /\ RollbackTyped /\ DataTyped /\ MaxJobs \in Nat
  BY Parts, MigrationAssumption DEF IInv, AllTyped
<1>2. worker[w].at = "bound" /\ ~At(w, "idle") /\ ~At(w, "tidy")
  BY DEF FinishSwitch, At
<1>3. PICK J \in JobIds : Job(w) = J
  BY <1>1, <1>2, RunsAJob
<1>4. /\ UNCHANGED <<rollback, bound, source, target, there, writerVars, verified, cancelVars>>
      /\ job' = [job EXCEPT ![J].state = "succeeded"]
  BY <1>3 DEF FinishSwitch, SetState
<1>5. worker'[w].at = "tidy" /\ Job(w)' = J
  BY <1>1, <1>3 DEF FinishSwitch, Goto, WorkersTyped, Locals, Job
<1>6. /\ \A i \in JobIds \ {J} : job'[i] = job[i]
      /\ State(J) = "switching" /\ State(J)' = "succeeded"
  <2>1. State(J) = "switching"
    BY <1>2, <1>3 DEF IInv, Control, PlaceAgrees
  <2> QED
    BY <1>1, <1>4, <2>1 DEF JobsTyped, State
<1>7. Control'
  <2>1. PlaceAgrees(w)'
    BY <1>5 DEF PlaceAgrees, At, Early, PreSwitch
  <2>2. bound' # 0 => State(bound)' \in Settled
    BY <1>1, <1>4, <1>6 DEF IInv, Control, RowsAgree, DataTyped, JobIds, State, Settled
  <2> QED
    BY <1>1, <1>2, <1>3, <1>4, <1>5, <1>6, <2>1, <2>2, ControlStep DEF IInv, cancelVars
<1>8. Spoilt => Spoilt'
  BY <1>4, <1>6 DEF Spoilt, Asked, State, cancelVars, Over
<1>9. ASSUME Data PROVE Data'
  <2>1. bound = J
    BY <1>2, <1>3, <1>9 DEF Data, BinderAlone, At
  <2>2. SpaceKept' /\ RollbackKept'
    BY <1>4, <1>9 DEF Data, SpaceKept, RollbackKept, Unseen, Unended, writerVars
  <2>3. BinderAlone'
    <3>1. \A i \in JobIds \ {J} : ~HasSwitched(i)' /\ State(i)' \notin Active
      <4>1. \A i \in JobIds \ {J} : State(i)' = State(i) /\ HasSwitched(i)' = HasSwitched(i)
        BY <1>6 DEF HasSwitched, State
      <4>2. J # 0
        BY <1>1, <1>3 DEF JobIds
      <4> QED
        BY <1>9, <2>1, <4>1, <4>2 DEF Data, BinderAlone
    <3>2. \A v \in Workers : v = w
      BY DEF Hypotheses
    <3> QED
      BY <1>4, <1>5, <2>1, <3>1, <3>2 DEF BinderAlone, At
  <2>4. ActiveAlone'
    BY <1>4, <1>6, <1>9, ActiveStep DEF Data, State, Asked, cancelVars, Active
  <2>5. \A v \in Workers :
          WorkerAlone(v)' /\ TargetQuiet(v)' /\ TargetVerified(v)' /\ SourceStill(v)'
    BY <1>5, PromisesNothing DEF Hypotheses, PreSwitch
  <2> QED
    BY <2>2, <2>3, <2>4, <2>5 DEF Data
<1> QED
  BY <1>7, <1>8, <1>9 DEF IInv

\* The worker tidies up, mends what a stale job left, or is killed on the way.
LEMMA RestSteps ==
    ASSUME IInv, TypeOK', Grounded', Hypotheses, NEW w \in Workers,
           \/ Tidy(w) \/ Mend(w)
           \/ worker[w].at \in {"bound", "tidy", "mending"} /\ Crash(w)
    PROVE  IInv'
<1>1. WorkersTyped /\ RollbackTyped /\ MaxJobs \in Nat /\ MaxWrites \in Nat
  BY Parts, MigrationAssumption DEF IInv, AllTyped
<1>2. worker'[w].at = "idle" /\ Job(w)' = 0
  BY <1>1, Rests DEF Tidy, Mend, Crash, Idle, Job
<1>3. \A v \in Workers : v = w
  BY DEF Hypotheses
<1>4. UNCHANGED <<job, rollback, bound, source, verified, writerVars, cancelVars>>
  BY DEF Tidy, Mend, Crash, dbVars
<1>5. Control'
  <2>1. PlaceAgrees(w)'
    BY <1>2 DEF PlaceAgrees, At, Early, PreSwitch
  <2>2. RollbackAgrees'
    BY <1>1, <1>2, <1>3, <1>4 DEF IInv, Control, RollbackAgrees, RollbackTyped, State
  <2>3. RowsAgree'
    BY <1>4 DEF IInv, Control, RowsAgree, State, cancelVars
  <2> QED
    BY <1>3, <2>1, <2>2, <2>3 DEF Control
<1>6. Spoilt' <=> Spoilt
  BY <1>4 DEF Spoilt, Asked, State, cancelVars
<1>7. ASSUME Data PROVE Data'
  <2>1. bound # 0 => UNCHANGED <<target, there>>
    BY <1>7 DEF Data, BinderAlone, Tidy, Mend, Crash, At, dbVars
  <2>2. SpaceKept'
    BY <1>4, <1>7, <2>1 DEF Data, SpaceKept, Unseen, writerVars
  <2>3. BinderAlone'
    BY <1>2, <1>3, <1>4, <1>7 DEF Data, BinderAlone, At, HasSwitched, State
  <2>4. RollbackKept'
    BY <1>1, <1>4, <1>7, <2>1 DEF Data, RollbackKept, RollbackTyped, Unseen, Unended, writerVars
  <2>5. ActiveAlone'
    BY <1>4, <1>7 DEF Data, ActiveAlone, State, Asked, cancelVars
  <2>6. \A v \in Workers :
          WorkerAlone(v)' /\ TargetQuiet(v)' /\ TargetVerified(v)' /\ SourceStill(v)'
    BY <1>2, <1>3, PromisesNothing DEF PreSwitch
  <2> QED
    BY <2>2, <2>3, <2>4, <2>5, <2>6 DEF Data
<1> QED
  BY <1>5, <1>6, <1>7 DEF IInv

LEMMA ClaimStep ==
    ASSUME IInv, TypeOK', Grounded', Hypotheses, NEW w \in Workers, Claim(w)
    PROVE  IInv'
<1>1. JobsTyped /\ WorkersTyped /\ RollbackTyped /\ DataTyped /\ MaxJobs \in Nat
  BY Parts, MigrationAssumption DEF IInv, AllTyped
<1>2. PICK J \in JobIds :
         /\ State(J) = "waiting_worker" /\ MayHold(J, "preflight")
         /\ job' = [job EXCEPT ![J].state = "preflight"]
         /\ worker' = [worker EXCEPT ![w] = [Idle EXCEPT !.at = "claimed", !.job = J]]
  BY DEF Claim, SetState
<1>3. worker'[w].at = "claimed" /\ Job(w)' = J
  BY <1>1, <1>2 DEF WorkersTyped, Idle, Job
<1>4. UNCHANGED <<rollback, bound, dbVars, writerVars, verified, cancelVars>>
  BY DEF Claim
<1>5. /\ \A i \in JobIds \ {J} : job'[i] = job[i]
      /\ State(J)' = "preflight"
      /\ \A v \in Workers : v = w
  BY <1>1, <1>2 DEF JobsTyped, State, Hypotheses
<1>6. Control'
  <2>1. PlaceAgrees(w)'
    BY <1>3, <1>5 DEF PlaceAgrees, At, Early, PreSwitch, Running
  <2>2. RollbackAgrees'
    <3>1. rollback.at # "idle" => rollback.job \in JobIds /\ rollback.job # J
      BY <1>1, <1>2 DEF IInv, Control, RollbackAgrees, RollbackTyped, RollbackPoints, JobIds
    <3> QED
      BY <1>3, <1>4, <1>5, <3>1 DEF IInv, Control, RollbackAgrees, State
  <2>3. RowsAgree'
    BY <1>1, <1>2, <1>4, <1>5 DEF IInv, Control, RowsAgree, State, cancelVars, Settled, DataTyped,
        JobIds
  <2> QED
    BY <1>5, <2>1, <2>2, <2>3 DEF Control
<1>7. Spoilt => Spoilt'
  BY <1>2, <1>4, <1>5 DEF Spoilt, Asked, State, cancelVars, Over
<1>8. ASSUME Data PROVE Data'
  <2>1. bound = 0
    BY <1>1, <1>2, <1>8 DEF IInv, Control, RowsAgree, Data, BinderAlone, Active, Settled
  <2>2. SpaceKept' /\ RollbackKept'
    BY <1>1, <1>4, <1>8, <2>1 DEF Data, SpaceKept, RollbackKept, Unseen, Unended, RollbackTyped,
        writerVars, dbVars
  <2>3. BinderAlone'
    BY <1>1, <1>3, <1>4, <1>5, <1>8, <2>1 DEF Data, BinderAlone, At, HasSwitched, State, JobIds
  <2>4. WorkerAlone(w)'
    <3>1. ASSUME ~Asked(J), NEW i \in JobIds \ {J} PROVE State(i) \notin Active
      BY <1>2, <1>8, <3>1 DEF Data, ActiveAlone, MayHold, Active, Indexed
    <3> QED
      BY <1>3, <1>4, <1>5, <2>1, <3>1 DEF WorkerAlone, State, Asked, cancelVars
  <2>5. ActiveAlone'
    BY <1>2, <1>4, <1>5, <1>8, ActiveStep DEF Data, State, Asked, cancelVars, Active, Indexed
  <2>6. TargetQuiet(w)' /\ TargetVerified(w)' /\ SourceStill(w)'
    BY <1>3 DEF TargetQuiet, TargetVerified, SourceStill, Copied, Frozen
  <2> QED
    BY <1>5, <2>2, <2>3, <2>4, <2>5, <2>6 DEF Data
<1> QED
  BY <1>6, <1>7, <1>8 DEF IInv

LEMMA RecoverStep ==
    ASSUME IInv, TypeOK', Grounded', Hypotheses, NEW w \in Workers, NEW J \in JobIds,
           RecoverStale(w, J)
    PROVE  IInv'
<1>1. JobsTyped /\ WorkersTyped /\ RollbackTyped /\ DataTyped /\ MaxJobs \in Nat
  BY Parts, MigrationAssumption DEF IInv, AllTyped
<1>2. State(J) \in Indexed /\ rollback.job # J
  BY DEF RecoverStale, LooksStale, Hypotheses
<1>3. /\ worker'[w].at = "mending" /\ Job(w)' = J
      /\ worker'[w].artifacts = MayHaveArtifacts(J)
  BY <1>1 DEF RecoverStale, WorkersTyped, Idle, Job
<1>4. UNCHANGED <<rollback, bound, dbVars, writerVars, verified, cancelVars>>
  BY DEF RecoverStale
<1>5. /\ \A i \in JobIds \ {J} : job'[i] = job[i]
      /\ State(J)' = "failed"
      /\ \A v \in Workers : v = w
  BY <1>1 DEF JobsTyped, State, Hypotheses, RecoverStale
<1>6. Control'
  <2>1. PlaceAgrees(w)'
    BY <1>3, <1>5 DEF PlaceAgrees, At, Early, PreSwitch
  <2>2. RollbackAgrees'
    <3>1. rollback.at # "idle" => rollback.job \in JobIds
      BY <1>1 DEF RollbackTyped, JobIds
    <3> QED
      BY <1>1, <1>2, <1>3, <1>4, <1>5, <3>1
      DEF IInv, Control, RollbackAgrees, State
  <2>3. RowsAgree'
    BY <1>1, <1>2, <1>4, <1>5 DEF IInv, Control, RowsAgree, State, cancelVars, Settled, DataTyped,
        JobIds, Indexed, Active
  <2> QED
    BY <1>5, <2>1, <2>2, <2>3 DEF Control
<1>7. Spoilt => Spoilt'
  BY <1>4, <1>5 DEF Spoilt, Asked, State, cancelVars, Over
<1>8. ASSUME Data PROVE Data'
  <2>1. bound # 0 => J = bound /\ ~MayHaveArtifacts(J)
    BY <1>1, <1>2, <1>8 DEF IInv, Control, RowsAgree, Data, BinderAlone, Indexed, Settled,
        MayHaveArtifacts
  <2>2. SpaceKept' /\ RollbackKept'
    BY <1>4, <1>8 DEF Data, SpaceKept, RollbackKept, Unseen, Unended, writerVars, dbVars
  <2>3. BinderAlone'
    <3>1. \A i \in JobIds : HasSwitched(i)' => HasSwitched(i)
      BY <1>5 DEF HasSwitched, State
    <3>2. \A i \in JobIds : State(i)' \in Active => State(i) \in Active
      BY <1>5 DEF State, Active
    <3> QED
      BY <1>3, <1>4, <1>5, <1>8, <2>1, <3>1, <3>2 DEF Data, BinderAlone, At
  <2>4. ActiveAlone'
    BY <1>4, <1>5, <1>8, ActiveStep DEF Data, State, Asked, cancelVars, Active
  <2>5. \A v \in Workers :
          WorkerAlone(v)' /\ TargetQuiet(v)' /\ TargetVerified(v)' /\ SourceStill(v)'
    BY <1>3, <1>5, PromisesNothing DEF PreSwitch
  <2> QED
    BY <2>2, <2>3, <2>4, <2>5 DEF Data
<1> QED
  BY <1>6, <1>7, <1>8 DEF IInv

\* A step that touches neither a row nor a process keeps Control.
LEMMA ControlSame ==
    ASSUME Control, UNCHANGED <<job, worker, rollback, bound, canceled>>
    PROVE  Control'
<1>1. \A v \in Workers : PlaceAgrees(v)'
  BY DEF Control, PlaceAgrees, At, Job, State
<1>2. RollbackAgrees' /\ RowsAgree'
  BY DEF Control, RollbackAgrees, RowsAgree, At, Job, State
<1> QED
  BY <1>1, <1>2 DEF Control

\* A step of a writer leaves the rows and the processes alone.
LEMMA WriterFrame ==
    ASSUME \/ Admit \/ (\E x \in open : Commit(x))
           \/ \E db \in Databases : StartComputing(db) \/ FinishComputing(db)
    PROVE  UNCHANGED <<job, worker, rollback, bound, verified, there, pause, overlooked,
                       canceling, canceled>>
BY DEF Admit, Commit, StartComputing, FinishComputing, dbVars, cancelVars

\* What a write that ends, or a computed task, does to the databases: each gains what
\* was open there, and what it gains else is a write of a task.
LEMMA WriterGains ==
    ASSUME WritersTyped,
           \/ (\E x \in open : Commit(x))
           \/ \E db \in Databases : StartComputing(db) \/ FinishComputing(db)
    PROVE  /\ open' \subseteq open /\ traceless \subseteq traceless'
           /\ source \subseteq source' /\ target \subseteq target'
           /\ \A n \in target' \ target : n \in Unended("target") \cup traceless'
           /\ "source" \notin computing => source' \ source \subseteq Unended("source")
           /\ \A n \in acked' \ acked : \E x \in open :
                x.id = n /\ n \in IF x.db = "source" THEN source' ELSE target'
<1>1. ASSUME NEW x \in open, Commit(x)
      PROVE  /\ open' \subseteq open /\ traceless \subseteq traceless'
             /\ source \subseteq source' /\ target \subseteq target'
             /\ target' \ target \subseteq Unended("target")
             /\ source' \ source \subseteq Unended("source")
             /\ acked' = acked \cup {x.id}
             /\ x.id \in IF x.db = "source" THEN source' ELSE target'
  BY <1>1 DEF Commit, Unended
<1>2. ASSUME NEW db \in Databases, StartComputing(db) \/ FinishComputing(db)
      PROVE  /\ open' = open /\ traceless \subseteq traceless' /\ acked' = acked
             /\ source \subseteq source' /\ target \subseteq target'
             /\ target' \ target \subseteq traceless'
             /\ "source" \notin computing => source' = source
  BY <1>2 DEF StartComputing, FinishComputing, dbVars
<1>3. CASE \E x \in open : Commit(x)
  BY <1>1, <1>3
<1>4. CASE \E db \in Databases : StartComputing(db) \/ FinishComputing(db)
  BY <1>2, <1>4
<1> QED
  BY <1>3, <1>4

\* The steps of the writers of the space.
LEMMA WriterSteps ==
    ASSUME IInv, TypeOK', Grounded', Hypotheses,
           \/ Admit \/ (\E x \in open : Commit(x))
           \/ \E db \in Databases : StartComputing(db) \/ FinishComputing(db)
    PROVE  IInv'
<1> DEFINE Ends == \/ (\E x \in open : Commit(x))
                   \/ \E db \in Databases : StartComputing(db) \/ FinishComputing(db)
<1>0. Admit \/ Ends
  OBVIOUS
<1>1. UNCHANGED <<job, worker, rollback, bound, verified, there, pause, overlooked, canceling,
                  canceled>>
  BY WriterFrame
<1>9. WorkersTyped /\ WritersTyped
  BY Parts DEF IInv, AllTyped
<1>5. Ends => /\ open' \subseteq open /\ traceless \subseteq traceless'
              /\ source \subseteq source' /\ target \subseteq target'
              /\ \A n \in target' \ target : n \in Unended("target") \cup traceless'
              /\ "source" \notin computing => source' \ source \subseteq Unended("source")
              /\ \A n \in acked' \ acked : \E x \in open :
                   x.id = n /\ n \in IF x.db = "source" THEN source' ELSE target'
  BY <1>9, WriterGains
<1>6. Admit =>
        /\ UNCHANGED <<source, target, computing, acked, traceless>>
        /\ open' = open \cup {[id |-> next, db |-> IF bound = 0 THEN "source" ELSE "target"]}
  BY DEF Admit
<1> HIDE DEF Ends
<1>2. Control'
  BY <1>1, ControlSame DEF IInv
<1>3. Spoilt' <=> Spoilt
  BY <1>1 DEF Spoilt, Asked, State
<1>7. ResumedLate' <=> ResumedLate
  BY <1>1 DEF ResumedLate, State
<1>4. ASSUME Data PROVE Data'
  <2>1. BinderAlone' /\ ActiveAlone' /\ \A v \in Workers : WorkerAlone(v)'
    <3>1. BinderAlone'
      BY <1>1, <1>4 DEF Data, BinderAlone, At, Job, State, HasSwitched
    <3>2. ActiveAlone' /\ \A v \in Workers : WorkerAlone(v)'
      BY <1>1, <1>4 DEF Data, ActiveAlone, WorkerAlone, At, Job, State, Asked
    <3> QED
      BY <3>1, <3>2
  <2>2. rollback.at = "restore" => ~Admit
    <3>1. rollback.at = "restore" => State(rollback.job) = "switching" /\ rollback.job \in JobIds
      BY Parts, MigrationAssumption
      DEF IInv, AllTyped, RollbackTyped, Control, RollbackAgrees, JobIds
    <3> QED
      BY <3>1 DEF Admit, Gated, WriteBlocking
  <2>3. ASSUME NEW v \in Workers, worker[v].at \in {"validated", "switching"},
               job[Job(v)].switch, ~Asked(Job(v))
        PROVE  ~Admit
    <3>1. Job(v) \in JobIds
      BY <2>3, Parts, RunsAJob, MigrationAssumption DEF IInv, AllTyped, At
    <3>2. State(Job(v)) \in {"freezing_writes", "switching"}
      BY <2>3, <3>1 DEF IInv, Control, PlaceAgrees, RowsAgree, Asked
    <3> QED
      BY <3>1, <3>2 DEF Admit, Gated, WriteBlocking
  <2>4. SpaceKept'
    <3>1. CASE Admit
      BY <1>1, <1>4, <1>6, <3>1 DEF Data, SpaceKept, Unseen
    <3>2. CASE Ends
      <4>1. acked' \ Unseen' \subseteq IF bound = 0 THEN source' ELSE target'
        <5>1. ASSUME NEW n \in acked' \ acked, n \notin Unseen'
              PROVE  n \in IF bound = 0 THEN source' ELSE target'
          <6>1. PICK x \in open : x.id = n /\ n \in IF x.db = "source" THEN source' ELSE target'
            BY <1>5, <3>2, <5>1
          <6>2. x.db = IF bound = 0 THEN "source" ELSE "target"
            BY <1>1, <1>4, <5>1, <6>1 DEF Data, SpaceKept, Unseen
          <6> QED
            BY <6>1, <6>2
        <5>2. Unseen \subseteq Unseen'
          BY <1>1, <1>5, <3>2 DEF Unseen
        <5> QED
          BY <1>4, <1>5, <3>2, <5>1, <5>2 DEF Data, SpaceKept
      <4> QED
        BY <1>1, <1>4, <1>5, <3>2, <4>1 DEF Data, SpaceKept
    <3> QED
      BY <1>0, <3>1, <3>2
  <2>5. RollbackKept'
    <3>1. ASSUME rollback.at = "restore"
          PROVE  target' \ source' \subseteq Unseen' /\ Unended("target")' \subseteq overlooked'
      <4>1. Ends
        BY <1>0, <2>2, <3>1
      <4>2. target \ source \subseteq Unseen /\ Unended("target") \subseteq overlooked
        BY <1>4, <3>1 DEF Data, RollbackKept
      <4>3. Unended("target")' \subseteq Unended("target")
        BY <1>5, <4>1 DEF Unended
      <4> QED
        BY <1>1, <1>5, <4>1, <4>2, <4>3 DEF Unseen
    <3> QED
      BY <1>1, <1>4, <3>1 DEF Data, RollbackKept
  <2>6. ASSUME NEW v \in Workers PROVE TargetQuiet(v)'
    <3>1. CASE worker[v].at \in Copied
      <4>1. bound = 0
        BY <1>4, <3>1 DEF Data, BinderAlone, Copied, At
      <4>2. \A x \in open : x.db = "source"
        BY <1>4, <2>6, <3>1 DEF Data, TargetQuiet
      <4> QED
        BY <1>0, <1>5, <1>6, <4>1, <4>2 DEF TargetQuiet
    <3>2. CASE worker[v].at \notin Copied
      BY <1>1, <3>2 DEF TargetQuiet
    <3> QED
      BY <3>1, <3>2
  <2>7. ASSUME NEW v \in Workers, worker[v].at \in {"validated", "switching"}, job[Job(v)].switch,
               ~Asked(Job(v))
        PROVE  /\ Ends /\ Unended("target") = {}
               /\ there /\ acked \ Unseen \subseteq target /\ verified \subseteq source
               /\ Unended("source") \subseteq overlooked
    BY <1>0, <1>4, <2>3, <2>7 DEF Data, TargetQuiet, TargetVerified, Copied, Unended
  <2>8. ASSUME NEW v \in Workers PROVE TargetVerified(v)'
    <3>1. CASE worker[v].at \in {"validated", "switching"} /\ job[Job(v)].switch /\ ~Asked(Job(v))
      <4>1. Unended("source")' \subseteq overlooked'
        BY <1>1, <1>5, <2>7, <3>1 DEF Unended
      <4>2. acked' \ Unseen' \subseteq target'
        <5>1. ASSUME NEW n \in acked' \ acked PROVE n \in Unseen'
          <6>1. PICK x \in open : x.id = n
            BY <1>5, <2>7, <3>1, <5>1
          <6>2. x.db = "source"
            BY <1>4, <3>1 DEF Data, TargetQuiet, Copied
          <6> QED
            BY <1>1, <2>7, <3>1, <6>1, <6>2 DEF Unended, Unseen
        <5>2. Unseen \subseteq Unseen'
          BY <1>1, <1>5, <2>7, <3>1 DEF Unseen
        <5> QED
          BY <1>5, <2>7, <3>1, <5>1, <5>2
      <4> QED
        BY <1>1, <1>5, <2>7, <3>1, <4>1, <4>2 DEF TargetVerified
    <3>2. CASE ~(worker[v].at \in {"validated", "switching"} /\ job[Job(v)].switch /\ ~Asked(Job(v)))
      BY <1>1, <3>2 DEF TargetVerified, Job, Asked
    <3> QED
      BY <3>1, <3>2
  <2>9. ASSUME NEW v \in Workers PROVE SourceStill(v)'
    <3>2. CASE ~ResumedLate /\ worker[v].at \in Frozen /\ job[Job(v)].switch /\ ~Asked(Job(v))
      <4>1. pause # 0 /\ "source" \notin computing
        BY <1>4, <2>9, <3>2 DEF Data, SourceStill
      <4>2. "source" \notin computing'
        BY <4>1 DEF Admit, Commit, StartComputing, FinishComputing
      <4>3. worker[v].at \in {"validated", "switching"} => ACopy'
        <5>1. SUFFICES ASSUME worker[v].at \in {"validated", "switching"} PROVE ACopy'
          OBVIOUS
        <5>2. ACopy
          BY <1>4, <2>9, <3>2, <5>1 DEF Data, SourceStill
        <5>3. /\ source' \ source \subseteq overlooked /\ target' \ target \subseteq traceless'
              /\ target \subseteq target' /\ source \subseteq source' /\ traceless \subseteq traceless'
          BY <1>5, <2>7, <3>2, <4>1, <5>1
        <5> QED
          BY <1>1, <5>2, <5>3 DEF ACopy
      <4> QED
        BY <1>1, <4>1, <4>2, <4>3 DEF SourceStill, At, Frozen
    <3>3. CASE ~ResumedLate /\ At(v, "paused") /\ job[Job(v)].switch /\ ~Asked(Job(v))
      BY <1>1, <1>4, <2>9, <3>3 DEF Data, SourceStill, At, Frozen
    <3>4. CASE ResumedLate
      BY <1>7, <3>4 DEF SourceStill
    <3>5. CASE ~(worker[v].at \in Frozen \cup {"paused"} /\ job[Job(v)].switch /\ ~Asked(Job(v)))
      BY <1>1, <3>5 DEF SourceStill, Job, Asked
    <3> QED
      BY <3>2, <3>3, <3>4, <3>5 DEF At
  <2> QED
    BY <2>1, <2>4, <2>5, <2>6, <2>8, <2>9 DEF Data
<1> QED
  BY <1>2, <1>3, <1>4 DEF IInv

LEMMA StartStep ==
    ASSUME IInv, TypeOK', Grounded', Hypotheses, NEW J \in JobIds, NEW switch \in BOOLEAN,
           Start(J, switch)
    PROVE  IInv'
<1>1. JobsTyped /\ WorkersTyped /\ RollbackTyped /\ MaxJobs \in Nat
  BY Parts, MigrationAssumption DEF IInv, AllTyped
<1>2. /\ bound = 0 /\ State(J) = "none"
      /\ UNCHANGED <<worker, rollback, bound, source, pause, writerVars, verified, cancelVars>>
  BY DEF Start
<1>3. \A i \in JobIds \ {J} : job'[i] = job[i] /\ State(i) \notin Active
  <2>1. ASSUME NEW i \in JobIds \ {J} PROVE State(i) \notin Active
    <3>1. CASE i < J
      BY <1>1, <3>1 DEF Start, JobIds
    <3>2. CASE J < i
      BY <1>2, <3>2 DEF IInv, Control, RowsAgree, Active
    <3> QED
      BY <1>1, <3>1, <3>2 DEF JobIds
  <2> QED
    BY <1>1, <2>1 DEF Start, JobsTyped
<1>4. State(J)' = "waiting_worker"
  BY <1>1 DEF Start, JobsTyped, State
<1>5. \A v \in Workers : worker[v].at \in Inner \cup {"bound", "mending"} =>
        Job(v) \in JobIds /\ Job(v) # J
  <2>1. ASSUME NEW v \in Workers, worker[v].at \in Inner \cup {"bound", "mending"}
        PROVE  Job(v) \in JobIds /\ State(Job(v)) # "none"
    <3>1. Job(v) \in JobIds
      BY <1>1, <2>1, RunsAJob DEF At, Inner, PreSwitch
    <3> QED
      BY <2>1, <3>1 DEF IInv, Control, PlaceAgrees, Inner, Early, PreSwitch, Running, At
  <2> QED
    BY <1>2, <2>1
<1>6. Control'
  <2>1. ASSUME NEW v \in Workers PROVE PlaceAgrees(v)'
    <3>1. PlaceAgrees(v)
      BY DEF IInv, Control
    <3>2. CASE worker[v].at \in Inner \cup {"bound", "mending"}
      BY <1>2, <1>3, <1>5, <3>1, <3>2 DEF PlaceAgrees, At, Job, State
    <3>3. CASE worker[v].at \notin Inner \cup {"bound", "mending"}
      BY <1>2, <3>3 DEF PlaceAgrees, At, Inner, Early, PreSwitch
    <3> QED
      BY <3>2, <3>3
  <2>2. RollbackAgrees'
    <3>1. rollback.at # "idle" => rollback.job \in JobIds /\ rollback.job # J
      BY <1>1, <1>2 DEF IInv, Control, RollbackAgrees, RollbackTyped, RollbackPoints, JobIds
    <3> QED
      BY <1>2, <1>3, <3>1 DEF IInv, Control, RollbackAgrees, State, At, Job
  <2>3. RowsAgree'
    <3>1. \A i \in JobIds : i < J => State(i) # "none"
      BY <1>1 DEF Start, JobIds
    <3>2. \A i \in JobIds \ {J} : State(i)' = State(i)
      BY <1>3 DEF State
    <3> QED
      BY <1>2, <1>4, <3>1, <3>2 DEF IInv, Control, RowsAgree, cancelVars
  <2> QED
    BY <2>1, <2>2, <2>3 DEF Control
<1>7. Spoilt => Spoilt'
  BY <1>2, <1>3 DEF Spoilt, Asked, State, cancelVars, Over
<1>8. ASSUME Data PROVE Data'
  <2>1. SpaceKept' /\ RollbackKept'
    BY <1>1, <1>2, <1>8 DEF Data, SpaceKept, RollbackKept, Unseen, Unended, RollbackTyped,
        writerVars
  <2>2. BinderAlone'
    BY <1>2, <1>3, <1>4, <1>8 DEF Data, BinderAlone, HasSwitched, State, At, Job
  <2>3. ActiveAlone'
    BY <1>2, <1>3, <1>8, ActiveStep DEF Data, State, Asked, cancelVars
  <2>4. ASSUME NEW v \in Workers, worker[v].at \in PreSwitch PROVE Asked(Job(v))
    <3>1. Job(v) \in JobIds \ {J}
      BY <1>5, <2>4 DEF Inner
    <3>2. State(Job(v)) \in Active \cup {"canceled"}
      BY <2>4 DEF IInv, Control, PlaceAgrees, PreSwitch, Early, Running, Active
    <3> QED
      BY <1>3, <3>1, <3>2 DEF IInv, Control, RowsAgree, Asked
  <2>5. ASSUME NEW v \in Workers
        PROVE  WorkerAlone(v)' /\ TargetQuiet(v)' /\ TargetVerified(v)' /\ SourceStill(v)'
    <3>1. worker'[v].at \in PreSwitch => Asked(Job(v))'
      BY <1>2, <2>4, <2>5 DEF Asked, Job, cancelVars
    <3>2. TargetQuiet(v)'
      BY <1>2, <1>8, <2>5 DEF Data, TargetQuiet, writerVars
    <3> QED
      BY <3>1, <3>2 DEF WorkerAlone, TargetVerified, SourceStill, Frozen, PreSwitch
  <2> QED
    BY <2>1, <2>2, <2>3, <2>5 DEF Data
<1> QED
  BY <1>6, <1>7, <1>8 DEF IInv

LEMMA AskCancelStep ==
    ASSUME IInv, TypeOK', Grounded', Hypotheses, NEW J \in JobIds, AskCancel(J)
    PROVE  IInv'
<1>1. /\ State(J) \in Cancelable /\ canceling' = canceling \cup {J} /\ pause' = Lift(pause, J)
      /\ UNCHANGED <<job, worker, rollback, bound, source, target, there, writerVars, verified,
                     canceled>>
  BY DEF AskCancel
<1>2. Control'
  BY <1>1, ControlSame DEF IInv
<1>3. \A i : Asked(i) => Asked(i)'
  BY <1>1 DEF Asked
<1>4. Spoilt => Spoilt'
  BY <1>1, <1>3 DEF Spoilt, State
<1>5. ASSUME Data PROVE Data'
  <2>1. SpaceKept' /\ RollbackKept'
    BY <1>1, <1>5 DEF Data, SpaceKept, RollbackKept, Unseen, Unended, writerVars
  <2>2. BinderAlone'
    BY <1>1, <1>5 DEF Data, BinderAlone, HasSwitched, State, At, Job
  <2>3. ActiveAlone'
    <3>1. \A i \in JobIds : State(i)' = State(i)
      BY <1>1 DEF State
    <3> QED
      BY <1>3, <1>5, <3>1 DEF Data, ActiveAlone
  <2>4. ASSUME NEW v \in Workers
        PROVE  WorkerAlone(v)' /\ TargetQuiet(v)' /\ TargetVerified(v)' /\ SourceStill(v)'
    <3>0. TargetQuiet(v)'
      BY <1>1, <1>5, <2>4 DEF Data, TargetQuiet, writerVars
    <3>1. CASE Asked(Job(v))' \/ worker[v].at \notin PreSwitch
      BY <1>1, <3>0, <3>1 DEF WorkerAlone, TargetVerified, SourceStill, Frozen, PreSwitch, Job
    <3>2. CASE ~Asked(Job(v))' /\ worker[v].at \in PreSwitch
      <4>1. ~Asked(Job(v)) /\ Job(v) # J
        BY <1>1, <3>2 DEF Asked, Job
      <4>2. State(J) \notin Active
        BY <1>5, <2>4, <3>2, <4>1 DEF Data, WorkerAlone
      <4> QED
        BY <1>1, <4>2 DEF Active, Cancelable
    <3> QED
      BY <3>1, <3>2
  <2> QED
    BY <2>1, <2>2, <2>3, <2>4 DEF Data
<1> QED
  BY <1>2, <1>4, <1>5 DEF IInv

LEMMA CancelStep ==
    ASSUME IInv, TypeOK', Grounded', Hypotheses, NEW J \in JobIds, Cancel(J)
    PROVE  IInv'
<1>1. JobsTyped /\ WorkersTyped /\ RollbackTyped /\ DataTyped /\ MaxJobs \in Nat
  BY Parts, MigrationAssumption DEF IInv, AllTyped
<1>2. /\ J \in canceling /\ State(J) \in Cancelable
      /\ UNCHANGED <<worker, rollback, bound, dbVars, writerVars, verified>>
      /\ canceled' = canceled \cup {J}
  BY DEF Cancel, Hypotheses
<1>3. /\ \A i \in JobIds \ {J} : job'[i] = job[i]
      /\ State(J)' = "canceled" /\ job'[J].switch = job[J].switch
  BY <1>1 DEF Cancel, JobsTyped, State
<1>4. \A i : Asked(i)' <=> Asked(i)
  BY DEF Cancel, Asked
<1>5. Control'
  <2>1. ASSUME NEW v \in Workers PROVE PlaceAgrees(v)'
    <3>1. PlaceAgrees(v) /\ (~At(v, "idle") => Job(v) \in JobIds)
      BY <1>1, RunsAJob DEF IInv, Control
    <3>2. CASE Job(v) = J
      BY <1>2, <1>3, <3>1, <3>2 DEF PlaceAgrees, At, Job, State, Cancelable, Running
    <3>3. CASE Job(v) # J
      BY <1>2, <1>3, <3>1, <3>3 DEF PlaceAgrees, At, Job, State, Early, PreSwitch
    <3> QED
      BY <3>2, <3>3
  <2>2. RollbackAgrees'
    <3>1. rollback.at # "idle" => rollback.job \in JobIds /\ rollback.job # J
      BY <1>1, <1>2 DEF IInv, Control, RollbackAgrees, RollbackTyped, RollbackPoints, JobIds, Cancelable
    <3> QED
      BY <1>2, <1>3, <3>1 DEF IInv, Control, RollbackAgrees, State, At, Job
  <2>3. RowsAgree'
    BY <1>1, <1>2, <1>3 DEF IInv, Control, RowsAgree, State, Settled, Cancelable, DataTyped, JobIds
  <2> QED
    BY <2>1, <2>2, <2>3 DEF Control
<1>6. Spoilt => Spoilt'
  BY <1>2, <1>3, <1>4 DEF Spoilt, State, Over, Cancelable
<1>7. ASSUME Data PROVE Data'
  <2>0. /\ \A i \in JobIds : State(i)' \in Active => State(i) \in Active /\ State(i)' = State(i)
        /\ \A i \in JobIds : HasSwitched(i)' => HasSwitched(i)
        /\ ResumedLate => ResumedLate'
    BY <1>2, <1>3 DEF State, Active, HasSwitched, ResumedLate, Cancelable, dbVars
  <2>1. SpaceKept' /\ RollbackKept'
    BY <1>2, <1>7 DEF Data, SpaceKept, RollbackKept, Unseen, Unended, writerVars, dbVars
  <2>2. BinderAlone'
    BY <1>2, <1>7, <2>0 DEF Data, BinderAlone, At, Job
  <2>3. ActiveAlone'
    BY <1>4, <1>7, <2>0 DEF Data, ActiveAlone
  <2>4. ASSUME NEW v \in Workers
        PROVE  WorkerAlone(v)' /\ TargetQuiet(v)' /\ TargetVerified(v)' /\ SourceStill(v)'
    <3>1. WorkerAlone(v)'
      BY <1>2, <1>4, <1>7, <2>0, <2>4 DEF Data, WorkerAlone, Job
    <3>2. worker[v].at \in PreSwitch => Job(v) \in JobIds /\ job'[Job(v)].switch = job[Job(v)].switch
      <4>1. worker[v].at \in PreSwitch => Job(v) \in JobIds
        BY <1>1, <2>4, RunsAJob DEF At, PreSwitch
      <4> QED
        BY <1>3, <4>1
    <3>3. TargetVerified(v)'
      BY <1>2, <1>4, <1>7, <2>4, <3>2 DEF Data, TargetVerified, Unended, Unseen, Job, dbVars,
          writerVars, PreSwitch
    <3>4. SourceStill(v)'
      BY <1>2, <1>4, <1>7, <2>0, <2>4, <3>2 DEF Data, SourceStill, ACopy, Job, At, dbVars,
          writerVars, PreSwitch, Frozen
    <3>5. TargetQuiet(v)'
      BY <1>2, <1>7, <2>4 DEF Data, TargetQuiet, writerVars
    <3> QED
      BY <3>1, <3>3, <3>4, <3>5
  <2> QED
    BY <2>1, <2>2, <2>3, <2>4 DEF Data
<1> QED
  BY <1>5, <1>6, <1>7 DEF IInv

\* A step of a rollback: the row of its job goes from 'switching' to one of the
\* states it may end in, or is as it was.
LEMMA RollbackBeginStep ==
    ASSUME IInv, TypeOK', Grounded', Hypotheses, NEW J \in JobIds, RollbackBegin(J)
    PROVE  IInv'
<1>1. JobsTyped /\ WorkersTyped /\ RollbackTyped /\ DataTyped /\ MaxJobs \in Nat
  BY Parts, MigrationAssumption DEF IInv, AllTyped
<1>2. /\ HasSwitched(J) /\ State(J) = "succeeded" /\ rollback.at = "idle"
      /\ rollback' = [at |-> "proof", job |-> J]
      /\ UNCHANGED <<worker, bound, dbVars, writerVars, verified, cancelVars>>
  BY DEF RollbackBegin, HasSwitched
<1>3. /\ \A i \in JobIds \ {J} : job'[i] = job[i]
      /\ State(J)' = "switching"
  BY <1>1 DEF RollbackBegin, SetState, JobsTyped, State
<1>4. \A v \in Workers : Job(v) = J => At(v, "tidy")
  <2>1. ASSUME NEW v \in Workers, Job(v) = J PROVE At(v, "tidy")
    <3>1. worker[v].at \in Places /\ ~At(v, "idle")
      BY <1>1, <2>1 DEF WorkersTyped, Locals, JobIds
    <3> QED
      BY <1>2, <2>1, <3>1 DEF IInv, Control, PlaceAgrees, At, Places, PreSwitch, PostSwitch,
          Unwinding, Early, Running
  <2> QED
    BY <2>1
<1>5. Control'
  <2>1. ASSUME NEW v \in Workers PROVE PlaceAgrees(v)'
    <3>1. PlaceAgrees(v) /\ (~At(v, "idle") => Job(v) \in JobIds)
      BY <1>1, RunsAJob DEF IInv, Control
    <3>2. CASE Job(v) = J
      BY <1>2, <1>4, <3>2 DEF PlaceAgrees, At, Early, PreSwitch
    <3>3. CASE Job(v) # J
      BY <1>2, <1>3, <3>1, <3>3 DEF PlaceAgrees, At, Job, State, Early, PreSwitch
    <3> QED
      BY <3>2, <3>3
  <2>2. RollbackAgrees'
    BY <1>2, <1>3, <1>4 DEF RollbackAgrees, State, At, Job
  <2>3. RowsAgree'
    BY <1>1, <1>2, <1>3 DEF IInv, Control, RowsAgree, State, Settled, DataTyped, JobIds, cancelVars
  <2> QED
    BY <2>1, <2>2, <2>3 DEF Control
<1>6. Spoilt => Spoilt'
  BY <1>2, <1>3 DEF Spoilt, Asked, State, Over, cancelVars
<1>7. ASSUME Data PROVE Data'
  <2>1. bound = J /\ J # 0 /\ \A i \in JobIds \ {J} : State(i) \notin Active
    BY <1>1, <1>2, <1>7 DEF Data, BinderAlone, JobIds
  <2>2. SpaceKept' /\ RollbackKept'
    BY <1>2, <1>7, <2>1 DEF Data, SpaceKept, RollbackKept, Unseen, Unended, writerVars, dbVars
  <2>3. BinderAlone'
    <3>1. \A i \in JobIds \ {J} : State(i)' = State(i) /\ HasSwitched(i)' = HasSwitched(i)
      BY <1>3 DEF State, HasSwitched
    <3> QED
      BY <1>2, <1>7, <2>1, <3>1 DEF Data, BinderAlone, At, Job
  <2>4. ActiveAlone'
    BY <1>2, <1>3, <1>7, <2>1, ActiveStep DEF Data, State, Asked, cancelVars
  <2>5. ASSUME NEW v \in Workers
        PROVE  WorkerAlone(v)' /\ TargetQuiet(v)' /\ TargetVerified(v)' /\ SourceStill(v)'
    <3>1. worker'[v].at \notin PreSwitch
      BY <1>2, <1>7, <2>1, <2>5 DEF Data, BinderAlone, At, PreSwitch
    <3> QED
      BY <3>1, PromisesNothing
  <2> QED
    BY <2>2, <2>3, <2>4, <2>5 DEF Data
<1> QED
  BY <1>5, <1>6, <1>7 DEF IInv

\* The proof of a rollback succeeds, the pause is lifted, or the request dies.
LEMMA RollbackQuiet ==
    ASSUME IInv, TypeOK', Grounded', Hypotheses,
           \/ RollbackResume \/ RollbackCrash
           \/ Untouched /\ RollbackProof /\ UNCHANGED job
    PROVE  IInv'
<1>1. RollbackTyped /\ MaxJobs \in Nat
  BY Parts, MigrationAssumption DEF IInv, AllTyped
<1>2. /\ UNCHANGED <<job, worker, bound, source, target, there, verified, cancelVars>>
      /\ Overlooks
  BY DEF RollbackResume, RollbackCrash, RollbackProof, dbVars, writerVars, Overlooks
<1>3. \/ rollback'.at = "idle"
      \/ /\ rollback.at = "proof" /\ rollback'.at = "restore" /\ rollback'.job = rollback.job
         /\ target \ traceless = verified /\ Unended("target") \subseteq overlooked'
  <2>1. CASE RollbackResume \/ RollbackCrash
    BY <2>1 DEF RollbackResume, RollbackCrash, NoRollback
  <2>2. CASE Untouched /\ RollbackProof
    BY <1>1, <2>2 DEF RollbackProof, Untouched, RollbackTyped
  <2> QED
    BY <2>1, <2>2
<1>4. Control'
  <2>1. \A v \in Workers : PlaceAgrees(v)'
    BY <1>2 DEF IInv, Control, PlaceAgrees, At, Job, State
  <2>2. RollbackAgrees' /\ RowsAgree'
    BY <1>2, <1>3 DEF IInv, Control, RollbackAgrees, RowsAgree, At, Job, State, cancelVars
  <2> QED
    BY <2>1, <2>2 DEF Control
<1>5. Spoilt' <=> Spoilt
  BY <1>2 DEF Spoilt, Asked, State, cancelVars
<1>6. ASSUME Data PROVE Data'
  <2>1. SpaceKept' /\ BinderAlone' /\ ActiveAlone'
    <3>1. SpaceKept' /\ ActiveAlone'
      BY <1>2, <1>6 DEF Data, SpaceKept, Unseen, Overlooks, ActiveAlone, State, Asked, cancelVars
    <3>2. BinderAlone'
      BY <1>2, <1>6 DEF Data, BinderAlone, State, HasSwitched, At, Job
    <3> QED
      BY <3>1, <3>2
  <2>2. RollbackKept'
    <3>1. CASE rollback'.at = "idle"
      BY <3>1 DEF RollbackKept
    <3>2. CASE rollback.at = "proof" /\ rollback'.at = "restore"
      <4>1. rollback.job # 0 /\ bound = rollback.job
        BY <1>1, <1>6, <3>2 DEF RollbackTyped, Data, RollbackKept
      <4>2. bound # 0 /\ verified \subseteq source
        BY <1>6, <4>1 DEF Data, SpaceKept
      <4>3. target' \ source' \subseteq Unseen' /\ Unended("target")' \subseteq overlooked'
        BY <1>2, <1>3, <3>2, <4>2 DEF Unseen, Unended, Overlooks
      <4> QED
        BY <1>2, <1>3, <3>2, <4>1, <4>3 DEF RollbackKept
    <3> QED
      BY <1>3, <3>1, <3>2
  <2>3. ASSUME NEW v \in Workers
        PROVE  WorkerAlone(v)' /\ TargetQuiet(v)' /\ TargetVerified(v)' /\ SourceStill(v)'
    <3>1. WorkerAlone(v)' /\ TargetQuiet(v)'
      BY <1>2, <1>6, <2>3 DEF Data, WorkerAlone, TargetQuiet, Job, State, Asked, Overlooks,
          cancelVars
    <3>5. TargetVerified(v)'
      BY <1>2, <1>6, <2>3 DEF Data, TargetVerified, Unended, Unseen, Job, Asked, Overlooks,
          cancelVars
    <3>2. ResumedLate => ResumedLate'
      BY <1>2 DEF ResumedLate, State, RollbackResume, RollbackCrash, RollbackProof, Lift, dbVars
    <3>3. pause' = pause \/ ResumedLate'
      <4>1. CASE RollbackResume
        <5>1. rollback.job \in JobIds /\ State(rollback.job) = "rolled_back"
          BY <1>1, <4>1 DEF IInv, Control, RollbackAgrees, RollbackResume, RollbackTyped, JobIds
        <5> QED
          BY <1>2, <4>1, <5>1 DEF RollbackResume, Lift, ResumedLate, State
      <4>2. CASE RollbackCrash \/ RollbackProof
        BY <4>2 DEF RollbackCrash, RollbackProof, dbVars
      <4> QED
        BY <4>1, <4>2
    <3>4. SourceStill(v)'
      BY <1>2, <1>6, <2>3, <3>2, <3>3 DEF Data, SourceStill, ACopy, At, Job, Asked, Overlooks,
          cancelVars
    <3> QED
      BY <3>1, <3>4, <3>5
  <2> QED
    BY <2>1, <2>2, <2>3 DEF Data
<1> QED
  BY <1>4, <1>5, <1>6 DEF IInv

\* The row of the job that is rolled back takes the state it ends in, and so does
\* the space: it is bound to the source again, or stays where it is.
LEMMA RollbackEnds ==
    ASSUME IInv, TypeOK', Grounded', Hypotheses, NEW r \in JobIds, rollback.job = r,
           rollback.at \in {"proof", "restore"},
           UNCHANGED <<worker, dbVars, writerVars, verified, cancelVars>>,
           \/ /\ bound' = bound /\ job' = [job EXCEPT ![r].state = "succeeded"]
              /\ rollback' = NoRollback
           \/ /\ rollback.at = "restore" /\ bound' = 0
              /\ job' = [job EXCEPT ![r].state = "rolled_back"]
              /\ rollback' = [rollback EXCEPT !.at = "resume"]
    PROVE  IInv'
<1>1. JobsTyped /\ WorkersTyped /\ RollbackTyped /\ DataTyped /\ MaxJobs \in Nat
  BY Parts, MigrationAssumption DEF IInv, AllTyped
<1>2. /\ State(r) = "switching"
      /\ \A v \in Workers : Job(v) = r => At(v, "tidy")
  BY DEF IInv, Control, RollbackAgrees
<1>3. /\ \A i \in JobIds \ {r} : job'[i] = job[i]
      /\ job'[r].switch = job[r].switch
      /\ \/ bound' = bound /\ State(r)' = "succeeded" /\ rollback'.at = "idle"
         \/ /\ rollback.at = "restore" /\ bound' = 0 /\ State(r)' = "rolled_back"
            /\ rollback'.at = "resume" /\ rollback'.job = r
  BY <1>1 DEF JobsTyped, State, NoRollback, RollbackTyped
<1>4. Control'
  <2>1. ASSUME NEW v \in Workers PROVE PlaceAgrees(v)'
    <3>1. PlaceAgrees(v) /\ (~At(v, "idle") => Job(v) \in JobIds)
      BY <1>1, RunsAJob DEF IInv, Control
    <3>2. CASE Job(v) = r
      BY <1>2, <3>2 DEF PlaceAgrees, At, Early, PreSwitch
    <3>3. CASE Job(v) # r
      BY <1>3, <3>1, <3>3 DEF PlaceAgrees, At, Job, State, Early, PreSwitch
    <3> QED
      BY <3>2, <3>3
  <2>2. RollbackAgrees'
    BY <1>3 DEF RollbackAgrees, State
  <2>3. RowsAgree'
    BY <1>1, <1>2, <1>3 DEF IInv, Control, RowsAgree, State, Settled, DataTyped, JobIds, cancelVars
  <2> QED
    BY <2>1, <2>2, <2>3 DEF Control
<1>5. Spoilt => Spoilt'
  BY <1>2, <1>3 DEF Spoilt, Asked, State, Over, cancelVars
<1>6. ASSUME Data PROVE Data'
  <2>1. /\ bound = r /\ r # 0 /\ there /\ verified \subseteq source /\ acked \ Unseen \subseteq target
        /\ \A i \in JobIds \ {r} : State(i) \notin Active /\ ~HasSwitched(i)
    BY <1>1, <1>6 DEF Data, SpaceKept, BinderAlone, RollbackKept, JobIds
  <2>2. \A v \in Workers : worker[v].at \in {"idle", "tidy"}
    BY <1>2, <1>6, <2>1 DEF Data, BinderAlone, At
  <2>3. SpaceKept'
    <3>1. CASE bound' = bound
      BY <1>6, <3>1 DEF Data, SpaceKept, Unseen, writerVars, dbVars
    <3>2. CASE rollback.at = "restore" /\ bound' = 0
      <4>1. target \ source \subseteq Unseen /\ Unended("target") \subseteq overlooked
        BY <1>6, <3>2 DEF Data, RollbackKept
      <4>2. \A x \in open : x.db = "source" \/ x.id \in overlooked
        <5>1. ASSUME NEW x \in open PROVE x.db = "source" \/ x.id \in overlooked
          <6>1. x.db \in Databases
            BY Parts DEF IInv, AllTyped, WritersTyped
          <6> QED
            BY <4>1, <6>1 DEF Databases, Unended
        <5> QED
          BY <5>1
      <4> QED
        BY <2>1, <3>2, <4>1, <4>2 DEF SpaceKept, Unseen, writerVars, dbVars
    <3> QED
      BY <1>3, <3>1, <3>2
  <2>4. RollbackKept'
    BY <1>3 DEF RollbackKept
  <2>5. BinderAlone'
    <3>1. \A i \in JobIds \ {r} : State(i)' \notin Active /\ ~HasSwitched(i)'
      BY <1>3, <2>1 DEF State, HasSwitched
    <3>2. bound' = bound \/ (bound' = 0 /\ ~HasSwitched(r)')
      BY <1>3 DEF HasSwitched
    <3> QED
      BY <1>6, <2>1, <2>2, <3>1, <3>2 DEF Data, BinderAlone, At, Job
  <2>6. ActiveAlone'
    BY <1>3, <1>6, ActiveStep DEF Data, State, Asked, cancelVars, Active
  <2>7. ASSUME NEW v \in Workers
        PROVE  WorkerAlone(v)' /\ TargetQuiet(v)' /\ TargetVerified(v)' /\ SourceStill(v)'
    <3>1. worker'[v].at \notin PreSwitch
      BY <2>2, <2>7 DEF PreSwitch
    <3> QED
      BY <3>1, PromisesNothing
  <2> QED
    BY <2>3, <2>4, <2>5, <2>6, <2>7 DEF Data
<1> QED
  BY <1>4, <1>5, <1>6 DEF IInv

LEMMA RollbackSteps ==
    ASSUME IInv, TypeOK', Grounded', Hypotheses, RollbackStep \/ RollbackCrash
    PROVE  IInv'
<1>1. RollbackTyped /\ MaxJobs \in Nat
  BY Parts, MigrationAssumption DEF IInv, AllTyped
<1>2. rollback.at \in RollbackPoints => rollback.job \in JobIds
  BY <1>1 DEF RollbackTyped, RollbackPoints, JobIds
<1>3. CASE RollbackResume \/ RollbackCrash
  BY <1>3, RollbackQuiet
<1>4. CASE RollbackProof
  <2>1. CASE Untouched /\ UNCHANGED job
    BY <1>4, <2>1, RollbackQuiet
  <2>2. CASE ~Untouched /\ SetState(rollback.job, "succeeded") /\ rollback' = NoRollback
    BY <1>2, <1>4, <2>2, RollbackEnds DEF RollbackProof, SetState, RollbackPoints, writerVars
  <2> QED
    BY <1>4, <2>1, <2>2 DEF RollbackProof
<1>5. CASE RollbackRestore
  BY <1>2, <1>5, RollbackEnds DEF RollbackRestore, SetState, RollbackPoints
<1>6. CASE RollbackFail
  <2>1. rollback.at \in {"proof", "restore"}
    BY <1>1, <1>6 DEF RollbackFail, Hypotheses, RollbackTyped, RollbackPoints, PreSwitch
  <2> QED
    BY <1>2, <1>6, <2>1, RollbackEnds DEF RollbackFail, SetState, RollbackPoints
<1> QED
  BY <1>3, <1>4, <1>5, <1>6 DEF RollbackStep

LEMMA InitInv == Init => IInv
<1> SUFFICES ASSUME Init PROVE IInv
  OBVIOUS
<1>1. TypeOK
  BY InitTyped
<1>2. Control
  BY DEF Init, Control, PlaceAgrees, RollbackAgrees, RowsAgree, Idle, NoRollback, At, State, Early,
      PreSwitch
<1>3. SpaceKept /\ RollbackKept
  BY DEF Init, SpaceKept, RollbackKept, NoRollback
<1>4. BinderAlone /\ ActiveAlone
  BY DEF Init, BinderAlone, ActiveAlone, HasSwitched, State, At, Idle, Active
<1>5. \A w \in Workers : WorkerAlone(w) /\ TargetQuiet(w) /\ TargetVerified(w) /\ SourceStill(w)
  BY DEF Init, WorkerAlone, TargetQuiet, TargetVerified, SourceStill, At, Idle, PreSwitch, Frozen
<1>6. Grounded
  BY DEF Init, Grounded
<1> QED
  BY <1>1, <1>2, <1>3, <1>4, <1>5, <1>6 DEF IInv, Data

LEMMA StepInv ==
    ASSUME Hypotheses, IInv, [Next]_vars
    PROVE  IInv'
<1>1. TypeOK' /\ Grounded'
  BY StepTyped, StaysGrounded DEF IInv
<1>2. ASSUME NEW w \in Workers, WorkerStep(w) PROVE IInv'
  <2>1. ASSUME NEW j \in JobIds, RecoverStale(w, j) PROVE IInv'
    BY <1>1, <2>1, RecoverStep
  <2>2. CASE Claim(w) \/ Bind(w) \/ FinishSwitch(w) \/ Tidy(w) \/ Mend(w)
    BY <1>1, <2>2, ClaimStep, BindStep, FinishSwitchStep, RestSteps
  <2> QED
    BY <1>1, <1>2, <2>1, <2>2, EarlySteps, ValidationSteps, FailureSteps DEF WorkerStep
<1>3. ASSUME NEW w \in Workers, Crash(w) PROVE IInv'
  <2>1. worker[w].at \in Inner \cup {"bound", "tidy", "mending"}
    BY <1>3, Parts DEF IInv, AllTyped, WorkersTyped, Locals, Places, PostSwitch, Unwinding, Inner,
        Crash, At
  <2> QED
    BY <1>1, <1>3, <2>1, FailureSteps, RestSteps
<1>4. CASE WriterStep \/ Admit \/ \E db \in Databases : StartComputing(db)
  BY <1>1, <1>4, WriterSteps DEF WriterStep
<1>5. ASSUME NEW j \in JobIds,
             \/ \E switch \in BOOLEAN : Start(j, switch)
             \/ AskCancel(j) \/ Cancel(j) \/ RollbackBegin(j)
      PROVE  IInv'
  BY <1>1, <1>5, StartStep, AskCancelStep, CancelStep, RollbackBeginStep
<1>6. CASE RollbackStep \/ RollbackCrash
  BY <1>1, <1>6, RollbackSteps
<1>7. CASE UNCHANGED vars
  <2>1. Control'
    BY <1>7, ControlSame DEF IInv, vars, cancelVars
  <2>2. Spoilt' <=> Spoilt
    BY <1>7 DEF vars, cancelVars, Spoilt, Asked, State
  <2>3. ASSUME Data PROVE SpaceKept' /\ RollbackKept' /\ ActiveAlone'
    BY <1>7, <2>3 DEF vars, dbVars, writerVars, cancelVars, Data, SpaceKept, RollbackKept,
        Unseen, Unended, ActiveAlone, State, Asked
  <2>4. ASSUME Data PROVE BinderAlone'
    BY <1>7, <2>4 DEF vars, Data, BinderAlone, State, HasSwitched, At, Job
  <2>5. ASSUME Data, NEW w \in Workers PROVE WorkerAlone(w)' /\ TargetQuiet(w)' /\ TargetVerified(w)'
    BY <1>7, <2>5 DEF vars, dbVars, writerVars, cancelVars, Data, WorkerAlone, TargetQuiet,
        TargetVerified, Unended, Unseen, Job, State, Asked
  <2>6. ASSUME Data, NEW w \in Workers PROVE SourceStill(w)'
    BY <1>7, <2>6 DEF vars, dbVars, writerVars, cancelVars, Data, SourceStill, ResumedLate,
        ACopy, Job, At, State, Asked
  <2> QED
    BY <1>1, <2>1, <2>2, <2>3, <2>4, <2>5, <2>6 DEF IInv, Data
<1> QED
  BY <1>2, <1>3, <1>4, <1>5, <1>6, <1>7, Zenon DEF Next

LEMMA AlwaysInv ==
    ASSUME Hypotheses
    PROVE  Spec => []IInv
<1>1. Init => IInv
  BY InitInv
<1>2. IInv /\ [Next]_vars => IInv'
  BY StepInv
<1> QED
  BY <1>1, <1>2, PTL DEF Spec

\* A spoilt state is none that the properties are about.
LEMMA HeededIsUnspoilt ==
    ASSUME IInv, CancelHeeded
    PROVE  Data
BY DEF IInv, CancelHeeded, Uncanceled, Spoilt, Asked, Over

\* Two steps bind the space: the switch, and the restore of a rollback.
LEMMA BoundMoves ==
    ASSUME [Next]_vars, bound' # bound
    PROVE  RollbackRestore \/ \E w \in Workers : Bind(w)
<1>1. ASSUME NEW w \in Workers, WorkerStep(w) \/ Crash(w) PROVE Bind(w)
  BY <1>1 DEF WorkerStep, Claim, Prepare, CloseInitialGate, OpenSnapshot, InstallCapture,
      OpenInitialGate, StartCopy, FinishCopy, CatchUp, CloseFinalGate, PauseSource, Drain, CutOver,
      BeginValidation, EndValidation, CompleteTest, EnterSwitch, FinishSwitch, Tidy, SeeCancel,
      Fail, Unwind, CompleteFailed, Mend, RecoverStale, Crash
<1>2. ASSUME NEW j \in JobIds,
             \/ \E switch \in BOOLEAN : Start(j, switch)
             \/ AskCancel(j) \/ Cancel(j) \/ RollbackBegin(j)
      PROVE  FALSE
  BY <1>2 DEF Start, AskCancel, Cancel, RollbackBegin
<1>3. ASSUME WriterStep \/ Admit \/ \E db \in Databases : StartComputing(db) PROVE FALSE
  BY <1>3 DEF WriterStep, Commit, FinishComputing, Admit, StartComputing
<1>4. ASSUME RollbackStep \/ RollbackCrash PROVE RollbackRestore
  BY <1>4 DEF RollbackStep, RollbackCrash, RollbackProof, RollbackResume, RollbackFail
<1>5. ~UNCHANGED vars
  BY DEF vars
<1> QED
  BY <1>1, <1>2, <1>3, <1>4, <1>5, Zenon DEF Next

-----------------------------------------------------------------------------
(* Theorems *)

\* No write that was answered as committed is lost: after a switch it is in the
\* target, after a rollback in the source, whatever failed in between.  Left out are
\* the writes nobody waited for, open while the switch compared or the rollback took its
\* proof, and those that moved nothing the proof looks at.
THEOREM NoWriteEverLost ==
    ASSUME Hypotheses
    PROVE  Spec => []NoWriteLost
<1>1. IInv => NoWriteLost
  BY HeededIsUnspoilt DEF NoWriteLost, Data, SpaceKept, Unseen
<1> QED
  BY <1>1, AlwaysInv, PTL

\* While the space is bound to the target no cleanup drops its artifacts there: not
\* of the job that switched it, and not of one that failed or was found stale.
THEOREM LiveTargetAlwaysKept ==
    ASSUME Hypotheses
    PROVE  Spec => []LiveTargetKept
<1>1. IInv => LiveTargetKept
  BY HeededIsUnspoilt DEF LiveTargetKept, Data, SpaceKept
<1> QED
  BY <1>1, AlwaysInv, PTL

\* The commit that binds the space to the target finds a copy of the source there, the
\* writes of computed tasks included: what it lacks were writes still open when the two
\* were compared, what it has besides are cells of a task that began before a
\* rollback; unless a late resume of an earlier rollback lifted the pause.
THEOREM SwitchAlwaysCopies ==
    ASSUME Hypotheses
    PROVE  Spec => SwitchesToACopy
<1> DEFINE A == CancelHeeded /\ bound = 0 /\ bound' # 0 =>
                  \/ source \ target \subseteq overlooked /\ target \ source \subseteq traceless
                  \/ ResumedLate
<1>1. IInv /\ [Next]_vars => A
  <2> SUFFICES ASSUME IInv, [Next]_vars, CancelHeeded, bound = 0, bound' # 0
               PROVE  ACopy \/ ResumedLate
    BY DEF ACopy
  <2>1. PICK w \in Workers : Bind(w)
    BY BoundMoves DEF RollbackRestore
  <2>2. worker[w].at = "switching" /\ Job(w) \in JobIds
    BY <2>1, Parts, MigrationAssumption, RunsAJob DEF Bind, At, IInv, AllTyped
  <2>3. State(Job(w)) = "switching" /\ job[Job(w)].switch
    BY <2>2 DEF IInv, Control, PlaceAgrees
  <2>4. ~Asked(Job(w))
    BY <2>2, <2>3 DEF CancelHeeded, Uncanceled, Asked
  <2> QED
    BY <2>2, <2>3, <2>4, HeededIsUnspoilt DEF Data, SourceStill, Frozen
<1> HIDE DEF A
<1> QED
  BY <1>1, AlwaysInv, PTL DEF Spec, SwitchesToACopy, A

\* A rollback that leaves the target leaves nothing there that the source has not, but
\* what its proof cannot see: writes that moved no count and no timestamp, and writes
\* that were still open when it was taken.
THEOREM RollbackAlwaysUntouched ==
    ASSUME Hypotheses
    PROVE  Spec => RollsBackUntouched
<1> DEFINE A == CancelHeeded /\ bound # 0 /\ bound' = 0 =>
                  target \ source \subseteq overlooked \cup traceless
<1>1. IInv /\ [Next]_vars => A
  <2> SUFFICES ASSUME IInv, [Next]_vars, CancelHeeded, bound # 0, bound' = 0
               PROVE  target \ source \subseteq overlooked \cup traceless
    OBVIOUS
  <2>1. RollbackRestore
    BY BoundMoves, Parts, MigrationAssumption, RunsAJob DEF Bind, IInv, AllTyped, At, JobIds
  <2> QED
    BY <2>1, HeededIsUnspoilt DEF RollbackRestore, Data, RollbackKept, Unseen
<1> HIDE DEF A
<1> QED
  BY <1>1, AlwaysInv, PTL DEF Spec, RollsBackUntouched, A
=============================================================================
