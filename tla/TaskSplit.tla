------------------------------ MODULE TaskSplit ------------------------------
(***************************************************************************)
(* Large tasks of the computed outbox (ComputedUpdateWorker.ts): a claimed *)
(* task with too many seed records is cut into parts, each enqueued in a   *)
(* transaction of its own under a merge key of its own, and only then      *)
(* marked done.  In between the worker may die, be taken over, or fail to  *)
(* enqueue; a failed task goes back to pending unless a twin with its key  *)
(* is pending by then, which the unique index of the table refuses.        *)
(*                                                                         *)
(* Only the rows of one plan are modelled, and of a row only what decides  *)
(* who works on which records; lock misses and pauses are in ComputedOutbox *)
(* and a run is one step here (ComputedRecompute has its inside).          *)
(***************************************************************************)
EXTENDS SplitState, Sequences

CONSTANTS
  Records,     \* seed records, numbered in the order the task lists them
  Limit,       \* resolveEffectiveMaxSeedRecordsPerTask
  MaxAttempts, \* maxAttempts
  Workers,
  MaxWrites,   \* bound: writes of users
  MaxFaults    \* bound: crashes, lost leases, failures that would not recur

VARIABLES
  worker,  \* what each worker does and what it read when it claimed
  poison,  \* records whose recomputation always fails
  writes, faults

vars == <<rows, worker, stale, given, poison, writes, faults>>

NoWorker == "nobody"
Empty == [status |-> "none", key |-> <<>>, seeds |-> {}, attempts |-> 0, by |-> NoWorker]
Resting == [at |-> "idle", slot |-> 0, task |-> Empty, part |-> 0]

Init ==
  /\ rows = [s \in Slots |-> Empty]
  /\ worker = [w \in Workers |-> Resting]
  /\ stale = {} /\ given = {}
  /\ poison \in SUBSET Records
  /\ writes = 0 /\ faults = 0

Fault == faults < MaxFaults /\ faults' = faults + 1
Pending(key) == {s \in Slots : rows[s].status = "pending" /\ rows[s].key = key}

\* enqueueOrMerge: into the pending row of that key or, when there is none, into
\* a new row; into a row under a unique key (no part is number 0) when another
\* enqueuer holds the lock
FreeSlot == CHOOSE s \in Slots : rows[s] = Empty
Room == \E s \in Slots : rows[s] = Empty
Inserted(key, seeds) ==
  [rows EXCEPT ![FreeSlot] = [status |-> "pending", key |-> key, seeds |-> seeds,
                              attempts |-> 0, by |-> NoWorker]]
Enqueue(key, seeds) ==
  \/ /\ Pending(key) # {}
     /\ rows' = [rows EXCEPT ![CHOOSE s \in Pending(key) : TRUE].seeds = @ \cup seeds]
  \/ Pending(key) = {} /\ Room /\ rows' = Inserted(key, seeds)
  \/ Room /\ rows' = Inserted(Append(key, <<0, FreeSlot>>), seeds)

Write(seeds) ==
  /\ writes < MaxWrites
  /\ writes' = writes + 1
  /\ stale' = stale \cup seeds
  /\ given' = given \ seeds
  /\ Enqueue(<<>>, seeds)
  /\ UNCHANGED <<worker, poison, faults>>

---------------------------------------------------------------------------
(* a worker                                                                *)

\* Mutant of MayClaim: a row whose worker is gone is not claimed again.
PendingOnly(s) == rows[s].status = "pending"

MayClaim(s) ==
  \/ rows[s].status = "pending"
  \/ rows[s].status = "processing" /\ rows[s].by = NoWorker

Claim(w, s) ==
  /\ worker[w].at = "idle" /\ MayClaim(s)
  /\ rows' = [rows EXCEPT ![s].status = "processing", ![s].by = w]
  /\ worker' = [worker EXCEPT ![w] = [at |-> "claimed", slot |-> s, task |-> rows'[s],
                                      part |-> 0]]
  /\ UNCHANGED <<stale, given, poison, writes, faults>>

\* splitSeedRecordDtos: the i-th Limit records of the task
Rank(seeds, r) == Cardinality({q \in seeds : q <= r})
Part(seeds, i) ==
  {r \in seeds : (i - 1) * Limit < Rank(seeds, r) /\ Rank(seeds, r) <= i * Limit}
PartCount(seeds) == (Cardinality(seeds) + Limit - 1) \div Limit

TooLarge(w) == PartCount(worker[w].task.seeds) > 1
Owns(w) == rows[worker[w].slot].status = "processing" /\ rows[worker[w].slot].by = w

Goes(w, to) == worker' = [worker EXCEPT ![w].at = to]

StartSplit(w) ==
  /\ worker[w].at = "claimed" /\ TooLarge(w)
  /\ Goes(w, "split")
  /\ UNCHANGED <<rows, stale, given, poison, writes, faults>>

\* Mutant of AllEnqueued: the last part is left out.
AllButLast(w) == worker[w].part + 1 >= PartCount(worker[w].task.seeds)

AllEnqueued(w) == worker[w].part = PartCount(worker[w].task.seeds)

EnqueuePart(w) ==
  /\ worker[w].at = "split" /\ ~AllEnqueued(w)
  /\ LET task == worker[w].task
         i == worker[w].part + 1
         key == Append(task.key, <<i, PartCount(task.seeds)>>)
     IN  /\ Enqueue(key, Part(task.seeds, i))
         /\ worker' = [worker EXCEPT ![w].part = i]
  /\ UNCHANGED <<stale, given, poison, writes, faults>>

\* an enqueue or the deletion fails
SplitFails(w) ==
  /\ worker[w].at = "split" /\ Fault
  /\ Goes(w, "failed")
  /\ UNCHANGED <<rows, stale, given, poison, writes>>

\* markDone; a worker that lost its lease goes on with the task as a whole
EndSplit(w) ==
  /\ worker[w].at = "split" /\ AllEnqueued(w)
  /\ IF Owns(w)
     THEN /\ rows' = [rows EXCEPT ![worker[w].slot] = Empty]
          /\ worker' = [worker EXCEPT ![w] = Resting]
     ELSE Goes(w, "whole") /\ UNCHANGED rows
  /\ UNCHANGED <<stale, given, poison, writes, faults>>

Runs(w) == worker[w].at = "whole" \/ (worker[w].at = "claimed" /\ ~TooLarge(w))
Poisoned(w) == worker[w].task.seeds \cap poison # {}

\* the cells and markDone in one transaction, which commits without the lease too
Run(w) ==
  /\ Runs(w) /\ ~Poisoned(w)
  /\ stale' = stale \ worker[w].task.seeds
  /\ rows' = IF Owns(w) THEN [rows EXCEPT ![worker[w].slot] = Empty] ELSE rows
  /\ worker' = [worker EXCEPT ![w] = Resting]
  /\ UNCHANGED <<given, poison, writes, faults>>

RunFails(w) ==
  /\ Runs(w)
  /\ IF Poisoned(w) THEN UNCHANGED faults ELSE Fault
  /\ Goes(w, "failed")
  /\ UNCHANGED <<rows, stale, given, poison, writes>>

\* markFailed: nothing without the lease; refused by the unique index when a
\* twin is pending, and then the row waits until its lease is over
LastAttempt(task) == task.attempts + 1 >= MaxAttempts
MarkFailed(w) ==
  /\ worker[w].at = "failed"
  /\ LET task == worker[w].task
         s == worker[w].slot
     IN  /\ rows' = IF ~Owns(w) THEN rows
                    ELSE IF LastAttempt(task) THEN [rows EXCEPT ![s] = Empty]
                    ELSE IF Pending(task.key) # {} THEN rows
                    ELSE [rows EXCEPT ![s].status = "pending", ![s].by = NoWorker,
                                     ![s].attempts = task.attempts + 1]
         /\ given' = IF Owns(w) /\ LastAttempt(task) THEN given \cup task.seeds
                     ELSE given
  /\ worker' = [worker EXCEPT ![w] = Resting]
  /\ UNCHANGED <<stale, poison, writes, faults>>

\* the lease of a row ends: nobody renews it any more, or renewals fail
WorksOn(w, s) == worker[w].at # "idle" /\ worker[w].slot = s
LeaseEnds(s) ==
  /\ rows[s].status = "processing" /\ rows[s].by # NoWorker
  /\ IF WorksOn(rows[s].by, s) THEN Fault ELSE UNCHANGED faults
  /\ rows' = [rows EXCEPT ![s].by = NoWorker]
  /\ UNCHANGED <<worker, stale, given, poison, writes>>

Crash(w) ==
  /\ worker[w].at # "idle" /\ Fault
  /\ worker' = [worker EXCEPT ![w] = Resting]
  /\ UNCHANGED <<rows, stale, given, poison, writes>>

WorkerStep(w) ==
  \/ StartSplit(w) \/ EnqueuePart(w) \/ EndSplit(w) \/ Run(w) \/ RunFails(w)
  \/ MarkFailed(w)

LeaseStep == \E s \in Slots : LeaseEnds(s)

Next ==
  \/ \E seeds \in SUBSET Records \ {{}} : Write(seeds)
  \/ \E w \in Workers :
       \/ \E s \in Slots : Claim(w, s)
       \/ WorkerStep(w) \/ SplitFails(w) \/ Crash(w)
  \/ LeaseStep

Spec == Init /\ [][Next]_vars

\* workers go on and leases end; neither the rows that wait nor the rows that
\* were left behind are passed over for ever
ClaimPending == \E w \in Workers, s \in Slots : rows[s].status = "pending" /\ Claim(w, s)
ClaimLeft == \E w \in Workers, s \in Slots : rows[s].status = "processing" /\ Claim(w, s)
Fairness ==
  /\ \A w \in Workers : WF_vars(WorkerStep(w))
  /\ WF_vars(LeaseStep)
  /\ SF_vars(ClaimPending) /\ SF_vars(ClaimLeft)

FairSpec == Spec /\ Fairness

---------------------------------------------------------------------------
\* Every record is computed or given up in the end: a split that stops half-way,
\* a failed task whose twin is pending and a worker that died all come back, and
\* the attempts of a task that always fails run out.
Settled == stale \subseteq given
EveryRecordSettles == ~Settled ~> Settled
=============================================================================
