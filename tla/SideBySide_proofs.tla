-------------------------- MODULE SideBySide_proofs --------------------------
(***************************************************************************)
(* Proofs about the small components that are checked side by side in one  *)
(* run: TaskSplit, BaseAdmission and WebhookDelivery.  Each is proved about *)
(* for itself, for every value of its constants.                           *)
(***************************************************************************)
EXTENDS TaskSplit, AdmissionState, WebhookState,
        FiniteSetTheorems, NaturalsInduction, WellFoundedInduction, TLAPS

CONSTANTS
  Lease,      \* of BaseAdmission
  Endpoints, Rounds, MaxEvents, MaxTrouble  \* of WebhookDelivery

VARIABLES enabled, toEnqueue, round, events, disturbed  \* of WebhookDelivery

Base == INSTANCE BaseAdmission

Webhook == INSTANCE WebhookDelivery WITH MaxFaults <- MaxTrouble, faults <- disturbed

---------------------------------------------------------------------------
(***************************************************************************)
(* TaskSplit: every record that is not up to date is in a row.             *)
(***************************************************************************)

\* Records are numbered in the order of the list, and a limit of 0 is not a limit.
SplitParameters ==
  /\ Records \subseteq Int /\ IsFiniteSet(Records)
  /\ Limit \in Nat \ {0} /\ MaxAttempts \in Nat \ {0}
  /\ NoWorker \notin Workers

Key == Seq(Nat \X (Nat \cup Slots))

RowType ==
  [status : {"none", "pending", "processing"}, key : Key, seeds : SUBSET Records,
   attempts : 0 .. MaxAttempts - 1, by : Workers \cup {NoWorker}]

WorkerType ==
  [at : {"idle", "claimed", "split", "whole", "failed"}, slot : Slots \cup {0},
   task : RowType, part : Nat]

SplitTypeOK ==
  /\ rows \in [Slots -> RowType]
  /\ worker \in [Workers -> WorkerType]
  /\ stale \subseteq Records

---------------------------------------------------------------------------
(* The parts of a task                                                     *)

LEMMA PartCountType ==
  ASSUME SplitParameters, NEW seeds \in SUBSET Records
  PROVE  IsFiniteSet(seeds) /\ Cardinality(seeds) \in Nat /\ PartCount(seeds) \in Nat
<1>1. IsFiniteSet(seeds)
  BY FS_Subset DEF SplitParameters
<1>2. Cardinality(seeds) \in Nat
  BY <1>1, FS_CardinalityType
<1> QED
  BY <1>1, <1>2 DEF PartCount, SplitParameters

\* How many parts of l records k records fill.
LEMMA PartsFilled ==
  ASSUME NEW k \in Nat \ {0}, NEW l \in Nat \ {0}
  PROVE  LET i == (k + l - 1) \div l
         IN  i \in Nat \ {0} /\ (i - 1) * l < k /\ k <= i * l
<1> DEFINE i == (k + l - 1) \div l
<1>1. i \in Int /\ l * i <= k + l - 1 /\ k + l - 1 < l * i + l
  OBVIOUS
<1> HIDE DEF i
<1>2. i * l = l * i /\ (i - 1) * l = l * i - l
  BY <1>1
<1>3. i > 0
  BY <1>1
<1> QED
  BY <1>1, <1>2, <1>3 DEF i

LEMMA PartsMonotone ==
  ASSUME NEW k \in Nat \ {0}, NEW n \in Nat, NEW l \in Nat \ {0}, k <= n
  PROVE  (k + l - 1) \div l <= (n + l - 1) \div l
BY PartsFilled

\* Every record of a task is in one of its parts.
LEMMA PartsCover ==
  ASSUME SplitParameters, NEW seeds \in SUBSET Records, NEW r \in seeds
  PROVE  \E i \in 1 .. PartCount(seeds) : r \in Part(seeds, i)
<1> DEFINE k == Rank(seeds, r)
           n == Cardinality(seeds)
           B == {q \in seeds : q <= r}
<1>1. IsFiniteSet(seeds) /\ n \in Nat
  BY PartCountType
<1>2. IsFiniteSet(B) /\ k <= n
  BY <1>1, FS_Subset DEF Rank
<1>3. k \in Nat
  BY <1>2, FS_CardinalityType DEF Rank
<1>4. k # 0
  <2>1. r \in B
    BY DEF SplitParameters
  <2> QED
    BY <1>2, <2>1, FS_EmptySet DEF Rank
<1> HIDE DEF k, n
<1> DEFINE i == (k + Limit - 1) \div Limit
<1>5. i \in Nat \ {0} /\ (i - 1) * Limit < k /\ k <= i * Limit
  BY <1>3, <1>4, PartsFilled DEF SplitParameters
<1>6. i <= PartCount(seeds)
  BY <1>1, <1>2, <1>3, <1>4, PartsMonotone DEF SplitParameters, PartCount, n
<1>7. r \in Part(seeds, i)
  BY <1>5 DEF Part, k
<1> QED
  BY <1>5, <1>6, <1>7, PartCountType

---------------------------------------------------------------------------
(* Enqueueing                                                              *)

LEMMA EmptyType == ASSUME SplitParameters PROVE Empty \in RowType
<1>1. <<>> \in Key
  BY DEF Key
<1> QED
  BY <1>1 DEF Empty, RowType, SplitParameters

LEMMA KeyType ==
  ASSUME NEW key \in Key
  PROVE  /\ \A i \in Nat, n \in Nat : Append(key, <<i, n>>) \in Key
         /\ \A s \in Slots : Append(key, <<0, s>>) \in Key
BY DEF Key

LEMMA FreeSlotFree == ASSUME Room PROVE FreeSlot \in Slots /\ rows[FreeSlot] = Empty
BY DEF Room, FreeSlot

\* Enqueueing puts the seeds into one row, which is pending then and was no
\* worker's, and takes nothing from any row.
EnqueuedTo(s, seeds) ==
  /\ rows' = [rows EXCEPT ![s] = rows'[s]]
  /\ rows'[s] \in RowType
  /\ rows'[s].status = "pending"
  /\ rows[s].status # "processing"
  /\ seeds \cup rows[s].seeds \subseteq rows'[s].seeds

LEMMA EnqueueRow ==
  ASSUME SplitParameters, rows \in [Slots -> RowType],
         NEW key \in Key, NEW seeds \in SUBSET Records, Enqueue(key, seeds)
  PROVE  \E s \in Slots : EnqueuedTo(s, seeds)
<1>1. CASE Pending(key) # {}
                /\ rows' = [rows EXCEPT ![CHOOSE s \in Pending(key) : TRUE].seeds = @ \cup seeds]
  <2>1. PICK s \in Slots : /\ rows[s].status = "pending"
                          /\ rows' = [rows EXCEPT ![s].seeds = @ \cup seeds]
    BY <1>1 DEF Pending
  <2> QED
    BY <2>1 DEF EnqueuedTo, RowType
<1>2. ASSUME Room, NEW k \in Key, rows' = Inserted(k, seeds)
      PROVE  EnqueuedTo(FreeSlot, seeds)
  <2>1. FreeSlot \in Slots /\ rows[FreeSlot] = Empty
    BY <1>2, FreeSlotFree
  <2> DEFINE s == FreeSlot
             r == [status |-> "pending", key |-> k, seeds |-> seeds,
                   attempts |-> 0, by |-> NoWorker]
  <2>2. rows' = [rows EXCEPT ![s] = r]
    BY <1>2 DEF Inserted
  <2>3. r \in RowType
    BY DEF RowType, SplitParameters
  <2> HIDE DEF s
  <2> QED
    BY <2>1, <2>2, <2>3 DEF EnqueuedTo, Empty, s
<1>3. CASE Room /\ rows' = Inserted(key, seeds)
  BY <1>2, <1>3, FreeSlotFree
<1>4. CASE Room /\ rows' = Inserted(Append(key, <<0, FreeSlot>>), seeds)
  BY <1>2, <1>4, FreeSlotFree, KeyType
<1> QED
  BY <1>1, <1>3, <1>4 DEF Enqueue

LEMMA EnqueuedType ==
  ASSUME rows \in [Slots -> RowType], NEW s \in Slots, NEW seeds, EnqueuedTo(s, seeds)
  PROVE  rows' \in [Slots -> RowType] /\ \A u \in Slots \ {s} : rows'[u] = rows[u]
BY DEF EnqueuedTo

---------------------------------------------------------------------------
(* Type correctness                                                        *)

LEMMA SplitInitTyped == ASSUME SplitParameters PROVE Init => SplitTypeOK
<1>1. Resting \in WorkerType
  BY EmptyType DEF Resting, WorkerType
<1> QED
  BY <1>1, EmptyType DEF Init, SplitTypeOK

LEMMA GoesType ==
  ASSUME worker \in [Workers -> WorkerType], NEW w \in Workers,
         NEW to \in {"idle", "claimed", "split", "whole", "failed"}, Goes(w, to)
  PROVE  worker' \in [Workers -> WorkerType]
BY DEF Goes, WorkerType

LEMMA RowChangedType ==
  ASSUME rows \in [Slots -> RowType], NEW s \in Slots \cup {0}, NEW r \in RowType,
         rows' = [rows EXCEPT ![s] = r]
  PROVE  rows' \in [Slots -> RowType]
OBVIOUS

LEMMA SplitStepTyped == SplitParameters /\ SplitTypeOK /\ [Next]_vars => SplitTypeOK'
<1> SUFFICES ASSUME SplitParameters, SplitTypeOK, [Next]_vars PROVE SplitTypeOK'
  OBVIOUS
<1> USE DEF SplitTypeOK
<1>1. Resting \in WorkerType /\ Empty \in RowType
  BY EmptyType DEF Resting, WorkerType
<1>2. \A w \in Workers : worker[w].slot \in Slots \cup {0} /\ worker[w].task \in RowType
  BY DEF WorkerType
<1>3. ASSUME NEW w \in Workers, worker' = [worker EXCEPT ![w] = Resting]
      PROVE  worker' \in [Workers -> WorkerType]
  BY <1>1, <1>3
<1>4. ASSUME NEW seeds \in SUBSET Records, Write(seeds) PROVE SplitTypeOK'
  <2>1. <<>> \in Key
    BY DEF Key
  <2> QED
    BY <1>4, <2>1, EnqueueRow, EnqueuedType DEF Write
<1>5. ASSUME NEW w \in Workers, NEW s \in Slots, Claim(w, s) PROVE SplitTypeOK'
  <2> DEFINE r == [rows[s] EXCEPT !.status = "processing", !.by = w]
  <2>1. r \in RowType
    BY DEF RowType
  <2>2. rows' = [rows EXCEPT ![s] = r]
    BY <1>5 DEF Claim
  <2>3. rows' \in [Slots -> RowType]
    BY <2>1, <2>2
  <2>4. [at |-> "claimed", slot |-> s, task |-> rows'[s], part |-> 0] \in WorkerType
    BY <2>3 DEF WorkerType
  <2> QED
    BY <1>5, <2>3, <2>4 DEF Claim
<1>6. ASSUME NEW w \in Workers, StartSplit(w) \/ SplitFails(w) \/ RunFails(w)
      PROVE SplitTypeOK'
  BY <1>6, GoesType DEF StartSplit, SplitFails, RunFails
<1>7. ASSUME NEW w \in Workers, EnqueuePart(w) PROVE SplitTypeOK'
  <2> DEFINE task == worker[w].task
             i == worker[w].part + 1
             n == PartCount(task.seeds)
  <2>1. task \in RowType /\ task.key \in Key /\ task.seeds \in SUBSET Records /\ i \in Nat
    BY DEF WorkerType, RowType
  <2>2. n \in Nat
    BY <2>1, PartCountType
  <2>3. Append(task.key, <<i, n>>) \in Key /\ Part(task.seeds, i) \in SUBSET Records
    BY <2>1, <2>2, KeyType DEF Part
  <2>4. Enqueue(Append(task.key, <<i, n>>), Part(task.seeds, i))
    BY <1>7 DEF EnqueuePart
  <2>5. rows' \in [Slots -> RowType]
    BY <2>3, <2>4, EnqueueRow, EnqueuedType
  <2>6. worker' = [worker EXCEPT ![w].part = i]
    BY <1>7 DEF EnqueuePart
  <2>7. worker' \in [Workers -> WorkerType]
    BY <2>1, <2>6 DEF WorkerType
  <2> QED
    BY <1>7, <2>5, <2>7 DEF EnqueuePart
<1>8. ASSUME NEW w \in Workers, EndSplit(w) PROVE SplitTypeOK'
  BY <1>1, <1>2, <1>3, <1>8, GoesType DEF EndSplit
<1>9. ASSUME NEW w \in Workers, Run(w) PROVE SplitTypeOK'
  BY <1>1, <1>2, <1>3, <1>9 DEF Run
<1>10. ASSUME NEW w \in Workers, MarkFailed(w) PROVE SplitTypeOK'
  <2> DEFINE task == worker[w].task
             s == worker[w].slot
             r == [rows[s] EXCEPT !.status = "pending", !.by = NoWorker,
                                 !.attempts = task.attempts + 1]
  <2>1. s \in Slots \cup {0} /\ task \in RowType
    BY <1>2
  <2>2. \/ rows' = rows
        \/ rows' = [rows EXCEPT ![s] = Empty]
        \/ ~LastAttempt(task) /\ rows' = [rows EXCEPT ![s] = r]
    BY <1>10, Zenon DEF MarkFailed
  <2>3. s \in Slots /\ ~LastAttempt(task) => r \in RowType
    <3> SUFFICES ASSUME s \in Slots, ~LastAttempt(task) PROVE r \in RowType
      OBVIOUS
    <3>1. task.attempts + 1 \in 0 .. MaxAttempts - 1
      BY <2>1 DEF LastAttempt, RowType, SplitParameters
    <3>2. rows[s] \in RowType
      OBVIOUS
    <3> HIDE DEF task, s
    <3> QED
      BY <3>1, <3>2 DEF RowType
  <2> HIDE DEF s, r
  <2>4. rows' \in [Slots -> RowType]
    BY <1>1, <2>1, <2>2, <2>3
  <2> QED
    BY <1>3, <1>10, <2>4 DEF MarkFailed
<1>11. ASSUME NEW s \in Slots, LeaseEnds(s) PROVE SplitTypeOK'
  BY <1>11 DEF LeaseEnds, RowType
<1>12. ASSUME NEW w \in Workers, Crash(w) PROVE SplitTypeOK'
  BY <1>3, <1>12 DEF Crash
<1>13. CASE UNCHANGED vars
  BY <1>13 DEF vars
<1> QED
  BY <1>4, <1>5, <1>6, <1>7, <1>8, <1>9, <1>10, <1>11, <1>12, <1>13
  DEF Next, WorkerStep, LeaseStep

\* Rows, and what workers read of them, are well formed, and no row that waits or
\* is worked on has spent its attempts.
THEOREM SplitTypeCorrect == ASSUME SplitParameters PROVE Spec => []SplitTypeOK
BY SplitInitTyped, SplitStepTyped, PTL DEF Spec

---------------------------------------------------------------------------
(* Where the records are                                                   *)

\* The part of its task a worker splits that record r is in was enqueued.
Started(w, r) == \E i \in 1 .. worker[w].part : r \in Part(worker[w].task.seeds, i)

Splits(w, s) == worker[w].at = "split" /\ worker[w].slot = s /\ Owns(w)

\* Row s has r and goes on having it: no worker is about to delete the row for
\* the reason that r is in another one.
Solid(s, r) == r \in rows[s].seeds /\ \A w \in Workers : Splits(w, s) => ~Started(w, r)

\* What the split needs: not only that some row has the record, but that one has
\* it whose deletion does not count on another.
SolidKept == \A r \in stale : r \in given \/ \E s \in Slots : Solid(s, r)

\* A worker that owns a row read the seeds the row has; before it splits it has
\* enqueued no part.
OwnerReads ==
  \A w \in Workers :
    /\ worker[w].at # "idle" => worker[w].slot \in Slots
    /\ worker[w].at # "idle" /\ Owns(w) => rows[worker[w].slot].seeds = worker[w].task.seeds
    /\ worker[w].at = "claimed" => worker[w].part = 0

SplitInv == SplitTypeOK /\ OwnerReads /\ SolidKept

LEMMA SplitInitHolds == ASSUME SplitParameters PROVE Init => SplitInv
<1>1. Init => OwnerReads /\ SolidKept
  BY DEF Init, OwnerReads, SolidKept, Resting
<1> QED
  BY <1>1, SplitInitTyped DEF SplitInv

\* Only parts of the seeds are ever taken for enqueued, and all of them at the end.
LEMMA StartedAll ==
  ASSUME SplitParameters, SplitTypeOK, NEW w \in Workers, AllEnqueued(w),
         NEW r \in worker[w].task.seeds
  PROVE  Started(w, r)
<1>1. worker[w].task.seeds \in SUBSET Records
  BY DEF SplitTypeOK, WorkerType, RowType
<1> QED
  BY <1>1, PartsCover DEF Started, AllEnqueued

\* Worker w goes on, and neither rows nor other workers change.
LEMMA WorkerMoves ==
  ASSUME SplitTypeOK, OwnerReads, SolidKept, NEW w \in Workers,
         rows' = rows, given \subseteq given', stale' \subseteq stale,
         \A v \in Workers \ {w} : worker'[v] = worker[v],
         \/ worker'[w].at = "idle"
         \/ /\ worker[w].at # "idle"
            /\ worker'[w].at # "claimed"
            /\ worker'[w].slot = worker[w].slot /\ worker'[w].task = worker[w].task
            /\ worker'[w].part = worker[w].part
            /\ worker'[w].at = "split" => worker[w].part = 0
  PROVE  OwnerReads' /\ SolidKept'
<1>1. OwnerReads'
  BY DEF OwnerReads, Owns
<1>2. \A s \in Slots, v \in Workers, r \in stale : Splits(v, s)' /\ Started(v, r)' => Splits(v, s) /\ Started(v, r)
  BY DEF Splits, Started, Owns
<1>3. \A s \in Slots, r \in stale : Solid(s, r) => Solid(s, r)'
  BY <1>2 DEF Solid
<1> QED
  BY <1>1, <1>3 DEF SolidKept

\* Row s, which worker w owns, is emptied: what it had is settled, or in a row
\* that is solid without it.
LEMMA RowDeleted ==
  ASSUME SplitTypeOK, OwnerReads, SolidKept, NEW w \in Workers, NEW s \in Slots,
         worker[w].at # "idle", worker[w].slot = s, Owns(w),
         rows' = [rows EXCEPT ![s] = Empty], worker' = [worker EXCEPT ![w] = Resting],
         given \subseteq given', stale' \subseteq stale,
         \A r \in worker[w].task.seeds :
            r \in stale' => r \in given' \/ (Splits(w, s) /\ Started(w, r))
  PROVE  OwnerReads' /\ SolidKept'
<1>1. /\ \A u \in Slots \ {s} : rows'[u] = rows[u]
      /\ rows'[s] = Empty
      /\ \A v \in Workers \ {w} : worker'[v] = worker[v]
      /\ worker'[w] = Resting
  BY DEF SplitTypeOK
<1>2. rows[s].seeds = worker[w].task.seeds
  BY DEF OwnerReads
<1>3. OwnerReads'
  BY <1>1 DEF OwnerReads, Owns, Empty, Resting
<1>4. ASSUME NEW r \in stale', r \notin given'
      PROVE  \E u \in Slots : Solid(u, r)'
  <2>1. PICK u \in Slots : Solid(u, r)
    BY <1>4 DEF SolidKept
  <2>2. u # s
    BY <1>2, <1>4, <2>1 DEF Solid
  <2>3. \A v \in Workers : Splits(v, u)' => Splits(v, u) /\ v # w
    BY <1>1, <2>2 DEF Splits, Owns, Resting
  <2>4. Solid(u, r)'
    BY <1>1, <2>1, <2>2, <2>3 DEF Solid, Started
  <2> QED
    BY <2>4
<1> QED
  BY <1>3, <1>4 DEF SolidKept

\* Seeds are put into a row that waits, and no worker but w, which may have
\* started one more part with just these seeds, changes.
LEMMA RowEnqueued ==
  ASSUME SplitTypeOK, OwnerReads, SolidKept, NEW s \in Slots, NEW seeds \in SUBSET Records,
         EnqueuedTo(s, seeds),
         \A v \in Workers : /\ worker'[v].at = worker[v].at
                            /\ worker'[v].slot = worker[v].slot
                            /\ worker'[v].task = worker[v].task
                            /\ worker[v].at = "claimed" => worker'[v].part = worker[v].part,
         \A v \in Workers, r \in Records : Started(v, r)' => Started(v, r) \/ r \in seeds,
         \A r \in stale' \ seeds : r \in stale /\ (r \in given => r \in given'),
         stale' \subseteq Records
  PROVE  OwnerReads' /\ SolidKept'
<1>1. /\ \A u \in Slots \ {s} : rows'[u] = rows[u]
      /\ rows'[s].status = "pending" /\ rows[s].status # "processing"
      /\ seeds \cup rows[s].seeds \subseteq rows'[s].seeds
  BY DEF EnqueuedTo, SplitTypeOK
<1>2. \A v \in Workers : worker[v].at # "idle" => (Owns(v)' => Owns(v) /\ worker[v].slot # s)
  BY <1>1 DEF OwnerReads, Owns
<1>3. OwnerReads'
  BY <1>1, <1>2 DEF OwnerReads
<1>4. \A v \in Workers, u \in Slots : Splits(v, u)' => Splits(v, u) /\ u # s
  BY <1>2 DEF Splits
<1>5. ASSUME NEW r \in stale' PROVE r \in given' \/ \E u \in Slots : Solid(u, r)'
  <2>1. CASE r \in seeds
    <3>1. Solid(s, r)'
      BY <1>1, <1>4, <2>1 DEF Solid
    <3> QED
      BY <3>1
  <2>2. CASE r \notin seeds /\ r \notin given
    <3>1. PICK u \in Slots : Solid(u, r)
      BY <2>2 DEF SolidKept
    <3>2. r \in rows'[u].seeds
      BY <1>1, <3>1 DEF Solid
    <3>3. \A v \in Workers : Splits(v, u)' => ~Started(v, r)'
      BY <1>4, <2>2, <3>1 DEF Solid
    <3>4. Solid(u, r)'
      BY <3>2, <3>3 DEF Solid
    <3> QED
      BY <3>4
  <2>3. CASE r \notin seeds /\ r \in given
    BY <2>3
  <2> QED
    BY <2>1, <2>2, <2>3
<1> QED
  BY <1>3, <1>5 DEF SolidKept

\* Rows keep their seeds, and no worker gains a row it splits.
LEMMA RowKeepsSeeds ==
  ASSUME SolidKept,
         \A u \in Slots : rows'[u].seeds = rows[u].seeds,
         \A v \in Workers, u \in Slots, r \in stale :
            Splits(v, u)' /\ Started(v, r)' => Splits(v, u) /\ Started(v, r),
         stale' \subseteq stale, given \subseteq given'
  PROVE  SolidKept'
<1>1. \A u \in Slots, r \in stale : Solid(u, r) => Solid(u, r)'
  BY DEF Solid
<1> QED
  BY <1>1 DEF SolidKept

LEMMA HoldsWrite ==
  ASSUME SplitParameters, SplitInv, NEW seeds \in SUBSET Records, Write(seeds)
  PROVE  OwnerReads' /\ SolidKept'
<1>1. <<>> \in Key
  BY DEF Key
<1>2. PICK s \in Slots : EnqueuedTo(s, seeds)
  BY <1>1, EnqueueRow DEF Write, SplitInv, SplitTypeOK
<1>3. worker' = worker /\ stale' = stale \cup seeds /\ given' = given \ seeds
  BY DEF Write
<1>4. \A v \in Workers, r \in Records : Started(v, r)' => Started(v, r)
  BY <1>3 DEF Started
<1>5. stale' \subseteq Records
  BY <1>3 DEF SplitInv, SplitTypeOK
<1> QED
  BY <1>2, <1>3, <1>4, <1>5, RowEnqueued DEF SplitInv

LEMMA HoldsEnqueuePart ==
  ASSUME SplitParameters, SplitInv, NEW w \in Workers, EnqueuePart(w)
  PROVE  OwnerReads' /\ SolidKept'
<1> DEFINE task == worker[w].task
           i == worker[w].part + 1
           n == PartCount(task.seeds)
           seeds == Part(task.seeds, i)
<1>1. task.key \in Key /\ task.seeds \in SUBSET Records /\ i \in Nat /\ worker[w].part \in Nat
  BY DEF SplitInv, SplitTypeOK, WorkerType, RowType
<1>2. n \in Nat
  BY <1>1, PartCountType
<1>3. Append(task.key, <<i, n>>) \in Key /\ seeds \in SUBSET Records
  BY <1>1, <1>2, KeyType DEF Part
<1>4. Enqueue(Append(task.key, <<i, n>>), seeds)
  BY DEF EnqueuePart
<1>5. PICK s \in Slots : EnqueuedTo(s, seeds)
  BY <1>3, <1>4, EnqueueRow DEF SplitInv, SplitTypeOK
<1>6. worker' = [worker EXCEPT ![w].part = i] /\ worker[w].at = "split"
      /\ stale' = stale /\ given' = given
  BY DEF EnqueuePart
<1>7. \A v \in Workers : /\ worker'[v].at = worker[v].at
                         /\ worker'[v].slot = worker[v].slot
                         /\ worker'[v].task = worker[v].task
                         /\ worker'[v].part = IF v = w THEN i ELSE worker[v].part
  BY <1>6 DEF SplitInv, SplitTypeOK, WorkerType
<1>8. ASSUME NEW v \in Workers, NEW r \in Records, Started(v, r)'
      PROVE  Started(v, r) \/ r \in seeds
  <2>1. PICK j \in 1 .. worker'[v].part : r \in Part(worker'[v].task.seeds, j)
    BY <1>8 DEF Started
  <2>2. r \in Part(worker[v].task.seeds, j)
    BY <1>7, <2>1
  <2>3. CASE v = w /\ j = i
    BY <2>2, <2>3
  <2>4. CASE v # w \/ j # i
    <3>1. j \in 1 .. worker[v].part
      BY <1>1, <1>7, <2>1, <2>4
    <3> QED
      BY <2>2, <3>1 DEF Started
  <2> QED
    BY <2>3, <2>4
<1>9. stale' \subseteq Records
  BY <1>6 DEF SplitInv, SplitTypeOK
<1> HIDE DEF seeds
<1> QED
  BY <1>3, <1>5, <1>6, <1>7, <1>8, <1>9, RowEnqueued DEF SplitInv

LEMMA HoldsClaim ==
  ASSUME SplitParameters, SplitInv, NEW w \in Workers, NEW s \in Slots, Claim(w, s)
  PROVE  OwnerReads' /\ SolidKept'
<1> USE DEF SplitInv
<1>1. /\ worker[w].at = "idle"
      /\ rows[s].status = "processing" => rows[s].by = NoWorker
      /\ stale' = stale /\ given' = given
  BY DEF Claim, MayClaim
<1>2. /\ rows'[s].status = "processing" /\ rows'[s].by = w /\ rows'[s].seeds = rows[s].seeds
      /\ \A u \in Slots \ {s} : rows'[u] = rows[u]
  BY DEF Claim, SplitTypeOK, RowType
<1>3. /\ worker'[w] = [at |-> "claimed", slot |-> s, task |-> rows'[s], part |-> 0]
      /\ \A v \in Workers \ {w} : worker'[v] = worker[v]
  BY DEF Claim, SplitTypeOK
<1>4. \A v \in Workers \ {w} : worker[v].at # "idle" => (Owns(v)' <=> Owns(v)) /\ (Owns(v) => worker[v].slot # s)
  BY <1>1, <1>2, <1>3 DEF Owns, OwnerReads, SplitParameters
<1>5. OwnerReads'
  BY <1>2, <1>3, <1>4 DEF OwnerReads
<1>6. \A v \in Workers, u \in Slots, r \in stale :
         Splits(v, u)' /\ Started(v, r)' => Splits(v, u) /\ Started(v, r)
  BY <1>3, <1>4 DEF Splits, Started
<1>7. \A u \in Slots : rows'[u].seeds = rows[u].seeds
  BY <1>2
<1> QED
  BY <1>1, <1>5, <1>6, <1>7, RowKeepsSeeds

LEMMA HoldsRun ==
  ASSUME SplitParameters, SplitInv, NEW w \in Workers, Run(w)
  PROVE  OwnerReads' /\ SolidKept'
<1> USE DEF SplitInv
<1>1. /\ worker[w].at # "idle" /\ worker' = [worker EXCEPT ![w] = Resting]
      /\ stale' = stale \ worker[w].task.seeds /\ given' = given
  BY DEF Run, Runs
<1>2. worker[w].slot \in Slots
  BY <1>1 DEF OwnerReads
<1>3. CASE Owns(w)
  BY <1>1, <1>2, <1>3, RowDeleted DEF Run
<1>4. CASE ~Owns(w)
  BY <1>1, <1>4, WorkerMoves DEF Run, SplitTypeOK, Resting
<1> QED
  BY <1>3, <1>4

LEMMA HoldsEndSplit ==
  ASSUME SplitParameters, SplitInv, NEW w \in Workers, EndSplit(w)
  PROVE  OwnerReads' /\ SolidKept'
<1> USE DEF SplitInv
<1>1. /\ worker[w].at = "split" /\ AllEnqueued(w)
      /\ stale' = stale /\ given' = given
  BY DEF EndSplit
<1>2. worker[w].slot \in Slots
  BY <1>1 DEF OwnerReads
<1>3. CASE Owns(w)
  <2>1. rows' = [rows EXCEPT ![worker[w].slot] = Empty] /\ worker' = [worker EXCEPT ![w] = Resting]
    BY <1>3 DEF EndSplit
  <2>2. \A r \in worker[w].task.seeds : Splits(w, worker[w].slot) /\ Started(w, r)
    BY <1>1, <1>3, StartedAll DEF Splits
  <2> QED
    BY <1>1, <1>2, <1>3, <2>1, <2>2, RowDeleted
<1>4. CASE ~Owns(w)
  <2>1. rows' = rows /\ worker' = [worker EXCEPT ![w].at = "whole"]
    BY <1>4 DEF EndSplit, Goes
  <2>2. /\ worker'[w].at = "whole"
        /\ worker'[w].slot = worker[w].slot /\ worker'[w].task = worker[w].task
        /\ worker'[w].part = worker[w].part
        /\ \A v \in Workers \ {w} : worker'[v] = worker[v]
    BY <2>1 DEF SplitTypeOK, WorkerType
  <2> QED
    BY <1>1, <2>1, <2>2, WorkerMoves
<1> QED
  BY <1>3, <1>4

LEMMA HoldsGoes ==
  ASSUME SplitParameters, SplitInv, NEW w \in Workers, StartSplit(w) \/ SplitFails(w) \/ RunFails(w)
  PROVE  OwnerReads' /\ SolidKept'
<1> USE DEF SplitInv
<1>1. PICK to \in {"split", "failed"} :
         /\ Goes(w, to) /\ worker[w].at # "idle"
         /\ to = "split" => worker[w].at = "claimed"
  BY DEF StartSplit, SplitFails, RunFails, Runs
<1>2. rows' = rows /\ given' = given /\ stale' = stale
  BY DEF StartSplit, SplitFails, RunFails
<1>3. /\ worker'[w].at = to
      /\ worker'[w].slot = worker[w].slot /\ worker'[w].task = worker[w].task
      /\ worker'[w].part = worker[w].part
      /\ \A v \in Workers \ {w} : worker'[v] = worker[v]
  BY <1>1 DEF Goes, SplitTypeOK, WorkerType
<1>4. to = "split" => worker[w].part = 0
  BY <1>1 DEF OwnerReads
<1> QED
  BY <1>1, <1>2, <1>3, <1>4, WorkerMoves

LEMMA HoldsMarkFailed ==
  ASSUME SplitParameters, SplitInv, NEW w \in Workers, MarkFailed(w)
  PROVE  OwnerReads' /\ SolidKept'
<1> USE DEF SplitInv
<1> DEFINE task == worker[w].task
           s == worker[w].slot
           r == [rows[s] EXCEPT !.status = "pending", !.by = NoWorker,
                               !.attempts = task.attempts + 1]
<1>1. /\ worker[w].at = "failed" /\ worker' = [worker EXCEPT ![w] = Resting]
      /\ stale' = stale /\ given \subseteq given'
  BY DEF MarkFailed
<1>2. s \in Slots
  BY <1>1 DEF OwnerReads
<1>3. \A v \in Workers \ {w} : worker'[v] = worker[v]
  BY <1>1 DEF SplitTypeOK
<1>4. worker'[w].at = "idle"
  BY <1>1 DEF SplitTypeOK, Resting
<1>5. CASE rows' = rows
  BY <1>1, <1>3, <1>4, <1>5, WorkerMoves
<1>6. CASE Owns(w) /\ LastAttempt(task)
  <2>1. rows' = [rows EXCEPT ![s] = Empty] /\ given' = given \cup task.seeds
    BY <1>6 DEF MarkFailed
  <2>2. /\ \A q \in task.seeds : q \in given'
        /\ stale' \subseteq stale /\ worker[w].at # "idle"
    BY <1>1, <2>1
  <2> QED
    BY <1>1, <1>2, <1>6, <2>1, <2>2, RowDeleted
<1>7. CASE Owns(w) /\ rows' = [rows EXCEPT ![s] = r]
  <2> HIDE DEF s
  <2>1. /\ rows'[s].status = "pending" /\ rows'[s].seeds = rows[s].seeds
        /\ \A u \in Slots \ {s} : rows'[u] = rows[u]
    BY <1>2, <1>7 DEF SplitTypeOK, RowType
  <2>2. \A v \in Workers : worker'[v].at # "idle" => v # w /\ (Owns(v)' => Owns(v) /\ worker[v].slot # s)
    BY <1>3, <1>4, <2>1 DEF Owns, OwnerReads
  <2>3. OwnerReads'
    BY <1>3, <1>4, <2>1, <2>2 DEF OwnerReads
  <2>4. \A v \in Workers, u \in Slots, q \in stale :
           Splits(v, u)' /\ Started(v, q)' => Splits(v, u) /\ Started(v, q)
    BY <1>3, <2>2 DEF Splits, Started
  <2>5. \A u \in Slots : rows'[u].seeds = rows[u].seeds
    BY <2>1
  <2> QED
    BY <1>1, <2>3, <2>4, <2>5, RowKeepsSeeds
<1> QED
  BY <1>5, <1>6, <1>7, Zenon DEF MarkFailed

LEMMA HoldsLeaseEnds ==
  ASSUME SplitParameters, SplitInv, NEW s \in Slots, LeaseEnds(s)
  PROVE  OwnerReads' /\ SolidKept'
<1> USE DEF SplitInv
<1>1. worker' = worker /\ stale' = stale /\ given' = given
  BY DEF LeaseEnds
<1>2. /\ rows'[s].by = NoWorker /\ rows'[s].seeds = rows[s].seeds
      /\ \A u \in Slots \ {s} : rows'[u] = rows[u]
  BY DEF LeaseEnds, SplitTypeOK, RowType
<1>3. \A v \in Workers : worker[v].at # "idle" => (Owns(v)' => Owns(v) /\ worker[v].slot # s)
  BY <1>1, <1>2 DEF Owns, OwnerReads, SplitParameters
<1>4. OwnerReads'
  BY <1>1, <1>2, <1>3 DEF OwnerReads
<1>5. \A v \in Workers, u \in Slots, q \in stale :
         Splits(v, u)' /\ Started(v, q)' => Splits(v, u) /\ Started(v, q)
  BY <1>1, <1>3 DEF Splits, Started
<1>6. \A u \in Slots : rows'[u].seeds = rows[u].seeds
  BY <1>2
<1> QED
  BY <1>1, <1>4, <1>5, <1>6, RowKeepsSeeds

LEMMA SplitStepHolds == ASSUME SplitParameters, SplitInv, [Next]_vars PROVE SplitInv'
<1>1. SplitTypeOK'
  BY SplitStepTyped DEF SplitInv
<1>2. ASSUME NEW w \in Workers, Crash(w) PROVE OwnerReads' /\ SolidKept'
  <2>1. /\ rows' = rows /\ given \subseteq given' /\ stale' \subseteq stale
        /\ worker'[w].at = "idle" /\ \A v \in Workers \ {w} : worker'[v] = worker[v]
    BY <1>2 DEF Crash, SplitInv, SplitTypeOK, Resting
  <2> QED
    BY <2>1, WorkerMoves DEF SplitInv
<1>3. CASE UNCHANGED vars
  <2>1. /\ rows' = rows /\ worker' = worker /\ stale' = stale /\ given' = given
    BY <1>3 DEF vars
  <2>2. OwnerReads'
    BY <2>1 DEF SplitInv, OwnerReads, Owns
  <2>3. \A v \in Workers, u \in Slots, q \in stale :
           Splits(v, u)' /\ Started(v, q)' => Splits(v, u) /\ Started(v, q)
    BY <2>1 DEF Splits, Started, Owns
  <2> QED
    BY <1>1, <2>1, <2>2, <2>3, RowKeepsSeeds DEF SplitInv
<1> QED
  BY <1>1, <1>2, <1>3, HoldsWrite, HoldsEnqueuePart, HoldsClaim, HoldsRun,
     HoldsEndSplit, HoldsGoes, HoldsMarkFailed, HoldsLeaseEnds
  DEF Next, WorkerStep, LeaseStep, SplitInv

\* However a split is interrupted, repeated or taken over, a record that is not
\* up to date is in a row of the outbox or in the dead letters.
THEOREM SplitAlwaysKeepsRecords ==
  ASSUME SplitParameters PROVE Spec => []SplitKeepsRecords
<1>1. SplitInv => SplitKeepsRecords
  BY DEF SplitInv, SolidKept, Solid, SplitKeepsRecords
<1> QED
  BY <1>1, SplitInitHolds, SplitStepHolds, PTL DEF Spec

---------------------------------------------------------------------------
(***************************************************************************)
(* BaseAdmission: for any number of owners, any capacity and any lease,    *)
(* what a process believes of its permit ends before the permit does, and  *)
(* no more handlers work at a time than the capacity allows.               *)
(*                                                                         *)
(* The belief is compared with the permit at every instant, also while the *)
(* scripts and their answers are on their way: a permit is granted for a   *)
(* full lease when the belief has already aged, and a renewal sets it to a *)
(* full lease when the instant the belief will count from has aged.        *)
(***************************************************************************)

\* What the code sets: a capacity and a lease above zero.
BaseParameters == IsFiniteSet(Owners) /\ Capacity \in Nat /\ Lease \in Nat

BaseStep == [Base!Next]_(Base!vars)

(* Type correctness *)

LEMMA BaseLostTyped ==
  ASSUME lost \in [Owners -> BOOLEAN], NEW o \in Owners, NEW b \in BOOLEAN
  PROVE  [lost EXCEPT ![o] = b] \in [Owners -> BOOLEAN]
  BY Zenon

LEMMA BaseInitTyped == BaseParameters /\ Base!Init => Base!TypeOK
  BY DEF BaseParameters, Base!Init, Base!TypeOK

LEMMA BaseStepTyped == BaseParameters /\ Base!TypeOK /\ BaseStep => Base!TypeOK'
<1> SUFFICES ASSUME BaseParameters, Base!TypeOK, BaseStep PROVE Base!TypeOK'
  OBVIOUS
<1> USE DEF BaseParameters, Base!TypeOK
<1>1. CASE UNCHANGED Base!vars
  BY <1>1 DEF Base!vars
<1>2. CASE Base!Tick
  BY <1>2 DEF Base!Tick, Base!Less
<1>3. ASSUME NEW o \in Owners, Base!Ask(o) PROVE Base!TypeOK'
  <2>1. lost' \in [Owners -> BOOLEAN]
    BY <1>3, BaseLostTyped DEF Base!Ask
  <2> QED
    BY <1>3, <2>1 DEF Base!Ask
<1>4. ASSUME NEW o \in Owners, Base!Granted(o) \/ Base!AnswerLost(o) PROVE Base!TypeOK'
  BY <1>4 DEF Base!Granted, Base!AnswerLost
<1>5. ASSUME NEW o \in Owners, Base!Acquire(o) PROVE Base!TypeOK'
  BY <1>5 DEF Base!Acquire
<1>6. ASSUME NEW o \in Owners, Base!SendRenewal(o) \/ Base!Renew(o) PROVE Base!TypeOK'
  BY <1>6 DEF Base!SendRenewal, Base!Renew
<1>7. ASSUME NEW o \in Owners, Base!RenewalAnswered(o) PROVE Base!TypeOK'
  <2>1. lost' = lost \/ lost' = [lost EXCEPT ![o] = TRUE]
    BY <1>7 DEF Base!RenewalAnswered
  <2>2. lost' \in [Owners -> BOOLEAN]
    BY <2>1, BaseLostTyped
  <2>3. active' \in [Owners -> 0 .. Lease]
    BY <1>7 DEF Base!RenewalAnswered, Base!ActiveAfter
  <2> QED
    BY <1>7, <2>2, <2>3 DEF Base!RenewalAnswered
<1>8. ASSUME NEW o \in Owners, Base!RenewalFails(o) PROVE Base!TypeOK'
  <2>1. lost' \in [Owners -> BOOLEAN]
    BY <1>8, BaseLostTyped DEF Base!RenewalFails
  <2> QED
    BY <1>8, <2>1 DEF Base!RenewalFails
<1>9. ASSUME NEW o \in Owners, Base!Leave(o) \/ Base!Killed(o) PROVE Base!TypeOK'
  BY <1>9 DEF Base!Leave, Base!Killed
<1>10. ASSUME NEW o \in Owners, Base!Forget(o) PROVE Base!TypeOK'
  <2>1. lost' \in [Owners -> BOOLEAN]
    BY <1>10, BaseLostTyped DEF Base!Forget
  <2> QED
    BY <1>10, <2>1 DEF Base!Forget
<1> QED
  BY <1>1, <1>2, <1>3, <1>4, <1>5, <1>6, <1>7, <1>8, <1>9, <1>10
  DEF BaseStep, Base!Next, Base!OwnerStep

\* Permits, beliefs and renewals stay within a lease.
THEOREM BaseTypeCorrect == ASSUME BaseParameters PROVE Base!Spec => []Base!TypeOK
  BY BaseInitTyped, BaseStepTyped, PTL DEF Base!Spec, BaseStep

-----------------------------------------------------------------------------
(* The belief *)

\* Nothing is left of the renewals of an earlier owner when a permit is granted.
RenewsInside ==
    \A o \in Owners : at[o] \in {"idle", "asking", "granted"} => renewal[o] = "none"

BaseInv == Base!TypeOK /\ RenewsInside /\ BeliefOutlived

LEMMA BaseInitHolds == BaseParameters /\ Base!Init => BaseInv
  BY BaseInitTyped DEF BaseParameters, Base!Init, BaseInv, RenewsInside, BeliefOutlived

LEMMA StepRenewsInside == Base!TypeOK /\ RenewsInside /\ BaseStep => RenewsInside'
<1> SUFFICES ASSUME Base!TypeOK, RenewsInside, BaseStep PROVE RenewsInside'
  OBVIOUS
<1> USE DEF Base!TypeOK, RenewsInside
<1>1. CASE UNCHANGED Base!vars \/ Base!Tick
  BY <1>1 DEF Base!vars, Base!Tick
<1>2. ASSUME NEW o \in Owners, Base!Ask(o) \/ Base!Acquire(o) \/ Base!Granted(o) \/ Base!AnswerLost(o)
      PROVE RenewsInside'
  BY <1>2 DEF Base!Ask, Base!Acquire, Base!Granted, Base!AnswerLost
<1>3. ASSUME NEW o \in Owners, Base!SendRenewal(o) \/ Base!Renew(o) PROVE RenewsInside'
  BY <1>3 DEF Base!SendRenewal, Base!Renew
<1>4. ASSUME NEW o \in Owners, Base!RenewalAnswered(o) \/ Base!RenewalFails(o)
      PROVE RenewsInside'
  BY <1>4 DEF Base!RenewalAnswered, Base!RenewalFails
<1>5. ASSUME NEW o \in Owners, Base!Leave(o) \/ Base!Killed(o) \/ Base!Forget(o)
      PROVE RenewsInside'
  BY <1>5 DEF Base!Leave, Base!Killed, Base!Forget
<1> QED
  BY <1>1, <1>2, <1>3, <1>4, <1>5 DEF BaseStep, Base!Next, Base!OwnerStep

\* One owner at a time: what it does leaves the beliefs of the others alone.
Believes(o) ==
    /\ at[o] \in {"granted", "inside"} /\ ~lost[o] => active[o] <= permit[o]
    /\ renewal[o] = "renewed" /\ at[o] = "inside" /\ ~lost[o] => sent[o] <= permit[o]

Others(o) ==
    \A p \in Owners \ {o} :
        /\ at'[p] = at[p] /\ active'[p] = active[p] /\ permit'[p] = permit[p]
        /\ renewal'[p] = renewal[p] /\ sent'[p] = sent[p] /\ lost'[p] = lost[p]

LEMMA StepOthers ==
  ASSUME Base!TypeOK, NEW o \in Owners, Base!OwnerStep(o)
  PROVE  Others(o)
  BY DEF Base!TypeOK, Others, Base!OwnerStep, Base!Ask, Base!Acquire,
       Base!Granted, Base!AnswerLost, Base!SendRenewal, Base!Renew,
         Base!RenewalAnswered, Base!RenewalFails, Base!Leave, Base!Killed, Base!Forget

LEMMA StepBelieves == BaseParameters /\ BaseInv /\ BaseStep => BeliefOutlived'
<1> SUFFICES ASSUME BaseParameters, BaseInv, BaseStep PROVE BeliefOutlived'
  OBVIOUS
<1> USE DEF BaseParameters, Base!TypeOK, BeliefOutlived, BaseInv, RenewsInside
<1>1. CASE UNCHANGED Base!vars
  BY <1>1 DEF Base!vars
<1>2. CASE Base!Tick
  BY <1>2 DEF Base!Tick, Base!Less
<1>3. ASSUME NEW o \in Owners, Base!OwnerStep(o) PROVE BeliefOutlived'
  <2>1. SUFFICES Believes(o)'
    BY <1>3, StepOthers DEF Others, Believes
  <2> USE DEF Believes
  <2>2. CASE Base!Ask(o) \/ Base!Acquire(o)
    BY <2>2 DEF Base!Ask, Base!Acquire
  <2>3. CASE Base!Granted(o) \/ Base!AnswerLost(o)
    BY <2>3 DEF Base!Granted, Base!AnswerLost
  <2>4. CASE Base!SendRenewal(o)
    BY <2>4 DEF Base!SendRenewal
  <2>5. CASE Base!Renew(o)
    BY <2>5 DEF Base!Renew
  <2>6. CASE Base!RenewalAnswered(o)
    BY <2>6 DEF Base!RenewalAnswered, Base!ActiveAfter
  <2>7. CASE Base!RenewalFails(o)
    BY <2>7 DEF Base!RenewalFails
  <2>8. CASE Base!Leave(o) \/ Base!Killed(o) \/ Base!Forget(o)
    BY <2>8 DEF Base!Leave, Base!Killed, Base!Forget
  <2> QED
    BY <1>3, <2>2, <2>3, <2>4, <2>5, <2>6, <2>7, <2>8 DEF Base!OwnerStep
<1> QED
  BY <1>1, <1>2, <1>3 DEF BaseStep, Base!Next

\* A process stops believing in its permit before Redis gives it to another one.
THEOREM BeliefAlwaysOutlived ==
  ASSUME BaseParameters PROVE Base!Spec => []BeliefOutlived
<1>1. BaseInv /\ BaseStep => BaseInv'
  BY BaseStepTyped, StepRenewsInside, StepBelieves DEF BaseInv
<1>2. BaseInv => BeliefOutlived
  BY DEF BaseInv
<1> QED
  BY BaseInitHolds, <1>1, <1>2, PTL DEF Base!Spec, BaseStep

-----------------------------------------------------------------------------
(* The capacity *)

PermitsFit == Cardinality(Base!Held) <= Capacity

\* Only the script that acquires adds a permit.
LEMMA StepHeld ==
  ASSUME BaseParameters, Base!TypeOK, BaseStep
  PROVE  \/ Base!Held' \subseteq Base!Held
         \/ Base!Fits /\ \E o \in Owners : Base!Held' \subseteq Base!Held \cup {o}
<1> USE DEF BaseParameters, Base!TypeOK, Base!Held
<1>1. CASE UNCHANGED Base!vars
  BY <1>1 DEF Base!vars
<1>2. CASE Base!Tick
  BY <1>2 DEF Base!Tick, Base!Less
<1>3. ASSUME NEW o \in Owners, Base!Acquire(o)
      PROVE  Base!Held' \subseteq Base!Held \/ (Base!Fits /\ Base!Held' \subseteq Base!Held \cup {o})
  BY <1>3 DEF Base!Acquire
<1>4. ASSUME NEW o \in Owners, Base!Renew(o) PROVE Base!Held' \subseteq Base!Held
  BY <1>4 DEF Base!Renew
<1>5. ASSUME NEW o \in Owners, Base!Leave(o) PROVE Base!Held' \subseteq Base!Held
  BY <1>5 DEF Base!Leave
<1>6. ASSUME NEW o \in Owners, Base!OwnerStep(o), ~Base!Acquire(o), ~Base!Renew(o), ~Base!Leave(o)
      PROVE  Base!Held' \subseteq Base!Held
  BY <1>6 DEF Base!OwnerStep, Base!Ask, Base!Granted, Base!AnswerLost,
       Base!SendRenewal, Base!RenewalAnswered,
              Base!RenewalFails, Base!Killed, Base!Forget
<1> QED
  BY <1>1, <1>2, <1>3, <1>4, <1>5, <1>6 DEF BaseStep, Base!Next

\* The instance counts as the library does.
LEMMA BaseCounts == ASSUME NEW S PROVE Base!Cardinality(S) = Cardinality(S)
  BY DEF Base!Cardinality, Cardinality, Base!IsFiniteSet, IsFiniteSet

LEMMA StepFits == BaseParameters /\ Base!TypeOK /\ PermitsFit /\ BaseStep => PermitsFit'
<1> SUFFICES ASSUME BaseParameters, Base!TypeOK, PermitsFit, BaseStep PROVE PermitsFit'
  OBVIOUS
<1>1. IsFiniteSet(Base!Held) /\ Cardinality(Base!Held) \in Nat
  BY FS_Subset, FS_CardinalityType DEF BaseParameters, Base!Held
<1>2. CASE Base!Held' \subseteq Base!Held
  <2>1. IsFiniteSet(Base!Held') /\ Cardinality(Base!Held') <= Cardinality(Base!Held)
    BY <1>1, <1>2, FS_Subset
  <2>2. Cardinality(Base!Held') \in Nat
    BY <2>1, FS_CardinalityType
  <2> QED
    BY <1>1, <2>1, <2>2 DEF PermitsFit, BaseParameters
<1>3. ASSUME Base!Fits, NEW o \in Owners, Base!Held' \subseteq Base!Held \cup {o}
      PROVE PermitsFit'
  <2>9. /\ IsFiniteSet(Base!Held \cup {o})
        /\ Cardinality(Base!Held \cup {o})
             = IF o \in Base!Held THEN Cardinality(Base!Held) ELSE Cardinality(Base!Held) + 1
    BY <1>1, FS_AddElement, Zenon
  <2>1. /\ IsFiniteSet(Base!Held \cup {o})
        /\ Cardinality(Base!Held \cup {o}) \in Nat
        /\ Cardinality(Base!Held \cup {o}) <= Cardinality(Base!Held) + 1
    BY <1>1, <2>9
  <2>2. IsFiniteSet(Base!Held') /\ Cardinality(Base!Held') <= Cardinality(Base!Held \cup {o})
    BY <1>3, <2>1, FS_Subset
  <2>3. Cardinality(Base!Held') \in Nat
    BY <2>2, FS_CardinalityType
  <2>4. Cardinality(Base!Held) + 1 <= Capacity
    BY <1>1, <1>3, BaseCounts DEF BaseParameters, Base!Fits
  <2> QED
    BY <1>1, <2>1, <2>2, <2>3, <2>4 DEF PermitsFit, BaseParameters
<1> QED
  BY <1>2, <1>3, StepHeld

\* Who passes assertActive has a permit in Redis.
LEMMA ActiveHeld ==
  ASSUME Base!TypeOK, BeliefOutlived
  PROVE  {o \in Owners : Active(o)} \subseteq Base!Held
  BY DEF Base!TypeOK, BeliefOutlived, Active, Base!Held

\* However late scripts run and answers arrive, no more handlers than the capacity
\* pass assertActive at any instant.
THEOREM CapacityAlwaysKept == ASSUME BaseParameters PROVE Base!Spec => []CapacityKept
<1>1. Base!Init => BaseInv /\ PermitsFit
  <2>1. Base!Init => Base!Held = {}
    BY DEF Base!Init, Base!Held
  <2> QED
    BY <2>1, BaseInitHolds, FS_EmptySet DEF PermitsFit, BaseParameters
<1>2. BaseInv /\ PermitsFit /\ BaseStep => (BaseInv /\ PermitsFit)'
  BY BaseStepTyped, StepRenewsInside, StepBelieves, StepFits DEF BaseInv
<1>3. BaseInv /\ PermitsFit => CapacityKept
  <2> SUFFICES ASSUME BaseInv, PermitsFit PROVE CapacityKept
    OBVIOUS
  <2> DEFINE A == {o \in Owners : Active(o)}
  <2>1. IsFiniteSet(Base!Held) /\ Cardinality(Base!Held) \in Nat
    BY FS_Subset, FS_CardinalityType DEF BaseParameters, Base!Held
  <2>2. A \subseteq Base!Held
    BY ActiveHeld DEF BaseInv
  <2>3. IsFiniteSet(A) /\ Cardinality(A) <= Cardinality(Base!Held)
    BY <2>1, <2>2, FS_Subset
  <2>4. Cardinality(A) \in Nat
    BY <2>3, FS_CardinalityType
  <2> QED
    BY <2>1, <2>3, <2>4 DEF PermitsFit, CapacityKept, BaseParameters
<1> QED
  BY <1>1, <1>2, <1>3, PTL DEF Base!Spec, BaseStep

---------------------------------------------------------------------------
(***************************************************************************)
(* WebhookDelivery: a row is dead only when it was refused or posted as    *)
(* often as its budget says.                                               *)
(*                                                                         *)
(* Rounds that overlap write back counts that they read long before, so no *)
(* count says how often a row was posted; but no round ever read, or has   *)
(* in hand, a count above the posts of its row.                            *)
(***************************************************************************)

\* The database lists rows in the order of their ids, and an endpoint allows at
\* least one attempt.
WebhookParameters == DeliveryIds \subseteq Nat /\ MaxPosts \in Nat \ {0}

WebhookStep == [Webhook!Next]_(Webhook!vars)

DeliveryType ==
  [status : {"none", "pending", "delivered", "dead"}, attempt : 0 .. MaxPosts,
   due : BOOLEAN]
ItemType == [id : DeliveryIds, attempt : 0 .. MaxPosts - 1]
RoundType ==
  [todo : SUBSET ItemType, posting : BOOLEAN,
   answer : {"none", "ok", "retriable", "refused"}]

WebhookTyped ==
  /\ delivery \in [DeliveryIds -> DeliveryType]
  /\ round \in [Rounds -> RoundType]
  /\ posts \in [DeliveryIds -> 0 .. MaxPosts]
  /\ refused \subseteq DeliveryIds

\* What a row says of its attempts happened, and a row that waits has one left.
RowsPosted ==
  \A d \in DeliveryIds :
    /\ delivery[d].attempt <= posts[d]
    /\ delivery[d].status = "pending" => delivery[d].attempt < MaxPosts

\* So did what a round read of a row.
ItemsPosted ==
  \A r \in Rounds : \A t \in round[r].todo : t.attempt <= posts[t.id]

\* A round that has posted a row and not recorded it yet.
PostCounted ==
  \A r \in Rounds : round[r].posting =>
    /\ round[r].todo # {}
    /\ Webhook!Current(r).attempt + 1 <= posts[Webhook!Current(r).id]
    /\ round[r].answer = "refused" => Webhook!Current(r).id \in refused

WebhookInv == WebhookTyped /\ RowsPosted /\ ItemsPosted /\ PostCounted /\ DeadWasTried

\* A round always has a next row while it has any.
LEMMA FirstExists ==
  ASSUME WebhookParameters, NEW S \in SUBSET ItemType, S # {}
  PROVE  Webhook!First(S) \in S
<1> DEFINE R == OpToRel(<, Nat)
           T == {t.id : t \in S}
<1>1. IsWellFoundedOn(R, Nat)
  BY NatLessThanWellFounded
<1>2. T \subseteq Nat /\ T # {}
  BY DEF ItemType, WebhookParameters
<1> HIDE DEF R
<1>3. PICK n \in T : \A m \in T : ~(<<m, n>> \in R)
  BY <1>1, <1>2, WFMin
<1>4. \A m \in T : ~(m < n)
  BY <1>2, <1>3 DEF R, OpToRel
<1>5. PICK t \in S : n = t.id
  BY <1>3
<1>6. \A u \in S : t.id <= u.id
  <2> TAKE u \in S
  <2>1. ~(u.id < t.id)
    BY <1>4, <1>5
  <2>2. u.id \in Nat /\ t.id \in Nat
    BY <1>2
  <2> QED
    BY <2>1, <2>2
<1> QED
  BY <1>5, <1>6 DEF Webhook!First

LEMMA WebhookInitHolds == WebhookParameters /\ Webhook!Init => WebhookInv
<1> SUFFICES ASSUME WebhookParameters, Webhook!Init PROVE WebhookInv
  OBVIOUS
<1> USE DEF WebhookParameters, Webhook!Init, Webhook!Absent, Webhook!Resting
<1>1. WebhookTyped
  <2>1. delivery \in [DeliveryIds -> DeliveryType]
    BY DEF DeliveryType
  <2>2. round \in [Rounds -> RoundType]
    BY DEF RoundType
  <2> QED
    BY <2>1, <2>2 DEF WebhookTyped
<1>2. RowsPosted /\ ItemsPosted /\ PostCounted /\ DeadWasTried
  BY DEF RowsPosted, ItemsPosted, PostCounted, DeadWasTried
<1> QED
  BY <1>1, <1>2 DEF WebhookInv

\* Steps of producers, and the end of a backoff, write at most one row, which has
\* no more attempts than before.
LEMMA RowsAside ==
  ASSUME WebhookParameters, WebhookInv,
         \/ \E e \in Endpoints : Webhook!Enqueue(e)
         \/ \E d \in DeliveryIds : Webhook!Retry(d) \/ Webhook!FallDue(d)
  PROVE  WebhookInv'
<1> USE DEF WebhookParameters, WebhookInv
<1>1. round' = round /\ posts' = posts /\ refused' = refused
  BY DEF Webhook!Enqueue, Webhook!Retry, Webhook!FallDue
<1>2. \/ delivery' = delivery
      \/ \E d \in DeliveryIds : delivery' = [delivery EXCEPT ![d] = Webhook!NewDelivery]
      \/ \E d \in DeliveryIds : /\ delivery[d].status = "pending"
                               /\ delivery' = [delivery EXCEPT ![d].due = TRUE]
  <2>1. Webhook!Room => Webhook!FreeId \in DeliveryIds
    BY DEF Webhook!Room, Webhook!FreeId
  <2> QED
    BY <2>1 DEF Webhook!Enqueue, Webhook!Retry, Webhook!FallDue
<1>3. delivery' \in [DeliveryIds -> DeliveryType]
  <2>1. CASE delivery' = delivery
    BY <2>1 DEF WebhookTyped
  <2>2. ASSUME NEW d \in DeliveryIds, delivery' = [delivery EXCEPT ![d] = Webhook!NewDelivery]
        PROVE  delivery' \in [DeliveryIds -> DeliveryType]
    <3>1. Webhook!NewDelivery \in DeliveryType
      BY DEF Webhook!NewDelivery, DeliveryType
    <3> QED
      BY <2>2, <3>1 DEF WebhookTyped
  <2>3. ASSUME NEW d \in DeliveryIds, delivery' = [delivery EXCEPT ![d].due = TRUE]
        PROVE  delivery' \in [DeliveryIds -> DeliveryType]
    BY <2>3 DEF WebhookTyped, DeliveryType
  <2> QED
    BY <1>2, <2>1, <2>2, <2>3
<1>4. \A d \in DeliveryIds :
        \/ /\ delivery'[d].status = "pending" /\ delivery'[d].attempt = 0
        \/ /\ delivery'[d].status = delivery[d].status
           /\ delivery'[d].attempt = delivery[d].attempt
  BY <1>2 DEF WebhookTyped, DeliveryType, Webhook!NewDelivery
<1>5. WebhookTyped'
  BY <1>1, <1>3 DEF WebhookTyped
<1>6. RowsPosted'
  <2> SUFFICES ASSUME NEW d \in DeliveryIds
               PROVE  /\ delivery'[d].attempt <= posts[d]
                      /\ delivery'[d].status = "pending" => delivery'[d].attempt < MaxPosts
    BY <1>1 DEF RowsPosted
  <2>1. posts[d] \in Nat
    BY DEF WebhookTyped
  <2>2. /\ delivery[d].attempt <= posts[d]
        /\ delivery[d].status = "pending" => delivery[d].attempt < MaxPosts
    BY DEF RowsPosted
  <2>3. CASE delivery'[d].attempt = 0
    BY <2>1, <2>3
  <2> QED
    BY <1>4, <2>2, <2>3
<1>7. DeadWasTried'
  <2> SUFFICES ASSUME NEW d \in DeliveryIds, delivery'[d].status = "dead"
               PROVE  d \in refused \/ posts[d] = MaxPosts
    BY <1>1 DEF DeadWasTried
  <2>1. delivery[d].status = "dead"
    BY <1>4
  <2> QED
    BY <2>1 DEF DeadWasTried
<1>8. ItemsPosted' /\ PostCounted'
  BY <1>1 DEF ItemsPosted, PostCounted, Webhook!Current, Webhook!First
<1> QED
  BY <1>5, <1>6, <1>7, <1>8

LEMMA ListDueHolds ==
  ASSUME WebhookParameters, WebhookInv, NEW r \in Rounds, Webhook!ListDue(r)
  PROVE  WebhookInv'
<1> USE DEF WebhookParameters, WebhookInv
<1> DEFINE items == {[id |-> d, attempt |-> delivery[d].attempt] : d \in Webhook!PickDue}
<1>1. /\ delivery' = delivery /\ posts' = posts /\ refused' = refused
      /\ round' = [round EXCEPT ![r].todo = items]
      /\ round[r].posting = FALSE
  BY DEF Webhook!ListDue, Webhook!Resting
<1>2. ASSUME NEW t \in items PROVE t \in ItemType /\ t.attempt <= posts[t.id]
  <2>1. PICK d \in Webhook!PickDue : t = [id |-> d, attempt |-> delivery[d].attempt]
    OBVIOUS
  <2>2. d \in DeliveryIds /\ delivery[d].status = "pending"
    BY DEF Webhook!PickDue
  <2>3. delivery[d].attempt \in 0 .. MaxPosts /\ delivery[d].attempt < MaxPosts
    BY <2>2 DEF RowsPosted, WebhookTyped, DeliveryType
  <2> QED
    BY <2>1, <2>2, <2>3 DEF RowsPosted, ItemType
<1> HIDE DEF items
<1>3. /\ round'[r].todo = items /\ round'[r].posting = FALSE
      /\ \A q \in Rounds \ {r} : round'[q] = round[q]
  BY <1>1 DEF WebhookTyped, RoundType
<1>4. round' \in [Rounds -> RoundType]
  <2>1. items \in SUBSET ItemType
    BY <1>2
  <2> QED
    BY <1>1, <2>1 DEF WebhookTyped, RoundType
<1>5. WebhookTyped' /\ RowsPosted' /\ DeadWasTried'
  BY <1>1, <1>4 DEF WebhookTyped, RowsPosted, DeadWasTried
<1>6. ItemsPosted'
  BY <1>1, <1>2, <1>3 DEF ItemsPosted
<1>7. PostCounted'
  BY <1>1, <1>3 DEF PostCounted, Webhook!Current, Webhook!First
<1> QED
  BY <1>5, <1>6, <1>7

\* A post is counted unless the count is at the budget already.
LEMMA CountedGrows ==
  ASSUME WebhookParameters, NEW n \in 0 .. MaxPosts
  PROVE  /\ Webhook!Counted(n) \in 0 .. MaxPosts /\ n <= Webhook!Counted(n)
         /\ \A k \in 0 .. MaxPosts - 1 : k <= n => k + 1 <= Webhook!Counted(n)
         /\ n = MaxPosts => Webhook!Counted(n) = MaxPosts
  BY DEF WebhookParameters, Webhook!Counted

LEMMA PostHolds ==
  ASSUME WebhookParameters, WebhookInv, NEW r \in Rounds, NEW answer \in Webhook!Answers,
         Webhook!Post(r, answer)
  PROVE  WebhookInv'
<1> USE DEF WebhookParameters, WebhookInv
<1> DEFINE c == Webhook!Current(r)
<1>1. c \in round[r].todo /\ c \in ItemType
  BY FirstExists DEF Webhook!Post, Webhook!Current, WebhookTyped, RoundType
<1>2. /\ delivery' = delivery
      /\ posts' = [posts EXCEPT ![c.id] = Webhook!Counted(posts[c.id])]
      /\ refused' = IF answer = "refused" THEN refused \cup {c.id} ELSE refused
      /\ round' = [round EXCEPT ![r].posting = TRUE, ![r].answer = answer]
  BY DEF Webhook!Post
<1>3. \A q \in Rounds : round'[q].todo = round[q].todo
  BY <1>2 DEF WebhookTyped, RoundType
<1>4. \A q \in Rounds : Webhook!Current(q)' = Webhook!Current(q)
  BY <1>3 DEF Webhook!Current, Webhook!First
<1>5. c.id \in DeliveryIds /\ c.attempt \in 0 .. MaxPosts - 1 /\ c.attempt <= posts[c.id]
  BY <1>1 DEF ItemType, ItemsPosted
<1> HIDE DEF c
<1>6. \A d \in DeliveryIds : posts[d] \in 0 .. MaxPosts
  BY DEF WebhookTyped
<1>7. Webhook!Counted(posts[c.id]) \in 0 .. MaxPosts
  BY <1>5, <1>6, CountedGrows
<1>8. \A d \in DeliveryIds :
        posts[d] <= posts'[d] /\ (posts[d] = MaxPosts => posts'[d] = MaxPosts)
  BY <1>2, <1>5, <1>6, CountedGrows DEF WebhookTyped
<1>9. c.attempt + 1 <= posts'[c.id]
  BY <1>2, <1>5, <1>6, CountedGrows DEF WebhookTyped
<1>10. WebhookTyped'
  <2>1. posts' \in [DeliveryIds -> 0 .. MaxPosts]
    BY <1>2, <1>7 DEF WebhookTyped
  <2>2. round' \in [Rounds -> RoundType]
    BY <1>2 DEF WebhookTyped, RoundType, Webhook!Answers
  <2> QED
    BY <1>2, <1>5, <2>1, <2>2 DEF WebhookTyped
<1>11. \A d \in DeliveryIds : posts'[d] \in Nat /\ posts[d] \in Nat
  BY <1>6, <1>10 DEF WebhookTyped
<1>12. RowsPosted'
  BY <1>2, <1>8, <1>11 DEF RowsPosted, WebhookTyped, DeliveryType
<1>13. DeadWasTried'
  BY <1>2, <1>8 DEF DeadWasTried
<1>14. ItemsPosted'
  <2> SUFFICES ASSUME NEW q \in Rounds, NEW t \in round[q].todo
               PROVE  t.attempt <= posts'[t.id]
    BY <1>3 DEF ItemsPosted
  <2>1. t.id \in DeliveryIds /\ t.attempt \in Nat /\ t.attempt <= posts[t.id]
    BY DEF ItemsPosted, WebhookTyped, RoundType, ItemType
  <2>2. posts[t.id] <= posts'[t.id] /\ posts[t.id] \in Nat /\ posts'[t.id] \in Nat
    BY <2>1, <1>8, <1>11
  <2> QED
    BY <2>1, <2>2
<1>15. PostCounted'
  <2> SUFFICES ASSUME NEW q \in Rounds, round'[q].posting
               PROVE  /\ round[q].todo # {}
                      /\ Webhook!Current(q).attempt + 1 <= posts'[Webhook!Current(q).id]
                      /\ round'[q].answer = "refused" => Webhook!Current(q).id \in refused'
    BY <1>3, <1>4 DEF PostCounted
  <2>1. CASE q = r
    <3>1. round'[r].answer = answer
      BY <1>2 DEF WebhookTyped, RoundType
    <3> QED
      BY <1>1, <1>2, <1>9, <2>1, <3>1 DEF c
  <2>2. CASE q # r
    <3>1. round'[q] = round[q]
      BY <1>2, <2>2 DEF WebhookTyped
    <3>2. Webhook!Current(q) \in round[q].todo
      BY <3>1, FirstExists DEF PostCounted, Webhook!Current, WebhookTyped, RoundType
    <3>3. Webhook!Current(q).id \in DeliveryIds /\ Webhook!Current(q).attempt \in Nat
      BY <3>2 DEF WebhookTyped, RoundType, ItemType
    <3>4. Webhook!Current(q).attempt + 1 <= posts'[Webhook!Current(q).id]
      <4> DEFINE t == Webhook!Current(q)
      <4>1. posts[t.id] <= posts'[t.id] /\ posts[t.id] \in Nat /\ posts'[t.id] \in Nat
        BY <3>3, <1>8, <1>11
      <4>2. t.attempt + 1 <= posts[t.id]
        BY <3>1 DEF PostCounted
      <4> QED
        BY <3>3, <4>1, <4>2
    <3> QED
      BY <1>2, <3>1, <3>4 DEF PostCounted
  <2> QED
    BY <2>1, <2>2
<1> QED
  BY <1>10, <1>12, <1>13, <1>14, <1>15

\* The row is written from what the round read: its count is one more than that,
\* which the posts have reached.
LEMMA RecordHolds ==
  ASSUME WebhookParameters, WebhookInv, NEW r \in Rounds, Webhook!Record(r)
  PROVE  WebhookInv'
<1> USE DEF WebhookParameters, WebhookInv
<1> DEFINE c == Webhook!Current(r)
           n == c.attempt + 1
           s == Webhook!DecideNextStatus(round[r].answer, n)
           left == round[r].todo \ {c}
<1>1. c \in round[r].todo /\ c \in ItemType
  BY FirstExists
  DEF Webhook!Record, PostCounted, Webhook!Current, WebhookTyped, RoundType
<1>2. /\ posts' = posts /\ refused' = refused
      /\ delivery' = [delivery EXCEPT ![c.id] = [status |-> s, attempt |-> n, due |-> FALSE]]
      /\ round' = [round EXCEPT ![r].todo = left, ![r].posting = FALSE, ![r].answer = "none"]
  BY DEF Webhook!Record, Webhook!AttemptNo
<1>3. /\ n <= posts[c.id]
      /\ round[r].answer = "refused" => c.id \in refused
  BY DEF PostCounted, Webhook!Record
<1>4. c.id \in DeliveryIds /\ c.attempt \in 0 .. MaxPosts - 1 /\ n \in 1 .. MaxPosts
  BY <1>1 DEF ItemType
<1>5. /\ s \in {"delivered", "dead", "pending"}
      /\ s = "pending" => n < MaxPosts
      /\ s = "dead" => n = MaxPosts \/ round[r].answer = "refused"
  BY <1>4 DEF Webhook!DecideNextStatus, Webhook!IsLast
<1> HIDE DEF c, n, s, left
<1>6. posts[c.id] \in 0 .. MaxPosts
  BY <1>4 DEF WebhookTyped
<1>7. /\ delivery'[c.id] = [status |-> s, attempt |-> n, due |-> FALSE]
      /\ \A d \in DeliveryIds \ {c.id} : delivery'[d] = delivery[d]
  BY <1>2, <1>4 DEF WebhookTyped
<1>8. /\ round'[r].todo = left /\ ~round'[r].posting
      /\ \A q \in Rounds \ {r} : round'[q] = round[q]
  BY <1>2 DEF WebhookTyped, RoundType
<1>9. left \subseteq round[r].todo
  BY DEF left
<1>10. WebhookTyped'
  <2>1. [status |-> s, attempt |-> n, due |-> FALSE] \in DeliveryType
    BY <1>4, <1>5 DEF DeliveryType
  <2>2. round' \in [Rounds -> RoundType]
    BY <1>2, <1>9 DEF WebhookTyped, RoundType
  <2> QED
    BY <1>2, <2>1, <2>2 DEF WebhookTyped
<1>11. RowsPosted'
  BY <1>2, <1>3, <1>5, <1>7 DEF RowsPosted
<1>12. DeadWasTried'
  BY <1>2, <1>3, <1>4, <1>5, <1>6, <1>7 DEF DeadWasTried
<1>13. ItemsPosted'
  BY <1>2, <1>8, <1>9 DEF ItemsPosted
<1>14. PostCounted'
  <2>1. ASSUME NEW q \in Rounds, round'[q].posting PROVE round'[q] = round[q]
    BY <1>8, <2>1
  <2>2. \A q \in Rounds : round'[q] = round[q] =>
          Webhook!Current(q)' = Webhook!Current(q)
    BY DEF Webhook!Current, Webhook!First
  <2> QED
    BY <1>2, <2>1, <2>2 DEF PostCounted
<1> QED
  BY <1>10, <1>11, <1>12, <1>13, <1>14

LEMMA WebhookStepHolds ==
  ASSUME WebhookParameters, WebhookInv, WebhookStep
  PROVE  WebhookInv'
<1> USE DEF WebhookParameters, WebhookInv
<1>1. ASSUME UNCHANGED <<delivery, round, posts, refused>> PROVE WebhookInv'
  <2>1. WebhookTyped'
    BY <1>1 DEF WebhookTyped
  <2>2. RowsPosted' /\ ItemsPosted'
    BY <1>1 DEF RowsPosted, ItemsPosted
  <2>3. \A r \in Rounds : Webhook!Current(r)' = Webhook!Current(r)
    BY <1>1 DEF Webhook!Current, Webhook!First
  <2>4. PostCounted'
    BY <1>1, <2>3 DEF PostCounted
  <2>5. DeadWasTried'
    BY <1>1 DEF DeadWasTried
  <2> QED
    BY <2>1, <2>2, <2>4, <2>5
<1>2. CASE UNCHANGED Webhook!vars \/ Webhook!EnqueueEvent
  BY <1>1, <1>2 DEF Webhook!vars, Webhook!EnqueueEvent
<1>3. ASSUME NEW e \in Endpoints, Webhook!SwitchOff(e) PROVE WebhookInv'
  BY <1>1, <1>3 DEF Webhook!SwitchOff
<1>4. ASSUME NEW r \in Rounds, Webhook!Stop(r) PROVE WebhookInv'
  <2>1. /\ delivery' = delivery /\ posts' = posts /\ refused' = refused
        /\ round' = [round EXCEPT ![r] = Webhook!Resting]
    BY <1>4 DEF Webhook!Stop
  <2>2. round' \in [Rounds -> RoundType]
    BY <2>1 DEF WebhookTyped, RoundType, Webhook!Resting
  <2>3. /\ round'[r].todo = {} /\ ~round'[r].posting
        /\ \A q \in Rounds \ {r} : round'[q] = round[q]
    BY <2>1 DEF WebhookTyped, Webhook!Resting
  <2>4. WebhookTyped' /\ RowsPosted' /\ DeadWasTried'
    BY <2>1, <2>2 DEF WebhookTyped, RowsPosted, DeadWasTried
  <2>5. ItemsPosted'
    BY <2>1, <2>3 DEF ItemsPosted
  <2>6. PostCounted'
    BY <2>1, <2>3 DEF PostCounted, Webhook!Current, Webhook!First
  <2> QED
    BY <2>4, <2>5, <2>6
<1> QED
  BY <1>2, <1>3, <1>4, RowsAside, ListDueHolds, PostHolds, RecordHolds
  DEF WebhookStep, Webhook!Next, Webhook!PostSome

\* Whatever rounds overlap, die half-way or write back counts that are out of date:
\* a row that was given up was posted as often as its budget says, or refused.
THEOREM DeadAlwaysTried ==
  ASSUME WebhookParameters PROVE Webhook!Spec => []DeadWasTried
<1>1. WebhookInv => DeadWasTried
  BY DEF WebhookInv
<1> QED
  BY <1>1, WebhookInitHolds, WebhookStepHolds, PTL DEF Webhook!Spec, WebhookStep
=============================================================================
