------------------------ MODULE WakeupDelivery_proofs ------------------------
(***************************************************************************)
(* Proofs about WakeupDelivery: for any number of processes, consumer      *)
(* slots, tasks, faults and pauses, a task that could be claimed is on its *)
(* way, unless a pause or a failed redrive left it to the reconciliation.  *)
(*                                                                         *)
(* Whether a task can be claimed changes with every pause and every timer, *)
(* so the invariant asks for more: a task that is not done is on its way   *)
(* or in the hands of a worker, and what a worker has is not due.          *)
(***************************************************************************)
EXTENDS WakeupDelivery, FiniteSetTheorems, NaturalsInduction, WellFoundedInduction,
        TLAPS

\* BullMQ and the processes that consume from it are finite.
Parameters == IsFiniteSet(Handlers)

---------------------------------------------------------------------------
(* The invariant                                                           *)

RowType == [status : {"none", "pending", "processing", "gone"}, due : BOOLEAN, rev : Nat]
IdType == [kind : {"random", "redrive", "defer", "admit"}, task : Tasks, n : Nat]
JobType == [id : IdType, active : BOOLEAN, tries : Nat, stalls : Nat]
HandlerType ==
  [at : Undecided \cup {"idle", "work", "drain", "ended"}, id : IdType \cup {NoId},
   task : Tasks \cup {"none"}, draining : BOOLEAN]
ProbeType == [on : BOOLEAN, id : IdType \cup {NoId}]
RedriveType ==
  [run : {"idle", "start", "scan"}, full : BOOLEAN, todo : SUBSET Tasks,
   rerun : {"no", "actionable", "full"}]

Typed ==
  /\ row \in [Tasks -> RowType]
  /\ paused \in {"no", "until", "forever"}
  /\ unpublished \in [Processes -> SUBSET Tasks]
  /\ jobs \subseteq JobType /\ IsFiniteSet(jobs)
  /\ up \in BOOLEAN
  /\ handler \in [Handlers -> HandlerType]
  /\ permits \subseteq Handlers /\ orphans \in Nat
  /\ probe \in [Processes -> ProbeType]
  /\ redrive \in [Processes -> RedriveType]
  /\ unarmed \subseteq Tasks

\* BullMQ keeps at most one job of an id.
IdsApart == \A i \in jobs, j \in jobs : i.id = j.id => i = j

\* A slot at work has an active job, which no other slot has, and a task; until it
\* drains the outbox the task is the one of the job.
Busy(h) == handler[h].at # "idle"
Plain == {"start", "turnedAway", "run", "missed", "defer", "throw", "lastCall", "ended"}
SlotsHold ==
  /\ \A h \in Handlers : Busy(h) =>
       /\ \E j \in jobs : j.active /\ j.id = handler[h].id
       /\ handler[h].task \in Tasks
       /\ ~handler[h].draining => handler[h].task = handler[h].id.task
       /\ handler[h].at \in Plain => ~handler[h].draining
       /\ handler[h].at = "drain" => handler[h].draining
  /\ \A g \in Handlers, h \in Handlers :
       Busy(g) /\ Busy(h) /\ handler[g].id = handler[h].id => g = h

\* A probe has a wake-up to publish, and a redrive that rests was not asked again.
AsksKept ==
  \A p \in Processes :
    /\ probe[p].on => probe[p].id \in IdType
    /\ redrive[p].run = "idle" => redrive[p].rerun = "no"

\* What a worker has was enqueued and is not due.
WorkedOnRests ==
  \A h \in Handlers, t \in Tasks : Works(h, t) => row[t].status # "none" /\ ~row[t].due

Open(t) == row[t].status \in {"pending", "processing"}

\* A task is on its way or in the hands of a worker: Carried, part by part.
Waiting(t) == \E j \in jobs : j.id.task = t /\ ~j.active
Minding(h, t) == handler[h].task = t /\ handler[h].at \in Undecided \cup {"work"}
ToPublish(t) == \E p \in Processes : t \in unpublished[p]
Probing == \E p \in Processes : probe[p].on
Sweeps(p, t) ==
  \/ redrive[p].run = "start" /\ redrive[p].full
  \/ redrive[p].run = "scan" /\ redrive[p].full /\ t \in redrive[p].todo
  \/ redrive[p].rerun = "full"
Minded(t) ==
  \/ Waiting(t) \/ ToPublish(t) \/ Probing
  \/ \E h \in Handlers : Minding(h, t)
  \/ \E p \in Processes : Sweeps(p, t)

OpenTasksMinded == \A t \in Tasks : Open(t) /\ t \notin unarmed => Minded(t)

IInv == Typed /\ IdsApart /\ SlotsHold /\ AsksKept /\ WorkedOnRests /\ OpenTasksMinded

---------------------------------------------------------------------------
(* Jobs and their ids                                                      *)

\* Numbers for ids, one more than there are jobs.
Numbers == 0 .. Cardinality(jobs)

LEMMA NumbersSuffice ==
  ASSUME Typed
  PROVE  /\ IsFiniteSet(jobs) /\ IsFiniteSet(Numbers) /\ Numbers \subseteq Nat
         /\ Cardinality(jobs) < Cardinality(Numbers)
<1>1. IsFiniteSet(jobs) /\ Cardinality(jobs) \in Nat
  BY FS_CardinalityType DEF Typed
<1> QED
  BY <1>1, FS_Interval DEF Numbers

Distinct(g) == \A m \in Numbers, n \in Numbers : g[m] = g[n] => m = n

\* Among more ids than there are jobs, one is no job's.
LEMMA SomeIdFree ==
  ASSUME Typed, NEW g, Distinct(g)
  PROVE  \E n \in Numbers : \A j \in jobs : j.id # g[n]
<1> SUFFICES ASSUME \A n \in Numbers : \E j \in jobs : j.id = g[n] PROVE FALSE
  OBVIOUS
<1> DEFINE f == [n \in Numbers |-> CHOOSE j \in jobs : j.id = g[n]]
<1>1. f \in [Numbers -> jobs] /\ \A n \in Numbers : f[n].id = g[n]
  OBVIOUS
<1> HIDE DEF f
<1>2. PICK m \in Numbers, n \in Numbers : m # n /\ f[m] = f[n]
  BY <1>1, NumbersSuffice, FS_PigeonHole
<1>3. g[m] = g[n]
  BY <1>1, <1>2
<1> QED
  BY <1>2, <1>3 DEF Distinct

LEMMA LeastNumber ==
  ASSUME NEW S \in SUBSET Nat, S # {}
  PROVE  \E n \in S : \A m \in S : n <= m
<1> DEFINE R == OpToRel(<, Nat)
<1>1. IsWellFoundedOn(R, Nat)
  BY NatLessThanWellFounded
<1> HIDE DEF R
<1>2. PICK n \in S : \A m \in S : ~(<<m, n>> \in R)
  BY <1>1, WFMin
<1>3. \A m \in S : ~(m < n)
  BY <1>2 DEF R, OpToRel
<1> QED
  BY <1>3

LEMMA RandomIdFresh ==
  ASSUME Typed, NEW t \in Tasks
  PROVE  /\ RandomId(t) \in IdType /\ RandomId(t) \notin Ids
         /\ RandomId(t).task = t /\ ~Running(RandomId(t))
<1> DEFINE Id(n) == [kind |-> "random", task |-> t, n |-> n]
           g == [n \in Numbers |-> Id(n)]
           k == CHOOSE n \in Numbers : Id(n) \notin Ids
<1> HIDE DEF g
<1>1. Distinct(g)
  BY DEF Distinct, g
<1>2. PICK n \in Numbers : \A j \in jobs : j.id # g[n]
  BY <1>1, SomeIdFree
<1>3. k \in Numbers /\ Id(k) \notin Ids
  BY <1>2 DEF Ids, g
<1>4. RandomId(t) = Id(k)
  BY DEF RandomId, Numbers
<1> HIDE DEF k
<1>5. k \in Nat
  BY <1>3, NumbersSuffice
<1>6. Id(k) \in IdType
  BY <1>5 DEF IdType
<1>7. ~Running(Id(k))
  BY <1>3 DEF Running, Ids
<1> QED
  BY <1>3, <1>4, <1>6, <1>7

LEMMA DeferredIdWaits ==
  ASSUME Typed, NEW h \in Handlers, handler[h].task \in Tasks,
         NEW kind \in {"defer", "admit"}
  PROVE  /\ DeferredId(h, kind) \in IdType /\ DeferredId(h, kind).task = handler[h].task
         /\ ~Running(DeferredId(h, kind))
<1> DEFINE Id(n) == [kind |-> kind, task |-> handler[h].task, n |-> n]
           Free(n) == Id(n) \notin Suffixed(h) /\ \A m \in 0 .. n - 1 : Id(m) \in Suffixed(h)
           T == {n \in Numbers : Id(n) \notin Suffixed(h)}
           g == [n \in Numbers |-> Id(n)]
           k == CHOOSE n \in Numbers : Free(n)
<1> HIDE DEF g
<1>1. Distinct(g)
  BY DEF Distinct, g
<1>2. PICK n \in T : \A m \in T : n <= m
  <2>1. PICK m \in Numbers : \A j \in jobs : j.id # g[m]
    BY <1>1, SomeIdFree
  <2>2. m \in T
    BY <2>1 DEF Suffixed, g
  <2>3. T \in SUBSET Nat /\ T # {}
    BY <2>2, NumbersSuffice
  <2> HIDE DEF T
  <2> QED
    BY <2>3, LeastNumber
<1>3. Free(n)
  <2>1. n \in Numbers /\ n \in Nat /\ Cardinality(jobs) \in Nat
    BY <1>2, NumbersSuffice, FS_CardinalityType
  <2>2. \A m \in 0 .. n - 1 : m \in Numbers /\ ~(n <= m)
    BY <2>1 DEF Numbers
  <2> QED
    BY <1>2, <2>2
<1>4. k \in Numbers /\ Free(k)
  BY <1>2, <1>3
<1>5. DeferredId(h, kind) = Id(k)
  BY DEF DeferredId, Numbers
<1> HIDE DEF k
<1>6. \A j \in jobs : j.active => j.id # Id(k)
  BY <1>4 DEF Suffixed
<1>7. k \in Nat
  BY <1>4, NumbersSuffice
<1>8. Id(k) \in IdType
  BY <1>7 DEF IdType
<1>9. ~Running(Id(k))
  BY <1>6 DEF Running
<1> QED
  BY <1>5, <1>8, <1>9

\* The job of an id is there after an addition, and nothing else changes.
LEMMA AddedJob ==
  ASSUME Typed, IdsApart, NEW id \in IdType, jobs' = Added(id)
  PROVE  /\ jobs' \subseteq JobType /\ IsFiniteSet(jobs') /\ IdsApart'
         /\ jobs \subseteq jobs'
         /\ \A j \in jobs' : j \in jobs \/ ~j.active
         /\ ~Running(id) => \E j \in jobs' : j.id = id /\ ~j.active
<1> DEFINE new == [id |-> id, active |-> FALSE, tries |-> 0, stalls |-> 0]
<1>1. new \in JobType /\ new.id = id /\ ~new.active
  BY DEF JobType
<1>2. CASE id \in Ids
  BY <1>2 DEF Added, Typed, IdsApart, Ids, Running
<1>3. CASE id \notin Ids
  <2>1. jobs' = jobs \cup {new}
    BY <1>3 DEF Added
  <2> HIDE DEF new
  <2>2. IsFiniteSet(jobs')
    BY <2>1, FS_AddElement DEF Typed
  <2>3. \A j \in jobs : j.id # new.id
    BY <1>1, <1>3 DEF Ids
  <2> QED
    BY <1>1, <2>1, <2>2, <2>3 DEF Typed, IdsApart
<1> QED
  BY <1>2, <1>3

LEMMA JobOfSlot ==
  ASSUME IdsApart, SlotsHold, NEW h \in Handlers, Busy(h)
  PROVE  /\ JobOf(h) \in jobs /\ JobOf(h).active /\ JobOf(h).id = handler[h].id
         /\ \A j \in jobs : j.id = handler[h].id => j = JobOf(h)
  BY DEF JobOf, IdsApart, SlotsHold

\* A publication adds the job or leaves a probe behind, and takes nothing away but
\* a mark of its own task.
LEMMA Published ==
  ASSUME Typed, IdsApart, AsksKept, NEW p \in Processes, NEW id \in IdType, Publish(p, id)
  PROVE  /\ jobs' \subseteq JobType /\ IsFiniteSet(jobs') /\ IdsApart'
         /\ jobs \subseteq jobs' /\ \A j \in jobs' : j \in jobs \/ ~j.active
         /\ probe' \in [Processes -> ProbeType]
         /\ \A q \in Processes : probe[q].on => probe'[q].on
         /\ \A q \in Processes : probe'[q].on => probe'[q].id \in IdType
         /\ unarmed' \subseteq unarmed /\ unarmed \subseteq unarmed' \cup {id.task}
         /\ ~Running(id) => \/ \E j \in jobs' : j.id = id /\ ~j.active
                            \/ probe'[p].on
<1>1. /\ probe' \in [Processes -> ProbeType]
      /\ \A q \in Processes : probe[q].on => probe'[q].on
      /\ \A q \in Processes : probe'[q].on => probe'[q].id \in IdType
      /\ ~Accepted(p) => probe'[p].on
  <2>1. CASE ~up /\ ~probe[p].on
    <3> DEFINE new == [on |-> TRUE, id |-> id]
    <3>1. new \in ProbeType /\ new.on /\ new.id = id
      BY DEF ProbeType
    <3>2. probe' = [probe EXCEPT ![p] = new]
      BY <2>1 DEF Publish, Probed
    <3> HIDE DEF new
    <3> QED
      BY <3>1, <3>2 DEF Typed, AsksKept
  <2>2. CASE ~(~up /\ ~probe[p].on)
    <3>1. probe' = probe
      BY <2>2 DEF Publish, Probed
    <3> QED
      BY <2>2, <3>1 DEF Typed, AsksKept, Accepted
  <2> QED
    BY <2>1, <2>2
<1>2. unarmed' \subseteq unarmed /\ unarmed \subseteq unarmed' \cup {id.task}
  BY DEF Publish, Rearmed
<1>3. CASE Accepted(p)
  BY <1>1, <1>2, <1>3, AddedJob DEF Publish
<1>4. CASE ~Accepted(p)
  <2>1. jobs' = jobs
    BY <1>4 DEF Publish
  <2> QED
    BY <1>1, <1>2, <1>4, <2>1 DEF Typed, IdsApart
<1> QED
  BY <1>3, <1>4

\* A step of a slot changes that slot only.
LEMMA Stepped ==
  ASSUME handler \in [Handlers -> HandlerType], NEW h \in Handlers,
         NEW at \in Undecided \cup {"idle", "work", "drain", "ended"}, Step(h, at)
  PROVE  /\ handler' \in [Handlers -> HandlerType]
         /\ \A g \in Handlers : g # h => handler'[g] = handler[g]
         /\ handler'[h].at = at /\ handler'[h].id = handler[h].id
         /\ handler'[h].task = handler[h].task /\ handler'[h].draining = handler[h].draining
<1>1. handler[h] \in HandlerType
  OBVIOUS
<1>2. /\ [handler[h] EXCEPT !.at = at] \in HandlerType
      /\ [handler[h] EXCEPT !.at = at].at = at
      /\ [handler[h] EXCEPT !.at = at].id = handler[h].id
      /\ [handler[h] EXCEPT !.at = at].task = handler[h].task
      /\ [handler[h] EXCEPT !.at = at].draining = handler[h].draining
  BY <1>1 DEF HandlerType
<1>3. handler' = [handler EXCEPT ![h] = [handler[h] EXCEPT !.at = at]]
  BY DEF Step
<1> QED
  BY <1>2, <1>3

LEMMA Rested ==
  ASSUME handler \in [Handlers -> HandlerType], NEW h \in Handlers,
         handler' = [handler EXCEPT ![h] = Resting]
  PROVE  /\ handler' \in [Handlers -> HandlerType]
         /\ \A g \in Handlers : g # h => handler'[g] = handler[g]
         /\ handler'[h].at = "idle"
<1>1. Resting \in HandlerType /\ Resting.at = "idle"
  BY DEF Resting, HandlerType
<1> QED
  BY <1>1

---------------------------------------------------------------------------
(* The slots                                                               *)

\* Every job in hand is there afterwards.
ActiveKept == \A j \in jobs : j.active => j \in jobs'

\* A slot that moves on keeps its job.
LEMMA SlotMoves ==
  ASSUME SlotsHold, NEW h \in Handlers, Busy(h), ActiveKept,
         \A g \in Handlers : g # h => handler'[g] = handler[g],
         handler'[h].id = handler[h].id, handler'[h].at # "idle",
         handler'[h].task \in Tasks,
         ~handler'[h].draining => handler'[h].task = handler[h].id.task,
         handler'[h].at \in Plain => ~handler'[h].draining,
         handler'[h].at = "drain" => handler'[h].draining
  PROVE  SlotsHold'
<1>1. \A g \in Handlers : handler'[g].id = handler[g].id /\ (Busy(g)' => Busy(g))
  BY DEF Busy
<1>2. ASSUME NEW g \in Handlers, Busy(g)'
      PROVE  /\ \E j \in jobs' : j.active /\ j.id = handler'[g].id
             /\ handler'[g].task \in Tasks
             /\ ~handler'[g].draining => handler'[g].task = handler'[g].id.task
             /\ handler'[g].at \in Plain => ~handler'[g].draining
             /\ handler'[g].at = "drain" => handler'[g].draining
  BY <1>1, <1>2 DEF SlotsHold, ActiveKept
<1>3. \A f \in Handlers, g \in Handlers :
        Busy(f)' /\ Busy(g)' /\ handler'[f].id = handler'[g].id => f = g
  BY <1>1 DEF SlotsHold
<1> QED
  BY <1>2, <1>3 DEF SlotsHold, Plain

\* A slot that is done leaves the other jobs alone.
LEMMA SlotRests ==
  ASSUME SlotsHold, NEW h \in Handlers, handler \in [Handlers -> HandlerType],
         handler' = [handler EXCEPT ![h] = Resting], Busy(h),
         \A j \in jobs : j.active /\ j.id # handler[h].id => j \in jobs'
  PROVE  SlotsHold'
<1>1. \A g \in Handlers : Busy(g)' => g # h /\ handler'[g] = handler[g] /\ Busy(g)
  BY Rested DEF Busy
<1>2. ASSUME NEW g \in Handlers, Busy(g)'
      PROVE  /\ \E j \in jobs' : j.active /\ j.id = handler'[g].id
             /\ handler'[g].task \in Tasks
             /\ ~handler'[g].draining => handler'[g].task = handler'[g].id.task
             /\ handler'[g].at \in Plain => ~handler'[g].draining
             /\ handler'[g].at = "drain" => handler'[g].draining
  BY <1>1, <1>2 DEF SlotsHold
<1>3. \A f \in Handlers, g \in Handlers :
        Busy(f)' /\ Busy(g)' /\ handler'[f].id = handler'[g].id => f = g
  BY <1>1 DEF SlotsHold
<1> QED
  BY <1>2, <1>3 DEF SlotsHold, Plain

LEMMA SlotsUntouched ==
  ASSUME SlotsHold, ActiveKept, UNCHANGED handler
  PROVE  SlotsHold'
  BY DEF SlotsHold, ActiveKept, Busy, Plain

\* What the end of a job or a retry of it leaves.
LEMMA JobRemoved ==
  ASSUME Typed, IdsApart, SlotsHold, NEW h \in Handlers, Busy(h), jobs' = Removed(h)
  PROVE  /\ jobs' \subseteq jobs /\ IsFiniteSet(jobs')
         /\ \A j \in jobs : j.id # handler[h].id \/ ~j.active => j \in jobs'
<1>1. JobOf(h) \in jobs /\ JobOf(h).active /\ JobOf(h).id = handler[h].id
  BY JobOfSlot
<1> QED
  BY <1>1, FS_RemoveElement DEF Removed, Typed

LEMMA JobReplaced ==
  ASSUME Typed, IdsApart, NEW j \in jobs, NEW k \in JobType, k.id = j.id,
         jobs' = (jobs \ {j}) \cup {k}
  PROVE  /\ jobs' \subseteq JobType /\ IsFiniteSet(jobs') /\ IdsApart'
<1>1. IsFiniteSet(jobs \ {j}) /\ IsFiniteSet(jobs')
  BY FS_RemoveElement, FS_AddElement DEF Typed
<1>2. \A i \in jobs : i # j => i.id # k.id
  BY DEF IdsApart
<1>3. IdsApart'
  BY <1>2 DEF IdsApart
<1> QED
  BY <1>1, <1>3 DEF Typed

LEMMA JobGivenOut ==
  ASSUME Typed, NEW j \in jobs
  PROVE  LET k == [j EXCEPT !.active = TRUE]
         IN  k \in JobType /\ k.id = j.id /\ k.active
  BY DEF Typed, JobType

LEMMA JobGivenBack ==
  ASSUME Typed, NEW j \in jobs
  PROVE  LET k == [j EXCEPT !.active = FALSE, !.tries = @ + 1]
         IN  k \in JobType /\ k.id = j.id /\ ~k.active
<1>1. j \in JobType /\ j.tries + 1 \in Nat
  BY DEF Typed, JobType
<1> DEFINE k == [j EXCEPT !.active = FALSE, !.tries = @ + 1]
<1>2. k \in JobType /\ k.id = j.id
  BY <1>1 DEF JobType
<1>3. k.active = FALSE
  BY <1>1 DEF JobType
<1> QED
  BY <1>2, <1>3

\* What a crash does to the jobs.
Held(p) == {JobOf(h) : h \in {g \in Killed(p) : handler[g].at # "idle"}}
Stalled(j) == [j EXCEPT !.active = FALSE, !.stalls = 1]

LEMMA JobsAfterCrash ==
  ASSUME Typed, IdsApart, SlotsHold, NEW p \in Processes, Crash(p)
  PROVE  /\ jobs' \subseteq JobType /\ IsFiniteSet(jobs') /\ IdsApart'
         /\ \A h \in Handlers : Busy(h) /\ h \notin Killed(p) => JobOf(h) \in jobs'
<1>1. Held(p) \subseteq jobs
  BY JobOfSlot DEF Held, Killed, Busy
<1>2. \A j \in jobs : Stalled(j) \in JobType /\ Stalled(j).id = j.id
  BY DEF Typed, JobType, Stalled
<1>3. jobs' = (jobs \ Held(p)) \cup {Stalled(j) : j \in {i \in Held(p) : i.stalls = 0}}
  BY DEF Crash, Held, Stalled
<1> DEFINE again == {i \in Held(p) : i.stalls = 0}
           f == [j \in again |-> Stalled(j)]
           out == {Stalled(j) : j \in again}
<1>4. IsFiniteSet(out)
  <2>1. IsFiniteSet(again)
    BY <1>1, FS_Subset DEF Typed
  <2>2. f \in Surjection(again, out)
    BY DEF Surjection
  <2> QED
    BY <2>1, <2>2, FS_Surjection
<1>5. IsFiniteSet(jobs')
  <2>1. IsFiniteSet(jobs \ Held(p))
    BY FS_Difference DEF Typed
  <2> QED
    BY <1>3, <1>4, <2>1, FS_Union
<1>6. jobs' \subseteq JobType
  BY <1>1, <1>2, <1>3 DEF Typed
<1>7. \A k \in jobs' : k \in jobs \ Held(p) \/ \E j \in Held(p) : k = Stalled(j) /\ k.id = j.id
  BY <1>1, <1>2, <1>3
<1>8. IdsApart'
  BY <1>1, <1>7 DEF IdsApart
<1>9. ASSUME NEW h \in Handlers, Busy(h), h \notin Killed(p)
      PROVE  JobOf(h) \in jobs'
  <2>1. \A g \in Killed(p) : g \in Handlers /\ g # h
    BY <1>9 DEF Killed
  <2>2. \A g \in Killed(p) : Busy(g) => JobOf(g).id # JobOf(h).id
    BY <1>9, <2>1, JobOfSlot DEF SlotsHold
  <2>3. JobOf(h) \notin Held(p)
    BY <2>2 DEF Held, Busy
  <2> QED
    BY <1>3, <1>9, <2>3, JobOfSlot
<1> QED
  BY <1>5, <1>6, <1>8, <1>9

---------------------------------------------------------------------------
(* The rows and the redrive services                                       *)

OthersKeepRows(t) == \A u \in Tasks : u # t => row'[u] = row[u]

\* A claim, by its job or while draining.
LEMMA RowClaimed ==
  ASSUME Typed, NEW t \in Tasks, Claimable(t), row' = ClaimedRow(t)
  PROVE  /\ row' \in [Tasks -> RowType] /\ OthersKeepRows(t)
         /\ Open(t) /\ row'[t].status = "processing" /\ ~row'[t].due
<1>1. row[t] \in RowType /\ row[t].rev + 1 \in Nat
  BY DEF Typed, RowType
<1> DEFINE r == [status |-> "processing", due |-> FALSE, rev |-> row[t].rev + 1]
<1>2. r \in RowType /\ r.status = "processing" /\ r.due = FALSE
  BY <1>1 DEF RowType
<1>3. row' = [row EXCEPT ![t] = r]
  BY DEF ClaimedRow, Typed
<1> HIDE DEF r
<1>4. row' \in [Tasks -> RowType] /\ row'[t] = r /\ OthersKeepRows(t)
  BY <1>2, <1>3 DEF Typed, OthersKeepRows
<1> QED
  BY <1>2, <1>4 DEF Claimable, Open

LEMMA RowGivenBack ==
  ASSUME Typed, NEW h \in Handlers, handler[h].task \in Tasks, GiveBack(h)
  PROVE  LET t == handler[h].task
         IN  /\ row' \in [Tasks -> RowType] /\ OthersKeepRows(t)
             /\ row'[t].status = "pending" /\ ~row'[t].due
<1> DEFINE t == handler[h].task
           r == [status |-> "pending", due |-> FALSE, rev |-> row[t].rev + 1]
<1>1. row[t] \in RowType /\ row[t].rev + 1 \in Nat
  BY DEF Typed, RowType
<1>2. r \in RowType /\ r.status = "pending" /\ r.due = FALSE
  BY <1>1 DEF RowType
<1>3. row' = [row EXCEPT ![t] = r]
  BY DEF GiveBack, Typed
<1> HIDE DEF r
<1>4. row' \in [Tasks -> RowType] /\ row'[t] = r /\ OthersKeepRows(t)
  BY <1>2, <1>3 DEF Typed, OthersKeepRows
<1> QED
  BY <1>2, <1>4

LEMMA RowEnqueued ==
  ASSUME Typed, NEW p \in Processes, NEW t \in Tasks, Enqueue(p, t)
  PROVE  row' \in [Tasks -> RowType] /\ OthersKeepRows(t) /\ row'[t].status = "pending"
<1> DEFINE r == [row[t] EXCEPT !.status = "pending", !.due = TRUE]
<1>1. r \in RowType /\ r.status = "pending"
  BY DEF Typed, RowType
<1>2. row' = [row EXCEPT ![t] = r]
  BY DEF Enqueue, Typed
<1> HIDE DEF r
<1> QED
  BY <1>1, <1>2 DEF Typed, OthersKeepRows

LEMMA RowDue ==
  ASSUME Typed, NEW t \in Tasks, BecomeDue(t)
  PROVE  row' \in [Tasks -> RowType] /\ OthersKeepRows(t) /\ row'[t].status = row[t].status
<1> DEFINE r == [row[t] EXCEPT !.due = TRUE]
<1>1. r \in RowType /\ r.status = row[t].status
  BY DEF Typed, RowType
<1>2. row' = [row EXCEPT ![t] = r]
  BY DEF BecomeDue, Typed
<1> HIDE DEF r
<1> QED
  BY <1>1, <1>2 DEF Typed, OthersKeepRows

LEMMA RowDone ==
  ASSUME Typed, NEW h \in Handlers, handler[h].task \in Tasks, Succeed(h)
  PROVE  LET t == handler[h].task
         IN  /\ row' \in [Tasks -> RowType] /\ OthersKeepRows(t)
             /\ row'[t].status = "gone" /\ row'[t].due = row[t].due
<1> DEFINE t == handler[h].task
           r == [row[t] EXCEPT !.status = "gone"]
<1>1. r \in RowType /\ r.status = "gone" /\ r.due = row[t].due
  BY DEF Typed, RowType
<1>2. row' = [row EXCEPT ![t] = r]
  BY DEF Succeed, Typed
<1> HIDE DEF r
<1>3. row' \in [Tasks -> RowType] /\ row'[t] = r /\ OthersKeepRows(t)
  BY <1>1, <1>2 DEF Typed, OthersKeepRows
<1> QED
  BY <1>1, <1>3

OthersKeepRedrive(p) == \A q \in Processes : q # p => redrive'[q] = redrive[q]

\* A service at rest starts over; one at work is asked for one more.
LEMMA RedriveAsked ==
  ASSUME Typed, NEW p \in Processes, NEW full \in BOOLEAN, redrive' = Requested(p, full)
  PROVE  /\ redrive' \in [Processes -> RedriveType] /\ OthersKeepRedrive(p)
         /\ redrive[p].run = "idle" =>
              redrive'[p].run = "start" /\ redrive'[p].full = full /\ redrive'[p].rerun = "no"
         /\ redrive[p].run # "idle" =>
              /\ redrive'[p].run = redrive[p].run /\ redrive'[p].full = redrive[p].full
              /\ redrive'[p].todo = redrive[p].todo
              /\ redrive'[p].rerun = Stronger(redrive[p].rerun, full)
<1>1. CASE redrive[p].run = "idle"
  <2> DEFINE r == [Booting EXCEPT !.full = full]
  <2>1. r \in RedriveType /\ r.run = "start" /\ r.rerun = "no"
    BY DEF Booting, RedriveType
  <2>2. r.full = full
    BY Zenon DEF Booting
  <2>3. redrive' = [redrive EXCEPT ![p] = r]
    BY <1>1 DEF Requested
  <2> HIDE DEF r
  <2> QED
    BY <1>1, <2>1, <2>2, <2>3 DEF Typed, OthersKeepRedrive
<1>2. CASE redrive[p].run # "idle"
  <2> DEFINE r == [redrive[p] EXCEPT !.rerun = Stronger(redrive[p].rerun, full)]
  <2>1. redrive[p] \in RedriveType
    BY DEF Typed
  <2>2. /\ r \in RedriveType /\ r.rerun = Stronger(redrive[p].rerun, full)
        /\ r.run = redrive[p].run /\ r.full = redrive[p].full /\ r.todo = redrive[p].todo
    BY <2>1 DEF RedriveType, Stronger
  <2>3. redrive' = [redrive EXCEPT ![p] = r]
    BY <1>2 DEF Requested, Typed
  <2> HIDE DEF r
  <2> QED
    BY <1>2, <2>2, <2>3 DEF Typed, OthersKeepRedrive
<1> QED
  BY <1>1, <1>2

\* A service that is done rests, unless it was asked again.
LEMMA RedriveDone ==
  ASSUME Typed, NEW p \in Processes, redrive' = AfterScan(p)
  PROVE  /\ redrive' \in [Processes -> RedriveType] /\ OthersKeepRedrive(p)
         /\ redrive'[p].rerun = "no"
         /\ redrive[p].rerun = "full" => redrive'[p].run = "start" /\ redrive'[p].full
<1>1. CASE redrive[p].rerun = "no"
  <2> DEFINE r == [Booting EXCEPT !.run = "idle"]
  <2>1. r \in RedriveType /\ r.rerun = "no"
    BY DEF Booting, RedriveType
  <2>2. redrive' = [redrive EXCEPT ![p] = r]
    BY <1>1 DEF AfterScan, Typed
  <2> HIDE DEF r
  <2> QED
    BY <1>1, <2>1, <2>2 DEF Typed, OthersKeepRedrive
<1>2. CASE redrive[p].rerun # "no"
  <2> DEFINE full == redrive[p].rerun = "full"
             r == [Booting EXCEPT !.full = full]
  <2>1. r \in RedriveType /\ r.run = "start" /\ r.rerun = "no"
    BY DEF Booting, RedriveType
  <2>2. r.full = full
    BY Zenon DEF Booting
  <2>3. redrive' = [redrive EXCEPT ![p] = r]
    BY <1>2 DEF AfterScan, Typed
  <2> HIDE DEF r
  <2> QED
    BY <1>2, <2>1, <2>2, <2>3 DEF Typed, OthersKeepRedrive
<1> QED
  BY <1>1, <1>2

\* What the scan of a service leaves to be scanned.
LEMMA ScanBegun ==
  ASSUME Typed, NEW p \in Processes, StartScan(p)
  PROVE  /\ redrive' \in [Processes -> RedriveType] /\ OthersKeepRedrive(p)
         /\ redrive'[p].run = "scan" /\ redrive'[p].full = redrive[p].full
         /\ redrive'[p].rerun = redrive[p].rerun /\ Enqueued \subseteq redrive'[p].todo
<1>1. PICK later \in SUBSET (Tasks \ Enqueued) :
        redrive' = [redrive EXCEPT ![p].run = "scan", ![p].todo = Enqueued \cup later]
  BY DEF StartScan
<1> DEFINE r == [redrive[p] EXCEPT !.run = "scan", !.todo = Enqueued \cup later]
<1>2. redrive[p] \in RedriveType /\ Enqueued \cup later \subseteq Tasks
  BY DEF Typed, Enqueued
<1>3. /\ r \in RedriveType /\ r.run = "scan" /\ r.full = redrive[p].full
      /\ r.rerun = redrive[p].rerun /\ r.todo = Enqueued \cup later
  BY <1>2 DEF RedriveType
<1>4. redrive' = [redrive EXCEPT ![p] = r]
  BY <1>1 DEF Typed
<1> HIDE DEF r
<1> QED
  BY <1>3, <1>4 DEF Typed, OthersKeepRedrive

LEMMA Scanned ==
  ASSUME Typed, NEW p \in Processes, NEW t \in Tasks, Scan(p, t)
  PROVE  /\ redrive' \in [Processes -> RedriveType] /\ OthersKeepRedrive(p)
         /\ redrive'[p].run = "scan" /\ redrive'[p].full = redrive[p].full
         /\ redrive'[p].rerun = redrive[p].rerun /\ redrive'[p].todo = redrive[p].todo \ {t}
<1> DEFINE r == [redrive[p] EXCEPT !.todo = redrive[p].todo \ {t}]
<1>1. redrive[p] \in RedriveType /\ redrive[p].run = "scan"
  BY DEF Typed, Scan
<1>2. /\ r \in RedriveType /\ r.run = "scan" /\ r.full = redrive[p].full
      /\ r.rerun = redrive[p].rerun /\ r.todo = redrive[p].todo \ {t}
  BY <1>1 DEF RedriveType
<1>3. redrive' = [redrive EXCEPT ![p] = r]
  BY DEF Typed, Scan
<1> HIDE DEF r
<1> QED
  BY <1>2, <1>3 DEF Typed, OthersKeepRedrive

\* A candidate is published like any other wake-up, but marked when the job that runs
\* under its id takes the place of the new one.
LEMMA ScanPublishes ==
  ASSUME Typed, IdsApart, AsksKept, NEW p \in Processes, NEW t \in Tasks, Scan(p, t)
  PROVE  /\ jobs' \subseteq JobType /\ IsFiniteSet(jobs') /\ IdsApart'
         /\ jobs \subseteq jobs' /\ \A j \in jobs' : j \in jobs \/ ~j.active
         /\ probe' \in [Processes -> ProbeType]
         /\ \A q \in Processes : probe[q].on => probe'[q].on
         /\ \A q \in Processes : probe'[q].on => probe'[q].id \in IdType
         /\ unarmed' \subseteq unarmed \cup {t} /\ unarmed \subseteq unarmed' \cup {t}
         /\ Candidate(t, redrive[p].full) => Waiting(t)' \/ Probing' \/ t \in unarmed'
         /\ ~Candidate(t, redrive[p].full) /\ unarmed' = unarmed => paused = "no" \/ t \in unarmed'
<1>1. CASE Candidate(t, redrive[p].full)
  <2> DEFINE id == RedriveId(t)
  <2>1. id \in IdType /\ id.task = t
    BY DEF RedriveId, IdType, Typed, RowType
  <2> HIDE DEF id
  <2>2. CASE Accepted(p)
    <3>1. jobs' = Added(id) /\ probe' = probe
      BY <1>1, <2>2 DEF Scan, id, Probed, Accepted
    <3>2. /\ Running(id) => unarmed' = unarmed \cup {t}
          /\ ~Running(id) => unarmed' = unarmed \ {t}
      BY <1>1, <2>2 DEF Scan, id
    <3>3. ~Running(id) => Waiting(t)'
      BY <2>1, <3>1, AddedJob DEF Waiting
    <3> QED
      BY <1>1, <2>1, <3>1, <3>2, <3>3, AddedJob DEF Typed, AsksKept
  <2>3. CASE ~Accepted(p)
    <3>1. jobs' = jobs /\ probe' = Probed(p, id)
      BY <1>1, <2>3 DEF Scan, id
    <3>2. unarmed' = unarmed \/ unarmed' = unarmed \cup {t}
      BY <1>1, <2>3 DEF Scan
    <3>3. /\ probe' \in [Processes -> ProbeType] /\ probe'[p].on
          /\ \A q \in Processes : probe[q].on => probe'[q].on
          /\ \A q \in Processes : probe'[q].on => probe'[q].id \in IdType
      <4>1. CASE ~up /\ ~probe[p].on
        <5> DEFINE new == [on |-> TRUE, id |-> id]
        <5>1. new \in ProbeType /\ new.on /\ new.id = id
          BY <2>1 DEF ProbeType
        <5>2. probe' = [probe EXCEPT ![p] = new]
          BY <3>1, <4>1 DEF Probed
        <5> HIDE DEF new
        <5> QED
          BY <2>1, <5>1, <5>2 DEF Typed, AsksKept
      <4>2. CASE ~(~up /\ ~probe[p].on)
        BY <2>3, <3>1, <4>2 DEF Typed, AsksKept, Accepted, Probed
      <4> QED
        BY <4>1, <4>2
    <3>4. IdsApart' /\ Probing'
      BY <3>1, <3>3 DEF IdsApart, Probing
    <3> QED
      BY <1>1, <3>1, <3>2, <3>3, <3>4 DEF Typed
  <2> QED
    BY <2>2, <2>3
<1>2. CASE ~Candidate(t, redrive[p].full)
  <2>1. jobs' = jobs /\ probe' = probe
    BY <1>2 DEF Scan
  <2>2. unarmed' = IF paused # "no" THEN unarmed \cup {t} ELSE unarmed
    BY <1>2 DEF Scan
  <2>3. IdsApart'
    BY <2>1 DEF IdsApart
  <2> QED
    BY <1>2, <2>1, <2>2, <2>3 DEF Typed, AsksKept
<1> QED
  BY <1>1, <1>2

LEMMA Recovered ==
  ASSUME Typed, IdsApart, AsksKept, NEW p \in Processes, Recover(p)
  PROVE  /\ jobs' \subseteq JobType /\ IsFiniteSet(jobs') /\ IdsApart'
         /\ jobs \subseteq jobs' /\ \A j \in jobs' : j \in jobs \/ ~j.active
         /\ probe' \in [Processes -> ProbeType]
         /\ \A q \in Processes : q # p => probe'[q] = probe[q]
         /\ ~probe'[p].on
<1>1. jobs' = Added(probe[p].id) /\ probe[p].id \in IdType
  BY DEF Recover, AsksKept
<1>2. NoProbe \in ProbeType /\ ~NoProbe.on
  BY DEF NoProbe, ProbeType
<1>3. probe' = [probe EXCEPT ![p] = NoProbe]
  BY DEF Recover
<1> QED
  BY <1>1, <1>2, <1>3, AddedJob DEF Typed

---------------------------------------------------------------------------
(* Every action keeps the types                                            *)

\* What the steps of a slot do to it; a claim or a scan of the queue gives it a task.
LEMMA SlotAfter ==
  ASSUME Typed, SlotsHold, NEW h \in Handlers
  PROVE  /\ Busy(h) => handler[h].task \in Tasks /\ handler[h].id \in IdType
         /\ Succeed(h) =>
              /\ handler' \in [Handlers -> HandlerType]
              /\ \A g \in Handlers : g # h => handler'[g] = handler[g]
              /\ handler'[h].at = "drain" /\ handler'[h].draining
              /\ handler'[h].id = handler[h].id /\ handler'[h].task = handler[h].task
         /\ \A t \in Tasks : Drain(h, t) =>
              /\ handler' \in [Handlers -> HandlerType]
              /\ \A g \in Handlers : g # h => handler'[g] = handler[g]
              /\ handler'[h].at = "work" /\ handler'[h].draining = handler[h].draining
              /\ handler'[h].id = handler[h].id /\ handler'[h].task = t
         /\ \A j \in jobs : Deliver(h, j) =>
              /\ handler' \in [Handlers -> HandlerType]
              /\ \A g \in Handlers : g # h => handler'[g] = handler[g]
              /\ handler'[h].at = "start" /\ ~handler'[h].draining
              /\ handler'[h].id = j.id /\ handler'[h].task = j.id.task
<1>1. handler[h] \in HandlerType /\ handler \in [Handlers -> HandlerType]
  BY DEF Typed
<1>2. Busy(h) => handler[h].task \in Tasks /\ handler[h].id \in IdType
  BY DEF SlotsHold, Typed, JobType
<1>3. ASSUME Succeed(h)
      PROVE  /\ handler' \in [Handlers -> HandlerType]
             /\ \A g \in Handlers : g # h => handler'[g] = handler[g]
             /\ handler'[h].at = "drain" /\ handler'[h].draining
             /\ handler'[h].id = handler[h].id /\ handler'[h].task = handler[h].task
  <2> DEFINE s == [handler[h] EXCEPT !.at = "drain", !.draining = TRUE]
  <2>1. s \in HandlerType /\ s.at = "drain" /\ s.id = handler[h].id /\ s.task = handler[h].task
    BY <1>1 DEF HandlerType
  <2>2. s.draining = TRUE
    BY <1>1 DEF HandlerType
  <2>3. handler' = [handler EXCEPT ![h] = s]
    BY <1>1, <1>3 DEF Succeed
  <2> HIDE DEF s
  <2> QED
    BY <1>1, <2>1, <2>2, <2>3
<1>4. ASSUME NEW t \in Tasks, Drain(h, t)
      PROVE  /\ handler' \in [Handlers -> HandlerType]
             /\ \A g \in Handlers : g # h => handler'[g] = handler[g]
             /\ handler'[h].at = "work" /\ handler'[h].draining = handler[h].draining
             /\ handler'[h].id = handler[h].id /\ handler'[h].task = t
  <2> DEFINE s == [handler[h] EXCEPT !.at = "work", !.task = t]
  <2>1. s \in HandlerType /\ s.at = "work" /\ s.id = handler[h].id /\ s.task = t
    BY <1>1 DEF HandlerType
  <2>2. s.draining = handler[h].draining
    BY <1>1 DEF HandlerType
  <2>3. handler' = [handler EXCEPT ![h] = s]
    BY <1>1, <1>4 DEF Drain
  <2> HIDE DEF s
  <2> QED
    BY <1>1, <2>1, <2>2, <2>3
<1>5. ASSUME NEW j \in jobs, Deliver(h, j)
      PROVE  /\ handler' \in [Handlers -> HandlerType]
             /\ \A g \in Handlers : g # h => handler'[g] = handler[g]
             /\ handler'[h].at = "start" /\ ~handler'[h].draining
             /\ handler'[h].id = j.id /\ handler'[h].task = j.id.task
  <2> DEFINE s == [at |-> "start", id |-> j.id, task |-> j.id.task, draining |-> FALSE]
  <2>1. j.id \in IdType /\ j.id.task \in Tasks
    BY DEF Typed, JobType, IdType
  <2>2. s \in HandlerType /\ s.at = "start" /\ s.id = j.id /\ s.task = j.id.task
    BY <2>1 DEF HandlerType, Undecided
  <2>3. s.draining = FALSE
    OBVIOUS
  <2>4. handler' = [handler EXCEPT ![h] = s]
    BY <1>5 DEF Deliver
  <2> HIDE DEF s
  <2> QED
    BY <1>1, <2>2, <2>3, <2>4
<1> QED
  BY <1>2, <1>3, <1>4, <1>5

LEMMA PermitsLost ==
  ASSUME Typed, Parameters, NEW p \in Processes, Crash(p)
  PROVE  permits' \subseteq Handlers /\ orphans' \in Nat
<1>1. IsFiniteSet(permits \cap Killed(p))
  BY FS_Subset DEF Typed, Parameters
<1>2. Cardinality(permits \cap Killed(p)) \in Nat
  BY <1>1, FS_CardinalityType
<1>3. /\ permits' = permits \ Killed(p)
      /\ orphans' = orphans + Cardinality(permits \cap Killed(p))
  BY DEF Crash
<1>4. permits \subseteq Handlers /\ orphans \in Nat
  BY DEF Typed
<1>5. orphans + Cardinality(permits \cap Killed(p)) \in Nat
  BY <1>2, <1>4
<1> QED
  BY <1>3, <1>4, <1>5

LEMMA AllReset ==
  ASSUME Typed, NEW p \in Processes, Crash(p)
  PROVE  /\ handler' \in [Handlers -> HandlerType]
         /\ \A h \in Handlers : h \in Killed(p) => handler'[h].at = "idle"
         /\ \A h \in Handlers : h \notin Killed(p) => handler'[h] = handler[h]
         /\ unpublished' \in [Processes -> SUBSET Tasks]
         /\ probe' \in [Processes -> ProbeType] /\ ~probe'[p].on
         /\ \A q \in Processes : q # p => probe'[q] = probe[q] /\ redrive'[q] = redrive[q]
         /\ redrive' \in [Processes -> RedriveType]
         /\ redrive'[p].run = "start" /\ redrive'[p].full
<1>1. Resting \in HandlerType /\ Resting.at = "idle"
  BY DEF Resting, HandlerType
<1>2. NoProbe \in ProbeType /\ ~NoProbe.on
  BY DEF NoProbe, ProbeType
<1>3. Booting \in RedriveType /\ Booting.run = "start" /\ Booting.full
  BY DEF Booting, RedriveType
<1>4. /\ handler' = [h \in Handlers |-> IF h \in Killed(p) THEN Resting ELSE handler[h]]
      /\ unpublished' = [unpublished EXCEPT ![p] = {}]
      /\ probe' = [probe EXCEPT ![p] = NoProbe]
      /\ redrive' = [redrive EXCEPT ![p] = Booting]
  BY DEF Crash
<1>5. unpublished' \in [Processes -> SUBSET Tasks]
  BY <1>4 DEF Typed
<1>6. /\ handler' \in [Handlers -> HandlerType]
      /\ \A h \in Handlers : h \in Killed(p) => handler'[h].at = "idle"
      /\ \A h \in Handlers : h \notin Killed(p) => handler'[h] = handler[h]
  BY <1>1, <1>4 DEF Typed
<1>7. /\ probe' \in [Processes -> ProbeType] /\ ~probe'[p].on
      /\ \A q \in Processes : q # p => probe'[q] = probe[q]
  BY <1>2, <1>4 DEF Typed
<1>8. /\ redrive' \in [Processes -> RedriveType]
      /\ redrive'[p].run = "start" /\ redrive'[p].full
      /\ \A q \in Processes : q # p => redrive'[q] = redrive[q]
  BY <1>3, <1>4 DEF Typed
<1> QED
  BY <1>5, <1>6, <1>7, <1>8

\* Jobs apart, probes and redrives keep their shape with the types.
Shaped == Typed /\ IdsApart /\ AsksKept

LEMMA ShapedOutsideSlots ==
  ASSUME Parameters, IInv, NEW p \in Processes
  PROVE  /\ \A t \in Tasks : Enqueue(p, t) \/ AfterCommit(p, t) => Shaped'
         /\ Recover(p) \/ RedriveStep(p) \/ ScanFails(p) \/ Reconcile(p) => Shaped'
         /\ Crash(p) => Shaped'
<1> USE DEF IInv
<1>1. ASSUME NEW t \in Tasks, Enqueue(p, t) PROVE Shaped'
  <2>1. row' \in [Tasks -> RowType]
    BY <1>1, RowEnqueued
  <2>2. unpublished' \in [Processes -> SUBSET Tasks]
    BY <1>1 DEF Enqueue, Typed
  <2> QED
    BY <1>1, <2>1, <2>2 DEF Enqueue, Typed, IdsApart, AsksKept, Shaped
<1>2. ASSUME NEW t \in Tasks, AfterCommit(p, t) PROVE Shaped'
  <2>1. RandomId(t) \in IdType /\ Publish(p, RandomId(t))
    BY <1>2, RandomIdFresh DEF AfterCommit
  <2>2. unpublished' \in [Processes -> SUBSET Tasks]
    BY <1>2 DEF AfterCommit, Typed
  <2> QED
    BY <1>2, <2>1, <2>2, Published DEF AfterCommit, Typed, AsksKept, Shaped
<1>3. ASSUME Recover(p) PROVE Shaped'
  <2>1. redrive' = Requested(p, TRUE) /\ TRUE \in BOOLEAN
    BY <1>3 DEF Recover
  <2>2. /\ redrive' \in [Processes -> RedriveType]
        /\ \A q \in Processes : redrive'[q].run = "idle" => redrive'[q].rerun = "no"
    BY <2>1, RedriveAsked DEF AsksKept, OthersKeepRedrive
  <2>3. unarmed' \subseteq Tasks
    BY <1>3 DEF Recover, Rearmed, Typed
  <2> QED
    BY <1>3, <2>2, <2>3, Recovered DEF Recover, rowVars, Typed, AsksKept, Shaped
<1>4. ASSUME StartScan(p) PROVE Shaped'
  <2>1. /\ redrive' \in [Processes -> RedriveType]
        /\ \A q \in Processes : redrive'[q].run = "idle" => redrive'[q].rerun = "no"
    BY <1>4, ScanBegun DEF AsksKept, OthersKeepRedrive
  <2> QED
    BY <1>4, <2>1 DEF StartScan, rowVars, Typed, IdsApart, AsksKept, Shaped
<1>5. ASSUME NEW t \in Tasks, Scan(p, t) PROVE Shaped'
  <2>1. /\ redrive' \in [Processes -> RedriveType]
        /\ \A q \in Processes : redrive'[q].run = "idle" => redrive'[q].rerun = "no"
    BY <1>5, Scanned DEF AsksKept, OthersKeepRedrive
  <2>2. UNCHANGED <<rowVars, up, handler, permits, orphans>>
    BY <1>5 DEF Scan
  <2> QED
    BY <1>5, <2>1, <2>2, ScanPublishes DEF rowVars, Typed, AsksKept, Shaped
<1>6. ASSUME redrive' = AfterScan(p)
      PROVE  /\ redrive' \in [Processes -> RedriveType]
             /\ \A q \in Processes : redrive'[q].run = "idle" => redrive'[q].rerun = "no"
  BY <1>6, RedriveDone DEF AsksKept, OthersKeepRedrive
<1>7. ASSUME ScanEnds(p) PROVE Shaped'
  BY <1>6, <1>7 DEF ScanEnds, rowVars, Typed, IdsApart, AsksKept, Shaped
<1>8. ASSUME ScanFails(p) PROVE Shaped'
  <2>1. unarmed' \subseteq Tasks
    BY <1>8 DEF ScanFails, Typed, RedriveType
  <2> QED
    BY <1>6, <1>8, <2>1 DEF ScanFails, rowVars, Typed, IdsApart, AsksKept, Shaped
<1>9. ASSUME Reconcile(p) PROVE Shaped'
  <2>1. redrive' = Requested(p, FALSE) /\ FALSE \in BOOLEAN
    BY <1>9 DEF Reconcile
  <2>2. /\ redrive' \in [Processes -> RedriveType]
        /\ \A q \in Processes : redrive'[q].run = "idle" => redrive'[q].rerun = "no"
    BY <2>1, RedriveAsked DEF AsksKept, OthersKeepRedrive
  <2> QED
    BY <1>9, <2>2 DEF Reconcile, rowVars, Typed, IdsApart, AsksKept, Shaped
<1>10. ASSUME Crash(p) PROVE Shaped'
  <2>1. UNCHANGED <<row, paused, up, unarmed>>
    BY <1>10 DEF Crash
  <2>2. /\ jobs' \subseteq JobType /\ IsFiniteSet(jobs') /\ IdsApart'
        /\ permits' \subseteq Handlers /\ orphans' \in Nat
    BY <1>10, JobsAfterCrash, PermitsLost
  <2>3. AsksKept'
    BY <1>10, AllReset DEF AsksKept
  <2> QED
    BY <1>10, <2>1, <2>2, <2>3, AllReset DEF Typed, Shaped
<1> QED
  BY <1>1, <1>2, <1>3, <1>4, <1>5, <1>7, <1>8, <1>9, <1>10 DEF RedriveStep

\* The steps of a slot that publish, and those that end its job.
PublishSteps(h) == ScheduleRetry(h) \/ Defer(h) \/ LastCall(h)

\* A slot publishes a wake-up of its task under an id that no running job has.
LEMMA SlotPublishes ==
  ASSUME IInv, NEW h \in Handlers, PublishSteps(h)
  PROVE  /\ Busy(h) /\ ProcessOf[h] \in Processes
         /\ \E id \in IdType : /\ id.task = handler[h].task /\ ~Running(id)
                               /\ Publish(ProcessOf[h], id)
         /\ \E at \in {"drain", "throw", "missed", "ended"} : Step(h, at)
         /\ UNCHANGED <<rowVars, up, permits, orphans, redrive>>
<1>1. Busy(h) /\ handler[h].task \in Tasks
  BY DEF PublishSteps, ScheduleRetry, Defer, LastCall, Busy, IInv, SlotsHold
<1>2. ProcessOf[h] \in Processes
  BY DeliveryAssumption
<1>3. \/ Publish(ProcessOf[h], RandomId(handler[h].task))
      \/ \E kind \in {"defer", "admit"} : Publish(ProcessOf[h], DeferredId(h, kind))
  BY DEF PublishSteps, ScheduleRetry, Defer, LastCall
<1>4. \E id \in IdType : id.task = handler[h].task /\ ~Running(id) /\ Publish(ProcessOf[h], id)
  BY <1>1, <1>3, RandomIdFresh, DeferredIdWaits DEF IInv
<1>5. \E at \in {"drain", "throw", "missed", "ended"} : Step(h, at)
  BY DEF PublishSteps, ScheduleRetry, Defer, LastCall
<1> QED
  BY <1>1, <1>2, <1>4, <1>5 DEF PublishSteps, ScheduleRetry, Defer, LastCall

Ends(h) == jobs' = Removed(h) /\ Finish(h)
LEMMA SlotEnds ==
  ASSUME IInv, NEW h \in Handlers, Busy(h), Ends(h)
  PROVE  /\ jobs' \subseteq JobType /\ IsFiniteSet(jobs') /\ IdsApart'
         /\ handler' \in [Handlers -> HandlerType] /\ permits' \subseteq Handlers
<1>1. jobs' \subseteq jobs /\ IsFiniteSet(jobs')
  BY JobRemoved DEF IInv, Ends
<1>2. handler' \in [Handlers -> HandlerType]
  BY Rested DEF IInv, Typed, Ends, Finish
<1> QED
  BY <1>1, <1>2 DEF IInv, Typed, IdsApart, Ends, Finish

LEMMA ShapedInSlots ==
  ASSUME IInv, NEW h \in Handlers
  PROVE  /\ \A j \in jobs : Deliver(h, j) => Shaped'
         /\ HandlerStep(h) \/ GiveBack(h) \/ Throws(h) => Shaped'
<1> USE DEF IInv
<1> DEFINE Ats == Undecided \cup {"idle", "work", "drain", "ended"}
<1>0. /\ handler \in [Handlers -> HandlerType]
      /\ Busy(h) => handler[h].task \in Tasks
      /\ {"run", "turnedAway", "missed", "work", "failed", "released", "defer", "throw",
          "lastCall", "drain", "ended"} \subseteq Ats
  BY DEF Typed, SlotsHold, Undecided
<1>1. ASSUME NEW j \in jobs, Deliver(h, j) PROVE Shaped'
  <2>1. jobs' \subseteq JobType /\ IsFiniteSet(jobs') /\ IdsApart'
    BY <1>1, JobGivenOut, JobReplaced DEF Deliver
  <2>2. handler' \in [Handlers -> HandlerType]
    BY <1>1, SlotAfter
  <2> QED
    BY <1>1, <2>1, <2>2 DEF Deliver, rowVars, Typed, AsksKept, Shaped
<1>2. ASSUME PublishSteps(h) PROVE Shaped'
  <2>1. PICK id \in IdType : Publish(ProcessOf[h], id)
    BY <1>2, SlotPublishes
  <2>2. handler' \in [Handlers -> HandlerType]
    BY <1>0, <1>2, SlotPublishes, Stepped
  <2>3. ProcessOf[h] \in Processes /\ UNCHANGED <<rowVars, up, permits, orphans, redrive>>
    BY <1>2, SlotPublishes
  <2> QED
    BY <2>1, <2>2, <2>3, Published DEF rowVars, Typed, AsksKept, Shaped
<1>3. ASSUME Admit(h) PROVE Shaped'
  <2>1. handler' \in [Handlers -> HandlerType]
    BY <1>0, <1>3, Stepped DEF Admit
  <2>2. permits' \subseteq Handlers
    BY <1>3 DEF Admit, Typed
  <2> QED
    BY <1>3, <2>1, <2>2 DEF Admit, rowVars, Typed, IdsApart, AsksKept, Shaped
<1>4. ASSUME Claim(h) PROVE Shaped'
  <2>1. handler' \in [Handlers -> HandlerType]
    BY <1>0, <1>4, Stepped DEF Claim
  <2>2. Busy(h)
    BY <1>4 DEF Claim, Busy
  <2>3. row' \in [Tasks -> RowType]
    BY <1>0, <1>4, <2>2, RowClaimed DEF Claim, Typed
  <2> QED
    BY <1>4, <2>1, <2>3 DEF Claim, Typed, IdsApart, AsksKept, Shaped
<1>5. ASSUME Succeed(h) PROVE Shaped'
  <2>1. handler' \in [Handlers -> HandlerType] /\ Busy(h)
    BY <1>5, SlotAfter DEF Succeed, Busy
  <2>2. row' \in [Tasks -> RowType]
    BY <1>0, <1>5, <2>1, RowDone
  <2> QED
    BY <1>5, <2>1, <2>2 DEF Succeed, Typed, IdsApart, AsksKept, Shaped
<1>6. ASSUME GiveBack(h) PROVE Shaped'
  <2>1. handler' \in [Handlers -> HandlerType] /\ Busy(h)
    BY <1>0, <1>6, Stepped DEF GiveBack, Busy
  <2>2. row' \in [Tasks -> RowType]
    BY <1>0, <1>6, <2>1, RowGivenBack
  <2> QED
    BY <1>6, <2>1, <2>2 DEF GiveBack, Typed, IdsApart, AsksKept, Shaped
<1>7. ASSUME NEW t \in Tasks, Drain(h, t) PROVE Shaped'
  <2>1. handler' \in [Handlers -> HandlerType]
    BY <1>7, SlotAfter
  <2>2. row' \in [Tasks -> RowType]
    BY <1>7, RowClaimed DEF Drain
  <2> QED
    BY <1>7, <2>1, <2>2 DEF Drain, Typed, IdsApart, AsksKept, Shaped
<1>8. ASSUME DrainEnds(h) \/ End(h) PROVE Shaped'
  <2>1. Ends(h) /\ Busy(h)
    BY <1>8 DEF DrainEnds, End, Ends, Busy
  <2>2. UNCHANGED <<rowVars, up, orphans, probe, redrive, unarmed>>
    BY <1>8 DEF DrainEnds, End
  <2> QED
    BY <2>1, <2>2, SlotEnds DEF rowVars, Typed, AsksKept, Shaped
<1>9. ASSUME Inspect(h) PROVE Shaped'
  <2>1. Busy(h) /\ UNCHANGED <<rowVars, up, orphans, probe, redrive>>
    BY <1>9 DEF Inspect, Busy
  <2>2. \/ Ends(h) /\ unarmed' \in {unarmed, unarmed \cup {handler[h].task}}
        \/ Step(h, "defer") /\ UNCHANGED <<jobs, permits, unarmed>>
    BY <1>9 DEF Inspect, Ends
  <2>3. CASE Ends(h) /\ unarmed' \in {unarmed, unarmed \cup {handler[h].task}}
    <3>1. unarmed' \subseteq Tasks
      BY <1>0, <2>1, <2>3 DEF Typed
    <3> QED
      BY <2>1, <2>3, <3>1, SlotEnds DEF rowVars, Typed, AsksKept, Shaped
  <2>4. CASE Step(h, "defer") /\ UNCHANGED <<jobs, permits, unarmed>>
    <3>1. handler' \in [Handlers -> HandlerType]
      BY <1>0, <2>4, Stepped
    <3> QED
      BY <2>1, <2>4, <3>1 DEF rowVars, Typed, IdsApart, AsksKept, Shaped
  <2> QED
    BY <2>2, <2>3, <2>4
<1>10. ASSUME Retry(h) PROVE Shaped'
  <2>1. Busy(h) /\ UNCHANGED <<rowVars, up, orphans, probe, redrive, unarmed>>
    BY <1>10 DEF Retry, Busy
  <2>2. \/ /\ jobs' = (jobs \ {JobOf(h)}) \cup
                        {[JobOf(h) EXCEPT !.active = FALSE, !.tries = @ + 1]}
           /\ Finish(h)
        \/ Step(h, "lastCall") /\ UNCHANGED <<jobs, permits>>
    BY <1>10 DEF Retry
  <2>3. CASE /\ jobs' = (jobs \ {JobOf(h)}) \cup
                          {[JobOf(h) EXCEPT !.active = FALSE, !.tries = @ + 1]}
             /\ Finish(h)
    <3>1. JobOf(h) \in jobs
      BY <2>1, JobOfSlot
    <3>2. jobs' \subseteq JobType /\ IsFiniteSet(jobs') /\ IdsApart'
      BY <2>3, <3>1, JobGivenBack, JobReplaced
    <3>3. handler' \in [Handlers -> HandlerType] /\ permits' \subseteq Handlers
      BY <1>0, <2>3, Rested DEF Finish, Typed
    <3> QED
      BY <2>1, <3>2, <3>3 DEF rowVars, Typed, AsksKept, Shaped
  <2>4. CASE Step(h, "lastCall") /\ UNCHANGED <<jobs, permits>>
    <3>1. handler' \in [Handlers -> HandlerType]
      BY <1>0, <2>4, Stepped
    <3> QED
      BY <2>1, <2>4, <3>1 DEF rowVars, Typed, IdsApart, AsksKept, Shaped
  <2> QED
    BY <2>2, <2>3, <2>4
<1>11. ASSUME Throws(h) PROVE Shaped'
  <2>1. handler' \in [Handlers -> HandlerType]
    BY <1>0, <1>11, Stepped DEF Throws
  <2> QED
    BY <1>11, <2>1 DEF Throws, rowVars, Typed, IdsApart, AsksKept, Shaped
<1> QED
  BY <1>1, <1>2, <1>3, <1>4, <1>5, <1>6, <1>7, <1>8, <1>9, <1>10, <1>11
     DEF HandlerStep, PublishSteps

\* The steps of the environment.
Surroundings ==
  \/ \E kind \in {"until", "forever"} : Pause(kind)
  \/ Resume \/ RedisDown \/ RedisUp \/ PermitExpires \/ UNCHANGED vars

LEMMA SurroundingsLeave ==
  ASSUME Surroundings
  PROVE  UNCHANGED <<row, unpublished, jobs, handler, permits, probe, redrive, unarmed>>
  BY DEF Surroundings, Pause, Resume, RedisDown, RedisUp, PermitExpires, vars, rowVars

LEMMA ShapedElsewhere ==
  ASSUME IInv, Surroundings \/ \E t \in Tasks : BecomeDue(t)
  PROVE  Shaped'
<1>1. CASE Surroundings
  <2>1. UNCHANGED <<row, unpublished, jobs, handler, permits, probe, redrive, unarmed>>
    BY <1>1, SurroundingsLeave
  <2>2. paused' \in {"no", "until", "forever"} /\ up' \in BOOLEAN
    BY <1>1 DEF IInv, Typed, Surroundings, Pause, Resume, RedisDown, RedisUp, PermitExpires,
                vars, rowVars
  <2>3. orphans' \in Nat
    <3>1. orphans' = orphans \/ (orphans > 0 /\ orphans' = orphans - 1)
      BY <1>1 DEF Surroundings, Pause, Resume, RedisDown, RedisUp, PermitExpires, vars, rowVars
    <3>2. orphans \in Nat
      BY DEF IInv, Typed
    <3> QED
      BY <3>1, <3>2
  <2> QED
    BY <2>1, <2>2, <2>3 DEF IInv, Typed, IdsApart, AsksKept, Shaped
<1>2. CASE \E t \in Tasks : BecomeDue(t)
  <2>1. PICK t \in Tasks : BecomeDue(t)
    BY <1>2
  <2>2. row' \in [Tasks -> RowType]
    BY <2>1, RowDue DEF IInv
  <2> QED
    BY <2>1, <2>2 DEF BecomeDue, IInv, Typed, IdsApart, AsksKept, Shaped
<1> QED
  BY <1>1, <1>2

---------------------------------------------------------------------------
(* Every action leaves each slot its job                                   *)

LEMMA SlotsKeptOutside ==
  ASSUME IInv, NEW p \in Processes
  PROVE  /\ \A t \in Tasks : Enqueue(p, t) \/ AfterCommit(p, t) => SlotsHold'
         /\ Recover(p) \/ RedriveStep(p) \/ ScanFails(p) \/ Reconcile(p) => SlotsHold'
         /\ Crash(p) => SlotsHold'
<1> USE DEF IInv
<1>1. ASSUME NEW t \in Tasks, Enqueue(p, t) \/ AfterCommit(p, t) PROVE SlotsHold'
  <2>1. UNCHANGED handler
    BY <1>1 DEF Enqueue, AfterCommit
  <2>2. jobs \subseteq jobs'
    BY <1>1, RandomIdFresh, Published DEF Enqueue, AfterCommit
  <2> QED
    BY <2>1, <2>2, SlotsUntouched DEF ActiveKept
<1>2. ASSUME Recover(p) \/ RedriveStep(p) \/ ScanFails(p) \/ Reconcile(p) PROVE SlotsHold'
  <2>1. UNCHANGED handler
    BY <1>2 DEF Recover, RedriveStep, StartScan, Scan, ScanEnds, ScanFails, Reconcile
  <2>2. jobs \subseteq jobs'
    <3>1. CASE Recover(p)
      BY <3>1, Recovered
    <3>2. CASE \E t \in Tasks : Scan(p, t)
      BY <3>2, ScanPublishes
    <3> QED
      BY <1>2, <3>1, <3>2 DEF RedriveStep, StartScan, ScanEnds, ScanFails, Reconcile
  <2> QED
    BY <2>1, <2>2, SlotsUntouched DEF ActiveKept
<1>3. ASSUME Crash(p) PROVE SlotsHold'
  <2>1. \A h \in Handlers : Busy(h)' =>
          h \notin Killed(p) /\ Busy(h) /\ handler'[h] = handler[h]
    BY <1>3, AllReset DEF Busy
  <2>2. \A h \in Handlers : Busy(h)' => JobOf(h) \in jobs'
    BY <1>3, <2>1, JobsAfterCrash
  <2>3. ASSUME NEW h \in Handlers, Busy(h)'
        PROVE  /\ \E j \in jobs' : j.active /\ j.id = handler'[h].id
               /\ handler'[h].task \in Tasks
               /\ ~handler'[h].draining => handler'[h].task = handler'[h].id.task
               /\ handler'[h].at \in Plain => ~handler'[h].draining
               /\ handler'[h].at = "drain" => handler'[h].draining
    <3>1. JobOf(h).active /\ JobOf(h).id = handler[h].id
      BY <2>1, <2>3, JobOfSlot
    <3> QED
      BY <2>1, <2>2, <2>3, <3>1 DEF SlotsHold
  <2>4. \A g \in Handlers, h \in Handlers :
          Busy(g)' /\ Busy(h)' /\ handler'[g].id = handler'[h].id => g = h
    BY <2>1 DEF SlotsHold
  <2> QED
    BY <2>3, <2>4 DEF SlotsHold, Plain
<1> QED
  BY <1>1, <1>2, <1>3

LEMMA SlotsKeptInside ==
  ASSUME IInv, NEW h \in Handlers
  PROVE  /\ \A j \in jobs : Deliver(h, j) => SlotsHold'
         /\ HandlerStep(h) \/ GiveBack(h) \/ Throws(h) => SlotsHold'
<1> USE DEF IInv
<1> DEFINE Ats == Undecided \cup {"idle", "work", "drain", "ended"}
<1>0. /\ handler \in [Handlers -> HandlerType]
      /\ {"run", "turnedAway", "missed", "work", "failed", "released", "defer", "throw",
          "lastCall", "drain", "ended"} \subseteq Ats
  BY DEF Typed, Undecided
<1>1. ASSUME NEW j \in jobs, Deliver(h, j) PROVE SlotsHold'
  <2> DEFINE k == [j EXCEPT !.active = TRUE]
  <2>1. k.id = j.id /\ k.active /\ j.id.task \in Tasks
    BY JobGivenOut DEF Typed, JobType, IdType
  <2>2. jobs' = (jobs \ {j}) \cup {k} /\ ~j.active /\ ~Busy(h)
    BY <1>1 DEF Deliver, Busy
  <2> HIDE DEF k
  <2>3. /\ \A g \in Handlers : g # h => handler'[g] = handler[g]
        /\ handler'[h].at = "start" /\ ~handler'[h].draining
        /\ handler'[h].id = j.id /\ handler'[h].task = j.id.task
    BY <1>1, SlotAfter
  <2>4. \A g \in Handlers : Busy(g) => handler[g].id # j.id
    BY <2>2 DEF SlotsHold, IdsApart
  <2>5. ASSUME NEW g \in Handlers, Busy(g)'
        PROVE  /\ \E i \in jobs' : i.active /\ i.id = handler'[g].id
               /\ handler'[g].task \in Tasks
               /\ ~handler'[g].draining => handler'[g].task = handler'[g].id.task
               /\ handler'[g].at \in Plain => ~handler'[g].draining
               /\ handler'[g].at = "drain" => handler'[g].draining
    <3>1. CASE g = h
      BY <2>1, <2>2, <2>3, <3>1
    <3>2. CASE g # h
      BY <2>2, <2>3, <2>4, <2>5, <3>2 DEF SlotsHold, Busy
    <3> QED
      BY <3>1, <3>2
  <2>6. \A f \in Handlers, g \in Handlers :
          Busy(f)' /\ Busy(g)' /\ handler'[f].id = handler'[g].id => f = g
    BY <2>3, <2>4 DEF SlotsHold, Busy
  <2> QED
    BY <2>5, <2>6 DEF SlotsHold, Plain
<1>2. ASSUME NEW at \in Ats \ {"idle"}, Step(h, at), Busy(h), ActiveKept,
             at \in Plain => ~handler[h].draining, at = "drain" => handler[h].draining
      PROVE  SlotsHold'
  <2>1. /\ \A g \in Handlers : g # h => handler'[g] = handler[g]
        /\ handler'[h].at = at /\ handler'[h].id = handler[h].id
        /\ handler'[h].task = handler[h].task /\ handler'[h].draining = handler[h].draining
    BY <1>0, <1>2, Stepped
  <2>2. handler[h].task \in Tasks /\ (~handler[h].draining => handler[h].task = handler[h].id.task)
    BY <1>2 DEF SlotsHold
  <2> QED
    BY <1>2, <2>1, <2>2, SlotMoves
<1>3. ASSUME PublishSteps(h) PROVE SlotsHold'
  <2>1. Busy(h) /\ ActiveKept
    BY <1>3, SlotPublishes, Published DEF ActiveKept
  <2>2. /\ handler[h].at \in Plain => ~handler[h].draining
        /\ {"drain", "throw", "missed", "ended"} \subseteq Ats \ {"idle"}
    BY <1>0, <2>1 DEF SlotsHold
  <2> DEFINE Fits == \E at \in Ats \ {"idle"} : /\ Step(h, at)
                                                /\ at \in Plain => ~handler[h].draining
                                                /\ at = "drain" => handler[h].draining
  <2>3. ASSUME Defer(h) \/ LastCall(h) PROVE Fits
    BY <2>2, <2>3 DEF Defer, LastCall, Plain
  <2>4. ASSUME ScheduleRetry(h) PROVE Fits
    <3>1. CASE handler[h].draining
      <4>1. Step(h, "drain")
        BY <2>4, <3>1 DEF ScheduleRetry
      <4>2. "drain" \notin Plain
        BY DEF Plain
      <4> QED
        BY <2>2, <3>1, <4>1, <4>2
    <3>2. CASE ~handler[h].draining
      BY <2>2, <2>4, <3>2 DEF ScheduleRetry
    <3> QED
      BY <3>1, <3>2
  <2>5. Fits
    BY <1>3, <2>3, <2>4 DEF PublishSteps
  <2> QED
    BY <1>2, <2>1, <2>5
<1>4. ASSUME Admit(h) \/ Claim(h) \/ GiveBack(h) \/ Throws(h) PROVE SlotsHold'
  <2>1. Busy(h) /\ ActiveKept
    BY <1>4 DEF Admit, Claim, GiveBack, Throws, ActiveKept, Busy
  <2>2. \E at \in Ats \ {"idle"} : /\ Step(h, at)
                                   /\ at \in Plain => ~handler[h].draining
                                   /\ at # "drain"
    BY <1>0, <1>4, <2>1 DEF Admit, Claim, GiveBack, Throws, SlotsHold, Plain
  <2> QED
    BY <1>2, <2>1, <2>2
<1>5. ASSUME Succeed(h) PROVE SlotsHold'
  <2>1. Busy(h) /\ ActiveKept /\ handler[h].task \in Tasks
    BY <1>5 DEF Succeed, Busy, ActiveKept, SlotsHold
  <2> QED
    BY <1>5, <2>1, SlotAfter, SlotMoves DEF Plain
<1>6. ASSUME NEW t \in Tasks, Drain(h, t) PROVE SlotsHold'
  <2>1. Busy(h) /\ ActiveKept /\ handler[h].draining
    BY <1>6 DEF Drain, Busy, ActiveKept, SlotsHold
  <2> QED
    BY <1>6, <2>1, SlotAfter, SlotMoves DEF Plain
<1>7. ASSUME Ends(h), Busy(h) PROVE SlotsHold'
  <2>1. \A j \in jobs : j.active /\ j.id # handler[h].id => j \in jobs'
    BY <1>7, JobRemoved DEF Ends
  <2> QED
    BY <1>0, <1>7, <2>1, SlotRests DEF Ends, Finish
<1>8. ASSUME DrainEnds(h) \/ End(h) PROVE SlotsHold'
  BY <1>7, <1>8 DEF DrainEnds, End, Ends, Busy
<1>9. ASSUME Inspect(h) PROVE SlotsHold'
  <2>1. Busy(h) /\ ~handler[h].draining
    BY <1>9 DEF Inspect, Busy, SlotsHold, Plain
  <2>2. Ends(h) \/ (Step(h, "defer") /\ ActiveKept)
    BY <1>9 DEF Inspect, Ends, ActiveKept
  <2> QED
    BY <1>0, <1>2, <1>7, <2>1, <2>2
<1>10. ASSUME Retry(h) PROVE SlotsHold'
  <2>1. Busy(h) /\ ~handler[h].draining
    BY <1>10 DEF Retry, Busy, SlotsHold, Plain
  <2>2. JobOf(h).id = handler[h].id
    BY <2>1, JobOfSlot
  <2>3. \/ /\ \A j \in jobs : j.active /\ j.id # handler[h].id => j \in jobs'
           /\ Finish(h)
        \/ Step(h, "lastCall") /\ ActiveKept
    BY <1>10, <2>2 DEF Retry, ActiveKept
  <2> QED
    BY <1>0, <1>2, <2>1, <2>3, SlotRests DEF Finish
<1> QED
  BY <1>1, <1>3, <1>4, <1>5, <1>6, <1>8, <1>9, <1>10 DEF HandlerStep, PublishSteps

---------------------------------------------------------------------------
(* What a worker has is not due                                            *)

WorksShrink == \A h \in Handlers, t \in Tasks : Works(h, t)' => Works(h, t)

LEMMA NothingClaimed ==
  ASSUME WorkedOnRests, WorksShrink, UNCHANGED row
  PROVE  WorkedOnRests'
  BY DEF WorkedOnRests, WorksShrink

LEMMA OneRowMoved ==
  ASSUME WorkedOnRests, NEW t \in Tasks, OthersKeepRows(t),
         row'[t].status # "none", ~row'[t].due,
         \A h \in Handlers, u \in Tasks : Works(h, u)' => Works(h, u) \/ u = t
  PROVE  WorkedOnRests'
  BY DEF WorkedOnRests, OthersKeepRows

LEMMA WorksAfter ==
  ASSUME IInv, NEW h \in Handlers
  PROVE  /\ \A j \in jobs : Deliver(h, j) => WorkedOnRests'
         /\ HandlerStep(h) \/ GiveBack(h) \/ Throws(h) => WorkedOnRests'
<1> USE DEF IInv
<1> DEFINE Ats == Undecided \cup {"idle", "work", "drain", "ended"}
<1>0. /\ handler \in [Handlers -> HandlerType]
      /\ {"run", "turnedAway", "missed", "work", "failed", "released", "defer", "throw",
          "lastCall", "drain", "ended"} \subseteq Ats
      /\ Busy(h) => handler[h].task \in Tasks
  BY DEF Typed, Undecided, SlotsHold
<1>1. ASSUME NEW at \in Ats, Step(h, at), at # "work" PROVE WorksShrink
  BY <1>0, <1>1, Stepped DEF WorksShrink, Works
<1>2. ASSUME Finish(h) PROVE WorksShrink
  BY <1>0, <1>2, Rested DEF WorksShrink, Works, Finish
<1>3. ASSUME NEW j \in jobs, Deliver(h, j) PROVE WorkedOnRests'
  <2>1. WorksShrink
    BY <1>3, SlotAfter DEF WorksShrink, Works
  <2> QED
    BY <1>3, <2>1, NothingClaimed DEF Deliver, rowVars
<1>4. ASSUME PublishSteps(h) PROVE WorkedOnRests'
  <2>1. UNCHANGED row /\ WorksShrink
    BY <1>0, <1>1, <1>4, SlotPublishes DEF rowVars
  <2> QED
    BY <2>1, NothingClaimed
<1>5. ASSUME Admit(h) \/ Throws(h) \/ Inspect(h) \/ Retry(h) \/ DrainEnds(h) \/ End(h)
      PROVE  WorkedOnRests'
  <2>1. UNCHANGED row
    BY <1>5 DEF Admit, Throws, Inspect, Retry, DrainEnds, End, rowVars
  <2>2. Finish(h) \/ \E at \in Ats : at # "work" /\ Step(h, at)
    BY <1>0, <1>5 DEF Admit, Throws, Inspect, Retry, DrainEnds, End
  <2> QED
    BY <1>1, <1>2, <2>1, <2>2, NothingClaimed
<1>6. ASSUME Claim(h) PROVE WorkedOnRests'
  <2>1. CASE row' = row
    <3>1. Step(h, "missed")
      <4>1. CASE Claimable(handler[h].task) /\ row' = ClaimedRow(handler[h].task)
        <5>1. handler[h].task \in Tasks /\ row[handler[h].task].due
          BY <1>0, <1>6, <4>1 DEF Claim, Busy, Claimable
        <5>2. ~row'[handler[h].task].due
          BY <4>1, <5>1, RowClaimed
        <5> QED
          BY <2>1, <5>1, <5>2
      <4> QED
        BY <1>6, <4>1 DEF Claim
    <3> QED
      BY <1>0, <1>1, <2>1, <3>1, NothingClaimed
  <2>2. CASE row' # row
    <3> DEFINE t == handler[h].task
    <3>1. t \in Tasks /\ Claimable(t) /\ row' = ClaimedRow(t) /\ Step(h, "work")
      BY <1>0, <1>6, <2>2 DEF Claim, Busy
    <3>2. \A g \in Handlers, u \in Tasks : Works(g, u)' => Works(g, u) \/ u = t
      BY <1>0, <3>1, Stepped DEF Works
    <3> QED
      BY <3>1, <3>2, RowClaimed, OneRowMoved
  <2> QED
    BY <2>1, <2>2
<1>7. ASSUME Succeed(h) PROVE WorkedOnRests'
  <2> DEFINE t == handler[h].task
  <2>1. t \in Tasks /\ Works(h, t)
    BY <1>0, <1>7 DEF Succeed, Busy, Works
  <2>2. OthersKeepRows(t) /\ row'[t].status # "none" /\ ~row'[t].due
    BY <1>7, <2>1, RowDone DEF WorkedOnRests
  <2>3. WorksShrink
    BY <1>7, SlotAfter DEF WorksShrink, Works
  <2> QED
    BY <2>1, <2>2, <2>3, OneRowMoved DEF WorksShrink
<1>8. ASSUME GiveBack(h) PROVE WorkedOnRests'
  <2> DEFINE t == handler[h].task
  <2>1. t \in Tasks
    BY <1>0, <1>8 DEF GiveBack, Busy
  <2>2. OthersKeepRows(t) /\ row'[t].status # "none" /\ ~row'[t].due
    BY <1>8, <2>1, RowGivenBack
  <2>3. WorksShrink
    BY <1>0, <1>1, <1>8 DEF GiveBack
  <2> QED
    BY <2>1, <2>2, <2>3, OneRowMoved DEF WorksShrink
<1>9. ASSUME NEW t \in Tasks, Drain(h, t) PROVE WorkedOnRests'
  <2>1. OthersKeepRows(t) /\ row'[t].status # "none" /\ ~row'[t].due
    BY <1>9, RowClaimed DEF Drain
  <2>2. \A g \in Handlers, u \in Tasks : Works(g, u)' => Works(g, u) \/ u = t
    BY <1>9, SlotAfter DEF Works
  <2> QED
    BY <2>1, <2>2, OneRowMoved
<1> QED
  BY <1>3, <1>4, <1>5, <1>6, <1>7, <1>8, <1>9 DEF HandlerStep, PublishSteps

LEMMA WorksOutsideSlots ==
  ASSUME IInv, NEW p \in Processes
  PROVE  /\ \A t \in Tasks : Enqueue(p, t) \/ AfterCommit(p, t) => WorkedOnRests'
         /\ Recover(p) \/ RedriveStep(p) \/ ScanFails(p) \/ Reconcile(p) => WorkedOnRests'
         /\ Crash(p) => WorkedOnRests'
<1> USE DEF IInv
<1>1. ASSUME UNCHANGED <<row, handler>> PROVE WorkedOnRests'
  BY <1>1, NothingClaimed DEF WorksShrink, Works
<1>2. ASSUME NEW t \in Tasks, Enqueue(p, t) PROVE WorkedOnRests'
  <2>1. OthersKeepRows(t) /\ UNCHANGED handler /\ row[t].status = "none"
    BY <1>2, RowEnqueued DEF Enqueue
  <2>2. \A h \in Handlers, u \in Tasks : Works(h, u)' => Works(h, u) /\ u # t
    BY <2>1 DEF Works, WorkedOnRests
  <2> QED
    BY <2>1, <2>2 DEF OthersKeepRows, WorkedOnRests
<1>3. ASSUME NEW t \in Tasks, AfterCommit(p, t) PROVE WorkedOnRests'
  BY <1>1, <1>3 DEF AfterCommit
<1>4. ASSUME Recover(p) \/ RedriveStep(p) \/ ScanFails(p) \/ Reconcile(p) PROVE WorkedOnRests'
  BY <1>1, <1>4 DEF Recover, RedriveStep, StartScan, Scan, ScanEnds, ScanFails, Reconcile, rowVars
<1>5. ASSUME Crash(p) PROVE WorkedOnRests'
  <2>1. UNCHANGED row
    BY <1>5 DEF Crash
  <2>2. WorksShrink
    BY <1>5, AllReset DEF WorksShrink, Works
  <2> QED
    BY <2>1, <2>2, NothingClaimed
<1> QED
  BY <1>2, <1>3, <1>4, <1>5

LEMMA WorksElsewhere ==
  ASSUME IInv, Surroundings \/ \E t \in Tasks : BecomeDue(t)
  PROVE  WorkedOnRests'
<1> USE DEF IInv
<1>1. CASE Surroundings
  <2>1. UNCHANGED <<row, handler>>
    BY <1>1, SurroundingsLeave
  <2> QED
    BY <2>1, NothingClaimed DEF WorksShrink, Works
<1>2. CASE \E t \in Tasks : BecomeDue(t)
  <2>1. PICK t \in Tasks : BecomeDue(t)
    BY <1>2
  <2>2. OthersKeepRows(t) /\ UNCHANGED handler /\ \A h \in Handlers : ~Works(h, t)
    BY <2>1, RowDue DEF BecomeDue
  <2> QED
    BY <2>2 DEF OthersKeepRows, WorkedOnRests, Works
<1> QED
  BY <1>1, <1>2

---------------------------------------------------------------------------
(* An open task stays on its way                                           *)

\* Every job that waits is there afterwards.
WaitingStays == \A j \in jobs : ~j.active => j \in jobs'

\* The steps of the producers and the redrive services.
LEMMA MindedOutsideSlots ==
  ASSUME IInv, NEW p \in Processes
  PROVE  /\ \A t \in Tasks : Enqueue(p, t) \/ AfterCommit(p, t) => OpenTasksMinded'
         /\ Recover(p) \/ RedriveStep(p) \/ ScanFails(p) \/ Reconcile(p) => OpenTasksMinded'
         /\ Crash(p) => OpenTasksMinded'
<1> USE DEF IInv
<1>1. ASSUME NEW t \in Tasks, Enqueue(p, t) PROVE OpenTasksMinded'
  <2>1. UNCHANGED <<jobs, handler, probe, redrive, unarmed>> /\ OthersKeepRows(t)
    BY <1>1, RowEnqueued DEF Enqueue
  <2>2. t \in unpublished'[p] /\ \A q \in Processes : unpublished[q] \subseteq unpublished'[q]
    BY <1>1 DEF Enqueue, Typed
  <2>3. ASSUME NEW u \in Tasks, Open(u)', u \notin unarmed' PROVE Minded(u)'
    <3>1. CASE u = t
      BY <2>2, <3>1 DEF Minded, ToPublish
    <3>2. CASE u # t
      <4>1. Minded(u)
        BY <2>1, <2>3, <3>2 DEF OpenTasksMinded, Open, OthersKeepRows
      <4> QED
        BY <2>1, <2>2, <4>1 DEF Minded, Waiting, ToPublish, Probing, Minding, Sweeps
    <3> QED
      BY <3>1, <3>2
  <2> QED
    BY <2>3 DEF OpenTasksMinded
<1>2. ASSUME NEW t \in Tasks, AfterCommit(p, t) PROVE OpenTasksMinded'
  <2> DEFINE id == RandomId(t)
  <2>1. id \in IdType /\ id.task = t /\ ~Running(id) /\ Publish(p, id)
    BY <1>2, RandomIdFresh DEF AfterCommit
  <2>2. UNCHANGED <<row, handler, redrive>>
    BY <1>2 DEF AfterCommit
  <2> HIDE DEF id
  <2>3. /\ WaitingStays /\ \A q \in Processes : probe[q].on => probe'[q].on
        /\ unarmed \subseteq unarmed' \cup {t}
        /\ (\E j \in jobs' : j.id = id /\ ~j.active) \/ probe'[p].on
    BY <2>1, Published DEF WaitingStays
  <2>4. Minded(t)'
    BY <2>1, <2>3 DEF Minded, Waiting, Probing
  <2>5. ASSUME NEW u \in Tasks, Open(u)', u \notin unarmed', u # t PROVE Minded(u)'
    <3>1. Minded(u)
      BY <2>2, <2>3, <2>5 DEF OpenTasksMinded, Open
    <3>2. ToPublish(u) => ToPublish(u)'
      BY <1>2, <2>5 DEF AfterCommit, Typed, ToPublish
    <3> QED
      BY <2>2, <2>3, <3>1, <3>2 DEF Minded, WaitingStays, Waiting, Probing, Minding, Sweeps
  <2> QED
    BY <2>4, <2>5 DEF OpenTasksMinded
<1>3. ASSUME Recover(p) PROVE OpenTasksMinded'
  <2>1. redrive' = Requested(p, TRUE) /\ TRUE \in BOOLEAN
    BY <1>3 DEF Recover
  <2>2. \A t : Sweeps(p, t)'
    BY <2>1, RedriveAsked DEF Sweeps, Stronger
  <2> QED
    BY <2>2 DEF OpenTasksMinded, Minded
<1>4. ASSUME StartScan(p) PROVE OpenTasksMinded'
  <2>1. UNCHANGED <<row, unpublished, jobs, handler, probe, unarmed>>
    BY <1>4 DEF StartScan, rowVars
  <2>2. ASSUME NEW t \in Tasks, Open(t), NEW q \in Processes, Sweeps(q, t)
        PROVE  Sweeps(q, t)'
    <3>1. t \in Enqueued
      BY <2>2 DEF Open, Enqueued
    <3> QED
      BY <1>4, <2>2, <3>1, ScanBegun DEF Sweeps, OthersKeepRedrive
  <2>3. \A t \in Tasks : Open(t)' => Open(t)
    BY <2>1 DEF Open
  <2> QED
    BY <2>1, <2>2, <2>3 DEF OpenTasksMinded, Minded, Waiting, ToPublish, Probing, Minding
<1>5. ASSUME NEW t \in Tasks, Scan(p, t) PROVE OpenTasksMinded'
  <2>1. UNCHANGED <<row, paused, unpublished, handler>>
    BY <1>5 DEF Scan, rowVars
  <2>2. /\ WaitingStays /\ \A q \in Processes : probe[q].on => probe'[q].on
        /\ unarmed \subseteq unarmed' \cup {t}
        /\ Candidate(t, redrive[p].full) => Waiting(t)' \/ Probing' \/ t \in unarmed'
    BY <1>5, ScanPublishes DEF WaitingStays
  <2>3. /\ OthersKeepRedrive(p)
        /\ redrive'[p].run = "scan" /\ redrive'[p].full = redrive[p].full
        /\ redrive'[p].rerun = redrive[p].rerun /\ redrive'[p].todo = redrive[p].todo \ {t}
        /\ redrive[p].run = "scan"
    BY <1>5, Scanned DEF Scan
  <2>4. ASSUME NEW u \in Tasks, u # t \/ ~redrive[p].full, NEW q \in Processes, Sweeps(q, u)
        PROVE  Sweeps(q, u)'
    BY <2>3, <2>4 DEF Sweeps, OthersKeepRedrive
  <2>5. ASSUME NEW u \in Tasks, Open(u)', u \notin unarmed', u # t \/ ~redrive[p].full,
               u \notin unarmed
        PROVE  Minded(u)'
    <3>1. Minded(u)
      BY <2>1, <2>5 DEF OpenTasksMinded, Open
    <3> QED
      BY <2>1, <2>2, <2>4, <2>5, <3>1
         DEF Minded, WaitingStays, Waiting, ToPublish, Probing, Minding
  <2>6. ASSUME Open(t)', t \notin unarmed' PROVE Minded(t)'
    <3>1. CASE Candidate(t, redrive[p].full)
      BY <2>2, <2>6, <3>1 DEF Minded
    <3>2. CASE ~Candidate(t, redrive[p].full)
      <4>1. unarmed' = unarmed /\ paused = "no"
        BY <1>5, <2>6, <3>2 DEF Scan
      <4>2. ~redrive[p].full
        BY <2>1, <2>6, <3>2, <4>1 DEF Candidate, Open
      <4> QED
        BY <2>5, <2>6, <4>1, <4>2
    <3> QED
      BY <3>1, <3>2
  <2> QED
    BY <2>2, <2>5, <2>6 DEF OpenTasksMinded
<1>6. ASSUME ScanEnds(p) \/ ScanFails(p) PROVE OpenTasksMinded'
  <2>1. UNCHANGED <<row, unpublished, jobs, handler, probe>> /\ redrive' = AfterScan(p)
    BY <1>6 DEF ScanEnds, ScanFails, rowVars
  <2>2. unarmed \subseteq unarmed' /\ redrive[p].run = "scan"
    BY <1>6 DEF ScanEnds, ScanFails
  <2>3. ASSUME NEW t \in Tasks, t \notin unarmed', NEW q \in Processes, Sweeps(q, t)
        PROVE  Sweeps(q, t)'
    <3>1. CASE q # p
      BY <2>1, <2>3, <3>1, RedriveDone DEF Sweeps, OthersKeepRedrive
    <3>2. CASE q = p
      <4>1. t \notin redrive[p].todo
        BY <1>6, <2>3 DEF ScanEnds, ScanFails
      <4>2. redrive[p].rerun = "full"
        BY <2>2, <2>3, <3>2, <4>1 DEF Sweeps
      <4> QED
        BY <2>1, <3>2, <4>2, RedriveDone DEF Sweeps
    <3> QED
      BY <3>1, <3>2
  <2> QED
    BY <2>1, <2>2, <2>3
       DEF OpenTasksMinded, Open, Minded, Waiting, ToPublish, Probing, Minding
<1>7. ASSUME Reconcile(p) PROVE OpenTasksMinded'
  <2>1. UNCHANGED <<row, unpublished, jobs, handler, probe, unarmed>>
    BY <1>7 DEF Reconcile, rowVars
  <2>2. redrive' = Requested(p, FALSE) /\ FALSE \in BOOLEAN /\ redrive[p].run = "idle"
    BY <1>7 DEF Reconcile
  <2>3. \A t : \A q \in Processes : Sweeps(q, t) => Sweeps(q, t)'
    <3>1. \A t : ~Sweeps(p, t)
      BY <2>2 DEF Sweeps, AsksKept
    <3> QED
      BY <2>2, <3>1, RedriveAsked DEF Sweeps, OthersKeepRedrive
  <2> QED
    BY <2>1, <2>3 DEF OpenTasksMinded, Open, Minded, Waiting, ToPublish, Probing, Minding
<1>8. ASSUME Crash(p) PROVE OpenTasksMinded'
  <2>1. \A t : Sweeps(p, t)'
    BY <1>8, AllReset DEF Sweeps
  <2> QED
    BY <2>1 DEF OpenTasksMinded, Minded
<1> QED
  BY <1>1, <1>2, <1>3, <1>4, <1>5, <1>6, <1>7, <1>8 DEF RedriveStep

\* A slot that minded a task and still does, or did not mind any.
LEMMA SlotKeepsMinding ==
  ASSUME IInv, NEW h \in Handlers, WaitingStays, UNCHANGED <<unpublished, redrive>>,
         \A q \in Processes : probe[q].on => probe'[q].on,
         \A g \in Handlers : g # h => handler'[g] = handler[g],
         NEW t \in Tasks, Open(t), t \notin unarmed,
         Minding(h, t) => Minding(h, t)' \/ Waiting(t)' \/ Probing'
  PROVE  Minded(t)'
<1>1. Minded(t)
  BY DEF IInv, OpenTasksMinded
<1>2. \A g \in Handlers : g # h => (Minding(g, t) => Minding(g, t)')
  BY DEF Minding
<1>3. /\ Waiting(t) => Waiting(t)'
      /\ ToPublish(t) => ToPublish(t)'
      /\ Probing => Probing'
      /\ \A p \in Processes : Sweeps(p, t) => Sweeps(p, t)'
  BY DEF WaitingStays, Waiting, ToPublish, Probing, Sweeps
<1> QED
  BY <1>1, <1>2, <1>3 DEF Minded

LEMMA MindedInSlots ==
  ASSUME IInv, NEW h \in Handlers
  PROVE  /\ \A j \in jobs : Deliver(h, j) => OpenTasksMinded'
         /\ HandlerStep(h) \/ GiveBack(h) \/ Throws(h) => OpenTasksMinded'
<1> USE DEF IInv
<1> DEFINE Ats == Undecided \cup {"idle", "work", "drain", "ended"}
           Others == \A g \in Handlers : g # h => handler'[g] = handler[g]
<1>0. /\ handler \in [Handlers -> HandlerType]
      /\ {"run", "turnedAway", "missed", "work", "failed", "released", "defer", "throw",
          "lastCall", "drain", "ended"} \subseteq Ats
      /\ Busy(h) => handler[h].task \in Tasks
  BY DEF Typed, Undecided, SlotsHold
<1>1. ASSUME NEW at \in Ats, Step(h, at)
      PROVE  /\ Others
             /\ at \in Undecided \cup {"work"} => \A t : Minding(h, t) => Minding(h, t)'
  BY <1>0, <1>1, Stepped DEF Minding
<1>2. ASSUME UNCHANGED <<unpublished, jobs, probe, redrive, unarmed>>, Others,
             \A t \in Tasks : Open(t)' /\ Minding(h, t) => Minding(h, t)',
             \A t \in Tasks : Open(t)' => Open(t)
      PROVE  OpenTasksMinded'
  <2>1. WaitingStays /\ \A q \in Processes : probe[q].on => probe'[q].on
    BY <1>2 DEF WaitingStays
  <2>2. ASSUME NEW t \in Tasks, Open(t)', t \notin unarmed' PROVE Minded(t)'
    BY <1>2, <2>1, <2>2, SlotKeepsMinding
  <2> QED
    BY <2>2 DEF OpenTasksMinded
<1>3. ASSUME NEW j \in jobs, Deliver(h, j) PROVE OpenTasksMinded'
  <2>1. /\ Others /\ handler'[h].at = "start" /\ handler'[h].task = j.id.task
        /\ handler[h].at = "idle"
    BY <1>3, SlotAfter DEF Deliver
  <2>2. /\ UNCHANGED <<row, unpublished, probe, redrive, unarmed>>
        /\ \A i \in jobs : i # j => i \in jobs'
    BY <1>3 DEF Deliver, rowVars
  <2>3. ASSUME NEW t \in Tasks, Open(t)', t \notin unarmed' PROVE Minded(t)'
    <3>1. Minded(t)
      BY <2>2, <2>3 DEF OpenTasksMinded, Open
    <3>2. \A g \in Handlers : Minding(g, t) => Minding(g, t)'
      BY <2>1 DEF Minding, Undecided
    <3>3. Waiting(t) => Waiting(t)' \/ Minding(h, t)'
      BY <2>1, <2>2 DEF Waiting, Minding, Undecided
    <3> QED
      BY <2>2, <3>1, <3>2, <3>3 DEF Minded, ToPublish, Probing, Sweeps
  <2> QED
    BY <2>3 DEF OpenTasksMinded
<1>4. ASSUME PublishSteps(h) PROVE OpenTasksMinded'
  <2>1. PICK id \in IdType :
          id.task = handler[h].task /\ ~Running(id) /\ Publish(ProcessOf[h], id)
    BY <1>4, SlotPublishes
  <2>2. /\ ProcessOf[h] \in Processes /\ Others
        /\ UNCHANGED <<row, unpublished, redrive>>
    BY <1>0, <1>1, <1>4, SlotPublishes DEF rowVars
  <2>3. /\ WaitingStays /\ \A q \in Processes : probe[q].on => probe'[q].on
        /\ unarmed \subseteq unarmed' \cup {id.task}
        /\ (\E j \in jobs' : j.id = id /\ ~j.active) \/ Probing'
    BY <2>1, <2>2, Published DEF WaitingStays, Probing
  <2>4. (\E j \in jobs' : j.id.task = handler[h].task /\ ~j.active) \/ Probing'
    BY <2>1, <2>3
  <2>5. ASSUME NEW t \in Tasks, Open(t)', t \notin unarmed' PROVE Minded(t)'
    <3>1. CASE t = handler[h].task
      BY <2>4, <3>1 DEF Minded, Waiting
    <3>2. CASE t # handler[h].task
      <4>1. Open(t) /\ t \notin unarmed /\ ~Minding(h, t)
        BY <2>1, <2>2, <2>3, <2>5, <3>2 DEF Open, Minding
      <4> QED
        BY <2>2, <2>3, <4>1, SlotKeepsMinding
    <3> QED
      BY <3>1, <3>2
  <2> QED
    BY <2>5 DEF OpenTasksMinded
<1>5. ASSUME Admit(h) \/ Throws(h) PROVE OpenTasksMinded'
  <2>1. UNCHANGED <<row, unpublished, jobs, probe, redrive, unarmed>>
    BY <1>5 DEF Admit, Throws, rowVars
  <2>2. \E at \in Undecided : Step(h, at)
    BY <1>5 DEF Admit, Throws, Undecided
  <2> QED
    BY <1>1, <1>2, <2>1, <2>2 DEF Open
<1>6. ASSUME Claim(h) PROVE OpenTasksMinded'
  <2>1. UNCHANGED <<unpublished, jobs, probe, redrive, unarmed>> /\ Busy(h)
    BY <1>6 DEF Claim, Busy
  <2>2. \E at \in Undecided \cup {"work"} : Step(h, at)
    BY <1>6 DEF Claim, Undecided
  <2>3. \A t \in Tasks : Open(t)' => Open(t)
    BY <1>0, <1>6, <2>1, RowClaimed DEF Claim, Open, OthersKeepRows
  <2> QED
    BY <1>1, <1>2, <2>1, <2>2, <2>3
<1>7. ASSUME Succeed(h) PROVE OpenTasksMinded'
  <2>1. UNCHANGED <<unpublished, jobs, probe, redrive, unarmed>> /\ Busy(h)
    BY <1>7 DEF Succeed, Busy
  <2>2. \A t \in Tasks : Open(t)' => Open(t) /\ t # handler[h].task
    BY <1>0, <1>7, <2>1, RowDone DEF Open, OthersKeepRows
  <2>3. Others /\ \A t \in Tasks : Open(t)' /\ Minding(h, t) => Minding(h, t)'
    BY <1>7, <2>2, SlotAfter DEF Minding
  <2> QED
    BY <1>2, <2>1, <2>2, <2>3
<1>8. ASSUME GiveBack(h) PROVE OpenTasksMinded'
  <2>1. /\ UNCHANGED <<unpublished, jobs, probe, redrive, unarmed>> /\ Busy(h)
        /\ handler[h].at = "work"
    BY <1>8 DEF GiveBack, Busy
  <2> DEFINE u == handler[h].task
  <2>2. /\ Others /\ u \in Tasks
        /\ \A t : Minding(h, t) => Minding(h, t)'
    BY <1>0, <1>1, <1>8, <2>1 DEF GiveBack, Undecided
  <2>3. ASSUME NEW t \in Tasks, Open(t)', t \notin unarmed' PROVE Minded(t)'
    <3>1. CASE t = u
      BY <2>1, <2>2, <3>1 DEF Minded, Minding
    <3>2. CASE t # u
      <4>1. Open(t) /\ t \notin unarmed
        BY <1>8, <2>1, <2>2, <2>3, <3>2, RowGivenBack DEF Open, OthersKeepRows
      <4>2. WaitingStays /\ \A q \in Processes : probe[q].on => probe'[q].on
        BY <2>1 DEF WaitingStays
      <4> QED
        BY <2>1, <2>2, <4>1, <4>2, SlotKeepsMinding
    <3> QED
      BY <3>1, <3>2
  <2> QED
    BY <2>3 DEF OpenTasksMinded
<1>9. ASSUME NEW u \in Tasks, Drain(h, u) PROVE OpenTasksMinded'
  <2>1. /\ UNCHANGED <<unpublished, jobs, probe, redrive, unarmed>>
        /\ handler[h].at = "drain" /\ Claimable(u)
    BY <1>9 DEF Drain
  <2>2. Others /\ \A t \in Tasks : ~Minding(h, t)
    BY <1>9, <2>1, SlotAfter DEF Minding, Undecided
  <2>3. \A t \in Tasks : Open(t)' => Open(t)
    BY <1>9, RowClaimed DEF Drain, Open, OthersKeepRows
  <2> QED
    BY <1>2, <2>1, <2>2, <2>3
<1>10. ASSUME Ends(h), Busy(h), UNCHANGED <<row, unpublished, probe, redrive>>,
              unarmed \subseteq unarmed',
              \A t \in Tasks : Open(t) /\ t \notin unarmed' => ~Minding(h, t)
       PROVE  OpenTasksMinded'
  <2>1. Others
    BY <1>0, <1>10, Rested DEF Ends, Finish
  <2>2. WaitingStays
    BY <1>10, JobRemoved DEF Ends, WaitingStays
  <2>3. ASSUME NEW t \in Tasks, Open(t)', t \notin unarmed' PROVE Minded(t)'
    BY <1>10, <2>1, <2>2, <2>3, SlotKeepsMinding DEF Open
  <2> QED
    BY <2>3 DEF OpenTasksMinded
<1>11. ASSUME DrainEnds(h) \/ End(h) PROVE OpenTasksMinded'
  <2>1. /\ Ends(h) /\ Busy(h) /\ UNCHANGED <<row, unpublished, probe, redrive, unarmed>>
        /\ handler[h].at \in {"drain", "ended"}
    BY <1>11 DEF DrainEnds, End, Ends, Busy, rowVars
  <2>2. \A t : ~Minding(h, t)
    BY <2>1 DEF Minding, Undecided
  <2> QED
    BY <1>10, <2>1, <2>2
<1>12. ASSUME Inspect(h) PROVE OpenTasksMinded'
  <2> DEFINE u == handler[h].task
             over == row[u].status \in {"none", "gone"}
             parked == ~over /\ row[u].due /\ paused = "forever"
  <2>1. Busy(h) /\ UNCHANGED <<row, unpublished, probe, redrive>>
    BY <1>12 DEF Inspect, Busy, rowVars
  <2>2. CASE over \/ parked
    <3>1. Ends(h) /\ unarmed' = IF parked THEN unarmed \cup {u} ELSE unarmed
      BY <1>12, <2>2 DEF Inspect, Ends
    <3>2. \A t \in Tasks : Open(t) /\ t \notin unarmed' => ~Minding(h, t)
      BY <2>2, <3>1 DEF Open, Minding
    <3> QED
      BY <1>10, <2>1, <3>1, <3>2
  <2>3. CASE ~(over \/ parked)
    <3>1. Step(h, "defer") /\ UNCHANGED <<jobs, permits, unarmed>>
      BY <1>12, <2>3 DEF Inspect
    <3>2. Others /\ \A t : Minding(h, t) => Minding(h, t)'
      BY <1>0, <1>1, <3>1 DEF Undecided
    <3> QED
      BY <1>2, <2>1, <3>1, <3>2 DEF Open
  <2> QED
    BY <2>2, <2>3
<1>13. ASSUME Retry(h) PROVE OpenTasksMinded'
  <2>1. /\ Busy(h) /\ UNCHANGED <<row, unpublished, probe, redrive, unarmed>>
        /\ handler[h].at = "throw"
    BY <1>13 DEF Retry, Busy, rowVars
  <2> DEFINE j == JobOf(h)
             k == [j EXCEPT !.active = FALSE, !.tries = @ + 1]
  <2>2. j \in jobs /\ j.active /\ j.id = handler[h].id
    BY <2>1, JobOfSlot
  <2>3. handler[h].task = j.id.task
    BY <2>1, <2>2 DEF SlotsHold, Plain
  <2>4. k.id = j.id /\ ~k.active
    BY <2>2, JobGivenBack
  <2> HIDE DEF j, k
  <2>5. CASE jobs' = (jobs \ {j}) \cup {k} /\ Finish(h)
    <3>1. Others
      BY <1>0, <2>5, Rested DEF Finish
    <3>2. WaitingStays
      BY <2>2, <2>5 DEF WaitingStays
    <3>3. \A t : Minding(h, t) => Waiting(t)'
      BY <2>3, <2>4, <2>5 DEF Minding, Waiting
    <3>4. ASSUME NEW t \in Tasks, Open(t)', t \notin unarmed' PROVE Minded(t)'
      BY <2>1, <3>1, <3>2, <3>3, <3>4, SlotKeepsMinding DEF Open
    <3> QED
      BY <3>4 DEF OpenTasksMinded
  <2>6. CASE Step(h, "lastCall") /\ UNCHANGED <<jobs, permits>>
    <3>1. Others /\ \A t : Minding(h, t) => Minding(h, t)'
      BY <1>0, <1>1, <2>6 DEF Undecided
    <3> QED
      BY <1>2, <2>1, <2>6, <3>1 DEF Open
  <2> QED
    BY <1>13, <2>5, <2>6 DEF Retry, j, k
<1> QED
  BY <1>3, <1>4, <1>5, <1>6, <1>7, <1>8, <1>9, <1>11, <1>12, <1>13
     DEF HandlerStep, PublishSteps

LEMMA MindedElsewhere ==
  ASSUME IInv, Surroundings \/ \E t \in Tasks : BecomeDue(t)
  PROVE  OpenTasksMinded'
<1>1. /\ UNCHANGED <<unpublished, jobs, handler, probe, redrive, unarmed>>
      /\ \A t \in Tasks : Open(t)' => Open(t)
  <2>1. CASE Surroundings
    BY <2>1, SurroundingsLeave DEF Open
  <2>2. CASE \E t \in Tasks : BecomeDue(t)
    BY <2>2, RowDue DEF BecomeDue, Open, OthersKeepRows, IInv
  <2> QED
    BY <2>1, <2>2
<1> QED
  BY <1>1 DEF IInv, OpenTasksMinded, Minded, Waiting, ToPublish, Probing, Minding, Sweeps

---------------------------------------------------------------------------
(* The theorems                                                            *)

LEMMA InitSettled ==
  ASSUME Init
  PROVE  IInv
<1>1. \A t \in Tasks : row[t].status = "none"
  BY DEF Init
<1>2. row \in [Tasks -> RowType]
  <2>1. [status |-> "none", due |-> FALSE, rev |-> 0] \in RowType
    BY DEF RowType
  <2> QED
    BY <2>1 DEF Init
<1>3. handler \in [Handlers -> HandlerType] /\ \A h \in Handlers : ~Busy(h)
  <2>1. Resting \in HandlerType /\ Resting.at = "idle"
    BY DEF Resting, HandlerType
  <2>2. handler = [h \in Handlers |-> Resting]
    BY DEF Init
  <2> QED
    BY <2>1, <2>2 DEF Busy
<1>4. probe \in [Processes -> ProbeType] /\ \A p \in Processes : ~probe[p].on
  <2>1. NoProbe \in ProbeType /\ ~NoProbe.on
    BY DEF NoProbe, ProbeType
  <2>2. probe = [p \in Processes |-> NoProbe]
    BY DEF Init
  <2> QED
    BY <2>1, <2>2
<1>5. redrive \in [Processes -> RedriveType] /\ \A p \in Processes : redrive[p].rerun = "no"
  <2>1. Booting \in RedriveType /\ Booting.rerun = "no"
    BY DEF Booting, RedriveType
  <2>2. redrive = [p \in Processes |-> Booting]
    BY DEF Init
  <2> QED
    BY <2>1, <2>2
<1>6. /\ paused = "no" /\ unpublished = [p \in Processes |-> {}] /\ jobs = {} /\ up = TRUE
      /\ permits = {} /\ orphans = 0 /\ unarmed = {}
  BY DEF Init
<1>7. Typed
  <2>1. IsFiniteSet({})
    BY FS_EmptySet
  <2>2. unpublished \in [Processes -> SUBSET Tasks]
    BY <1>6
  <2> QED
    BY <1>2, <1>3, <1>4, <1>5, <1>6, <2>1, <2>2 DEF Typed
<1>8. IdsApart /\ SlotsHold /\ AsksKept
  BY <1>3, <1>4, <1>5, <1>6 DEF IdsApart, SlotsHold, AsksKept
<1>9. WorkedOnRests /\ OpenTasksMinded
  BY <1>1, <1>3 DEF WorkedOnRests, Works, Busy, OpenTasksMinded, Open
<1> QED
  BY <1>7, <1>8, <1>9 DEF IInv

LEMMA StepSettled ==
  ASSUME Parameters, IInv, [Next]_vars
  PROVE  IInv'
<1>1. ASSUME NEW p \in Processes, NEW t \in Tasks, Enqueue(p, t) \/ AfterCommit(p, t)
      PROVE  IInv'
  BY <1>1, ShapedOutsideSlots, SlotsKeptOutside, WorksOutsideSlots, MindedOutsideSlots
     DEF Shaped, IInv
<1>2. ASSUME NEW p \in Processes,
             Recover(p) \/ RedriveStep(p) \/ ScanFails(p) \/ Reconcile(p) \/ Crash(p)
      PROVE  IInv'
  BY <1>2, ShapedOutsideSlots, SlotsKeptOutside, WorksOutsideSlots, MindedOutsideSlots
     DEF Shaped, IInv
<1>3. ASSUME NEW h \in Handlers, NEW j \in jobs, Deliver(h, j) PROVE IInv'
  BY <1>3, ShapedInSlots, SlotsKeptInside, WorksAfter, MindedInSlots DEF Shaped, IInv
<1>4. ASSUME NEW h \in Handlers, HandlerStep(h) \/ GiveBack(h) \/ Throws(h) PROVE IInv'
  BY <1>4, ShapedInSlots, SlotsKeptInside, WorksAfter, MindedInSlots DEF Shaped, IInv
<1>5. ASSUME Surroundings \/ \E t \in Tasks : BecomeDue(t) PROVE IInv'
  <2>1. SlotsHold'
    <3>1. UNCHANGED <<jobs, handler>>
      BY <1>5, SurroundingsLeave DEF BecomeDue
    <3> QED
      BY <3>1, SlotsUntouched DEF ActiveKept, IInv
  <2> QED
    BY <1>5, <2>1, ShapedElsewhere, WorksElsewhere, MindedElsewhere DEF Shaped, IInv
<1> QED
  BY <1>1, <1>2, <1>3, <1>4, <1>5 DEF Next, Surroundings

\* Whatever was published, deduplicated, deferred or killed, IInv holds.
THEOREM AlwaysSettled ==
  ASSUME Parameters
  PROVE  Spec => []IInv
<1>1. Init => IInv
  BY InitSettled
<1>2. IInv /\ [Next]_vars => IInv'
  BY StepSettled
<1> QED
  BY <1>1, <1>2, PTL DEF Spec

\* Rows, jobs, slots, permits and redrives keep their types: a slot that is at work
\* has an active job of its id (TypeOK of WakeupDelivery).
THEOREM TypeCorrect ==
  ASSUME Parameters
  PROVE  Spec => []TypeOK
<1>1. IInv => TypeOK
  <2> SUFFICES ASSUME IInv PROVE TypeOK
    OBVIOUS
  <2>1. row \in [Tasks -> [status : {"none", "pending", "processing", "gone"},
                           due : BOOLEAN, rev : Nat]]
    BY DEF IInv, Typed, RowType
  <2>2. \A j \in jobs : j.id.task \in Tasks /\ j.active \in BOOLEAN
    BY DEF IInv, Typed, JobType, IdType
  <2>3. \A h \in Handlers :
          handler[h].at # "idle" => \E j \in jobs : j.active /\ j.id = handler[h].id
    BY DEF IInv, SlotsHold, Busy
  <2>4. \A p \in Processes : redrive[p].run \in {"idle", "start", "scan"}
    BY DEF IInv, Typed, RedriveType
  <2> QED
    BY <2>1, <2>2, <2>3, <2>4 DEF IInv, Typed, TypeOK
<1> QED
  BY <1>1, AlwaysSettled, PTL

\* A task that could be claimed is on its way: by a job that waits or a slot that has
\* not decided, an afterCommit hook, a probe, or a full redrive.  Only the tasks that
\* a pause or a failed redrive left behind are not (NoTaskForgotten of WakeupDelivery).
THEOREM NoTaskEverForgotten ==
  ASSUME Parameters
  PROVE  Spec => []NoTaskForgotten
<1>1. IInv => NoTaskForgotten
  <2> SUFFICES ASSUME IInv, NEW t \in Tasks, Claimable(t), t \notin unarmed PROVE Carried(t)
    BY DEF NoTaskForgotten
  <2>1. Minded(t)
    BY DEF Claimable, Open, IInv, OpenTasksMinded
  <2>2. \A h \in Handlers : ~Works(h, t)
    BY DEF Claimable, IInv, WorkedOnRests
  <2>3. \A h \in Handlers : Minding(h, t) => handler[h].task = t /\ handler[h].at \in Undecided
    BY <2>2 DEF Minding, Works
  <2> QED
    BY <2>1, <2>3 DEF Minded, Waiting, ToPublish, Probing, Sweeps, Carried
<1> QED
  BY <1>1, AlwaysSettled, PTL
=============================================================================
