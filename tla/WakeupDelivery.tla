--------------------------- MODULE WakeupDelivery ---------------------------
(***************************************************************************)
(* How a row of the computed outbox reaches a worker: the wake-up that is  *)
(* published after the commit, the BullMQ job that carries it, the handler *)
(* that claims the row or defers the wake-up, the probe that recovers a    *)
(* failing publisher, and the redrive that re-arms the rows of the table.  *)
(*                                                                         *)
(* The row is durable and the wake-up is not: jobs are deduplicated by     *)
(* their id, publications fail, processes die, and a handler that cannot   *)
(* claim must leave another wake-up behind.  A job is delivered after its  *)
(* delay, at any time: time is left out.  Every process runs a producer,   *)
(* consumer slots, a publisher and a redrive service.                      *)
(***************************************************************************)
EXTENDS Integers, FiniteSets

CONSTANTS
  Processes,
  Handlers,   \* the consumer slots ...
  ProcessOf,  \* ... and the process of each
  Tasks,
  Capacity,   \* handlers admitted at a time to the base of the tasks
  Attempts,   \* deliveries of a job before BullMQ drops it
  MaxFaults,  \* bound: outages, crashes, failed tasks and calls that throw
  MaxPauses   \* bound: pauses of the base

ASSUME DeliveryAssumption ==
  /\ ProcessOf \in [Handlers -> Processes]
  /\ Capacity \in Nat \ {0} /\ Attempts \in Nat \ {0}
  /\ MaxFaults \in Nat /\ MaxPauses \in Nat

VARIABLES
  row,          \* the outbox rows; rev stands for the revision of the redrive
  paused,       \* the pause of the base: "no", "until" a time, or "forever"
  unpublished,  \* committed tasks whose afterCommit hook has not run, per process
  jobs,         \* the jobs BullMQ keeps
  up,           \* does Redis answer
  handler,      \* what each slot does
  permits,      \* admitted handlers
  orphans,      \* permits of killed handlers, until they expire
  probe,        \* the recovery probe of each publisher and its wake-up
  redrive,      \* the redrive service of each process
  unarmed,      \* history: tasks a pause or a failed redrive left with no wake-up
  faults, pauses

rowVars == <<row, paused, unpublished>>
vars == <<rowVars, jobs, up, handler, permits, orphans, probe, redrive, unarmed,
          faults, pauses>>

NoId == [kind |-> "none", task |-> "none", n |-> 0]
Resting == [at |-> "idle", id |-> NoId, task |-> "none", draining |-> FALSE]
NoProbe == [on |-> FALSE, id |-> NoId]
Booting == [run |-> "start", full |-> TRUE, todo |-> {}, rerun |-> "no"]

Init ==
  /\ row = [t \in Tasks |-> [status |-> "none", due |-> FALSE, rev |-> 0]]
  /\ paused = "no"
  /\ unpublished = [p \in Processes |-> {}]
  /\ jobs = {} /\ up = TRUE
  /\ handler = [h \in Handlers |-> Resting]
  /\ permits = {} /\ orphans = 0
  /\ probe = [p \in Processes |-> NoProbe]
  /\ redrive = [p \in Processes |-> Booting]
  /\ unarmed = {}
  /\ faults = 0 /\ pauses = 0

Fault == faults < MaxFaults /\ faults' = faults + 1

---------------------------------------------------------------------------
(* the publisher                                                           *)

Ids == {j.id : j \in jobs}
\* createComputedOutboxWakeup without an id
RandomId(t) ==
  [kind |-> "random", task |-> t,
   n |-> CHOOSE n \in 0 .. Cardinality(jobs) :
           [kind |-> "random", task |-> t, n |-> n] \notin Ids]

\* Mutant of Added: a job of that id is replaced.
Replaced(id) ==
  {j \in jobs : j.id # id} \cup {[id |-> id, active |-> FALSE, tries |-> 0, stalls |-> 0]}

\* queue.add leaves an existing job of that id alone
Added(id) ==
  IF id \in Ids THEN jobs
  ELSE jobs \cup {[id |-> id, active |-> FALSE, tries |-> 0, stalls |-> 0]}

Running(id) == \E j \in jobs : j.id = id /\ j.active
Rearmed(id) == IF Running(id) THEN unarmed ELSE unarmed \ {id.task}

\* while the probe runs every publication fails at once; one that times out or
\* is refused starts the probe
Accepted(p) == up /\ ~probe[p].on
Probed(p, id) ==
  IF ~up /\ ~probe[p].on
  THEN [probe EXCEPT ![p] = [on |-> TRUE, id |-> id]]
  ELSE probe
Publish(p, id) ==
  /\ jobs' = IF Accepted(p) THEN Added(id) ELSE jobs
  /\ unarmed' = IF Accepted(p) THEN Rearmed(id) ELSE unarmed
  /\ probe' = Probed(p, id)

Stronger(run, full) == IF full \/ run = "full" THEN "full" ELSE "actionable"

\* startRedrive: a running redrive queues one more
Requested(p, full) ==
  IF redrive[p].run = "idle"
  THEN [redrive EXCEPT ![p] = [Booting EXCEPT !.full = full]]
  ELSE [redrive EXCEPT ![p].rerun = Stronger(@, full)]

\* recoverDelivery: its wake-up is added again until Redis takes it; then the
\* redrive service is told and the probe cleared, in one turn of the event loop
Recover(p) ==
  /\ up /\ probe[p].on
  /\ jobs' = Added(probe[p].id)
  /\ unarmed' = Rearmed(probe[p].id)
  /\ probe' = [probe EXCEPT ![p] = NoProbe]
  /\ redrive' = Requested(p, TRUE)
  /\ UNCHANGED <<rowVars, up, handler, permits, orphans, faults, pauses>>

---------------------------------------------------------------------------
(* the producer and the rows                                               *)

Enqueue(p, t) ==
  /\ row[t].status = "none"
  /\ row' = [row EXCEPT ![t].status = "pending", ![t].due = TRUE]
  /\ unpublished' = [unpublished EXCEPT ![p] = @ \cup {t}]
  /\ UNCHANGED <<paused, jobs, up, handler, permits, orphans, probe, redrive,
                 unarmed, faults, pauses>>

\* publishSafely logs a failure
AfterCommit(p, t) ==
  /\ t \in unpublished[p]
  /\ Publish(p, RandomId(t))
  /\ unpublished' = [unpublished EXCEPT ![p] = @ \ {t}]
  /\ UNCHANGED <<row, paused, up, handler, permits, orphans, redrive, faults, pauses>>

Works(h, t) == handler[h].at = "work" /\ handler[h].task = t

\* next_run_at of a retry comes, or the lease of a dead worker ends
BecomeDue(t) ==
  /\ row[t].status \in {"pending", "processing"} /\ ~row[t].due
  /\ \A h \in Handlers : ~Works(h, t)
  /\ row' = [row EXCEPT ![t].due = TRUE]
  /\ UNCHANGED <<paused, unpublished, jobs, up, handler, permits, orphans, probe,
                 redrive, unarmed, faults, pauses>>

Pause(kind) ==
  /\ paused = "no" /\ pauses < MaxPauses
  /\ paused' = kind
  /\ pauses' = pauses + 1
  /\ UNCHANGED <<row, unpublished, jobs, up, handler, permits, orphans, probe,
                 redrive, unarmed, faults>>

Resume ==
  /\ paused # "no"
  /\ paused' = "no"
  /\ UNCHANGED <<row, unpublished, jobs, up, handler, permits, orphans, probe,
                 redrive, unarmed, faults, pauses>>

---------------------------------------------------------------------------
(* the consumer                                                            *)

JobOf(h) == CHOOSE j \in jobs : j.id = handler[h].id
Step(h, at) == handler' = [handler EXCEPT ![h].at = at]

Deliver(h, j) ==
  /\ up /\ handler[h].at = "idle"
  /\ j \in jobs /\ ~j.active
  /\ jobs' = (jobs \ {j}) \cup {[j EXCEPT !.active = TRUE]}
  /\ handler' = [handler EXCEPT ![h] =
       [at |-> "start", id |-> j.id, task |-> j.id.task, draining |-> FALSE]]
  /\ UNCHANGED <<rowVars, up, permits, orphans, probe, redrive, unarmed, faults, pauses>>

\* the ACQUIRE script
Admit(h) ==
  /\ up /\ handler[h].at = "start"
  /\ IF Cardinality(permits) + orphans < Capacity
     THEN permits' = permits \cup {h} /\ Step(h, "run")
     ELSE UNCHANGED permits /\ Step(h, "turnedAway")
  /\ UNCHANGED <<rowVars, jobs, up, orphans, probe, redrive, unarmed, faults, pauses>>

Claimable(t) ==
  row[t].status \in {"pending", "processing"} /\ row[t].due /\ paused = "no"

ClaimedRow(t) == [row EXCEPT ![t] = [status |-> "processing", due |-> FALSE,
                                     rev |-> @.rev + 1]]

\* runTaskById; a row that another transaction locks is skipped
Claim(h) ==
  /\ handler[h].at = "run"
  /\ \/ /\ Claimable(handler[h].task)
        /\ row' = ClaimedRow(handler[h].task)
        /\ Step(h, "work")
        /\ UNCHANGED faults
     \/ /\ ~Claimable(handler[h].task)
        /\ Step(h, "missed")
        /\ UNCHANGED <<row, faults>>
     \/ /\ Claimable(handler[h].task) /\ Fault
        /\ Step(h, "missed")
        /\ UNCHANGED row
  /\ UNCHANGED <<paused, unpublished, jobs, up, permits, orphans, probe, redrive,
                 unarmed, pauses>>

Succeed(h) ==
  /\ handler[h].at = "work"
  /\ row' = [row EXCEPT ![handler[h].task].status = "gone"]
  /\ handler' = [handler EXCEPT ![h].at = "drain", ![h].draining = TRUE]
  /\ UNCHANGED <<paused, unpublished, jobs, up, permits, orphans, probe, redrive,
                 unarmed, faults, pauses>>

\* markFailed returns an error to the handler, releaseForRetry a miss; either
\* commits the row and then schedules a wake-up
GiveBack(h) ==
  /\ handler[h].at = "work" /\ Fault
  /\ row' = [row EXCEPT ![handler[h].task] = [status |-> "pending", due |-> FALSE,
                                              rev |-> @.rev + 1]]
  /\ \E at \in {"failed", "released"} : Step(h, at)
  /\ UNCHANGED <<paused, unpublished, jobs, up, permits, orphans, probe, redrive,
                 unarmed, pauses>>

ScheduleRetry(h) ==
  /\ handler[h].at \in {"failed", "released"}
  /\ Publish(ProcessOf[h], RandomId(handler[h].task))
  /\ Step(h, IF handler[h].draining THEN "drain"
             ELSE IF handler[h].at = "failed" THEN "throw" ELSE "missed")
  /\ UNCHANGED <<rowVars, up, permits, orphans, redrive, faults, pauses>>

\* drainRemainingOutbox, one task at a time
Drain(h, t) ==
  /\ handler[h].at = "drain"
  /\ Claimable(t)
  /\ row' = ClaimedRow(t)
  /\ handler' = [handler EXCEPT ![h].at = "work", ![h].task = t]
  /\ UNCHANGED <<paused, unpublished, jobs, up, permits, orphans, probe, redrive,
                 unarmed, faults, pauses>>

\* the permit is released and the job ends; an id that is not random is free
\* again at once
Finish(h) ==
  /\ permits' = permits \ {h}
  /\ handler' = [handler EXCEPT ![h] = Resting]

\* Mutant of Removed: a completed job stays and keeps its id.
RemovedIfRandom(h) ==
  IF handler[h].id.kind = "random" THEN jobs \ {JobOf(h)} ELSE jobs

Removed(h) == jobs \ {JobOf(h)}

DrainEnds(h) ==
  /\ up /\ handler[h].at = "drain"
  /\ \A t \in Tasks : ~Claimable(t)
  /\ jobs' = Removed(h)
  /\ Finish(h)
  /\ UNCHANGED <<rowVars, up, orphans, probe, redrive, unarmed, faults, pauses>>

\* getTaskClaimEligibility: a row that is gone is no concern, one that is paused
\* for good is parked, any other wake-up is deferred
Inspect(h) ==
  /\ up /\ handler[h].at = "missed"
  /\ LET t == handler[h].task
         over == row[t].status \in {"none", "gone"}
         parked == ~over /\ row[t].due /\ paused = "forever"
     IN  IF over \/ parked
         THEN /\ jobs' = Removed(h)
              /\ Finish(h)
              /\ unarmed' = IF parked THEN unarmed \cup {t} ELSE unarmed
         ELSE /\ Step(h, "defer")
              /\ UNCHANGED <<jobs, permits, unarmed>>
  /\ UNCHANGED <<rowVars, up, orphans, probe, redrive, faults, pauses>>

\* Mutant of Suffixed: the current job may have the same id.
Unsuffixed(h) == {j.id : j \in {i \in jobs : i.active}} \ {handler[h].id}

Suffixed(h) == {j.id : j \in {i \in jobs : i.active}}

\* resolveDeferredWakeup: the id is the time of the next delivery.  That is
\* later than the times of the jobs that run, and where it is not, the id of the
\* current job gets a suffix; it may be the id of a job that waits.
DeferredId(h, kind) ==
  LET Id(n) == [kind |-> kind, task |-> handler[h].task, n |-> n] IN
    Id(CHOOSE n \in 0 .. Cardinality(jobs) :
         /\ Id(n) \notin Suffixed(h)
         /\ \A m \in 0 .. n - 1 : Id(m) \in Suffixed(h))

Defer(h) ==
  /\ handler[h].at \in {"defer", "turnedAway"}
  /\ Publish(ProcessOf[h],
             DeferredId(h, IF handler[h].at = "defer" THEN "defer" ELSE "admit"))
  /\ Step(h, IF Accepted(ProcessOf[h]) THEN "ended" ELSE "throw")
  /\ UNCHANGED <<rowVars, up, permits, orphans, redrive, faults, pauses>>

End(h) ==
  /\ up /\ handler[h].at = "ended"
  /\ jobs' = Removed(h)
  /\ Finish(h)
  /\ UNCHANGED <<rowVars, up, orphans, probe, redrive, unarmed, faults, pauses>>

\* a call of the handler throws, its permit being lost for one
Throws(h) ==
  /\ handler[h].at \in {"start", "run", "missed", "defer"} /\ Fault
  /\ Step(h, "throw")
  /\ UNCHANGED <<rowVars, jobs, up, permits, orphans, probe, redrive, unarmed, pauses>>

\* the job is delivered again, unless this was its last attempt; then the
\* processor publishes another one and forgives a failure of that
Retry(h) ==
  /\ up /\ handler[h].at = "throw"
  /\ LET j == JobOf(h) IN
       IF j.tries + 1 < Attempts
       THEN /\ jobs' = (jobs \ {j}) \cup {[j EXCEPT !.active = FALSE, !.tries = @ + 1]}
            /\ Finish(h)
       ELSE /\ Step(h, "lastCall")
            /\ UNCHANGED <<jobs, permits>>
  /\ UNCHANGED <<rowVars, up, orphans, probe, redrive, unarmed, faults, pauses>>

LastCall(h) ==
  /\ handler[h].at = "lastCall"
  /\ Publish(ProcessOf[h], RandomId(handler[h].task))
  /\ Step(h, "ended")
  /\ UNCHANGED <<rowVars, up, permits, orphans, redrive, faults, pauses>>

---------------------------------------------------------------------------
(* the redrive                                                             *)

\* one process at a time holds the lease; a busy one asks again.  The rows come
\* page by page: one that is enqueued meanwhile may still be met
Enqueued == {t \in Tasks : row[t].status # "none"}
StartScan(p) ==
  /\ redrive[p].run = "start"
  /\ \A q \in Processes : redrive[q].run # "scan"
  /\ \E later \in SUBSET (Tasks \ Enqueued) :
       redrive' = [redrive EXCEPT ![p].run = "scan", ![p].todo = Enqueued \cup later]
  /\ UNCHANGED <<rowVars, jobs, up, handler, permits, orphans, probe, unarmed,
                 faults, pauses>>

\* buildComputedOutboxWakeupCandidatesQuery
Candidate(t, full) ==
  /\ row[t].status \in {"pending", "processing"}
  /\ paused = "no"
  /\ full \/ row[t].due

RedriveId(t) == [kind |-> "redrive", task |-> t, n |-> row[t].rev]

\* the failure of a publication is forgiven: its probe asks for another redrive
Scan(p, t) ==
  /\ redrive[p].run = "scan" /\ t \in redrive[p].todo
  /\ redrive' = [redrive EXCEPT ![p].todo = @ \ {t}]
  /\ IF Candidate(t, redrive[p].full)
     THEN /\ jobs' = IF Accepted(p) THEN Added(RedriveId(t)) ELSE jobs
          /\ probe' = Probed(p, RedriveId(t))
          /\ unarmed' = IF Running(RedriveId(t)) THEN unarmed \cup {t}
                        ELSE IF Accepted(p) THEN unarmed \ {t} ELSE unarmed
     ELSE /\ unarmed' = IF paused # "no" THEN unarmed \cup {t} ELSE unarmed
          /\ UNCHANGED <<jobs, probe>>
  /\ UNCHANGED <<rowVars, up, handler, permits, orphans, faults, pauses>>

AfterScan(p) ==
  [redrive EXCEPT ![p] =
     IF @.rerun = "no" THEN [Booting EXCEPT !.run = "idle"]
     ELSE [Booting EXCEPT !.full = (redrive[p].rerun = "full")]]

ScanEnds(p) ==
  /\ redrive[p].run = "scan" /\ redrive[p].todo = {}
  /\ redrive' = AfterScan(p)
  /\ UNCHANGED <<rowVars, jobs, up, handler, permits, orphans, probe, unarmed,
                 faults, pauses>>

\* an error of the scan is logged: what it had not reached stays unarmed
ScanFails(p) ==
  /\ redrive[p].run = "scan" /\ Fault
  /\ unarmed' = unarmed \cup redrive[p].todo
  /\ redrive' = AfterScan(p)
  /\ UNCHANGED <<rowVars, jobs, up, handler, permits, orphans, probe, pauses>>

\* the reconciliation, taken to come when nothing is on its way: five minutes is
\* longer than any other delay
Reconcile(p) ==
  /\ redrive[p].run = "idle"
  /\ unpublished[p] = {} /\ \A j \in jobs : j.active
  /\ \A h \in Handlers : handler[h].at = "idle"
  /\ redrive' = Requested(p, FALSE)
  /\ UNCHANGED <<rowVars, jobs, up, handler, permits, orphans, probe, unarmed,
                 faults, pauses>>

---------------------------------------------------------------------------
(* faults                                                                  *)

RedisDown ==
  /\ up /\ Fault
  /\ up' = FALSE
  /\ UNCHANGED <<rowVars, jobs, handler, permits, orphans, probe, redrive, unarmed, pauses>>

RedisUp ==
  /\ ~up
  /\ up' = TRUE
  /\ UNCHANGED <<rowVars, jobs, handler, permits, orphans, probe, redrive, unarmed,
                 faults, pauses>>

\* a process is killed and starts again, with a full redrive; BullMQ gives a
\* stalled job out once more
Killed(p) == {h \in Handlers : ProcessOf[h] = p}
Crash(p) ==
  /\ Fault
  /\ LET held == {JobOf(h) : h \in {g \in Killed(p) : handler[g].at # "idle"}}
     IN  jobs' = (jobs \ held) \cup
           {[j EXCEPT !.active = FALSE, !.stalls = 1] : j \in {i \in held : i.stalls = 0}}
  /\ permits' = permits \ Killed(p)
  /\ orphans' = orphans + Cardinality(permits \cap Killed(p))
  /\ handler' = [h \in Handlers |-> IF h \in Killed(p) THEN Resting ELSE handler[h]]
  /\ unpublished' = [unpublished EXCEPT ![p] = {}]
  /\ probe' = [probe EXCEPT ![p] = NoProbe]
  /\ redrive' = [redrive EXCEPT ![p] = Booting]
  /\ UNCHANGED <<row, paused, up, unarmed, pauses>>

PermitExpires ==
  /\ orphans > 0
  /\ orphans' = orphans - 1
  /\ UNCHANGED <<rowVars, jobs, up, handler, permits, probe, redrive, unarmed,
                 faults, pauses>>

---------------------------------------------------------------------------
HandlerStep(h) ==
  \/ Admit(h) \/ Claim(h) \/ Succeed(h) \/ ScheduleRetry(h)
  \/ (\E t \in Tasks : Drain(h, t)) \/ DrainEnds(h)
  \/ Inspect(h) \/ Defer(h) \/ End(h) \/ Retry(h) \/ LastCall(h)
RedriveStep(p) == StartScan(p) \/ (\E t \in Tasks : Scan(p, t)) \/ ScanEnds(p)

Next ==
  \/ \E p \in Processes :
       \/ \E t \in Tasks : Enqueue(p, t) \/ AfterCommit(p, t)
       \/ Recover(p)
       \/ RedriveStep(p) \/ ScanFails(p) \/ Reconcile(p)
       \/ Crash(p)
  \/ \E h \in Handlers :
       \/ \E j \in jobs : Deliver(h, j)
       \/ HandlerStep(h) \/ GiveBack(h) \/ Throws(h)
  \/ \E t \in Tasks : BecomeDue(t)
  \/ \E kind \in {"until", "forever"} : Pause(kind)
  \/ Resume
  \/ RedisDown \/ RedisUp \/ PermitExpires

Spec == Init /\ [][Next]_vars

\* no process stops for good, timers fire, Redis comes back, a job that waits is
\* delivered in the end; a pause without an end may stay
Fairness ==
  /\ \A p \in Processes :
       /\ \A t \in Tasks : WF_vars(AfterCommit(p, t))
       /\ WF_vars(Recover(p))
       /\ WF_vars(RedriveStep(p))
       /\ WF_vars(Reconcile(p))
  /\ \A h \in Handlers : WF_vars(HandlerStep(h))
  /\ \A t \in Tasks :
       SF_vars(\E h \in Handlers : \E j \in jobs : j.id.task = t /\ Deliver(h, j))
  /\ \A t \in Tasks : WF_vars(BecomeDue(t))
  /\ WF_vars(paused = "until" /\ Resume)
  /\ WF_vars(RedisUp)
  /\ WF_vars(PermitExpires)

FairSpec == Spec /\ Fairness

---------------------------------------------------------------------------
\* Types of the rows, the jobs, the handlers and the redrive services.
TypeOK ==
  /\ row \in [Tasks -> [status : {"none", "pending", "processing", "gone"},
                        due : BOOLEAN, rev : Nat]]
  /\ paused \in {"no", "until", "forever"}
  /\ unpublished \in [Processes -> SUBSET Tasks]
  /\ \A j \in jobs : j.id.task \in Tasks /\ j.active \in BOOLEAN
  /\ \A h \in Handlers :
       handler[h].at # "idle" => \E j \in jobs : j.active /\ j.id = handler[h].id
  /\ permits \subseteq Handlers /\ orphans \in Nat
  /\ \A p \in Processes : redrive[p].run \in {"idle", "start", "scan"}

\* A task is on its way: a job that may still claim or defer it, a publication
\* about to be made, or a redrive that will come by.
Undecided == {"start", "turnedAway", "run", "failed", "released", "missed", "defer",
              "throw", "lastCall"}
Carried(t) ==
  \/ \E j \in jobs : j.id.task = t /\ ~j.active
  \/ \E h \in Handlers : handler[h].task = t /\ handler[h].at \in Undecided
  \/ \E p \in Processes :
       \/ t \in unpublished[p]
       \/ probe[p].on
       \/ redrive[p].run = "start" /\ redrive[p].full
       \/ redrive[p].run = "scan" /\ redrive[p].full /\ t \in redrive[p].todo
       \/ redrive[p].rerun = "full"

\* A task that could be claimed is on its way, whatever was deduplicated, failed
\* to be published or was killed: only a pause or a redrive that itself failed
\* leaves it to the reconciliation every five minutes.
NoTaskForgotten ==
  \A t \in Tasks : Claimable(t) /\ t \notin unarmed => Carried(t)

\* A task that could be claimed is claimed in the end, unless it is paused.
DueTaskRuns == \A t \in Tasks : Claimable(t) ~> ~Claimable(t)
=============================================================================
