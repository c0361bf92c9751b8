---------------------------- MODULE MCSideBySide ----------------------------
(* Small components side by side in one run: an initial state chooses the    *)
(* subject, and only the subject moves.                                      *)
(*   "claims"    claims of every kind with heartbeats that may be late       *)
(*   "batches"   batch claims alone, heartbeats on time, one active row a    *)
(*               base                                                        *)
(*   "split"     the split of large tasks, with takeovers and twins          *)
(*   "unit"      the unit of work                                            *)
(*   "undo"      the undo/redo store                                         *)
(*   "admission" the permits of a base                                       *)
(*   "migration" one job of a space migration, for what it owes in the end   *)
(*   "webhook"   outgoing webhooks                                           *)

EXTENDS MCOutboxClaim, SplitState, UnitOfWorkState, AdmissionState, WebhookState

VARIABLES
    subject,
    worker, poison, writes, faults,                           \* TaskSplit
    trouble,                                                  \* UnitOfWork
    meta, kept, todo, answer, appended,                       \* UndoRedoStore
    job, runner, rollback, bound, source, target, there, capture, log, pause,
    tgtPause, computing, open, next, acked, traceless, overlooked, verified,
    canceling, canceled, crashes,                                                  \* SpaceMigration
    enabled, toEnqueue, round, events, disturbed              \* WebhookDelivery

splitVars == <<rows, worker, stale, given, poison, writes, faults>>
unitVars == <<single, call, txs, objects, hooks, ran, trouble>>
undoVars == <<meta, kept, todo, answer, appended>>
admissionVars == <<permit, at, active, lost, renewal, sent>>
migrationVars ==
    <<job, runner, rollback, bound, source, target, there, capture, log, pause,
      tgtPause, computing, open, next, acked, traceless, overlooked, verified,
      canceling, canceled, crashes>>
webhookVars ==
    <<delivery, enabled, toEnqueue, round, posts, refused, events, disturbed>>

CONSTANTS w1, w2, grouped, NoGroup

Batch == INSTANCE OutboxClaim WITH
    Claimer <- {x1, x2}, Kind <- [x \in {x1, x2} |-> "batch"],
    HeartbeatsOnTime <- TRUE, MaxPerBase <- 1

Split == INSTANCE TaskSplit WITH
    Records <- 1 .. 2, Limit <- 1, MaxAttempts <- 2, Workers <- {w1, w2},
    MaxWrites <- 1, MaxFaults <- 1

Unit == INSTANCE UnitOfWork WITH MaxRetries <- 2, MaxHooks <- 1, MaxTrouble <- 2

Store == INSTANCE UndoRedoStore WITH
    Groups <- {grouped}, MaxEntries <- 3, MaxAppends <- 4, MaxFound <- 2

Admission == INSTANCE BaseAdmission WITH Lease <- 2

Migration == INSTANCE SpaceMigration WITH
    Workers <- {w1}, MaxJobs <- 1, MaxWrites <- 1, MaxCrashes <- 1, MaxCancels <- 1,
    FailPoints <- {"claimed", "copying", "frozen", "paused", "drained", "proof",
                   "restore"},
    HeartbeatsOnTime <- TRUE, CancelsInTime <- TRUE,
    worker <- runner

Webhook == INSTANCE WebhookDelivery WITH
    Endpoints <- {1}, Rounds <- {w1, w2}, MaxEvents <- 1, MaxFaults <- 1,
    faults <- disturbed

AnyInit ==
    /\ subject \in
         {"claims", "batches", "split", "unit", "undo", "admission", "migration",
          "webhook"}
    /\ Init
    /\ Split!Init /\ poison \in (IF subject = "split" THEN {{1}} ELSE {{}})
    /\ Unit!Init /\ (subject # "unit" => single)
    /\ Store!Init /\ (subject # "undo" => appended = 0)
    /\ Admission!Init
    /\ Migration!Init
    /\ Webhook!Init

AnyNext ==
    /\ UNCHANGED subject
    /\ \/ subject = "claims" /\ Next
       \/ subject = "batches" /\ Batch!Next
       \/ subject \notin {"claims", "batches"} /\ UNCHANGED vars
    /\ \/ subject = "split" /\ Split!Next
       \/ subject # "split" /\ UNCHANGED splitVars
    /\ \/ subject = "unit" /\ Unit!Next
       \/ subject # "unit" /\ UNCHANGED unitVars
    /\ \/ subject = "undo" /\ Store!Next
       \/ subject # "undo" /\ UNCHANGED undoVars
    /\ \/ subject = "admission" /\ Admission!Next
       \/ subject # "admission" /\ UNCHANGED admissionVars
    /\ \/ subject = "migration" /\ Migration!Next
       \/ subject # "migration" /\ UNCHANGED migrationVars
    /\ \/ subject = "webhook" /\ Webhook!Next
       \/ subject # "webhook" /\ UNCHANGED webhookVars

\* no fair step of a component is enabled unless it is the subject
AnySpec ==
    /\ AnyInit
    /\ [][AnyNext]_<<subject, vars, splitVars, unitVars, undoVars, admissionVars,
                     migrationVars, webhookVars>>
    /\ Split!Fairness
    /\ Migration!Fairness
    /\ Webhook!Fairness

\* Batch claims alone never exceed the limit of a base: the global lock makes
\* the count that filterRowsByConcurrency took hold until the commit.
BatchLimitKept == subject = "batches" => Batch!BaseLimitKept

\* Every record is computed or given up in the end, twins and takeovers
\* notwithstanding.
EveryRecordSettles == Split!EveryRecordSettles

\* KeyvUndoRedoStore implements the stack of MemoryUndoRedoStore.
KeepsTheStack == Store!KeepsTheStack

\* A migration gives back the write gate and the pause it took from the space.
GivesBack == Migration!GivesBack

\* Every webhook is delivered or given up in the end: no pair of rounds sets its
\* count back for ever.
DeliveriesEnd == Webhook!DeliveriesEnd
=============================================================================
