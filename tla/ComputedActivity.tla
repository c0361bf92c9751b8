--------------------------- MODULE ComputedActivity ---------------------------
(***************************************************************************)
(* What the user sees of the computed outbox (computed/activity): per      *)
(* field, how many tasks will compute it and how many do so now.  The      *)
(* transactions of the outbox attach the fields of a task                  *)
(* (computed_task_field_ref), mark them and drop them, and write the       *)
(* counters of the fields anew from what the attached rows say.            *)
(*                                                                         *)
(* A transaction reads the rows of its task first, then waits for one      *)
(* advisory lock per table, counts, and keeps its locks until it commits.  *)
(* Enqueues also queue up inside the process before they ask for a lock.   *)
(* Who looks at a table repairs what does not add up.                      *)
(*                                                                         *)
(* One computed field per table; a claim is of one row; PostgreSQL is READ *)
(* COMMITTED and breaks cycles of waiting transactions.                    *)
(***************************************************************************)
EXTENDS ActivityState

CONSTANTS
  Plans,           \* the sets of tables that a task may reach, none of them empty
  PerTransaction,  \* bound: enqueues in one transaction of a writer
  MaxMerges,       \* bound: enqueues into a pending row
  MaxFaults        \* bound: failed runs, crashes, lost leases

Nothing == [active |-> 0, processing |-> 0]
Free == [task |-> 0, planned |-> FALSE]
Empty == [status |-> "none", by |-> NoOne, expired |-> FALSE, planned |-> FALSE]
Idle == [open |-> FALSE, ops |-> <<>>, step |-> "next", todo |-> {}, add |-> {},
         del |-> {}, show |-> <<>>, rows |-> <<>>, then |-> Free]

Init ==
  /\ row = [t \in Tasks |-> Empty]
  /\ refs = {} /\ shown = [x \in Tables |-> Nothing]
  /\ rowLock = [t \in Tasks |-> NoOne]
  /\ lock = [x \in Tables |-> NoOne] /\ gate = [x \in Tables |-> NoOne]
  /\ tx = [p \in Process |-> Idle]
  /\ hand = [w \in Workers |-> Free]
  /\ late = {} /\ stirred = FALSE /\ merges = 0 /\ faults = 0

Fault == faults < MaxFaults /\ faults' = faults + 1

\* f, and g where f says nothing
Over(f, g) ==
  [x \in DOMAIN f \cup DOMAIN g |-> IF x \in DOMAIN f THEN f[x] ELSE g[x]]

\* what a statement of the transaction sees
View(p) == (refs \ tx[p].del) \cup tx[p].add
Rows(p) == Over(tx[p].rows, row)

---------------------------------------------------------------------------
(* a transaction: for each operation its reads, its waits and its writes   *)

Op(does, task, at) == [does |-> does, task |-> task, at |-> at]

\* the tables of the rows of a task, read before any lock is taken
Seen(rs, op) ==
  {r.table : r \in {s \in rs : s.task = op.task /\ (op.does = "run" => ~s.processing)}}
Touches(rs, op) == IF op.does \in {"attach", "heal"} THEN op.at ELSE Seen(rs, op)

\* the transaction r as its next operation starts: it waits for gates or locks, or
\* has nothing to do
Started(r, rs) ==
  LET op == Head(r.ops)
      at == Touches(rs, op)
  IN  IF at = {} THEN [r EXCEPT !.ops = Tail(@)]
      ELSE [r EXCEPT !.ops = <<[op EXCEPT !.at = at]>> \o Tail(@),
                     !.step = IF op.does = "attach" THEN "gates" ELSE "locks",
                     !.todo = at]

Open(p, ops, rows, then) ==
  /\ ~tx[p].open
  /\ LET r == [Idle EXCEPT !.open = TRUE, !.ops = ops, !.rows = rows, !.then = then]
     IN  tx' = [tx EXCEPT ![p] = IF Head(ops).does \in {"done", "retry"} THEN r
                                ELSE Started(r, refs)]

StartOp(p) ==
  /\ HasOp(p) /\ Now(p).does \notin {"done", "retry"}
  /\ tx' = [tx EXCEPT ![p] = Started(@, View(p))]
  /\ UNCHANGED <<row, refs, shown, rowLock, lock, gate, hand, late, stirred, merges, faults>>

\* markDone, markFailed, releaseForRetry: the row first, and nothing without the lease
Settle(p) ==
  /\ Settles(p)
  /\ LET t == Now(p).task
         after == IF Now(p).does = "done" THEN [Empty EXCEPT !.status = "gone"]
                  ELSE [row[t] EXCEPT !.status = "pending", !.by = NoOne, !.expired = FALSE]
     IN  \/ /\ row[t].by = p /\ rowLock[t] \in {NoOne, p}
            /\ rowLock' = [rowLock EXCEPT ![t] = p]
            /\ tx' = [tx EXCEPT ![p] =
                        Started([tx[p] EXCEPT !.rows = Over([r \in {t} |-> after], @)], View(p))]
         \/ /\ row[t].by # p
            /\ tx' = [tx EXCEPT ![p].ops = Tail(@)] /\ UNCHANGED rowLock
  /\ UNCHANGED <<row, refs, shown, lock, gate, hand, late, stirred, merges, faults>>

Released(held, p) == [x \in DOMAIN held |-> IF held[x] = p THEN NoOne ELSE held[x]]

TakeGate(p) ==
  /\ tx[p].step = "gates"
  /\ LET x == NextGate(p)
         rest == tx[p].todo \ {x}
     IN  /\ gate[x] = NoOne /\ gate' = [gate EXCEPT ![x] = p]
         /\ tx' = IF rest = {}
                  THEN [tx EXCEPT ![p].step = "locks", ![p].todo = Now(p).at]
                  ELSE [tx EXCEPT ![p].todo = rest]
  /\ UNCHANGED <<row, refs, shown, rowLock, lock, hand, late, stirred, merges, faults>>

\* Mutant of LockFree: the advisory locks are left out.
NoLocks(p, x) == x \in Tables

LockFree(p, x) == lock[x] \in {NoOne, p}

TakeLock(p) ==
  /\ tx[p].step = "locks" /\ tx[p].todo # {}
  /\ LET x == Least(tx[p].todo)
     IN  /\ LockFree(p, x)
         /\ lock' = [lock EXCEPT ![x] = p]
         /\ tx' = [tx EXCEPT ![p].todo = @ \ {x}]
  /\ UNCHANGED <<row, refs, shown, rowLock, gate, hand, late, stirred, merges, faults>>

Ref(t, x, processing) == [task |-> t, table |-> x, processing |-> processing]
Attached(p, op) ==
  {x \in op.at : \A r \in View(p) : ~(r.task = op.task /\ r.table = x)}

\* Mutant of Dangling: the repair counts what is attached to tasks that are gone.
NoneDangling(p, op) == {r \in View(p) : r.table \notin op.at /\ r.task = op.task}

Dangling(p, op) ==
  {r \in View(p) : r.table \in op.at /\ Rows(p)[r.task].status \in {"none", "gone"}}

\* rows that an operation takes away or writes anew, and those it leaves
Taken(p, op) ==
  CASE op.does = "attach" -> {}
    [] op.does = "heal" -> Dangling(p, op)
    [] op.does = "run" -> {r \in View(p) : r.task = op.task /\ ~r.processing}
    [] OTHER -> {r \in View(p) : r.task = op.task}
Left(p, op) ==
  CASE op.does = "attach" -> {Ref(op.task, x, FALSE) : x \in Attached(p, op)}
    [] op.does = "run" -> {[r EXCEPT !.processing = TRUE] : r \in Taken(p, op)}
    [] op.does = "retry" -> {[r EXCEPT !.processing = FALSE] : r \in Taken(p, op)}
    [] OTHER -> {}
Synced(p, op) == IF op.does = "attach" THEN Attached(p, op) ELSE op.at

\* the writes; the counters come from what is attached now, the gates open again
Apply(p) ==
  /\ tx[p].step = "locks" /\ tx[p].todo = {}
  /\ LET op == Now(p)
         after == (View(p) \ Taken(p, op)) \cup Left(p, op)
     IN  tx' = [tx EXCEPT ![p].ops = Tail(@), ![p].step = "next",
                  ![p].del = (@ \cup Taken(p, op)) \ after,
                  ![p].add = (@ \ Taken(p, op)) \cup Left(p, op),
                  ![p].show = Over([x \in Synced(p, op) |-> Count(after, x)], @)]
  /\ gate' = Released(gate, p)
  /\ UNCHANGED <<row, refs, shown, rowLock, lock, hand, late, stirred, merges, faults>>

Close(p) ==
  /\ tx' = [tx EXCEPT ![p] = Idle]
  /\ lock' = Released(lock, p) /\ rowLock' = Released(rowLock, p)
  /\ gate' = Released(gate, p)

\* the tasks whose rows a worker writes
Concerns(p) == IF p \in Workers THEN {hand[p].task, tx[p].then.task} ELSE {}

Commit(p) ==
  /\ Ended(p)
  /\ refs' = View(p) /\ row' = Rows(p) /\ shown' = Over(tx[p].show, shown)
  /\ hand' = IF p \in Workers THEN [hand EXCEPT ![p] = tx[p].then] ELSE hand
  /\ stirred' = (stirred \/ Concerns(p) \cap late # {})
  /\ Close(p)
  /\ UNCHANGED <<late, merges, faults>>

\* the victim of a cycle is rolled back, and its operation is tried again or fails
RollBack(p) ==
  /\ OnCycle([q \in Process |-> Awaited(q)], p)
  /\ Close(p)
  /\ UNCHANGED <<row, refs, shown, hand, late, stirred, merges, faults>>

---------------------------------------------------------------------------
(* the outbox                                                              *)

Unused == {t \in Tasks : row[t].status = "none" /\
                         \A p \in Process : t \notin DOMAIN tx[p].rows}
Pending(at) == [Empty EXCEPT !.status = "pending", !.planned = at # {}]

\* enqueueOrMerge without a twin and enqueueSeedTask, whose fields are not known
\* yet (at is empty); n of them in one user's transaction
EnqueueNew(w, n, at) ==
  LET runs == {i \in Unused : i .. i + n - 1 \subseteq Unused}
      first == Least(runs)
  IN  /\ runs # {}
      /\ Open(w, [i \in 1 .. n |-> Op("attach", first + i - 1, at)],
               [t \in first .. first + n - 1 |-> Pending(at)], Free)
      /\ UNCHANGED <<row, refs, shown, rowLock, lock, gate, hand, late, stirred, merges, faults>>

\* enqueueOrMerge into a pending row
EnqueueMerge(w, t, at) ==
  /\ row[t].status = "pending" /\ row[t].planned /\ rowLock[t] = NoOne
  /\ merges < MaxMerges /\ merges' = merges + 1
  /\ rowLock' = [rowLock EXCEPT ![t] = w]
  /\ Open(w, <<Op("attach", t, at)>>, <<>>, Free)
  /\ UNCHANGED <<row, refs, shown, lock, gate, hand, late, stirred, faults>>

Claimable(t) == row[t].status = "pending" \/ (row[t].status = "processing" /\ row[t].expired)

Claim(w, t) ==
  /\ hand[w] = Free /\ Claimable(t) /\ rowLock[t] = NoOne
  /\ rowLock' = [rowLock EXCEPT ![t] = w]
  /\ Open(w, <<Op("run", t, {})>>,
          [r \in {t} |-> [row[t] EXCEPT !.status = "processing", !.by = w, !.expired = FALSE]],
          [task |-> t, planned |-> row[t].planned])
  /\ late' = IF row[t].by # NoOne /\ hand[row[t].by].task = t THEN late \cup {t} ELSE late
  /\ UNCHANGED <<row, refs, shown, lock, gate, hand, stirred, merges, faults>>

\* registerPlannedTaskActivity: nobody asks whether the lease still holds
Register(w, at) ==
  /\ hand[w] # Free /\ ~hand[w].planned
  /\ Open(w, <<Op("attach", hand[w].task, at), Op("run", hand[w].task, {})>>, <<>>,
          [hand[w] EXCEPT !.planned = TRUE])
  /\ UNCHANGED <<row, refs, shown, rowLock, lock, gate, hand, late, stirred, merges, faults>>

\* the run: its cells, the next stage if there is one, and markDone
Finish(w) ==
  /\ hand[w] # Free
  /\ Open(w, <<Op("done", hand[w].task, {})>>, <<>>, Free)
  /\ UNCHANGED <<row, refs, shown, rowLock, lock, gate, hand, late, stirred, merges, faults>>

FinishStage(w, at) ==
  /\ hand[w] # Free /\ hand[w].planned /\ Unused # {}
  /\ LET next == Least(Unused)
     IN  Open(w, <<Op("attach", next, at), Op("done", hand[w].task, {})>>,
              [r \in {next} |-> Pending(at)], Free)
  /\ UNCHANGED <<row, refs, shown, rowLock, lock, gate, hand, late, stirred, merges, faults>>

\* markFailed with attempts left, releaseForRetry
Return(w) ==
  /\ hand[w] # Free /\ Fault
  /\ Open(w, <<Op("retry", hand[w].task, {})>>, <<>>, Free)
  /\ UNCHANGED <<row, refs, shown, rowLock, lock, gate, hand, late, stirred, merges>>

LeaseExpires(t) ==
  /\ row[t].status = "processing" /\ ~row[t].expired /\ Fault
  /\ row' = [row EXCEPT ![t].expired = TRUE]
  /\ UNCHANGED <<refs, shown, rowLock, lock, gate, tx, hand, late, stirred, merges>>

\* the process of a worker dies: its claim expires, its transaction is rolled back
Crash(w) ==
  /\ Fault
  /\ hand[w] # Free
  /\ Close(w)
  /\ hand' = [hand EXCEPT ![w] = Free]
  /\ row' = [t \in Tasks |-> IF row[t].by = w THEN [row[t] EXCEPT !.expired = TRUE]
                             ELSE row[t]]
  /\ UNCHANGED <<refs, shown, late, stirred, merges>>

---------------------------------------------------------------------------
(* getByTableId: the check without a lock, and reconcileTable under it     *)

Look(x) ==
  /\ Drifted(x)
  /\ Open(Reader, <<Op("heal", 0, {x})>>, <<>>, Free)
  /\ stirred' = FALSE
  /\ UNCHANGED <<row, refs, shown, rowLock, lock, gate, hand, late, merges, faults>>

---------------------------------------------------------------------------

UserWrites(w) ==
  \/ \E n \in 1 .. PerTransaction, at \in Plans \cup {{}} : EnqueueNew(w, n, at)
  \/ \E t \in Tasks, at \in Plans : EnqueueMerge(w, t, at)
ClaimSome(w) == \E t \in Tasks : Claim(w, t)
Work(w) == Finish(w) \/ \E at \in Plans : Register(w, at) \/ FinishStage(w, at)
Go(p) == StartOp(p) \/ Apply(p) \/ Commit(p)
LookSome == \E x \in Tables : Look(x)

Next ==
  \/ \E w \in Writers : UserWrites(w)
  \/ \E w \in Workers : ClaimSome(w) \/ Work(w) \/ Return(w) \/ Crash(w)
  \/ LookSome
  \/ \E t \in Tasks : LeaseExpires(t)
  \/ \E p \in Process : Go(p) \/ Settle(p) \/ TakeGate(p) \/ TakeLock(p) \/ RollBack(p)

Spec == Init /\ [][Next]_activityVars

---------------------------------------------------------------------------

Refs == [task : Tasks, table : Tables, processing : BOOLEAN]
Counters == [active : Nat, processing : Nat]
RowStates ==
  [status : {"none", "pending", "processing", "gone"}, by : Workers \cup {NoOne},
   expired : BOOLEAN, planned : BOOLEAN]
Claims == {Free} \cup [task : Tasks, planned : BOOLEAN]
Ops ==
  [does : {"attach", "run", "done", "retry", "heal"}, task : Tasks \cup {0},
   at : SUBSET Tables]
IsTransaction(r) ==
  /\ r \in [open : BOOLEAN, ops : Seq(Ops), step : {"next", "gates", "locks"},
            todo : SUBSET Tables, add : SUBSET Refs, del : SUBSET Refs,
            show : {r.show}, rows : {r.rows}, then : Claims]
  /\ DOMAIN r.show \subseteq Tables /\ \A x \in DOMAIN r.show : r.show[x] \in Counters
  /\ DOMAIN r.rows \subseteq Tasks /\ \A t \in DOMAIN r.rows : r.rows[t] \in RowStates

TypeOK ==
  /\ row \in [Tasks -> RowStates] /\ refs \subseteq Refs /\ shown \in [Tables -> Counters]
  /\ rowLock \in [Tasks -> Process \cup {NoOne}]
  /\ lock \in [Tables -> Process \cup {NoOne}] /\ gate \in [Tables -> Process \cup {NoOne}]
  /\ tx = [p \in Process |-> tx[p]] /\ \A p \in Process : IsTransaction(tx[p])
  /\ hand \in [Workers -> Claims] /\ late \subseteq Tasks
  /\ stirred \in BOOLEAN /\ merges \in Nat /\ faults \in Nat
=============================================================================
