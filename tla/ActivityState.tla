---------------------------- MODULE ActivityState ----------------------------
(***************************************************************************)
(* The state of the computed activity and what must hold of it;            *)
(* ComputedActivity has the steps.                                         *)
(***************************************************************************)
EXTENDS Integers, FiniteSets, Sequences

CONSTANTS
  Tables,  \* numbered in the order of their ids
  Tasks,   \* ids of outbox rows, numbered in the order in which they are given out
  Writers, Workers, Reader,
  NoOne    \* none of these

Process == Writers \cup Workers \cup {Reader}

ASSUME ActivityAssumption ==
  /\ Tables \subseteq Nat /\ Tasks \subseteq Nat \ {0}
  /\ Writers \cap Workers = {} /\ Reader \notin Writers \cup Workers
  /\ NoOne \notin Process

VARIABLES
  row,      \* the rows of the outbox
  refs,     \* computed_task_field_ref
  shown,    \* the counters of each table's field
  rowLock, lock,  \* who holds a row, and the advisory lock of a table
  gate,     \* who is next in enqueueProjectionTails
  tx,       \* the transaction of each process
  hand,     \* the task each worker has claimed, and whether its fields are attached
  late,     \* history: tasks taken over from a worker that was still at work
  stirred,  \* history: a worker of such a task has committed since the reader looked
  merges, faults

activityVars ==
  <<row, refs, shown, rowLock, lock, gate, tx, hand, late, stirred, merges, faults>>

Greatest(S) == CHOOSE x \in S : \A y \in S : y <= x
Least(S) == CHOOSE x \in S : \A y \in S : x <= y

HasOp(p) == tx[p].open /\ tx[p].step = "next" /\ tx[p].ops # <<>>
Ended(p) == tx[p].open /\ tx[p].step = "next" /\ tx[p].ops = <<>>
Now(p) == Head(tx[p].ops)

Count(rs, x) ==
  [active |-> Cardinality({r \in rs : r.table = x}),
   processing |-> Cardinality({r \in rs : r.table = x /\ r.processing})]

\* what the look of a reader compares
Alive(t) == row[t].status \notin {"none", "gone"}
Drifted(x) ==
  \/ \E r \in refs : r.table = x /\ ~Alive(r.task)
  \/ shown[x] # Count(refs, x)

---------------------------------------------------------------------------
(* who waits for whom                                                      *)

\* Mutant of NextGate: the gates are not taken in one order.
UnsortedGate(p) ==
  IF p \in Writers THEN Greatest(tx[p].todo) ELSE Least(tx[p].todo)

NextGate(p) == Least(tx[p].todo)

\* as far as the database knows; the statements that settle a row wait for it only
\* where it has the lease they ask for
Settles(p) == HasOp(p) /\ Now(p).does \in {"done", "retry"}
Awaited(p) ==
  IF tx[p].step = "locks" /\ tx[p].todo # {} THEN lock[Least(tx[p].todo)]
  ELSE IF Settles(p) /\ row[Now(p).task].by = p THEN rowLock[Now(p).task]
  ELSE NoOne

\* and gates included
Blocker(p) == IF tx[p].step = "gates" THEN gate[NextGate(p)] ELSE Awaited(p)

\* in C everybody waits for one of C, and every one is waited for
Circle(whom, C) == {whom[q] : q \in C} = C

\* p is one of several processes that wait for each other in a circle
OnCycle(whom, p) == \E C \in SUBSET Process : p \in C /\ Circle(whom, C) /\ whom[p] # p

\* p stands at the gates with the locks of an enqueue its transaction made before
EnqueuesAgain(p) == tx[p].step = "gates" /\ \E x \in Tables : lock[x] = p

---------------------------------------------------------------------------
(* properties                                                              *)

\* As long as no task was taken over from a worker that is still at work, the
\* counters of every table say what is attached, and nothing is attached to a task
\* that has ended, whatever commits between two reads of a process.
CountersTrue == late = {} => \A x \in Tables : ~Drifted(x)

\* A circle of waiting transactions that runs through the gates of the process, where
\* the database does not see it and breaks it, has in it one that enqueues again: the
\* gates of an enqueue open before its transaction commits, the locks only then, so a
\* second enqueue may wait at a gate for one that waits for these locks.  There is no
\* other such circle: the gates come in one order, and nobody else at them holds what
\* another one needs.
CyclesAreSeen ==
  LET seen == [p \in Process |-> Awaited(p)]
      real == [p \in Process |-> Blocker(p)]
  IN  \A C \in SUBSET Process :
        Circle(real, C) => Circle(seen, C) \/ \E p \in C : EnqueuesAgain(p)

\* What a look at a table repairs adds up when the repair commits, unless a worker
\* whose task was taken over, or the one that took it over, commits meanwhile.
HealsTheTable ==
  [][\A x \in Tables :
       lock[x] = Reader /\ lock'[x] = NoOne /\ Ended(Reader) /\ ~stirred =>
         ~Drifted(x)']_activityVars
=============================================================================
