----------------------- MODULE ComputedActivity_proofs -----------------------
(***************************************************************************)
(* The counters of the computed activity are true, a repair holds, and no  *)
(* wait is hidden from the database, for every set of tables, tasks and    *)
(* workers.                                                                *)
(*                                                                         *)
(* Only one transaction at a time may write for a task that was not taken  *)
(* over (Owns), and what it takes away from or adds to the attached rows   *)
(* lies in tables whose locks it keeps until it commits (Fenced).  So what *)
(* a transaction counts under its locks is still so when it commits.       *)
(*                                                                         *)
(* A transaction at the gates has no row that somebody waits for, and no   *)
(* table lock unless it enqueued before (EnqueuesAgain): else only one at  *)
(* an earlier gate ever waits for it (WaitsForGates).                      *)
(***************************************************************************)
EXTENDS ComputedActivity, FiniteSetTheorems, SequenceTheorems, WellFoundedInduction,
        NaturalsInduction, TLAPS

Parameters ==
  /\ Plans \subseteq SUBSET Tables /\ PerTransaction \in Nat
  /\ IsFiniteSet(Tables) /\ IsFiniteSet(Tasks)

---------------------------------------------------------------------------
(* the inductive invariant                                                 *)

Wrote(p) == DOMAIN tx[p].rows
New(p) == {t \in Wrote(p) : row[t].status = "none"}
Works(p, t) == p \in Workers /\ hand[p].task = t
Owns(p, t) == t \in New(p) \/ rowLock[t] = p \/ Works(p, t)

\* nobody has anything to do with a task before its row is there
Unborn == \A t \in Tasks : row[t].status = "none" =>
  /\ t \notin late /\ rowLock[t] = NoOne
  /\ \A w \in Workers : hand[w].task # t
  /\ \A r \in refs : r.task # t

Leased == \A t \in Tasks :
  /\ row[t].status = "pending" => row[t].by = NoOne
  /\ t \notin late => \A w \in Workers : hand[w].task = t =>
       row[t].status = "processing" /\ row[t].by = w

Apart == \A p, q \in Process : p # q => New(p) \cap New(q) = {}

RefsAlive == \A r \in refs : r.task \notin late => Alive(r.task)
ShownTrue == late = {} => \A x \in Tables : shown[x] = Count(refs, x)

\* what waits has begun, and has the locks that it no longer asks for
Begun(p) ==
  /\ ~tx[p].open => tx[p] = Idle
  /\ tx[p].step # "next" => tx[p].open /\ tx[p].ops # <<>> /\ tx[p].todo \subseteq Now(p).at
  /\ tx[p].step = "gates" => tx[p].todo # {} /\ Now(p).does = "attach"
  /\ tx[p].step = "locks" => \A x \in Now(p).at \ tx[p].todo : lock[x] = p
  /\ \A x \in DOMAIN tx[p].show : lock[x] = p

RowsLocked(p) == \A t \in Tasks : rowLock[t] = p =>
  /\ tx[p].open
  /\ t \notin late => \A w \in Workers : hand[w].task = t => w = p

Written(p) == \A t \in Wrote(p) :
  /\ tx[p].rows[t].status # "none"
  /\ tx[p].rows[t].status = "pending" => tx[p].rows[t].by = NoOne
  /\ t \in New(p) \/ rowLock[t] = p
  /\ t \in New(p) \/ t \in Concerns(p)

\* every operation of a transaction is about a task of its own
Meant(p, op) ==
  /\ op.does # "heal" => op.task \in Tasks /\ (op.task \notin late => Owns(p, op.task))
  /\ op.does \in {"run", "done", "retry"} => op.task \in Concerns(p)
  /\ op.does = "attach" /\ op.task \notin late =>
       Rows(p)[op.task].status \notin {"none", "gone"}
  /\ op.does \in {"done", "retry"} => tx[p].then.task = 0
Planned(p) == \A i \in 1 .. Len(tx[p].ops) :
  /\ Meant(p, tx[p].ops[i])
  /\ tx[p].ops[i].does \in {"done", "retry"} => i = Len(tx[p].ops)

\* what the commit puts into a worker's hand, the row says
Handed(p) == LET t == tx[p].then.task IN t # 0 =>
  /\ p \in Workers /\ tx[p].open
  /\ t \notin late =>
       \/ /\ rowLock[t] = p /\ t \in Wrote(p)
          /\ tx[p].rows[t].status = "processing" /\ tx[p].rows[t].by = p
       \/ hand[p].task = t /\ t \notin Wrote(p)

\* what is attached or taken away belongs to a task of the transaction, and to a
\* table whose lock it has
Fenced(p) == \A r \in tx[p].add \cup tx[p].del :
  /\ r.task \in late \/ Owns(p, r.task)
  /\ r.table \in DOMAIN tx[p].show \/ r.task \in late \cap Concerns(p)

\* what is attached to a task goes before the task does
Ending(p, t) == tx[p].step = "locks" /\ Now(p).does = "done" /\ Now(p).task = t
Fresh(p) == \A r \in View(p) : r.task \notin late =>
  Rows(p)[r.task].status \notin {"none", "gone"} \/ Ending(p, r.task)

\* what was read before the locks is what there is under them
Fetched(p) ==
  tx[p].step = "locks" /\ Now(p).does \in {"run", "done", "retry"} /\ Now(p).task \notin late =>
    \A r \in Taken(p, Now(p)) : r.table \in Now(p).at

Summed(p) == late = {} => \A x \in DOMAIN tx[p].show : tx[p].show[x] = Count(View(p), x)

\* the reader has one thing to do
Reads(p) == p = Reader =>
  /\ Wrote(p) = {}
  /\ \/ tx[p].ops = <<>>
     \/ /\ Len(tx[p].ops) = 1 /\ Now(p).does = "heal" /\ tx[p].step = "locks"
        /\ tx[p].add = {} /\ tx[p].del = {}

Good(p) ==
  /\ Begun(p) /\ RowsLocked(p) /\ Written(p) /\ Planned(p) /\ Handed(p)
  /\ Fenced(p) /\ Fresh(p) /\ Fetched(p) /\ Summed(p) /\ Reads(p)

\* a repair that nobody stirred is still one
Repaired == \A x \in Tables : lock[x] = Reader =>
  /\ tx[Reader].open
  /\ tx[Reader].ops # <<>> => x \in Now(Reader).at
  /\ tx[Reader].ops = <<>> /\ ~stirred =>
       /\ x \in DOMAIN tx[Reader].show /\ tx[Reader].show[x] = Count(View(Reader), x)
       /\ \A r \in View(Reader) : r.table = x => Alive(r.task)

IInv ==
  /\ TypeOK /\ Unborn /\ Leased /\ Apart /\ RefsAlive /\ ShownTrue /\ Repaired
  /\ \A p \in Process : Good(p)

\* for CyclesAreSeen: who has an enqueue left has no row of another one's lease, and
\* asks for the gates in their order
Gated(p) ==
  /\ \A x \in Tables : gate[x] = p => tx[p].step # "next"
  /\ \A i \in 1 .. Len(tx[p].ops) :
       tx[p].ops[i].does = "attach" => \A t \in Tasks : rowLock[t] = p => row[t].by = NoOne
  /\ tx[p].step = "gates" =>
       \A x \in Tables : gate[x] = p => \A y \in tx[p].todo : x < y
AtGates == \A p \in Process : Gated(p)

---------------------------------------------------------------------------
(* what the operators give                                                 *)

\* A nonempty set of numbers has a least one, the one Least chooses.
LEMMA LeastOf ==
  ASSUME NEW S \in SUBSET Nat, S # {}
  PROVE  Least(S) \in S /\ \A x \in S : Least(S) <= x
<1> DEFINE R == OpToRel(<, Nat)
<1>1. IsWellFoundedOn(R, Nat)
  BY NatLessThanWellFounded
<1> HIDE DEF R
<1>2. PICK n \in S : \A m \in S : ~(<<m, n>> \in R)
  BY <1>1, WFMin
<1>3. \A m \in S : ~(m < n)
  BY <1>2 DEF R, OpToRel
<1>4. \E x \in S : \A y \in S : x <= y
  BY <1>3
<1> QED
  BY <1>4 DEF Least

LEMMA OverAt ==
  ASSUME NEW f, NEW g
  PROVE  /\ DOMAIN Over(f, g) = DOMAIN f \cup DOMAIN g
         /\ \A x \in DOMAIN f : Over(f, g)[x] = f[x]
         /\ \A x \in DOMAIN g \ DOMAIN f : Over(f, g)[x] = g[x]
BY DEF Over

\* The counts of a table depend on what is attached there, and on nothing else.
LEMMA CountLocal ==
  ASSUME NEW A, NEW B, NEW x, \A r : r \in A /\ r.table = x <=> r \in B /\ r.table = x
  PROVE  Count(A, x) = Count(B, x)
<1>1. {r \in A : r.table = x} = {r \in B : r.table = x}
  OBVIOUS
<1>2. {r \in A : r.table = x /\ r.processing} = {r \in B : r.table = x /\ r.processing}
  OBVIOUS
<1> QED
  BY <1>1, <1>2 DEF Count

LEMMA Fields ==
  ASSUME NEW r, IsTransaction(r)
  PROVE  /\ r.open \in BOOLEAN /\ r.ops \in Seq(Ops) /\ r.step \in {"next", "gates", "locks"}
         /\ r.todo \subseteq Tables /\ r.add \subseteq Refs /\ r.del \subseteq Refs
         /\ r.then \in Claims
         /\ DOMAIN r.show \subseteq Tables /\ \A x \in DOMAIN r.show : r.show[x] \in Counters
         /\ DOMAIN r.rows \subseteq Tasks /\ \A t \in DOMAIN r.rows : r.rows[t] \in RowStates
BY DEF IsTransaction

LEMMA IdleIs ==
  /\ IsTransaction(Idle)
  /\ ~Idle.open /\ Idle.ops = <<>> /\ Idle.step = "next" /\ Idle.todo = {} /\ Idle.add = {}
  /\ Idle.del = {} /\ DOMAIN Idle.show = {} /\ DOMAIN Idle.rows = {} /\ Idle.then.task = 0
<1>1. Free \in Claims /\ <<>> \in Seq(Ops)
  BY DEF Free, Claims
<1> QED
  BY <1>1 DEF Idle, IsTransaction, Free

\* Waiting changes what a transaction waits for and no more.
LEMMA WaitsIs ==
  ASSUME NEW r, IsTransaction(r), NEW o \in Seq(Ops),
         NEW s \in {"next", "gates", "locks"}, NEW d \in SUBSET Tables
  PROVE  LET q == [r EXCEPT !.ops = o, !.step = s, !.todo = d]
         IN  /\ IsTransaction(q) /\ q.ops = o /\ q.step = s /\ q.todo = d
             /\ q.open = r.open /\ q.add = r.add /\ q.del = r.del /\ q.show = r.show
             /\ q.rows = r.rows /\ q.then = r.then
BY DEF IsTransaction

\* One transaction moves, the others do not.
LEMMA Moves ==
  ASSUME TypeOK, NEW p \in Process, NEW r, tx' = [tx EXCEPT ![p] = r]
  PROVE  tx'[p] = r /\ \A q \in Process \ {p} : tx'[q] = tx[q]
BY DEF TypeOK

LEMMA MovesTyped ==
  ASSUME TypeOK, NEW p \in Process, NEW r, IsTransaction(r), tx' = [tx EXCEPT ![p] = r]
  PROVE  tx' = [q \in Process |-> tx'[q]] /\ \A q \in Process : IsTransaction(tx'[q])
<1>1. tx'[p] = r /\ \A q \in Process \ {p} : tx'[q] = tx[q]
  BY Moves
<1>2. tx' = [q \in Process |-> tx'[q]]
  BY DEF TypeOK
<1>3. \A q \in Process : IsTransaction(tx'[q])
  BY <1>1 DEF TypeOK
<1> QED
  BY <1>2, <1>3

LEMMA RowsOver ==
  ASSUME NEW r, IsTransaction(r), NEW table \in [Tasks -> RowStates]
  PROVE  LET rows == Over(r.rows, table)
         IN  /\ DOMAIN rows = Tasks
             /\ \A t \in Tasks : /\ t \in DOMAIN r.rows => rows[t] = r.rows[t]
                                 /\ t \notin DOMAIN r.rows => rows[t] = table[t]
                                 /\ rows[t] \in RowStates
<1> DEFINE rows == Over(r.rows, table)
<1>1. DOMAIN table = Tasks /\ DOMAIN r.rows \subseteq Tasks
  BY Fields
<1>2. /\ DOMAIN rows = Tasks
      /\ \A t \in Tasks : /\ t \in DOMAIN r.rows => rows[t] = r.rows[t]
                          /\ t \notin DOMAIN r.rows => rows[t] = table[t]
  BY <1>1 DEF Over
<1> HIDE DEF rows
<1>3. \A t \in Tasks : rows[t] \in RowStates
  BY <1>2, Fields
<1> QED
  BY <1>2, <1>3 DEF rows

LEMMA RowsAt ==
  ASSUME TypeOK, NEW p \in Process
  PROVE  /\ DOMAIN Rows(p) = Tasks
         /\ \A t \in Tasks : /\ t \in Wrote(p) => Rows(p)[t] = tx[p].rows[t]
                             /\ t \notin Wrote(p) => Rows(p)[t] = row[t]
                             /\ Rows(p)[t] \in RowStates
<1>1. IsTransaction(tx[p]) /\ row \in [Tasks -> RowStates]
  BY DEF TypeOK
<1> QED
  BY <1>1, RowsOver DEF Rows, Wrote

LEMMA RowsAtNext ==
  ASSUME TypeOK', NEW p \in Process
  PROVE  /\ DOMAIN Rows(p)' = Tasks
         /\ \A t \in Tasks : /\ t \in Wrote(p)' => Rows(p)'[t] = tx'[p].rows[t]
                             /\ t \notin Wrote(p)' => Rows(p)'[t] = row'[t]
                             /\ Rows(p)'[t] \in RowStates
<1>1. IsTransaction(tx'[p]) /\ row' \in [Tasks -> RowStates]
  BY DEF TypeOK
<1> QED
  BY <1>1, RowsOver DEF Rows, Wrote

LEMMA RefIs ==
  ASSUME NEW r \in Refs
  PROVE  r.task \in Tasks /\ r.table \in Tables /\ r.processing \in BOOLEAN
BY DEF Refs

LEMMA ViewTyped ==
  ASSUME TypeOK, NEW p \in Process
  PROVE  View(p) \subseteq Refs
BY Fields DEF View, TypeOK

LEMMA NowIs ==
  ASSUME TypeOK, NEW p \in Process, tx[p].ops # <<>>
  PROVE  /\ Now(p) \in Ops /\ Now(p) = tx[p].ops[1] /\ 1 \in 1 .. Len(tx[p].ops)
         /\ Tail(tx[p].ops) \in Seq(Ops) /\ Len(Tail(tx[p].ops)) = Len(tx[p].ops) - 1
         /\ \A i \in 1 .. Len(Tail(tx[p].ops)) : Tail(tx[p].ops)[i] = tx[p].ops[i + 1]
         /\ Len(tx[p].ops) \in Nat
<1>1. tx[p].ops \in Seq(Ops)
  BY Fields DEF TypeOK
<1> QED
  BY <1>1 DEF Now

LEMMA SeenIs ==
  ASSUME NEW rs \in SUBSET Refs, NEW op \in Ops
  PROVE  /\ Touches(rs, op) \subseteq Tables
         /\ op.does \in {"attach", "heal"} => Touches(rs, op) = op.at
         /\ op.does \in {"run", "done", "retry"} =>
              \A r \in rs : r.task = op.task /\ (op.does = "run" => ~r.processing) =>
                r.table \in Touches(rs, op)
<1>1. Seen(rs, op) \subseteq Tables
  BY RefIs DEF Seen
<1> QED
  BY <1>1 DEF Touches, Ops, Seen

\* An operation that starts has the tables that it saw, and waits for them.
LEMMA StartedIs ==
  ASSUME NEW r, IsTransaction(r), r.ops # <<>>, r.step = "next", NEW rs \in SUBSET Refs
  PROVE  LET s == Started(r, rs)
             op == Head(r.ops)
             at == Touches(rs, op)
         IN  /\ IsTransaction(s) /\ s.open = r.open /\ s.add = r.add /\ s.del = r.del
             /\ s.show = r.show /\ s.rows = r.rows /\ s.then = r.then
             /\ \/ at = {} /\ s.ops = Tail(r.ops) /\ s.step = "next"
                \/ /\ at # {} /\ s.ops # <<>> /\ Len(s.ops) = Len(r.ops) /\ s.todo = at
                   /\ Head(s.ops).does = op.does /\ Head(s.ops).task = op.task
                   /\ Head(s.ops).at = at /\ s.ops[1] = Head(s.ops)
                   /\ \A i \in 2 .. Len(s.ops) : s.ops[i] = r.ops[i]
                   /\ s.step = IF op.does = "attach" THEN "gates" ELSE "locks"
<1> DEFINE op == Head(r.ops)
           at == Touches(rs, op)
           now == [op EXCEPT !.at = at]
           next == <<now>> \o Tail(r.ops)
           waits == [r EXCEPT !.ops = next, !.todo = at,
                       !.step = IF op.does = "attach" THEN "gates" ELSE "locks"]
<1>1. r.ops \in Seq(Ops) /\ op \in Ops /\ Tail(r.ops) \in Seq(Ops)
  BY Fields
<1>2. at \in SUBSET Tables
  BY <1>1, SeenIs
<1>3. CASE at = {}
  <2>1. Started(r, rs) = [r EXCEPT !.ops = Tail(r.ops)]
    BY <1>3 DEF Started
  <2> QED
    BY <1>1, <1>3, <2>1 DEF IsTransaction
<1>4. CASE at # {}
  <2> HIDE DEF at
  <2>1. now \in Ops /\ now.does = op.does /\ now.task = op.task /\ now.at = at
    BY <1>1, <1>2 DEF Ops
  <2> HIDE DEF now, op
  <2>2. /\ next \in Seq(Ops) /\ next # <<>> /\ Len(next) = Len(r.ops) /\ Head(next) = now
        /\ next[1] = now /\ \A i \in 2 .. Len(next) : next[i] = r.ops[i]
    BY <1>1, <2>1, Fields
  <2>3. Started(r, rs) = waits
    BY <1>4 DEF Started, at, op, now
  <2> HIDE DEF next
  <2>4. /\ IsTransaction(waits) /\ waits.ops = next /\ waits.todo = at
        /\ waits.step = IF op.does = "attach" THEN "gates" ELSE "locks"
        /\ waits.open = r.open /\ waits.add = r.add /\ waits.del = r.del
        /\ waits.show = r.show /\ waits.rows = r.rows /\ waits.then = r.then
    BY <1>2, <2>2 DEF IsTransaction
  <2> QED
    BY <1>4, <2>1, <2>2, <2>3, <2>4 DEF at, op
<1> QED
  BY <1>3, <1>4

---------------------------------------------------------------------------
(* whose a task is                                                         *)

LEMMA ProcessesApart ==
  /\ NoOne \notin Process /\ Reader \in Process /\ Reader \notin Workers
  /\ Workers \subseteq Process /\ Writers \subseteq Process
  /\ \A p \in Process : p # NoOne
BY ActivityAssumption DEF Process

\* A task that nobody took over belongs to one process at most.
LEMMA OwnedByOne ==
  ASSUME IInv, NEW p \in Process, NEW q \in Process, NEW t \in Tasks, t \notin late,
         Owns(p, t), Owns(q, t)
  PROVE  p = q
<1>1. t \in New(p) \/ t \in New(q) => t \in New(p) /\ t \in New(q)
  BY ProcessesApart DEF IInv, Unborn, Owns, Works, New
<1>2. t \in New(p) /\ t \in New(q) => p = q
  BY DEF IInv, Apart
<1>3. rowLock[t] = p \/ rowLock[t] = q => p = q \/ t \in New(p) \/ t \in New(q)
  BY DEF IInv, Good, RowsLocked, Owns, Works
<1>4. Works(p, t) /\ Works(q, t) => p = q
  BY DEF IInv, Leased, Works
<1> QED
  BY <1>1, <1>2, <1>3, <1>4 DEF Owns

\* A row that a transaction writes is of a task of its own.
LEMMA WroteOwned ==
  ASSUME IInv, NEW p \in Process, NEW t \in Wrote(p)
  PROVE  t \in Tasks /\ Owns(p, t)
BY Fields DEF IInv, Good, Written, Owns, Wrote, TypeOK

---------------------------------------------------------------------------
(* a process that stands by while another one makes a step                 *)

Bystander(p) ==
  /\ tx'[p] = tx[p] /\ (p \in Workers => hand'[p] = hand[p])
  /\ \A t \in Tasks : rowLock'[t] = p <=> rowLock[t] = p
  /\ \A x \in Tables : lock'[x] = p <=> lock[x] = p
  /\ late \subseteq late'
  /\ \A t \in Tasks :
       /\ row'[t].status = "none" => row[t].status = "none"
       /\ t \in New(p) => row'[t].status = "none"
       /\ t \notin late' /\ Owns(p, t) => row'[t].status = row[t].status
  /\ \A r \in Refs : r.task \notin late' /\ (Owns(p, r.task) \/ lock[r.table] = p) =>
       (r \in refs' <=> r \in refs)
  /\ \A t \in Tasks : t \notin late' /\ rowLock[t] = p =>
       \A w \in Workers : hand'[w].task = t => hand[w].task = t

LEMMA BystanderOwns ==
  ASSUME NEW p \in Process, TypeOK, Bystander(p)
  PROVE  /\ Wrote(p)' = Wrote(p) /\ New(p)' = New(p) /\ Concerns(p)' = Concerns(p)
         /\ \A t \in Tasks : Owns(p, t)' <=> Owns(p, t)
<1>1. Wrote(p)' = Wrote(p) /\ Concerns(p)' = Concerns(p) /\ Wrote(p) \subseteq Tasks
  BY Fields DEF Bystander, Wrote, Concerns, TypeOK
<1>2. New(p)' = New(p)
  BY <1>1 DEF New, Bystander
<1> QED
  BY <1>1, <1>2 DEF Owns, Works, Bystander

LEMMA BystanderRows ==
  ASSUME NEW p \in Process, TypeOK, TypeOK', Bystander(p),
         NEW t \in Tasks, t \notin late', Owns(p, t)
  PROVE  Rows(p)'[t].status = Rows(p)[t].status
<1>1. Wrote(p)' = Wrote(p)
  BY BystanderOwns
<1>2. t \in Wrote(p) => Rows(p)'[t] = tx[p].rows[t] /\ Rows(p)[t] = tx[p].rows[t]
  BY <1>1, RowsAt, RowsAtNext DEF Bystander
<1>3. t \notin Wrote(p) => Rows(p)'[t] = row'[t] /\ Rows(p)[t] = row[t]
  BY <1>1, RowsAt, RowsAtNext
<1> QED
  BY <1>2, <1>3 DEF Bystander

LEMMA TakenIs ==
  ASSUME NEW p, NEW op
  PROVE  /\ op.does = "attach" => Taken(p, op) = {}
         /\ op.does = "heal" => Taken(p, op) = Dangling(p, op)
         /\ op.does = "run" => Taken(p, op) = {r \in View(p) : r.task = op.task /\ ~r.processing}
         /\ op.does \in {"done", "retry"} => Taken(p, op) = {r \in View(p) : r.task = op.task}
         /\ Taken(p, op) \subseteq View(p)
BY DEF Taken, Dangling

\* What a transaction sees of its own tasks, and of the tables that it holds, stays.
LEMMA BystanderView ==
  ASSUME NEW p \in Process, TypeOK, TypeOK', Bystander(p),
         NEW r, r.task \notin late', Owns(p, r.task) \/ lock[r.table] = p
  PROVE  r \in View(p)' <=> r \in View(p)
<1>1. tx'[p] = tx[p]
  BY DEF Bystander
<1>2. View(p) \subseteq Refs
  BY ViewTyped
<1>3. refs' \subseteq Refs /\ refs \subseteq Refs
  BY DEF TypeOK
<1>4. r \in refs' <=> r \in refs
  BY <1>3, RefIs DEF Bystander
<1> QED
  BY <1>1, <1>4 DEF View

LEMMA BystanderPlans ==
  ASSUME NEW p \in Process, IInv, TypeOK', Bystander(p)
  PROVE  Planned(p)' /\ Handed(p)' /\ Reads(p)' /\ Begun(p)' /\ RowsLocked(p)' /\ Written(p)'
<1>1. TypeOK /\ tx'[p] = tx[p] /\ late \subseteq late' /\ Good(p)
  BY DEF Bystander, IInv
<1>2. /\ Wrote(p)' = Wrote(p) /\ New(p)' = New(p) /\ Concerns(p)' = Concerns(p)
      /\ \A t \in Tasks : Owns(p, t)' <=> Owns(p, t)
  BY <1>1, BystanderOwns
<1>3. Wrote(p) \subseteq Tasks /\ Now(p)' = Now(p)
  BY <1>1, Fields DEF TypeOK, Wrote, Now
<1>4. Planned(p)'
  <2> SUFFICES ASSUME NEW i \in 1 .. Len(tx[p].ops)
               PROVE  /\ Meant(p, tx[p].ops[i])'
                      /\ tx[p].ops[i].does \in {"done", "retry"} => i = Len(tx[p].ops)
    BY <1>1 DEF Planned
  <2> DEFINE op == tx[p].ops[i]
  <2>1. Meant(p, op) /\ (op.does \in {"done", "retry"} => i = Len(tx[p].ops))
    BY <1>1 DEF Good, Planned
  <2>2. op \in Ops /\ op.does # "heal" => op.task \in Tasks
    BY <2>1 DEF Meant
  <2>3. op \in Ops
    BY <1>1, Fields DEF TypeOK
  <2>4. op' = op
    BY <1>1
  <2> HIDE DEF op
  <2>5. op.does = "attach" /\ op.task \notin late' =>
          Rows(p)'[op.task].status = Rows(p)[op.task].status
    BY <1>1, <2>1, <2>2, <2>3, BystanderRows DEF Meant
  <2>6. Meant(p, op)'
    BY <1>1, <1>2, <2>1, <2>2, <2>3, <2>4, <2>5 DEF Meant
  <2> QED
    BY <2>1, <2>4, <2>6 DEF op
<1>5. Handed(p)'
  <2> DEFINE t == tx[p].then.task
  <2>1. t \in Tasks \cup {0}
    BY <1>1, Fields DEF TypeOK, Claims, Free
  <2>2. p \in Workers => hand'[p] = hand[p]
    BY DEF Bystander
  <2>3. t \in Tasks => (rowLock'[t] = p <=> rowLock[t] = p)
    BY DEF Bystander
  <2> QED
    BY <1>1, <1>2, <2>1, <2>2, <2>3 DEF Good, Handed
<1>6. Reads(p)'
  BY <1>1, <1>2, <1>3 DEF Good, Reads
<1>7. Begun(p)'
  <2>1. tx[p].step # "next" => Now(p) \in Ops
    BY <1>1, NowIs DEF Good, Begun
  <2>2. tx[p].step = "locks" => Now(p).at \subseteq Tables
    BY <2>1 DEF Ops
  <2>3. DOMAIN tx[p].show \subseteq Tables
    BY <1>1, Fields DEF TypeOK
  <2> QED
    BY <1>1, <1>3, <2>2, <2>3 DEF Good, Begun, Bystander
<1>8. RowsLocked(p)'
  BY <1>1 DEF Good, RowsLocked, Bystander
<1>9. Written(p)'
  BY <1>1, <1>2, <1>3 DEF Good, Written, Bystander
<1> QED
  BY <1>4, <1>5, <1>6, <1>7, <1>8, <1>9

LEMMA BystanderSees ==
  ASSUME NEW p \in Process, IInv, TypeOK', RefsAlive', Bystander(p)
  PROVE  Fenced(p)' /\ Fresh(p)' /\ Fetched(p)' /\ Summed(p)'
<1>1. TypeOK /\ tx'[p] = tx[p] /\ late \subseteq late' /\ Good(p)
  BY DEF Bystander, IInv
<1>2. /\ Wrote(p)' = Wrote(p) /\ New(p)' = New(p) /\ Concerns(p)' = Concerns(p)
      /\ \A t \in Tasks : Owns(p, t)' <=> Owns(p, t)
  BY <1>1, BystanderOwns
<1>3. Now(p)' = Now(p)
  BY <1>1 DEF Now
<1>4. View(p) \subseteq Refs /\ View(p)' \subseteq Refs
  <2>1. tx[p].add \subseteq Refs /\ refs' \subseteq Refs
    BY <1>1, Fields DEF TypeOK
  <2> QED
    BY <1>1, <2>1, ViewTyped DEF View
<1>5. Fenced(p)'
  <2>1. \A r \in tx[p].add \cup tx[p].del : r.task \in Tasks
    BY <1>1, Fields, RefIs DEF TypeOK
  <2> QED
    BY <1>1, <1>2, <2>1 DEF Good, Fenced
<1>6. Fresh(p)'
  <2> SUFFICES ASSUME NEW r \in View(p)', r.task \notin late'
               PROVE  Rows(p)'[r.task].status \notin {"none", "gone"} \/ Ending(p, r.task)'
    BY DEF Fresh
  <2>1. r.task \in Tasks /\ r \in Refs
    BY <1>4, RefIs
  <2>2. CASE Owns(p, r.task)
    <3>1. r \in View(p)
      BY <1>1, <2>2, BystanderView
    <3>2. Rows(p)[r.task].status \notin {"none", "gone"} \/ Ending(p, r.task)
      BY <1>1, <3>1 DEF Good, Fresh
    <3>3. Rows(p)'[r.task].status = Rows(p)[r.task].status
      BY <1>1, <2>1, <2>2, BystanderRows
    <3> QED
      BY <1>1, <1>3, <3>2, <3>3 DEF Ending
  <2>3. CASE ~Owns(p, r.task)
    <3>1. r \in refs'
      BY <1>1, <2>3 DEF View, Good, Fenced
    <3>2. r.task \notin Wrote(p)
      BY <2>3, WroteOwned
    <3>3. Rows(p)'[r.task] = row'[r.task]
      BY <1>2, <2>1, <3>2, RowsAtNext
    <3> QED
      BY <3>1, <3>3 DEF RefsAlive, Alive
  <2> QED
    BY <2>2, <2>3
<1>7. Fetched(p)'
  <2> SUFFICES ASSUME tx[p].step = "locks", Now(p).does \in {"run", "done", "retry"},
                      Now(p).task \notin late', NEW r \in Taken(p, Now(p))'
               PROVE  r.table \in Now(p).at
    BY <1>1, <1>3 DEF Fetched
  <2> DEFINE op == Now(p)
  <2>1. tx[p].ops # <<>>
    BY <1>1 DEF Good, Begun
  <2>2. Meant(p, op)
    BY <1>1, <2>1, NowIs DEF Good, Planned
  <2>3. Owns(p, op.task) /\ op.task \notin late
    BY <1>1, <2>2 DEF Meant
  <2>4. r \in View(p)' /\ r.task = op.task /\ (op.does = "run" => ~r.processing)
    BY <1>3 DEF Taken
  <2>5. r \in View(p)
    BY <1>1, <2>3, <2>4, BystanderView
  <2>6. r \in Taken(p, op)
    BY <2>4, <2>5, TakenIs
  <2> QED
    BY <1>1, <2>3, <2>6 DEF Good, Fetched
<1>8. Summed(p)'
  <2> SUFFICES ASSUME late' = {}, NEW x \in DOMAIN tx[p].show
               PROVE  tx[p].show[x] = Count(View(p)', x)
    BY <1>1 DEF Summed, Count
  <2>1. late = {} /\ lock[x] = p
    BY <1>1 DEF Good, Begun
  <2>2. tx[p].show[x] = Count(View(p), x)
    BY <1>1, <2>1 DEF Good, Summed
  <2>3. \A r : r \in View(p) /\ r.table = x <=> r \in View(p)' /\ r.table = x
    BY <1>1, <2>1, BystanderView
  <2>4. Count(View(p), x) = Count(View(p)', x)
    BY ONLY <2>3, CountLocal
  <2> QED
    BY <2>2, <2>4
<1> QED
  BY <1>5, <1>6, <1>7, <1>8

LEMMA BystanderIsGood ==
  ASSUME NEW p \in Process, IInv, TypeOK', RefsAlive', Bystander(p)
  PROVE  Good(p)'
BY BystanderPlans, BystanderSees DEF Good

---------------------------------------------------------------------------
(* a transaction ends                                                      *)

LEMMA ReleasedIs ==
  ASSUME NEW S, NEW held \in [S -> Process \cup {NoOne}], NEW p \in Process
  PROVE  /\ Released(held, p) \in [S -> Process \cup {NoOne}]
         /\ \A x \in S : /\ Released(held, p)[x] # p
                         /\ \A q \in Process \ {p} : Released(held, p)[x] = q <=> held[x] = q
                         /\ held[x] = NoOne => Released(held, p)[x] = NoOne
BY ProcessesApart DEF Released

LEMMA CloseDoes ==
  ASSUME TypeOK, NEW p \in Process, Close(p)
  PROVE  /\ tx'[p] = Idle /\ \A q \in Process \ {p} : tx'[q] = tx[q]
         /\ tx' = [q \in Process |-> tx'[q]] /\ \A q \in Process : IsTransaction(tx'[q])
         /\ rowLock' \in [Tasks -> Process \cup {NoOne}]
         /\ lock' \in [Tables -> Process \cup {NoOne}]
         /\ gate' \in [Tables -> Process \cup {NoOne}]
         /\ \A t \in Tasks : /\ rowLock'[t] # p
                             /\ \A q \in Process \ {p} : rowLock'[t] = q <=> rowLock[t] = q
                             /\ rowLock[t] = NoOne => rowLock'[t] = NoOne
         /\ \A x \in Tables : /\ lock'[x] # p /\ gate'[x] # p
                              /\ \A q \in Process \ {p} : /\ lock'[x] = q <=> lock[x] = q
                                                          /\ gate'[x] = q <=> gate[x] = q
<1>1. tx' = [tx EXCEPT ![p] = Idle]
  BY DEF Close
<1>2. /\ rowLock' = Released(rowLock, p) /\ lock' = Released(lock, p)
      /\ gate' = Released(gate, p)
  BY DEF Close
<1>3. /\ rowLock \in [Tasks -> Process \cup {NoOne}]
      /\ lock \in [Tables -> Process \cup {NoOne}] /\ gate \in [Tables -> Process \cup {NoOne}]
  BY DEF TypeOK
<1>4. tx'[p] = Idle /\ \A q \in Process \ {p} : tx'[q] = tx[q]
  BY <1>1, Moves
<1>5. tx' = [q \in Process |-> tx'[q]] /\ \A q \in Process : IsTransaction(tx'[q])
  BY <1>1, IdleIs, MovesTyped
<1> QED
  BY <1>2, <1>3, <1>4, <1>5, ReleasedIs

LEMMA IdleIsGood ==
  ASSUME NEW p \in Process, TypeOK', RefsAlive', tx'[p] = Idle,
         \A t \in Tasks : rowLock'[t] # p
  PROVE  Good(p)'
<1> DEFINE r == tx'[p]
<1>1. /\ ~r.open /\ r.ops = <<>> /\ r.step = "next" /\ r.add = {} /\ r.del = {}
      /\ DOMAIN r.show = {} /\ DOMAIN r.rows = {} /\ r.then.task = 0 /\ Len(r.ops) = 0
  BY IdleIs
<1>2. Begun(p)'
  BY <1>1 DEF Begun
<1>3. RowsLocked(p)'
  BY DEF RowsLocked
<1>4. Written(p)' /\ Planned(p)' /\ Handed(p)'
  BY <1>1 DEF Written, Planned, Handed, Wrote
<1>5. Fenced(p)' /\ Fetched(p)' /\ Summed(p)' /\ Reads(p)'
  BY <1>1 DEF Fenced, Fetched, Summed, Reads, Wrote
<1>6. Fresh(p)'
  <2> SUFFICES ASSUME NEW s \in View(p)', s.task \notin late'
               PROVE  Rows(p)'[s.task].status \notin {"none", "gone"}
    BY DEF Fresh
  <2>1. s \in refs' /\ s \in Refs
    BY <1>1 DEF View, TypeOK
  <2>2. Rows(p)'[s.task] = row'[s.task]
    BY <1>1, <2>1, RefIs, RowsAtNext DEF Wrote
  <2> QED
    BY <2>1, <2>2 DEF RefsAlive, Alive
<1> QED
  BY <1>2, <1>3, <1>4, <1>5, <1>6 DEF Good

\* what holds of the rows and of the reader survives a step that leaves them alone
LEMMA NobodyCommits ==
  ASSUME IInv, TypeOK', refs' = refs, shown' = shown, hand' = hand, late \subseteq late',
         \A t \in Tasks : row'[t].status = row[t].status /\ row'[t].by = row[t].by,
         \A t \in Tasks : t \in late' \ late => row[t].status # "none",
         \A t \in Tasks : rowLock'[t] # NoOne /\ rowLock[t] = NoOne => row[t].status # "none"
  PROVE  Unborn' /\ Leased' /\ RefsAlive' /\ ShownTrue'
<1>1. TypeOK /\ Unborn /\ Leased /\ RefsAlive /\ ShownTrue
  BY DEF IInv
<1>2. Unborn'
  BY <1>1 DEF Unborn
<1>3. Leased'
  BY <1>1 DEF Leased
<1>4. RefsAlive'
  BY <1>1, RefIs DEF RefsAlive, Alive, TypeOK
<1>5. ShownTrue'
  BY <1>1 DEF ShownTrue, Count
<1> QED
  BY <1>2, <1>3, <1>4, <1>5

LEMMA StandsBy ==
  ASSUME IInv, NEW p \in Process, tx'[p] = tx[p], p \in Workers => hand'[p] = hand[p],
         refs' = refs, late \subseteq late',
         \A t \in Tasks : row'[t].status = row[t].status,
         \A t \in Tasks : rowLock'[t] = p <=> rowLock[t] = p,
         \A x \in Tables : lock'[x] = p <=> lock[x] = p,
         \A w \in Workers : hand'[w] = hand[w] \/ hand'[w].task \notin Tasks
  PROVE  Bystander(p)
BY DEF Bystander, New, Wrote, IInv

\* nothing is repaired by a step of somebody else that commits nothing
LEMMA StillRepaired ==
  ASSUME IInv, TypeOK', refs' = refs, tx'[Reader] = tx[Reader], stirred' = stirred,
         \A t \in Tasks : row'[t].status = row[t].status,
         \A x \in Tables : lock'[x] = Reader <=> lock[x] = Reader
  PROVE  Repaired'
<1>1. View(Reader)' = View(Reader) /\ Now(Reader)' = Now(Reader)
  BY DEF View, Now
<1>2. View(Reader) \subseteq Refs
  BY ViewTyped, ProcessesApart DEF IInv
<1>3. \A r \in View(Reader) : Alive(r.task)' <=> Alive(r.task)
  BY <1>2, RefIs DEF Alive
<1>4. \A x \in Tables : Count(View(Reader)', x) = Count(View(Reader), x)
  BY <1>1 DEF Count
<1> QED
  BY <1>1, <1>3, <1>4 DEF Repaired, IInv, Count

\* A step of one process, which the others stand by.
LEMMA StepOf ==
  ASSUME IInv, TypeOK', NEW p \in Process, \A q \in Process \ {p} : Bystander(q),
         Good(p)', Unborn', Leased', RefsAlive', ShownTrue', Repaired',
         \A q \in Process \ {p} : New(p)' \cap New(q) = {}
  PROVE  IInv'
<1>1. TypeOK
  BY DEF IInv
<1>2. \A q \in Process \ {p} : Good(q)'
  BY BystanderIsGood
<1>3. \A q \in Process \ {p} : New(q)' = New(q)
  BY <1>1, BystanderOwns
<1>4. Apart'
  BY <1>3 DEF Apart, IInv
<1> QED
  BY <1>2, <1>4 DEF IInv

LEMMA RollBackKeeps ==
  ASSUME IInv, NEW p \in Process, RollBack(p)
  PROVE  IInv'
<1>0. TypeOK /\ Close(p)
  BY DEF IInv, RollBack
<1>1. UNCHANGED <<row, refs, shown, hand, late, stirred, merges, faults>>
  BY DEF RollBack
<1>2. TypeOK'
  BY <1>0, <1>1, CloseDoes DEF TypeOK
<1>3. Unborn' /\ Leased' /\ RefsAlive' /\ ShownTrue'
  BY <1>0, <1>1, <1>2, CloseDoes, NobodyCommits
<1>4. Good(p)'
  BY <1>0, <1>2, <1>3, CloseDoes, IdleIsGood
<1>5. \A q \in Process \ {p} : Bystander(q)
  BY <1>0, <1>1, CloseDoes, StandsBy
<1>6. Repaired'
  <2>1. CASE p = Reader
    BY <1>0, <2>1, CloseDoes DEF Repaired
  <2>2. CASE p # Reader
    BY <1>0, <1>1, <1>2, <2>2, CloseDoes, StillRepaired, ProcessesApart
  <2> QED
    BY <2>1, <2>2
<1>7. New(p)' = {}
  BY <1>0, CloseDoes, IdleIs DEF New, Wrote
<1> QED
  BY <1>2, <1>3, <1>4, <1>5, <1>6, <1>7, StepOf

LEMMA LeaseExpiresKeeps ==
  ASSUME IInv, NEW t \in Tasks, LeaseExpires(t)
  PROVE  IInv'
<1>0. TypeOK
  BY DEF IInv
<1>1. UNCHANGED <<refs, shown, rowLock, lock, gate, tx, hand, late, stirred, merges>>
  BY DEF LeaseExpires
<1>2. row' = [row EXCEPT ![t].expired = TRUE] /\ faults' = faults + 1
  BY DEF LeaseExpires, Fault
<1>3. row' \in [Tasks -> RowStates]
  BY <1>0, <1>2 DEF TypeOK, RowStates
<1>4. \A s \in Tasks : row'[s].status = row[s].status /\ row'[s].by = row[s].by
  BY <1>0, <1>2 DEF TypeOK, RowStates
<1>5. TypeOK'
  BY <1>0, <1>1, <1>2, <1>3 DEF TypeOK
<1>6. Unborn' /\ Leased' /\ RefsAlive' /\ ShownTrue'
  BY <1>1, <1>4, <1>5, NobodyCommits
<1>7. \A q \in Process : Bystander(q)
  BY <1>1, <1>4, StandsBy
<1>8. Good(Reader)' /\ New(Reader)' = New(Reader)
  BY <1>0, <1>5, <1>6, <1>7, ProcessesApart, BystanderIsGood, BystanderOwns
<1>9. Repaired'
  BY <1>1, <1>4, <1>5, StillRepaired
<1> QED
  BY <1>5, <1>6, <1>7, <1>8, <1>9, StepOf, ProcessesApart DEF IInv, Apart

LEMMA CrashKeeps ==
  ASSUME IInv, NEW w \in Workers, Crash(w)
  PROVE  IInv'
<1>0. TypeOK /\ Close(w) /\ w \in Process
  BY ProcessesApart DEF IInv, Crash
<1>1. UNCHANGED <<refs, shown, late, stirred, merges>> /\ faults' = faults + 1
  BY DEF Crash, Fault
<1>2. /\ hand' = [hand EXCEPT ![w] = Free]
      /\ row' = [t \in Tasks |-> IF row[t].by = w THEN [row[t] EXCEPT !.expired = TRUE]
                                 ELSE row[t]]
  BY DEF Crash
<1>3. row' \in [Tasks -> RowStates]
  BY <1>0, <1>2 DEF TypeOK, RowStates
<1>4. \A s \in Tasks : row'[s].status = row[s].status /\ row'[s].by = row[s].by
  BY <1>0, <1>2 DEF TypeOK, RowStates
<1>5. Free \in Claims /\ Free.task = 0 /\ 0 \notin Tasks
  BY ActivityAssumption DEF Free, Claims
<1>6. /\ hand' \in [Workers -> Claims] /\ hand'[w].task = 0
      /\ \A v \in Workers \ {w} : hand'[v] = hand[v]
  BY <1>0, <1>2, <1>5 DEF TypeOK
<1>7. TypeOK'
  <2>1. faults' \in Nat
    BY <1>0, <1>1 DEF TypeOK
  <2> QED
    BY <1>0, <1>1, <1>3, <1>6, <2>1, CloseDoes DEF TypeOK
<1>8. Unborn' /\ Leased' /\ RefsAlive' /\ ShownTrue'
  <2>1. Unborn /\ Leased /\ RefsAlive /\ ShownTrue
    BY DEF IInv
  <2>2. Unborn'
    BY <1>0, <1>1, <1>4, <1>5, <1>6, <2>1, CloseDoes DEF Unborn
  <2>3. Leased'
    BY <1>1, <1>4, <1>5, <1>6, <2>1 DEF Leased
  <2>4. RefsAlive'
    BY <1>0, <1>1, <1>4, <2>1, RefIs DEF RefsAlive, Alive, TypeOK
  <2>5. ShownTrue'
    BY <1>1, <2>1 DEF ShownTrue, Count
  <2> QED
    BY <2>2, <2>3, <2>4, <2>5
<1>9. Good(w)'
  BY <1>0, <1>7, <1>8, CloseDoes, IdleIsGood
<1>10. \A q \in Process \ {w} : Bystander(q)
  BY <1>0, <1>1, <1>4, <1>5, <1>6, CloseDoes, StandsBy
<1>11. Repaired'
  <2>1. w # Reader
    BY ProcessesApart
  <2> QED
    BY <1>0, <1>1, <1>4, <1>7, <2>1, CloseDoes, StillRepaired, ProcessesApart
<1>12. New(w)' = {}
  BY <1>0, CloseDoes, IdleIs DEF New, Wrote
<1> QED
  BY <1>0, <1>7, <1>8, <1>9, <1>10, <1>11, <1>12, StepOf

---------------------------------------------------------------------------
(* a commit                                                                *)

\* What it writes was its own, or was nobody's whose task was not taken over.
LEMMA CommitDoes ==
  ASSUME IInv, NEW p \in Process, Commit(p)
  PROVE  /\ TypeOK'
         /\ \A t \in Tasks : /\ t \in Wrote(p) => row'[t] = tx[p].rows[t]
                             /\ t \notin Wrote(p) => row'[t] = row[t]
         /\ \A t \in Tasks : row'[t].status = "none" => row[t].status = "none" /\ t \notin Wrote(p)
         /\ \A w \in Workers : w # p => hand'[w] = hand[w]
         /\ p \in Workers => hand'[p] = tx[p].then
         /\ \A r : (r \in refs') # (r \in refs) =>
              /\ r \in Refs /\ (r.task \in late \/ Owns(p, r.task))
              /\ lock[r.table] = p \/ r.task \in late \cap Concerns(p)
         /\ \A r : r \in refs' /\ r \notin refs => r \in tx[p].add
<1>0. TypeOK /\ Close(p) /\ Good(p) /\ IsTransaction(tx[p])
  BY DEF IInv, TypeOK, Commit
<1>1. /\ refs' = View(p) /\ row' = Rows(p) /\ shown' = Over(tx[p].show, shown)
      /\ hand' = IF p \in Workers THEN [hand EXCEPT ![p] = tx[p].then] ELSE hand
      /\ stirred' = (stirred \/ Concerns(p) \cap late # {})
      /\ UNCHANGED <<late, merges, faults>>
  BY DEF Commit
<1>2. \A t \in Tasks : /\ t \in Wrote(p) => row'[t] = tx[p].rows[t]
                       /\ t \notin Wrote(p) => row'[t] = row[t]
  BY <1>0, <1>1, RowsAt
<1>3. \A t \in Tasks : row'[t].status = "none" => row[t].status = "none" /\ t \notin Wrote(p)
  BY <1>0, <1>2 DEF Good, Written
<1>4. tx[p].then \in Claims
  BY <1>0, Fields
<1>5. /\ \A w \in Workers : w # p => hand'[w] = hand[w]
      /\ p \in Workers => hand'[p] = tx[p].then
      /\ hand' \in [Workers -> Claims]
  BY <1>0, <1>1, <1>4 DEF TypeOK
<1>6. refs' \subseteq Refs /\ refs \subseteq Refs
  BY <1>0, <1>1, ViewTyped DEF TypeOK
<1>7. \A r : (r \in refs') # (r \in refs) => r \in tx[p].add \cup tx[p].del
  BY <1>1 DEF View
<1>8. \A r \in tx[p].add \cup tx[p].del :
        /\ r.task \in late \/ Owns(p, r.task)
        /\ lock[r.table] = p \/ r.task \in late \cap Concerns(p)
  BY <1>0 DEF Good, Fenced, Begun
<1>9. row' \in [Tasks -> RowStates]
  <2>1. row' = [t \in DOMAIN tx[p].rows \cup DOMAIN row |->
                  IF t \in DOMAIN tx[p].rows THEN tx[p].rows[t] ELSE row[t]]
    BY <1>1 DEF Rows, Over
  <2>2. DOMAIN tx[p].rows \cup DOMAIN row = Tasks
    BY <1>0, Fields DEF TypeOK
  <2> QED
    BY <1>0, <2>1, <2>2, Fields DEF TypeOK
<1>10. shown' \in [Tables -> Counters]
  <2>1. shown' = [x \in DOMAIN tx[p].show \cup DOMAIN shown |->
                    IF x \in DOMAIN tx[p].show THEN tx[p].show[x] ELSE shown[x]]
    BY <1>1 DEF Over
  <2>2. DOMAIN tx[p].show \cup DOMAIN shown = Tables
    BY <1>0, Fields DEF TypeOK
  <2> QED
    BY <1>0, <2>1, <2>2, Fields DEF TypeOK
<1>11. stirred' \in BOOLEAN
  BY <1>1
<1>12. TypeOK'
  BY <1>0, <1>1, <1>5, <1>6, <1>9, <1>10, <1>11, CloseDoes DEF TypeOK
<1>13. \A r : r \in refs' /\ r \notin refs => r \in tx[p].add
  BY <1>1 DEF View
<1>14. \A r : (r \in refs') # (r \in refs) => r \in Refs
  BY <1>6
<1> QED
  BY <1>2, <1>3, <1>5, <1>7, <1>8, <1>12, <1>13, <1>14

LEMMA CommitRows ==
  ASSUME IInv, NEW p \in Process, Commit(p)
  PROVE  Unborn' /\ Leased' /\ RefsAlive' /\ ShownTrue'
<1>0. TypeOK /\ Close(p) /\ Good(p) /\ Unborn /\ Leased /\ RefsAlive /\ ShownTrue
  BY DEF IInv, Commit
<1>1. /\ refs' = View(p) /\ row' = Rows(p) /\ shown' = Over(tx[p].show, shown) /\ late' = late
      /\ tx[p].step = "next"
  BY DEF Commit, Ended
<1>2. tx[p].then \in Claims /\ 0 \notin Tasks
  BY <1>0, Fields, ActivityAssumption DEF TypeOK
<1>3. Unborn'
  <2> SUFFICES ASSUME NEW t \in Tasks, row'[t].status = "none"
               PROVE  /\ t \notin late' /\ rowLock'[t] = NoOne
                      /\ \A w \in Workers : hand'[w].task # t
                      /\ \A r \in refs' : r.task # t
    BY DEF Unborn
  <2>1. /\ row[t].status = "none" /\ t \notin Wrote(p) /\ t \notin late /\ rowLock[t] = NoOne
        /\ \A w \in Workers : hand[w].task # t
        /\ \A r \in refs : r.task # t
    BY <1>0, CommitDoes DEF Unborn
  <2>2. rowLock'[t] = NoOne
    BY <1>0, <2>1, CloseDoes
  <2>3. tx[p].then.task # t
    BY <1>0, <1>2, <2>1, ProcessesApart DEF Good, Handed
  <2>4. \A w \in Workers : hand'[w].task # t
    BY <2>1, <2>3, CommitDoes
  <2>5. ~Owns(p, t)
    BY <2>1, ProcessesApart DEF Owns, New, Works
  <2>6. \A r \in refs' : r.task # t
    BY <2>1, <2>5, CommitDoes
  <2> QED
    BY <1>1, <2>1, <2>2, <2>4, <2>6
<1>4. Leased'
  <2> SUFFICES ASSUME NEW t \in Tasks
               PROVE  /\ row'[t].status = "pending" => row'[t].by = NoOne
                      /\ t \notin late => \A w \in Workers : hand'[w].task = t =>
                           row'[t].status = "processing" /\ row'[t].by = w
    BY <1>1 DEF Leased
  <2>1. row'[t].status = "pending" => row'[t].by = NoOne
    BY <1>0, CommitDoes DEF Good, Written, Leased
  <2>2. ASSUME t \notin late, NEW w \in Workers, hand'[w].task = t
        PROVE  row'[t].status = "processing" /\ row'[t].by = w
    <3>1. CASE w = p
      <4>1. tx[p].then.task = t /\ t # 0
        BY <1>2, <2>2, <3>1, CommitDoes
      <4>2. \/ /\ t \in Wrote(p) /\ tx[p].rows[t].status = "processing"
               /\ tx[p].rows[t].by = p
            \/ hand[p].task = t /\ t \notin Wrote(p)
        BY <1>0, <2>2, <4>1 DEF Good, Handed
      <4> QED
        BY <1>0, <2>2, <3>1, <4>2, CommitDoes DEF Leased
    <3>2. CASE w # p
      <4>1. hand[w].task = t
        BY <2>2, <3>2, CommitDoes
      <4>2. Owns(w, t) /\ w \in Process
        BY <4>1, ProcessesApart DEF Owns, Works
      <4>3. t \notin Wrote(p)
        BY <2>2, <3>2, <4>2, WroteOwned, OwnedByOne
      <4> QED
        BY <1>0, <2>2, <4>1, <4>3, CommitDoes DEF Leased
    <3> QED
      BY <3>1, <3>2
  <2> QED
    BY <2>1, <2>2
<1>5. RefsAlive'
  BY <1>0, <1>1 DEF RefsAlive, Good, Fresh, Ending, Alive
<1>6. ShownTrue'
  <2> SUFFICES ASSUME late = {}, NEW x \in Tables
               PROVE  shown'[x] = Count(refs', x)
    BY <1>1 DEF ShownTrue, Count
  <2>1. CASE x \in DOMAIN tx[p].show
    <3>1. shown'[x] = tx[p].show[x]
      BY <1>1, <2>1, OverAt
    <3> QED
      BY <1>0, <1>1, <2>1, <3>1 DEF Good, Summed
  <2>2. CASE x \notin DOMAIN tx[p].show
    <3>1. shown'[x] = shown[x]
      BY <1>0, <1>1, <2>2 DEF TypeOK, Over
    <3>2. \A r : r \in refs /\ r.table = x <=> r \in refs' /\ r.table = x
      BY <1>0, <1>1, <2>2 DEF View, Good, Fenced
    <3>3. Count(refs, x) = Count(refs', x)
      BY <3>2, CountLocal
    <3> QED
      BY <1>0, <3>1, <3>3 DEF ShownTrue
  <2> QED
    BY <2>1, <2>2
<1> QED
  BY <1>3, <1>4, <1>5, <1>6

LEMMA CommitSeenBy ==
  ASSUME IInv, NEW p \in Process, Commit(p), NEW q \in Process \ {p}
  PROVE  Bystander(q)
<1>0. TypeOK /\ Close(p) /\ Good(p) /\ Unborn /\ late' = late
  BY DEF IInv, Commit
<1>1. tx'[q] = tx[q] /\ (q \in Workers => hand'[q] = hand[q])
  BY <1>0, CloseDoes, CommitDoes
<1>2. /\ \A t \in Tasks : rowLock'[t] = q <=> rowLock[t] = q
      /\ \A x \in Tables : lock'[x] = q <=> lock[x] = q
  BY <1>0, CloseDoes
<1>3. \A t \in Tasks : row'[t].status = "none" => row[t].status = "none"
  BY CommitDoes
<1>4. ASSUME NEW t \in Tasks, t \in New(q)
      PROVE  row'[t].status = "none"
  <2>1. row[t].status = "none" /\ rowLock[t] # p
    BY <1>0, <1>4, ProcessesApart DEF New, Unborn
  <2>2. t \notin New(p)
    BY <1>4 DEF IInv, Apart
  <2>3. t \notin Wrote(p)
    BY <1>0, <2>1, <2>2 DEF Good, Written
  <2> QED
    BY <2>1, <2>3, CommitDoes
<1>5. ASSUME NEW t \in Tasks, t \notin late, Owns(q, t)
      PROVE  row'[t].status = row[t].status
  <2>1. t \notin Wrote(p)
    BY <1>5, WroteOwned, OwnedByOne
  <2> QED
    BY <2>1, CommitDoes
<1>6. ASSUME NEW r \in Refs, r.task \notin late, Owns(q, r.task) \/ lock[r.table] = q
      PROVE  r \in refs' <=> r \in refs
  <2>1. r.task \in Tasks
    BY RefIs
  <2> QED
    BY <1>6, <2>1, CommitDoes, OwnedByOne
<1>7. ASSUME NEW t \in Tasks, t \notin late, rowLock[t] = q, NEW w \in Workers, hand'[w].task = t
      PROVE  hand[w].task = t
  <2>1. w = p => tx[p].then.task = t /\ t # 0
    BY <1>7, CommitDoes, ActivityAssumption
  <2> QED
    BY <1>0, <1>7, <2>1, CommitDoes DEF Good, Handed
<1> QED
  BY <1>0, <1>1, <1>2, <1>3, <1>4, <1>5, <1>6, <1>7 DEF Bystander

LEMMA CommitRepairs ==
  ASSUME IInv, NEW p \in Process, Commit(p)
  PROVE  Repaired'
<1>0. TypeOK /\ Close(p) /\ Good(p) /\ Good(Reader) /\ Reader \in Process /\ late' = late
  BY ProcessesApart DEF IInv, Commit
<1>1. p = Reader => Repaired'
  BY <1>0, CloseDoes DEF Repaired
<1> SUFFICES ASSUME p # Reader, NEW x \in Tables, lock[x] = Reader
             PROVE  /\ tx[Reader].open
                    /\ tx[Reader].ops # <<>> => x \in Now(Reader).at
                    /\ tx[Reader].ops = <<>> /\ ~stirred' =>
                         /\ x \in DOMAIN tx[Reader].show
                         /\ tx[Reader].show[x] = Count(View(Reader)', x)
                         /\ \A r \in View(Reader)' : r.table = x => Alive(r.task)'
  <2>1. ASSUME p # Reader
        PROVE  /\ tx'[Reader] = tx[Reader] /\ Now(Reader)' = Now(Reader)
               /\ \A x \in Tables : lock'[x] = Reader <=> lock[x] = Reader
    BY <1>0, <2>1, CloseDoes DEF Now
  <2> QED
    BY <1>1, <2>1 DEF Repaired, Count
<1>2. /\ tx[Reader].open
      /\ tx[Reader].ops # <<>> => x \in Now(Reader).at
  BY DEF IInv, Repaired
<1>3. ASSUME tx[Reader].ops = <<>>, ~stirred'
      PROVE  /\ x \in DOMAIN tx[Reader].show
             /\ tx[Reader].show[x] = Count(View(Reader)', x)
             /\ \A r \in View(Reader)' : r.table = x => Alive(r.task)'
  <2>1. ~stirred /\ Concerns(p) \cap late = {}
    BY <1>3 DEF Commit
  <2>2. /\ x \in DOMAIN tx[Reader].show /\ tx[Reader].show[x] = Count(View(Reader), x)
        /\ \A r \in View(Reader) : r.table = x => Alive(r.task)
    BY <1>3, <2>1 DEF IInv, Repaired
  <2>3. \A r : r.table = x => (r \in refs' <=> r \in refs)
    BY <2>1, CommitDoes
  <2>4. tx'[Reader] = tx[Reader]
    BY <1>0, CloseDoes
  <2>5. \A r : r \in View(Reader) /\ r.table = x <=> r \in View(Reader)' /\ r.table = x
    BY <2>3, <2>4 DEF View
  <2>6. Count(View(Reader), x) = Count(View(Reader)', x)
    BY ONLY <2>5, CountLocal
  <2>7. ASSUME NEW r \in View(Reader)', r.table = x
        PROVE  Alive(r.task)'
    <3>1. r \in View(Reader) /\ Alive(r.task) /\ r.task \in Tasks
      BY <1>0, <2>2, <2>5, <2>7, ViewTyped, RefIs
    <3>2. CASE r.task \notin Wrote(p)
      BY <3>1, <3>2, CommitDoes DEF Alive
    <3>3. CASE r.task \in Wrote(p)
      <4>1. Owns(p, r.task)
        BY <3>3, WroteOwned
      <4>2. r.task \notin New(p)
        BY <3>1 DEF New, Alive
      <4>3. r.task \notin late
        BY <1>0, <2>1, <3>3, <4>2 DEF Good, Written
      <4>4. r \notin tx[Reader].add
        BY <1>0, <3>1, <4>1, <4>3, OwnedByOne DEF Good, Fenced
      <4>5. r \in refs'
        BY <2>4, <2>7, <4>4 DEF View
      <4>6. RefsAlive'
        BY CommitRows
      <4> QED
        BY <1>0, <4>3, <4>5, <4>6 DEF RefsAlive
    <3> QED
      BY <3>2, <3>3
  <2> QED
    BY <2>2, <2>6, <2>7
<1> QED
  BY <1>2, <1>3

LEMMA CommitKeeps ==
  ASSUME IInv, NEW p \in Process, Commit(p)
  PROVE  IInv'
<1>0. TypeOK /\ Close(p)
  BY DEF IInv, Commit
<1>1. TypeOK' /\ Unborn' /\ Leased' /\ RefsAlive' /\ ShownTrue' /\ Repaired'
  BY CommitDoes, CommitRows, CommitRepairs
<1>2. Good(p)'
  BY <1>0, <1>1, CloseDoes, IdleIsGood
<1>3. \A q \in Process \ {p} : Bystander(q)
  BY CommitSeenBy
<1>4. New(p)' = {}
  BY <1>0, CloseDoes, IdleIs DEF New, Wrote
<1> QED
  BY <1>1, <1>2, <1>3, <1>4, StepOf

---------------------------------------------------------------------------
(* a transaction begins                                                    *)

RowsWell(rows) == DOMAIN rows \subseteq Tasks /\ \A t \in DOMAIN rows : rows[t] \in RowStates

\* s is what is left of the operations of r, whose first has perhaps begun
Follows(s, r) ==
  \A i \in 1 .. Len(s) : \E j \in 1 .. Len(r) :
    /\ s[i].does = r[j].does /\ s[i].task = r[j].task
    /\ j = Len(r) => i = Len(s)

LEMMA PlannedFollows ==
  ASSUME NEW p, NEW ops \in Seq(Ops), NEW s \in Seq(Ops), tx'[p].ops = s, Follows(s, ops),
         \A i \in 1 .. Len(ops) : Meant(p, ops[i])' /\
                                  (ops[i].does \in {"done", "retry"} => i = Len(ops))
  PROVE  Planned(p)'
<1> SUFFICES ASSUME NEW i \in 1 .. Len(s)
             PROVE  Meant(p, s[i])' /\ (s[i].does \in {"done", "retry"} => i = Len(s))
  BY DEF Planned
<1>1. PICK j \in 1 .. Len(ops) : /\ s[i].does = ops[j].does /\ s[i].task = ops[j].task
                                 /\ j = Len(ops) => i = Len(s)
  BY DEF Follows
<1>2. Meant(p, ops[j])' /\ (ops[j].does \in {"done", "retry"} => j = Len(ops))
  OBVIOUS
<1> QED
  BY <1>1, <1>2 DEF Meant

LEMMA OpenDoes ==
  ASSUME TypeOK, NEW p \in Process, NEW ops \in Seq(Ops), ops # <<>>, NEW rows, RowsWell(rows),
         NEW then \in Claims, Open(p, ops, rows, then)
  PROVE  LET s == tx'[p]
             op == Head(ops)
             at == Touches(refs, op)
         IN  /\ tx' = [q \in Process |-> tx'[q]] /\ \A q \in Process : IsTransaction(tx'[q])
             /\ \A q \in Process \ {p} : tx'[q] = tx[q]
             /\ s.open /\ s.add = {} /\ s.del = {} /\ DOMAIN s.show = {}
             /\ s.rows = rows /\ s.then = then
             /\ \/ op.does \in {"done", "retry"} /\ s.ops = ops /\ s.step = "next"
                \/ op.does \notin {"done", "retry"} /\ at = {} /\ s.ops = Tail(ops) /\ s.step = "next"
                \/ /\ op.does \notin {"done", "retry"}
                   /\ at # {} /\ s.ops # <<>> /\ Len(s.ops) = Len(ops) /\ s.todo = at
                   /\ Head(s.ops).does = op.does /\ Head(s.ops).task = op.task
                   /\ Head(s.ops).at = at /\ s.ops[1] = Head(s.ops)
                   /\ \A i \in 2 .. Len(s.ops) : s.ops[i] = ops[i]
                   /\ s.step = IF op.does = "attach" THEN "gates" ELSE "locks"
<1> DEFINE r == [Idle EXCEPT !.open = TRUE, !.ops = ops, !.rows = rows, !.then = then]
           s == IF Head(ops).does \in {"done", "retry"} THEN r ELSE Started(r, refs)
<1>1. tx' = [tx EXCEPT ![p] = s]
  BY DEF Open
<1>2. /\ r.open /\ r.ops = ops /\ r.step = "next" /\ r.add = {} /\ r.del = {}
      /\ DOMAIN r.show = {} /\ r.rows = rows /\ r.then = then
  BY DEF Idle
<1>3. IsTransaction(r)
  BY IdleIs DEF IsTransaction, RowsWell
<1>4. refs \in SUBSET Refs
  BY DEF TypeOK
<1> HIDE DEF r
<1>5. CASE Head(ops).does \in {"done", "retry"}
  <2>1. s = r
    BY <1>5
  <2> QED
    BY <1>1, <1>2, <1>3, <1>5, <2>1, Moves, MovesTyped
<1>6. CASE Head(ops).does \notin {"done", "retry"}
  <2>1. s = Started(r, refs)
    BY <1>6
  <2> HIDE DEF s
  <2>2. tx'[p] = Started(r, refs) /\ \A q \in Process \ {p} : tx'[q] = tx[q]
    BY <1>1, <2>1, Moves
  <2>3. IsTransaction(s)
    BY <1>2, <1>3, <1>4, <2>1, StartedIs
  <2>4. tx' = [q \in Process |-> tx'[q]] /\ \A q \in Process : IsTransaction(tx'[q])
    BY <1>1, <2>3, MovesTyped
  <2> DEFINE op == Head(ops)
             at == Touches(refs, op)
  <2>5. /\ s.open = r.open /\ s.add = r.add /\ s.del = r.del
        /\ s.show = r.show /\ s.rows = r.rows /\ s.then = r.then
        /\ \/ at = {} /\ s.ops = Tail(ops) /\ s.step = "next"
           \/ /\ at # {} /\ s.ops # <<>> /\ Len(s.ops) = Len(ops) /\ s.todo = at
              /\ Head(s.ops).does = op.does /\ Head(s.ops).task = op.task
              /\ Head(s.ops).at = at /\ s.ops[1] = Head(s.ops)
              /\ \A i \in 2 .. Len(s.ops) : s.ops[i] = ops[i]
              /\ s.step = IF op.does = "attach" THEN "gates" ELSE "locks"
    <3>1. r.ops = ops /\ r.ops # <<>> /\ r.step = "next"
      BY <1>2
    <3>2. LET n == Started(r, refs)
          IN  /\ n.open = r.open /\ n.add = r.add /\ n.del = r.del
              /\ n.show = r.show /\ n.rows = r.rows /\ n.then = r.then
              /\ \/ /\ Touches(refs, Head(r.ops)) = {} /\ n.ops = Tail(r.ops)
                    /\ n.step = "next"
                 \/ /\ Touches(refs, Head(r.ops)) # {} /\ n.ops # <<>>
                    /\ Len(n.ops) = Len(r.ops) /\ n.todo = Touches(refs, Head(r.ops))
                    /\ Head(n.ops).does = Head(r.ops).does
                    /\ Head(n.ops).task = Head(r.ops).task
                    /\ Head(n.ops).at = Touches(refs, Head(r.ops)) /\ n.ops[1] = Head(n.ops)
                    /\ \A i \in 2 .. Len(n.ops) : n.ops[i] = r.ops[i]
                    /\ n.step = IF Head(r.ops).does = "attach" THEN "gates" ELSE "locks"
      BY <1>3, <1>4, <3>1, StartedIs
    <3> QED
      BY <2>1, <3>1, <3>2
  <2> QED
    BY <1>2, <1>6, <2>1, <2>2, <2>4, <2>5
<1> QED
  BY <1>5, <1>6

LEMMA OpenFollows ==
  ASSUME TypeOK, NEW p \in Process, NEW ops \in Seq(Ops), ops # <<>>, NEW rows, RowsWell(rows),
         NEW then \in Claims, Open(p, ops, rows, then)
  PROVE  Follows(tx'[p].ops, ops) /\ tx'[p].ops \in Seq(Ops)
<1> DEFINE s == tx'[p].ops
<1>1. s \in Seq(Ops)
  BY OpenDoes, Fields
<1>2. \/ s = ops \/ s = Tail(ops)
      \/ /\ Len(s) = Len(ops) /\ s[1].does = Head(ops).does /\ s[1].task = Head(ops).task
         /\ \A i \in 2 .. Len(s) : s[i] = ops[i]
  BY OpenDoes
<1> HIDE DEF s
<1>0. Len(s) \in Nat /\ Len(ops) \in Nat
  BY <1>1
<1>3. ASSUME s = ops PROVE Follows(s, ops)
  <2> SUFFICES ASSUME NEW i \in 1 .. Len(s)
               PROVE  \E j \in 1 .. Len(ops) : /\ s[i].does = ops[j].does
                                               /\ s[i].task = ops[j].task
                                               /\ j = Len(ops) => i = Len(s)
    BY DEF Follows
  <2>1. i \in 1 .. Len(ops)
    BY <1>3
  <2> QED
    BY <1>3, <2>1
<1>4. ASSUME s = Tail(ops) PROVE Follows(s, ops)
  <2>1. Len(s) = Len(ops) - 1 /\ \A i \in 1 .. Len(s) : s[i] = ops[i + 1]
    BY <1>4
  <2> SUFFICES ASSUME NEW i \in 1 .. Len(s)
               PROVE  \E j \in 1 .. Len(ops) : /\ s[i].does = ops[j].does
                                               /\ s[i].task = ops[j].task
                                               /\ j = Len(ops) => i = Len(s)
    BY DEF Follows
  <2>2. i + 1 \in 1 .. Len(ops) /\ (i + 1 = Len(ops) => i = Len(s)) /\ s[i] = ops[i + 1]
    BY <1>0, <2>1
  <2> QED
    BY <2>2
<1>5. ASSUME Len(s) = Len(ops), s[1].does = Head(ops).does, s[1].task = Head(ops).task,
             \A i \in 2 .. Len(s) : s[i] = ops[i]
      PROVE  Follows(s, ops)
  <2>1. \A i \in 1 .. Len(s) : s[i].does = ops[i].does /\ s[i].task = ops[i].task
    BY <1>0, <1>5
  <2> SUFFICES ASSUME NEW i \in 1 .. Len(s)
               PROVE  \E j \in 1 .. Len(ops) : /\ s[i].does = ops[j].does
                                               /\ s[i].task = ops[j].task
                                               /\ j = Len(ops) => i = Len(s)
    BY DEF Follows
  <2>2. i \in 1 .. Len(ops) /\ (i = Len(ops) => i = Len(s))
    BY <1>5
  <2> QED
    BY <2>1, <2>2
<1> QED
  BY <1>1, <1>2, <1>3, <1>4, <1>5 DEF s

\* A transaction that has begun has seen what it needs.
LEMMA OpenSees ==
  ASSUME IInv, TypeOK', RefsAlive', refs' = refs, late \subseteq late',
         NEW p \in Process, NEW ops \in Seq(Ops), ops # <<>>, NEW rows, RowsWell(rows),
         NEW then \in Claims, Open(p, ops, rows, then),
         \A r \in refs : r.task \in DOMAIN rows /\ r.task \notin late' =>
           rows[r.task].status \notin {"none", "gone"}
  PROVE  Begun(p)' /\ Fenced(p)' /\ Fresh(p)' /\ Fetched(p)' /\ Summed(p)'
<1> DEFINE s == tx'[p]
           op == Head(ops)
           at == Touches(refs, op)
<1>0. TypeOK /\ refs \in SUBSET Refs /\ op \in Ops
  BY DEF IInv, TypeOK
<1>1. /\ s.open /\ s.add = {} /\ s.del = {} /\ DOMAIN s.show = {} /\ s.rows = rows
      /\ \/ op.does \in {"done", "retry"} /\ s.ops = ops /\ s.step = "next"
         \/ op.does \notin {"done", "retry"} /\ at = {} /\ s.ops = Tail(ops) /\ s.step = "next"
         \/ /\ op.does \notin {"done", "retry"}
            /\ at # {} /\ s.ops # <<>> /\ Len(s.ops) = Len(ops) /\ s.todo = at
            /\ Head(s.ops).does = op.does /\ Head(s.ops).task = op.task
            /\ Head(s.ops).at = at /\ s.ops[1] = Head(s.ops)
            /\ \A i \in 2 .. Len(s.ops) : s.ops[i] = ops[i]
            /\ s.step = IF op.does = "attach" THEN "gates" ELSE "locks"
  BY <1>0, OpenDoes
<1> HIDE DEF s, at
<1>2. Begun(p)'
  BY <1>1 DEF Begun, Now, s
<1>3. View(p)' = refs
  BY <1>1 DEF View, s
<1>4. Fenced(p)' /\ Summed(p)'
  BY <1>1 DEF Fenced, Summed, s
<1>5. Fresh(p)'
  <2> SUFFICES ASSUME NEW r \in refs, r.task \notin late'
               PROVE  Rows(p)'[r.task].status \notin {"none", "gone"}
    BY <1>3 DEF Fresh
  <2>1. r.task \in Tasks
    BY <1>0, RefIs
  <2>2. Wrote(p)' = DOMAIN rows
    BY <1>1 DEF Wrote, s
  <2>3. r.task \in DOMAIN rows => Rows(p)'[r.task] = rows[r.task]
    BY <1>1, <2>1, <2>2, RowsAtNext DEF s
  <2>4. r.task \notin DOMAIN rows => Rows(p)'[r.task] = row'[r.task]
    BY <2>1, <2>2, RowsAtNext
  <2> QED
    BY <2>3, <2>4 DEF RefsAlive, Alive
<1>6. Fetched(p)'
  <2> SUFFICES ASSUME s.step = "locks", Now(p)'.does \in {"run", "done", "retry"},
                      NEW r \in Taken(p, Now(p))'
               PROVE  r.table \in Now(p)'.at
    BY DEF Fetched, s
  <2>1. Now(p)'.does = op.does /\ Now(p)'.task = op.task /\ Now(p)'.at = at
    BY <1>1 DEF Now, s
  <2>2. r \in refs /\ r.task = op.task /\ ~r.processing /\ op.does = "run"
    BY <1>1, <1>3, <2>1 DEF Taken
  <2> QED
    BY <1>0, <2>1, <2>2, SeenIs DEF at
<1> QED
  BY <1>2, <1>4, <1>5, <1>6

LEMMA OpenKeeps ==
  ASSUME IInv, TypeOK', NEW p \in Process, NEW ops \in Seq(Ops), ops # <<>>,
         NEW rows, RowsWell(rows), NEW then \in Claims, Open(p, ops, rows, then),
         UNCHANGED <<row, refs, shown, lock, hand>>, late \subseteq late',
         \A q \in Process \ {p}, t \in Tasks : rowLock'[t] = q <=> rowLock[t] = q,
         \A t \in Tasks : t \in late' \ late => row[t].status # "none",
         \A t \in Tasks : rowLock'[t] # NoOne /\ rowLock[t] = NoOne => row[t].status # "none",
         \A r \in refs : r.task \in DOMAIN rows /\ r.task \notin late' =>
           rows[r.task].status \notin {"none", "gone"},
         \A i \in 1 .. Len(ops) : Meant(p, ops[i])' /\
                                  (ops[i].does \in {"done", "retry"} => i = Len(ops)),
         RowsLocked(p)', Written(p)', Handed(p)', Reads(p)', Repaired',
         \A q \in Process \ {p} : New(p)' \cap New(q) = {}
  PROVE  IInv'
<1>0. TypeOK
  BY DEF IInv
<1>1. Unborn' /\ Leased' /\ RefsAlive' /\ ShownTrue'
  BY NobodyCommits
<1>2. Begun(p)' /\ Fenced(p)' /\ Fresh(p)' /\ Fetched(p)' /\ Summed(p)'
  BY <1>1, OpenSees
<1>3. Planned(p)'
  <2>1. Follows(tx'[p].ops, ops) /\ tx'[p].ops \in Seq(Ops)
    BY <1>0, OpenFollows
  <2> QED
    BY <2>1, PlannedFollows
<1>4. Good(p)'
  BY <1>2, <1>3 DEF Good
<1>5. \A q \in Process \ {p} : tx'[q] = tx[q]
  BY <1>0, OpenDoes
<1>6. \A q \in Process \ {p} : Bystander(q)
  BY <1>5, StandsBy
<1> QED
  BY <1>1, <1>4, <1>6, StepOf

LEMMA ClaimIs ==
  ASSUME NEW c \in Claims
  PROVE  /\ c.task \in Tasks \cup {0} /\ c.planned \in BOOLEAN
         /\ c # Free => c.task \in Tasks /\ [c EXCEPT !.planned = TRUE] \in Claims
                        /\ [c EXCEPT !.planned = TRUE].task = c.task
<1>1. CASE c = Free
  BY <1>1 DEF Free
<1>2. CASE c \in [task : Tasks, planned : BOOLEAN]
  <2> DEFINE d == [c EXCEPT !.planned = TRUE]
  <2>1. d \in [task : Tasks, planned : BOOLEAN] /\ d.task = c.task
    BY <1>2
  <2>2. d \in Claims /\ d.task = c.task
    BY <2>1 DEF Claims
  <2>3. c.task \in Tasks /\ c.planned \in BOOLEAN
    BY <1>2
  <2> QED
    BY <2>2, <2>3
<1> QED
  BY <1>1, <1>2 DEF Claims

LEMMA OpIs ==
  ASSUME NEW does \in {"attach", "run", "done", "retry", "heal"}, NEW t \in Tasks \cup {0},
         NEW at \in SUBSET Tables
  PROVE  LET op == Op(does, t, at)
         IN  op \in Ops /\ op.does = does /\ op.task = t /\ op.at = at
BY DEF Op, Ops

LEMMA NewRows ==
  /\ Free \in Claims /\ Free.task = 0 /\ 0 \notin Tasks /\ RowsWell(<<>>)
  /\ \A at : Pending(at) \in RowStates /\ Pending(at).status = "pending" /\ Pending(at).by = NoOne
  /\ \A S \in SUBSET Tasks : \A at : RowsWell([t \in S |-> Pending(at)])
<1>1. Free \in Claims /\ Free.task = 0 /\ 0 \notin Tasks
  BY ActivityAssumption DEF Free, Claims
<1>2. \A at : Pending(at) \in RowStates /\ Pending(at).status = "pending" /\ Pending(at).by = NoOne
  BY DEF Pending, Empty, RowStates
<1>3. RowsWell(<<>>)
  BY DEF RowsWell
<1>4. ASSUME NEW S \in SUBSET Tasks, NEW at
      PROVE  RowsWell([t \in S |-> Pending(at)])
  BY <1>2 DEF RowsWell
<1> QED
  BY <1>1, <1>2, <1>3, <1>4

\* Who begins a transaction has no row of its own yet.
LEMMA NothingLocked ==
  ASSUME IInv, NEW p \in Process, ~tx[p].open, NEW t \in Tasks
  PROVE  rowLock[t] # p
BY DEF IInv, Good, RowsLocked

LEMMA UnusedIs ==
  ASSUME TypeOK, NEW t \in Unused
  PROVE  /\ t \in Tasks /\ row[t].status = "none"
         /\ \A q \in Process : t \notin Wrote(q) /\ t \notin New(q)
BY DEF Unused, Wrote, New

LEMMA UserBegins ==
  ASSUME IInv, TypeOK', NEW w \in Writers, NEW ops \in Seq(Ops), ops # <<>>,
         NEW S \in SUBSET Unused, NEW at, NEW rows, rows = [t \in S |-> Pending(at)],
         NEW then \in Claims, then = Free, Open(w, ops, rows, then),
         UNCHANGED <<row, refs, shown, rowLock, lock, hand, late, stirred>>,
         \A i \in 1 .. Len(ops) : ops[i].does = "attach" /\ ops[i].task \in S
  PROVE  IInv'
<1>0. TypeOK /\ w \in Process /\ w # Reader /\ ~tx[w].open /\ S \subseteq Tasks
  BY ProcessesApart, ActivityAssumption DEF IInv, Open, Unused
<1>1. RowsWell(rows) /\ \A t \in S : rows[t] = Pending(at)
  BY <1>0, NewRows
<1>2. tx'[w].rows = rows /\ tx'[w].then = then /\ \A q \in Process \ {w} : tx'[q] = tx[q]
  BY <1>0, <1>1, OpenDoes
<1>3. Wrote(w)' = S /\ New(w)' = S
  BY <1>2, UnusedIs, <1>0 DEF Wrote, New
<1>4. \A t \in S : Rows(w)'[t] = Pending(at)
  BY <1>0, <1>1, <1>2, <1>3, RowsAtNext
<1>5. \A i \in 1 .. Len(ops) : Meant(w, ops[i])' /\
                              (ops[i].does \in {"done", "retry"} => i = Len(ops))
  BY <1>0, <1>3, <1>4, NewRows DEF Meant, Owns
<1>6. RowsLocked(w)'
  BY <1>0, NothingLocked DEF RowsLocked
<1>7. Written(w)'
  BY <1>1, <1>2, <1>3, NewRows DEF Written
<1>8. Handed(w)' /\ Reads(w)'
  BY <1>0, <1>2, NewRows DEF Handed, Reads
<1>9. Repaired'
  BY <1>0, <1>2, StillRepaired, ProcessesApart
<1>10. \A q \in Process \ {w} : New(w)' \cap New(q) = {}
  BY <1>0, <1>3, UnusedIs
<1>11. \A r \in refs : r.task \in DOMAIN rows /\ r.task \notin late' =>
         rows[r.task].status \notin {"none", "gone"}
  BY <1>1, NewRows
<1> QED
  BY <1>0, <1>1, <1>5, <1>6, <1>7, <1>8, <1>9, <1>10, <1>11, OpenKeeps

\* The rows of an enqueue follow each other.
LEMMA EnqueueNewBegins ==
  ASSUME Parameters, TypeOK, NEW w \in Writers, NEW n \in 1 .. PerTransaction,
         NEW at \in Plans \cup {{}}, EnqueueNew(w, n, at)
  PROVE  \E first \in Tasks :
           /\ first .. first + n - 1 \subseteq Unused
           /\ Open(w, [i \in 1 .. n |-> Op("attach", first + i - 1, at)],
                   [t \in first .. first + n - 1 |-> Pending(at)], Free)
<1> DEFINE runs == {i \in Unused : i .. i + n - 1 \subseteq Unused}
           first == Least(runs)
<1>1. runs \in SUBSET Nat /\ runs # {} /\ runs \subseteq Tasks
  BY ActivityAssumption DEF Unused, EnqueueNew
<1>2. first \in runs
  BY <1>1, LeastOf
<1> QED
  BY <1>1, <1>2 DEF EnqueueNew

LEMMA EnqueueNewKeeps ==
  ASSUME Parameters, IInv, NEW w \in Writers, NEW n \in 1 .. PerTransaction,
         NEW at \in Plans \cup {{}}, EnqueueNew(w, n, at)
  PROVE  IInv'
<1>0. TypeOK /\ w \in Process /\ at \in SUBSET Tables /\ n \in Nat /\ n >= 1
  BY ProcessesApart DEF IInv, Parameters
<1>1. PICK first \in Tasks :
        /\ first .. first + n - 1 \subseteq Unused
        /\ Open(w, [i \in 1 .. n |-> Op("attach", first + i - 1, at)],
                [t \in first .. first + n - 1 |-> Pending(at)], Free)
  BY <1>0, EnqueueNewBegins
<1> DEFINE S == first .. first + n - 1
           ops == [i \in 1 .. n |-> Op("attach", first + i - 1, at)]
           rows == [t \in S |-> Pending(at)]
<1>2. first \in Nat /\ S \subseteq Tasks
  BY <1>1, ActivityAssumption DEF Unused
<1>3. \A i \in 1 .. n : first + i - 1 \in S
  BY <1>0, <1>2
<1>4. \A i \in 1 .. n : /\ Op("attach", first + i - 1, at) \in Ops
                        /\ Op("attach", first + i - 1, at).does = "attach"
                        /\ Op("attach", first + i - 1, at).task = first + i - 1
  BY <1>0, <1>2, <1>3, OpIs
<1>5. ops \in Seq(Ops) /\ Len(ops) = n /\ ops # <<>>
  <2>1. ops \in [1 .. n -> Ops]
    BY <1>4
  <2> QED
    BY <1>0, <2>1
<1>6. \A i \in 1 .. Len(ops) : ops[i].does = "attach" /\ ops[i].task \in S
  BY <1>3, <1>4, <1>5
<1>7. UNCHANGED <<row, refs, shown, rowLock, lock, gate, hand, late, stirred, merges, faults>>
  BY DEF EnqueueNew
<1> HIDE DEF S, ops
<1>8. RowsWell(rows) /\ Open(w, ops, rows, Free)
  BY <1>1, <1>2, NewRows DEF S, ops
<1>9. TypeOK'
  <2>1. tx' = [q \in Process |-> tx'[q]] /\ \A q \in Process : IsTransaction(tx'[q])
    BY <1>0, <1>5, <1>8, NewRows, OpenDoes
  <2> QED
    BY <1>0, <1>7, <2>1 DEF TypeOK
<1>10. S \in SUBSET Unused
  BY <1>1 DEF S
<1> QED
  BY <1>5, <1>6, <1>7, <1>8, <1>9, <1>10, NewRows, UserBegins

LEMMA EnqueueMergeKeeps ==
  ASSUME Parameters, IInv, NEW w \in Writers, NEW t \in Tasks, NEW at \in Plans,
         EnqueueMerge(w, t, at)
  PROVE  IInv'
<1> DEFINE op == Op("attach", t, at)
           ops == <<op>>
           rows == <<>>
<1>0. /\ TypeOK /\ Leased /\ w \in Process /\ w # Reader /\ ~tx[w].open /\ at \in SUBSET Tables
      /\ Open(w, ops, rows, Free) /\ row[t].status = "pending" /\ rowLock[t] = NoOne
  BY ProcessesApart, ActivityAssumption DEF IInv, EnqueueMerge, Open, Parameters
<1>1. /\ rowLock' = [rowLock EXCEPT ![t] = w] /\ merges' = merges + 1
      /\ UNCHANGED <<row, refs, shown, lock, gate, hand, late, stirred, faults>>
  BY DEF EnqueueMerge
<1>2. op \in Ops /\ op.does = "attach" /\ op.task = t
  BY <1>0, OpIs
<1> HIDE DEF op
<1>3. ops \in Seq(Ops) /\ ops # <<>> /\ Len(ops) = 1 /\ ops[1] = op
  BY <1>2
<1> HIDE DEF ops
<1>20. RowsWell(rows) /\ DOMAIN rows = {}
  BY NewRows
<1> HIDE DEF rows
<1>4. /\ tx' = [q \in Process |-> tx'[q]] /\ \A q \in Process : IsTransaction(tx'[q])
      /\ \A q \in Process \ {w} : tx'[q] = tx[q]
      /\ tx'[w].rows = rows /\ tx'[w].then = Free /\ tx'[w].open
  BY <1>0, <1>3, <1>20, NewRows, OpenDoes
<1>5. /\ rowLock' \in [Tasks -> Process \cup {NoOne}] /\ rowLock'[t] = w
      /\ \A s \in Tasks : s # t => rowLock'[s] = rowLock[s]
  BY <1>0, <1>1 DEF TypeOK
<1>6. TypeOK'
  <2>1. merges' \in Nat
    BY <1>0, <1>1 DEF TypeOK
  <2> QED
    BY <1>0, <1>1, <1>4, <1>5, <2>1 DEF TypeOK
<1>7. Wrote(w)' = {} /\ New(w)' = {}
  BY <1>4, <1>20 DEF Wrote, New
<1>8. Rows(w)'[t] = row[t]
  BY <1>1, <1>6, <1>7, <1>0, RowsAtNext
<1>9. Meant(w, op)'
  BY <1>0, <1>1, <1>2, <1>5, <1>8 DEF Meant, Owns
<1>10. RowsLocked(w)'
  BY <1>0, <1>1, <1>4, <1>5, NothingLocked DEF RowsLocked, Leased
<1>11. Written(w)' /\ Handed(w)' /\ Reads(w)'
  BY <1>0, <1>4, <1>7, NewRows DEF Written, Handed, Reads
<1>12. Repaired'
  BY <1>0, <1>1, <1>4, <1>6, StillRepaired, ProcessesApart
<1>13. \A i \in 1 .. Len(ops) : Meant(w, ops[i])' /\
                               (ops[i].does \in {"done", "retry"} => i = Len(ops))
  BY <1>2, <1>3, <1>9
<1>14. UNCHANGED <<row, refs, shown, lock, hand>> /\ late \subseteq late'
  BY <1>1
<1>15. \A q \in Process \ {w}, s \in Tasks : rowLock'[s] = q <=> rowLock[s] = q
  BY <1>0, <1>5, ProcessesApart
<1>16. \A s \in Tasks : s \in late' \ late => row[s].status # "none"
  BY <1>1
<1>17. \A s \in Tasks : rowLock'[s] # NoOne /\ rowLock[s] = NoOne => row[s].status # "none"
  BY <1>0, <1>5
<1>18. \A r \in refs : r.task \in DOMAIN rows /\ r.task \notin late' =>
         rows[r.task].status \notin {"none", "gone"}
  BY <1>20
<1>19. \A q \in Process \ {w} : New(w)' \cap New(q) = {}
  BY <1>7
<1> QED
  BY <1>0, <1>3, <1>6, <1>10, <1>11, <1>12, <1>13, <1>14, <1>15, <1>16, <1>17, <1>18, <1>19,
     <1>20, NewRows, OpenKeeps

LEMMA ClaimKeeps ==
  ASSUME IInv, NEW w \in Workers, NEW t \in Tasks, Claim(w, t)
  PROVE  IInv'
<1> DEFINE op == Op("run", t, {})
           ops == <<op>>
           claimed == [row[t] EXCEPT !.status = "processing", !.by = w, !.expired = FALSE]
           rows == [r \in {t} |-> claimed]
           then == [task |-> t, planned |-> row[t].planned]
<1>0. /\ TypeOK /\ Leased /\ w \in Process /\ w # Reader /\ ~tx[w].open
      /\ Open(w, ops, rows, then) /\ row[t].status \in {"pending", "processing"}
      /\ rowLock[t] = NoOne
  BY ProcessesApart, ActivityAssumption DEF IInv, Claim, Open, Claimable
<1>1. /\ rowLock' = [rowLock EXCEPT ![t] = w]
      /\ late' = IF row[t].by # NoOne /\ hand[row[t].by].task = t THEN late \cup {t} ELSE late
      /\ UNCHANGED <<row, refs, shown, lock, gate, hand, stirred, merges, faults>>
  BY DEF Claim
<1>2. op \in Ops /\ op.does = "run" /\ op.task = t
  BY OpIs
<1>3. claimed \in RowStates /\ claimed.status = "processing" /\ claimed.by = w
  BY <1>0 DEF TypeOK, RowStates
<1>4. then \in Claims /\ then.task = t
  BY <1>0 DEF Claims, TypeOK, RowStates
<1> HIDE DEF op, claimed, then
<1>5. ops \in Seq(Ops) /\ ops # <<>> /\ Len(ops) = 1 /\ ops[1] = op
  BY <1>2
<1>6. RowsWell(rows) /\ DOMAIN rows = {t} /\ rows[t] = claimed
  BY <1>3 DEF RowsWell
<1> HIDE DEF ops, rows
<1>7. /\ tx' = [q \in Process |-> tx'[q]] /\ \A q \in Process : IsTransaction(tx'[q])
      /\ \A q \in Process \ {w} : tx'[q] = tx[q]
      /\ tx'[w].rows = rows /\ tx'[w].then = then /\ tx'[w].open
  BY <1>0, <1>4, <1>5, <1>6, OpenDoes
<1>8. /\ rowLock' \in [Tasks -> Process \cup {NoOne}] /\ rowLock'[t] = w
      /\ \A s \in Tasks : s # t => rowLock'[s] = rowLock[s]
  BY <1>0, <1>1 DEF TypeOK
<1>9. late \subseteq late' /\ late' \subseteq late \cup {t}
  BY <1>1
<1>10. TypeOK'
  BY <1>0, <1>1, <1>7, <1>8, <1>9 DEF TypeOK
<1>11. Wrote(w)' = {t} /\ New(w)' = {}
  BY <1>0, <1>1, <1>6, <1>7 DEF Wrote, New
<1>12. Concerns(w)' = {hand[w].task, t}
  BY <1>1, <1>4, <1>7 DEF Concerns
<1>13. Meant(w, op)'
  BY <1>2, <1>8, <1>12 DEF Meant, Owns
<1>14. RowsLocked(w)'
  <2>1. ASSUME t \notin late', NEW v \in Workers, hand[v].task = t
        PROVE  v = w
    BY <1>0, <1>1, <2>1, ProcessesApart DEF Leased
  <2> QED
    BY <1>0, <1>1, <1>7, <1>8, <2>1, NothingLocked DEF RowsLocked
<1>15. Written(w)' /\ Handed(w)' /\ Reads(w)'
  BY <1>0, <1>3, <1>4, <1>6, <1>7, <1>8, <1>11, <1>12 DEF Written, Handed, Reads
<1>16. Repaired'
  BY <1>0, <1>1, <1>7, <1>10, StillRepaired, ProcessesApart
<1>17. \A i \in 1 .. Len(ops) : Meant(w, ops[i])' /\
                               (ops[i].does \in {"done", "retry"} => i = Len(ops))
  BY <1>2, <1>5, <1>13
<1>18. \A r \in refs : r.task \in DOMAIN rows /\ r.task \notin late' =>
         rows[r.task].status \notin {"none", "gone"}
  BY <1>3, <1>6
<1>19. \A s \in Tasks : s \in late' \ late => row[s].status # "none"
  BY <1>0, <1>9
<1>21. \A s \in Tasks : rowLock'[s] # NoOne /\ rowLock[s] = NoOne => row[s].status # "none"
  BY <1>0, <1>8
<1>22. \A q \in Process \ {w} : New(w)' \cap New(q) = {}
  BY <1>11
<1>23. UNCHANGED <<row, refs, shown, lock, hand>>
  BY <1>1
<1>20. \A q \in Process \ {w}, s \in Tasks : rowLock'[s] = q <=> rowLock[s] = q
  BY <1>0, <1>8, ProcessesApart
<1> QED
  BY <1>0, <1>4, <1>5, <1>6, <1>9, <1>10, <1>14, <1>15, <1>16, <1>17, <1>18, <1>19, <1>20,
     <1>21, <1>22, <1>23, OpenKeeps

\* A worker begins something about the task in its hand, and perhaps a next stage.
LEMMA WorkerBegins ==
  ASSUME IInv, TypeOK', NEW w \in Workers, NEW ops \in Seq(Ops), ops # <<>>,
         NEW S \in SUBSET Unused, NEW rows, RowsWell(rows), DOMAIN rows = S,
         \A t \in S : rows[t].status = "pending" /\ rows[t].by = NoOne,
         NEW then \in Claims, then.task \in {0, hand[w].task}, Open(w, ops, rows, then),
         UNCHANGED <<row, refs, shown, rowLock, lock, hand, late, stirred>>, hand[w].task \in Tasks,
         \A i \in 1 .. Len(ops) :
           \/ ops[i].does = "attach" /\ ops[i].task \in S
           \/ /\ ops[i].does # "heal" /\ ops[i].task = hand[w].task
              /\ ops[i].does \in {"done", "retry"} => then.task = 0 /\ i = Len(ops)
  PROVE  IInv'
<1> DEFINE mine == hand[w].task
<1>0. /\ TypeOK /\ Leased /\ w \in Process /\ w # Reader /\ ~tx[w].open /\ S \subseteq Tasks
      /\ Unborn
  BY ProcessesApart, ActivityAssumption DEF IInv, Open, Unused
<1>2. /\ tx'[w].rows = rows /\ tx'[w].then = then /\ tx'[w].open
      /\ \A q \in Process \ {w} : tx'[q] = tx[q]
  BY <1>0, OpenDoes
<1>3. Wrote(w)' = S /\ New(w)' = S
  BY <1>2, <1>0, UnusedIs DEF Wrote, New
<1>4. \A t \in S : Rows(w)'[t] = rows[t]
  BY <1>0, <1>2, <1>3, RowsAtNext
<1>5. mine \notin S
  BY <1>0, UnusedIs DEF Unborn
<1>6. Rows(w)'[mine] = row[mine]
  BY <1>0, <1>3, <1>5, RowsAtNext
<1>7. mine \notin late => row[mine].status = "processing"
  BY <1>0 DEF Leased
<1>8. Concerns(w)' = {mine, then.task}
  BY <1>2 DEF Concerns
<1>9. \A op : op.does = "attach" /\ op.task \in S => Meant(w, op)'
  BY <1>0, <1>3, <1>4 DEF Meant, Owns
<1>10. \A op : /\ op.does # "heal" /\ op.task = mine
               /\ op.does \in {"done", "retry"} => then.task = 0
               => Meant(w, op)'
  BY <1>2, <1>6, <1>7, <1>8 DEF Meant, Owns, Works
<1>11. \A i \in 1 .. Len(ops) : Meant(w, ops[i])' /\
                               (ops[i].does \in {"done", "retry"} => i = Len(ops))
  BY <1>9, <1>10
<1>12. RowsLocked(w)'
  BY <1>0, NothingLocked DEF RowsLocked
<1>13. Written(w)'
  BY <1>2, <1>3 DEF Written
<1>14. Handed(w)' /\ Reads(w)'
  BY <1>0, <1>2, <1>3, <1>5 DEF Handed, Reads
<1>15. Repaired'
  BY <1>0, <1>2, StillRepaired, ProcessesApart
<1>16. \A q \in Process \ {w} : New(w)' \cap New(q) = {}
  BY <1>0, <1>3, UnusedIs
<1>17. \A r \in refs : r.task \in DOMAIN rows /\ r.task \notin late' =>
         rows[r.task].status \notin {"none", "gone"}
  OBVIOUS
<1> QED
  BY <1>0, <1>11, <1>12, <1>13, <1>14, <1>15, <1>16, <1>17, OpenKeeps

LEMMA BeginsTyped ==
  ASSUME TypeOK, NEW p \in Process, NEW ops \in Seq(Ops), ops # <<>>, NEW rows, RowsWell(rows),
         NEW then \in Claims, Open(p, ops, rows, then),
         UNCHANGED <<row, refs, shown, rowLock, lock, gate, hand, late, merges>>,
         stirred' \in BOOLEAN, faults' \in Nat
  PROVE  TypeOK'
<1>1. tx' = [q \in Process |-> tx'[q]] /\ \A q \in Process : IsTransaction(tx'[q])
  BY OpenDoes
<1> QED
  BY <1>1 DEF TypeOK

LEMMA HandIs ==
  ASSUME TypeOK, NEW w \in Workers, hand[w] # Free
  PROVE  /\ w \in Process /\ hand[w] \in Claims /\ hand[w].task \in Tasks
         /\ [hand[w] EXCEPT !.planned = TRUE] \in Claims
         /\ [hand[w] EXCEPT !.planned = TRUE].task = hand[w].task
<1>1. hand[w] \in Claims
  BY DEF TypeOK
<1> QED
  BY <1>1, ClaimIs, ProcessesApart

LEMMA RegisterKeeps ==
  ASSUME Parameters, IInv, NEW w \in Workers, NEW at \in Plans, Register(w, at)
  PROVE  IInv'
<1> DEFINE mine == hand[w].task
           op1 == Op("attach", mine, at)
           op2 == Op("run", mine, {})
           ops == <<op1, op2>>
           rows == <<>>
           then == [hand[w] EXCEPT !.planned = TRUE]
<1>0. TypeOK /\ hand[w] # Free /\ at \in SUBSET Tables /\ Open(w, ops, rows, then)
  BY DEF IInv, Register, Parameters
<1>1. UNCHANGED <<row, refs, shown, rowLock, lock, gate, hand, late, stirred, merges, faults>>
  BY DEF Register
<1>2. w \in Process /\ mine \in Tasks /\ then \in Claims /\ then.task = mine
  BY <1>0, HandIs
<1>3. /\ op1 \in Ops /\ op1.does = "attach" /\ op1.task = mine
      /\ op2 \in Ops /\ op2.does = "run" /\ op2.task = mine
  BY <1>0, <1>2, OpIs
<1> HIDE DEF mine, op1, op2, then
<1>4. ops \in Seq(Ops) /\ ops # <<>> /\ Len(ops) = 2 /\ ops[1] = op1 /\ ops[2] = op2
  BY <1>3
<1>5. \A i \in 1 .. Len(ops) : /\ ops[i].does \in {"attach", "run"} /\ ops[i].task = mine
  BY <1>3, <1>4
<1>6. RowsWell(rows) /\ DOMAIN rows = {}
  BY NewRows
<1> HIDE DEF ops, rows
<1>7. TypeOK'
  BY <1>0, <1>1, <1>2, <1>4, <1>6, BeginsTyped DEF TypeOK
<1>8. \A i \in 1 .. Len(ops) :
           \/ ops[i].does = "attach" /\ ops[i].task \in {}
           \/ /\ ops[i].does # "heal" /\ ops[i].task = hand[w].task
              /\ ops[i].does \in {"done", "retry"} => then.task = 0 /\ i = Len(ops)
  BY <1>5 DEF mine
<1>9. then.task \in {0, hand[w].task} /\ hand[w].task \in Tasks
  BY <1>2 DEF mine
<1>10. {} \in SUBSET Unused
  OBVIOUS
<1> QED
  BY <1>0, <1>1, <1>2, <1>4, <1>6, <1>7, <1>8, <1>9, <1>10, WorkerBegins

\* markDone, or giving a task back, is all there is to do
LEMMA SettlingKeeps ==
  ASSUME IInv, NEW w \in Workers, hand[w] # Free, NEW does \in {"done", "retry"},
         Open(w, <<Op(does, hand[w].task, {})>>, <<>>, Free), faults' \in Nat,
         UNCHANGED <<row, refs, shown, rowLock, lock, gate, hand, late, stirred, merges>>
  PROVE  IInv'
<1> DEFINE mine == hand[w].task
           op == Op(does, mine, {})
           ops == <<op>>
           rows == <<>>
<1>0. TypeOK /\ Open(w, ops, rows, Free)
  BY DEF IInv
<1>2. w \in Process /\ mine \in Tasks
  BY <1>0, HandIs
<1>3. op \in Ops /\ op.does = does /\ op.task = mine
  BY <1>0, <1>2, OpIs
<1> HIDE DEF mine, op
<1>4. ops \in Seq(Ops) /\ ops # <<>> /\ Len(ops) = 1 /\ ops[1] = op
  BY <1>3
<1>6. RowsWell(rows) /\ DOMAIN rows = {}
  BY NewRows
<1> HIDE DEF ops, rows
<1>7. TypeOK'
  BY <1>0, <1>2, <1>4, <1>6, NewRows, BeginsTyped DEF TypeOK
<1>8. \A i \in 1 .. Len(ops) :
           \/ ops[i].does = "attach" /\ ops[i].task \in {}
           \/ /\ ops[i].does # "heal" /\ ops[i].task = hand[w].task
              /\ ops[i].does \in {"done", "retry"} => Free.task = 0 /\ i = Len(ops)
  BY <1>3, <1>4, NewRows DEF mine
<1>9. Free.task \in {0, hand[w].task} /\ hand[w].task \in Tasks
  BY <1>2, NewRows DEF mine
<1>10. {} \in SUBSET Unused
  OBVIOUS
<1> QED
  BY <1>0, <1>2, <1>4, <1>6, <1>7, <1>8, <1>9, <1>10, NewRows, WorkerBegins

LEMMA FinishKeeps ==
  ASSUME IInv, NEW w \in Workers, Finish(w)
  PROVE  IInv'
<1>1. faults' \in Nat
  BY DEF IInv, TypeOK, Finish
<1> QED
  BY <1>1, SettlingKeeps DEF Finish

LEMMA ReturnKeeps ==
  ASSUME IInv, NEW w \in Workers, Return(w)
  PROVE  IInv'
<1>1. faults' \in Nat
  BY DEF IInv, TypeOK, Return, Fault
<1> QED
  BY <1>1, SettlingKeeps DEF Return

LEMMA FinishStageKeeps ==
  ASSUME Parameters, IInv, NEW w \in Workers, NEW at \in Plans, FinishStage(w, at)
  PROVE  IInv'
<1> DEFINE mine == hand[w].task
           next == Least(Unused)
           op1 == Op("attach", next, at)
           op2 == Op("done", mine, {})
           ops == <<op1, op2>>
           S == {next}
           rows == [r \in S |-> Pending(at)]
<1>0. TypeOK /\ hand[w] # Free /\ at \in SUBSET Tables /\ Open(w, ops, rows, Free)
  BY DEF IInv, FinishStage, Parameters
<1>1. UNCHANGED <<row, refs, shown, rowLock, lock, gate, hand, late, stirred, merges, faults>>
  BY DEF FinishStage
<1>2. w \in Process /\ mine \in Tasks
  BY <1>0, HandIs
<1>3. Unused \in SUBSET Nat /\ Unused # {} /\ Unused \subseteq Tasks
  BY ActivityAssumption DEF Unused, FinishStage
<1>4. next \in Unused /\ next \in Tasks
  BY <1>3, LeastOf
<1> HIDE DEF next
<1>5. /\ op1 \in Ops /\ op1.does = "attach" /\ op1.task = next
      /\ op2 \in Ops /\ op2.does = "done" /\ op2.task = mine
  BY <1>0, <1>2, <1>4, OpIs
<1> HIDE DEF mine, op1, op2
<1>6. ops \in Seq(Ops) /\ ops # <<>> /\ Len(ops) = 2 /\ ops[1] = op1 /\ ops[2] = op2
  BY <1>5
<1>7. RowsWell(rows) /\ DOMAIN rows = S /\ \A t \in S : rows[t] = Pending(at)
  BY <1>4, NewRows
<1> HIDE DEF ops, rows
<1>8. TypeOK'
  BY <1>0, <1>1, <1>2, <1>6, <1>7, NewRows, BeginsTyped DEF TypeOK
<1>9. \A i \in 1 .. Len(ops) :
           \/ ops[i].does = "attach" /\ ops[i].task \in S
           \/ /\ ops[i].does # "heal" /\ ops[i].task = hand[w].task
              /\ ops[i].does \in {"done", "retry"} => Free.task = 0 /\ i = Len(ops)
  BY <1>5, <1>6, NewRows DEF mine
<1>10. Free.task \in {0, hand[w].task} /\ hand[w].task \in Tasks
  BY <1>2, NewRows DEF mine
<1>11. S \in SUBSET Unused
  BY <1>4
<1> HIDE DEF S
<1>12. Free \in Claims
  BY NewRows
<1>13. UNCHANGED <<row, refs, shown, rowLock, lock, hand, late, stirred>>
  BY <1>1
<1>14. /\ RowsWell(rows) /\ DOMAIN rows = S
       /\ \A t \in S : rows[t].status = "pending" /\ rows[t].by = NoOne
  BY <1>7, NewRows
<1> QED
  BY <1>0, <1>6, <1>8, <1>9, <1>10, <1>11, <1>12, <1>13, <1>14, WorkerBegins

LEMMA LookKeeps ==
  ASSUME IInv, NEW x \in Tables, Look(x)
  PROVE  IInv'
<1> DEFINE op == Op("heal", 0, {x})
           ops == <<op>>
           rows == <<>>
<1>0. TypeOK /\ Open(Reader, ops, rows, Free) /\ Reader \in Process /\ ~tx[Reader].open
  BY ProcessesApart DEF IInv, Look, Open
<1>1. /\ UNCHANGED <<row, refs, shown, rowLock, lock, gate, hand, late, merges, faults>>
      /\ stirred' = FALSE
  BY DEF Look
<1>2. op \in Ops /\ op.does = "heal" /\ op.task = 0 /\ op.at = {x}
  BY OpIs
<1> HIDE DEF op
<1>3. ops \in Seq(Ops) /\ ops # <<>> /\ Len(ops) = 1 /\ ops[1] = op /\ Head(ops) = op
  BY <1>2
<1>4. RowsWell(rows) /\ DOMAIN rows = {}
  BY NewRows
<1> HIDE DEF ops, rows
<1>5. TypeOK'
  BY <1>0, <1>1, <1>3, <1>4, NewRows, BeginsTyped DEF TypeOK
<1>6. Touches(refs, Head(ops)) = {x} /\ Head(ops).does = "heal"
  BY <1>2, <1>3 DEF Touches
<1>15. Free \in Claims
  BY NewRows
<1> DEFINE s == tx'[Reader]
<1>14. /\ s.rows = rows /\ s.then = Free /\ s.open /\ s.add = {} /\ s.del = {}
       /\ \/ Head(ops).does \in {"done", "retry"} /\ s.ops = ops /\ s.step = "next"
          \/ /\ Head(ops).does \notin {"done", "retry"} /\ Touches(refs, Head(ops)) = {}
             /\ s.ops = Tail(ops) /\ s.step = "next"
          \/ /\ Head(ops).does \notin {"done", "retry"} /\ Touches(refs, Head(ops)) # {}
             /\ Len(s.ops) = Len(ops) /\ Head(s.ops).does = Head(ops).does
             /\ s.step = IF Head(ops).does = "attach" THEN "gates" ELSE "locks"
  BY <1>0, <1>3, <1>4, <1>15, OpenDoes
<1>7. s.step = "locks" /\ Len(s.ops) = 1 /\ Head(s.ops).does = "heal"
  BY <1>3, <1>6, <1>14
<1> HIDE DEF s
<1>8. Wrote(Reader)' = {} /\ New(Reader)' = {}
  BY <1>4, <1>14 DEF Wrote, New, s
<1>9. \A i \in 1 .. Len(ops) : Meant(Reader, ops[i])' /\
                              (ops[i].does \in {"done", "retry"} => i = Len(ops))
  BY <1>2, <1>3 DEF Meant
<1>10. RowsLocked(Reader)'
  BY <1>0, <1>1, NothingLocked DEF RowsLocked
<1>11. Written(Reader)' /\ Handed(Reader)' /\ Reads(Reader)'
  BY <1>7, <1>8, <1>14, NewRows DEF Written, Handed, Reads, Now, s
<1>12. Repaired'
  BY <1>0, <1>1 DEF Repaired, IInv
<1>13. \A r \in refs : r.task \in DOMAIN rows /\ r.task \notin late' =>
         rows[r.task].status \notin {"none", "gone"}
  BY <1>4
<1> QED
  BY <1>0, <1>1, <1>3, <1>4, <1>5, <1>8, <1>9, <1>10, <1>11, <1>12, <1>13, NewRows, OpenKeeps

---------------------------------------------------------------------------
(* a transaction goes on                                                   *)

LEMMA TailFollows ==
  ASSUME NEW ops \in Seq(Ops), ops # <<>>
  PROVE  Follows(Tail(ops), ops) /\ Tail(ops) \in Seq(Ops)
<1> DEFINE s == Tail(ops)
<1>1. /\ s \in Seq(Ops) /\ Len(s) \in Nat /\ Len(ops) \in Nat /\ Len(s) = Len(ops) - 1
      /\ \A i \in 1 .. Len(s) : s[i] = ops[i + 1]
  OBVIOUS
<1> HIDE DEF s
<1>2. ASSUME NEW i \in 1 .. Len(s)
      PROVE  /\ i + 1 \in 1 .. Len(ops) /\ (i + 1 = Len(ops) => i = Len(s))
             /\ s[i] = ops[i + 1]
  BY <1>1
<1>3. Follows(s, ops)
  BY <1>2 DEF Follows
<1> QED
  BY <1>1, <1>3 DEF s

LEMMA SameFollows ==
  ASSUME NEW ops, NEW s, Len(s) = Len(ops), Len(ops) \in Nat,
         \A i \in 1 .. Len(ops) : s[i].does = ops[i].does /\ s[i].task = ops[i].task
  PROVE  Follows(s, ops)
<1> SUFFICES ASSUME NEW i \in 1 .. Len(s)
             PROVE  \E j \in 1 .. Len(ops) : /\ s[i].does = ops[j].does
                                             /\ s[i].task = ops[j].task
                                             /\ j = Len(ops) => i = Len(s)
  BY DEF Follows
<1> QED
  OBVIOUS

\* A step within a transaction, when what it may do and whose tasks are stays.
LEMMA StillPlanned ==
  ASSUME IInv, TypeOK', NEW p \in Process, Follows(tx'[p].ops, tx[p].ops),
         tx'[p].rows = tx[p].rows, tx'[p].then = tx[p].then,
         UNCHANGED <<row, rowLock, hand, late>>
  PROVE  Planned(p)' /\ Written(p)' /\ New(p)' = New(p) /\ Concerns(p)' = Concerns(p)
         /\ Rows(p)' = Rows(p) /\ \A t \in Tasks : Owns(p, t)' <=> Owns(p, t)
<1>1. TypeOK /\ Good(p) /\ IsTransaction(tx[p]) /\ IsTransaction(tx'[p])
  BY DEF IInv, TypeOK
<1>2. Wrote(p)' = Wrote(p) /\ New(p)' = New(p) /\ Concerns(p)' = Concerns(p) /\ Rows(p)' = Rows(p)
  BY DEF Wrote, New, Concerns, Rows
<1>3. \A t \in Tasks : Owns(p, t)' <=> Owns(p, t)
  BY <1>2 DEF Owns, Works
<1>4. \A op \in Ops : Meant(p, op) => Meant(p, op)'
  BY <1>2, <1>3 DEF Meant
<1>5. tx[p].ops \in Seq(Ops) /\ tx'[p].ops \in Seq(Ops)
  BY <1>1, Fields
<1>6. PICK ops \in Seq(Ops) : ops = tx[p].ops
  BY <1>5
<1>9. \A i \in 1 .. Len(ops) :
        Meant(p, ops[i])' /\ (ops[i].does \in {"done", "retry"} => i = Len(ops))
  <2> SUFFICES ASSUME NEW i \in 1 .. Len(ops)
               PROVE  /\ Meant(p, ops[i])'
                      /\ ops[i].does \in {"done", "retry"} => i = Len(ops)
    OBVIOUS
  <2>1. ops[i] \in Ops
    OBVIOUS
  <2>2. Meant(p, ops[i]) /\ (ops[i].does \in {"done", "retry"} => i = Len(ops))
    BY <1>1, <1>6 DEF Good, Planned
  <2> QED
    BY <1>4, <2>1, <2>2
<1>7. Planned(p)'
  BY <1>5, <1>6, <1>9, PlannedFollows
<1>8. Written(p)'
  BY <1>1, <1>2 DEF Good, Written
<1> QED
  BY <1>2, <1>3, <1>7, <1>8

\* A step that changes only what a transaction waits for.
LEMMA WaitingKeeps ==
  ASSUME IInv, TypeOK', NEW p \in Process, tx[p].open, Follows(tx'[p].ops, tx[p].ops),
         \A q \in Process \ {p} : tx'[q] = tx[q],
         tx'[p].open, tx'[p].add = tx[p].add, tx'[p].del = tx[p].del, tx'[p].show = tx[p].show,
         tx'[p].rows = tx[p].rows, tx'[p].then = tx[p].then,
         UNCHANGED <<row, refs, shown, rowLock, hand, late, stirred>>,
         \A x \in Tables : /\ lock[x] = p => lock'[x] = p
                           /\ \A q \in Process \ {p} : lock'[x] = q <=> lock[x] = q,
         tx'[p].step # "next" => tx'[p].ops # <<>> /\ tx'[p].todo \subseteq Now(p)'.at,
         tx'[p].step = "gates" => tx'[p].todo # {} /\ Now(p)'.does = "attach",
         tx'[p].step = "locks" => \A x \in Now(p)'.at \ tx'[p].todo : lock'[x] = p,
         \A t \in Tasks : Ending(p, t) => Ending(p, t)',
         Fetched(p)', Reads(p)', p = Reader => Repaired'
  PROVE  IInv'
<1>0. TypeOK /\ Good(p) /\ Reader \in Process /\ IsTransaction(tx[p])
  BY ProcessesApart DEF IInv, TypeOK
<1>1. /\ Planned(p)' /\ Written(p)' /\ New(p)' = New(p) /\ Concerns(p)' = Concerns(p)
      /\ Rows(p)' = Rows(p) /\ \A t \in Tasks : Owns(p, t)' <=> Owns(p, t)
  BY StillPlanned
<1>2. View(p)' = View(p) /\ Wrote(p)' = Wrote(p) /\ View(p) \subseteq Refs
  BY <1>0, ViewTyped DEF View, Wrote
<1>3. Begun(p)'
  BY <1>0, Fields DEF Good, Begun
<1>4. RowsLocked(p)' /\ Handed(p)'
  BY <1>0, <1>2 DEF Good, RowsLocked, Handed
<1>5. Fenced(p)'
  <2>1. \A r \in tx[p].add \cup tx[p].del : r.task \in Tasks
    BY <1>0, Fields, RefIs
  <2> QED
    BY <1>0, <1>1, <2>1 DEF Good, Fenced
<1>6. Fresh(p)'
  BY <1>0, <1>1, <1>2, RefIs DEF Good, Fresh
<1>7. Summed(p)'
  BY <1>0, <1>2 DEF Good, Summed, Count
<1>8. Good(p)'
  BY <1>1, <1>3, <1>4, <1>5, <1>6, <1>7 DEF Good
<1>9. Unborn' /\ Leased' /\ RefsAlive' /\ ShownTrue'
  BY NobodyCommits
<1>10. \A q \in Process \ {p} : Bystander(q)
  BY StandsBy
<1>11. Repaired'
  <2>1. p # Reader => Repaired'
    BY <1>0, StillRepaired
  <2> QED
    BY <2>1
<1>12. \A q \in Process \ {p} : New(p)' \cap New(q) = {}
  BY <1>1 DEF IInv, Apart
<1> QED
  BY <1>8, <1>9, <1>10, <1>11, <1>12, StepOf

LEMMA StartOpDoes ==
  ASSUME IInv, NEW p \in Process, StartOp(p)
  PROVE  LET r == tx[p]
             s == tx'[p]
             op == Now(p)
             at == Touches(View(p), op)
         IN  /\ TypeOK' /\ \A q \in Process \ {p} : tx'[q] = tx[q]
             /\ r.open /\ r.step = "next" /\ r.ops # <<>> /\ op.does \notin {"done", "retry"}
             /\ Follows(s.ops, r.ops)
             /\ UNCHANGED <<row, refs, shown, rowLock, lock, gate, hand, late, stirred, merges,
                            faults>>
             /\ IsTransaction(s) /\ s.open = r.open /\ s.add = r.add /\ s.del = r.del
             /\ s.show = r.show /\ s.rows = r.rows /\ s.then = r.then
             /\ \/ at = {} /\ s.ops = Tail(r.ops) /\ s.step = "next"
                \/ /\ at # {} /\ s.ops # <<>> /\ Len(s.ops) = Len(r.ops) /\ s.todo = at
                   /\ Head(s.ops).does = op.does /\ Head(s.ops).task = op.task
                   /\ Head(s.ops).at = at /\ s.ops[1] = Head(s.ops)
                   /\ \A i \in 2 .. Len(s.ops) : s.ops[i] = r.ops[i]
                   /\ s.step = IF op.does = "attach" THEN "gates" ELSE "locks"
<1> DEFINE r == tx[p]
           s == tx'[p]
           op == Now(p)
           at == Touches(View(p), op)
<1>0. /\ TypeOK /\ Good(p) /\ IsTransaction(r) /\ r.open /\ r.step = "next" /\ r.ops # <<>>
      /\ op.does \notin {"done", "retry"} /\ View(p) \in SUBSET Refs
  BY ViewTyped DEF IInv, TypeOK, StartOp, HasOp
<1>1. /\ tx' = [tx EXCEPT ![p] = Started(r, View(p))]
      /\ UNCHANGED <<row, refs, shown, rowLock, lock, gate, hand, late, stirred, merges, faults>>
  BY DEF StartOp
<1>2. s = Started(r, View(p)) /\ \A q \in Process \ {p} : tx'[q] = tx[q]
  BY <1>0, <1>1, Moves
<1>3. op = Head(r.ops)
  BY DEF Now
<1>4. /\ IsTransaction(s) /\ s.open = r.open /\ s.add = r.add /\ s.del = r.del
      /\ s.show = r.show /\ s.rows = r.rows /\ s.then = r.then
      /\ \/ at = {} /\ s.ops = Tail(r.ops) /\ s.step = "next"
         \/ /\ at # {} /\ s.ops # <<>> /\ Len(s.ops) = Len(r.ops) /\ s.todo = at
            /\ Head(s.ops).does = op.does /\ Head(s.ops).task = op.task
            /\ Head(s.ops).at = at /\ s.ops[1] = Head(s.ops)
            /\ \A i \in 2 .. Len(s.ops) : s.ops[i] = r.ops[i]
            /\ s.step = IF op.does = "attach" THEN "gates" ELSE "locks"
  <2>1. PICK rs \in SUBSET Refs : rs = View(p)
    BY <1>0
  <2>4. IsTransaction(r) /\ r.ops # <<>> /\ r.step = "next"
    BY <1>0
  <2> HIDE DEF r
  <2>2. LET n == Started(r, rs)
        IN  /\ IsTransaction(n) /\ n.open = r.open /\ n.add = r.add /\ n.del = r.del
            /\ n.show = r.show /\ n.rows = r.rows /\ n.then = r.then
            /\ \/ Touches(rs, Head(r.ops)) = {} /\ n.ops = Tail(r.ops) /\ n.step = "next"
               \/ /\ Touches(rs, Head(r.ops)) # {} /\ n.ops # <<>>
                  /\ Len(n.ops) = Len(r.ops) /\ n.todo = Touches(rs, Head(r.ops))
                  /\ Head(n.ops).does = Head(r.ops).does
                  /\ Head(n.ops).task = Head(r.ops).task
                  /\ Head(n.ops).at = Touches(rs, Head(r.ops)) /\ n.ops[1] = Head(n.ops)
                  /\ \A i \in 2 .. Len(n.ops) : n.ops[i] = r.ops[i]
                  /\ n.step = IF Head(r.ops).does = "attach" THEN "gates" ELSE "locks"
    BY ONLY <2>4, rs \in SUBSET Refs, StartedIs
  <2>3. s = Started(r, rs) /\ op = Head(r.ops) /\ at = Touches(rs, Head(r.ops))
    BY <1>2, <1>3, <2>1
  <2> HIDE DEF s, op, at
  <2> QED
    BY <2>2, <2>3
<1>5. TypeOK'
  <2>1. tx' = [q \in Process |-> tx'[q]] /\ \A q \in Process : IsTransaction(tx'[q])
    BY <1>0, <1>1, <1>2, <1>4, MovesTyped
  <2> QED
    BY <1>0, <1>1, <2>1 DEF TypeOK
<1>6. Follows(s.ops, r.ops)
  <2>1. r.ops \in Seq(Ops) /\ s.ops \in Seq(Ops)
    BY <1>0, <1>4, Fields
  <2>2. CASE s.ops = Tail(r.ops)
    BY <1>0, <2>1, <2>2, TailFollows
  <2>3. CASE s.ops # Tail(r.ops)
    <3>1. r.ops[1] = op
      BY <1>0, NowIs
    <3>2. \A i \in 1 .. Len(r.ops) : s.ops[i].does = r.ops[i].does /\ s.ops[i].task = r.ops[i].task
      BY <1>4, <2>1, <2>3, <3>1
    <3> QED
      BY <1>4, <2>1, <2>3, <3>2, SameFollows
  <2> QED
    BY <2>2, <2>3
<1> QED
  BY <1>0, <1>1, <1>2, <1>4, <1>5, <1>6

LEMMA StartOpKeeps ==
  ASSUME IInv, NEW p \in Process, StartOp(p)
  PROVE  IInv'
<1> DEFINE r == tx[p]
           s == tx'[p]
           op == Now(p)
           at == Touches(View(p), op)
<1>0. /\ TypeOK /\ Good(p) /\ IsTransaction(r) /\ r.open /\ r.step = "next" /\ r.ops # <<>>
      /\ op.does \notin {"done", "retry"} /\ View(p) \in SUBSET Refs
  BY ViewTyped DEF IInv, TypeOK, StartOp, HasOp
<1>1. /\ TypeOK' /\ \A q \in Process \ {p} : tx'[q] = tx[q]
      /\ Follows(s.ops, r.ops)
      /\ UNCHANGED <<row, refs, shown, rowLock, lock, gate, hand, late, stirred, merges, faults>>
  BY StartOpDoes
<1>4. /\ IsTransaction(s) /\ s.open = r.open /\ s.add = r.add /\ s.del = r.del
      /\ s.show = r.show /\ s.rows = r.rows /\ s.then = r.then
      /\ \/ at = {} /\ s.ops = Tail(r.ops) /\ s.step = "next"
         \/ /\ at # {} /\ s.ops # <<>> /\ Len(s.ops) = Len(r.ops) /\ s.todo = at
            /\ Head(s.ops).does = op.does /\ Head(s.ops).task = op.task
            /\ Head(s.ops).at = at /\ s.ops[1] = Head(s.ops)
            /\ \A i \in 2 .. Len(s.ops) : s.ops[i] = r.ops[i]
            /\ s.step = IF op.does = "attach" THEN "gates" ELSE "locks"
  BY StartOpDoes
<1>7. Now(p)' = Head(s.ops) /\ View(p)' = View(p)
  BY <1>1, <1>4 DEF Now, View
<1>8. p # Reader
  BY <1>0 DEF Good, Reads
<1> HIDE DEF at
<1>9. Fetched(p)'
  <2> SUFFICES ASSUME s.step = "locks", Now(p)'.does \in {"run", "done", "retry"},
                      NEW f \in Taken(p, Now(p))'
               PROVE  f.table \in Now(p)'.at
    BY DEF Fetched
  <2>1. Now(p)'.does = op.does /\ Now(p)'.task = op.task /\ Now(p)'.at = at
    BY <1>4, <1>7
  <2>2. f \in View(p) /\ f.task = op.task /\ ~f.processing /\ op.does = "run"
    BY <1>0, <1>7, <2>1 DEF Taken
  <2>3. op \in Ops
    BY <1>0, NowIs
  <2> QED
    BY <1>0, <2>1, <2>2, <2>3, SeenIs DEF at
<1>10. \A t \in Tasks : ~Ending(p, t)
  BY <1>0 DEF Ending
<1>11. Reads(p)'
  BY <1>8 DEF Reads
<1>12. /\ s.step # "next" => s.ops # <<>> /\ s.todo \subseteq Now(p)'.at
       /\ s.step = "gates" => s.todo # {} /\ Now(p)'.does = "attach"
       /\ s.step = "locks" => \A x \in Now(p)'.at \ s.todo : lock'[x] = p
  BY <1>4, <1>7
<1> QED
  BY <1>0, <1>1, <1>4, <1>8, <1>9, <1>10, <1>11, <1>12, WaitingKeeps

LEMMA TakeGateKeeps ==
  ASSUME IInv, NEW p \in Process, TakeGate(p)
  PROVE  IInv'
<1> DEFINE r == tx[p]
           s == tx'[p]
           x == NextGate(p)
           rest == r.todo \ {x}
<1>0. /\ TypeOK /\ Good(p) /\ IsTransaction(r) /\ r.step = "gates" /\ r.open /\ r.ops # <<>>
      /\ r.todo \subseteq Now(p).at /\ Now(p).does = "attach" /\ Now(p) \in Ops
      /\ Len(r.ops) \in Nat
  BY NowIs DEF IInv, TypeOK, TakeGate, Good, Begun
<1>1. /\ gate' = [gate EXCEPT ![x] = p]
      /\ tx' = IF rest = {} THEN [tx EXCEPT ![p].step = "locks", ![p].todo = Now(p).at]
               ELSE [tx EXCEPT ![p].todo = rest]
      /\ UNCHANGED <<row, refs, shown, rowLock, lock, hand, late, stirred, merges, faults>>
  BY DEF TakeGate
<1> DEFINE step == IF rest = {} THEN "locks" ELSE "gates"
           todo == IF rest = {} THEN Now(p).at ELSE rest
           q == [r EXCEPT !.ops = r.ops, !.step = step, !.todo = todo]
<1>2. /\ Now(p).at \subseteq Tables /\ todo \in SUBSET Tables /\ r.ops \in Seq(Ops)
      /\ step \in {"next", "gates", "locks"}
  BY <1>0, Fields DEF Ops
<1> HIDE DEF r, step, todo
<1>3. /\ IsTransaction(q) /\ q.ops = r.ops /\ q.step = step /\ q.todo = todo
      /\ q.open = r.open /\ q.add = r.add /\ q.del = r.del /\ q.show = r.show
      /\ q.rows = r.rows /\ q.then = r.then
  BY <1>0, <1>2 DEF IsTransaction
<1> USE DEF r, step, todo
<1>4. tx' = [tx EXCEPT ![p] = q]
  <2>1. CASE rest = {}
    <3>1. q = [r EXCEPT !.step = "locks", !.todo = Now(p).at]
      BY <1>0, <2>1 DEF IsTransaction
    <3> QED
      BY <1>0, <1>1, <2>1, <3>1 DEF TypeOK
  <2>2. CASE rest # {}
    <3>1. q = [r EXCEPT !.todo = rest]
      BY <1>0, <2>2 DEF IsTransaction
    <3> QED
      BY <1>0, <1>1, <2>2, <3>1 DEF TypeOK
  <2> QED
    BY <2>1, <2>2
<1> HIDE DEF q
<1>5. s = q /\ \A o \in Process \ {p} : tx'[o] = tx[o]
  BY <1>0, <1>4, Moves
<1>6. TypeOK'
  <2>1. tx' = [o \in Process |-> tx'[o]] /\ \A o \in Process : IsTransaction(tx'[o])
    BY <1>0, <1>3, <1>4, MovesTyped
  <2>2. gate' \in [Tables -> Process \cup {NoOne}]
    BY <1>0, <1>1 DEF TypeOK
  <2> QED
    BY <1>0, <1>1, <2>1, <2>2 DEF TypeOK
<1>7. Follows(s.ops, r.ops)
  BY <1>0, <1>3, <1>5, SameFollows
<1>8. Now(p)' = Now(p)
  BY <1>3, <1>5 DEF Now
<1>9. Fetched(p)'
  BY <1>0, <1>8 DEF Fetched
<1>10. p # Reader
  BY <1>0 DEF Good, Reads
<1>11. \A t \in Tasks : ~Ending(p, t)
  BY <1>0 DEF Ending
<1>12. Reads(p)'
  BY <1>10 DEF Reads
<1>13. /\ s.step # "next" => s.ops # <<>> /\ s.todo \subseteq Now(p)'.at
       /\ s.step = "gates" => s.todo # {} /\ Now(p)'.does = "attach"
       /\ s.step = "locks" => \A y \in Now(p)'.at \ s.todo : lock'[y] = p
  BY <1>0, <1>3, <1>5, <1>8
<1> QED
  BY <1>0, <1>1, <1>3, <1>5, <1>6, <1>7, <1>9, <1>10, <1>11, <1>12, <1>13, WaitingKeeps

LEMMA TakeLockKeeps ==
  ASSUME IInv, NEW p \in Process, TakeLock(p)
  PROVE  IInv'
<1> DEFINE r == tx[p]
           s == tx'[p]
           x == Least(r.todo)
           rest == r.todo \ {x}
           q == [r EXCEPT !.ops = r.ops, !.step = r.step, !.todo = rest]
<1>0. /\ TypeOK /\ Good(p) /\ IsTransaction(r) /\ r.step = "locks" /\ r.open /\ r.ops # <<>>
      /\ r.todo \subseteq Now(p).at /\ Len(r.ops) \in Nat /\ r.todo # {} /\ Repaired
      /\ r.todo \subseteq Tables /\ r.ops \in Seq(Ops)
  BY NowIs, Fields DEF IInv, TypeOK, TakeLock, Good, Begun
<1>1. /\ lock' = [lock EXCEPT ![x] = p] /\ lock[x] \in {NoOne, p}
      /\ tx' = [tx EXCEPT ![p].todo = @ \ {x}]
      /\ UNCHANGED <<row, refs, shown, rowLock, gate, hand, late, stirred, merges, faults>>
  BY DEF TakeLock, LockFree
<1>2. x \in r.todo /\ x \in Tables
  BY <1>0, LeastOf, ActivityAssumption
<1>3. tx' = [tx EXCEPT ![p] = q]
  <2>1. q = [r EXCEPT !.todo = rest]
    BY <1>0 DEF IsTransaction
  <2> QED
    BY <1>0, <1>1, <2>1 DEF TypeOK
<1> HIDE DEF r, rest
<1>4. /\ IsTransaction(q) /\ q.ops = r.ops /\ q.step = r.step /\ q.todo = rest
      /\ q.open = r.open /\ q.add = r.add /\ q.del = r.del /\ q.show = r.show
      /\ q.rows = r.rows /\ q.then = r.then
  BY <1>0 DEF IsTransaction, rest
<1> USE DEF r, rest
<1> HIDE DEF q
<1>5. s = q /\ \A o \in Process \ {p} : tx'[o] = tx[o]
  BY <1>0, <1>3, Moves
<1>6. /\ lock' \in [Tables -> Process \cup {NoOne}] /\ lock'[x] = p
      /\ \A y \in Tables : y # x => lock'[y] = lock[y]
  BY <1>0, <1>1, <1>2 DEF TypeOK
<1>7. TypeOK'
  <2>1. tx' = [o \in Process |-> tx'[o]] /\ \A o \in Process : IsTransaction(tx'[o])
    BY <1>0, <1>3, <1>4, MovesTyped
  <2> QED
    BY <1>0, <1>1, <1>6, <2>1 DEF TypeOK
<1>8. Follows(s.ops, r.ops)
  BY <1>0, <1>4, <1>5, SameFollows
<1>9. Now(p)' = Now(p) /\ View(p)' = View(p) /\ Taken(p, Now(p))' = Taken(p, Now(p))
  <2>1. Now(p)' = Now(p) /\ View(p)' = View(p) /\ Rows(p)' = Rows(p)
    BY <1>1, <1>4, <1>5 DEF Now, View, Rows
  <2> QED
    BY <2>1 DEF Taken, Dangling
<1>10. Fetched(p)'
  BY <1>0, <1>1, <1>4, <1>5, <1>9 DEF Good, Fetched
<1>11. \A t \in Tasks : Ending(p, t) => Ending(p, t)'
  BY <1>4, <1>5, <1>9 DEF Ending
<1>12. Reads(p)'
  BY <1>0, <1>4, <1>5, <1>9 DEF Good, Reads, Wrote
<1>13. \A y \in Tables : /\ lock[y] = p => lock'[y] = p
                         /\ \A o \in Process \ {p} : lock'[y] = o <=> lock[y] = o
  BY <1>1, <1>6, ProcessesApart
<1>14. s.step = "locks" => \A y \in Now(p)'.at \ s.todo : lock'[y] = p
  <2>1. \A y \in Now(p).at : y \in Tables
    BY <1>0, NowIs DEF Ops
  <2> QED
    BY <1>0, <1>4, <1>5, <1>6, <1>9, <2>1 DEF Good, Begun
<1>15. p = Reader => Repaired'
  <2> SUFFICES ASSUME p = Reader, NEW y \in Tables, lock'[y] = Reader
               PROVE  y \in Now(p).at
    BY <1>0, <1>4, <1>5, <1>9 DEF Repaired
  <2> QED
    BY <1>0, <1>2, <1>6 DEF Repaired
<1> QED
  BY <1>0, <1>1, <1>4, <1>5, <1>7, <1>8, <1>9, <1>10, <1>11, <1>12, <1>13, <1>14, <1>15,
     WaitingKeeps

LEMMA SettlesIs ==
  ASSUME IInv, NEW p \in Process, Settles(p)
  PROVE  LET op == Now(p)
             t == op.task
         IN  /\ tx[p].open /\ tx[p].step = "next" /\ tx[p].ops # <<>> /\ Len(tx[p].ops) = 1
             /\ op \in Ops /\ op = tx[p].ops[1] /\ op.does \in {"done", "retry"}
             /\ t \in Tasks /\ p \in Workers /\ hand[p].task = t /\ tx[p].then.task = 0
             /\ Meant(p, op) /\ row[t].status # "none" /\ p # Reader
             /\ t \notin late => row[t].status = "processing" /\ row[t].by = p
<1>1. /\ TypeOK /\ Good(p) /\ tx[p].open /\ tx[p].step = "next" /\ tx[p].ops # <<>>
      /\ Now(p).does \in {"done", "retry"}
  BY DEF IInv, Settles, HasOp
<1>2. Now(p) \in Ops /\ Now(p) = tx[p].ops[1] /\ 1 \in 1 .. Len(tx[p].ops)
  BY <1>1, NowIs
<1>3. Meant(p, Now(p)) /\ 1 = Len(tx[p].ops)
  BY <1>1, <1>2 DEF Good, Planned
<1>4. Now(p).task \in Tasks /\ 0 \notin Tasks
  BY <1>1, <1>3, ActivityAssumption DEF Meant
<1>5. p \in Workers /\ hand[p].task = Now(p).task /\ tx[p].then.task = 0
  BY <1>1, <1>3, <1>4 DEF Meant, Concerns
<1> QED
  BY <1>1, <1>2, <1>3, <1>4, <1>5, ProcessesApart DEF IInv, Unborn, Leased

\* Without the lease there is nothing to do.
LEMMA SettleNothing ==
  ASSUME IInv, NEW p \in Process, Settle(p), row[Now(p).task].by # p
  PROVE  IInv'
<1> DEFINE r == tx[p]
           q == [r EXCEPT !.ops = Tail(r.ops)]
<1>0. /\ TypeOK /\ Good(p) /\ IsTransaction(r) /\ r.open /\ r.step = "next" /\ r.ops # <<>>
      /\ p # Reader /\ r.ops \in Seq(Ops)
  BY SettlesIs, Fields DEF IInv, TypeOK, Settle
<1>1. /\ tx' = [tx EXCEPT ![p].ops = Tail(@)]
      /\ UNCHANGED <<row, refs, shown, rowLock, lock, gate, hand, late, stirred, merges, faults>>
  BY DEF Settle
<1>2. tx' = [tx EXCEPT ![p] = q]
  BY <1>0, <1>1 DEF TypeOK
<1>3. /\ IsTransaction(q) /\ q.ops = Tail(r.ops) /\ q.step = r.step
      /\ q.open = r.open /\ q.add = r.add /\ q.del = r.del /\ q.show = r.show
      /\ q.rows = r.rows /\ q.then = r.then
  <2>1. Tail(r.ops) \in Seq(Ops)
    BY <1>0
  <2> HIDE DEF r
  <2> QED
    BY <1>0, <2>1 DEF IsTransaction
<1> HIDE DEF q
<1>4. tx'[p] = q /\ \A o \in Process \ {p} : tx'[o] = tx[o]
  BY <1>0, <1>2, Moves
<1>5. TypeOK'
  <2>1. tx' = [o \in Process |-> tx'[o]] /\ \A o \in Process : IsTransaction(tx'[o])
    BY <1>0, <1>2, <1>3, MovesTyped
  <2> QED
    BY <1>0, <1>1, <2>1 DEF TypeOK
<1>6. Follows(tx'[p].ops, r.ops)
  BY <1>0, <1>3, <1>4, TailFollows
<1>7. Fetched(p)' /\ Reads(p)' /\ \A t \in Tasks : ~Ending(p, t)
  BY <1>0, <1>3, <1>4 DEF Fetched, Reads, Ending
<1> QED
  BY <1>0, <1>1, <1>3, <1>4, <1>5, <1>6, <1>7, WaitingKeeps

\* With the lease the row is locked and written; what is attached waits for its locks.
LEMMA SettleDoes ==
  ASSUME IInv, NEW p \in Process, Settle(p), row[Now(p).task].by = p
  PROVE  LET r == tx[p]
             s == tx'[p]
             op == Now(p)
             t == op.task
             at == Touches(View(p), op)
         IN  /\ TypeOK'
             /\ \A o \in Process \ {p} : tx'[o] = tx[o]
             /\ s.open /\ s.add = r.add /\ s.del = r.del /\ s.show = r.show /\ s.then = r.then
             /\ DOMAIN s.rows = DOMAIN r.rows \cup {t}
             /\ \A u \in DOMAIN r.rows : u # t => s.rows[u] = r.rows[u]
             /\ s.rows[t].status = IF op.does = "done" THEN "gone" ELSE "pending"
             /\ s.rows[t].by = NoOne
             /\ \/ at = {} /\ s.ops = <<>> /\ s.step = "next"
                \/ /\ at # {} /\ Len(s.ops) = 1 /\ s.todo = at /\ s.step = "locks"
                   /\ s.ops[1].does = op.does /\ s.ops[1].task = t /\ s.ops[1].at = at
                   /\ Head(s.ops) = s.ops[1] /\ s.ops # <<>>
             /\ rowLock[t] \in {NoOne, p} /\ rowLock'[t] = p
             /\ \A u \in Tasks : u # t => rowLock'[u] = rowLock[u]
             /\ UNCHANGED <<row, refs, shown, lock, gate, hand, late, stirred, merges, faults>>
<1> DEFINE r == tx[p]
           s == tx'[p]
           op == Now(p)
           t == op.task
           at == Touches(View(p), op)
           after == IF op.does = "done" THEN [Empty EXCEPT !.status = "gone"]
                    ELSE [row[t] EXCEPT !.status = "pending", !.by = NoOne, !.expired = FALSE]
           rows == Over([u \in {t} |-> after], r.rows)
           q == [r EXCEPT !.rows = rows]
<1>0. /\ TypeOK /\ IsTransaction(r) /\ r.open /\ r.step = "next" /\ r.ops # <<>>
      /\ Len(r.ops) = 1 /\ op \in Ops /\ op = r.ops[1] /\ op.does \in {"done", "retry"}
      /\ t \in Tasks /\ View(p) \in SUBSET Refs
  BY SettlesIs, ViewTyped DEF IInv, TypeOK, Settle
<1>1. /\ rowLock[t] \in {NoOne, p} /\ rowLock' = [rowLock EXCEPT ![t] = p]
      /\ tx' = [tx EXCEPT ![p] = Started([tx[p] EXCEPT !.rows = Over([u \in {t} |-> after], @)],
                                         View(p))]
      /\ UNCHANGED <<row, refs, shown, lock, gate, hand, late, stirred, merges, faults>>
  BY DEF Settle
<1>2. /\ after \in RowStates /\ after.by = NoOne
      /\ after.status = IF op.does = "done" THEN "gone" ELSE "pending"
  <2>1. row[t] \in RowStates
    BY <1>0 DEF TypeOK
  <2>2. CASE op.does = "done"
    BY <2>2 DEF Empty, RowStates
  <2>3. CASE op.does # "done"
    <3>1. after = [row[t] EXCEPT !.status = "pending", !.by = NoOne, !.expired = FALSE]
      BY <2>3
    <3> QED
      BY <2>1, <2>3, <3>1 DEF RowStates
  <2> QED
    BY <2>2, <2>3
<1> HIDE DEF after
<1>3. /\ DOMAIN rows = DOMAIN r.rows \cup {t} /\ rows[t] = after
      /\ \A u \in DOMAIN r.rows : u # t => rows[u] = r.rows[u]
  BY DEF Over
<1> HIDE DEF rows
<1>4. RowsWell(rows)
  <2>1. DOMAIN r.rows \subseteq Tasks /\ \A u \in DOMAIN r.rows : r.rows[u] \in RowStates
    BY <1>0, Fields
  <2>2. \A u \in DOMAIN rows : rows[u] \in RowStates
    BY <1>2, <1>3, <2>1
  <2> QED
    BY <1>0, <1>3, <2>1, <2>2 DEF RowsWell
<1> USE DEF rows
<1>5. tx' = [tx EXCEPT ![p] = Started(q, View(p))]
  BY <1>0, <1>1 DEF TypeOK
<1> HIDE DEF rows
<1>6. /\ IsTransaction(q) /\ q.rows = rows /\ q.ops = r.ops /\ q.step = r.step
      /\ q.open = r.open /\ q.add = r.add /\ q.del = r.del /\ q.show = r.show /\ q.then = r.then
  <2> HIDE DEF r
  <2> QED
    BY <1>0, <1>4 DEF IsTransaction, RowsWell
<1>7. s = Started(q, View(p)) /\ \A o \in Process \ {p} : tx'[o] = tx[o]
  BY <1>0, <1>5, Moves
<1> HIDE DEF q
<1>8. PICK rs \in SUBSET Refs : rs = View(p)
  BY <1>0
<1>9. q.ops # <<>> /\ q.step = "next" /\ q.ops \in Seq(Ops)
  BY <1>0, <1>6, Fields
<1>10. LET n == Started(q, rs)
       IN  /\ IsTransaction(n) /\ n.open = q.open /\ n.add = q.add /\ n.del = q.del
           /\ n.show = q.show /\ n.rows = q.rows /\ n.then = q.then
           /\ \/ Touches(rs, Head(q.ops)) = {} /\ n.ops = Tail(q.ops) /\ n.step = "next"
              \/ /\ Touches(rs, Head(q.ops)) # {} /\ n.ops # <<>>
                 /\ Len(n.ops) = Len(q.ops) /\ n.todo = Touches(rs, Head(q.ops))
                 /\ Head(n.ops).does = Head(q.ops).does
                 /\ Head(n.ops).task = Head(q.ops).task
                 /\ Head(n.ops).at = Touches(rs, Head(q.ops)) /\ n.ops[1] = Head(n.ops)
                 /\ \A i \in 2 .. Len(n.ops) : n.ops[i] = q.ops[i]
                 /\ n.step = IF Head(q.ops).does = "attach" THEN "gates" ELSE "locks"
  BY ONLY <1>6, <1>9, rs \in SUBSET Refs, StartedIs
<1>11. Head(q.ops) = op /\ Tail(q.ops) = <<>> /\ Len(q.ops) = 1
  <2>1. PICK ops \in Seq(Ops) : ops = q.ops
    BY <1>9
  <2>2. Len(ops) = 1 /\ ops[1] = op
    BY <1>0, <1>6, <2>1
  <2>3. Tail(ops) \in Seq(Ops) /\ Len(Tail(ops)) = 0 /\ Head(ops) = ops[1]
    BY <2>2
  <2>4. Tail(ops) = <<>>
    BY <2>3, EmptySeq
  <2> QED
    BY <2>1, <2>2, <2>3, <2>4
<1>12. s = Started(q, rs) /\ at = Touches(rs, op)
  BY <1>7, <1>8
<1>13. /\ IsTransaction(s) /\ s.open = r.open /\ s.add = r.add /\ s.del = r.del
       /\ s.show = r.show /\ s.rows = rows /\ s.then = r.then
       /\ \/ at = {} /\ s.ops = <<>> /\ s.step = "next"
          \/ /\ at # {} /\ Len(s.ops) = 1 /\ s.todo = at /\ s.step = "locks"
             /\ s.ops[1].does = op.does /\ s.ops[1].task = t /\ s.ops[1].at = at
             /\ Head(s.ops) = s.ops[1] /\ s.ops # <<>>
  <2> HIDE DEF s, r, at, op
  <2>1. op.does # "attach"
    BY <1>0
  <2> QED
    BY <1>6, <1>10, <1>11, <1>12, <2>1
<1>14. /\ rowLock' \in [Tasks -> Process \cup {NoOne}] /\ rowLock'[t] = p
       /\ \A u \in Tasks : u # t => rowLock'[u] = rowLock[u]
  BY <1>0, <1>1 DEF TypeOK
<1>15. TypeOK'
  <2>1. IsTransaction(Started(q, View(p)))
    BY <1>7, <1>13
  <2>2. tx' = [o \in Process |-> tx'[o]] /\ \A o \in Process : IsTransaction(tx'[o])
    BY <1>0, <1>5, <2>1, MovesTyped
  <2> QED
    BY <1>0, <1>1, <1>14, <2>2 DEF TypeOK
<1>16. /\ s.rows[t].status = (IF op.does = "done" THEN "gone" ELSE "pending")
       /\ s.rows[t].by = NoOne /\ DOMAIN s.rows = DOMAIN r.rows \cup {t}
       /\ \A u \in DOMAIN r.rows : u # t => s.rows[u] = r.rows[u]
  BY <1>2, <1>3, <1>13
<1> QED
  BY <1>0, <1>1, <1>7, <1>13, <1>14, <1>15, <1>16

LEMMA SettleKeeps ==
  ASSUME IInv, NEW p \in Process, Settle(p)
  PROVE  IInv'
<1>a. CASE row[Now(p).task].by # p
  BY <1>a, SettleNothing
<1>b. CASE row[Now(p).task].by = p
  <2> DEFINE r == tx[p]
             s == tx'[p]
             op == Now(p)
             t == op.task
             at == Touches(View(p), op)
  <2>0. /\ TypeOK /\ Good(p) /\ r.open /\ r.step = "next" /\ op \in Ops
        /\ op.does \in {"done", "retry"} /\ t \in Tasks /\ p \in Workers /\ hand[p].task = t
        /\ r.then.task = 0 /\ row[t].status # "none" /\ p # Reader /\ Leased /\ Apart
    BY SettlesIs DEF IInv, Settle
  <2>1. /\ TypeOK'
        /\ \A o \in Process \ {p} : tx'[o] = tx[o]
        /\ s.open /\ s.add = r.add /\ s.del = r.del /\ s.show = r.show /\ s.then = r.then
        /\ DOMAIN s.rows = DOMAIN r.rows \cup {t}
        /\ \A u \in DOMAIN r.rows : u # t => s.rows[u] = r.rows[u]
        /\ s.rows[t].status = IF op.does = "done" THEN "gone" ELSE "pending"
        /\ s.rows[t].by = NoOne
        /\ \/ at = {} /\ s.ops = <<>> /\ s.step = "next"
           \/ /\ at # {} /\ Len(s.ops) = 1 /\ s.todo = at /\ s.step = "locks"
              /\ s.ops[1].does = op.does /\ s.ops[1].task = t /\ s.ops[1].at = at
              /\ Head(s.ops) = s.ops[1] /\ s.ops # <<>>
        /\ rowLock[t] \in {NoOne, p} /\ rowLock'[t] = p
        /\ \A u \in Tasks : u # t => rowLock'[u] = rowLock[u]
        /\ UNCHANGED <<row, refs, shown, lock, gate, hand, late, stirred, merges, faults>>
    BY <1>b, SettleDoes
  <2>2. /\ View(p)' = View(p) /\ View(p) \subseteq Refs /\ Concerns(p)' = Concerns(p)
        /\ Wrote(p)' = Wrote(p) \cup {t} /\ New(p)' = New(p) /\ Wrote(p) \subseteq Tasks
    BY <2>0, <2>1, ViewTyped, Fields DEF View, Concerns, Wrote, New, TypeOK
  <2>3. \A u \in Tasks : Owns(p, u)' <=> Owns(p, u)
    BY <2>0, <2>1, <2>2 DEF Owns, Works
  <2>4. \A u \in Tasks : u # t => Rows(p)'[u] = Rows(p)[u]
    BY <2>0, <2>1, <2>2, RowsAt, RowsAtNext DEF Wrote
  <2>5. Rows(p)'[t] = s.rows[t]
    BY <2>0, <2>1, <2>2, RowsAtNext
  <2>6. at \subseteq Tables /\ \A f \in View(p) : f.task = t => f.table \in at
    BY <2>0, <2>2, SeenIs
  <2> HIDE DEF at
  <2>7. Begun(p)'
    BY <2>0, <2>1 DEF Begun, Good, Now
  <2>8. RowsLocked(p)'
    <3>1. ASSUME t \notin late, NEW w \in Workers, hand[w].task = t
          PROVE  w = p
      BY <1>b, <2>0, <3>1 DEF Leased
    <3> QED
      BY <2>0, <2>1, <3>1 DEF Good, RowsLocked
  <2>9. Written(p)'
    <3>1. t \in Concerns(p)
      BY <2>0 DEF Concerns
    <3>2. \A u \in Wrote(p) : u # t => s.rows[u] = r.rows[u] /\ rowLock'[u] = rowLock[u]
      BY <2>1, <2>2 DEF Wrote
    <3> QED
      BY <2>0, <2>1, <2>2, <3>1, <3>2 DEF Good, Written
  <2>10. Planned(p)'
    <3>1. tx'[p].ops \in Seq(Ops)
      BY <2>1, Fields DEF TypeOK
    <3>2. PICK ops \in Seq(Ops) : ops = tx'[p].ops
      BY <3>1
    <3>3. t \in Concerns(p) /\ Owns(p, t)
      BY <2>0 DEF Concerns, Owns, Works
    <3>4. \A o \in Ops : o.does = op.does /\ o.task = t => Meant(p, o)'
      BY <2>0, <2>1, <2>2, <2>3, <3>3 DEF Meant
    <3>5. \A i \in 1 .. Len(ops) :
            Meant(p, ops[i])' /\ (ops[i].does \in {"done", "retry"} => i = Len(ops))
      <4> SUFFICES ASSUME NEW i \in 1 .. Len(ops)
                   PROVE  Meant(p, ops[i])' /\ i = Len(ops)
        OBVIOUS
      <4>0. ops = s.ops
        BY <3>2
      <4> HIDE DEF s, op, t, at
      <4>1. i = 1 /\ Len(ops) = 1 /\ ops[i].does = op.does /\ ops[i].task = t
        <5>1. CASE s.ops = <<>>
          BY <4>0, <5>1
        <5>2. CASE Len(s.ops) = 1 /\ s.ops[1].does = op.does /\ s.ops[1].task = t
          BY <4>0, <5>2
        <5> QED
          BY <2>1, <5>1, <5>2
      <4>2. ops[i] \in Ops
        OBVIOUS
      <4> QED
        BY <3>4, <4>1, <4>2
    <3>6. Follows(ops, ops)
      BY SameFollows
    <3> QED
      BY <3>2, <3>5, <3>6, PlannedFollows
  <2>11. Handed(p)' /\ Reads(p)'
    BY <2>0, <2>1 DEF Handed, Reads
  <2>12. Fenced(p)'
    <3>1. \A f \in r.add \cup r.del : f.task \in Tasks
      BY <2>0, Fields, RefIs DEF TypeOK
    <3> QED
      BY <2>0, <2>1, <2>2, <2>3, <3>1 DEF Good, Fenced
  <2>13. Fresh(p)'
    <3> SUFFICES ASSUME NEW f \in View(p), f.task \notin late
                 PROVE  Rows(p)'[f.task].status \notin {"none", "gone"} \/ Ending(p, f.task)'
      BY <2>1, <2>2 DEF Fresh
    <3>1. f.task \in Tasks
      BY <2>2, RefIs
    <3>2. CASE f.task # t
      BY <2>0, <2>4, <3>1, <3>2 DEF Good, Fresh, Ending
    <3>3. CASE f.task = t
      <4>1. at # {}
        BY <2>6, <3>3
      <4> QED
        BY <2>0, <2>1, <2>5, <3>3, <4>1 DEF Ending, Now
    <3> QED
      BY <3>2, <3>3
  <2>14. Fetched(p)'
    <3> SUFFICES ASSUME s.step = "locks", NEW f \in Taken(p, Now(p))'
                 PROVE  f.table \in Now(p)'.at
      BY DEF Fetched
    <3>1. Now(p)'.does = op.does /\ Now(p)'.task = t /\ Now(p)'.at = at
      BY <2>1 DEF Now
    <3>2. f \in View(p) /\ f.task = t
      BY <2>0, <2>2, <3>1 DEF Taken
    <3> QED
      BY <2>6, <3>1, <3>2
  <2>15. Summed(p)'
    <3>1. Summed(p) /\ View(p)' = View(p) /\ tx'[p].show = tx[p].show /\ late' = late
      BY <2>0, <2>1, <2>2 DEF Good
    <3> QED
      BY ONLY <3>1 DEF Summed, Count
  <2>16. Good(p)'
    BY <2>7, <2>8, <2>9, <2>10, <2>11, <2>12, <2>13, <2>14, <2>15 DEF Good
  <2>17. Unborn' /\ Leased' /\ RefsAlive' /\ ShownTrue'
    <3>1. \A u \in Tasks : rowLock'[u] # NoOne /\ rowLock[u] = NoOne => row[u].status # "none"
      BY <2>0, <2>1
    <3> QED
      BY <2>1, <3>1, NobodyCommits
  <2>18. \A q \in Process \ {p}, u \in Tasks : rowLock'[u] = q <=> rowLock[u] = q
    BY <2>1, ProcessesApart
  <2>19. \A q \in Process \ {p} : Bystander(q)
    BY <2>1, <2>18, StandsBy
  <2>20. Repaired'
    BY <2>0, <2>1, StillRepaired, ProcessesApart
  <2>21. \A q \in Process \ {p} : New(p)' \cap New(q) = {}
    BY <2>0, <2>2 DEF Apart
  <2> QED
    BY <2>1, <2>16, <2>17, <2>19, <2>20, <2>21, StepOf
<1> QED
  BY <1>a, <1>b

---------------------------------------------------------------------------
(* an operation writes                                                     *)

\* There are so many rows that can be attached, and so a number for each count.
LEMMA CountsAre ==
  ASSUME Parameters, NEW rs \in SUBSET Refs, NEW x
  PROVE  Count(rs, x) \in Counters
<1> DEFINE Cube == (Tasks \X Tables) \X BOOLEAN
           f == [c \in Cube |-> [task |-> c[1][1], table |-> c[1][2], processing |-> c[2]]]
<1>1. IsFiniteSet(Cube)
  <2>1. IsFiniteSet({TRUE} \cup {FALSE}) /\ BOOLEAN = {TRUE} \cup {FALSE}
    BY FS_Singleton, FS_Union
  <2> QED
    BY <2>1, FS_Product DEF Parameters
<1>2. f \in Surjection(Cube, Refs)
  <2>1. f \in [Cube -> Refs]
    BY DEF Refs
  <2>2. \A r \in Refs : \E c \in Cube : f[c] = r
    <3> SUFFICES ASSUME NEW r \in Refs
                 PROVE  \E c \in Cube : f[c] = r
      OBVIOUS
    <3>1. <<<<r.task, r.table>>, r.processing>> \in Cube
      BY DEF Refs
    <3>2. f[<<<<r.task, r.table>>, r.processing>>] = r
      BY <3>1 DEF Refs
    <3> QED
      BY <3>1, <3>2
  <2> QED
    BY <2>1, <2>2 DEF Surjection
<1>3. IsFiniteSet(Refs)
  BY <1>1, <1>2, FS_Surjection
<1>4. \A S \in SUBSET Refs : Cardinality(S) \in Nat
  BY <1>3, FS_Subset, FS_CardinalityType
<1>5. /\ {r \in rs : r.table = x} \in SUBSET Refs
      /\ {r \in rs : r.table = x /\ r.processing} \in SUBSET Refs
  OBVIOUS
<1>6. /\ Cardinality({r \in rs : r.table = x}) \in Nat
      /\ Cardinality({r \in rs : r.table = x /\ r.processing}) \in Nat
  BY <1>4, <1>5
<1> QED
  BY <1>6 DEF Count, Counters

\* What an operation takes away or attaches lies in the tables whose locks it asked for.
LEMMA WritesAre ==
  ASSUME IInv, NEW p \in Process, tx[p].step = "locks", tx[p].todo = {}
  PROVE  LET op == Now(p)
             moved == Taken(p, op) \cup Left(p, op)
         IN  /\ moved \subseteq Refs /\ Taken(p, op) \subseteq View(p)
             /\ Synced(p, op) \subseteq Tables
             /\ \A x \in Synced(p, op) : lock[x] = p
             /\ \A r \in moved : /\ r.task \in late \/ Owns(p, r.task)
                                 /\ r.table \in Synced(p, op) \/ r.task \in late \cap Concerns(p)
             /\ op.does = "heal" => Left(p, op) = {} /\ Synced(p, op) = op.at
<1> DEFINE op == Now(p)
<1>0. /\ TypeOK /\ Good(p) /\ tx[p].ops # <<>> /\ op \in Ops /\ Meant(p, op)
      /\ View(p) \subseteq Refs /\ op.at \subseteq Tables
  <2>1. TypeOK /\ Good(p) /\ tx[p].ops # <<>>
    BY DEF IInv, Good, Begun
  <2>2. op \in Ops /\ op = tx[p].ops[1] /\ 1 \in 1 .. Len(tx[p].ops)
    BY <2>1, NowIs
  <2>3. Meant(p, op)
    BY <2>1, <2>2 DEF Good, Planned
  <2> QED
    BY <2>1, <2>2, <2>3, ViewTyped DEF Ops
<1>1. \A x \in op.at : lock[x] = p
  BY <1>0 DEF Good, Begun
<1>2. Fetched(p) /\ Fresh(p)
  BY <1>0 DEF Good
<1> HIDE DEF op
<1>3. Taken(p, op) \subseteq View(p)
  BY TakenIs
<1>4. CASE op.does = "attach"
  <2>1. /\ Taken(p, op) = {} /\ Synced(p, op) = Attached(p, op)
        /\ Left(p, op) = {Ref(op.task, x, FALSE) : x \in Attached(p, op)}
    BY <1>4 DEF Taken, Synced, Left
  <2>2. Attached(p, op) \subseteq op.at
    BY DEF Attached
  <2>3. op.task \in Tasks /\ (op.task \notin late => Owns(p, op.task))
    BY <1>0, <1>4 DEF Meant
  <2>4. \A r \in Left(p, op) : r \in Refs /\ r.task = op.task /\ r.table \in Attached(p, op)
    <3> SUFFICES ASSUME NEW x \in Attached(p, op)
                 PROVE  LET r == Ref(op.task, x, FALSE)
                        IN  r \in Refs /\ r.task = op.task /\ r.table = x
      BY <2>1
    <3>1. x \in Tables
      BY <1>0, <2>2 DEF op
    <3> QED
      BY <2>3, <3>1 DEF Ref, Refs
  <2> QED
    BY <1>0, <1>1, <1>4, <2>1, <2>2, <2>3, <2>4 DEF op
<1>5. CASE op.does = "heal"
  <2>1. Taken(p, op) = Dangling(p, op) /\ Synced(p, op) = op.at /\ Left(p, op) = {}
    BY <1>5 DEF Taken, Synced, Left
  <2>2. \A r \in Dangling(p, op) : r \in Refs /\ r.table \in op.at /\ r.task \in late
    BY <1>0, <1>2, <1>5 DEF Dangling, Fresh, Ending, op
  <2> QED
    BY <1>0, <1>1, <2>1, <2>2, <1>3 DEF op
<1>6. CASE op.does \in {"run", "done", "retry"}
  <2>1. \A r \in Taken(p, op) : r \in Refs /\ r.task = op.task
    BY <1>0, <1>6, TakenIs
  <2>2. op.task \in Concerns(p) /\ (op.task \notin late => Owns(p, op.task))
    BY <1>0, <1>6 DEF Meant
  <2>3. \A r \in Taken(p, op) : r.table \in op.at \/ r.task \in late \cap Concerns(p)
    BY <1>2, <1>6, <2>1, <2>2 DEF Fetched, op
  <2>4. \A r \in Left(p, op) : r \in Refs /\
          \E s \in Taken(p, op) : r.task = s.task /\ r.table = s.table
    <3>1. CASE op.does = "run"
      <4>1. Left(p, op) = {[r EXCEPT !.processing = TRUE] : r \in Taken(p, op)}
        BY <3>1 DEF Left
      <4> QED
        BY <2>1, <4>1 DEF Refs
    <3>2. CASE op.does = "retry"
      <4>1. Left(p, op) = {[r EXCEPT !.processing = FALSE] : r \in Taken(p, op)}
        BY <3>2 DEF Left
      <4> QED
        BY <2>1, <4>1 DEF Refs
    <3>3. CASE op.does = "done"
      BY <3>3 DEF Left
    <3> QED
      BY <1>6, <3>1, <3>2, <3>3
  <2>5. Synced(p, op) = op.at
    BY <1>6 DEF Synced
  <2> QED
    BY <1>0, <1>1, <1>3, <1>6, <2>1, <2>2, <2>3, <2>4, <2>5 DEF op
<1>7. op.does \in {"attach", "heal", "run", "done", "retry"}
  BY <1>0 DEF Ops
<1> QED
  BY <1>4, <1>5, <1>6, <1>7

LEMMA ApplyDoes ==
  ASSUME Parameters, IInv, NEW p \in Process, Apply(p)
  PROVE  LET r == tx[p]
             s == tx'[p]
             op == Now(p)
             after == (View(p) \ Taken(p, op)) \cup Left(p, op)
         IN  /\ TypeOK' /\ \A q \in Process \ {p} : tx'[q] = tx[q]
             /\ r.step = "locks" /\ r.todo = {} /\ r.open /\ r.ops # <<>>
             /\ s.open /\ s.ops = Tail(r.ops) /\ s.step = "next"
             /\ s.rows = r.rows /\ s.then = r.then
             /\ View(p)' = after /\ after \subseteq Refs
             /\ s.add \cup s.del \subseteq r.add \cup r.del \cup Taken(p, op) \cup Left(p, op)
             /\ DOMAIN s.show = DOMAIN r.show \cup Synced(p, op)
             /\ \A x \in Synced(p, op) : s.show[x] = Count(after, x)
             /\ \A x \in DOMAIN r.show \ Synced(p, op) : s.show[x] = r.show[x]
             /\ UNCHANGED <<row, refs, shown, rowLock, lock, hand, late, stirred, merges, faults>>
<1> DEFINE r == tx[p]
           op == Now(p)
           taken == Taken(p, op)
           left == Left(p, op)
           synced == Synced(p, op)
           after == (View(p) \ taken) \cup left
           ops == Tail(r.ops)
           del == (r.del \cup taken) \ after
           add == (r.add \ taken) \cup left
           counts == [x \in synced |-> Count(after, x)]
           show == Over(counts, r.show)
           q == [r EXCEPT !.ops = ops, !.step = "next", !.del = del, !.add = add, !.show = show]
<1>0. /\ TypeOK /\ Good(p) /\ IsTransaction(r) /\ r.step = "locks" /\ r.todo = {}
      /\ r.open /\ r.ops # <<>> /\ ops \in Seq(Ops)
  BY NowIs DEF IInv, TypeOK, Apply, Good, Begun
<1>1. /\ gate' = Released(gate, p)
      /\ UNCHANGED <<row, refs, shown, rowLock, lock, hand, late, stirred, merges, faults>>
  BY DEF Apply
<1>2. tx' = [tx EXCEPT ![p].ops = Tail(@), ![p].step = "next",
               ![p].del = (@ \cup taken) \ after, ![p].add = (@ \ taken) \cup left,
               ![p].show = Over(counts, @)]
  BY DEF Apply
<1>3. /\ taken \subseteq View(p) /\ taken \cup left \subseteq Refs /\ synced \subseteq Tables
      /\ View(p) \subseteq Refs
  BY <1>0, WritesAre, ViewTyped
<1> HIDE DEF taken, left, synced
<1>4. after \subseteq Refs
  BY <1>3
<1> HIDE DEF after
<1>5. /\ DOMAIN show = DOMAIN r.show \cup synced
      /\ \A x \in synced : show[x] = Count(after, x)
      /\ \A x \in DOMAIN r.show \ synced : show[x] = r.show[x]
  BY DEF Over
<1> HIDE DEF counts
<1>6. tx' = [tx EXCEPT ![p] = q]
  BY <1>0, <1>2 DEF TypeOK
<1> HIDE DEF show
<1>7. DOMAIN show \subseteq Tables /\ \A x \in DOMAIN show : show[x] \in Counters
  <2>1. \A x \in synced : Count(after, x) \in Counters
    BY <1>4, CountsAre
  <2>2. DOMAIN r.show \subseteq Tables /\ \A x \in DOMAIN r.show : r.show[x] \in Counters
    BY <1>0, Fields
  <2> QED
    BY <1>3, <1>5, <2>1, <2>2
<1>8. add \in SUBSET Refs /\ del \in SUBSET Refs
  BY <1>0, <1>3, Fields
<1> HIDE DEF add, del, ops
<1>9. /\ IsTransaction(q) /\ q.ops = ops /\ q.step = "next" /\ q.del = del /\ q.add = add
      /\ q.show = show /\ q.open = r.open /\ q.rows = r.rows /\ q.then = r.then
  <2> HIDE DEF r
  <2> QED
    BY <1>0, <1>7, <1>8 DEF IsTransaction
<1> HIDE DEF q
<1>10. tx'[p] = q /\ \A o \in Process \ {p} : tx'[o] = tx[o]
  BY <1>0, <1>6, Moves
<1>11. TypeOK'
  <2>1. tx' = [o \in Process |-> tx'[o]] /\ \A o \in Process : IsTransaction(tx'[o])
    BY <1>0, <1>6, <1>9, MovesTyped
  <2>2. gate' \in [Tables -> Process \cup {NoOne}]
    BY <1>0, <1>1, ReleasedIs DEF TypeOK
  <2> QED
    BY <1>0, <1>1, <2>1, <2>2 DEF TypeOK
<1>12. View(p)' = after
  <2>1. View(p)' = (refs \ del) \cup add
    BY <1>1, <1>9, <1>10 DEF View
  <2>2. View(p) = (refs \ r.del) \cup r.add
    BY DEF View
  <2> QED
    BY <2>1, <2>2 DEF add, del, after
<1>13. add \cup del \subseteq r.add \cup r.del \cup taken \cup left
  BY DEF add, del
<1> QED
  BY <1>0, <1>1, <1>4, <1>5, <1>9, <1>10, <1>11, <1>12, <1>13
  DEF taken, left, synced, after, ops

LEMMA ApplyKeeps ==
  ASSUME Parameters, IInv, NEW p \in Process, Apply(p)
  PROVE  IInv'
<1> DEFINE r == tx[p]
           s == tx'[p]
           op == Now(p)
           taken == Taken(p, op)
           left == Left(p, op)
           synced == Synced(p, op)
           after == (View(p) \ taken) \cup left
<1>0. /\ TypeOK /\ Good(p) /\ op \in Ops /\ Meant(p, op) /\ r.ops \in Seq(Ops)
      /\ View(p) \subseteq Refs /\ Reader \in Process /\ Repaired
      /\ IsTransaction(r) /\ Len(r.ops) \in Nat
  <2>1. TypeOK /\ Good(p) /\ r.ops # <<>> /\ IsTransaction(r)
    BY ApplyDoes DEF IInv, TypeOK
  <2>2. op \in Ops /\ op = r.ops[1] /\ 1 \in 1 .. Len(r.ops)
    BY <2>1, NowIs
  <2>3. Meant(p, op)
    BY <2>1, <2>2 DEF Good, Planned
  <2> QED
    BY <2>1, <2>2, <2>3, ViewTyped, Fields, ProcessesApart DEF IInv
<1>1. /\ TypeOK' /\ \A q \in Process \ {p} : tx'[q] = tx[q]
      /\ r.step = "locks" /\ r.todo = {} /\ r.open /\ r.ops # <<>>
      /\ s.open /\ s.ops = Tail(r.ops) /\ s.step = "next"
      /\ s.rows = r.rows /\ s.then = r.then
      /\ View(p)' = after /\ after \subseteq Refs
      /\ s.add \cup s.del \subseteq r.add \cup r.del \cup taken \cup left
      /\ DOMAIN s.show = DOMAIN r.show \cup synced
      /\ \A x \in synced : s.show[x] = Count(after, x)
      /\ \A x \in DOMAIN r.show \ synced : s.show[x] = r.show[x]
      /\ UNCHANGED <<row, refs, shown, rowLock, lock, hand, late, stirred, merges, faults>>
  BY ApplyDoes
<1>2. /\ taken \cup left \subseteq Refs /\ taken \subseteq View(p) /\ synced \subseteq Tables
      /\ \A x \in synced : lock[x] = p
      /\ \A f \in taken \cup left :
           /\ f.task \in late \/ Owns(p, f.task)
           /\ f.table \in synced \/ f.task \in late \cap Concerns(p)
      /\ op.does = "heal" => left = {} /\ synced = op.at
  BY <1>1, WritesAre
<1>3. Follows(s.ops, r.ops)
  BY <1>0, <1>1, TailFollows
<1>4. /\ Planned(p)' /\ Written(p)' /\ New(p)' = New(p) /\ Concerns(p)' = Concerns(p)
      /\ Rows(p)' = Rows(p) /\ \A t \in Tasks : Owns(p, t)' <=> Owns(p, t)
  BY <1>1, <1>3, StillPlanned
<1>5. Wrote(p)' = Wrote(p)
  BY <1>1 DEF Wrote
<1>6. Fresh(p)'
  <2> SUFFICES ASSUME NEW f \in after, f.task \notin late
               PROVE  Rows(p)[f.task].status \notin {"none", "gone"}
    BY <1>1, <1>4 DEF Fresh
  <2>1. CASE f \in View(p) \ taken
    <3>1. ~Ending(p, f.task)
      BY <2>1, TakenIs DEF Ending
    <3> QED
      BY <1>0, <2>1, <3>1 DEF Good, Fresh
  <2>2. CASE f \in left /\ op.does = "attach"
    <3>1. f.task = op.task
      BY <1>0, <2>2 DEF Left, Ref
    <3> QED
      BY <1>0, <2>2, <3>1 DEF Meant
  <2>3. CASE f \in left /\ op.does \in {"run", "retry"}
    <3>1. PICK g \in taken : f.task = g.task
      BY <1>2, <2>3 DEF Left, Refs
    <3> QED
      BY <1>0, <1>2, <2>3, <3>1 DEF Good, Fresh, Ending
  <2>4. op.does \in {"done", "heal"} => left = {}
    BY <1>2 DEF Left
  <2> QED
    BY <1>0, <2>1, <2>2, <2>3, <2>4 DEF Ops
<1> HIDE DEF after, taken, left, synced
<1>7. Begun(p)'
  BY <1>0, <1>1, <1>2 DEF Good, Begun
<1>8. RowsLocked(p)' /\ Handed(p)'
  BY <1>0, <1>1, <1>5 DEF Good, RowsLocked, Handed
<1>9. Fenced(p)'
  <2>0. \A f \in s.add \cup s.del : f.task \in Tasks
    BY <1>1, Fields, RefIs DEF TypeOK
  <2> SUFFICES ASSUME NEW f \in s.add \cup s.del
               PROVE  /\ f.task \in late \/ Owns(p, f.task)
                      /\ f.table \in DOMAIN s.show \/ f.task \in late \cap Concerns(p)
    BY <1>1, <1>4, <2>0 DEF Fenced
  <2>1. CASE f \in r.add \cup r.del
    BY <1>0, <1>1, <2>1 DEF Good, Fenced
  <2>2. CASE f \in taken \cup left
    BY <1>1, <1>2, <2>2
  <2> QED
    BY <1>1, <2>1, <2>2
<1>10. Summed(p)'
  <2> SUFFICES ASSUME late = {}, NEW x \in DOMAIN s.show, x \notin synced
               PROVE  s.show[x] = Count(after, x)
    BY <1>1 DEF Summed, Count
  <2>1. x \in DOMAIN r.show /\ s.show[x] = r.show[x]
    BY <1>1
  <2>2. r.show[x] = Count(View(p), x)
    BY <1>0, <2>1 DEF Good, Summed
  <2>3. \A f : f \in View(p) /\ f.table = x <=> f \in after /\ f.table = x
    BY <1>2 DEF after
  <2>4. Count(View(p), x) = Count(after, x)
    BY ONLY <2>3, CountLocal
  <2> QED
    BY <2>1, <2>2, <2>4
<1>11. p = Reader => s.ops = <<>> /\ Wrote(p) = {} /\ op.does = "heal"
  <2>1. SUFFICES ASSUME p = Reader
                 PROVE  s.ops = <<>> /\ Wrote(p) = {} /\ op.does = "heal"
    OBVIOUS
  <2>2. Len(r.ops) = 1 /\ op.does = "heal" /\ Wrote(p) = {}
    BY <1>0, <1>1, <2>1 DEF Good, Reads
  <2>3. PICK ops \in Seq(Ops) : ops = r.ops
    BY <1>0
  <2>4. Len(ops) = 1
    BY <2>2, <2>3
  <2>5. Tail(ops) \in Seq(Ops) /\ Len(Tail(ops)) = 0
    BY <2>4
  <2>6. Tail(ops) = <<>>
    BY <2>5, EmptySeq
  <2> QED
    BY <1>1, <2>2, <2>3, <2>6
<1>12. Reads(p)' /\ Fetched(p)'
  BY <1>1, <1>5, <1>11 DEF Reads, Fetched
<1>13. Good(p)'
  BY <1>4, <1>6, <1>7, <1>8, <1>9, <1>10, <1>12 DEF Good
<1>14. Unborn' /\ Leased' /\ RefsAlive' /\ ShownTrue'
  BY <1>1, NobodyCommits
<1>15. \A q \in Process \ {p} : Bystander(q)
  BY <1>1, StandsBy
<1>16. Repaired'
  <2>1. CASE p # Reader
    BY <1>0, <1>1, <2>1, StillRepaired
  <2>2. CASE p = Reader
    <3> SUFFICES ASSUME NEW x \in Tables, lock[x] = Reader
                 PROVE  /\ x \in DOMAIN s.show /\ s.show[x] = Count(after, x)
                        /\ \A f \in after : f.table = x => Alive(f.task)
      BY <1>1, <1>11, <2>2 DEF Repaired, Alive, Count
    <3>1. x \in synced
      BY <1>0, <1>1, <1>2, <1>11, <2>2 DEF Repaired
    <3>2. ASSUME NEW f \in after, f.table = x
          PROVE  Alive(f.task)
      <4>1. f \in View(p) /\ f \notin Dangling(p, op)
        BY <1>2, <1>11, <2>2, TakenIs DEF after, taken
      <4>2. Rows(p)[f.task] = row[f.task]
        BY <1>0, <1>11, <2>2, <4>1, RefIs, RowsAt
      <4> QED
        BY <1>2, <1>11, <2>2, <3>1, <3>2, <4>1, <4>2 DEF Dangling, Alive
    <3> QED
      BY <1>1, <3>1, <3>2
  <2> QED
    BY <2>1, <2>2
<1>17. \A q \in Process \ {p} : New(p)' \cap New(q) = {}
  BY <1>4 DEF IInv, Apart
<1> QED
  BY <1>1, <1>13, <1>14, <1>15, <1>16, <1>17, StepOf

---------------------------------------------------------------------------
(* the theorems                                                            *)

LEMMA InitHolds ==
  ASSUME Init
  PROVE  IInv
<1>1. Empty \in RowStates /\ Empty.status = "none" /\ Free \in Claims /\ Free.task = 0
  BY DEF Empty, RowStates, Free, Claims
<1>2. Nothing \in Counters
  BY DEF Nothing, Counters
<1>3. IsTransaction(Idle)
  BY IdleIs
<1>4. TypeOK
  BY <1>1, <1>2, <1>3 DEF Init, TypeOK
<1>5. \A p \in Process : tx[p] = Idle
  BY DEF Init
<1>6. \A p \in Process : Wrote(p) = {} /\ New(p) = {}
  BY <1>5, IdleIs DEF Wrote, New
<1>7. Unborn /\ Leased /\ RefsAlive
  BY <1>1, ActivityAssumption DEF Init, Unborn, Leased, RefsAlive
<1>8. ShownTrue
  <2>1. \A x : {r \in {} : r.table = x} = {} /\ {r \in {} : r.table = x /\ r.processing} = {}
    OBVIOUS
  <2>2. \A x : Count({}, x) = Nothing
    BY <2>1, FS_EmptySet DEF Count, Nothing
  <2> QED
    BY <2>2 DEF Init, ShownTrue
<1>9. Repaired /\ Apart
  BY <1>6, ProcessesApart DEF Init, Repaired, Apart
<1>10. ASSUME NEW p \in Process
       PROVE  Good(p)
  <2> DEFINE r == tx[p]
  <2>1. /\ r = Idle /\ ~r.open /\ r.ops = <<>> /\ r.step = "next" /\ r.add = {} /\ r.del = {}
        /\ DOMAIN r.show = {} /\ DOMAIN r.rows = {} /\ r.then.task = 0 /\ Len(r.ops) = 0
    BY <1>5, IdleIs
  <2>2. Begun(p)
    BY <2>1 DEF Begun
  <2>3. RowsLocked(p)
    BY ProcessesApart DEF RowsLocked, Init
  <2>4. Written(p) /\ Planned(p) /\ Handed(p)
    BY <1>6, <2>1 DEF Written, Planned, Handed
  <2>5. Fenced(p) /\ Fetched(p) /\ Summed(p) /\ Reads(p)
    BY <1>6, <2>1 DEF Fenced, Fetched, Summed, Reads
  <2>6. Fresh(p)
    BY <2>1 DEF Fresh, View, Init
  <2> QED
    BY <2>2, <2>3, <2>4, <2>5, <2>6 DEF Good
<1> QED
  BY <1>4, <1>7, <1>8, <1>9, <1>10 DEF IInv

LEMMA StutteringKeeps ==
  ASSUME IInv, UNCHANGED activityVars
  PROVE  IInv'
<1>0. TypeOK /\ Reader \in Process
  BY ProcessesApart DEF IInv
<1>1. UNCHANGED <<row, refs, shown, rowLock, lock, gate, tx, hand, late, stirred, merges, faults>>
  BY DEF activityVars
<1>2. TypeOK'
  BY <1>0, <1>1 DEF TypeOK
<1>3. Unborn' /\ Leased' /\ RefsAlive' /\ ShownTrue'
  BY <1>1, <1>2, NobodyCommits
<1>4. \A q \in Process : Bystander(q)
  BY <1>1, StandsBy
<1>5. Good(Reader)' /\ New(Reader)' = New(Reader)
  BY <1>0, <1>2, <1>3, <1>4, BystanderIsGood, BystanderOwns
<1>6. Repaired'
  BY <1>1, <1>2, StillRepaired
<1> QED
  BY <1>0, <1>2, <1>3, <1>4, <1>5, <1>6, StepOf DEF IInv, Apart

LEMMA StepKeeps ==
  ASSUME Parameters, IInv, Next
  PROVE  IInv'
<1>1. ASSUME NEW w \in Writers, UserWrites(w)
      PROVE  IInv'
  BY <1>1, EnqueueNewKeeps, EnqueueMergeKeeps DEF UserWrites
<1>2. ASSUME NEW w \in Workers, ClaimSome(w) \/ Work(w) \/ Return(w) \/ Crash(w)
      PROVE  IInv'
  BY <1>2, ClaimKeeps, FinishKeeps, RegisterKeeps, FinishStageKeeps, ReturnKeeps, CrashKeeps
  DEF ClaimSome, Work
<1>3. ASSUME LookSome
      PROVE  IInv'
  BY <1>3, LookKeeps DEF LookSome
<1>4. ASSUME NEW t \in Tasks, LeaseExpires(t)
      PROVE  IInv'
  BY <1>4, LeaseExpiresKeeps
<1>5. ASSUME NEW p \in Process,
             Go(p) \/ Settle(p) \/ TakeGate(p) \/ TakeLock(p) \/ RollBack(p)
      PROVE  IInv'
  BY <1>5, StartOpKeeps, ApplyKeeps, CommitKeeps, SettleKeeps, TakeGateKeeps, TakeLockKeeps,
     RollBackKeeps DEF Go
<1> QED
  BY <1>1, <1>2, <1>3, <1>4, <1>5 DEF Next

\* Whoever writes, waits, loses its lease or dies, IInv holds.
THEOREM AlwaysInOrder ==
  ASSUME Parameters
  PROVE  Spec => []IInv
<1>1. Init => IInv
  BY InitHolds
<1>2. IInv /\ [Next]_activityVars => IInv'
  BY StepKeeps, StutteringKeeps
<1> QED
  BY <1>1, <1>2, PTL DEF Spec

\* Rows, attached fields, counters and transactions keep their types (TypeOK of
\* ComputedActivity).
THEOREM TypeCorrect ==
  ASSUME Parameters
  PROVE  Spec => []TypeOK
<1>1. IInv => TypeOK
  BY DEF IInv
<1> QED
  BY <1>1, AlwaysInOrder, PTL

\* At every moment the counters of every table say what is attached to it, and what is
\* attached belongs to a task that has not ended, unless a task was taken over from a
\* worker that was still at work (CountersTrue of ActivityState).
THEOREM CountersAlwaysTrue ==
  ASSUME Parameters
  PROVE  Spec => []CountersTrue
<1>1. IInv => CountersTrue
  BY DEF IInv, ShownTrue, RefsAlive, CountersTrue, Drifted
<1> QED
  BY <1>1, AlwaysInOrder, PTL

\* The reader gives up its lock on a table, its repair done, by committing it.
LEMMA RepairCommits ==
  ASSUME IInv, Next, NEW x \in Tables, lock[x] = Reader, lock'[x] = NoOne, Ended(Reader)
  PROVE  Commit(Reader)
<1>0. TypeOK /\ Reader \in Process /\ Reader \notin Workers /\ NoOne # Reader
  BY ProcessesApart DEF IInv
<1>1. lock' # lock
  BY <1>0
<1>2. ASSUME NEW p \in Process, p # Reader, Close(p)
      PROVE  FALSE
  BY <1>0, <1>2, CloseDoes
<1>3. ASSUME NEW p \in Process, TakeLock(p)
      PROVE  FALSE
  BY <1>0, <1>3, ProcessesApart DEF TakeLock, TypeOK
<1>4. ~RollBack(Reader)
  <2>1. Awaited(Reader) = NoOne
    BY DEF Awaited, Settles, HasOp, Ended
  <2>2. ASSUME OnCycle([q \in Process |-> Awaited(q)], Reader)
        PROVE  NoOne \in Process
    BY <1>0, <2>1, <2>2 DEF OnCycle, Circle
  <2> QED
    BY <2>2, ProcessesApart DEF RollBack
<1>5. ASSUME NEW p \in Process, Commit(p) \/ RollBack(p)
      PROVE  Commit(Reader)
  BY <1>2, <1>4, <1>5 DEF Commit, RollBack
<1>6. ASSUME NEW w \in Workers, Crash(w)
      PROVE  FALSE
  BY <1>0, <1>2, <1>6, ProcessesApart DEF Crash
<1> QED
  BY <1>1, <1>3, <1>5, <1>6
  DEF Next, UserWrites, EnqueueNew, EnqueueMerge, ClaimSome, Claim, Work, Finish, Register,
      FinishStage, Return, LookSome, Look, LeaseExpires, Go, StartOp, Apply, Settle, TakeGate

\* What a look at a table repaired adds up when the repair commits: the counters are
\* what is attached, and nothing attached belongs to a task that has ended, unless a
\* worker whose task was taken over, or the one that took it over, committed meanwhile
\* (HealsTheTable of ActivityState).
THEOREM RepairAlwaysHeals ==
  ASSUME Parameters
  PROVE  Spec => HealsTheTable
<1> DEFINE Heals == \A x \in Tables :
             lock[x] = Reader /\ lock'[x] = NoOne /\ Ended(Reader) /\ ~stirred => ~Drifted(x)'
<1>1. IInv /\ [Next]_activityVars => [Heals]_activityVars
  <2> SUFFICES ASSUME IInv, Next, NEW x \in Tables, lock[x] = Reader, lock'[x] = NoOne,
                      Ended(Reader), ~stirred
               PROVE  ~Drifted(x)'
    OBVIOUS
  <2>0. TypeOK /\ Reader \in Process /\ Repaired /\ Good(Reader)
    BY ProcessesApart DEF IInv
  <2>1. Commit(Reader)
    BY RepairCommits
  <2>2. /\ x \in DOMAIN tx[Reader].show /\ tx[Reader].show[x] = Count(View(Reader), x)
        /\ \A r \in View(Reader) : r.table = x => Alive(r.task)
    BY <2>0 DEF Repaired, Ended
  <2>3. /\ refs' = View(Reader) /\ row' = Rows(Reader)
        /\ shown' = Over(tx[Reader].show, shown)
    BY <2>1 DEF Commit
  <2>4. shown'[x] = Count(refs', x)
    <3>1. Over(tx[Reader].show, shown)[x] = tx[Reader].show[x]
      BY <2>2, OverAt
    <3>2. shown'[x] = tx[Reader].show[x]
      BY <2>3, <3>1
    <3> QED
      BY <2>2, <2>3, <3>2
  <2>5. ASSUME NEW r \in refs', r.table = x
        PROVE  Alive(r.task)'
    <3>1. r.task \in Tasks /\ Wrote(Reader) = {}
      BY <2>0, <2>3, ViewTyped, RefIs DEF Good, Reads
    <3>2. row'[r.task] = row[r.task]
      BY <2>0, <2>3, <3>1, RowsAt
    <3> QED
      BY <2>2, <2>3, <2>5, <3>2 DEF Alive
  <2> QED
    BY <2>4, <2>5 DEF Drifted, Count
<1> QED
  BY <1>1, AlwaysInOrder, PTL DEF Spec, HealsTheTable

---------------------------------------------------------------------------
(* the gates                                                               *)

LEMMA GatedAside ==
  ASSUME NEW q \in Process, Gated(q), tx'[q] = tx[q],
         \A x \in Tables : gate'[x] = q => gate[x] = q,
         \A t \in Tasks : rowLock'[t] = q => rowLock[t] = q /\ row'[t].by = row[t].by
  PROVE  Gated(q)'
BY DEF Gated

LEMMA ClosedGated ==
  ASSUME AtGates, TypeOK, NEW p \in Process, Close(p),
         \A q \in Process \ {p}, t \in Tasks : rowLock[t] = q => row'[t].by = row[t].by
  PROVE  AtGates'
<1>1. Gated(p)'
  BY CloseDoes, IdleIs DEF Gated
<1>2. ASSUME NEW q \in Process \ {p}
      PROVE  Gated(q)'
  BY CloseDoes, GatedAside DEF AtGates
<1> QED
  BY <1>1, <1>2 DEF AtGates

LEMMA CommitGated ==
  ASSUME IInv, AtGates, NEW p \in Process, Commit(p)
  PROVE  AtGates'
<1>0. TypeOK /\ Close(p) /\ row' = Rows(p) /\ Good(p) /\ Unborn
  BY DEF IInv, Commit
<1>1. ASSUME NEW q \in Process \ {p}, NEW t \in Tasks, rowLock[t] = q
      PROVE  row'[t].by = row[t].by
  <2>1. t \notin Wrote(p)
    BY <1>0, <1>1, ProcessesApart DEF Good, Written, New, Unborn
  <2> QED
    BY <1>0, <2>1, RowsAt
<1> QED
  BY <1>0, <1>1, ClosedGated

LEMMA RollBackGated ==
  ASSUME IInv, AtGates, NEW p \in Process, RollBack(p)
  PROVE  AtGates'
BY ClosedGated DEF IInv, RollBack

LEMMA CrashGated ==
  ASSUME IInv, AtGates, NEW w \in Workers, Crash(w)
  PROVE  AtGates'
<1>0. TypeOK /\ Close(w) /\ w \in Process
  BY ProcessesApart DEF IInv, Crash
<1>1. row' = [t \in Tasks |-> IF row[t].by = w THEN [row[t] EXCEPT !.expired = TRUE] ELSE row[t]]
  BY DEF Crash
<1>2. \A t \in Tasks : row'[t].by = row[t].by
  BY <1>0, <1>1 DEF TypeOK, RowStates
<1> QED
  BY <1>0, <1>2, ClosedGated

\* A transaction that begins has been at no gate before.
LEMMA OpenGated ==
  ASSUME IInv, IInv', AtGates, NEW p \in Process, NEW ops \in Seq(Ops), ops # <<>>, NEW rows,
         NEW then, Open(p, ops, rows, then), UNCHANGED <<row, lock, gate>>,
         \A i \in 1 .. Len(ops) : ops[i].does = "attach" =>
           \A t \in Tasks : rowLock'[t] = p => row[t].by = NoOne,
         \A q \in Process \ {p}, t \in Tasks : rowLock'[t] = q => rowLock[t] = q
  PROVE  AtGates'
<1> DEFINE r == [Idle EXCEPT !.open = TRUE, !.ops = ops, !.rows = rows, !.then = then]
           s == tx'[p]
           op == Head(ops)
           at == Touches(refs, op)
           now == [op EXCEPT !.at = at]
           next == <<now>> \o Tail(ops)
           q1 == IF op.does \in {"done", "retry"} THEN r ELSE Started(r, refs)
<1>0. /\ TypeOK /\ TypeOK' /\ Good(p)' /\ ~tx[p].open /\ tx[p] = Idle
      /\ tx' = [tx EXCEPT ![p] = q1]
  BY DEF IInv, Good, Begun, Open
<1>1. /\ \A q \in Process \ {p} : tx'[q] = tx[q]
      /\ s = IF op.does \in {"done", "retry"} THEN r ELSE Started(r, refs)
  <2> HIDE DEF q1
  <2>1. s = q1 /\ \A q \in Process \ {p} : tx'[q] = tx[q]
    BY <1>0, Moves
  <2> QED
    BY <2>1 DEF q1
<1>2. \A x \in Tables : gate[x] # p
  BY <1>0, IdleIs DEF AtGates, Gated
<1>3. r.open /\ r.ops = ops /\ r.step = "next"
  BY DEF Idle
<1>4. op \in Ops /\ op = ops[1] /\ Tail(ops) \in Seq(Ops) /\ Len(ops) \in Nat
  OBVIOUS
<1>5. \/ op.does \in {"done", "retry"} /\ s.ops = ops /\ s.step = "next"
      \/ s.ops = Tail(ops) /\ s.step = "next"
      \/ s.ops = next /\ s.step = (IF op.does = "attach" THEN "gates" ELSE "locks")
  <2>1. CASE op.does \in {"done", "retry"}
    BY <1>1, <1>3, <2>1
  <2>2. CASE op.does \notin {"done", "retry"} /\ at = {}
    BY <1>1, <2>2 DEF Started, Idle
  <2>3. CASE op.does \notin {"done", "retry"} /\ at # {}
    BY <1>1, <2>3 DEF Started, Idle
  <2> QED
    BY <2>1, <2>2, <2>3
<1>6. /\ Len(next) = Len(ops) /\ next[1].does = op.does
      /\ \A i \in 2 .. Len(next) : next[i] = ops[i]
  <2>1. now.does = op.does
    BY <1>4 DEF Ops
  <2> HIDE DEF now, op
  <2> QED
    BY <1>4, <2>1
<1>7. \A i \in 1 .. Len(Tail(ops)) : Tail(ops)[i] = ops[i + 1] /\ i + 1 \in 2 .. Len(ops)
  BY <1>4
<1> HIDE DEF next, op, s
<1>8. \A i \in 1 .. Len(s.ops) : \E j \in 1 .. Len(ops) : s.ops[i].does = ops[j].does
  <2>1. CASE op.does \in {"done", "retry"} /\ s.ops = ops /\ s.step = "next"
    BY <1>4, <2>1
  <2>2. CASE s.ops = Tail(ops) /\ s.step = "next"
    BY <1>4, <1>7, <2>2
  <2>3. CASE s.ops = next /\ s.step = (IF op.does = "attach" THEN "gates" ELSE "locks")
    <3>1. ASSUME NEW i \in 1 .. Len(next)
          PROVE  i \in 1 .. Len(ops) /\ next[i].does = ops[i].does
      <4>1. i \in 1 .. Len(ops) /\ (i = 1 \/ i \in 2 .. Len(next))
        BY <1>4, <1>6
      <4> QED
        BY <1>4, <1>6, <4>1
    <3> QED
      BY <2>3, <3>1
  <2> QED
    BY <1>5, <2>1, <2>2, <2>3
<1>10. Gated(p)'
  BY <1>2, <1>8 DEF Gated, s
<1>11. ASSUME NEW q \in Process \ {p}
       PROVE  Gated(q)'
  BY <1>1, GatedAside DEF AtGates
<1> QED
  BY <1>10, <1>11 DEF AtGates

LEMMA OneOpGated ==
  ASSUME IInv, IInv', AtGates, NEW p \in Process, NEW op \in Ops, NEW rows, NEW then,
         Open(p, <<op>>, rows, then), UNCHANGED <<row, lock, gate>>,
         op.does = "attach" => \A t \in Tasks : rowLock'[t] = p => row[t].by = NoOne,
         \A q \in Process \ {p}, t \in Tasks : rowLock'[t] = q => rowLock[t] = q
  PROVE  AtGates'
<1> DEFINE ops == <<op>>
<1>1. ops \in Seq(Ops) /\ ops # <<>> /\ \A i \in 1 .. Len(ops) : ops[i] = op
  OBVIOUS
<1> HIDE DEF ops
<1>2. Open(p, ops, rows, then)
  BY DEF ops
<1> QED
  BY <1>1, <1>2, OpenGated

LEMMA TwoOpsGated ==
  ASSUME IInv, IInv', AtGates, NEW p \in Process, NEW op \in Ops, NEW then,
         NEW op2 \in Ops, NEW rows,
         Open(p, <<op, op2>>, rows, then), UNCHANGED <<row, lock, gate, rowLock>>
  PROVE  AtGates'
<1> DEFINE ops == <<op, op2>>
<1>1. ops \in Seq(Ops) /\ ops # <<>>
  OBVIOUS
<1> HIDE DEF ops
<1>2. Open(p, ops, rows, then)
  BY DEF ops
<1>3. \A t \in Tasks : rowLock'[t] # p
  BY NothingLocked DEF Open
<1> QED
  BY <1>1, <1>2, <1>3, OpenGated

LEMMA UserGated ==
  ASSUME Parameters, IInv, IInv', AtGates, NEW w \in Writers, UserWrites(w)
  PROVE  AtGates'
<1>0. TypeOK /\ w \in Process /\ Leased
  BY ProcessesApart DEF IInv
<1>1. ASSUME NEW n \in 1 .. PerTransaction, NEW at \in Plans \cup {{}}, EnqueueNew(w, n, at)
      PROVE  AtGates'
  <2>1. PICK first \in Tasks :
          /\ first .. first + n - 1 \subseteq Unused
          /\ Open(w, [i \in 1 .. n |-> Op("attach", first + i - 1, at)],
                  [t \in first .. first + n - 1 |-> Pending(at)], Free)
    BY <1>0, <1>1, EnqueueNewBegins
  <2> DEFINE ops == [i \in 1 .. n |-> Op("attach", first + i - 1, at)]
  <2>2. n \in Nat /\ n >= 1 /\ first \in Nat /\ at \in SUBSET Tables
    BY ActivityAssumption DEF Parameters
  <2>3. ops \in Seq(Ops) /\ Len(ops) = n /\ ops # <<>>
    <3>1. \A i \in 1 .. n : first + i - 1 \in Tasks
      <4>1. \A i \in 1 .. n : first + i - 1 \in first .. first + n - 1
        BY <2>2
      <4> QED
        BY <2>1, <4>1 DEF Unused
    <3>2. \A i \in 1 .. n : Op("attach", first + i - 1, at) \in Ops
      BY <2>2, <3>1, OpIs
    <3>3. ops \in [1 .. n -> Ops]
      BY <3>2
    <3> HIDE DEF ops
    <3>4. ops \in Seq(Ops) /\ Len(ops) = n
      BY <2>2, <3>3
    <3> QED
      BY <2>2, <3>4
  <2> HIDE DEF ops
  <2>4. Open(w, ops, [t \in first .. first + n - 1 |-> Pending(at)], Free)
    BY <2>1 DEF ops
  <2>5. UNCHANGED <<row, lock, gate>> /\ rowLock' = rowLock
    BY <1>1 DEF EnqueueNew
  <2>6. \A t \in Tasks : rowLock'[t] # w
    BY <1>0, <2>4, <2>5, NothingLocked DEF Open
  <2> QED
    BY <1>0, <2>3, <2>4, <2>5, <2>6, OpenGated
<1>2. ASSUME NEW t \in Tasks, NEW at \in Plans, EnqueueMerge(w, t, at)
      PROVE  AtGates'
  <2>1. /\ Open(w, <<Op("attach", t, at)>>, <<>>, Free) /\ UNCHANGED <<row, lock, gate>>
        /\ row[t].status = "pending" /\ rowLock' = [rowLock EXCEPT ![t] = w] /\ ~tx[w].open
    BY <1>2 DEF EnqueueMerge, Open
  <2>2. Op("attach", t, at) \in Ops
    BY OpIs DEF Parameters
  <2>3. rowLock'[t] = w /\ \A u \in Tasks : u # t => rowLock'[u] = rowLock[u]
    BY <1>0, <2>1 DEF TypeOK
  <2>4. \A u \in Tasks : rowLock'[u] = w => row[u].by = NoOne
    BY <1>0, <2>1, <2>3, NothingLocked DEF Leased
  <2>5. \A q \in Process \ {w}, u \in Tasks : rowLock'[u] = q => rowLock[u] = q
    BY <2>3
  <2> QED
    BY <1>0, <2>1, <2>2, <2>4, <2>5, OneOpGated
<1> QED
  BY <1>1, <1>2 DEF UserWrites

LEMMA WorkerGated ==
  ASSUME Parameters, IInv, IInv', AtGates, NEW w \in Workers,
         ClaimSome(w) \/ Work(w) \/ Return(w)
  PROVE  AtGates'
<1>0. TypeOK /\ w \in Process
  BY ProcessesApart DEF IInv
<1>1. ASSUME NEW t \in Tasks, Claim(w, t)
      PROVE  AtGates'
  <2> DEFINE op == Op("run", t, {})
  <2>1. op \in Ops /\ op.does = "run"
    BY OpIs
  <2>2. /\ rowLock' = [rowLock EXCEPT ![t] = w] /\ UNCHANGED <<row, lock, gate>>
        /\ Open(w, <<op>>,
             [r \in {t} |-> [row[t] EXCEPT !.status = "processing", !.by = w, !.expired = FALSE]],
             [task |-> t, planned |-> row[t].planned])
    BY <1>1 DEF Claim
  <2> HIDE DEF op
  <2>3. \A q \in Process \ {w}, u \in Tasks : rowLock'[u] = q => rowLock[u] = q
    BY <1>0, <2>2 DEF TypeOK
  <2> QED
    BY <1>0, <2>1, <2>2, <2>3, OneOpGated
<1>2. ASSUME NEW does \in {"done", "retry"}, hand[w] # Free, UNCHANGED <<row, lock, gate, rowLock>>,
             Open(w, <<Op(does, hand[w].task, {})>>, <<>>, Free)
      PROVE  AtGates'
  <2> DEFINE op == Op(does, hand[w].task, {})
  <2>1. op \in Ops /\ op.does # "attach"
    <3>1. hand[w].task \in Tasks
      BY <1>0, <1>2, HandIs
    <3>2. op \in Ops /\ op.does = does
      BY <3>1, OpIs
    <3> QED
      BY <3>2
  <2>2. Open(w, <<op>>, <<>>, Free) /\ UNCHANGED <<row, lock, gate>>
    BY <1>2
  <2> HIDE DEF op
  <2> QED
    BY <1>0, <1>2, <2>1, <2>2, OneOpGated
<1>3. Finish(w) \/ Return(w) => AtGates'
  BY <1>2 DEF Finish, Return
<1>4. ASSUME NEW at \in Plans, Register(w, at)
      PROVE  AtGates'
  <2> DEFINE op == Op("attach", hand[w].task, at)
             op2 == Op("run", hand[w].task, {})
  <2>1. /\ hand[w] # Free /\ Open(w, <<op, op2>>, <<>>, [hand[w] EXCEPT !.planned = TRUE])
        /\ UNCHANGED <<row, lock, gate, rowLock>>
    BY <1>4 DEF Register
  <2>2. op \in Ops /\ op2 \in Ops
    BY <1>0, <2>1, HandIs, OpIs DEF Parameters
  <2> HIDE DEF op, op2
  <2> QED
    BY <1>0, <2>1, <2>2, TwoOpsGated
<1>5. ASSUME NEW at \in Plans, FinishStage(w, at)
      PROVE  AtGates'
  <2> DEFINE next == Least(Unused)
             op == Op("attach", next, at)
             op2 == Op("done", hand[w].task, {})
  <2>1. /\ hand[w] # Free /\ Open(w, <<op, op2>>, [r \in {next} |-> Pending(at)], Free)
        /\ UNCHANGED <<row, lock, gate, rowLock>> /\ Unused # {}
    BY <1>5 DEF FinishStage
  <2>2. next \in Tasks
    BY <2>1, LeastOf, ActivityAssumption DEF Unused
  <2> HIDE DEF next
  <2>3. op \in Ops /\ op2 \in Ops
    <3>1. hand[w].task \in Tasks
      BY <1>0, <2>1, HandIs
    <3>2. op2 \in Ops
      BY <3>1, OpIs
    <3>3. op \in Ops
      BY <2>2, OpIs DEF Parameters
    <3> QED
      BY <3>2, <3>3
  <2> HIDE DEF op, op2
  <2> QED
    BY <1>0, <2>1, <2>3, TwoOpsGated
<1> QED
  BY <1>1, <1>3, <1>4, <1>5 DEF ClaimSome, Work

LEMMA LookGated ==
  ASSUME IInv, IInv', AtGates, NEW x \in Tables, Look(x)
  PROVE  AtGates'
<1> DEFINE op == Op("heal", 0, {x})
<1>1. op \in Ops /\ op.does # "attach"
  BY OpIs
<1>2. Open(Reader, <<op>>, <<>>, Free) /\ UNCHANGED <<row, lock, gate>> /\ rowLock' = rowLock
  BY DEF Look
<1> HIDE DEF op
<1> QED
  BY <1>1, <1>2, OneOpGated, ProcessesApart

\* Between two operations a transaction holds no gate, and locks a row only where no
\* enqueue is left.
LEMMA LaterGated ==
  ASSUME AtGates, NEW p \in Process, tx[p].step = "next",
         Follows(tx'[p].ops, tx[p].ops), \A q \in Process \ {p} : tx'[q] = tx[q],
         UNCHANGED <<row, lock, gate>>,
         \A q \in Process \ {p}, t \in Tasks : rowLock'[t] = q => rowLock[t] = q,
         \/ \A t \in Tasks : rowLock'[t] = p => rowLock[t] = p
         \/ \A i \in 1 .. Len(tx[p].ops) : tx[p].ops[i].does # "attach"
  PROVE  AtGates'
<1>1. Gated(p) /\ \A x \in Tables : gate[x] # p
  BY DEF AtGates, Gated
<1>2. \A i \in 1 .. Len(tx'[p].ops) : \E j \in 1 .. Len(tx[p].ops) :
        tx'[p].ops[i].does = tx[p].ops[j].does
  BY DEF Follows
<1>3. Gated(p)'
  BY <1>1, <1>2 DEF Gated
<1>4. ASSUME NEW q \in Process \ {p}
      PROVE  Gated(q)'
  BY GatedAside DEF AtGates
<1> QED
  BY <1>3, <1>4 DEF AtGates

LEMMA StartOpGated ==
  ASSUME IInv, AtGates, NEW p \in Process, StartOp(p)
  PROVE  AtGates'
<1>1. /\ \A q \in Process \ {p} : tx'[q] = tx[q]
      /\ tx[p].step = "next" /\ Follows(tx'[p].ops, tx[p].ops)
      /\ UNCHANGED <<row, rowLock, lock, gate>>
  BY StartOpDoes
<1> QED
  BY <1>1, LaterGated

LEMMA SettleGated ==
  ASSUME IInv, AtGates, NEW p \in Process, Settle(p)
  PROVE  AtGates'
<1> DEFINE r == tx[p]
           s == tx'[p]
           op == Now(p)
<1>0. /\ TypeOK /\ r.open /\ r.step = "next" /\ r.ops # <<>> /\ Len(r.ops) = 1
      /\ op = r.ops[1] /\ op.task \in Tasks /\ r.ops \in Seq(Ops) /\ IsTransaction(r)
      /\ op.does # "attach"
  BY SettlesIs, Fields DEF IInv, TypeOK, Settle
<1>1. CASE row[op.task].by # p
  <2>1. tx' = [tx EXCEPT ![p].ops = Tail(@)] /\ UNCHANGED <<row, rowLock, lock, gate>>
    BY <1>1 DEF Settle
  <2>2. s.ops = Tail(r.ops) /\ s.open /\ \A q \in Process \ {p} : tx'[q] = tx[q]
    <3>1. tx' = [tx EXCEPT ![p] = [r EXCEPT !.ops = Tail(r.ops)]]
      BY <1>0, <2>1 DEF TypeOK
    <3>2. s = [r EXCEPT !.ops = Tail(r.ops)] /\ \A q \in Process \ {p} : tx'[q] = tx[q]
      BY <1>0, <3>1, Moves
    <3> QED
      BY <1>0, <3>2 DEF IsTransaction
  <2>3. Follows(s.ops, r.ops)
    BY <1>0, <2>2, TailFollows
  <2> QED
    BY <1>0, <2>1, <2>2, <2>3, LaterGated
<1>2. CASE row[op.task].by = p
  <2>1. /\ \A q \in Process \ {p} : tx'[q] = tx[q]
        /\ s.open /\ UNCHANGED <<row, lock, gate>>
        /\ \/ s.ops = <<>>
           \/ Len(s.ops) = 1 /\ s.ops[1].does = op.does /\ s.ops[1].task = op.task
        /\ rowLock'[op.task] = p /\ \A u \in Tasks : u # op.task => rowLock'[u] = rowLock[u]
    <3> DEFINE at == Touches(View(p), op)
    <3>1. /\ \A q \in Process \ {p} : tx'[q] = tx[q]
          /\ s.open /\ UNCHANGED <<row, refs, shown, lock, gate, hand, late, stirred, merges, faults>>
          /\ \/ at = {} /\ s.ops = <<>> /\ s.step = "next"
             \/ /\ at # {} /\ Len(s.ops) = 1 /\ s.todo = at /\ s.step = "locks"
                /\ s.ops[1].does = op.does /\ s.ops[1].task = op.task /\ s.ops[1].at = at
                /\ Head(s.ops) = s.ops[1] /\ s.ops # <<>>
          /\ rowLock'[op.task] = p
          /\ \A u \in Tasks : u # op.task => rowLock'[u] = rowLock[u]
      BY <1>2, SettleDoes
    <3> HIDE DEF at, s, op
    <3> QED
      BY <3>1
  <2>2. Follows(s.ops, r.ops)
    <3>1. CASE s.ops = <<>>
      BY <3>1 DEF Follows
    <3>2. CASE Len(s.ops) = 1 /\ s.ops[1].does = op.does /\ s.ops[1].task = op.task
      BY <1>0, <3>2 DEF Follows
    <3> QED
      BY <2>1, <3>1, <3>2
  <2>3. \A q \in Process \ {p}, t \in Tasks : rowLock'[t] = q => rowLock[t] = q
    BY <2>1
  <2> QED
    BY <1>0, <2>1, <2>2, <2>3, LaterGated
<1> QED
  BY <1>1, <1>2

LEMMA TakeGateGated ==
  ASSUME IInv, AtGates, NEW p \in Process, TakeGate(p)
  PROVE  AtGates'
<1> DEFINE r == tx[p]
           s == tx'[p]
           x == NextGate(p)
           rest == r.todo \ {x}
<1>0. /\ TypeOK /\ IsTransaction(r) /\ r.step = "gates" /\ r.open /\ r.todo # {}
      /\ Gated(p) /\ r.todo \subseteq Tables
  BY Fields DEF IInv, TypeOK, TakeGate, Good, Begun, AtGates
<1>1. /\ gate' = [gate EXCEPT ![x] = p] /\ UNCHANGED <<row, rowLock, lock>>
      /\ tx' = IF rest = {} THEN [tx EXCEPT ![p].step = "locks", ![p].todo = Now(p).at]
               ELSE [tx EXCEPT ![p].todo = rest]
  BY DEF TakeGate
<1>2. x \in r.todo /\ x \in Tables /\ \A y \in rest : x < y
  <2>1. r.todo \in SUBSET Nat
    BY <1>0, ActivityAssumption
  <2>2. x \in r.todo /\ \A y \in r.todo : x <= y
    BY <1>0, <2>1, LeastOf DEF NextGate
  <2> QED
    BY <1>0, <2>1, <2>2
<1>3. /\ s.ops = r.ops /\ s.open /\ \A q \in Process \ {p} : tx'[q] = tx[q]
      /\ s.step = "locks" \/ (s.step = "gates" /\ s.todo = rest)
  <2> DEFINE q1 == IF rest = {} THEN [r EXCEPT !.step = "locks", !.todo = Now(p).at]
                   ELSE [r EXCEPT !.todo = rest]
  <2>1. tx' = [tx EXCEPT ![p] = q1]
    BY <1>0, <1>1 DEF TypeOK
  <2>2. /\ q1.ops = r.ops /\ q1.open = r.open
        /\ q1.step = "locks" \/ (q1.step = "gates" /\ q1.todo = rest)
    BY <1>0 DEF IsTransaction
  <2> HIDE DEF q1
  <2>3. s = q1 /\ \A q \in Process \ {p} : tx'[q] = tx[q]
    BY <1>0, <2>1, Moves
  <2> QED
    BY <1>0, <2>2, <2>3
<1>4. gate'[x] = p /\ \A y \in Tables : y # x => gate'[y] = gate[y]
  BY <1>0, <1>1, <1>2 DEF TypeOK
<1> HIDE DEF x
<1>5. s.step = "gates" => \A z \in Tables : gate'[z] = p => \A y \in s.todo : z < y
  <2> SUFFICES ASSUME s.todo = rest, NEW z \in Tables, gate'[z] = p, NEW y \in rest
               PROVE  z < y
    BY <1>3
  <2>1. CASE z = x
    BY <1>2, <2>1
  <2>2. CASE z # x
    BY <1>0, <1>4, <2>2 DEF Gated
  <2> QED
    BY <2>1, <2>2
<1>6. Gated(p)'
  BY <1>0, <1>1, <1>3, <1>5 DEF Gated
<1>7. ASSUME NEW q \in Process \ {p}
      PROVE  Gated(q)'
  BY <1>1, <1>3, <1>4, GatedAside DEF AtGates
<1> QED
  BY <1>6, <1>7 DEF AtGates

LEMMA TakeLockGated ==
  ASSUME IInv, AtGates, NEW p \in Process, TakeLock(p)
  PROVE  AtGates'
<1> DEFINE r == tx[p]
           s == tx'[p]
           x == Least(r.todo)
           q1 == [r EXCEPT !.todo = @ \ {x}]
<1>0. TypeOK /\ IsTransaction(r) /\ r.step = "locks" /\ r.open /\ Gated(p)
  BY DEF IInv, TypeOK, TakeLock, Good, Begun, AtGates
<1>1. /\ lock' = [lock EXCEPT ![x] = p] /\ UNCHANGED <<row, rowLock, gate>>
      /\ tx' = [tx EXCEPT ![p].todo = @ \ {x}]
  BY DEF TakeLock
<1>2. tx' = [tx EXCEPT ![p] = q1]
  BY <1>0, <1>1 DEF TypeOK
<1>3. q1.ops = r.ops /\ q1.open = r.open /\ q1.step = r.step
  BY <1>0 DEF IsTransaction
<1> HIDE DEF q1
<1>4. s = q1 /\ \A q \in Process \ {p} : tx'[q] = tx[q]
  BY <1>0, <1>2, Moves
<1>5. \A q \in Process \ {p}, y \in Tables : lock'[y] = q => lock[y] = q
  BY <1>0, <1>1 DEF TypeOK
<1>6. Gated(p)'
  BY <1>0, <1>1, <1>3, <1>4 DEF Gated
<1>7. ASSUME NEW q \in Process \ {p}
      PROVE  Gated(q)'
  BY <1>1, <1>4, <1>5, GatedAside DEF AtGates
<1> QED
  BY <1>6, <1>7 DEF AtGates

LEMMA ApplyGated ==
  ASSUME Parameters, IInv, AtGates, NEW p \in Process, Apply(p)
  PROVE  AtGates'
<1> DEFINE r == tx[p]
           s == tx'[p]
<1>0. TypeOK /\ Gated(p)
  BY DEF IInv, AtGates
<1>1. /\ \A q \in Process \ {p} : tx'[q] = tx[q]
      /\ r.ops # <<>> /\ s.open /\ s.ops = Tail(r.ops) /\ s.step = "next"
      /\ UNCHANGED <<row, rowLock, lock>>
  BY ApplyDoes
<1>2. gate' = Released(gate, p) /\ gate \in [Tables -> Process \cup {NoOne}]
  BY <1>0 DEF Apply, TypeOK
<1>3. \A y \in Tables : gate'[y] # p /\ \A q \in Process \ {p} : gate'[y] = q => gate[y] = q
  BY <1>2, ReleasedIs
<1>4. \A i \in 1 .. Len(s.ops) : s.ops[i] = r.ops[i + 1] /\ i + 1 \in 1 .. Len(r.ops)
  BY <1>0, <1>1, NowIs
<1>6. Gated(p)'
  BY <1>0, <1>1, <1>3, <1>4 DEF Gated
<1>7. ASSUME NEW q \in Process \ {p}
      PROVE  Gated(q)'
  BY <1>1, <1>3, GatedAside DEF AtGates
<1> QED
  BY <1>6, <1>7 DEF AtGates

LEMMA StepGated ==
  ASSUME Parameters, IInv, IInv', AtGates, [Next]_activityVars
  PROVE  AtGates'
<1>0. TypeOK
  BY DEF IInv
<1>1. CASE UNCHANGED activityVars
  BY <1>1 DEF activityVars, AtGates, Gated
<1>2. ASSUME NEW w \in Writers, UserWrites(w)
      PROVE  AtGates'
  BY <1>2, UserGated
<1>3. ASSUME NEW w \in Workers, ClaimSome(w) \/ Work(w) \/ Return(w) \/ Crash(w)
      PROVE  AtGates'
  BY <1>3, WorkerGated, CrashGated
<1>4. ASSUME LookSome
      PROVE  AtGates'
  BY <1>4, LookGated DEF LookSome
<1>5. ASSUME NEW t \in Tasks, LeaseExpires(t)
      PROVE  AtGates'
  <2>1. row' = [row EXCEPT ![t].expired = TRUE] /\ UNCHANGED <<tx, rowLock, lock, gate>>
    BY <1>5 DEF LeaseExpires
  <2>2. \A s \in Tasks : row'[s].by = row[s].by
    BY <1>0, <2>1 DEF TypeOK, RowStates
  <2> QED
    BY <2>1, <2>2, GatedAside DEF AtGates
<1>6. ASSUME NEW p \in Process,
             Go(p) \/ Settle(p) \/ TakeGate(p) \/ TakeLock(p) \/ RollBack(p)
      PROVE  AtGates'
  BY <1>6, StartOpGated, ApplyGated, CommitGated, SettleGated, TakeGateGated, TakeLockGated,
     RollBackGated DEF Go
<1> QED
  BY <1>1, <1>2, <1>3, <1>4, <1>5, <1>6 DEF Next

\* Nobody waits for a process at the gates, unless it enqueues again, but another one
\* at the gates, at a gate that comes before.
LEMMA WaitsForGates ==
  ASSUME IInv, AtGates, NEW p \in Process, NEW q \in Process, tx[q].step = "gates",
         ~EnqueuesAgain(q), Blocker(p) = q
  PROVE  tx[p].step = "gates" /\ NextGate(p) < NextGate(q)
<1>0. TypeOK /\ Gated(q) /\ q # NoOne
  BY ProcessesApart DEF IInv, AtGates
<1>1. ASSUME NEW r \in Process, tx[r].todo # {}
      PROVE  Least(tx[r].todo) \in tx[r].todo /\ Least(tx[r].todo) \in Tables
  <2>1. tx[r].todo \subseteq Tables
    BY <1>0, Fields DEF TypeOK
  <2> QED
    BY <1>1, <2>1, LeastOf, ActivityAssumption
<1>2. CASE tx[p].step = "gates"
  <2>1. tx[p].todo # {} /\ tx[q].todo # {}
    BY <1>2 DEF IInv, Good, Begun
  <2>2. gate[NextGate(p)] = q
    BY <1>2 DEF Blocker
  <2> QED
    BY <1>0, <1>1, <1>2, <2>1, <2>2 DEF Gated, NextGate
<1>3. CASE tx[p].step # "gates"
  <2>1. Awaited(p) = q
    BY <1>3 DEF Blocker
  <2>2. ~(tx[p].step = "locks" /\ tx[p].todo # {} /\ lock[Least(tx[p].todo)] = q)
    BY <1>1 DEF EnqueuesAgain
  <2>3. ~(Settles(p) /\ row[Now(p).task].by = p /\ rowLock[Now(p).task] = q)
    <3>1. tx[q].ops # <<>> /\ Now(q).does = "attach"
      BY DEF IInv, Good, Begun
    <3>2. \A t \in Tasks : rowLock[t] = q => row[t].by = NoOne
      BY <1>0, <3>1, NowIs DEF Gated
    <3> QED
      BY <3>2, SettlesIs, ProcessesApart
  <2> QED
    BY <1>0, <2>1, <2>2, <2>3 DEF Awaited
<1> QED
  BY <1>2, <1>3

\* However often a transaction enqueues: a circle of waiting transactions that the
\* database does not see has one in it that waits at a gate of the process with the locks
\* of an enqueue it made before; nothing else closes such a circle (CyclesAreSeen of
\* ActivityState).
THEOREM CyclesAlwaysSeen ==
  ASSUME Parameters
  PROVE  Spec => []CyclesAreSeen
<1>1. Init => IInv /\ AtGates
  <2>1. \A p \in Process : Init => tx[p] = Idle
    BY DEF Init
  <2>2. Idle.ops = <<>> /\ Len(<<>>) = 0 /\ Idle.step = "next"
    BY IdleIs
  <2>3. Init => AtGates
    BY <2>1, <2>2, ProcessesApart DEF Init, AtGates, Gated
  <2> QED
    BY <2>3, InitHolds
<1>2. (IInv /\ AtGates) /\ [Next]_activityVars => (IInv /\ AtGates)'
  BY StepKeeps, StutteringKeeps, StepGated
<1>3. IInv /\ AtGates => CyclesAreSeen
  <2> DEFINE seen == [p \in Process |-> Awaited(p)]
             real == [p \in Process |-> Blocker(p)]
  <2> SUFFICES ASSUME IInv, AtGates, NEW C \in SUBSET Process, Circle(real, C),
                      \A p \in C : ~EnqueuesAgain(p)
               PROVE  Circle(seen, C)
    BY DEF CyclesAreSeen
  <2>1. {real[q] : q \in C} = C
    BY DEF Circle
  <2> DEFINE G == {q \in C : tx[q].step = "gates"}
  <2>2. G = {}
    <3> SUFFICES ASSUME G # {}
                 PROVE  FALSE
      OBVIOUS
    <3>1. \A q \in G : NextGate(q) \in Tables /\ NextGate(q) \in Nat
      <4> SUFFICES ASSUME NEW q \in G
                   PROVE  NextGate(q) \in Tables /\ NextGate(q) \in Nat
        OBVIOUS
      <4>1. tx[q].todo # {} /\ tx[q].todo \subseteq Tables
        BY Fields DEF IInv, Good, Begun, TypeOK
      <4> QED
        BY <4>1, LeastOf, ActivityAssumption DEF NextGate
    <3> DEFINE N == {NextGate(q) : q \in G}
    <3>2. PICK q \in G : \A r \in G : NextGate(q) <= NextGate(r)
      <4>1. N \in SUBSET Nat /\ N # {}
        BY <3>1
      <4> HIDE DEF N
      <4>2. Least(N) \in N /\ \A n \in N : Least(N) <= n
        BY <4>1, LeastOf
      <4> QED
        BY <4>2 DEF N
    <3>3. PICK r \in C : Blocker(r) = q
      BY <2>1
    <3>4. r \in G /\ NextGate(r) < NextGate(q)
      BY <3>3, WaitsForGates
    <3> QED
      BY <3>1, <3>2, <3>4
  <2>3. \A q \in C : seen[q] = real[q]
    BY <2>2 DEF Blocker
  <2>4. {seen[q] : q \in C} = C
    <3> HIDE DEF seen, real
    <3> QED
      BY <2>1, <2>3
  <2> QED
    BY <2>4 DEF Circle
<1> QED
  BY <1>1, <1>2, <1>3, PTL DEF Spec
=============================================================================
