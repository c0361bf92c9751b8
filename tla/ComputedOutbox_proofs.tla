----------------------- MODULE ComputedOutbox_proofs -----------------------
(* Theorems about ComputedOutbox and their proofs.                          *)
EXTENDS ComputedOutbox, TLAPS

-----------------------------------------------------------------------------
(* Rows *)

LEMMA WithRow ==
    ASSUME NEW S \in SUBSET Task, NEW tbl \in [S -> Row],
           NEW t \in Task, NEW r \in Row
    PROVE  With(tbl, t, r) \in [S \cup {t} -> Row]
BY DEF With

LEMMA WithoutRow ==
    ASSUME NEW S \in SUBSET Task, NEW tbl \in [S -> Row], NEW t
    PROVE  Without(tbl, t) \in [S \ {t} -> Row]
BY DEF Without

\* What a writer asks for, stored or merged, is still seeds and tables.
LEMMA StoredType ==
    ASSUME NEW p \in Plan, NEW pay \in [items : SUBSET Item, all : SUBSET Table]
    PROVE  Stored(p, pay) \in [items : SUBSET Item, all : SUBSET Table]
BY DEF Stored, Kept

LEMMA NewRowType ==
    ASSUME NEW p \in Plan, NEW solo \in BOOLEAN,
           NEW pay \in [items : SUBSET Item, all : SUBSET Table]
    PROVE  /\ NewRow(p, solo, pay) \in Row
           /\ NewSeedRows(p, pay) \in SUBSET Item
<1> DEFINE s == Stored(p, pay)
<1>1. s \in [items : SUBSET Item, all : SUBSET Table]
  BY StoredType
<1>2. SpillsFor(p, s.items) \in BOOLEAN
  BY DEF SpillsFor, Spills
<1>3. 0 \in 0 .. MaxAttempts - 1
  BY LimitsAssumption
<1> QED
  BY <1>1, <1>2, <1>3 DEF NewRow, NewSeedRows, Row

LEMMA SeedsOfType ==
    ASSUME TypeOK, NEW t \in Rows
    PROVE  SeedsOf(t) \in SUBSET Item
BY DEF TypeOK, SeedsOf, Row, Rows

LEMMA MergedType ==
    ASSUME TypeOK, NEW t \in Rows,
           NEW pay \in [items : SUBSET Item, all : SUBSET Table]
    PROVE  Merged(t, pay) \in [items : SUBSET Item, all : SUBSET Table]
<1>1. outbox[t] \in Row /\ outbox[t].plan \in Plan
  BY DEF TypeOK, Row, Rows
<1>2. KindOf[outbox[t].plan] \in {"computed", "seed", "backfill"}
  BY <1>1, FunctionsAssumption
<1> QED
  BY <1>1, <1>2, SeedsOfType DEF Merged, Kept, Row

LEMMA MergedRowType ==
    ASSUME TypeOK, NEW t \in Rows,
           NEW pay \in [items : SUBSET Item, all : SUBSET Table]
    PROVE  /\ MergedRow(t, pay) \in Row
           /\ MergedSeedRows(t, pay) \in SUBSET Item
<1> DEFINE m == Merged(t, pay)
<1>1. m \in [items : SUBSET Item, all : SUBSET Table]
  BY MergedType
<1>2. SpillsFor(outbox[t].plan, m.items) \in BOOLEAN
  BY DEF SpillsFor, Spills
<1>3. outbox[t] \in Row /\ seedRows[t] \in SUBSET Item
  BY DEF TypeOK, Rows
<1> QED
  BY <1>1, <1>2, <1>3 DEF MergedRow, MergedSeedRows, Row

LEMMA ReturnedType ==
    ASSUME TypeOK, NEW t \in Rows
    PROVE  Returned(t) \in Row
<1>1. outbox[t] \in Row
  BY DEF TypeOK
<1> QED
  BY <1>1 DEF Returned, Row

\* The single columns that claims, heartbeats and the clock set.
LEMMA RowTakenType ==
    ASSUME NEW r \in Row, NEW o \in Owner
    PROVE  [r EXCEPT !.status = "processing", !.owner = o, !.live = TRUE] \in Row
BY DEF Row

LEMMA RowClockType ==
    ASSUME NEW r \in Row, NEW b \in BOOLEAN
    PROVE  [r EXCEPT !.live = b] \in Row /\ [r EXCEPT !.due = b] \in Row
BY DEF Row

LEMMA SnapshotType ==
    ASSUME TypeOK, NEW t \in Rows
    PROVE  Snapshot(t) \in Claim
<1>1. outbox[t] \in Row /\ t \in Task
  BY DEF TypeOK, Rows
<1> QED
  BY <1>1, SeedsOfType DEF Snapshot, Claim, Row

-----------------------------------------------------------------------------
(* Type correctness *)

LEMMA TypeInit == Init => TypeOK
BY DEF Init, TypeOK, Rows

LEMMA TypeEnqueue ==
    ASSUME TypeOK, Enqueue
    PROVE  TypeOK'
<1>1. PICK t \in Task, p \in Plan, pay \in Payload :
          \/ EnqueueNew(t, p, pay)
          \/ EnqueueMerge(t, p, pay)
          \/ EnqueueBypass(t, p, pay)
  BY DEF Enqueue
<1>2. pay \in [items : SUBSET Item, all : SUBSET Table]
  BY FunctionsAssumption
<1>3. ASSUME NEW solo \in BOOLEAN,
             outbox' = With(outbox, t, NewRow(p, solo, pay)),
             seedRows' = [seedRows EXCEPT ![t] = NewSeedRows(p, pay)],
             UNCHANGED <<deadLetter, held, paused>>
      PROVE  TypeOK'
  <2>1. NewRow(p, solo, pay) \in Row /\ NewSeedRows(p, pay) \in SUBSET Item
    BY <1>2, NewRowType
  <2>2. outbox' \in [Rows \cup {t} -> Row]
    BY <1>3, <2>1, WithRow DEF TypeOK, Rows
  <2> QED
    BY <1>3, <2>1, <2>2 DEF TypeOK, Rows
<1>4. CASE EnqueueNew(t, p, pay)
  BY <1>3, <1>4 DEF EnqueueNew
<1>5. CASE EnqueueMerge(t, p, pay)
  <2>1. t \in Rows
    BY <1>5 DEF EnqueueMerge, FindPending
  <2>2. MergedRow(t, pay) \in Row /\ MergedSeedRows(t, pay) \in SUBSET Item
    BY <1>2, <2>1, MergedRowType
  <2> QED
    BY <1>5, <2>1, <2>2 DEF EnqueueMerge, TypeOK, Rows
<1>6. CASE EnqueueBypass(t, p, pay)
  BY <1>3, <1>6 DEF EnqueueBypass
<1> QED
  BY <1>1, <1>4, <1>5, <1>6

LEMMA TypeTake ==
    ASSUME TypeOK, NEW o \in Owner, NEW T \in SUBSET Rows, Take(o, T)
    PROVE  TypeOK'
<1>1. \A t \in T : Snapshot(t) \in Claim
  BY SnapshotType
<1>2. held' \in [Owner -> SUBSET Claim]
  BY <1>1 DEF Take, TypeOK
<1>3. outbox' \in [Rows -> Row]
  <2>1. \A t \in Rows : outbox[t] \in Row
    BY DEF TypeOK
  <2>2. \A t \in Rows :
          [outbox[t] EXCEPT !.status = "processing", !.owner = o, !.live = TRUE] \in Row
    BY <2>1, RowTakenType
  <2> QED
    BY <2>1, <2>2 DEF Take
<1> QED
  BY <1>2, <1>3 DEF Take, TypeOK, Rows

LEMMA TypeSettle ==
    ASSUME TypeOK, NEW o \in Owner, Settle(o)
    PROVE  TypeOK'
<1>1. PICK c \in held[o] :
          \/ LeaseLost(o, c)
          \/ MarkDone(o, c)
          \/ ReleaseReturn(o, c)
          \/ \E twin \in Twins(c) : ReleaseMerge(o, c, twin)
          \/ ReleaseBypass(o, c)
          \/ \E direct \in BOOLEAN : FailDead(o, c, direct)
          \/ FailRetry(o, c)
          \/ FailRefused(o, c)
  BY DEF Settle
<1>2. c \in Claim
  BY DEF TypeOK
<1>3. ASSUME Drop(o, c)
      PROVE  held' \in [Owner -> SUBSET Claim]
  BY <1>3 DEF Drop, TypeOK
<1>4. ASSUME outbox' = Without(outbox, c.task), seedRows' = Settled(c.task)
      PROVE  /\ Rows' \subseteq Task
             /\ outbox' \in [Rows' -> Row]
             /\ seedRows' \in [Task -> SUBSET Item]
  <2>1. outbox' \in [Rows \ {c.task} -> Row]
    BY <1>4, WithoutRow DEF TypeOK
  <2>2. Rows' = Rows \ {c.task}
    BY <2>1 DEF Rows
  <2>3. seedRows' \in [Task -> SUBSET Item]
    BY <1>4 DEF Settled, TypeOK
  <2> QED
    BY <2>1, <2>2, <2>3 DEF TypeOK
<1>5. CASE LeaseLost(o, c)
  BY <1>3, <1>5 DEF LeaseLost, TypeOK, Rows
<1>6. CASE MarkDone(o, c)
  BY <1>3, <1>4, <1>6 DEF MarkDone, TypeOK
<1>7. ASSUME NEW r \in Row, c.task \in Rows, outbox' = [outbox EXCEPT ![c.task] = r],
             Drop(o, c), UNCHANGED <<seedRows, deadLetter, paused>>
      PROVE  TypeOK'
  BY <1>3, <1>7 DEF TypeOK, Rows
<1>8. CASE ReleaseReturn(o, c)
  BY <1>7, <1>8, ReturnedType DEF ReleaseReturn, Owns
<1>9. CASE \E twin \in Twins(c) : ReleaseMerge(o, c, twin)
  <2>1. PICK twin \in Twins(c) : ReleaseMerge(o, c, twin)
    BY <1>9
  <2>2. twin \in Rows
    BY <2>1 DEF Twins, FindPending
  <2>3. RetryInput(c) \in [items : SUBSET Item, all : SUBSET Table]
    BY <1>2 DEF RetryInput, Claim
  <2> DEFINE r == MergedRow(twin, RetryInput(c))
             q == MergedSeedRows(twin, RetryInput(c))
             mid == [outbox EXCEPT ![twin] = r]
  <2>4. r \in Row /\ q \in SUBSET Item
    BY <2>2, <2>3, MergedRowType
  <2>5. mid \in [Rows -> Row]
    BY <2>2, <2>4 DEF TypeOK, Rows
  <2>6. outbox' \in [Rows \ {c.task} -> Row]
    BY <2>1, <2>5, WithoutRow DEF TypeOK, ReleaseMerge
  <2>7. seedRows' \in [Task -> SUBSET Item]
    BY <2>1, <2>4 DEF TypeOK, ReleaseMerge, Settled
  <2> QED
    BY <1>3, <2>1, <2>6, <2>7 DEF TypeOK, ReleaseMerge, Rows
<1>10. CASE ReleaseBypass(o, c)
  <2>1. c.task \in Rows
    BY <1>10 DEF ReleaseBypass, Owns
  <2>2. [Returned(c.task) EXCEPT !.solo = TRUE] \in Row
    BY <2>1, ReturnedType DEF Row
  <2> QED
    BY <1>7, <1>10, <2>1, <2>2 DEF ReleaseBypass
<1>11. CASE \E direct \in BOOLEAN : FailDead(o, c, direct)
  <2>1. DeadRecord(c) \in DeadTask
    BY <1>2 DEF DeadRecord, DeadTask, Claim
  <2> QED
    BY <1>3, <1>4, <1>11, <2>1 DEF FailDead, TypeOK
<1>12. CASE FailRetry(o, c)
  <2>1. c.task \in Rows
    BY <1>12 DEF FailRetry, Owns
  <2>2. c.attempts + 1 \in 0 .. MaxAttempts - 1
    BY <1>2, <1>12, LimitsAssumption DEF FailRetry, BudgetLeft, Claim
  <2>3. [Returned(c.task) EXCEPT !.attempts = c.attempts + 1] \in Row
    BY <2>1, <2>2, ReturnedType DEF Row
  <2> QED
    BY <1>7, <1>12, <2>1, <2>3 DEF FailRetry
<1>13. CASE FailRefused(o, c)
  BY <1>3, <1>13 DEF FailRefused, TypeOK, Rows
<1> QED
  BY <1>1, <1>5, <1>6, <1>8, <1>9, <1>10, <1>11, <1>12, <1>13

LEMMA TypeNext == TypeOK /\ [Next]_vars => TypeOK'
<1> SUFFICES ASSUME TypeOK, [Next]_vars
             PROVE  TypeOK'
  OBVIOUS
<1>1. CASE Enqueue
  BY <1>1, TypeEnqueue
<1>2. ASSUME NEW o \in Owner, ClaimStep(o)
      PROVE  TypeOK'
  <2>1. PICK T \in SUBSET Rows : Take(o, T)
    BY <1>2 DEF ClaimStep, ClaimBatch, ClaimById, TakeOver
  <2> QED
    BY <2>1, TypeTake
<1>3. ASSUME NEW o \in Owner, RenewLease(o)
      PROVE  TypeOK'
  <2>1. \A t \in Rows : outbox[t] \in Row /\ [outbox[t] EXCEPT !.live = TRUE] \in Row
    BY RowClockType DEF TypeOK
  <2>2. outbox' \in [Rows -> Row]
    BY <1>3, <2>1 DEF RenewLease
  <2> QED
    BY <1>3, <2>2 DEF RenewLease, TypeOK, Rows
<1>4. ASSUME NEW o \in Owner, Settle(o)
      PROVE  TypeOK'
  BY <1>4, TypeSettle
<1>5. ASSUME NEW o \in Owner, Crash(o)
      PROVE  TypeOK'
  BY <1>5 DEF Crash, TypeOK, Rows
<1>6. CASE Environment
  <2>1. ASSUME NEW t \in Rows, LeaseExpires(t)
        PROVE  TypeOK'
    <3>1. [outbox[t] EXCEPT !.live = FALSE] \in Row
      BY RowClockType DEF TypeOK
    <3>2. outbox' = [outbox EXCEPT ![t] = [outbox[t] EXCEPT !.live = FALSE]]
      BY <2>1 DEF LeaseExpires
    <3> QED
      BY <2>1, <3>1, <3>2 DEF LeaseExpires, TypeOK, Rows
  <2>2. ASSUME NEW t \in Rows, BecomesDue(t)
        PROVE  TypeOK'
    <3>1. [outbox[t] EXCEPT !.due = TRUE] \in Row
      BY RowClockType DEF TypeOK
    <3>2. outbox' = [outbox EXCEPT ![t] = [outbox[t] EXCEPT !.due = TRUE]]
      BY <2>2 DEF BecomesDue
    <3> QED
      BY <2>2, <3>1, <3>2 DEF BecomesDue, TypeOK, Rows
  <2>3. ASSUME NEW s \in PauseScope, PauseOne(s) \/ ResumeOne(s)
        PROVE  TypeOK'
    BY <2>3 DEF PauseOne, ResumeOne, TypeOK, Rows
  <2> QED
    BY <1>6, <2>1, <2>2, <2>3 DEF Environment
<1>7. CASE UNCHANGED vars
  BY <1>7 DEF vars, TypeOK, Rows
<1> QED
  BY <1>1, <1>2, <1>3, <1>4, <1>5, <1>6, <1>7 DEF Next

\* The tables and the memory of the runs always hold what they are meant to
\* hold, for any number of rows, runs, plans and seeds.
THEOREM TypeCorrect == Spec => []TypeOK
BY TypeInit, TypeNext, PTL DEF Spec

-----------------------------------------------------------------------------
(* What a run has in memory is what the row says *)

\* A step that lets no run gain a claim or a row, and leaves the rows that
\* stay owned as they are, keeps OwnerSeesRow.
LEMMA SightKept ==
    ASSUME OwnerSeesRow,
           \A x \in Owner : held'[x] \subseteq held[x],
           \A x \in Owner : \A t \in Task :
               Owns(x, t)' => Owns(x, t) /\ Snapshot(t)' = Snapshot(t),
           TypeOK
    PROVE  OwnerSeesRow'
<1> SUFFICES ASSUME NEW x \in Owner, NEW c \in held'[x], Owns(x, c.task)'
             PROVE  c = Snapshot(c.task)'
  BY DEF OwnerSeesRow
<1>1. c \in held[x] /\ c.task \in Task
  BY DEF TypeOK, Claim
<1>2. Owns(x, c.task) /\ Snapshot(c.task)' = Snapshot(c.task)
  BY <1>1
<1> QED
  BY <1>1, <1>2 DEF OwnerSeesRow

\* The columns a snapshot is made of.
LEMMA SnapshotKept ==
    ASSUME NEW t,
           outbox'[t].plan = outbox[t].plan,
           outbox'[t].solo = outbox[t].solo,
           outbox'[t].attempts = outbox[t].attempts,
           outbox'[t].inline = outbox[t].inline,
           outbox'[t].spilled = outbox[t].spilled,
           outbox'[t].all = outbox[t].all,
           seedRows'[t] = seedRows[t]
    PROVE  Snapshot(t)' = Snapshot(t)
BY DEF Snapshot, SeedsOf

\* A step that only deletes rows, or rewrites rows that are then pending, and
\* leaves the others and their seeds alone.
LEMMA SightKeptOutside ==
    ASSUME TypeOK, OwnerSeesRow, NEW W \in SUBSET Task,
           \A x \in Owner : held'[x] \subseteq held[x],
           \A t \in W : t \in Rows' => outbox'[t].status = "pending",
           \A t \in Task \ W : t \in Rows' => t \in Rows /\ outbox'[t] = outbox[t],
           \A t \in Task \ W : seedRows'[t] = seedRows[t]
    PROVE  OwnerSeesRow'
<1> SUFFICES ASSUME NEW x \in Owner, NEW t \in Task, Owns(x, t)'
             PROVE  Owns(x, t) /\ Snapshot(t)' = Snapshot(t)
  BY SightKept
<1>1. t \notin W
  BY DEF Owns, Pending, Processing
<1>2. outbox'[t] = outbox[t] /\ seedRows'[t] = seedRows[t] /\ t \in Rows
  BY <1>1 DEF Owns
<1> QED
  BY <1>2, SnapshotKept DEF Owns, Processing

LEMMA SightEnqueue ==
    ASSUME TypeOK, OwnerSeesRow, Enqueue
    PROVE  OwnerSeesRow'
<1>1. PICK t \in Task, p \in Plan, pay \in Payload :
          \/ EnqueueNew(t, p, pay)
          \/ EnqueueMerge(t, p, pay)
          \/ EnqueueBypass(t, p, pay)
  BY DEF Enqueue
<1>2. held' = held
  BY <1>1 DEF EnqueueNew, EnqueueMerge, EnqueueBypass
<1>3. \A u \in Task \ {t} : seedRows'[u] = seedRows[u]
  BY <1>1 DEF EnqueueNew, EnqueueMerge, EnqueueBypass, TypeOK
<1>4. \A u \in Task \ {t} : u \in Rows' => u \in Rows /\ outbox'[u] = outbox[u]
  <2>1. CASE EnqueueNew(t, p, pay)
    BY <2>1 DEF EnqueueNew, With, Rows
  <2>2. CASE EnqueueBypass(t, p, pay)
    BY <2>2 DEF EnqueueBypass, With, Rows
  <2>3. CASE EnqueueMerge(t, p, pay)
    BY <2>3 DEF EnqueueMerge, Rows, TypeOK
  <2> QED
    BY <1>1, <2>1, <2>2, <2>3
<1>5. Pending(t)'
  <2>1. CASE EnqueueNew(t, p, pay) \/ EnqueueBypass(t, p, pay)
    BY <2>1 DEF EnqueueNew, EnqueueBypass, With, NewRow, Pending
  <2>2. CASE EnqueueMerge(t, p, pay)
    <3>1. t \in Rows /\ outbox[t] \in Row /\ outbox[t].status = "pending"
      BY <2>2 DEF EnqueueMerge, FindPending, Pending, TypeOK
    <3>2. MergedRow(t, pay).status = outbox[t].status
      BY <3>1 DEF MergedRow, Row
    <3> QED
      BY <2>2, <3>1, <3>2 DEF EnqueueMerge, Pending, Rows
  <2> QED
    BY <1>1, <2>1, <2>2
<1>6. \A u \in {t} : u \in Rows' => outbox'[u].status = "pending"
  BY <1>5 DEF Pending
<1>7. \A x \in Owner : held'[x] \subseteq held[x]
  BY <1>2
<1>8. {t} \in SUBSET Task
  OBVIOUS
<1> QED
  BY <1>3, <1>4, <1>6, <1>7, <1>8, SightKeptOutside

LEMMA SightTake ==
    ASSUME TypeOK, OwnerSeesRow, NEW o \in Owner, NEW T \in SUBSET Rows, Take(o, T)
    PROVE  OwnerSeesRow'
<1>1. \A t \in Rows : outbox[t] \in Row
  BY DEF TypeOK
<1>2. Rows' = Rows /\ seedRows' = seedRows
  BY DEF Take, Rows
<1>3. \A t \in Rows : Snapshot(t)' = Snapshot(t)
  <2> SUFFICES ASSUME NEW t \in Rows
               PROVE  Snapshot(t)' = Snapshot(t)
    OBVIOUS
  <2>1. \/ outbox'[t] = outbox[t]
        \/ outbox'[t] = [outbox[t] EXCEPT !.status = "processing",
                                          !.owner = o, !.live = TRUE]
    BY DEF Take
  <2> QED
    BY <1>1, <1>2, <2>1, SnapshotKept DEF Row
<1> SUFFICES ASSUME NEW x \in Owner, NEW c \in held'[x], Owns(x, c.task)'
             PROVE  c = Snapshot(c.task)'
  BY DEF OwnerSeesRow
<1>4. c.task \in Rows
  BY <1>2 DEF Owns
<1>5. CASE x = o
  <2>1. PICK t \in T : c = Snapshot(t)
    BY <1>5 DEF Take, TypeOK
  <2>2. c.task = t
    BY <2>1 DEF Snapshot
  <2> QED
    BY <1>3, <2>1, <2>2
<1>6. CASE x # o
  <2>1. c \in held[x]
    BY <1>6 DEF Take, TypeOK
  <2>2. c.task \notin T
    <3> SUFFICES ASSUME c.task \in T
                 PROVE  FALSE
      OBVIOUS
    <3>1. outbox'[c.task].owner = o
      BY <1>1, <1>4 DEF Take, Row
    <3> QED
      BY <1>6, <3>1 DEF Owns
  <2>3. outbox'[c.task] = outbox[c.task]
    BY <1>4, <2>2 DEF Take
  <2>4. Owns(x, c.task)
    BY <1>4, <2>3 DEF Owns, Processing
  <2> QED
    BY <1>3, <1>4, <2>1, <2>4 DEF OwnerSeesRow
<1> QED
  BY <1>5, <1>6

LEMMA SightSettle ==
    ASSUME TypeOK, OwnerSeesRow, NEW o \in Owner, NEW c \in held[o], c.task \in Task,
           \/ LeaseLost(o, c)
           \/ MarkDone(o, c)
           \/ ReleaseReturn(o, c)
           \/ ReleaseBypass(o, c)
           \/ \E direct \in BOOLEAN : FailDead(o, c, direct)
           \/ FailRetry(o, c)
           \/ FailRefused(o, c)
    PROVE  OwnerSeesRow'
<1>1. \A x \in Owner : held'[x] \subseteq held[x]
  BY DEF LeaseLost, MarkDone, ReleaseReturn, ReleaseBypass, FailDead, FailRetry,
         FailRefused, Drop, TypeOK
<1>2. \A t \in Task \ {c.task} : seedRows'[t] = seedRows[t]
  BY DEF LeaseLost, MarkDone, ReleaseReturn, ReleaseBypass, FailDead, FailRetry,
         FailRefused, Settled, TypeOK
<1>3. \A t \in Task \ {c.task} : t \in Rows' => t \in Rows /\ outbox'[t] = outbox[t]
  <2>1. CASE LeaseLost(o, c) \/ FailRefused(o, c)
    BY <2>1 DEF LeaseLost, FailRefused, Rows
  <2>2. CASE MarkDone(o, c) \/ \E direct \in BOOLEAN : FailDead(o, c, direct)
    BY <2>2 DEF MarkDone, FailDead, Without, Rows
  <2>3. CASE ReleaseReturn(o, c) \/ ReleaseBypass(o, c) \/ FailRetry(o, c)
    BY <2>3 DEF ReleaseReturn, ReleaseBypass, FailRetry, Rows, TypeOK
  <2> QED
    BY <2>1, <2>2, <2>3
<1>4. CASE LeaseLost(o, c) \/ FailRefused(o, c)
  <2>1. \A t \in Task : Owns(o, t)' = Owns(o, t)
    BY <1>4 DEF LeaseLost, FailRefused, Owns, Processing, Rows
  <2> QED
    BY <1>1, <1>4, SightKept
    DEF LeaseLost, FailRefused, Owns, Processing, Rows, Snapshot, SeedsOf
<1>5. CASE MarkDone(o, c) \/ \E direct \in BOOLEAN : FailDead(o, c, direct)
  <2>1. c.task \notin Rows'
    BY <1>5 DEF MarkDone, FailDead, Without, Rows
  <2>2. \A t \in {c.task} : t \in Rows' => outbox'[t].status = "pending"
    BY <2>1
  <2>3. {c.task} \in SUBSET Task
    OBVIOUS
  <2> QED
    BY <1>1, <1>2, <1>3, <2>2, <2>3, SightKeptOutside
<1>6. CASE ReleaseReturn(o, c) \/ ReleaseBypass(o, c) \/ FailRetry(o, c)
  <2>1. outbox[c.task] \in Row /\ c.task \in Rows
    BY <1>6 DEF ReleaseReturn, ReleaseBypass, FailRetry, Owns, TypeOK
  <2>2. Returned(c.task) \in Row /\ Returned(c.task).status = "pending"
    BY <2>1, ReturnedType DEF Returned, Row
  <2>3. outbox'[c.task].status = "pending"
    BY <1>6, <2>1, <2>2 DEF ReleaseReturn, ReleaseBypass, FailRetry, Rows, Row
  <2>4. \A t \in {c.task} : t \in Rows' => outbox'[t].status = "pending"
    BY <2>3
  <2>5. {c.task} \in SUBSET Task
    OBVIOUS
  <2> QED
    BY <1>1, <1>2, <1>3, <2>4, <2>5, SightKeptOutside
<1> QED
  BY <1>4, <1>5, <1>6

LEMMA SightReleaseMerge ==
    ASSUME TypeOK, OwnerSeesRow, NEW o \in Owner, NEW c \in held[o], c.task \in Task,
           NEW twin \in Twins(c), ReleaseMerge(o, c, twin)
    PROVE  OwnerSeesRow'
<1>1. twin \in Rows /\ twin \in Task /\ outbox[twin] \in Row /\ Pending(twin)
  BY DEF Twins, FindPending, TypeOK
<1>2. twin # c.task
  BY <1>1 DEF ReleaseMerge, Owns, Pending, Processing
<1> DEFINE W == {twin, c.task}
<1>3. \A x \in Owner : held'[x] \subseteq held[x]
  BY DEF ReleaseMerge, Drop, TypeOK
<1>4. \A t \in Task \ W : seedRows'[t] = seedRows[t]
  BY <1>1 DEF ReleaseMerge, Settled, TypeOK
<1>5. \A t \in Task \ W : t \in Rows' => t \in Rows /\ outbox'[t] = outbox[t]
  BY <1>1 DEF ReleaseMerge, Without, Rows, TypeOK
<1>6. c.task \notin Rows'
  BY DEF ReleaseMerge, Without, Rows
<1>7. Pending(twin)'
  <2>1. MergedRow(twin, RetryInput(c)).status = outbox[twin].status
    BY <1>1 DEF MergedRow, Row
  <2>2. outbox'[twin] = MergedRow(twin, RetryInput(c))
    BY <1>1, <1>2 DEF ReleaseMerge, Without, Rows
  <2> QED
    BY <1>1, <2>1, <2>2 DEF Pending
<1>8. \A t \in W : t \in Rows' => outbox'[t].status = "pending"
  BY <1>6, <1>7 DEF Pending
<1>9. W \in SUBSET Task
  BY <1>1
<1> HIDE DEF W
<1> QED
  BY <1>3, <1>4, <1>5, <1>8, <1>9, SightKeptOutside

LEMMA SightNext == TypeOK /\ OwnerSeesRow /\ [Next]_vars => OwnerSeesRow'
<1> SUFFICES ASSUME TypeOK, OwnerSeesRow, [Next]_vars
             PROVE  OwnerSeesRow'
  OBVIOUS
<1>1. CASE Enqueue
  BY <1>1, SightEnqueue
<1>2. ASSUME NEW o \in Owner, ClaimStep(o)
      PROVE  OwnerSeesRow'
  <2>1. PICK T \in SUBSET Rows : Take(o, T)
    BY <1>2 DEF ClaimStep, ClaimBatch, ClaimById, TakeOver
  <2> QED
    BY <2>1, SightTake
\* A step that changes at most the lease and due columns and drops claims.
<1>3. ASSUME \A x \in Owner : held'[x] \subseteq held[x],
             Rows' = Rows, seedRows' = seedRows,
             \A t \in Rows : \E b, d \in BOOLEAN :
                 outbox'[t] = [outbox[t] EXCEPT !.live = b, !.due = d]
      PROVE  OwnerSeesRow'
  <2> SUFFICES ASSUME NEW x \in Owner, NEW t \in Task, Owns(x, t)'
               PROVE  Owns(x, t) /\ Snapshot(t)' = Snapshot(t)
    BY <1>3, SightKept
  <2>1. t \in Rows /\ outbox[t] \in Row
    BY <1>3 DEF Owns, TypeOK
  <2>2. PICK b, d \in BOOLEAN : outbox'[t] = [outbox[t] EXCEPT !.live = b, !.due = d]
    BY <1>3, <2>1
  <2> QED
    BY <1>3, <2>1, <2>2, SnapshotKept DEF Row, Owns, Processing
<1>4. \A t \in Rows :
        /\ outbox[t] \in Row
        /\ outbox[t] = [outbox[t] EXCEPT !.live = outbox[t].live, !.due = outbox[t].due]
        /\ \A b \in BOOLEAN :
             /\ [outbox[t] EXCEPT !.live = b]
                   = [outbox[t] EXCEPT !.live = b, !.due = outbox[t].due]
             /\ [outbox[t] EXCEPT !.due = b]
                   = [outbox[t] EXCEPT !.live = outbox[t].live, !.due = b]
        /\ outbox[t].live \in BOOLEAN /\ outbox[t].due \in BOOLEAN
  BY DEF TypeOK, Row
<1>5. ASSUME NEW o \in Owner, RenewLease(o)
      PROVE  OwnerSeesRow'
  <2>1. Rows' = Rows /\ held' = held /\ seedRows' = seedRows
    BY <1>5 DEF RenewLease, Rows
  <2>2. \A t \in Rows : \/ outbox'[t] = outbox[t]
                        \/ outbox'[t] = [outbox[t] EXCEPT !.live = TRUE]
    BY <1>5 DEF RenewLease
  <2> QED
    BY <1>3, <1>4, <2>1, <2>2
<1>6. ASSUME NEW o \in Owner, Settle(o)
      PROVE  OwnerSeesRow'
  <2>1. \A c \in held[o] : c.task \in Task
    BY DEF TypeOK, Claim
  <2> QED
    BY <1>6, <2>1, SightSettle, SightReleaseMerge DEF Settle
<1>7. ASSUME NEW o \in Owner, Crash(o)
      PROVE  OwnerSeesRow'
  BY <1>3, <1>4, <1>7 DEF Crash, TypeOK, Rows
<1>8. CASE Environment
  <2>1. ASSUME NEW t \in Rows, LeaseExpires(t) \/ BecomesDue(t)
        PROVE  OwnerSeesRow'
    <3>1. Rows' = Rows /\ held' = held /\ seedRows' = seedRows
      BY <2>1 DEF LeaseExpires, BecomesDue, Rows
    <3>2. \A u \in Rows : \/ outbox'[u] = outbox[u]
                          \/ outbox'[u] = [outbox[u] EXCEPT !.live = FALSE]
                          \/ outbox'[u] = [outbox[u] EXCEPT !.due = TRUE]
      BY <2>1 DEF LeaseExpires, BecomesDue, TypeOK
    <3> QED
      BY <1>3, <1>4, <3>1, <3>2
  <2>2. ASSUME NEW s \in PauseScope, PauseOne(s) \/ ResumeOne(s)
        PROVE  OwnerSeesRow'
    BY <1>3, <1>4, <2>2 DEF PauseOne, ResumeOne, Rows
  <2> QED
    BY <1>8, <2>1, <2>2 DEF Environment
<1>9. CASE UNCHANGED vars
  BY <1>3, <1>4, <1>9 DEF vars, Rows
<1> QED
  BY <1>1, <1>2, <1>5, <1>6, <1>7, <1>8, <1>9 DEF Next

\* A run that still owns a row knows all of it: whatever it then does to the
\* row, it does not do to work it has not seen.
THEOREM OwnerAlwaysSeesRow == Spec => []OwnerSeesRow
<1>1. Init => OwnerSeesRow
  BY DEF Init, OwnerSeesRow
<1> QED
  BY <1>1, TypeInit, TypeNext, SightNext, PTL DEF Spec

-----------------------------------------------------------------------------
(* One pending row per plan *)

\* Only row t0 may become a merge target in the step, and no other row of its
\* plan is one.
LEMMA UniqueKept ==
    ASSUME PendingUnique, NEW t0,
           \A u \in Rows' \ {t0} : outbox'[u].status = "pending" =>
               /\ u \in Rows /\ outbox[u].status = "pending"
               /\ outbox'[u].plan = outbox[u].plan
               /\ outbox'[u].solo = outbox[u].solo,
           t0 \in Rows' /\ outbox'[t0].status = "pending" /\ ~outbox'[t0].solo =>
               FindPending(outbox'[t0].plan) \subseteq {t0}
    PROVE  PendingUnique'
<1> SUFFICES ASSUME NEW t \in Rows', NEW u \in Rows',
                    outbox'[t].status = "pending", outbox'[u].status = "pending",
                    ~outbox'[t].solo, ~outbox'[u].solo,
                    outbox'[t].plan = outbox'[u].plan
             PROVE  t = u
  BY DEF PendingUnique, Pending
<1>1. CASE t # t0 /\ u # t0
  BY <1>1 DEF PendingUnique, Pending
<1>2. CASE t = t0 /\ u # t0
  <2>1. u \in FindPending(outbox'[t0].plan)
    BY <1>2 DEF FindPending, Pending
  <2> QED
    BY <1>2, <2>1
<1>3. CASE t # t0 /\ u = t0
  <2>1. t \in FindPending(outbox'[t0].plan)
    BY <1>3 DEF FindPending, Pending
  <2> QED
    BY <1>3, <2>1
<1> QED
  BY <1>1, <1>2, <1>3

\* A step that makes no row pending.
LEMMA UniqueKeptAll ==
    ASSUME PendingUnique,
           \A u \in Rows' : outbox'[u].status = "pending" =>
               /\ u \in Rows /\ outbox[u].status = "pending"
               /\ outbox'[u].plan = outbox[u].plan
               /\ outbox'[u].solo = outbox[u].solo
    PROVE  PendingUnique'
BY DEF PendingUnique, Pending

LEMMA UniqueEnqueue ==
    ASSUME TypeOK, PendingUnique, Enqueue
    PROVE  PendingUnique'
<1>1. PICK t \in Task, p \in Plan, pay \in Payload :
          \/ EnqueueNew(t, p, pay)
          \/ EnqueueMerge(t, p, pay)
          \/ EnqueueBypass(t, p, pay)
  BY DEF Enqueue
<1>2. ASSUME NEW solo \in BOOLEAN, t \notin Rows,
             outbox' = With(outbox, t, NewRow(p, solo, pay)),
             solo \/ FindPending(p) = {}
      PROVE  PendingUnique'
  <2>1. /\ outbox'[t].plan = p
        /\ outbox'[t].solo = solo
    BY <1>2 DEF With, NewRow
  <2>2. \A u \in Rows' \ {t} : u \in Rows /\ outbox'[u] = outbox[u]
    BY <1>2 DEF With, Rows
  <2> QED
    BY <1>2, <2>1, <2>2, UniqueKept
<1>3. CASE EnqueueNew(t, p, pay)
  BY <1>2, <1>3 DEF EnqueueNew, FreeTask
<1>4. CASE EnqueueBypass(t, p, pay)
  BY <1>2, <1>4 DEF EnqueueBypass, FreeTask
<1>5. CASE EnqueueMerge(t, p, pay)
  <2>1. t \in Rows /\ outbox[t] \in Row /\ outbox[t].status = "pending"
    BY <1>5 DEF EnqueueMerge, FindPending, Pending, TypeOK
  <2>2. /\ MergedRow(t, pay).plan = outbox[t].plan
        /\ MergedRow(t, pay).solo = outbox[t].solo
    BY <2>1 DEF MergedRow, Row
  <2>3. /\ Rows' = Rows
        /\ outbox'[t] = MergedRow(t, pay)
        /\ \A u \in Rows \ {t} : outbox'[u] = outbox[u]
    BY <1>5, <2>1 DEF EnqueueMerge, Rows, TypeOK
  <2> QED
    BY <2>1, <2>2, <2>3, UniqueKeptAll
<1> QED
  BY <1>1, <1>3, <1>4, <1>5

LEMMA UniqueSettle ==
    ASSUME TypeOK, OwnerSeesRow, PendingUnique, NEW o \in Owner, NEW c \in held[o],
           \/ LeaseLost(o, c)
           \/ MarkDone(o, c)
           \/ ReleaseReturn(o, c)
           \/ ReleaseBypass(o, c)
           \/ \E direct \in BOOLEAN : FailDead(o, c, direct)
           \/ FailRetry(o, c)
           \/ FailRefused(o, c)
    PROVE  PendingUnique'
<1>1. CASE LeaseLost(o, c) \/ FailRefused(o, c)
  BY <1>1, UniqueKeptAll DEF LeaseLost, FailRefused, Rows
<1>2. CASE MarkDone(o, c) \/ \E direct \in BOOLEAN : FailDead(o, c, direct)
  <2>1. \A u \in Rows' : u \in Rows /\ outbox'[u] = outbox[u]
    BY <1>2 DEF MarkDone, FailDead, Without, Rows
  <2> QED
    BY <2>1, UniqueKeptAll
<1>3. CASE ReleaseReturn(o, c) \/ ReleaseBypass(o, c) \/ FailRetry(o, c)
  <2>1. outbox[c.task] \in Row /\ c.task \in Rows
    BY <1>3 DEF ReleaseReturn, ReleaseBypass, FailRetry, Owns, TypeOK
  <2>2. \A u \in Rows' \ {c.task} : u \in Rows /\ outbox'[u] = outbox[u]
    BY <1>3 DEF ReleaseReturn, ReleaseBypass, FailRetry, Rows, TypeOK
  <2> DEFINE r == Returned(c.task)
  <2>a. r \in Row /\ r.plan = outbox[c.task].plan /\ r.solo = outbox[c.task].solo
    BY <2>1, ReturnedType DEF Returned, Row
  <2>b. \/ ReleaseReturn(o, c) /\ outbox'[c.task] = r
        \/ ReleaseBypass(o, c) /\ outbox'[c.task] = [r EXCEPT !.solo = TRUE]
        \/ FailRetry(o, c) /\ outbox'[c.task] = [r EXCEPT !.attempts = c.attempts + 1]
    BY <1>3, <2>1 DEF ReleaseReturn, ReleaseBypass, FailRetry, Rows
  <2> HIDE DEF r
  <2>3. outbox'[c.task].plan = outbox[c.task].plan
    BY <2>a, <2>b DEF Row
  <2>4. c = Snapshot(c.task)
    BY <1>3 DEF OwnerSeesRow, ReleaseReturn, ReleaseBypass, FailRetry
  <2>5. c.plan = outbox[c.task].plan /\ c.solo = outbox[c.task].solo
    BY <2>4 DEF Snapshot
  <2>6. ~outbox'[c.task].solo => FindPending(outbox'[c.task].plan) = {}
    <3>1. CASE ReleaseBypass(o, c)
      <4>1. outbox'[c.task].solo
        BY <3>1, <2>1, <2>a DEF ReleaseBypass, r, Rows, Row
      <4> QED
        BY <4>1
    <3>2. CASE ReleaseReturn(o, c) \/ FailRetry(o, c)
      <4>1. outbox'[c.task].solo = outbox[c.task].solo
        BY <3>2, <2>1, <2>a DEF ReleaseReturn, FailRetry, r, Rows, Row
      <4> QED
        BY <3>2, <4>1, <2>3, <2>5 DEF ReleaseReturn, FailRetry, Twins
    <3> QED
      BY <1>3, <3>1, <3>2
  <2> QED
    BY <2>2, <2>6, UniqueKept
<1> QED
  BY <1>1, <1>2, <1>3

LEMMA UniqueReleaseMerge ==
    ASSUME TypeOK, PendingUnique, NEW o \in Owner, NEW c \in held[o],
           NEW twin \in Twins(c), ReleaseMerge(o, c, twin)
    PROVE  PendingUnique'
<1>1. twin \in Rows /\ outbox[twin] \in Row /\ outbox[twin].status = "pending"
  BY DEF Twins, FindPending, Pending, TypeOK
<1>2. /\ MergedRow(twin, RetryInput(c)).plan = outbox[twin].plan
      /\ MergedRow(twin, RetryInput(c)).solo = outbox[twin].solo
  BY <1>1 DEF MergedRow, Row
<1>3. \A u \in Rows' : /\ u \in Rows
                       /\ u # twin => outbox'[u] = outbox[u]
                       /\ u = twin => outbox'[u] = MergedRow(twin, RetryInput(c))
  BY <1>1 DEF ReleaseMerge, Without, Rows, TypeOK
<1> QED
  BY <1>1, <1>2, <1>3, UniqueKeptAll

LEMMA UniqueNext ==
    TypeOK /\ OwnerSeesRow /\ PendingUnique /\ [Next]_vars => PendingUnique'
<1> SUFFICES ASSUME TypeOK, OwnerSeesRow, PendingUnique, [Next]_vars
             PROVE  PendingUnique'
  OBVIOUS
<1>1. CASE Enqueue
  BY <1>1, UniqueEnqueue
<1>2. ASSUME NEW o \in Owner, ClaimStep(o)
      PROVE  PendingUnique'
  <2>1. PICK T \in SUBSET Rows : Take(o, T)
    BY <1>2 DEF ClaimStep, ClaimBatch, ClaimById, TakeOver
  <2>2. \A t \in Rows : outbox[t] \in Row
    BY DEF TypeOK
  <2>3. Rows' = Rows /\ \A t \in Rows :
            outbox'[t] = outbox[t] \/ outbox'[t].status = "processing"
    BY <2>1, <2>2 DEF Take, Rows, Row
  <2> QED
    BY <2>3, UniqueKeptAll
<1>3. ASSUME Rows' = Rows,
             \A t \in Rows : \/ outbox'[t] = outbox[t]
                            \/ \E b \in BOOLEAN : outbox'[t] = [outbox[t] EXCEPT !.live = b]
                            \/ \E d \in BOOLEAN : outbox'[t] = [outbox[t] EXCEPT !.due = d]
      PROVE  PendingUnique'
  <2>1. \A t \in Rows : outbox[t] \in Row
    BY DEF TypeOK
  <2>2. \A t \in Rows : /\ outbox'[t].status = outbox[t].status
                        /\ outbox'[t].plan = outbox[t].plan
                        /\ outbox'[t].solo = outbox[t].solo
    BY <1>3, <2>1 DEF Row
  <2> QED
    BY <1>3, <2>2, UniqueKeptAll
<1>4. ASSUME NEW o \in Owner, RenewLease(o)
      PROVE  PendingUnique'
  BY <1>3, <1>4 DEF RenewLease, Rows
<1>5. ASSUME NEW o \in Owner, Settle(o)
      PROVE  PendingUnique'
  BY <1>5, UniqueSettle, UniqueReleaseMerge DEF Settle
<1>6. ASSUME NEW o \in Owner, Crash(o)
      PROVE  PendingUnique'
  BY <1>3, <1>6 DEF Crash, Rows
<1>7. CASE Environment
  <2>1. ASSUME NEW t \in Rows, LeaseExpires(t) \/ BecomesDue(t)
        PROVE  PendingUnique'
    <3>1. Rows' = Rows
      BY <2>1 DEF LeaseExpires, BecomesDue, Rows
    <3>2. \A u \in Rows : \/ outbox'[u] = outbox[u]
                          \/ outbox'[u] = [outbox[u] EXCEPT !.live = FALSE]
                          \/ outbox'[u] = [outbox[u] EXCEPT !.due = TRUE]
      BY <2>1 DEF LeaseExpires, BecomesDue, TypeOK
    <3> QED
      BY <1>3, <3>1, <3>2
  <2>2. ASSUME NEW s \in PauseScope, PauseOne(s) \/ ResumeOne(s)
        PROVE  PendingUnique'
    BY <1>3, <2>2 DEF PauseOne, ResumeOne, Rows
  <2> QED
    BY <1>7, <2>1, <2>2 DEF Environment
<1>8. CASE UNCHANGED vars
  BY <1>3, <1>8 DEF vars, Rows
<1> QED
  BY <1>1, <1>2, <1>4, <1>5, <1>6, <1>7, <1>8 DEF Next

\* Enqueueing and releasing, by the merge lock and the look-up alone, never
\* leave two mergeable pending rows of one plan.
THEOREM PendingAlwaysUnique == Spec => []PendingUnique
<1>1. Init => OwnerSeesRow /\ PendingUnique
  BY DEF Init, OwnerSeesRow, PendingUnique, Rows
<1> QED
  BY <1>1, TypeInit, TypeNext, SightNext, UniqueNext, PTL DEF Spec

-----------------------------------------------------------------------------
(* Only the run that locked_by names settles a row *)

\* A step that ends no row's processing.
LEMMA SettledKept ==
    ASSUME \A t \in Rows : Processing(t) => t \in Rows' /\ Processing(t)'
    PROVE  SettledByOwner
BY DEF SettledByOwner

LEMMA SettledEnqueue ==
    ASSUME TypeOK, Enqueue
    PROVE  SettledByOwner
<1>1. PICK t \in Task, p \in Plan, pay \in Payload :
          \/ EnqueueNew(t, p, pay)
          \/ EnqueueMerge(t, p, pay)
          \/ EnqueueBypass(t, p, pay)
  BY DEF Enqueue
<1>2. CASE EnqueueNew(t, p, pay) \/ EnqueueBypass(t, p, pay)
  BY <1>2, SettledKept DEF EnqueueNew, EnqueueBypass, FreeTask, With, Rows, Processing
<1>3. CASE EnqueueMerge(t, p, pay)
  BY <1>3, SettledKept
  DEF EnqueueMerge, FindPending, Pending, Processing, Rows, TypeOK
<1> QED
  BY <1>1, <1>2, <1>3

\* What every settling step has in common: it needs the row, and drops the
\* claim; no other row leaves processing.
LEMMA SettledSettle ==
    ASSUME TypeOK, NEW o \in Owner, Settle(o)
    PROVE  SettledByOwner
<1>1. PICK c \in held[o] :
          \/ LeaseLost(o, c)
          \/ MarkDone(o, c)
          \/ ReleaseReturn(o, c)
          \/ \E twin \in Twins(c) : ReleaseMerge(o, c, twin)
          \/ ReleaseBypass(o, c)
          \/ \E direct \in BOOLEAN : FailDead(o, c, direct)
          \/ FailRetry(o, c)
          \/ FailRefused(o, c)
  BY DEF Settle
<1>2. CASE LeaseLost(o, c) \/ FailRefused(o, c)
  BY <1>2, SettledKept DEF LeaseLost, FailRefused, Rows, Processing
<1>3. ASSUME Owns(o, c.task), Drop(o, c),
             \A t \in Rows \ {c.task} : Processing(t) => t \in Rows' /\ Processing(t)'
      PROVE  SettledByOwner
  <2>1. c \notin held'[o] /\ outbox[c.task].owner = o
    BY <1>3 DEF Drop, Owns, TypeOK
  <2> QED
    BY <1>3, <2>1 DEF SettledByOwner
<1>4. CASE MarkDone(o, c) \/ \E direct \in BOOLEAN : FailDead(o, c, direct)
  <2>1. \A t \in Rows \ {c.task} : t \in Rows' /\ outbox'[t] = outbox[t]
    BY <1>4 DEF MarkDone, FailDead, Without, Rows
  <2> QED
    BY <1>3, <1>4, <2>1 DEF MarkDone, FailDead, Processing
<1>5. CASE ReleaseReturn(o, c) \/ ReleaseBypass(o, c) \/ FailRetry(o, c)
  <2>1. \A t \in Rows \ {c.task} : t \in Rows' /\ outbox'[t] = outbox[t]
    BY <1>5 DEF ReleaseReturn, ReleaseBypass, FailRetry, Rows, TypeOK
  <2> QED
    BY <1>3, <1>5, <2>1 DEF ReleaseReturn, ReleaseBypass, FailRetry, Processing
<1>6. ASSUME NEW twin \in Twins(c), ReleaseMerge(o, c, twin)
      PROVE  SettledByOwner
  <2>1. ~Processing(twin)
    BY DEF Twins, FindPending, Pending, Processing
  <2>2. \A t \in Rows \ {c.task} :
            t \in Rows' /\ (t # twin => outbox'[t] = outbox[t])
    BY <1>6 DEF ReleaseMerge, Without, Rows, TypeOK
  <2> QED
    BY <1>3, <1>6, <2>1, <2>2 DEF ReleaseMerge, Processing
<1> QED
  BY <1>1, <1>2, <1>4, <1>5, <1>6

LEMMA SettledNext == TypeOK /\ Next => SettledByOwner
<1> SUFFICES ASSUME TypeOK, Next
             PROVE  SettledByOwner
  OBVIOUS
<1>1. \A t \in Rows : outbox[t] \in Row
  BY DEF TypeOK
<1>2. CASE Enqueue
  BY <1>2, SettledEnqueue
<1>3. ASSUME NEW o \in Owner, ClaimStep(o)
      PROVE  SettledByOwner
  <2>1. PICK T \in SUBSET Rows : Take(o, T)
    BY <1>3 DEF ClaimStep, ClaimBatch, ClaimById, TakeOver
  <2>2. \A t \in Rows : outbox'[t] = outbox[t] \/ outbox'[t].status = "processing"
    BY <2>1, <1>1 DEF Take, Row
  <2> QED
    BY <2>1, <2>2, SettledKept DEF Take, Rows, Processing
<1>4. ASSUME NEW o \in Owner, RenewLease(o)
      PROVE  SettledByOwner
  <2>1. \A t \in Rows : outbox'[t].status = outbox[t].status
    BY <1>1, <1>4 DEF RenewLease, Row
  <2> QED
    BY <1>4, <2>1, SettledKept DEF RenewLease, Rows, Processing
<1>5. ASSUME NEW o \in Owner, Settle(o)
      PROVE  SettledByOwner
  BY <1>5, SettledSettle
<1>6. ASSUME NEW o \in Owner, Crash(o)
      PROVE  SettledByOwner
  BY <1>6, SettledKept DEF Crash, Rows, Processing
<1>7. CASE Environment
  <2>1. ASSUME NEW t \in Rows, LeaseExpires(t) \/ BecomesDue(t)
        PROVE  SettledByOwner
    <3>1. \A u \in Rows : outbox'[u].status = outbox[u].status
      BY <1>1, <2>1 DEF LeaseExpires, BecomesDue, TypeOK, Row
    <3> QED
      BY <2>1, <3>1, SettledKept DEF LeaseExpires, BecomesDue, Rows, Processing
  <2>2. ASSUME NEW s \in PauseScope, PauseOne(s) \/ ResumeOne(s)
        PROVE  SettledByOwner
    BY <2>2, SettledKept DEF PauseOne, ResumeOne, Rows, Processing
  <2> QED
    BY <1>7, <2>1, <2>2 DEF Environment
<1> QED
  BY <1>2, <1>3, <1>4, <1>5, <1>6, <1>7 DEF Next

\* A worker whose lease was taken over changes nothing by settling late.
THEOREM OnlyOwnerEverSettles == Spec => OnlyOwnerSettles
<1>1. TypeOK /\ [Next]_vars => [SettledByOwner]_vars
  BY SettledNext
<1> QED
  BY <1>1, TypeInit, TypeNext, PTL DEF Spec, OnlyOwnerSettles

-----------------------------------------------------------------------------
(* Spilled seeds belong to a spilled row *)

\* A row and its spilled seeds agree.
Agree(t) ==
    /\ seedRows[t] # {} => t \in Rows /\ outbox[t].spilled
    /\ t \in Rows /\ outbox[t].spilled => outbox[t].inline = {}

\* A step that leaves the columns of all rows outside W alone, and keeps the
\* rows of W in agreement.
LEMMA AgreeOutside ==
    ASSUME SeedRowsOwned, NEW W \in SUBSET Task,
           \A t \in Task \ W :
               /\ seedRows'[t] = seedRows[t]
               /\ t \in Rows' <=> t \in Rows
               /\ t \in Rows => /\ outbox'[t].spilled = outbox[t].spilled
                                /\ outbox'[t].inline = outbox[t].inline,
           \A t \in W : Agree(t)'
    PROVE  SeedRowsOwned'
<1> SUFFICES ASSUME NEW t \in Task PROVE Agree(t)'
  BY DEF SeedRowsOwned, Agree
<1>1. CASE t \in W
  BY <1>1
<1>2. CASE t \notin W
  BY <1>2 DEF SeedRowsOwned, Agree
<1> QED
  BY <1>1, <1>2

LEMMA AgreeOutsideOne ==
    ASSUME SeedRowsOwned, NEW t \in Task, Agree(t)',
           \A u \in Task \ {t} :
               /\ seedRows'[u] = seedRows[u]
               /\ u \in Rows' <=> u \in Rows
               /\ u \in Rows => outbox'[u] = outbox[u]
    PROVE  SeedRowsOwned'
<1>1. \A u \in {t} : Agree(u)'
  OBVIOUS
<1>2. {t} \in SUBSET Task
  OBVIOUS
<1> QED
  BY <1>1, <1>2, AgreeOutside

\* A merged row agrees with its seeds, whatever it held before.
LEMMA AgreeMerged ==
    ASSUME TypeOK, NEW t \in Rows,
           NEW pay \in [items : SUBSET Item, all : SUBSET Table],
           t \in Rows', outbox'[t] = MergedRow(t, pay),
           seedRows'[t] = MergedSeedRows(t, pay)
    PROVE  Agree(t)'
<1> DEFINE b == SpillsFor(outbox[t].plan, Merged(t, pay).items)
<1>1. outbox[t] \in Row
  BY DEF TypeOK
<1>2. /\ outbox'[t].spilled = b
      /\ b => outbox'[t].inline = {}
      /\ ~b => seedRows'[t] = {}
  BY <1>1 DEF MergedRow, MergedSeedRows, Row
<1> HIDE DEF b
<1> QED
  BY <1>2 DEF Agree

LEMMA AgreeEnqueue ==
    ASSUME TypeOK, SeedRowsOwned, Enqueue
    PROVE  SeedRowsOwned'
<1>1. PICK t \in Task, p \in Plan, pay \in Payload :
          \/ EnqueueNew(t, p, pay)
          \/ EnqueueMerge(t, p, pay)
          \/ EnqueueBypass(t, p, pay)
  BY DEF Enqueue
<1>2. ASSUME NEW solo \in BOOLEAN,
             outbox' = With(outbox, t, NewRow(p, solo, pay)),
             seedRows' = [seedRows EXCEPT ![t] = NewSeedRows(p, pay)]
      PROVE  SeedRowsOwned'
  <2>1. t \in Rows' /\ outbox'[t] = NewRow(p, solo, pay)
    BY <1>2 DEF With, Rows
  <2>2. seedRows'[t] = NewSeedRows(p, pay)
    BY <1>2 DEF TypeOK
  <2>3. Agree(t)'
    BY <2>1, <2>2 DEF Agree, NewRow, NewSeedRows
  <2>4. \A u \in Task \ {t} :
            /\ seedRows'[u] = seedRows[u]
            /\ u \in Rows' <=> u \in Rows
            /\ u \in Rows => outbox'[u] = outbox[u]
    BY <1>2 DEF With, Rows, TypeOK
  <2> QED
    BY <2>3, <2>4, AgreeOutsideOne
<1>3. CASE EnqueueMerge(t, p, pay)
  <2>1. t \in Rows /\ pay \in [items : SUBSET Item, all : SUBSET Table]
    BY <1>3, FunctionsAssumption DEF EnqueueMerge, FindPending
  <2>2. /\ t \in Rows' /\ outbox'[t] = MergedRow(t, pay)
        /\ seedRows'[t] = MergedSeedRows(t, pay)
    BY <1>3, <2>1 DEF EnqueueMerge, TypeOK, Rows
  <2>3. \A u \in Task \ {t} :
            /\ seedRows'[u] = seedRows[u]
            /\ u \in Rows' <=> u \in Rows
            /\ u \in Rows => outbox'[u] = outbox[u]
    BY <1>3 DEF EnqueueMerge, Rows, TypeOK
  <2>4. Agree(t)'
    BY <2>1, <2>2, AgreeMerged
  <2> QED
    BY <2>3, <2>4, AgreeOutsideOne
<1> QED
  BY <1>1, <1>2, <1>3 DEF EnqueueNew, EnqueueBypass

LEMMA AgreeSettle ==
    ASSUME TypeOK, SeedRowsOwned, NEW o \in Owner, Settle(o)
    PROVE  SeedRowsOwned'
<1>1. PICK c \in held[o] :
          \/ LeaseLost(o, c)
          \/ MarkDone(o, c)
          \/ ReleaseReturn(o, c)
          \/ \E twin \in Twins(c) : ReleaseMerge(o, c, twin)
          \/ ReleaseBypass(o, c)
          \/ \E direct \in BOOLEAN : FailDead(o, c, direct)
          \/ FailRetry(o, c)
          \/ FailRefused(o, c)
  BY DEF Settle
<1>2. c.task \in Task /\ c \in Claim
  BY DEF TypeOK, Claim
<1>3. CASE LeaseLost(o, c) \/ FailRefused(o, c)
  BY <1>3 DEF LeaseLost, FailRefused, SeedRowsOwned, Rows
<1>4. CASE MarkDone(o, c) \/ \E direct \in BOOLEAN : FailDead(o, c, direct)
  <2>1. outbox' = Without(outbox, c.task) /\ seedRows' = Settled(c.task)
    BY <1>4 DEF MarkDone, FailDead
  <2>2. Agree(c.task)'
    BY <1>2, <2>1 DEF Agree, Without, Settled, Rows, TypeOK
  <2>3. \A u \in Task \ {c.task} :
            /\ seedRows'[u] = seedRows[u]
            /\ u \in Rows' <=> u \in Rows
            /\ u \in Rows => outbox'[u] = outbox[u]
    BY <2>1 DEF Without, Settled, Rows, TypeOK
  <2> QED
    BY <1>2, <2>2, <2>3, AgreeOutsideOne
<1>5. CASE ReleaseReturn(o, c) \/ ReleaseBypass(o, c) \/ FailRetry(o, c)
  <2>1. c.task \in Rows /\ outbox[c.task] \in Row
    BY <1>5 DEF ReleaseReturn, ReleaseBypass, FailRetry, Owns, TypeOK
  <2> DEFINE r == Returned(c.task)
  <2>2. r \in Row /\ r.inline = outbox[c.task].inline /\ r.spilled = outbox[c.task].spilled
    BY <2>1, ReturnedType DEF Returned, Row
  <2>3. \/ outbox' = [outbox EXCEPT ![c.task] = r]
        \/ outbox' = [outbox EXCEPT ![c.task] = [r EXCEPT !.solo = TRUE]]
        \/ outbox' = [outbox EXCEPT ![c.task] = [r EXCEPT !.attempts = c.attempts + 1]]
    BY <1>5 DEF ReleaseReturn, ReleaseBypass, FailRetry
  <2> HIDE DEF r
  <2>4. seedRows' = seedRows
    BY <1>5 DEF ReleaseReturn, ReleaseBypass, FailRetry
  <2>5. Rows' = Rows /\ \A u \in Rows : /\ outbox'[u].spilled = outbox[u].spilled
                                       /\ outbox'[u].inline = outbox[u].inline
    BY <2>1, <2>2, <2>3 DEF Rows, Row, TypeOK
  <2> QED
    BY <2>4, <2>5 DEF SeedRowsOwned
<1>6. ASSUME NEW twin \in Twins(c), ReleaseMerge(o, c, twin)
      PROVE  SeedRowsOwned'
  <2>1. twin \in Rows /\ twin # c.task /\ twin \in Task
    BY <1>6 DEF Twins, FindPending, Pending, ReleaseMerge, Owns, Processing, TypeOK
  <2>2. RetryInput(c) \in [items : SUBSET Item, all : SUBSET Table]
    BY <1>2 DEF RetryInput, Claim
  <2>3. /\ twin \in Rows' /\ outbox'[twin] = MergedRow(twin, RetryInput(c))
        /\ seedRows'[twin] = MergedSeedRows(twin, RetryInput(c))
    BY <1>6, <2>1 DEF ReleaseMerge, Without, Settled, Rows, TypeOK
  <2>4. Agree(twin)'
    BY <2>1, <2>2, <2>3, AgreeMerged
  <2>5. Agree(c.task)'
    BY <1>2, <1>6, <2>1 DEF Agree, ReleaseMerge, Without, Settled, Rows, TypeOK
  <2>6. \A u \in Task \ {c.task, twin} :
            /\ seedRows'[u] = seedRows[u]
            /\ u \in Rows' <=> u \in Rows
            /\ u \in Rows => outbox'[u] = outbox[u]
    BY <1>6, <2>1 DEF ReleaseMerge, Without, Settled, Rows, TypeOK
  <2>7. \A u \in {c.task, twin} : Agree(u)'
    BY <2>4, <2>5
  <2>8. {c.task, twin} \in SUBSET Task
    BY <1>2, <2>1
  <2> QED
    BY <2>6, <2>7, <2>8, AgreeOutside
<1> QED
  BY <1>1, <1>3, <1>4, <1>5, <1>6

LEMMA AgreeNext == TypeOK /\ SeedRowsOwned /\ [Next]_vars => SeedRowsOwned'
<1> SUFFICES ASSUME TypeOK, SeedRowsOwned, [Next]_vars
             PROVE  SeedRowsOwned'
  OBVIOUS
<1>1. \A t \in Rows : outbox[t] \in Row
  BY DEF TypeOK
<1>2. ASSUME Rows' = Rows, seedRows' = seedRows,
             \A t \in Rows : /\ outbox'[t].spilled = outbox[t].spilled
                             /\ outbox'[t].inline = outbox[t].inline
      PROVE  SeedRowsOwned'
  BY <1>2 DEF SeedRowsOwned
<1>3. CASE Enqueue
  BY <1>3, AgreeEnqueue
<1>4. ASSUME NEW o \in Owner, ClaimStep(o)
      PROVE  SeedRowsOwned'
  <2>1. PICK T \in SUBSET Rows : Take(o, T)
    BY <1>4 DEF ClaimStep, ClaimBatch, ClaimById, TakeOver
  <2> QED
    BY <1>1, <1>2, <2>1 DEF Take, Rows, Row
<1>5. ASSUME NEW o \in Owner, RenewLease(o)
      PROVE  SeedRowsOwned'
  BY <1>1, <1>2, <1>5 DEF RenewLease, Rows, Row
<1>6. ASSUME NEW o \in Owner, Settle(o)
      PROVE  SeedRowsOwned'
  BY <1>6, AgreeSettle
<1>7. ASSUME NEW o \in Owner, Crash(o)
      PROVE  SeedRowsOwned'
  BY <1>2, <1>7 DEF Crash, Rows
<1>8. CASE Environment
  <2>1. ASSUME NEW t \in Rows, LeaseExpires(t) \/ BecomesDue(t)
        PROVE  SeedRowsOwned'
    BY <1>1, <1>2, <2>1 DEF LeaseExpires, BecomesDue, Rows, Row, TypeOK
  <2>2. ASSUME NEW s \in PauseScope, PauseOne(s) \/ ResumeOne(s)
        PROVE  SeedRowsOwned'
    BY <1>2, <2>2 DEF PauseOne, ResumeOne, Rows
  <2> QED
    BY <1>8, <2>1, <2>2 DEF Environment
<1>9. CASE UNCHANGED vars
  BY <1>2, <1>9 DEF vars, Rows
<1> QED
  BY <1>3, <1>4, <1>5, <1>6, <1>7, <1>8, <1>9 DEF Next

LEMMA AgreeInit == Init => SeedRowsOwned
BY DEF Init, SeedRowsOwned, Rows

\* No deletion path leaves seeds behind in the spill table, and no row is read
\* from both places.
THEOREM SeedRowsAlwaysOwned == Spec => []SeedRowsOwned
BY AgreeInit, TypeInit, TypeNext, AgreeNext, PTL DEF Spec

-----------------------------------------------------------------------------
(***************************************************************************)
(* ComputedOutbox implements the abstract queue of WorkQueue, wherever the *)
(* code keeps what it accepted: the two ways in which it does not are the  *)
(* hypotheses below, and both are needed.                                  *)
(***************************************************************************)

\* No writer asks for a whole table.  RetryInput and DeadRecord drop
\* seedAllTableIds, so a claim that has some loses them on a merge or in the
\* dead letter.
NoWholeTables == \A pay \in Payload : pay.all = {}

\* A seed task stays under the inline limit.  A seed merge reads the inline
\* column alone, so above it a merge loses the spilled seeds.
SeedsStayInline ==
    \A p \in Plan : KindOf[p] = "seed" => \A items \in SUBSET Item : ~Spills(items)

\* Only computed tasks have spilled seeds or whole tables.
OthersPlain ==
    \A t \in Rows :
        KindOf[outbox[t].plan] # "computed" => ~outbox[t].spilled /\ outbox[t].all = {}

NoneWhole == \A t \in Rows : outbox[t].all = {}

RunsKnown == \A t \in Rows : Processing(t) => outbox[t].owner \in Owner

\* A run works on no plan twice, so what it has in hand of two rows is apart.
ApartInRun ==
    \A t, u \in Rows :
        /\ Processing(t) /\ Processing(u)
        /\ outbox[t].owner = outbox[u].owner
        /\ outbox[t].plan = outbox[u].plan
        => t = u

-----------------------------------------------------------------------------
(* What a merge makes of a row *)

\* The inline limit decides which of the two places holds the seeds.
LEMMA FewSpill ==
    ASSUME SeedsStayInline, NEW p \in Plan, NEW items \in SUBSET Item,
           SpillsFor(p, items)
    PROVE  KindOf[p] = "computed"
<1>1. KindOf[p] \in {"computed", "seed", "backfill"}
  BY FunctionsAssumption
<1> QED
  BY <1>1 DEF SeedsStayInline, SpillsFor

\* Leaving out the seeds of whole tables does not change what is covered.
LEMMA KeptCovers ==
    ASSUME NEW items \in SUBSET Item, NEW all \in SUBSET Table
    PROVE  Covers(Kept(items, all), all) = Covers(items, all)
BY DEF Covers, Kept

LEMMA NewWork ==
    ASSUME NEW p \in Plan, NEW pay \in [items : SUBSET Item, all : SUBSET Table],
           NEW solo \in BOOLEAN, NEW t \in Task, pay.all = {},
           outbox'[t] = NewRow(p, solo, pay), seedRows'[t] = NewSeedRows(p, pay)
    PROVE  WorkOf(t)' = {p} \X pay.items
<1> DEFINE s == Stored(p, pay)
           b == SpillsFor(p, s.items)
<1>1. s.items = pay.items /\ s.all = {}
  BY DEF Stored, Kept
<1>2. /\ outbox'[t].plan = p
      /\ outbox'[t].spilled = b
      /\ outbox'[t].inline = IF b THEN {} ELSE s.items
      /\ outbox'[t].all = s.all
      /\ seedRows'[t] = IF b THEN s.items ELSE {}
  BY DEF NewRow, NewSeedRows
<1> HIDE DEF s, b
<1>3. SeedsOf(t)' = s.items
  BY <1>2 DEF SeedsOf
<1>4. Covers(s.items, {}) = s.items
  BY DEF Covers
<1> QED
  BY <1>1, <1>2, <1>3, <1>4 DEF WorkOf

\* A merge covers what the row asked for and what the writer asks for.
LEMMA MergedWork ==
    ASSUME TypeOK, SeedRowsOwned, OthersPlain, SeedsStayInline,
           NEW t \in Rows, NEW pay \in [items : SUBSET Item, all : SUBSET Table],
           outbox'[t] = MergedRow(t, pay), seedRows'[t] = MergedSeedRows(t, pay)
    PROVE  /\ WorkOf(t) \subseteq WorkOf(t)'
           /\ outbox[t].all = {} /\ pay.all = {} =>
                /\ WorkOf(t)' = WorkOf(t) \cup {outbox[t].plan} \X pay.items
                /\ outbox'[t].all = {}
<1> DEFINE m == Merged(t, pay)
           b == SpillsFor(outbox[t].plan, m.items)
           all == outbox[t].all \cup pay.all
           both == SeedsOf(t) \cup pay.items
<1>1. /\ t \in Task /\ outbox[t] \in Row /\ outbox[t].plan \in Plan
      /\ outbox[t].all \in SUBSET Table
  BY DEF TypeOK, Row
<1>2. KindOf[outbox[t].plan] \in {"computed", "seed", "backfill"}
  BY <1>1, FunctionsAssumption
<1>3. m \in [items : SUBSET Item, all : SUBSET Table] /\ SeedsOf(t) \in SUBSET Item
  BY MergedType, SeedsOfType
<1>4. seedRows[t] \subseteq SeedsOf(t)
  BY <1>1 DEF SeedRowsOwned, SeedsOf
<1>5. /\ outbox'[t].plan = outbox[t].plan
      /\ outbox'[t].spilled = b
      /\ outbox'[t].inline = IF b THEN {} ELSE m.items
      /\ outbox'[t].all = m.all
      /\ seedRows'[t] = IF b THEN seedRows[t] \cup m.items ELSE {}
  BY <1>1 DEF MergedRow, MergedSeedRows, Row
<1>6. CASE KindOf[outbox[t].plan] = "computed"
  <2>1. m.items = Kept(both, all) /\ m.all = all
    BY <1>6 DEF Merged
  <2> HIDE DEF m, b
  <2>2. Kept(both, all) \subseteq SeedsOf(t)' /\ SeedsOf(t)' \subseteq both
    BY <1>4, <1>5, <2>1 DEF SeedsOf, Kept
  <2>3. outbox'[t].all = all
    BY <1>5, <2>1
  <2> QED
    <3>1. Covers(SeedsOf(t)', all) = Covers(both, all)
      BY <1>3, <2>2 DEF Covers, Kept
    <3>2. WorkOf(t)' = {outbox[t].plan} \X Covers(both, all)
      BY <1>5, <2>3, <3>1 DEF WorkOf
    <3>3. Covers(SeedsOf(t), outbox[t].all) \subseteq Covers(both, all)
      BY DEF Covers
    <3>4. ASSUME outbox[t].all = {}, pay.all = {}
          PROVE  Covers(both, all) = SeedsOf(t) \cup pay.items /\ all = {}
      BY <3>4 DEF Covers
    <3>5. Covers(SeedsOf(t), {}) = SeedsOf(t)
      BY DEF Covers
    <3> HIDE DEF all, both
    <3> QED
      BY <2>3, <3>2, <3>3, <3>4, <3>5 DEF WorkOf
<1>7. CASE KindOf[outbox[t].plan] # "computed"
  <2>1. /\ ~outbox[t].spilled /\ SeedsOf(t) = outbox[t].inline
        /\ outbox[t].all = {}
    BY <1>7 DEF OthersPlain, SeedsOf
  <2>2. m.items = both /\ m.all = {}
    BY <1>2, <1>7, <2>1 DEF Merged
  <2>3. ~b
    BY <1>1, <1>3, <1>7, FewSpill
  <2> HIDE DEF m, b
  <2>4. SeedsOf(t)' = both /\ outbox'[t].all = {}
    BY <1>5, <2>2, <2>3 DEF SeedsOf
  <2>5. \A S : Covers(S, {}) = S
    BY DEF Covers
  <2> QED
    BY <1>5, <2>1, <2>4, <2>5 DEF WorkOf
<1> QED
  BY <1>6, <1>7

-----------------------------------------------------------------------------
(* What a step may do to a row *)

\* What writers ask for, and what a released claim asks for.
Requests == Payload \cup [items : SUBSET Item, all : {{}}]

\* Row t asks for what it asked for.
Same(t) ==
    /\ t \in Rows
    /\ outbox'[t].plan = outbox[t].plan
    /\ outbox'[t].spilled = outbox[t].spilled
    /\ outbox'[t].inline = outbox[t].inline
    /\ outbox'[t].all = outbox[t].all
    /\ seedRows'[t] = seedRows[t]

Grown(t) ==
    /\ t \in Rows
    /\ \E pay \in Requests :
          /\ outbox'[t] = MergedRow(t, pay)
          /\ seedRows'[t] = MergedSeedRows(t, pay)

Fresh(t) ==
    /\ t \notin Rows
    /\ \E p \in Plan, solo \in BOOLEAN, pay \in Payload :
          /\ outbox'[t] = NewRow(p, solo, pay)
          /\ seedRows'[t] = NewSeedRows(p, pay)

LEMMA RequestsTyped == Requests \subseteq [items : SUBSET Item, all : SUBSET Table]
BY FunctionsAssumption DEF Requests

LEMMA SameWork == ASSUME NEW t, Same(t) PROVE WorkOf(t)' = WorkOf(t)
BY DEF Same, WorkOf, SeedsOf

\* A release that merges, in terms of rows.
LEMMA ReleaseMergeRows ==
    ASSUME TypeOK, NEW o \in Owner, NEW c \in held[o],
           NEW twin \in Twins(c), ReleaseMerge(o, c, twin)
    PROVE  /\ Rows' = Rows \ {c.task}
           /\ twin \in Rows /\ Pending(twin) /\ twin # c.task /\ outbox[twin].plan = c.plan
           /\ outbox'[twin] = MergedRow(twin, RetryInput(c))
           /\ seedRows'[twin] = MergedSeedRows(twin, RetryInput(c))
           /\ \A u \in Rows \ {c.task, twin} :
                 outbox'[u] = outbox[u] /\ seedRows'[u] = seedRows[u]
<1>1. /\ twin \in Rows /\ Pending(twin) /\ twin # c.task /\ outbox[twin].plan = c.plan
      /\ twin \in Task /\ c.task \in Task
  BY DEF Twins, FindPending, Pending, ReleaseMerge, Owns, Processing, TypeOK
<1> QED
  BY <1>1 DEF ReleaseMerge, Without, Settled, Rows, TypeOK

LEMMA RowStep ==
    ASSUME TypeOK, [Next]_vars, NEW t \in Rows'
    PROVE  Same(t) \/ Grown(t) \/ Fresh(t)
<1>1. \A u \in Rows : outbox[u] \in Row /\ u \in Task
  BY DEF TypeOK
<1>2. ASSUME t \in Rows, outbox'[t] = outbox[t], seedRows'[t] = seedRows[t]
      PROVE  Same(t)
  BY <1>2 DEF Same
<1>3. CASE Enqueue
  <2>1. PICK u \in Task, p \in Plan, pay \in Payload :
            \/ EnqueueNew(u, p, pay)
            \/ EnqueueMerge(u, p, pay)
            \/ EnqueueBypass(u, p, pay)
    BY <1>3 DEF Enqueue
  <2>2. ASSUME NEW solo \in BOOLEAN, u \notin Rows,
               outbox' = With(outbox, u, NewRow(p, solo, pay)),
               seedRows' = [seedRows EXCEPT ![u] = NewSeedRows(p, pay)]
        PROVE  Same(t) \/ Fresh(t)
    <3>1. CASE t = u
      BY <2>2, <3>1 DEF Fresh, With, TypeOK
    <3>2. CASE t # u
      BY <1>2, <2>2, <3>2 DEF With, Rows, TypeOK
    <3> QED
      BY <3>1, <3>2
  <2>3. CASE EnqueueMerge(u, p, pay)
    <3>1. CASE t = u
      BY <1>1, <2>3, <3>1 DEF EnqueueMerge, FindPending, Grown, Requests, Rows, TypeOK
    <3>2. CASE t # u
      BY <1>2, <2>3, <3>2 DEF EnqueueMerge, Rows, TypeOK
    <3> QED
      BY <3>1, <3>2
  <2> QED
    BY <2>1, <2>2, <2>3 DEF EnqueueNew, EnqueueBypass, FreeTask
<1>4. ASSUME NEW o \in Owner, ClaimStep(o)
      PROVE  Same(t)
  <2>1. PICK T \in SUBSET Rows : Take(o, T)
    BY <1>4 DEF ClaimStep, ClaimBatch, ClaimById, TakeOver
  <2> QED
    BY <1>1, <2>1 DEF Same, Take, Rows, Row
<1>5. ASSUME NEW o \in Owner, RenewLease(o)
      PROVE  Same(t)
  BY <1>1, <1>5 DEF Same, RenewLease, Rows, Row
<1>6. ASSUME NEW o \in Owner, NEW c \in held[o],
             LeaseLost(o, c) \/ FailRefused(o, c) \/ Crash(o)
      PROVE  Same(t)
  BY <1>2, <1>6 DEF LeaseLost, FailRefused, Crash, Rows
<1>7. ASSUME NEW o \in Owner, NEW c \in held[o],
             MarkDone(o, c) \/ \E direct \in BOOLEAN : FailDead(o, c, direct)
      PROVE  Same(t)
  <2>1. outbox' = Without(outbox, c.task) /\ seedRows' = Settled(c.task)
    BY <1>7 DEF MarkDone, FailDead
  <2> QED
    BY <1>2, <2>1 DEF Without, Settled, Rows, TypeOK
<1>8. ASSUME NEW o \in Owner, NEW c \in held[o],
             ReleaseReturn(o, c) \/ ReleaseBypass(o, c) \/ FailRetry(o, c)
      PROVE  Same(t)
  <2>1. c.task \in Rows
    BY <1>8 DEF ReleaseReturn, ReleaseBypass, FailRetry, Owns
  <2> DEFINE r == Returned(c.task)
             q == outbox[c.task]
  <2>2. /\ r \in Row /\ r.plan = q.plan /\ r.spilled = q.spilled
        /\ r.inline = q.inline /\ r.all = q.all
    BY <1>1, <2>1, ReturnedType DEF Returned, Row
  <2>3. \/ outbox' = [outbox EXCEPT ![c.task] = r]
        \/ outbox' = [outbox EXCEPT ![c.task] = [r EXCEPT !.solo = TRUE]]
        \/ outbox' = [outbox EXCEPT ![c.task] = [r EXCEPT !.attempts = c.attempts + 1]]
    BY <1>8 DEF ReleaseReturn, ReleaseBypass, FailRetry
  <2>4. seedRows' = seedRows
    BY <1>8 DEF ReleaseReturn, ReleaseBypass, FailRetry
  <2> HIDE DEF r
  <2> QED
    BY <1>1, <2>1, <2>2, <2>3, <2>4 DEF Same, Rows, Row
<1>9. ASSUME NEW o \in Owner, NEW c \in held[o], NEW twin \in Twins(c),
             ReleaseMerge(o, c, twin)
      PROVE  Same(t) \/ Grown(t)
  <2>1. RetryInput(c) \in Requests
    BY DEF RetryInput, Requests, TypeOK, Claim
  <2> QED
    BY <1>2, <1>9, <2>1, ReleaseMergeRows DEF Grown
<1>10. CASE Environment
  <2>1. ASSUME NEW u \in Rows, LeaseExpires(u) \/ BecomesDue(u)
        PROVE  Same(t)
    BY <1>1, <2>1 DEF Same, LeaseExpires, BecomesDue, Rows, Row
  <2>2. ASSUME NEW s \in PauseScope, PauseOne(s) \/ ResumeOne(s)
        PROVE  Same(t)
    BY <1>2, <2>2 DEF PauseOne, ResumeOne, Rows
  <2> QED
    BY <1>10, <2>1, <2>2 DEF Environment
<1>11. CASE UNCHANGED vars
  BY <1>2, <1>11 DEF vars, Rows
<1>12. ASSUME NEW o \in Owner, Settle(o)
       PROVE  Same(t) \/ Grown(t)
  BY <1>6, <1>7, <1>8, <1>9, <1>12 DEF Settle
<1>13. ASSUME NEW o \in Owner, Crash(o)
       PROVE  Same(t)
  BY <1>2, <1>13 DEF Crash, Rows
<1> QED
  BY <1>3, <1>4, <1>5, <1>10, <1>11, <1>12, <1>13 DEF Next

-----------------------------------------------------------------------------
(* What rows carry *)

LEMMA StepPlain ==
    ASSUME TypeOK, OthersPlain, SeedsStayInline, [Next]_vars
    PROVE  OthersPlain'
<1> SUFFICES ASSUME NEW t \in Rows', KindOf[outbox'[t].plan] # "computed"
             PROVE  ~outbox'[t].spilled /\ outbox'[t].all = {}
  BY DEF OthersPlain
<1>1. CASE Same(t)
  BY <1>1 DEF OthersPlain, Same
<1>2. CASE Grown(t)
  <2>1. PICK pay \in Requests : t \in Rows /\ outbox'[t] = MergedRow(t, pay)
    BY <1>2 DEF Grown
  <2> DEFINE m == Merged(t, pay)
             b == SpillsFor(outbox[t].plan, m.items)
  <2>2. outbox[t] \in Row /\ outbox[t].plan \in Plan
    BY <2>1 DEF TypeOK, Row
  <2>3. m \in [items : SUBSET Item, all : SUBSET Table]
    BY <2>1, MergedType, RequestsTyped
  <2>4. outbox'[t].plan = outbox[t].plan /\ outbox'[t].spilled = b /\ outbox'[t].all = m.all
    BY <2>1, <2>2 DEF MergedRow, Row
  <2>5. m.all = {}
    BY <2>2, <2>4, FunctionsAssumption DEF Merged
  <2>6. ~b
    BY <2>2, <2>3, <2>4, FewSpill
  <2> QED
    BY <2>4, <2>5, <2>6
<1>3. CASE Fresh(t)
  <2>1. PICK p \in Plan, solo \in BOOLEAN, pay \in Payload : outbox'[t] = NewRow(p, solo, pay)
    BY <1>3 DEF Fresh
  <2> DEFINE s == Stored(p, pay)
  <2>2. s \in [items : SUBSET Item, all : SUBSET Table]
    BY StoredType, FunctionsAssumption
  <2>3. /\ outbox'[t].plan = p /\ outbox'[t].all = s.all
        /\ outbox'[t].spilled = SpillsFor(p, s.items)
    BY <2>1 DEF NewRow
  <2>4. s.all = {}
    BY <2>3 DEF Stored
  <2>5. ~SpillsFor(p, s.items)
    BY <2>2, <2>3, FewSpill
  <2> QED
    BY <2>3, <2>4, <2>5
<1> QED
  BY <1>1, <1>2, <1>3, RowStep

LEMMA StepNoneWhole ==
    ASSUME TypeOK, NoneWhole, NoWholeTables, [Next]_vars
    PROVE  NoneWhole'
<1> SUFFICES ASSUME NEW t \in Rows' PROVE outbox'[t].all = {}
  BY DEF NoneWhole
<1>1. CASE Same(t)
  BY <1>1 DEF NoneWhole, Same
<1>2. CASE Grown(t)
  <2>1. PICK pay \in Requests : t \in Rows /\ outbox'[t] = MergedRow(t, pay)
    BY <1>2 DEF Grown
  <2>2. outbox[t] \in Row /\ outbox[t].plan \in Plan /\ outbox[t].all = {}
    BY <2>1 DEF TypeOK, Row, NoneWhole
  <2>3. pay.all = {}
    BY DEF Requests, NoWholeTables
  <2>4. Merged(t, pay).all = {}
    BY <2>2, <2>3, FunctionsAssumption DEF Merged
  <2> QED
    BY <2>1, <2>2, <2>4 DEF MergedRow, Row
<1>3. CASE Fresh(t)
  BY <1>3 DEF Fresh, NewRow, Stored, NoWholeTables
<1> QED
  BY <1>1, <1>2, <1>3, RowStep

-----------------------------------------------------------------------------
(* Who has which rows in hand *)

\* The rows of T have different plans.
PlansApart(T) == \A t, u \in T : outbox[t].plan = outbox[u].plan => t = u

LEMMA ClaimTakes ==
    ASSUME NEW o \in Owner, ClaimStep(o)
    PROVE  \E T \in SUBSET Rows : Take(o, T) /\ PlansApart(T)
<1>1. CASE \E T \in SUBSET Rows : ClaimBatch(o, T)
  BY <1>1 DEF ClaimBatch, OnePerScope, ScopeOfTask, PlansApart
<1>2. CASE \E t \in Rows : ClaimById(o, t) \/ TakeOver(o, t)
  BY <1>2 DEF ClaimById, TakeOver, PlansApart
<1> QED
  BY <1>1, <1>2 DEF ClaimStep

\* A step other than a claim gives no run a row.
LEMMA StaysInHand ==
    ASSUME TypeOK, [Next]_vars, \A o \in Owner : ~ClaimStep(o),
           NEW t \in Rows', outbox'[t].status = "processing"
    PROVE  /\ t \in Rows /\ Processing(t)
           /\ outbox'[t].owner = outbox[t].owner
           /\ outbox'[t].plan = outbox[t].plan
<1>1. \A u \in Rows : outbox[u] \in Row /\ u \in Task
  BY DEF TypeOK
<1>2. ASSUME t \in Rows, outbox'[t] = outbox[t]
      PROVE  /\ t \in Rows /\ Processing(t)
             /\ outbox'[t].owner = outbox[t].owner
             /\ outbox'[t].plan = outbox[t].plan
  BY <1>2 DEF Processing
<1>3. CASE Enqueue
  <2>1. PICK u \in Task, p \in Plan, pay \in Payload :
            \/ EnqueueNew(u, p, pay)
            \/ EnqueueMerge(u, p, pay)
            \/ EnqueueBypass(u, p, pay)
    BY <1>3 DEF Enqueue
  <2>2. CASE EnqueueNew(u, p, pay) \/ EnqueueBypass(u, p, pay)
    <3>1. outbox'[u].status = "pending"
      BY <2>2 DEF EnqueueNew, EnqueueBypass, With, NewRow
    <3>2. t # u => t \in Rows /\ outbox'[t] = outbox[t]
      BY <2>2 DEF EnqueueNew, EnqueueBypass, With, Rows
    <3> QED
      BY <1>2, <3>1, <3>2
  <2>3. CASE EnqueueMerge(u, p, pay)
    <3>1. u \in Rows /\ outbox[u].status = "pending"
      BY <2>3 DEF EnqueueMerge, FindPending, Pending
    <3>2. outbox'[u] = MergedRow(u, pay) /\ MergedRow(u, pay).status = "pending"
      BY <1>1, <2>3, <3>1 DEF EnqueueMerge, MergedRow, Rows, Row
    <3>3. t # u => t \in Rows /\ outbox'[t] = outbox[t]
      BY <2>3 DEF EnqueueMerge, Rows, TypeOK
    <3> QED
      BY <1>2, <3>2, <3>3
  <2> QED
    BY <2>1, <2>2, <2>3
<1>4. ASSUME NEW o \in Owner, RenewLease(o)
      PROVE  /\ t \in Rows /\ Processing(t)
             /\ outbox'[t].owner = outbox[t].owner
             /\ outbox'[t].plan = outbox[t].plan
  BY <1>1, <1>4 DEF RenewLease, Rows, Row, Processing
<1>5. ASSUME NEW o \in Owner, Settle(o)
      PROVE  t \in Rows /\ outbox'[t] = outbox[t]
  <2>1. PICK c \in held[o] :
            \/ LeaseLost(o, c)
            \/ MarkDone(o, c)
            \/ ReleaseReturn(o, c)
            \/ \E twin \in Twins(c) : ReleaseMerge(o, c, twin)
            \/ ReleaseBypass(o, c)
            \/ \E direct \in BOOLEAN : FailDead(o, c, direct)
            \/ FailRetry(o, c)
            \/ FailRefused(o, c)
    BY <1>5 DEF Settle
  <2>2. CASE LeaseLost(o, c) \/ FailRefused(o, c)
    BY <2>2 DEF LeaseLost, FailRefused, Rows
  <2>3. CASE MarkDone(o, c) \/ \E direct \in BOOLEAN : FailDead(o, c, direct)
    BY <2>3 DEF MarkDone, FailDead, Without, Rows
  <2>4. CASE ReleaseReturn(o, c) \/ ReleaseBypass(o, c) \/ FailRetry(o, c)
    <3>1. c.task \in Rows
      BY <2>4 DEF ReleaseReturn, ReleaseBypass, FailRetry, Owns
    <3> DEFINE r == Returned(c.task)
    <3>2. r \in Row /\ r.status = "pending"
      <4>1. r \in Row
        BY <3>1, ReturnedType
      <4>2. outbox[c.task] \in Row
        BY <1>1, <3>1
      <4> QED
        BY <4>1, <4>2 DEF Returned, Row
    <3>3. \/ outbox' = [outbox EXCEPT ![c.task] = r]
          \/ outbox' = [outbox EXCEPT ![c.task] = [r EXCEPT !.solo = TRUE]]
          \/ outbox' = [outbox EXCEPT ![c.task] = [r EXCEPT !.attempts = c.attempts + 1]]
      BY <2>4 DEF ReleaseReturn, ReleaseBypass, FailRetry
    <3> HIDE DEF r
    <3>4. outbox'[c.task].status = "pending"
      BY <3>1, <3>2, <3>3 DEF Row, Rows
    <3>5. t # c.task
      BY <3>4
    <3> QED
      BY <3>3, <3>5 DEF Rows, TypeOK
  <2>5. ASSUME NEW twin \in Twins(c), ReleaseMerge(o, c, twin)
        PROVE  t \in Rows /\ outbox'[t] = outbox[t]
    <3>1. /\ Rows' = Rows \ {c.task} /\ twin \in Rows /\ outbox[twin].status = "pending"
          /\ outbox'[twin] = MergedRow(twin, RetryInput(c))
          /\ \A u \in Rows \ {c.task, twin} : outbox'[u] = outbox[u]
      BY <2>5, ReleaseMergeRows DEF Pending
    <3>2. outbox'[twin].status = "pending"
      BY <1>1, <3>1 DEF MergedRow, Row
    <3> QED
      BY <3>1, <3>2
  <2> QED
    BY <2>1, <2>2, <2>3, <2>4, <2>5
<1>6. ASSUME NEW o \in Owner, Crash(o)
      PROVE  t \in Rows /\ outbox'[t] = outbox[t]
  BY <1>6 DEF Crash, Rows
<1>7. CASE Environment
  <2>1. ASSUME NEW u \in Rows, LeaseExpires(u) \/ BecomesDue(u)
        PROVE  /\ t \in Rows /\ Processing(t)
               /\ outbox'[t].owner = outbox[t].owner
               /\ outbox'[t].plan = outbox[t].plan
    BY <1>1, <2>1 DEF LeaseExpires, BecomesDue, Rows, Row, Processing
  <2>2. ASSUME NEW s \in PauseScope, PauseOne(s) \/ ResumeOne(s)
        PROVE  t \in Rows /\ outbox'[t] = outbox[t]
    BY <2>2 DEF PauseOne, ResumeOne, Rows
  <2> QED
    BY <1>2, <1>7, <2>1, <2>2 DEF Environment
<1>8. CASE UNCHANGED vars
  BY <1>2, <1>8 DEF vars, Rows
<1> QED
  BY <1>2, <1>3, <1>4, <1>5, <1>6, <1>7, <1>8 DEF Next

\* A claim gives the rows of T to its owner and leaves the others alone.
LEMMA TakeRows ==
    ASSUME TypeOK, NEW o \in Owner, NEW T \in SUBSET Rows, Take(o, T)
    PROVE  /\ Rows' = Rows
           /\ \A t \in Rows : Same(t)
           /\ \A t \in T : outbox'[t].status = "processing" /\ outbox'[t].owner = o
           /\ \A t \in Rows \ T : outbox'[t] = outbox[t]
           /\ \A t \in Rows : outbox[t].owner # o
<1>1. \A u \in Rows : outbox[u] \in Row
  BY DEF TypeOK
<1> QED
  BY <1>1 DEF Take, FreeOwner, Same, Rows, Row

LEMMA StepRunsKnown ==
    ASSUME TypeOK, RunsKnown, [Next]_vars
    PROVE  RunsKnown'
<1>1. ASSUME NEW o \in Owner, ClaimStep(o) PROVE RunsKnown'
  BY <1>1, ClaimTakes, TakeRows DEF RunsKnown, Processing
<1>2. CASE \A o \in Owner : ~ClaimStep(o)
  BY <1>2, StaysInHand DEF RunsKnown, Processing
<1> QED
  BY <1>1, <1>2

LEMMA StepApart ==
    ASSUME TypeOK, ApartInRun, [Next]_vars
    PROVE  ApartInRun'
<1>1. ASSUME NEW o \in Owner, ClaimStep(o) PROVE ApartInRun'
  <2>1. PICK T \in SUBSET Rows : Take(o, T) /\ PlansApart(T)
    BY <1>1, ClaimTakes
  <2> QED
    BY <2>1, TakeRows DEF ApartInRun, Processing, Same, PlansApart
<1>2. CASE \A o \in Owner : ~ClaimStep(o)
  BY <1>2, StaysInHand DEF ApartInRun, Processing
<1> QED
  BY <1>1, <1>2

-----------------------------------------------------------------------------
(* Merging keeps what a row asked for *)

QInv == TypeOK /\ SeedRowsOwned /\ OthersPlain

LEMMA InitQueue ==
    Init => OthersPlain /\ NoneWhole /\ RunsKnown /\ ApartInRun /\ OwnerSeesRow
BY DEF Init, OthersPlain, NoneWhole, RunsKnown, ApartInRun, OwnerSeesRow, Rows

LEMMA StepKeepsQueued ==
    ASSUME SeedsStayInline, TypeOK, SeedRowsOwned, OthersPlain, [Next]_vars,
           NEW t \in Rows, t \in Rows'
    PROVE  WorkOf(t) \subseteq WorkOf(t)'
<1>1. CASE Same(t)
  BY <1>1, SameWork
<1>2. CASE Grown(t)
  BY <1>2, MergedWork, RequestsTyped DEF Grown
<1>3. ~Fresh(t)
  BY DEF Fresh
<1> QED
  BY <1>1, <1>2, <1>3, RowStep

\* While seed tasks stay under the inline limit, no merge loses anything a
\* pending row asked for, whole tables included.
THEOREM MergesAlwaysKeepQueued == ASSUME SeedsStayInline PROVE Spec => MergeKeepsQueued
<1>1. Init => QInv
  BY InitQueue, TypeInit, AgreeInit DEF QInv
<1>2. QInv /\ [Next]_vars => QInv'
  BY TypeNext, AgreeNext, StepPlain DEF QInv
<1>3. QInv /\ [Next]_vars
        => [\A t \in Rows : Pending(t) /\ t \in Rows' /\ Pending(t)'
                => WorkOf(t) \subseteq WorkOf(t)']_vars
  BY StepKeepsQueued DEF QInv
<1> QED
  BY <1>1, <1>2, <1>3, PTL DEF Spec, MergeKeepsQueued

-----------------------------------------------------------------------------
(* The abstract queue, seen from the rows *)

Queued == UNION {WorkOf(t) : t \in {u \in Rows : Pending(u)}}

InHandOf(o) == UNION {WorkOf(t) : t \in {u \in Rows : Owns(o, u)}}

Running == [o \in Owner |-> InHandOf(o)]

Buried == UNION {{d.plan} \X Covers(d.items, d.all) : d \in deadLetter}

LEMMA QueueStutters ==
    ASSUME Queued' = Queued, Running' = Running, Buried' = Buried
    PROVE  UNCHANGED Queue!vars
BY DEF Queue!vars, Queued, Running, InHandOf, Buried

LEMMA QueueSubmits ==
    ASSUME NEW S \in SUBSET Work,
           Queued' = Queued \cup S, Running' = Running, Buried' = Buried
    PROVE  Queue!Next
<1>1. Queue!Submit(S)
  BY DEF Queue!Submit, Queued, Running, InHandOf, Buried
<1> QED
  BY <1>1 DEF Queue!Next

LEMMA QueueTakes ==
    ASSUME NEW o \in Owner, NEW S \in SUBSET (Queued \cup UNION {Running[q] : q \in Owner}),
           Running'[o] = Running[o] \cup S,
           Queued \ S \subseteq Queued', Queued' \subseteq Queued,
           \A q \in Owner \ {o} :
               Running[q] \ S \subseteq Running'[q] /\ Running'[q] \subseteq Running[q],
           Buried' = Buried
    PROVE  Queue!Next
<1>1. DOMAIN Running' = Owner
  BY DEF Running
<1>2. Queue!Take(o, S)
  BY <1>1 DEF Queue!Take, Queued, Running, InHandOf, Buried
<1>3. S \in SUBSET (Queue!InHand \cup Queued)
  BY DEF Queue!InHand, Running, Queued, InHandOf
<1> QED
  BY <1>2, <1>3 DEF Queue!Next, Queued

LEMMA QueueLetsGo ==
    ASSUME NEW o \in Owner, NEW S \in SUBSET Running[o],
           Running' = [Running EXCEPT ![o] = @ \ S],
           \/ Queued' = Queued /\ Buried' = Buried
           \/ Queued' = Queued \cup S /\ Buried' = Buried
           \/ Queued' = Queued /\ Buried' = Buried \cup S
    PROVE  Queue!Next
<1>1. Queue!LetGo(o, S)
  BY DEF Queue!LetGo, Running, InHandOf
<1>2. Queue!Finish(o, S) \/ Queue!GiveBack(o, S) \/ Queue!Bury(o, S)
  BY <1>1 DEF Queue!Finish, Queue!GiveBack, Queue!Bury, Queued, Buried
<1>3. S \in SUBSET Running[o]
  OBVIOUS
<1> QED
  BY <1>2, <1>3 DEF Queue!Next, Running, InHandOf

\* A step that changes neither the work of a row nor who has it in hand.
LEMMA QuietRows ==
    ASSUME Rows' = Rows,
           \A t \in Rows : /\ WorkOf(t)' = WorkOf(t)
                           /\ outbox'[t].status = outbox[t].status
                           /\ outbox'[t].owner = outbox[t].owner
    PROVE  Queued' = Queued /\ Running' = Running
<1>1. \A t \in Rows : Pending(t)' = Pending(t)
  BY DEF Pending
<1>2. \A t \in Rows, o \in Owner : Owns(o, t)' = Owns(o, t)
  BY DEF Owns, Processing
<1>3. {u \in Rows : Pending(u)}' = {u \in Rows : Pending(u)}
  BY <1>1
<1>4. \A o \in Owner : {u \in Rows : Owns(o, u)}' = {u \in Rows : Owns(o, u)}
  BY <1>2
<1>5. Queued' = Queued
  BY <1>3 DEF Queued
<1>6. \A o \in Owner : InHandOf(o)' = InHandOf(o)
  BY <1>4 DEF InHandOf
<1> QED
  BY <1>5, <1>6 DEF Running

LEMMA WorkApart ==
    ASSUME NEW t, NEW u, outbox[t].plan # outbox[u].plan
    PROVE  WorkOf(t) \cap WorkOf(u) = {}
BY DEF WorkOf

\* Run o lets go of row t0 and everything else stays in hand.
LEMMA RunLetsGo ==
    ASSUME ApartInRun, NEW o \in Owner, NEW t0 \in Rows, Owns(o, t0),
           \A u \in Rows \ {t0} : Processing(u) =>
               /\ u \in Rows' /\ outbox'[u].status = "processing"
               /\ outbox'[u].owner = outbox[u].owner
               /\ WorkOf(u)' = WorkOf(u),
           \A u \in Rows' : outbox'[u].status = "processing" =>
               u \in Rows \ {t0} /\ Processing(u)
    PROVE  /\ Running' = [Running EXCEPT ![o] = @ \ WorkOf(t0)]
           /\ WorkOf(t0) \in SUBSET Running[o]
<1>1. \A q \in Owner :
          {u \in Rows : Owns(q, u)}' = {u \in Rows : Owns(q, u)} \ {t0}
  BY DEF Owns, Processing
<1>2. \A q \in Owner, u \in Rows : Owns(q, u) /\ u # t0 => WorkOf(u)' = WorkOf(u)
  BY DEF Owns
<1>3. \A q \in Owner : InHandOf(q)' = UNION {WorkOf(u) : u \in {v \in Rows : Owns(q, v)} \ {t0}}
  BY <1>1, <1>2 DEF InHandOf
<1>4. \A q \in Owner \ {o} : InHandOf(q)' = InHandOf(q)
  <2>1. \A q \in Owner \ {o} : t0 \notin {v \in Rows : Owns(q, v)}
    BY DEF Owns
  <2> QED
    BY <1>3, <2>1 DEF InHandOf
<1>5. \A u \in Rows : Owns(o, u) /\ u # t0 => WorkOf(u) \cap WorkOf(t0) = {}
  BY WorkApart DEF ApartInRun, Owns
<1>6. InHandOf(o)' = InHandOf(o) \ WorkOf(t0)
  BY <1>3, <1>5 DEF InHandOf
<1>7. WorkOf(t0) \subseteq InHandOf(o)
  BY DEF InHandOf
<1> QED
  BY <1>4, <1>6, <1>7 DEF Running

\* One row t1 is pending and asks for S besides what it asked for, if it was
\* pending; the other pending rows stay.
LEMMA QueueGrows ==
    ASSUME NEW t1 \in Rows', outbox'[t1].status = "pending", NEW S,
           IF t1 \in Rows /\ Pending(t1)
           THEN WorkOf(t1)' = WorkOf(t1) \cup S ELSE WorkOf(t1)' = S,
           \A u \in Rows' \ {t1} : outbox'[u].status = "pending" =>
               u \in Rows /\ Pending(u) /\ WorkOf(u)' = WorkOf(u),
           \A u \in Rows \ {t1} : Pending(u) =>
               u \in Rows' /\ outbox'[u].status = "pending"
    PROVE  Queued' = Queued \cup S
<1>1. ASSUME NEW w \in Queued' PROVE w \in Queued \cup S
  <2>1. PICK u \in Rows' : outbox'[u].status = "pending" /\ w \in WorkOf(u)'
    BY <1>1 DEF Queued, Pending
  <2>2. CASE u = t1
    BY <2>1, <2>2 DEF Queued
  <2>3. CASE u # t1
    BY <2>1, <2>3 DEF Queued
  <2> QED
    BY <2>2, <2>3
<1>2. ASSUME NEW w \in Queued \cup S PROVE w \in Queued'
  <2>1. CASE w \in S
    <3>1. w \in WorkOf(t1)'
      BY <2>1
    <3> QED
      BY <3>1 DEF Queued, Pending
  <2>2. CASE w \in Queued
    <3>1. PICK u \in Rows : Pending(u) /\ w \in WorkOf(u)
      BY <2>2 DEF Queued
    <3>2. CASE u = t1
      <4>1. w \in WorkOf(t1)'
        BY <3>1, <3>2
      <4> QED
        BY <4>1 DEF Queued, Pending
    <3>3. CASE u # t1
      <4>1. u \in Rows' /\ outbox'[u].status = "pending" /\ w \in WorkOf(u)'
        BY <3>1, <3>3
      <4> QED
        BY <4>1 DEF Queued, Pending
    <3> QED
      BY <3>2, <3>3
  <2> QED
    BY <1>2, <2>1, <2>2
<1> QED
  BY <1>1, <1>2

LEMMA HandsKept ==
    ASSUME \A u \in Rows : Processing(u) =>
               /\ u \in Rows' /\ outbox'[u].status = "processing"
               /\ outbox'[u].owner = outbox[u].owner
               /\ WorkOf(u)' = WorkOf(u),
           \A u \in Rows' : outbox'[u].status = "processing" =>
               u \in Rows /\ Processing(u)
    PROVE  Running' = Running
<1>1. \A q \in Owner : {u \in Rows : Owns(q, u)}' = {u \in Rows : Owns(q, u)}
  BY DEF Owns, Processing
<1>2. \A q \in Owner, u \in Rows : Owns(q, u) => WorkOf(u)' = WorkOf(u)
  BY DEF Owns
<1>3. \A q \in Owner : InHandOf(q)' = InHandOf(q)
  BY <1>1, <1>2 DEF InHandOf
<1> QED
  BY <1>3 DEF Running

LEMMA SameRow ==
    ASSUME NEW t \in Rows, outbox'[t] = outbox[t], seedRows'[t] = seedRows[t]
    PROVE  WorkOf(t)' = WorkOf(t)
BY SameWork DEF Same

LEMMA QueueEnqueue ==
    ASSUME NoWholeTables, SeedsStayInline,
           TypeOK, SeedRowsOwned, OthersPlain, NoneWhole, Enqueue
    PROVE  Queue!Next
<1>1. PICK t \in Task, p \in Plan, pay \in Payload :
          \/ EnqueueNew(t, p, pay)
          \/ EnqueueMerge(t, p, pay)
          \/ EnqueueBypass(t, p, pay)
  BY DEF Enqueue
<1>2. pay \in [items : SUBSET Item, all : SUBSET Table] /\ pay.all = {}
  BY FunctionsAssumption DEF NoWholeTables
<1>3. {p} \X pay.items \in SUBSET Work
  BY <1>2 DEF Work
<1>4. \A u \in Rows : u \in Task /\ outbox[u] \in Row
  BY DEF TypeOK
<1>5. ASSUME NEW solo \in BOOLEAN, t \notin Rows,
             outbox' = With(outbox, t, NewRow(p, solo, pay)),
             seedRows' = [seedRows EXCEPT ![t] = NewSeedRows(p, pay)],
             deadLetter' = deadLetter
      PROVE  Queue!Next
  <2>1. /\ Rows' = Rows \cup {t}
        /\ outbox'[t] = NewRow(p, solo, pay) /\ seedRows'[t] = NewSeedRows(p, pay)
    BY <1>5 DEF With, Rows, TypeOK
  <2>2. outbox'[t].status = "pending"
    BY <2>1 DEF NewRow
  <2>3. WorkOf(t)' = {p} \X pay.items
    BY <1>2, <2>1, NewWork
  <2>4. \A u \in Rows : outbox'[u] = outbox[u] /\ WorkOf(u)' = WorkOf(u)
    <3>1. \A u \in Rows : outbox'[u] = outbox[u] /\ seedRows'[u] = seedRows[u]
      BY <1>4, <1>5 DEF With, Rows, TypeOK
    <3> QED
      BY <3>1, SameRow
  <2>5. Queued' = Queued \cup {p} \X pay.items
    BY <1>5, <2>1, <2>2, <2>3, <2>4, QueueGrows DEF Pending
  <2>6. Running' = Running
    BY <2>1, <2>2, <2>4, HandsKept DEF Processing
  <2>7. Buried' = Buried
    BY <1>5 DEF Buried
  <2> QED
    BY <1>3, <2>5, <2>6, <2>7, QueueSubmits
<1>6. CASE EnqueueMerge(t, p, pay)
  <2>1. t \in Rows /\ Pending(t) /\ outbox[t].plan = p
    BY <1>6 DEF EnqueueMerge, FindPending
  <2>2. /\ Rows' = Rows
        /\ outbox'[t] = MergedRow(t, pay) /\ seedRows'[t] = MergedSeedRows(t, pay)
        /\ \A u \in Rows \ {t} : outbox'[u] = outbox[u] /\ seedRows'[u] = seedRows[u]
    BY <1>4, <1>6, <2>1 DEF EnqueueMerge, Rows, TypeOK
  <2>3. outbox'[t].status = "pending"
    BY <1>4, <2>1, <2>2 DEF MergedRow, Row, Pending
  <2>4. WorkOf(t)' = WorkOf(t) \cup {p} \X pay.items
    BY <1>2, <2>1, <2>2, MergedWork DEF NoneWhole
  <2>5. \A u \in Rows \ {t} : outbox'[u] = outbox[u] /\ WorkOf(u)' = WorkOf(u)
    BY <2>2, SameRow
  <2>6. Queued' = Queued \cup {p} \X pay.items
    <3> DEFINE S == {p} \X pay.items
    <3>1. WorkOf(t)' = WorkOf(t) \cup S
      BY <2>4
    <3>2. \A u \in Rows \ {t} :
              /\ outbox'[u].status = "pending" <=> Pending(u)
              /\ WorkOf(u)' = WorkOf(u)
      BY <2>5 DEF Pending
    <3> HIDE DEF S
    <3>3. Queued' = Queued \cup S
      BY <2>1, <2>2, <2>3, <3>1, <3>2, QueueGrows
    <3> QED
      BY <3>3 DEF S
  <2>7. Running' = Running
    BY <2>1, <2>2, <2>3, <2>5, HandsKept DEF Processing, Pending
  <2>8. Buried' = Buried
    BY <1>6 DEF EnqueueMerge, Buried
  <2> QED
    BY <1>3, <2>6, <2>7, <2>8, QueueSubmits
<1> QED
  BY <1>1, <1>5, <1>6 DEF EnqueueNew, EnqueueBypass, FreeTask

LEMMA QueueClaim ==
    ASSUME TypeOK, RunsKnown, NEW o \in Owner, NEW T \in SUBSET Rows, Take(o, T)
    PROVE  Queue!Next
<1> DEFINE S == UNION {WorkOf(t) : t \in T}
<1>1. /\ Rows' = Rows
      /\ \A t \in Rows : WorkOf(t)' = WorkOf(t)
      /\ \A t \in T : outbox'[t].status = "processing" /\ outbox'[t].owner = o
      /\ \A t \in Rows \ T : outbox'[t] = outbox[t]
      /\ \A t \in Rows : outbox[t].owner # o
  BY TakeRows, SameWork
<1>2. \A t \in Rows : Pending(t)' <=> Pending(t) /\ t \notin T
  BY <1>1 DEF Pending
<1>3. \A t \in Rows : Owns(o, t)' <=> t \in T
  BY <1>1 DEF Owns, Processing
<1>4. \A q \in Owner \ {o}, t \in Rows : Owns(q, t)' <=> Owns(q, t) /\ t \notin T
  BY <1>1 DEF Owns, Processing
<1>5. Queued' = UNION {WorkOf(t) : t \in {u \in Rows : Pending(u) /\ u \notin T}}
  BY <1>1, <1>2 DEF Queued
<1>6. Queued \ S \subseteq Queued' /\ Queued' \subseteq Queued
  BY <1>5 DEF Queued
<1>7. InHandOf(o)' = S
  BY <1>1, <1>3 DEF InHandOf
<1>8. InHandOf(o) = {}
  BY <1>1 DEF InHandOf, Owns
<1>9. Running'[o] = Running[o] \cup S
  BY <1>7, <1>8 DEF Running
<1>10. ASSUME NEW q \in Owner \ {o}
       PROVE  Running[q] \ S \subseteq Running'[q] /\ Running'[q] \subseteq Running[q]
  <2>1. InHandOf(q)' = UNION {WorkOf(t) : t \in {u \in Rows : Owns(q, u) /\ u \notin T}}
    BY <1>1, <1>4 DEF InHandOf
  <2> QED
    BY <2>1 DEF Running, InHandOf
<1>11. S \in SUBSET (Queued \cup UNION {Running[q] : q \in Owner})
  <2> SUFFICES ASSUME NEW t \in T
               PROVE  WorkOf(t) \subseteq Queued \cup UNION {Running[q] : q \in Owner}
    OBVIOUS
  <2>1. CASE Pending(t)
    BY <2>1 DEF Queued
  <2>2. CASE ~Pending(t)
    <3>1. Processing(t) /\ outbox[t].owner \in Owner
      BY <2>2 DEF Pending, Processing, RunsKnown, TypeOK, Row
    <3>2. WorkOf(t) \subseteq Running[outbox[t].owner]
      BY <3>1 DEF Running, InHandOf, Owns
    <3> QED
      BY <3>1, <3>2
  <2> QED
    BY <2>1, <2>2
<1>12. Buried' = Buried
  BY DEF Take, Buried
<1> HIDE DEF S
<1> QED
  BY <1>6, <1>9, <1>10, <1>11, <1>12, QueueTakes

\* Once a row is settled, run o has its work no longer in hand.
LEMMA SettledHand ==
    ASSUME TypeOK, ApartInRun, NEW o \in Owner, NEW t0 \in Rows, Owns(o, t0),
           t0 \in Rows' => outbox'[t0].status = "pending",
           \A u \in Rows \ {t0} :
               \/ u \in Rows' /\ outbox'[u] = outbox[u] /\ seedRows'[u] = seedRows[u]
               \/ ~Processing(u) /\ (u \in Rows' => outbox'[u].status = "pending"),
           Rows' \subseteq Rows
    PROVE  /\ Running' = [Running EXCEPT ![o] = @ \ WorkOf(t0)]
           /\ WorkOf(t0) \in SUBSET Running[o]
<1>1. \A u \in Rows \ {t0} : Processing(u) =>
          /\ u \in Rows' /\ outbox'[u].status = "processing"
          /\ outbox'[u].owner = outbox[u].owner
          /\ WorkOf(u)' = WorkOf(u)
  BY SameRow DEF Processing
<1>2. \A u \in Rows' : outbox'[u].status = "processing" =>
          u \in Rows \ {t0} /\ Processing(u)
  BY DEF Processing
<1> QED
  BY <1>1, <1>2, RunLetsGo

LEMMA QueueSettle ==
    ASSUME SeedsStayInline, TypeOK, OwnerSeesRow, SeedRowsOwned,
           OthersPlain, NoneWhole, ApartInRun,
           NEW o \in Owner, Settle(o)
    PROVE  Queue!Next \/ UNCHANGED Queue!vars
<1>1. PICK c \in held[o] :
          \/ LeaseLost(o, c)
          \/ MarkDone(o, c)
          \/ ReleaseReturn(o, c)
          \/ \E twin \in Twins(c) : ReleaseMerge(o, c, twin)
          \/ ReleaseBypass(o, c)
          \/ \E direct \in BOOLEAN : FailDead(o, c, direct)
          \/ FailRetry(o, c)
          \/ FailRefused(o, c)
  BY DEF Settle
<1> DEFINE t0 == c.task
<1>2. c \in Claim /\ t0 \in Task
  BY DEF TypeOK, Claim
<1>3. \A u \in Rows : u \in Task /\ outbox[u] \in Row
  BY DEF TypeOK
<1>4. CASE LeaseLost(o, c) \/ FailRefused(o, c)
  <2>1. UNCHANGED <<outbox, seedRows, deadLetter>>
    BY <1>4 DEF LeaseLost, FailRefused
  <2>2. Queued' = Queued /\ Running' = Running /\ Buried' = Buried
    BY <2>1, SameRow, QuietRows DEF Rows, Buried
  <2> QED
    BY <2>2, QueueStutters
<1>5. ASSUME Owns(o, t0)
      PROVE  /\ t0 \in Rows /\ c.plan = outbox[t0].plan
             /\ WorkOf(t0) = {c.plan} \X c.items
             /\ ~Pending(t0)
  <2>1. t0 \in Rows /\ ~Pending(t0)
    BY <1>5 DEF Owns, Pending, Processing
  <2>2. c.plan = outbox[t0].plan /\ c.items = SeedsOf(t0)
    BY <1>5 DEF OwnerSeesRow, Snapshot
  <2>3. Covers(SeedsOf(t0), {}) = SeedsOf(t0)
    BY DEF Covers
  <2> QED
    BY <2>1, <2>2, <2>3 DEF WorkOf, NoneWhole
<1>6. CASE MarkDone(o, c) \/ \E direct \in BOOLEAN : FailDead(o, c, direct)
  <2>1. outbox' = Without(outbox, t0) /\ seedRows' = Settled(t0) /\ Owns(o, t0)
    BY <1>6 DEF MarkDone, FailDead
  <2>2. Rows' = Rows \ {t0} /\ \A u \in Rows \ {t0} :
            outbox'[u] = outbox[u] /\ seedRows'[u] = seedRows[u]
    BY <1>3, <2>1 DEF Without, Settled, Rows, TypeOK
  <2>3. /\ Running' = [Running EXCEPT ![o] = @ \ WorkOf(t0)]
        /\ WorkOf(t0) \in SUBSET Running[o]
    BY <1>5, <2>1, <2>2, SettledHand
  <2>4. Queued' = Queued
    <3>1. {u \in Rows : Pending(u)}' = {u \in Rows : Pending(u)}
      BY <1>5, <2>1, <2>2 DEF Pending
    <3>2. \A u \in Rows : Pending(u) => WorkOf(u)' = WorkOf(u)
      BY <1>5, <2>1, <2>2, SameRow
    <3> QED
      BY <3>1, <3>2 DEF Queued
  <2>5. Buried' = Buried \/ Buried' = Buried \cup WorkOf(t0)
    <3>1. CASE MarkDone(o, c)
      BY <3>1 DEF MarkDone, Buried
    <3>2. CASE deadLetter' = deadLetter \cup {DeadRecord(c)}
      <4>1. /\ DeadRecord(c).plan = c.plan /\ DeadRecord(c).items = c.items
            /\ DeadRecord(c).all = {}
        BY DEF DeadRecord
      <4>2. Covers(c.items, {}) = c.items
        BY DEF Covers
      <4>3. Buried' = Buried \cup {c.plan} \X c.items
        BY <3>2, <4>1, <4>2 DEF Buried
      <4> QED
        BY <4>3, <1>5, <2>1
    <3> QED
      BY <1>6, <3>1, <3>2 DEF FailDead
  <2> QED
    BY <2>3, <2>4, <2>5, QueueLetsGo
<1>7. CASE ReleaseReturn(o, c) \/ ReleaseBypass(o, c) \/ FailRetry(o, c)
  <2>1. Owns(o, t0)
    BY <1>7 DEF ReleaseReturn, ReleaseBypass, FailRetry
  <2>2. t0 \in Rows
    BY <1>5, <2>1
  <2> DEFINE r == Returned(t0)
  <2>3. r \in Row
    BY <2>2, ReturnedType
  <2>4. \/ outbox' = [outbox EXCEPT ![t0] = r]
        \/ outbox' = [outbox EXCEPT ![t0] = [r EXCEPT !.solo = TRUE]]
        \/ outbox' = [outbox EXCEPT ![t0] = [r EXCEPT !.attempts = c.attempts + 1]]
    BY <1>7 DEF ReleaseReturn, ReleaseBypass, FailRetry
  <2>5. r.status = "pending"
    BY <1>3, <2>2 DEF Returned, Row
  <2>6. /\ r.plan = outbox[t0].plan /\ r.inline = outbox[t0].inline
        /\ r.spilled = outbox[t0].spilled /\ r.all = outbox[t0].all
    BY <1>3, <2>2 DEF Returned, Row
  <2> HIDE DEF r
  <2>7. seedRows' = seedRows /\ deadLetter' = deadLetter
    BY <1>7 DEF ReleaseReturn, ReleaseBypass, FailRetry
  <2>8. Rows' = Rows /\ \A u \in Rows \ {t0} : outbox'[u] = outbox[u]
    BY <2>4 DEF Rows, TypeOK
  <2>9. outbox'[t0].status = "pending" /\ Same(t0)
    BY <2>2, <2>3, <2>4, <2>5, <2>6, <2>7 DEF Same, Row, Rows
  <2>10. /\ Running' = [Running EXCEPT ![o] = @ \ WorkOf(t0)]
         /\ WorkOf(t0) \in SUBSET Running[o]
    BY <2>1, <2>2, <2>7, <2>8, <2>9, SettledHand
  <2>11. WorkOf(t0)' = WorkOf(t0)
    BY <2>9, SameWork
  <2>12. Queued' = Queued \cup WorkOf(t0)
    <3> DEFINE S == WorkOf(t0)
    <3>1. \A u \in Rows \ {t0} :
              /\ outbox'[u].status = "pending" <=> Pending(u)
              /\ WorkOf(u)' = WorkOf(u)
      BY <2>7, <2>8, SameRow DEF Pending
    <3>2. WorkOf(t0)' = S
      BY <2>11
    <3> HIDE DEF S
    <3>3. Queued' = Queued \cup S
      BY <1>5, <2>1, <2>2, <2>8, <2>9, <3>1, <3>2, QueueGrows
    <3> QED
      BY <3>3 DEF S
  <2>13. Buried' = Buried
    BY <2>7 DEF Buried
  <2> QED
    BY <2>10, <2>12, <2>13, QueueLetsGo
<1>8. ASSUME NEW twin \in Twins(c), ReleaseMerge(o, c, twin)
      PROVE  Queue!Next
  <2>1. Owns(o, t0) /\ deadLetter' = deadLetter
    BY <1>8 DEF ReleaseMerge
  <2>2. /\ Rows' = Rows \ {t0} /\ twin \in Rows /\ Pending(twin) /\ twin # t0
        /\ outbox[twin].plan = c.plan
        /\ outbox'[twin] = MergedRow(twin, RetryInput(c))
        /\ seedRows'[twin] = MergedSeedRows(twin, RetryInput(c))
        /\ \A u \in Rows \ {t0, twin} : outbox'[u] = outbox[u] /\ seedRows'[u] = seedRows[u]
    BY <1>8, ReleaseMergeRows
  <2>3. outbox'[twin].status = "pending"
    BY <1>3, <2>2 DEF MergedRow, Row, Pending
  <2>4. /\ RetryInput(c) \in [items : SUBSET Item, all : SUBSET Table]
        /\ RetryInput(c).items = c.items /\ RetryInput(c).all = {}
    BY <1>2 DEF RetryInput, Claim
  <2>5. WorkOf(twin)' = WorkOf(twin) \cup {c.plan} \X c.items
    BY <2>2, <2>4, MergedWork DEF NoneWhole
  <2>6. WorkOf(twin)' = WorkOf(twin) \cup WorkOf(t0)
    BY <1>5, <2>1, <2>5
  <2>7. /\ Running' = [Running EXCEPT ![o] = @ \ WorkOf(t0)]
        /\ WorkOf(t0) \in SUBSET Running[o]
    <3>1. ~Processing(twin)
      BY <2>2 DEF Pending, Processing
    <3> QED
      BY <1>5, <2>1, <2>2, <2>3, <3>1, SettledHand
  <2>8. Queued' = Queued \cup WorkOf(t0)
    <3> DEFINE S == WorkOf(t0)
    <3>1. \A u \in Rows' \ {twin} :
              /\ u \in Rows /\ (outbox'[u].status = "pending" <=> Pending(u))
              /\ WorkOf(u)' = WorkOf(u)
      BY <2>2, SameRow DEF Pending
    <3>2. \A u \in Rows \ {twin} : Pending(u) => u \in Rows'
      BY <1>5, <2>1, <2>2
    <3>3. WorkOf(twin)' = WorkOf(twin) \cup S
      BY <2>6
    <3> HIDE DEF S
    <3>4. Queued' = Queued \cup S
      BY <2>2, <2>3, <3>1, <3>2, <3>3, QueueGrows
    <3> QED
      BY <3>4 DEF S
  <2>9. Buried' = Buried
    BY <2>1 DEF Buried
  <2> QED
    BY <2>7, <2>8, <2>9, QueueLetsGo
<1> QED
  BY <1>1, <1>4, <1>6, <1>7, <1>8

-----------------------------------------------------------------------------
(* The refinement *)

\* What the refinement mapping rests on: what a run has in memory is the row
\* (OwnerSeesRow), the spill table holds the seeds of its row and of no other
\* (SeedRowsOwned), and the rows of a run are apart (ApartInRun).
QueueInv ==
    /\ TypeOK /\ OwnerSeesRow /\ SeedRowsOwned
    /\ OthersPlain /\ NoneWhole /\ RunsKnown /\ ApartInRun

LEMMA QueueInvInit == Init => QueueInv
BY InitQueue, TypeInit, AgreeInit DEF QueueInv

LEMMA QueueInvNext ==
    ASSUME NoWholeTables, SeedsStayInline
    PROVE  QueueInv /\ [Next]_vars => QueueInv'
BY TypeNext, SightNext, AgreeNext, StepPlain, StepNoneWhole, StepRunsKnown, StepApart
DEF QueueInv

LEMMA QueueInit == Init => Queue!Init
<1> SUFFICES ASSUME Init PROVE Queue!Init
  OBVIOUS
<1>1. Rows = {} /\ deadLetter = {}
  BY DEF Init, Rows
<1>2. Queued = {} /\ Buried = {} /\ \A o \in Owner : InHandOf(o) = {}
  BY <1>1 DEF Queued, Buried, InHandOf
<1>3. Running = [o \in Owner |-> {}]
  BY <1>2 DEF Running
<1> QED
  BY <1>2, <1>3 DEF Queue!Init, Queued, Buried, Running, InHandOf

LEMMA QueueStep ==
    ASSUME NoWholeTables, SeedsStayInline, QueueInv, [Next]_vars
    PROVE  Queue!Next \/ UNCHANGED Queue!vars
<1> USE DEF QueueInv
<1>1. \A t \in Rows : outbox[t] \in Row
  BY DEF TypeOK
<1>2. ASSUME Rows' = Rows, UNCHANGED <<seedRows, deadLetter>>,
             \A t \in Rows : \/ outbox'[t] = outbox[t]
                            \/ outbox'[t] = [outbox[t] EXCEPT !.live = TRUE]
                            \/ outbox'[t] = [outbox[t] EXCEPT !.live = FALSE]
                            \/ outbox'[t] = [outbox[t] EXCEPT !.due = TRUE]
      PROVE  UNCHANGED Queue!vars
  <2>1. ASSUME NEW t \in Rows
        PROVE  /\ Same(t)
               /\ outbox'[t].status = outbox[t].status
               /\ outbox'[t].owner = outbox[t].owner
    <3>1. outbox[t] \in Row /\ seedRows'[t] = seedRows[t]
      BY <1>1, <1>2
    <3>2. CASE outbox'[t] = outbox[t]
      BY <3>1, <3>2 DEF Same
    <3>3. CASE outbox'[t] = [outbox[t] EXCEPT !.live = TRUE]
      BY <3>1, <3>3 DEF Same, Row
    <3>4. CASE outbox'[t] = [outbox[t] EXCEPT !.live = FALSE]
      BY <3>1, <3>4 DEF Same, Row
    <3>5. CASE outbox'[t] = [outbox[t] EXCEPT !.due = TRUE]
      BY <3>1, <3>5 DEF Same, Row
    <3> QED
      BY <1>2, <3>2, <3>3, <3>4, <3>5
  <2>2. \A t \in Rows : WorkOf(t)' = WorkOf(t)
    BY <2>1, SameWork
  <2>3. Queued' = Queued /\ Running' = Running
    BY <1>2, <2>1, <2>2, QuietRows
  <2>4. Buried' = Buried
    BY <1>2 DEF Buried
  <2> QED
    BY <2>3, <2>4, QueueStutters
<1>3. CASE Enqueue
  BY <1>3, QueueEnqueue
<1>4. ASSUME NEW o \in Owner, ClaimStep(o)
      PROVE  Queue!Next
  BY <1>4, ClaimTakes, QueueClaim
<1>5. ASSUME NEW o \in Owner, RenewLease(o)
      PROVE  UNCHANGED Queue!vars
  BY <1>2, <1>5 DEF RenewLease, Rows
<1>6. ASSUME NEW o \in Owner, Settle(o)
      PROVE  Queue!Next \/ UNCHANGED Queue!vars
  BY <1>6, QueueSettle
<1>7. ASSUME NEW o \in Owner, Crash(o)
      PROVE  UNCHANGED Queue!vars
  BY <1>2, <1>7 DEF Crash, Rows
<1>8. CASE Environment
  <2>1. ASSUME NEW t \in Rows, LeaseExpires(t) \/ BecomesDue(t)
        PROVE  UNCHANGED Queue!vars
    BY <1>2, <2>1 DEF LeaseExpires, BecomesDue, Rows, TypeOK
  <2>2. ASSUME NEW s \in PauseScope, PauseOne(s) \/ ResumeOne(s)
        PROVE  UNCHANGED Queue!vars
    BY <1>2, <2>2 DEF PauseOne, ResumeOne, Rows
  <2> QED
    BY <1>8, <2>1, <2>2 DEF Environment
<1>9. CASE UNCHANGED vars
  BY <1>2, <1>9 DEF vars, Rows
<1> QED
  BY <1>3, <1>4, <1>5, <1>6, <1>7, <1>8, <1>9 DEF Next

\* The outbox, its spill table and its dead letter implement the queue: every
\* operation of every writer, run and clock is a step of the queue or none.
THEOREM OutboxLosesNoWork ==
    ASSUME NoWholeTables, SeedsStayInline
    PROVE  Spec => NoWorkLost
<1>1. QueueInv /\ [Next]_vars => [Queue!Next]_(Queue!vars)
  BY QueueStep
<1> QED
  BY <1>1, QueueInvInit, QueueInvNext, QueueInit, PTL DEF Spec, NoWorkLost, Queue!Spec

-----------------------------------------------------------------------------
(* Nothing ends unreported *)

\* A row is deleted by the run that owns it, in one of three ways.
LEMMA LeavesByHand ==
    ASSUME TypeOK, [Next]_vars, NEW t \in Rows, t \notin Rows'
    PROVE  \E o \in Owner : \E c \in held[o] :
               /\ c.task = t /\ Owns(o, t)
               /\ \/ MarkDone(o, c)
                  \/ \E direct \in BOOLEAN : FailDead(o, c, direct)
                  \/ \E twin \in Twins(c) : ReleaseMerge(o, c, twin)
<1>1. ~Enqueue
  BY DEF Enqueue, EnqueueNew, EnqueueMerge, EnqueueBypass, With, Rows, TypeOK
<1>2. \A o \in Owner : ~ClaimStep(o)
  BY ClaimTakes, TakeRows
<1>3. \A o \in Owner : ~RenewLease(o) /\ ~Crash(o)
  BY DEF RenewLease, Crash, Rows
<1>4. ~Environment
  BY DEF Environment, LeaseExpires, BecomesDue, PauseOne, ResumeOne, Rows, TypeOK
<1>5. ~UNCHANGED vars
  BY DEF vars, Rows
<1> PICK o \in Owner : Settle(o)
  BY <1>1, <1>2, <1>3, <1>4, <1>5 DEF Next
<1>6. PICK c \in held[o] :
          \/ LeaseLost(o, c)
          \/ MarkDone(o, c)
          \/ ReleaseReturn(o, c)
          \/ \E twin \in Twins(c) : ReleaseMerge(o, c, twin)
          \/ ReleaseBypass(o, c)
          \/ \E direct \in BOOLEAN : FailDead(o, c, direct)
          \/ FailRetry(o, c)
          \/ FailRefused(o, c)
  BY DEF Settle
<1>7. /\ ~LeaseLost(o, c) /\ ~FailRefused(o, c)
      /\ ~ReleaseReturn(o, c) /\ ~ReleaseBypass(o, c) /\ ~FailRetry(o, c)
  BY DEF LeaseLost, FailRefused, ReleaseReturn, ReleaseBypass, FailRetry, Rows, TypeOK
<1>8. ASSUME MarkDone(o, c) \/ \E direct \in BOOLEAN : FailDead(o, c, direct)
      PROVE  c.task = t /\ Owns(o, t)
  BY <1>8 DEF MarkDone, FailDead, Without, Rows
<1>9. ASSUME NEW twin \in Twins(c), ReleaseMerge(o, c, twin)
      PROVE  c.task = t /\ Owns(o, t)
  BY <1>9, ReleaseMergeRows DEF ReleaseMerge
<1> QED
  BY <1>6, <1>7, <1>8, <1>9

\* The dead letter only grows.
LEMMA BuriedStays ==
    ASSUME TypeOK, [Next]_vars
    PROVE  deadLetter \subseteq deadLetter'
<1>1. ASSUME NEW o \in Owner, Settle(o)
      PROVE  deadLetter \subseteq deadLetter'
  BY <1>1 DEF Settle, LeaseLost, MarkDone, ReleaseReturn, ReleaseMerge, ReleaseBypass,
              FailDead, FailRetry, FailRefused
<1>2. ASSUME NEW o \in Owner, ClaimStep(o) \/ RenewLease(o) \/ Crash(o)
      PROVE  deadLetter' = deadLetter
  BY <1>2 DEF ClaimStep, ClaimBatch, ClaimById, TakeOver, Take, RenewLease, Crash
<1>3. CASE Enqueue
  BY <1>3 DEF Enqueue, EnqueueNew, EnqueueMerge, EnqueueBypass
<1>4. CASE Environment
  BY <1>4 DEF Environment, LeaseExpires, BecomesDue, PauseOne, ResumeOne
<1>5. CASE UNCHANGED vars
  BY <1>5 DEF vars
<1> QED
  BY <1>1, <1>2, <1>3, <1>4, <1>5 DEF Next

\* What a run has of a row it owns is the work of the row.
LEMMA OwnedWork ==
    ASSUME OwnerSeesRow, NoneWhole, NEW o \in Owner, NEW c \in held[o], Owns(o, c.task)
    PROVE  WorkOf(c.task) = {c.plan} \X c.items
<1>1. c.task \in Rows /\ c.plan = outbox[c.task].plan /\ c.items = SeedsOf(c.task)
  BY DEF OwnerSeesRow, Snapshot, Owns
<1>2. Covers(SeedsOf(c.task), {}) = SeedsOf(c.task)
  BY DEF Covers
<1> QED
  BY <1>1, <1>2 DEF WorkOf, NoneWhole

LEMMA StepKeepsWork ==
    ASSUME NoWholeTables, SeedsStayInline, QueueInv, [Next]_vars, ~ReportsDone,
           NEW t \in Rows
    PROVE  WorkOf(t) \subseteq InKeeping'
<1> USE DEF QueueInv
<1>1. CASE t \in Rows'
  <2>1. WorkOf(t) \subseteq WorkOf(t)'
    BY <1>1, StepKeepsQueued
  <2> QED
    BY <1>1, <2>1 DEF InKeeping
<1>2. CASE t \notin Rows'
  <2> PICK o \in Owner : \E c \in held[o] :
            /\ c.task = t /\ Owns(o, t)
            /\ \/ MarkDone(o, c)
               \/ \E direct \in BOOLEAN : FailDead(o, c, direct)
               \/ \E twin \in Twins(c) : ReleaseMerge(o, c, twin)
    BY <1>2, LeavesByHand
  <2>1. PICK c \in held[o] :
            /\ c.task = t /\ Owns(o, t)
            /\ \/ MarkDone(o, c)
               \/ \E direct \in BOOLEAN : FailDead(o, c, direct)
               \/ \E twin \in Twins(c) : ReleaseMerge(o, c, twin)
    OBVIOUS
  <2>2. ~MarkDone(o, c)
    BY DEF ReportsDone
  <2>3. WorkOf(t) = {c.plan} \X c.items /\ c \in Claim
    BY <2>1, OwnedWork DEF TypeOK
  <2>4. ASSUME NEW direct \in BOOLEAN, FailDead(o, c, direct)
        PROVE  WorkOf(t) \subseteq InKeeping'
    <3>1. /\ DeadRecord(c) \in deadLetter'
          /\ DeadRecord(c).plan = c.plan /\ DeadRecord(c).items = c.items
          /\ DeadRecord(c).all = {}
      BY <2>4 DEF FailDead, DeadRecord
    <3>2. Covers(c.items, {}) = c.items
      BY DEF Covers
    <3> DEFINE d == DeadRecord(c)
    <3> HIDE DEF d
    <3>3. d \in deadLetter' /\ {d.plan} \X Covers(d.items, d.all) = WorkOf(t)
      BY <2>3, <3>1, <3>2 DEF d
    <3>4. Buried' \subseteq InKeeping'
      BY DEF InKeeping, Buried
    <3> QED
      BY <3>3, <3>4 DEF Buried
  <2>5. ASSUME NEW twin \in Twins(c), ReleaseMerge(o, c, twin)
        PROVE  WorkOf(t) \subseteq InKeeping'
    <3>1. /\ Rows' = Rows \ {t} /\ twin \in Rows /\ twin # t
          /\ outbox[twin].plan = c.plan
          /\ outbox'[twin] = MergedRow(twin, RetryInput(c))
          /\ seedRows'[twin] = MergedSeedRows(twin, RetryInput(c))
      BY <2>1, <2>5, ReleaseMergeRows
    <3>2. /\ RetryInput(c) \in [items : SUBSET Item, all : SUBSET Table]
          /\ RetryInput(c).items = c.items /\ RetryInput(c).all = {}
      BY <2>3 DEF RetryInput, Claim
    <3>3. WorkOf(twin)' = WorkOf(twin) \cup {c.plan} \X c.items
      BY <3>1, <3>2, MergedWork DEF NoneWhole
    <3>4. twin \in Rows' /\ WorkOf(t) \subseteq WorkOf(twin)'
      BY <2>3, <3>1, <3>3
    <3> QED
      BY <3>4 DEF InKeeping
  <2> QED
    BY <2>1, <2>2, <2>4, <2>5
<1> QED
  BY <1>1, <1>2

\* Whatever is merged, released, buried, taken over or killed, work leaves the
\* rows and the dead letter only by a run that owns it and reports it done.
THEOREM OnlyDoneEverEnds ==
    ASSUME NoWholeTables, SeedsStayInline
    PROVE  Spec => OnlyDoneEnds
<1>1. ASSUME QueueInv, [Next]_vars, ~ReportsDone
      PROVE  InKeeping \subseteq InKeeping'
  <2>1. \A t \in Rows : WorkOf(t) \subseteq InKeeping'
    BY <1>1, StepKeepsWork
  <2>2. Buried \subseteq Buried'
    BY <1>1, BuriedStays DEF Buried, QueueInv
  <2>3. Buried' \subseteq InKeeping'
    BY DEF InKeeping, Buried
  <2>4. InKeeping = (UNION {WorkOf(t) : t \in Rows}) \cup Buried
    BY DEF InKeeping, Buried
  <2> QED
    BY <2>1, <2>2, <2>3, <2>4
<1>2. QueueInv /\ [Next]_vars => [~ReportsDone => InKeeping \subseteq InKeeping']_vars
  BY <1>1
<1> QED
  BY <1>2, QueueInvInit, QueueInvNext, PTL DEF Spec, OnlyDoneEnds
=============================================================================
