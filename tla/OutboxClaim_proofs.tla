------------------------- MODULE OutboxClaim_proofs -------------------------
(***************************************************************************)
(* Proofs about OutboxClaim: whatever the rows, the claimers and the       *)
(* limits, what a claim has read of its rows stays true to the end of its  *)
(* transaction, and no live lease is lost but to an explicit takeover.     *)
(*                                                                         *)
(* The argument is in two facts.  RowsHeld: from the locking select to the *)
(* commit, the claim has the row lock of every row it picked.  RowShape:   *)
(* a row has an owner exactly while it is in processing, and a live lease  *)
(* only then.  With them, nobody but the lease's own end changes a picked  *)
(* row before its claim commits.                                           *)
(*                                                                         *)
(* The limit of a base is kept where every claim is a batch claim and no   *)
(* lease is renewed late: one transaction at a time is past the global     *)
(* lock, and what it counted can only have become less when it commits.    *)
(***************************************************************************)
EXTENDS OutboxClaim, FiniteSetTheorems, TLAPS

InTransaction(x) == phase[x] \in {"locked", "checked"}

RowsHeld ==
    \A x \in Claimer : InTransaction(x) => \A t \in picked[x] : rowLock[t] = x

RowShape ==
    \A t \in Task : /\ row[t].owner = Nobody <=> row[t].status = "pending"
                    /\ row[t].live => row[t].status = "processing"

IInv == TypeOK /\ RowsHeld /\ RowShape /\ ChecksStayTrue

-----------------------------------------------------------------------------
(* Type correctness *)

LEMMA InitTyped == Init => TypeOK
  BY ClaimAssumption DEF Init, TypeOK

LEMMA StepTyped == TypeOK /\ [Next]_vars => TypeOK'
<1> SUFFICES ASSUME TypeOK, [Next]_vars PROVE TypeOK'
  OBVIOUS
<1> USE DEF TypeOK
<1>1. CASE UNCHANGED vars
  BY <1>1 DEF vars
<1>2. ASSUME NEW x \in Claimer, BeginBatch(x) PROVE TypeOK'
  BY <1>2 DEF BeginBatch, Go
<1>3. ASSUME NEW x \in Claimer, NEW t \in Task, BeginById(x, t) PROVE TypeOK'
  BY <1>3, ClaimAssumption DEF BeginById, Go
<1>4. ASSUME NEW x \in Claimer, NEW t \in Task, BeginTakeover(x, t) PROVE TypeOK'
  BY <1>4 DEF BeginTakeover, Go
<1>5. ASSUME NEW x \in Claimer, NEW T \in SUBSET Task, LockBatch(x, T) PROVE TypeOK'
  BY <1>5 DEF LockBatch, Go, RowsLocked
<1>6. ASSUME NEW x \in Claimer, LockOne(x) PROVE TypeOK'
  BY <1>6 DEF LockOne, Go, RowsLocked
<1>7. ASSUME NEW x \in Claimer, NEW S \in SUBSET Task, CheckBatch(x, S) PROVE TypeOK'
  BY <1>7 DEF CheckBatch, Go
<1>8. ASSUME NEW x \in Claimer, CheckById(x) \/ CheckNothing(x) PROVE TypeOK'
  BY <1>8 DEF CheckById, CheckNothing, Go
<1>9. ASSUME NEW x \in Claimer, Commit(x) PROVE TypeOK'
  BY <1>9 DEF Commit, Go, LocksReleased
<1>10. ASSUME NEW x \in Claimer, Abort(x) PROVE TypeOK'
  BY <1>10 DEF Abort, LocksReleased
<1>11. ASSUME NEW x \in Claimer, NEW t \in Task, SettleRow(x, t) PROVE TypeOK'
  BY <1>11 DEF SettleRow, LetGo
<1>12. ASSUME NEW x \in Claimer, NEW t \in Task, RenewRow(x, t) PROVE TypeOK'
  BY <1>12 DEF RenewRow
<1>13. ASSUME NEW x \in Claimer, Crash(x) PROVE TypeOK'
  BY <1>13 DEF Crash
<1>14. ASSUME NEW t \in Task, LeaseExpires(t) PROVE TypeOK'
  BY <1>14 DEF LeaseExpires
<1> QED
  BY <1>1, <1>2, <1>3, <1>4, <1>5, <1>6, <1>7, <1>8, <1>9, <1>10, <1>11, <1>12,
     <1>13, <1>14 DEF Next

\* Every lock and every phase of the claim transactions is what it should be.
THEOREM TypeCorrect == Spec => []TypeOK
  BY InitTyped, StepTyped, PTL DEF Spec

-----------------------------------------------------------------------------
(* The inductive invariant *)

LEMMA InitHolds == Init => IInv
  BY InitTyped, ClaimAssumption
     DEF Init, IInv, RowsHeld, InTransaction, RowShape, ChecksStayTrue, HasChecked

\* Row locks are taken only where they are free, kept through the checks, and
\* dropped only when the transaction ends.
LEMMA StepRowsHeld == IInv /\ [Next]_vars => RowsHeld'
<1> SUFFICES ASSUME IInv, [Next]_vars PROVE RowsHeld'
  OBVIOUS
<1> USE ClaimAssumption DEF IInv, TypeOK, RowsHeld, InTransaction
<1>1. CASE UNCHANGED vars
  BY <1>1 DEF vars
<1>2. ASSUME NEW x \in Claimer, BeginBatch(x) PROVE RowsHeld'
  BY <1>2 DEF BeginBatch, Go
<1>3. ASSUME NEW x \in Claimer, NEW t \in Task, BeginById(x, t) PROVE RowsHeld'
  BY <1>3 DEF BeginById, Go
<1>4. ASSUME NEW x \in Claimer, NEW t \in Task, BeginTakeover(x, t) PROVE RowsHeld'
  BY <1>4 DEF BeginTakeover, Go
<1>5. ASSUME NEW x \in Claimer, NEW T \in SUBSET Task, LockBatch(x, T) PROVE RowsHeld'
  BY <1>5 DEF LockBatch, Go, RowsLocked
<1>6. ASSUME NEW x \in Claimer, LockOne(x) PROVE RowsHeld'
  BY <1>6 DEF LockOne, Go, RowsLocked
<1>7. ASSUME NEW x \in Claimer, NEW S \in SUBSET Task, CheckBatch(x, S) PROVE RowsHeld'
  BY <1>7 DEF CheckBatch, Go
<1>8. ASSUME NEW x \in Claimer, CheckById(x) \/ CheckNothing(x) PROVE RowsHeld'
  BY <1>8 DEF CheckById, CheckNothing, Go
<1>9. ASSUME NEW x \in Claimer, Commit(x) PROVE RowsHeld'
  BY <1>9 DEF Commit, Go, LocksReleased
<1>10. ASSUME NEW x \in Claimer, Abort(x) PROVE RowsHeld'
  BY <1>10 DEF Abort, LocksReleased
<1>11. ASSUME NEW x \in Claimer, NEW t \in Task, SettleRow(x, t) PROVE RowsHeld'
  BY <1>11 DEF SettleRow, LetGo
<1>12. ASSUME NEW x \in Claimer, NEW t \in Task, RenewRow(x, t) PROVE RowsHeld'
  BY <1>12 DEF RenewRow
<1>13. ASSUME NEW x \in Claimer, Crash(x) PROVE RowsHeld'
  BY <1>13 DEF Crash
<1>14. ASSUME NEW t \in Task, LeaseExpires(t) PROVE RowsHeld'
  BY <1>14 DEF LeaseExpires
<1> QED
  BY <1>1, <1>2, <1>3, <1>4, <1>5, <1>6, <1>7, <1>8, <1>9, <1>10, <1>11, <1>12,
     <1>13, <1>14 DEF Next

\* The actions that leave the rows as they are.
RowsStay == UNCHANGED row

LEMMA StepRowShape == IInv /\ [Next]_vars => RowShape'
<1> SUFFICES ASSUME IInv, [Next]_vars PROVE RowShape'
  OBVIOUS
<1> USE ClaimAssumption DEF IInv, TypeOK, RowShape
<1>1. CASE RowsStay
  BY <1>1 DEF RowsStay
<1>2. ASSUME NEW x \in Claimer, Commit(x) PROVE RowShape'
  BY <1>2 DEF Commit
<1>3. ASSUME NEW x \in Claimer, NEW t \in Task, SettleRow(x, t) PROVE RowShape'
  BY <1>3 DEF SettleRow
<1>4. ASSUME NEW x \in Claimer, NEW t \in Task, RenewRow(x, t) PROVE RowShape'
  BY <1>4 DEF RenewRow
<1>5. ASSUME NEW t \in Task, LeaseExpires(t) PROVE RowShape'
  BY <1>5 DEF LeaseExpires
<1> QED
  BY <1>1, <1>2, <1>3, <1>4, <1>5
     DEF Next, vars, RowsStay, BeginBatch, BeginById, BeginTakeover, LockBatch, LockOne,
         CheckBatch, CheckById, CheckNothing, Abort, Crash

\* A reading is only ever undone by a change of the row, and the row of a
\* checked claim is locked by it: another claim has no lock on it, and the
\* settlements and renewals of other owners wait.
LEMMA StepChecks == IInv /\ [Next]_vars => ChecksStayTrue'
<1> SUFFICES ASSUME IInv, [Next]_vars PROVE ChecksStayTrue'
  OBVIOUS
<1> USE ClaimAssumption
    DEF IInv, TypeOK, RowsHeld, InTransaction, RowShape, ChecksStayTrue, HasChecked,
        Claimable, Pending, Stale
<1>1. CASE UNCHANGED vars
  BY <1>1 DEF vars
<1>2. ASSUME NEW x \in Claimer, BeginBatch(x) PROVE ChecksStayTrue'
  BY <1>2 DEF BeginBatch, Go
<1>3. ASSUME NEW x \in Claimer, NEW t \in Task, BeginById(x, t) PROVE ChecksStayTrue'
  BY <1>3 DEF BeginById, Go
<1>4. ASSUME NEW x \in Claimer, NEW t \in Task, BeginTakeover(x, t) PROVE ChecksStayTrue'
  BY <1>4 DEF BeginTakeover, Go
<1>5. ASSUME NEW x \in Claimer, NEW T \in SUBSET Task, LockBatch(x, T)
      PROVE ChecksStayTrue'
  BY <1>5 DEF LockBatch, Go
<1>6. ASSUME NEW x \in Claimer, LockOne(x) PROVE ChecksStayTrue'
  BY <1>6 DEF LockOne, Go
<1>7. ASSUME NEW x \in Claimer, NEW S \in SUBSET Task, CheckBatch(x, S)
      PROVE ChecksStayTrue'
  BY <1>7 DEF CheckBatch, Go
<1>8. ASSUME NEW x \in Claimer, CheckById(x) \/ CheckNothing(x) PROVE ChecksStayTrue'
  BY <1>8 DEF CheckById, CheckNothing, Go
<1>9. ASSUME NEW x \in Claimer, Commit(x) PROVE ChecksStayTrue'
  <2>1. \A y \in Claimer \ {x} : InTransaction(y) => picked[y] \cap picked[x] = {}
    BY <1>9 DEF Commit, Go
  <2> QED
    BY <1>9, <2>1 DEF Commit, Go
<1>10. ASSUME NEW x \in Claimer, Abort(x) PROVE ChecksStayTrue'
  BY <1>10 DEF Abort
<1>11. ASSUME NEW x \in Claimer, NEW t \in Task, SettleRow(x, t) PROVE ChecksStayTrue'
  BY <1>11 DEF SettleRow, LetGo
<1>12. ASSUME NEW x \in Claimer, NEW t \in Task, RenewRow(x, t) PROVE ChecksStayTrue'
  BY <1>12 DEF RenewRow
<1>13. ASSUME NEW x \in Claimer, Crash(x) PROVE ChecksStayTrue'
  BY <1>13 DEF Crash
<1>14. ASSUME NEW t \in Task, LeaseExpires(t) PROVE ChecksStayTrue'
  BY <1>14 DEF LeaseExpires
<1> QED
  BY <1>1, <1>2, <1>3, <1>4, <1>5, <1>6, <1>7, <1>8, <1>9, <1>10, <1>11, <1>12,
     <1>13, <1>14 DEF Next

LEMMA IInvHolds == Spec => []IInv
<1>1. IInv /\ [Next]_vars => IInv'
  BY StepTyped, StepRowsHeld, StepRowShape, StepChecks DEF IInv
<1> QED
  BY InitHolds, <1>1, PTL DEF Spec

-----------------------------------------------------------------------------
(* The results *)

\* What claimBatch and claimById read of their rows is true until they commit.
THEOREM ChecksAlwaysStayTrue == Spec => []ChecksStayTrue
<1>1. IInv => ChecksStayTrue
  BY DEF IInv
<1> QED
  BY IInvHolds, <1>1, PTL

\* No step but an explicit takeover gives a row with a live lease to another
\* run: a claim that commits has checked its rows, and they are still pending
\* or stale; no other statement writes an owner.
THEOREM LiveLeaseAlwaysKept == Spec => LiveLeaseKept
<1> DEFINE Kept ==
      \A t \in Task : /\ row[t].live
                      /\ row'[t].owner \notin {row[t].owner, Nobody}
                      => Kind[row'[t].owner] = "takeover"
<1>1. ASSUME IInv, [Next]_vars PROVE [Kept]_vars
  <2> SUFFICES ASSUME NEW t \in Task, row[t].live,
                      row'[t].owner \notin {row[t].owner, Nobody}
               PROVE Kind[row'[t].owner] = "takeover"
    OBVIOUS
  <2> USE <1>1, ClaimAssumption DEF IInv, TypeOK
  <2>1. CASE RowsStay
    BY <2>1 DEF RowsStay
  <2>2. ASSUME NEW x \in Claimer, Commit(x) PROVE Kind[row'[t].owner] = "takeover"
    <3>1. t \in picked[x] /\ row'[t].owner = x
      BY <2>2 DEF Commit
    <3>2. CASE Kind[x] # "takeover"
      BY <2>2, <3>1, <3>2
         DEF Commit, Go, ChecksStayTrue, HasChecked, Claimable, Pending, Stale, RowShape
    <3> QED
      BY <3>1, <3>2
  <2>3. ASSUME NEW x \in Claimer, NEW u \in Task, SettleRow(x, u) PROVE FALSE
    BY <2>3 DEF SettleRow
  <2>4. ASSUME NEW x \in Claimer, NEW u \in Task, RenewRow(x, u) PROVE FALSE
    BY <2>4 DEF RenewRow
  <2>5. ASSUME NEW u \in Task, LeaseExpires(u) PROVE FALSE
    BY <2>5 DEF LeaseExpires
  <2> QED
    BY <2>1, <2>2, <2>3, <2>4, <2>5
       DEF Next, vars, RowsStay, BeginBatch, BeginById, BeginTakeover, LockBatch, LockOne,
           CheckBatch, CheckById, CheckNothing, Abort, Crash
<1> QED
  BY IInvHolds, <1>1, PTL DEF Spec, LiveLeaseKept

-----------------------------------------------------------------------------
(* The limit of a base, under batch claims alone *)

BatchClaims == HeartbeatsOnTime /\ \A x \in Claimer : Kind[x] = "batch"
BatchLimitKept == BatchClaims => BaseLimitKept

\* A claim that has begun has the global lock, and what it has checked still fits.
OneAtATime ==
    \A x \in Claimer : phase[x] \in {"began", "locked", "checked"} => globalLock = x
CheckedFits == \A x \in Claimer : phase[x] = "checked" => Fits(picked[x])

LimitInv == TypeOK /\ OneAtATime /\ CheckedFits /\ BaseLimitKept

\* What the claims of the other kinds do.
OtherKind(x) ==
    \/ \E t \in Task : BeginById(x, t) \/ BeginTakeover(x, t)
    \/ LockOne(x) \/ CheckById(x) \/ CheckNothing(x)

\* The rows that count are finitely many, and fewer if some no longer count.
LEMMA Counted ==
    ASSUME IsFiniteSet(Task), NEW b
    PROVE  /\ IsFiniteSet(ActiveIn(b)) /\ Cardinality(ActiveIn(b)) \in Nat
           /\ IsFiniteSet(ActiveIn(b)') /\ Cardinality(ActiveIn(b))' \in Nat
           /\ ActiveIn(b)' \subseteq ActiveIn(b) =>
                Cardinality(ActiveIn(b))' <= Cardinality(ActiveIn(b))
           /\ \A S \in SUBSET Task : Cardinality(InBase(S, b)) \in Nat
<1>1. ActiveIn(b) \subseteq Task /\ ActiveIn(b)' \subseteq Task
  BY DEF ActiveIn
<1>2. \A S \in SUBSET Task : InBase(S, b) \subseteq Task
  BY DEF InBase
<1> QED
  BY <1>1, <1>2, FS_Subset, FS_CardinalityType

\* Where fewer rows count and the same claims are checked, nothing is exceeded.
LEMMA LimitShrinks ==
    ASSUME LimitInv, IsFiniteSet(Task), ClaimAssumption,
           \A b \in Base : ActiveIn(b)' \subseteq ActiveIn(b),
           \A x \in Claimer : phase'[x] = "checked" =>
              Fits(picked'[x]) /\ picked'[x] \in SUBSET Task
    PROVE  CheckedFits' /\ BaseLimitKept'
<1>1. BaseLimitKept'
  <2>1. ASSUME NEW b \in Base PROVE Cardinality(ActiveIn(b))' <= MaxPerBase
    BY <2>1, Counted DEF LimitInv, BaseLimitKept, ClaimAssumption
  <2> QED
    BY <2>1 DEF BaseLimitKept
<1>2. ASSUME NEW x \in Claimer, phase'[x] = "checked", NEW b \in Base,
             InBase(picked'[x], b) # {}
      PROVE  Cardinality(ActiveIn(b))' + Cardinality(InBase(picked'[x], b)) <= MaxPerBase
  <2>1. Cardinality(ActiveIn(b)) + Cardinality(InBase(picked'[x], b)) <= MaxPerBase
    BY <1>2 DEF Fits
  <2> QED
    BY <1>2, <2>1, Counted DEF ClaimAssumption
<1>3. CheckedFits'
  BY <1>2 DEF CheckedFits, Fits, InBase
<1> QED
  BY <1>1, <1>3

\* The rows a claim commits are those it counted, on top of what counts already.
LEMMA CommitFits ==
    ASSUME LimitInv, BatchClaims, IsFiniteSet(Task), ClaimAssumption, NEW x \in Claimer, Commit(x)
    PROVE  CheckedFits' /\ BaseLimitKept'
<1>1. phase[x] = "checked" /\ globalLock = x /\ Fits(picked[x]) /\ picked[x] \in SUBSET Task
  BY DEF Commit, Go, LimitInv, OneAtATime, CheckedFits, TypeOK
<1>2. CheckedFits'
  <2>1. \A y \in Claimer : phase'[y] # "checked"
    BY <1>1 DEF Commit, Go, LimitInv, OneAtATime, TypeOK
  <2> QED
    BY <2>1 DEF CheckedFits
<1>3. ASSUME NEW b \in Base PROVE Cardinality(ActiveIn(b))' <= MaxPerBase
  <2>1. ActiveIn(b)' \subseteq ActiveIn(b) \cup InBase(picked[x], b)
    BY DEF Commit, ActiveIn, InBase
  <2>2. CASE InBase(picked[x], b) = {}
    BY <1>3, <2>1, <2>2, Counted DEF LimitInv, BaseLimitKept, ClaimAssumption
  <2>3. CASE InBase(picked[x], b) # {}
    <3>1. Cardinality(ActiveIn(b)) + Cardinality(InBase(picked[x], b)) <= MaxPerBase
      BY <1>1, <1>3, <2>3 DEF Fits
    <3>2. IsFiniteSet(InBase(picked[x], b))
      BY <1>1, FS_Subset DEF InBase
    <3> DEFINE U == ActiveIn(b) \cup InBase(picked[x], b)
    <3>3. IsFiniteSet(U) /\ Cardinality(U) <= Cardinality(ActiveIn(b)) + Cardinality(InBase(picked[x], b))
      <4>1. IsFiniteSet(ActiveIn(b)) /\ Cardinality(ActiveIn(b)) \in Nat
        BY Counted
      <4>2. Cardinality(InBase(picked[x], b)) \in Nat
        BY <3>2, FS_CardinalityType
      <4>3. Cardinality(ActiveIn(b) \cap InBase(picked[x], b)) \in Nat
        BY <4>1, FS_Intersection, FS_CardinalityType
      <4>4. /\ IsFiniteSet(U)
            /\ Cardinality(U) = Cardinality(ActiveIn(b)) + Cardinality(InBase(picked[x], b))
                                  - Cardinality(ActiveIn(b) \cap InBase(picked[x], b))
        BY <3>2, <4>1, FS_Union
      <4> QED
        BY <4>1, <4>2, <4>3, <4>4
    <3>4. Cardinality(ActiveIn(b))' <= Cardinality(U)
      BY <2>1, <3>3, FS_Subset
    <3> HIDE DEF U
    <3> QED
      BY <1>1, <3>1, <3>3, <3>4, Counted, FS_CardinalityType DEF ClaimAssumption
  <2> QED
    BY <2>2, <2>3
<1> QED
  BY <1>2, <1>3 DEF BaseLimitKept

LEMMA StepOneAtATime ==
    ASSUME TypeOK, OneAtATime, BatchClaims, ClaimAssumption, [Next]_vars
    PROVE  OneAtATime'
<1> USE DEF TypeOK, OneAtATime, BatchClaims
<1>1. CASE UNCHANGED vars
  BY <1>1 DEF vars
<1>2. ASSUME NEW x \in Claimer, BeginBatch(x) PROVE OneAtATime'
  BY <1>2, ClaimAssumption DEF BeginBatch, Go
<1>3. ASSUME NEW x \in Claimer, NEW T \in SUBSET Task, LockBatch(x, T) \/ CheckBatch(x, T)
      PROVE  OneAtATime'
  BY <1>3 DEF LockBatch, CheckBatch, Go
<1>4. ASSUME NEW x \in Claimer PROVE ~OtherKind(x)
  BY <1>4 DEF OtherKind, BeginById, BeginTakeover, LockOne, CheckById, CheckNothing
<1>5. ASSUME NEW x \in Claimer, Commit(x) \/ Abort(x) PROVE OneAtATime'
  <2>1. phase[x] \in {"began", "locked", "checked"} /\ globalLock = x
    BY <1>5 DEF Commit, Abort, Go
  <2>2. \A y \in Claimer : phase[y] \in {"began", "locked", "checked"} => y = x
    BY <2>1
  <2>3. phase'[x] \in {"idle", "running"} /\ \A y \in Claimer \ {x} : phase'[y] = phase[y]
    BY <1>5 DEF Commit, Abort, Go
  <2> QED
    BY <2>2, <2>3
<1>6. ASSUME NEW x \in Claimer, NEW t \in Task,
             SettleRow(x, t) \/ RenewRow(x, t)
      PROVE  OneAtATime'
  BY <1>6 DEF SettleRow, LetGo, RenewRow
<1>7. ASSUME NEW x \in Claimer, Crash(x) PROVE OneAtATime'
  BY <1>7 DEF Crash
<1>8. ASSUME NEW t \in Task, LeaseExpires(t) PROVE OneAtATime'
  BY <1>8 DEF LeaseExpires
<1> QED
  BY <1>1, <1>2, <1>3, <1>4, <1>5, <1>6, <1>7, <1>8 DEF Next, OtherKind

LEMMA StepLimit ==
    ASSUME LimitInv, BatchClaims, IsFiniteSet(Task), ClaimAssumption, [Next]_vars
    PROVE  CheckedFits' /\ BaseLimitKept'
<1> USE DEF TypeOK, LimitInv, BatchClaims
<1>1. CASE UNCHANGED vars
  BY <1>1, LimitShrinks DEF vars, ActiveIn, CheckedFits
<1>2. ASSUME NEW x \in Claimer, NEW T \in SUBSET Task, LockBatch(x, T)
      PROVE  CheckedFits' /\ BaseLimitKept'
  BY <1>2, LimitShrinks DEF LockBatch, Go, ActiveIn, CheckedFits
<1>3. ASSUME NEW x \in Claimer, NEW S \in SUBSET Task, CheckBatch(x, S)
      PROVE  CheckedFits' /\ BaseLimitKept'
  BY <1>3, LimitShrinks DEF CheckBatch, Go, ActiveIn, CheckedFits
<1>4. ASSUME NEW x \in Claimer PROVE ~OtherKind(x)
  BY <1>4 DEF OtherKind, BeginById, BeginTakeover, LockOne, CheckById, CheckNothing
<1>5. ASSUME NEW x \in Claimer, Commit(x) PROVE CheckedFits' /\ BaseLimitKept'
  BY <1>5, CommitFits
<1>6. ASSUME NEW x \in Claimer, Abort(x) \/ Crash(x) \/ \E t \in Task : SettleRow(x, t)
      PROVE  CheckedFits' /\ BaseLimitKept'
  <2>1. \A b \in Base : ActiveIn(b)' \subseteq ActiveIn(b)
    BY <1>6 DEF Abort, Crash, SettleRow, ActiveIn
  <2>2. /\ phase'[x] # "checked"
        /\ \A y \in Claimer \ {x} : phase'[y] = phase[y] /\ picked'[y] = picked[y]
    BY <1>6 DEF Abort, Crash, SettleRow, LetGo
  <2>3. \A y \in Claimer : phase'[y] = "checked" => Fits(picked'[y]) /\ picked'[y] \in SUBSET Task
    BY <2>2 DEF CheckedFits
  <2> QED
    BY <2>1, <2>3, LimitShrinks
<1>7. ASSUME NEW x \in Claimer, NEW t \in Task, RenewRow(x, t)
      PROVE  CheckedFits' /\ BaseLimitKept'
  BY <1>7, LimitShrinks DEF RenewRow, ActiveIn, CheckedFits
<1>8. ASSUME NEW t \in Task, LeaseExpires(t) PROVE CheckedFits' /\ BaseLimitKept'
  BY <1>8, LimitShrinks DEF LeaseExpires, ActiveIn, CheckedFits
<1>9. ASSUME NEW x \in Claimer, BeginBatch(x) PROVE CheckedFits' /\ BaseLimitKept'
  BY <1>9, LimitShrinks DEF BeginBatch, Go, ActiveIn, CheckedFits
<1> QED
  BY <1>1, <1>2, <1>3, <1>4, <1>5, <1>6, <1>7, <1>8, <1>9 DEF Next, OtherKind

\* Batch claims alone never put more rows of a base in processing than its limit,
\* however many claims run, rows expire and owners die: the count that
\* filterRowsByConcurrency took under the global lock holds until the commit.
THEOREM BatchLimitAlwaysKept ==
    ASSUME IsFiniteSet(Task)
    PROVE  Spec => []BatchLimitKept
<1>1. Init => TypeOK /\ OneAtATime /\ CheckedFits
  BY InitTyped DEF Init, OneAtATime, CheckedFits
<1>2. Init => BaseLimitKept
  <2>1. ASSUME Init, NEW b \in Base PROVE ActiveIn(b) = {}
    BY <2>1 DEF Init, ActiveIn
  <2> QED
    BY <2>1, FS_EmptySet, ClaimAssumption DEF BaseLimitKept
<1>3. BatchClaims /\ LimitInv /\ [Next]_vars => LimitInv'
  BY StepTyped, StepOneAtATime, StepLimit, ClaimAssumption DEF LimitInv
<1>4. CASE BatchClaims
  <2>1. LimitInv => BatchLimitKept
    BY DEF LimitInv, BatchLimitKept
  <2>2. Init => LimitInv
    BY <1>1, <1>2 DEF LimitInv
  <2>3. LimitInv /\ [Next]_vars => LimitInv'
    BY <1>3, <1>4
  <2> QED
    BY <2>1, <2>2, <2>3, PTL DEF Spec
<1>5. CASE ~BatchClaims
  <2>1. BatchLimitKept
    BY <1>5 DEF BatchLimitKept
  <2> QED
    BY <2>1, PTL
<1> QED
  BY <1>4, <1>5
=============================================================================
