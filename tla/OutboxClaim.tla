---------------------------- MODULE OutboxClaim ----------------------------
(***************************************************************************)
(* The claim transactions of ComputedUpdateOutbox.ts, statement by         *)
(* statement: claimBatch under the global advisory lock, claimById under   *)
(* the lock of its base, and the explicit takeover under no lock at all.   *)
(* All three can be in flight at once, each in its own READ COMMITTED      *)
(* transaction: advisory and row locks last until commit, every statement  *)
(* reads what is committed when it starts, and a row lock is only taken    *)
(* where no other transaction has it (FOR UPDATE SKIP LOCKED).             *)
(* ComputedOutbox treats a claim as one step; this module looks at what    *)
(* that step relies on.  Every task has a seed table of its own here, so   *)
(* that the limit in question is the one per base.                         *)
(***************************************************************************)
EXTENDS Naturals, FiniteSets

CONSTANTS
    Task,             \* row ids
    Claimer,          \* claim transactions, and the owners they write
    Base,             \* bases
    BaseOf,           \* Task -> Base
    Kind,             \* Claimer -> {"batch", "byId", "takeover"}
    MaxPerBase,       \* config.maxConcurrentProcessingPerBase
    HeartbeatsOnTime, \* no lease is renewed after it ran out
    Nobody            \* null

ASSUME ClaimAssumption ==
    /\ BaseOf \in [Task -> Base]
    /\ Kind \in [Claimer -> {"batch", "byId", "takeover"}]
    /\ MaxPerBase \in Nat \ {0}
    /\ HeartbeatsOnTime \in BOOLEAN
    /\ Nobody \notin Claimer

VARIABLES
    row,         \* committed rows: status, locked_by, and whether the lease is live
    rowLock,     \* Task -> the transaction holding the row lock
    globalLock,  \* holder of v2:outbox:claim:global
    baseLock,    \* Base -> holder of v2:outbox:claim:base:<base>
    phase,       \* where each claimer is
    picked       \* the rows it works on, and then holds

vars == <<row, rowLock, globalLock, baseLock, phase, picked>>

\* Types: every lock is free or held by one claim transaction.
TypeOK ==
    /\ row \in [Task -> [status : {"pending", "processing"},
                         owner : Claimer \cup {Nobody}, live : BOOLEAN]]
    /\ rowLock \in [Task -> Claimer \cup {Nobody}]
    /\ globalLock \in Claimer \cup {Nobody}
    /\ baseLock \in [Base -> Claimer \cup {Nobody}]
    /\ phase \in [Claimer -> {"idle", "began", "locked", "checked", "running"}]
    /\ picked \in [Claimer -> SUBSET Task]

Init ==
    /\ row = [t \in Task |-> [status |-> "pending", owner |-> Nobody, live |-> FALSE]]
    /\ rowLock = [t \in Task |-> Nobody]
    /\ globalLock = Nobody
    /\ baseLock = [b \in Base |-> Nobody]
    /\ phase = [x \in Claimer |-> "idle"]
    /\ picked = [x \in Claimer |-> {}]

-----------------------------------------------------------------------------
Pending(t) == row[t].status = "pending"

Stale(t) == row[t].status = "processing" /\ ~row[t].live

Claimable(t) == Pending(t) \/ Stale(t)

\* The committed rows that count against the limit of a base.
ActiveIn(b) ==
    {t \in Task : row[t].status = "processing" /\ row[t].live /\ BaseOf[t] = b}

InBase(T, b) == {t \in T : BaseOf[t] = b}

Go(x, from, to) == phase[x] = from /\ phase' = [phase EXCEPT ![x] = to]

\* createClaimOwner: the owner a claim writes is not written anywhere yet.
Fresh(x) == picked[x] = {} /\ \A t \in Task : row[t].owner # x

-----------------------------------------------------------------------------
(* Advisory lock, or skip the round *)

BeginBatch(x) ==
    /\ Kind[x] = "batch" /\ Fresh(x)
    /\ globalLock = Nobody
    /\ Go(x, "idle", "began")
    /\ globalLock' = x
    /\ UNCHANGED <<row, rowLock, baseLock, picked>>

BeginById(x, t) ==
    /\ Kind[x] = "byId" /\ Fresh(x)
    /\ baseLock[BaseOf[t]] = Nobody
    /\ Go(x, "idle", "began")
    /\ baseLock' = [baseLock EXCEPT ![BaseOf[t]] = x]
    /\ picked' = [picked EXCEPT ![x] = {t}]
    /\ UNCHANGED <<row, rowLock, globalLock>>

BeginTakeover(x, t) ==
    /\ Kind[x] = "takeover" /\ Fresh(x)
    /\ Go(x, "idle", "began")
    /\ picked' = [picked EXCEPT ![x] = {t}]
    /\ UNCHANGED <<row, rowLock, globalLock, baseLock>>

-----------------------------------------------------------------------------
(* Row locks *)

\* Mutant of RowsLocked: a plain SELECT, without FOR UPDATE.
RowsOnlyRead(x, T) == UNCHANGED rowLock

RowsLocked(x, T) ==
    rowLock' = [t \in Task |-> IF t \in T THEN x ELSE rowLock[t]]

\* The two selects of claimBatch: stale rows whatever the load of their base,
\* pending rows of a base below its limit.
LockBatch(x, T) ==
    /\ Kind[x] = "batch"
    /\ Go(x, "began", "locked")
    /\ T # {}
    /\ \A t \in T :
        /\ rowLock[t] = Nobody
        /\ \/ Stale(t)
           \/ Pending(t) /\ Cardinality(ActiveIn(BaseOf[t])) < MaxPerBase
    /\ RowsLocked(x, T)
    /\ picked' = [picked EXCEPT ![x] = T]
    /\ UNCHANGED <<row, globalLock, baseLock>>

LockOne(x) ==
    /\ Kind[x] # "batch"
    /\ Go(x, "began", "locked")
    /\ \A t \in picked[x] : rowLock[t] = Nobody
    /\ RowsLocked(x, picked[x])
    /\ UNCHANGED <<row, globalLock, baseLock, picked>>

-----------------------------------------------------------------------------
(* Limits *)

\* Mutant of Fits: the boundary is off by one.
FitsOffByOne(S) ==
    \A b \in Base : InBase(S, b) # {} =>
        Cardinality(ActiveIn(b)) + Cardinality(InBase(S, b)) <= MaxPerBase + 1

Fits(S) ==
    \A b \in Base : InBase(S, b) # {} =>
        Cardinality(ActiveIn(b)) + Cardinality(InBase(S, b)) <= MaxPerBase

\* filterRowsByConcurrency goes through the rows in order and keeps each that
\* still fits: what it keeps fits, and nothing could be added.
CheckBatch(x, S) ==
    /\ Kind[x] = "batch"
    /\ Go(x, "locked", "checked")
    /\ S \subseteq picked[x]
    /\ Fits(S)
    /\ \A t \in picked[x] \ S : ~Fits(S \cup {t})
    /\ picked' = [picked EXCEPT ![x] = S]
    /\ UNCHANGED <<row, rowLock, globalLock, baseLock>>

\* getClaimDeferral finds no reason to defer.
CheckById(x) ==
    /\ Kind[x] = "byId"
    /\ Go(x, "locked", "checked")
    /\ \A t \in picked[x] : Claimable(t)
    /\ Fits(picked[x])
    /\ UNCHANGED <<row, rowLock, globalLock, baseLock, picked>>

CheckNothing(x) ==
    /\ Kind[x] = "takeover"
    /\ Go(x, "locked", "checked")
    /\ UNCHANGED <<row, rowLock, globalLock, baseLock, picked>>

-----------------------------------------------------------------------------
(* The end of the transaction *)

LocksReleased(x) ==
    /\ rowLock' = [t \in Task |-> IF rowLock[t] = x THEN Nobody ELSE rowLock[t]]
    /\ globalLock' = IF globalLock = x THEN Nobody ELSE globalLock
    /\ baseLock' = [b \in Base |-> IF baseLock[b] = x THEN Nobody ELSE baseLock[b]]

Commit(x) ==
    /\ Go(x, "checked", IF picked[x] = {} THEN "idle" ELSE "running")
    /\ row' = [t \in Task |->
                 IF t \in picked[x]
                 THEN [status |-> "processing", owner |-> x, live |-> TRUE]
                 ELSE row[t]]
    /\ LocksReleased(x)
    /\ UNCHANGED picked

\* Nothing to claim, a deferral, a row locked elsewhere, or a lost connection.
Abort(x) ==
    /\ phase[x] \in {"began", "locked", "checked"}
    /\ phase' = [phase EXCEPT ![x] = "idle"]
    /\ picked' = [picked EXCEPT ![x] = {}]
    /\ LocksReleased(x)
    /\ UNCHANGED row

-----------------------------------------------------------------------------
(* The claimed rows' later life.  A statement on a locked row waits for the  *)
(* lock, and then sees the row as it was committed.                          *)

LetGo(x, t) ==
    /\ picked' = [picked EXCEPT ![x] = @ \ {t}]
    /\ phase' = [phase EXCEPT ![x] = IF picked[x] = {t} THEN "idle" ELSE @]

\* The row is finished and new work takes its place, or it is released.
SettleRow(x, t) ==
    /\ phase[x] = "running" /\ t \in picked[x]
    /\ rowLock[t] = Nobody
    /\ row' = IF row[t].owner = x
              THEN [row EXCEPT ![t] =
                      [status |-> "pending", owner |-> Nobody, live |-> FALSE]]
              ELSE row
    /\ LetGo(x, t)
    /\ UNCHANGED <<rowLock, globalLock, baseLock>>

RenewRow(x, t) ==
    /\ phase[x] = "running" /\ t \in picked[x]
    /\ rowLock[t] = Nobody
    /\ row[t].owner = x
    /\ HeartbeatsOnTime => row[t].live
    /\ row' = [row EXCEPT ![t].live = TRUE]
    /\ UNCHANGED <<rowLock, globalLock, baseLock, phase, picked>>

LeaseExpires(t) ==
    /\ row[t].live
    /\ row' = [row EXCEPT ![t].live = FALSE]
    /\ UNCHANGED <<rowLock, globalLock, baseLock, phase, picked>>

Crash(x) ==
    /\ phase[x] = "running"
    /\ phase' = [phase EXCEPT ![x] = "idle"]
    /\ picked' = [picked EXCEPT ![x] = {}]
    /\ UNCHANGED <<row, rowLock, globalLock, baseLock>>

Next ==
    \/ \E x \in Claimer :
        \/ BeginBatch(x)
        \/ \E t \in Task : BeginById(x, t) \/ BeginTakeover(x, t)
        \/ \E T \in SUBSET Task : LockBatch(x, T)
        \/ LockOne(x)
        \/ \E S \in SUBSET Task : CheckBatch(x, S)
        \/ CheckById(x)
        \/ CheckNothing(x)
        \/ Commit(x)
        \/ Abort(x)
        \/ \E t \in Task : SettleRow(x, t) \/ RenewRow(x, t)
        \/ Crash(x)
    \/ \E t \in Task : LeaseExpires(t)

Spec == Init /\ [][Next]_vars

-----------------------------------------------------------------------------
(* Properties *)

\* The claim has found the rows it picked pending or stale.
HasChecked(x) ==
    \/ phase[x] = "checked" /\ Kind[x] # "takeover"
    \/ phase[x] = "locked" /\ Kind[x] = "batch"

\* What claimBatch and claimById found when they read a row still holds at
\* every later statement of the transaction, whatever other claims, renewals
\* and settlements do meanwhile: the UPDATE never acts on a stale reading.
ChecksStayTrue ==
    \A x \in Claimer : HasChecked(x) => \A t \in picked[x] : Claimable(t)

\* A claim that read a row as free or stale still finds it so when it commits:
\* no run with a live lease loses its row, except to an explicit takeover.
LiveLeaseKept ==
    [][\A t \in Task :
         /\ row[t].live
         /\ row'[t].owner \notin {row[t].owner, Nobody}
         => Kind[row'[t].owner] = "takeover"]_vars

\* config.maxConcurrentProcessingPerBase: a base never has more active rows
\* than its limit.
BaseLimitKept == \A b \in Base : Cardinality(ActiveIn(b)) <= MaxPerBase
=============================================================================
