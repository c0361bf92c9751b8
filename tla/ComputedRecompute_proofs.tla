---------------------- MODULE ComputedRecompute_proofs ----------------------
(***************************************************************************)
(* Theorems about ComputedRecompute and their proofs.  The invariant says, *)
(* of every transaction, that it holds the locks of all it recomputes, that *)
(* it writes nothing but that and its user's sources, and that what it has  *)
(* computed so far agrees with what it reads, unless work that is not its   *)
(* own covers the cell.  A commit then leaves no cell stale: those it       *)
(* recomputed are right, and those that read what it wrote and that it did  *)
(* not recompute are covered by the work it queues.                         *)
(***************************************************************************)
EXTENDS ComputedRecompute, FiniteSetTheorems, TLAPS

-----------------------------------------------------------------------------
(* What the proofs assume, and the invariant *)

\* Two sets of records lock a record they share under the same key.  Above
\* maxRecordLocks records of a table a set takes other keys than below.
OneGrain ==
    \A R, Q \in SUBSET Record : \A r \in R \cap Q :
        OneByOne(TableOf[r], R) <=> OneByOne(TableOf[r], Q)

Plan == [seeds : SUBSET Record, steps : SUBSET Computed, stage : SUBSET Computed]

Work == {u \in Unit : u.steps \subseteq u.stage}

\* Types, and that the steps of a unit belong to its stage.
Typed ==
    /\ DOMAIN draft = Tx /\ DOMAIN keys = Tx /\ DOMAIN snap = Tx
    /\ phase \in [Tx -> Phase] /\ plan \in [Tx -> Plan] /\ level \in [Tx -> Nat]
    /\ hand \in [Worker -> SUBSET Work]
    /\ queued \subseteq Work /\ dead \subseteq Work

\* Advisory locks exclude.
KeysExclusive == \A x, y \in Tx : x # y => keys[x] \cap keys[y] = {}

\* What the transaction recomputes of its own.
Mine(x) == Steps(x) \cap Dirty(plan[x])

\* A transaction that updates holds the locks of all it may write.
HoldsLocks(x) == Updating(x) => TargetKeys(x) \subseteq keys[x]

\* A user's plan is the full plan of the sources the user wrote; a run's plan has
\* its steps in its stage.
WellPlanned(x) ==
    /\ x \in Writer => /\ plan[x].seeds \subseteq Source
                       /\ plan[x] = FullPlan(plan[x].seeds)
                       /\ phase[x] \notin {"claimed", "failed"}
    /\ x \in Worker => plan[x].steps \subseteq plan[x].stage /\ phase[x] # "missed"

\* A transaction writes the sources of its user and, under the target locks, cells
\* it recomputes.
WritesItsOwn(x) ==
    \A r \in Written(x) : \/ x \in Writer /\ r \in plan[x].seeds
                          \/ Updating(x) /\ r \in Mine(x)

\* The statement that runs computes cells of its level; at the end no level is left.
InLevels(x) ==
    /\ phase[x] = "storing" =>
         \A c \in DOMAIN snap[x] : c \in Mine(x) /\ Level[c] = level[x]
    /\ phase[x] = "computed" => \A c \in Steps(x) : Level[c] < level[x]

Local(x) == HoldsLocks(x) /\ WellPlanned(x) /\ WritesItsOwn(x) /\ InLevels(x)

\* Outstanding work but for what transaction x is at.
Elsewhere(x) ==
    queued \cup dead \cup (UNION {hand[w] : w \in Worker \ {x}})
      \cup (IF x \in Worker THEN hand[x] \ Units(plan[x]) ELSE {})

Covered(units, c) == \E u \in units : c \in Targets(u)

\* What cell c holds once the statement of x that runs is done.
Stored(x, c) == IF phase[x] = "storing" /\ c \in DOMAIN snap[x] THEN snap[x][c] ELSE Visible(x, c)

\* The levels a transaction has computed.
Done(x, c) == Level[c] < level[x] \/ (phase[x] = "storing" /\ Level[c] = level[x])

\* A cell a transaction has computed agrees with what it reads, or other work
\* will recompute it.
Right(x) ==
    Updating(x) =>
        \A c \in Mine(x) : Done(x, c) =>
            Stored(x, c) = Eval(c, Reading(x, c)) \/ Covered(Elsewhere(x), c)

IInv ==
    /\ Typed /\ KeysExclusive
    /\ \A x \in Tx : Local(x) /\ Right(x)
    /\ StaleIsInWork

-----------------------------------------------------------------------------
(* Dependencies and locks *)

\* A cell depends on what its formula reads, and on all that depends on.
LEMMA ReadsDown ==
    ASSUME NEW c \in Computed, NEW d \in Deps[c]
    PROVE  /\ d \in Record /\ c \in Record /\ c \in Down[d]
           /\ \A r \in Record : d \in Down[r] => c \in Down[r]
           /\ Level[d] < Level[c]
BY GraphAssumption

LEMMA ReadsDirty ==
    ASSUME NEW p \in Plan, NEW c \in Computed, NEW d \in Deps[c], d \in Dirty(p)
    PROVE  c \in Dirty(p) /\ c \in DownOf(p.seeds)
BY ReadsDown DEF Dirty, DownOf, Plan

LEMMA DownTypes ==
    ASSUME NEW R \in SUBSET Record
    PROVE  DownOf(R) \in SUBSET Computed /\ DownOf(R) \in SUBSET Record
BY GraphAssumption DEF DownOf

LEMMA DirtyTypes ==
    ASSUME NEW p \in Plan
    PROVE  Dirty(p) \in SUBSET Record
BY DownTypes DEF Dirty, Plan

LEMMA SharedKey ==
    ASSUME OneGrain, NEW R \in SUBSET Record, NEW Q \in SUBSET Record, NEW r \in R \cap Q
    PROVE  KeysOf(R) \cap KeysOf(Q) # {}
<1>1. OneByOne(TableOf[r], R) <=> OneByOne(TableOf[r], Q)
  BY DEF OneGrain
<1>2. KeyOf(r, R) = KeyOf(r, Q)
  BY <1>1, Zenon DEF KeyOf
<1>3. KeyOf(r, R) \in KeysOf(R) /\ KeyOf(r, Q) \in KeysOf(Q)
  BY DEF KeysOf
<1> QED
  BY <1>2, <1>3

\* Two cases in which every set of records locks in one way: tables that stay
\* within maxRecordLocks, and record locks switched off.
LEMMA GrainOfSmallTables ==
    ASSUME IsFiniteSet(Record), \A t \in Table : OneByOne(t, Record)
    PROVE  OneGrain
<1> SUFFICES ASSUME NEW R \in SUBSET Record, NEW r \in R PROVE OneByOne(TableOf[r], R)
  BY DEF OneGrain
<1> DEFINE t == TableOf[r]
<1>1. t \in Table
  BY LockAssumption
<1>2. RecordsIn(t, R) \subseteq RecordsIn(t, Record) /\ RecordsIn(t, Record) \subseteq Record
  BY DEF RecordsIn
<1>3. IsFiniteSet(RecordsIn(t, Record))
  BY <1>2, FS_Subset
<1>4. /\ Cardinality(RecordsIn(t, R)) \in Nat /\ Cardinality(RecordsIn(t, Record)) \in Nat
      /\ Cardinality(RecordsIn(t, R)) <= Cardinality(RecordsIn(t, Record))
  BY <1>2, <1>3, FS_Subset, FS_CardinalityType
<1>5. Cardinality(RecordsIn(t, Record)) <= MaxRecordLocks
  BY <1>1 DEF OneByOne
<1> QED
  BY <1>4, <1>5, LockAssumption DEF OneByOne

LEMMA GrainOfLargeLocks ==
    ASSUME IsFiniteSet(Record), MaxRecordLocks = 0
    PROVE  OneGrain
<1> SUFFICES ASSUME NEW R \in SUBSET Record, NEW r \in R PROVE ~OneByOne(TableOf[r], R)
  BY DEF OneGrain
<1> DEFINE S == RecordsIn(TableOf[r], R)
<1>1. r \in S /\ S \subseteq Record
  BY DEF RecordsIn
<1>2. IsFiniteSet(S)
  BY <1>1, FS_Subset
<1>3. Cardinality(S) \in Nat /\ Cardinality(S) # 0
  BY <1>1, <1>2, FS_CardinalityType, FS_EmptySet
<1> QED
  BY <1>3 DEF OneByOne

\* Transactions that update at the same time share no dirty record.
LEMMA ExclusiveNow ==
    ASSUME OneGrain, Typed, KeysExclusive, \A x \in Tx : HoldsLocks(x)
    PROVE  TargetsExclusive
<1> SUFFICES ASSUME NEW x \in Tx, NEW y \in Tx, x # y, Updating(x), Updating(y),
                    NEW r \in Dirty(plan[x]) \cap Dirty(plan[y])
             PROVE  FALSE
  BY DEF TargetsExclusive
<1>1. plan[x] \in Plan /\ plan[y] \in Plan
  BY DEF Typed
<1>2. Dirty(plan[x]) \in SUBSET Record /\ Dirty(plan[y]) \in SUBSET Record
  BY <1>1, DirtyTypes
<1>3. TargetKeys(x) \cap TargetKeys(y) # {}
  BY <1>2, SharedKey DEF TargetKeys
<1>4. TargetKeys(x) \subseteq keys[x] /\ TargetKeys(y) \subseteq keys[y]
  BY DEF HoldsLocks
<1>5. keys[x] \cap keys[y] = {}
  BY DEF KeysExclusive
<1> QED
  BY <1>3, <1>4, <1>5

-----------------------------------------------------------------------------
(* Steps that leave a transaction alone *)

Same(y) ==
    /\ draft'[y] = draft[y] /\ keys'[y] = keys[y] /\ phase'[y] = phase[y]
    /\ plan'[y] = plan[y] /\ level'[y] = level[y] /\ snap'[y] = snap[y]

LEMMA SameMeans ==
    ASSUME NEW y \in Tx, Same(y)
    PROVE  /\ Steps(y)' = Steps(y) /\ Dirty(plan[y])' = Dirty(plan[y]) /\ Mine(y)' = Mine(y)
           /\ Updating(y)' <=> Updating(y)
           /\ Written(y)' = Written(y) /\ TargetKeys(y)' = TargetKeys(y)
<1>1. Steps(y)' = Steps(y) /\ Dirty(plan[y])' = Dirty(plan[y])
  BY DEF Same, Steps, SyncSteps, Dirty, DownOf
<1>2. Updating(y)' <=> Updating(y)
  BY <1>1 DEF Same, Updating
<1>3. Written(y)' = Written(y)
  BY DEF Same, Written
<1>4. TargetKeys(y)' = TargetKeys(y)
  BY <1>1 DEF TargetKeys, KeysOf, KeyOf, OneByOne
<1> QED
  BY <1>1, <1>2, <1>3, <1>4 DEF Mine

LEMMA SameLocal ==
    ASSUME NEW y \in Tx, Same(y), Local(y)
    PROVE  Local(y)'
<1>1. HoldsLocks(y)'
  BY SameMeans DEF Same, Local, HoldsLocks
<1>2. WellPlanned(y)'
  BY DEF Same, Local, WellPlanned
<1>3. WritesItsOwn(y)'
  BY SameMeans DEF Same, Local, WritesItsOwn
<1>4. InLevels(y)'
  BY SameMeans DEF Same, Local, InLevels
<1> QED
  BY <1>1, <1>2, <1>3, <1>4 DEF Local

\* What a transaction has computed stays right if the cell and all it reads look the
\* same to it, or if work that covers the cell appears.
LEMMA SameRight ==
    ASSUME NEW y \in Tx, Same(y), Right(y),
           \A c \in Mine(y) : Updating(y) =>
             /\ Covered(Elsewhere(y), c) => Covered(Elsewhere(y), c)'
             /\ \/ Covered(Elsewhere(y), c)'
                \/ /\ Visible(y, c)' = Visible(y, c)
                   /\ \A d \in Deps[c] : Visible(y, d)' = Visible(y, d)
    PROVE  Right(y)'
<1> SUFFICES ASSUME Updating(y)', NEW c \in Mine(y)', Done(y, c)'
             PROVE  Stored(y, c)' = Eval(c, Reading(y, c))' \/ Covered(Elsewhere(y), c)'
  BY DEF Right
<1>1. Updating(y) /\ c \in Mine(y) /\ Done(y, c)
  BY SameMeans DEF Same, Done
<1>2. Stored(y, c) = Eval(c, Reading(y, c)) \/ Covered(Elsewhere(y), c)
  BY <1>1 DEF Right
<1>3. CASE /\ Stored(y, c) = Eval(c, Reading(y, c))
           /\ Visible(y, c)' = Visible(y, c)
           /\ \A d \in Deps[c] : Visible(y, d)' = Visible(y, d)
  <2>1. Stored(y, c)' = Stored(y, c)
    BY <1>3 DEF Stored, Same
  <2>2. Reading(y, c)' = Reading(y, c)
    BY <1>3 DEF Reading
  <2> QED
    BY <1>3, <2>1, <2>2
<1> QED
  BY <1>1, <1>2, <1>3

LEMMA UnchangedKeeps ==
    ASSUME IInv, UNCHANGED <<cells, run, work>>
    PROVE  IInv'
<1>1. /\ val' = val /\ draft' = draft /\ keys' = keys /\ phase' = phase /\ plan' = plan
      /\ level' = level /\ snap' = snap /\ queued' = queued /\ hand' = hand /\ dead' = dead
  BY DEF cells, run, work
<1>2. ASSUME NEW x \in Tx PROVE Local(x)' /\ Right(x)'
  <2>1. Same(x) /\ Local(x) /\ Right(x)
    BY <1>1 DEF Same, IInv
  <2>2. \A r : Visible(x, r)' = Visible(x, r)
    BY <1>1 DEF Visible, Written
  <2>3. \A c : Covered(Elsewhere(x), c)' <=> Covered(Elsewhere(x), c)
    BY <1>1 DEF Covered, Elsewhere, Targets, Units
  <2> QED
    BY <2>1, <2>2, <2>3, SameLocal, SameRight
<1>3. Typed' /\ KeysExclusive'
  BY <1>1 DEF IInv, Typed, KeysExclusive
<1>4. StaleIsInWork'
  BY <1>1 DEF IInv, StaleIsInWork, Fresh, InWork, Outstanding, Targets
<1> QED
  BY <1>2, <1>3, <1>4 DEF IInv

\* Outstanding work that other transactions count on stays outstanding.
WorkKept(x) ==
    /\ \A y \in Tx \ {x} : Elsewhere(y) \subseteq Elsewhere(y)'
    /\ Outstanding \subseteq Outstanding'

\* A step of transaction x that commits nothing.
Private(x) ==
    /\ \A y \in Others(x) : Same(y)
    /\ val' = val
    /\ WorkKept(x)
    /\ \A y \in Others(x) : keys'[x] \cap keys[y] = {}

\* One after which x is not updating.
Quiet(x) ==
    /\ Private(x)
    /\ ~Updating(x)'
    /\ Typed' /\ WellPlanned(x)' /\ WritesItsOwn(x)' /\ InLevels(x)'

LEMMA PrivateKeeps ==
    ASSUME IInv, NEW x \in Tx, Private(x), Typed', Local(x)', Right(x)'
    PROVE  IInv'
<1>1. ASSUME NEW y \in Tx, y # x PROVE Local(y)' /\ Right(y)'
  <2>1. Same(y) /\ Local(y) /\ Right(y)
    BY <1>1 DEF Private, Others, IInv
  <2>2. \A r : Visible(y, r)' = Visible(y, r)
    BY <2>1 DEF Visible, Written, Same, Private
  <2>3. Elsewhere(y) \subseteq Elsewhere(y)'
    BY <1>1 DEF Private, WorkKept
  <2>4. \A c : Covered(Elsewhere(y), c) => Covered(Elsewhere(y), c)'
    BY <2>3 DEF Covered, Targets
  <2> QED
    BY <2>1, <2>2, <2>4, SameLocal, SameRight
<1>3. KeysExclusive'
  <2> SUFFICES ASSUME NEW y \in Tx, NEW z \in Tx, y # z PROVE keys'[y] \cap keys'[z] = {}
    BY DEF KeysExclusive
  <2>1. \A v \in Tx \ {x} : keys'[v] = keys[v] /\ keys'[x] \cap keys[v] = {}
    BY DEF Private, Others, Same
  <2>2. keys[y] \cap keys[z] = {}
    BY DEF IInv, KeysExclusive
  <2> QED
    BY <2>1, <2>2
<1>4. StaleIsInWork'
  <2> SUFFICES ASSUME NEW c \in Computed PROVE Fresh(c)' \/ InWork(c)'
    BY DEF StaleIsInWork
  <2>1. Fresh(c) \/ InWork(c)
    BY DEF IInv, StaleIsInWork
  <2>2. Fresh(c)' <=> Fresh(c)
    BY DEF Private, Fresh
  <2>3. InWork(c) => InWork(c)'
    BY DEF Private, WorkKept, InWork, Targets
  <2> QED
    BY <2>1, <2>2, <2>3
<1> QED
  BY <1>1, <1>3, <1>4 DEF IInv

LEMMA QuietKeeps ==
    ASSUME IInv, NEW x \in Tx, Quiet(x)
    PROVE  IInv'
BY PrivateKeeps DEF Quiet, Local, Right, HoldsLocks

-----------------------------------------------------------------------------
(* The steps that commit nothing *)

LEMMA SameWork ==
    ASSUME NEW x \in Tx, \A y \in Others(x) : Same(y), UNCHANGED work
    PROVE  WorkKept(x)
BY DEF Others, Same, WorkKept, Elsewhere, Outstanding, work

\* What a step sets of its transaction; the others keep theirs.
IsSet(x, d, k, ph, p, l, s) ==
    /\ draft'[x] = d /\ keys'[x] = k /\ phase'[x] = ph /\ plan'[x] = p
    /\ level'[x] = l /\ snap'[x] = s
    /\ \A y \in Others(x) : Same(y)
    /\ DOMAIN draft' = Tx /\ DOMAIN keys' = Tx /\ DOMAIN snap' = Tx
    /\ phase' \in [Tx -> Phase] /\ plan' \in [Tx -> Plan] /\ level' \in [Tx -> Nat]

LEMMA QuietIs ==
    ASSUME IInv, NEW x \in Tx, NEW d, NEW k, NEW ph \in Phase, NEW p \in Plan, NEW l \in Nat,
           NEW s, IsSet(x, d, k, ph, p, l, s), val' = val, WorkKept(x),
           hand' \in [Worker -> SUBSET Work], queued' \subseteq Work, dead' \subseteq Work,
           \A y \in Others(x) : k \cap keys[y] = {},
           ph \notin {"computing", "storing"},
           ph = "computed" => IF x \in Writer THEN SyncSteps(p) = {} ELSE p.steps = {},
           x \in Writer => /\ p.seeds \subseteq Source /\ p = FullPlan(p.seeds)
                           /\ ph \notin {"claimed", "failed"},
           x \in Worker => p.steps \subseteq p.stage /\ ph # "missed",
           \A r \in DOMAIN d : x \in Writer /\ r \in p.seeds
    PROVE  IInv'
<1>2. /\ draft'[x] = d /\ keys'[x] = k /\ phase'[x] = ph /\ plan'[x] = p
      /\ \A y \in Others(x) : Same(y)
      /\ DOMAIN draft' = Tx /\ DOMAIN keys' = Tx /\ DOMAIN snap' = Tx
      /\ phase' \in [Tx -> Phase] /\ plan' \in [Tx -> Plan] /\ level' \in [Tx -> Nat]
  BY DEF IsSet
<1>3. Typed'
  BY <1>2 DEF Typed
<1>4. Steps(x)' = IF x \in Writer THEN SyncSteps(p) ELSE p.steps
  BY <1>2 DEF Steps, SyncSteps
<1>5. ph = "computed" => Steps(x)' = {}
  BY <1>4
<1>6. ~Updating(x)' /\ InLevels(x)'
  BY <1>2, <1>5 DEF Updating, InLevels
<1>7. WellPlanned(x)' /\ WritesItsOwn(x)'
  BY <1>2 DEF WellPlanned, WritesItsOwn, Written
<1>8. Quiet(x)
  BY <1>2, <1>3, <1>6, <1>7 DEF Quiet, Private
<1> QED
  BY <1>8, QuietKeeps

\* Facts about the transactions that the steps below use.
LEMMA Facts ==
    ASSUME IInv, NEW x \in Tx
    PROVE  /\ Typed /\ DOMAIN draft = Tx /\ DOMAIN keys = Tx /\ DOMAIN snap = Tx
           /\ phase[x] \in Phase /\ plan[x] \in Plan /\ level[x] \in Nat
           /\ HoldsLocks(x) /\ WellPlanned(x) /\ WritesItsOwn(x) /\ InLevels(x) /\ Right(x)
           /\ \A y \in Others(x) : keys[x] \cap keys[y] = {}
           /\ hand \in [Worker -> SUBSET Work] /\ queued \subseteq Work /\ dead \subseteq Work
           /\ NoPlan \in Plan /\ NoPlan = FullPlan({}) /\ NoPlan.seeds = {} /\ NoPlan.steps = {}
<1>1. Typed /\ Local(x) /\ Right(x) /\ KeysExclusive
  BY DEF IInv
<1>2. /\ DOMAIN draft = Tx /\ DOMAIN keys = Tx /\ DOMAIN snap = Tx
      /\ phase[x] \in Phase /\ plan[x] \in Plan /\ level[x] \in Nat
      /\ hand \in [Worker -> SUBSET Work] /\ queued \subseteq Work /\ dead \subseteq Work
  BY <1>1 DEF Typed
<1>3. \A y \in Others(x) : keys[x] \cap keys[y] = {}
  BY <1>1 DEF KeysExclusive, Others
<1>4. NoPlan \in Plan /\ NoPlan = FullPlan({}) /\ NoPlan.seeds = {} /\ NoPlan.steps = {}
  BY DEF NoPlan, Plan, PlanOf, FullPlan, DownOf
<1> QED
  BY <1>1, <1>2, <1>3, <1>4 DEF Local

LEMMA WriteQuiet ==
    ASSUME IInv, NEW x \in Writer, NEW S \in WriteSets, NEW v, Write(x, S, v)
    PROVE  IInv'
<1> DEFINE d == [s \in S |-> v]
<1>1. x \in Tx /\ x \notin Worker /\ S \subseteq Source /\ S \subseteq Record
  BY RunAssumption, GraphAssumption DEF Tx
<1>2. /\ phase[x] = "idle" /\ phase' = [phase EXCEPT ![x] = "prepared"]
      /\ draft' = [draft EXCEPT ![x] = d] /\ plan' = [plan EXCEPT ![x] = FullPlan(S)]
      /\ val' = val /\ keys' = keys /\ level' = level /\ snap' = snap
      /\ queued' = queued /\ hand' = hand /\ dead' = dead
  BY DEF Write, Becomes, work
<1>3. FullPlan(S) \in Plan /\ FullPlan(S).seeds = S
  BY <1>1, DownTypes DEF FullPlan, PlanOf, Plan
<1> HIDE DEF d
<1>4. IsSet(x, d, keys[x], "prepared", FullPlan(S), level[x], snap[x])
  BY <1>1, <1>2, <1>3, Facts DEF IsSet, Same, Others, Typed, Phase
<1>5. WorkKept(x)
  BY <1>1, <1>2, <1>4, SameWork DEF IsSet, work
<1>6. \A r \in DOMAIN d : r \in FullPlan(S).seeds
  BY <1>3 DEF d
<1> QED
  BY <1>1, <1>2, <1>3, <1>4, <1>5, <1>6, Facts, QuietIs DEF Phase

\* The plan stays, and with it what was written.
LEMMA MoveQuiet ==
    ASSUME IInv, NEW x \in Tx, NEW from, NEW to \in Phase, phase[x] = from,
           phase' = [phase EXCEPT ![x] = to], plan' = plan,
           draft' = draft \/ draft' = [draft EXCEPT ![x] = Nothing],
           DOMAIN keys' = Tx, \A y \in Others(x) : keys'[y] = keys[y] /\ keys'[x] \cap keys[y] = {},
           DOMAIN snap' = Tx, \A y \in Others(x) : snap'[y] = snap[y],
           UNCHANGED <<val, level, work>>,
           from \in {"prepared", "seedsLocked", "claimed"} \/ draft' = [draft EXCEPT ![x] = Nothing],
           to \in {"prepared", "seedsLocked", "computed", "missed", "failed"},
           to = "computed" => Steps(x) = {},
           x \in Writer => to # "failed",
           x \in Worker => to # "missed"
    PROVE  IInv'
<1>1. /\ val' = val /\ level' = level /\ queued' = queued /\ hand' = hand /\ dead' = dead
      /\ plan' = plan
  BY DEF work
<1>2. IsSet(x, draft'[x], keys'[x], to, plan[x], level[x], snap'[x])
  BY <1>1, Facts DEF IsSet, Same, Others, Typed
<1>3. WorkKept(x)
  BY <1>2, SameWork DEF IsSet
<1>4. \A r \in DOMAIN draft'[x] : x \in Writer /\ r \in plan[x].seeds
  <2>1. CASE draft' = [draft EXCEPT ![x] = Nothing]
    BY <2>1, Facts DEF Nothing
  <2>2. CASE draft' = draft /\ from \in {"prepared", "seedsLocked", "claimed"}
    BY <2>2, Facts DEF WritesItsOwn, Written, Updating
  <2> QED
    BY <2>1, <2>2
<1>5. to = "computed" => IF x \in Writer THEN SyncSteps(plan[x]) = {} ELSE plan[x].steps = {}
  BY DEF Steps
<1>6. /\ x \in Writer => /\ plan[x].seeds \subseteq Source /\ plan[x] = FullPlan(plan[x].seeds)
                         /\ to \notin {"claimed", "failed"}
      /\ x \in Worker => plan[x].steps \subseteq plan[x].stage /\ to # "missed"
  BY Facts DEF WellPlanned
<1> QED
  BY <1>1, <1>2, <1>3, <1>4, <1>5, <1>6, Facts, QuietIs

\* The plan is forgotten, nothing stays written.
LEMMA EndQuiet ==
    ASSUME IInv, NEW x \in Tx, phase' = [phase EXCEPT ![x] = "idle"], Forgets(x),
           draft' = draft \/ draft' = [draft EXCEPT ![x] = Nothing], DOMAIN draft'[x] = {},
           keys' = keys \/ keys' = [keys EXCEPT ![x] = {}],
           snap' = snap \/ snap' = [snap EXCEPT ![x] = Nothing],
           val' = val,
           hand' \in [Worker -> SUBSET Work], queued' \subseteq Work, dead' \subseteq Work,
           (\A y \in Others(x) : Same(y)) => WorkKept(x)
    PROVE  IInv'
<1>1. plan' = [plan EXCEPT ![x] = NoPlan] /\ level' = [level EXCEPT ![x] = 1]
  BY DEF Forgets
<1>2. IsSet(x, draft'[x], keys'[x], "idle", NoPlan, 1, snap'[x])
  <2>1. /\ DOMAIN draft' = Tx /\ \A y \in Others(x) : draft'[y] = draft[y]
        /\ DOMAIN keys' = Tx /\ \A y \in Others(x) : keys'[y] = keys[y]
        /\ DOMAIN snap' = Tx /\ \A y \in Others(x) : snap'[y] = snap[y]
    BY Facts DEF Others
  <2>2. /\ phase'[x] = "idle" /\ \A y \in Others(x) : phase'[y] = phase[y]
        /\ plan'[x] = NoPlan /\ \A y \in Others(x) : plan'[y] = plan[y]
        /\ level'[x] = 1 /\ \A y \in Others(x) : level'[y] = level[y]
        /\ phase' \in [Tx -> Phase] /\ plan' \in [Tx -> Plan] /\ level' \in [Tx -> Nat]
    BY <1>1, Facts DEF Others, Typed, Phase
  <2> QED
    BY <2>1, <2>2 DEF IsSet, Same
<1>3. WorkKept(x)
  BY <1>2 DEF IsSet
<1>4. \A y \in Others(x) : keys'[x] \cap keys[y] = {}
  <2>1. keys'[x] \subseteq keys[x]
    BY Facts
  <2> QED
    BY <2>1, Facts
<1>5. /\ NoPlan \in Plan /\ NoPlan = FullPlan(NoPlan.seeds) /\ NoPlan.seeds \subseteq Source
      /\ NoPlan.steps \subseteq NoPlan.stage /\ "idle" \in Phase /\ 1 \in Nat
  BY Facts DEF Phase
<1> QED
  BY <1>2, <1>3, <1>4, <1>5, QuietIs

LEMMA LockSteps ==
    ASSUME IInv, NEW x \in Tx,
           \/ x \in Writer /\ LeaveToWorkers(x)
           \/ x \in Worker /\ Begin(x)
           \/ LockSeeds(x) \/ NothingNow(x) \/ MissLock(x)
    PROVE  IInv'
<1> USE DEF Becomes, Phase
<1>1. /\ DOMAIN keys = Tx /\ \A y \in Others(x) : keys[x] \cap keys[y] = {}
      /\ DOMAIN draft = Tx /\ DOMAIN snap = Tx /\ x \notin Others(x)
      /\ ~(x \in Writer /\ x \in Worker) /\ (x \in Writer \/ x \in Worker)
  BY Facts, RunAssumption DEF Others, Tx
<1>2. CASE x \in Writer /\ LeaveToWorkers(x)
  <2>1. /\ phase[x] = "prepared" /\ phase' = [phase EXCEPT ![x] = "missed"]
        /\ plan' = plan /\ draft' = draft /\ keys' = keys /\ snap' = snap
        /\ UNCHANGED <<val, level, work>>
    BY <1>2 DEF LeaveToWorkers, cells
  <2> QED
    BY <1>1, <1>2, <2>1, MoveQuiet
<1>3. CASE x \in Worker /\ Begin(x)
  <2>1. /\ phase[x] = "claimed" /\ phase' = [phase EXCEPT ![x] = "prepared"]
        /\ plan' = plan /\ draft' = draft /\ keys' = keys /\ snap' = snap
        /\ UNCHANGED <<val, level, work>>
    BY <1>3 DEF Begin, cells
  <2> QED
    BY <1>1, <2>1, MoveQuiet
<1>4. CASE LockSeeds(x)
  <2>1. /\ phase[x] = "prepared" /\ phase' = [phase EXCEPT ![x] = "seedsLocked"]
        /\ plan' = plan /\ draft' = draft /\ snap' = snap
        /\ keys' = [keys EXCEPT ![x] = @ \cup SeedKeys(x)]
        /\ UNCHANGED <<val, level, work>> /\ Free(x, SeedKeys(x))
    BY <1>4 DEF LockSeeds, cells
  <2>2. /\ DOMAIN keys' = Tx
        /\ \A y \in Others(x) : keys'[y] = keys[y] /\ keys'[x] \cap keys[y] = {}
    BY <1>1, <2>1 DEF Free, Others
  <2> QED
    BY <1>1, <2>1, <2>2, MoveQuiet
<1>5. CASE NothingNow(x)
  <2>1. /\ phase[x] = "seedsLocked" /\ phase' = [phase EXCEPT ![x] = "computed"]
        /\ plan' = plan /\ draft' = draft /\ keys' = keys /\ snap' = snap
        /\ UNCHANGED <<val, level, work>> /\ Steps(x) = {}
    BY <1>5 DEF NothingNow, cells
  <2> QED
    BY <1>1, <2>1, MoveQuiet
<1>6. CASE MissLock(x)
  <2>1. /\ phase[x] \in {"prepared", "seedsLocked"} /\ plan' = plan
        /\ UNCHANGED <<val, level, work>>
    BY <1>6 DEF MissLock
  <2>2. CASE x \in Writer
    <3>1. /\ phase' = [phase EXCEPT ![x] = "missed"]
          /\ draft' = draft /\ keys' = keys /\ snap' = snap
      BY <1>6, <2>2, Zenon DEF MissLock
    <3> QED
      BY <1>1, <2>1, <2>2, <3>1, MoveQuiet
  <2>3. CASE x \notin Writer
    <3>1. /\ phase' = [phase EXCEPT ![x] = "failed"]
          /\ draft' = [draft EXCEPT ![x] = Nothing] /\ keys' = [keys EXCEPT ![x] = {}]
          /\ snap' = [snap EXCEPT ![x] = Nothing]
      BY <1>6, <2>3, Zenon DEF MissLock, Ends
    <3>2. /\ DOMAIN keys' = Tx /\ DOMAIN snap' = Tx
          /\ \A y \in Others(x) : keys'[y] = keys[y] /\ keys'[x] \cap keys[y] = {}
                                  /\ snap'[y] = snap[y]
      BY <1>1, <3>1 DEF Others
    <3> QED
      BY <1>1, <2>1, <2>3, <3>1, <3>2, MoveQuiet
  <2> QED
    BY <2>2, <2>3
<1> QED
  BY <1>2, <1>3, <1>4, <1>5, <1>6

LEMMA FailStep ==
    ASSUME IInv, NEW x \in Tx, Fail(x)
    PROVE  IInv'
<1>1. /\ phase[x] \notin {"idle", "failed"} /\ Ends(x) /\ UNCHANGED <<val, work>>
      /\ (x \in Writer \/ x \in Worker) /\ ~(x \in Writer /\ x \in Worker)
  BY RunAssumption DEF Fail, Tx
<1>2. /\ draft' = [draft EXCEPT ![x] = Nothing] /\ keys' = [keys EXCEPT ![x] = {}]
      /\ snap' = [snap EXCEPT ![x] = Nothing]
  BY <1>1 DEF Ends
<1>3. /\ DOMAIN draft'[x] = {} /\ DOMAIN keys' = Tx /\ DOMAIN snap' = Tx
      /\ \A y \in Others(x) : /\ draft'[y] = draft[y] /\ snap'[y] = snap[y]
                              /\ keys'[y] = keys[y] /\ keys'[x] \cap keys[y] = {}
  BY <1>2, Facts DEF Others, Nothing
<1>4. CASE x \in Writer
  <2>1. phase' = [phase EXCEPT ![x] = "idle"] /\ Forgets(x)
    BY <1>4, Zenon DEF Fail
  <2>2. (\A y \in Others(x) : Same(y)) => WorkKept(x)
    BY <1>1, SameWork
  <2>3. hand' = hand /\ queued' = queued /\ dead' = dead
    BY <1>1 DEF work
  <2> QED
    BY <1>1, <1>2, <1>3, <2>1, <2>2, <2>3, Facts, EndQuiet
<1>5. CASE x \notin Writer
  <2>1. phase' = [phase EXCEPT ![x] = "failed"] /\ plan' = plan /\ level' = level
    BY <1>5, Zenon DEF Fail
  <2> QED
    BY <1>1, <1>2, <1>3, <1>5, <2>1, MoveQuiet DEF Phase
<1> QED
  BY <1>4, <1>5

LEMMA CrashStep ==
    ASSUME IInv, NEW w \in Worker, Crash(w) \/ Skip(w)
    PROVE  IInv'
<1>1. w \in Tx /\ w \notin Writer
  BY RunAssumption DEF Tx
<1>2. hand' = hand /\ queued' = queued /\ dead' = dead /\ val' = val /\ UNCHANGED work
  BY DEF Crash, Skip, work, cells
<1>3. phase' = [phase EXCEPT ![w] = "idle"] /\ Forgets(w)
  BY DEF Crash, Skip, Becomes
<1>4. (\A y \in Others(w) : Same(y)) => WorkKept(w)
  BY <1>1, <1>2, SameWork
<1>5. CASE Crash(w)
  <2>1. /\ draft' = [draft EXCEPT ![w] = Nothing] /\ keys' = [keys EXCEPT ![w] = {}]
        /\ snap' = [snap EXCEPT ![w] = Nothing]
    BY <1>5 DEF Crash, Ends
  <2>2. DOMAIN draft'[w] = {}
    BY <1>1, <2>1, Facts DEF Nothing
  <2> QED
    BY <1>1, <1>2, <1>3, <1>4, <2>1, <2>2, Facts, EndQuiet
<1>6. CASE Skip(w)
  <2>1. draft' = draft /\ keys' = keys /\ snap' = snap /\ phase[w] = "claimed"
    BY <1>6 DEF Skip, Becomes, cells
  <2>2. DOMAIN draft'[w] = {}
    BY <1>1, <2>1, Facts DEF WritesItsOwn, Written, Updating
  <2> QED
    BY <1>1, <1>2, <1>3, <1>4, <2>1, <2>2, Facts, EndQuiet
<1> QED
  BY <1>5, <1>6

\* Work that goes from anywhere to the hand of w, to the queue or to the dead letter
\* stays elsewhere for the others.
LEMMA KeptElsewhere ==
    ASSUME NEW w \in Worker, NEW y \in Tx \ {w}, plan'[y] = plan[y],
           queued \cup dead \cup hand[w] \subseteq queued' \cup dead' \cup hand'[w],
           \A v \in Worker \ {w} : hand[v] \subseteq hand'[v] \cup hand'[w]
    PROVE  Elsewhere(y) \subseteq Elsewhere(y)'
<1> SUFFICES ASSUME NEW a \in Elsewhere(y) PROVE a \in Elsewhere(y)'
  OBVIOUS
<1>1. hand'[w] \cup queued' \cup dead' \subseteq Elsewhere(y)'
  BY DEF Elsewhere
<1>2. CASE a \in queued \cup dead \cup hand[w]
  BY <1>1, <1>2
<1>3. CASE \E v \in Worker \ {y, w} : a \in hand[v]
  <2>1. PICK v \in Worker \ {y, w} : a \in hand[v]
    BY <1>3
  <2>2. a \in hand'[v] \/ a \in hand'[w]
    BY <2>1
  <2>3. hand'[v] \subseteq Elsewhere(y)'
    BY <2>1 DEF Elsewhere
  <2> QED
    BY <1>1, <2>2, <2>3
<1>4. CASE y \in Worker /\ a \in hand[y] \ Units(plan[y])
  <2>1. Units(plan[y])' = Units(plan[y])
    BY DEF Units
  <2>2. (a \in hand[y] \ Units(plan[y]))' \/ a \in hand'[w]
    BY <1>4, <2>1
  <2>3. (hand[y] \ Units(plan[y]))' \subseteq Elsewhere(y)'
    BY <1>4 DEF Elsewhere
  <2> QED
    BY <1>1, <2>2, <2>3
<1>5. a \in queued \cup dead \/ (\E v \in Worker \ {y} : a \in hand[v])
      \/ (y \in Worker /\ a \in hand[y] \ Units(plan[y]))
  BY DEF Elsewhere
<1> QED
  BY <1>2, <1>3, <1>4, <1>5

LEMMA SettleStep ==
    ASSUME IInv, NEW w \in Worker, GiveBack(w) \/ Bury(w)
    PROVE  IInv'
<1> DEFINE T == Units(plan[w]) \cap hand[w]
<1>1. w \in Tx /\ w \notin Writer
  BY RunAssumption DEF Tx
<1>2. /\ val' = val /\ draft' = draft /\ keys' = keys /\ snap' = snap
      /\ phase[w] = "failed" /\ phase' = [phase EXCEPT ![w] = "idle"] /\ Forgets(w)
      /\ hand' = [hand EXCEPT ![w] = @ \ Units(plan[w])]
      /\ \/ queued' = queued \cup T /\ dead' = dead
         \/ queued' = queued /\ dead' = dead \cup T
  BY DEF GiveBack, Bury, Becomes, cells
<1>3. DOMAIN draft'[w] = {}
  BY <1>1, <1>2, Facts DEF WritesItsOwn, Written, Updating
<1>4. T \subseteq Work /\ hand \in [Worker -> SUBSET Work]
      /\ queued \subseteq Work /\ dead \subseteq Work
  BY <1>1, Facts
<1>5. /\ hand' \in [Worker -> SUBSET Work] /\ queued' \subseteq Work /\ dead' \subseteq Work
      /\ hand'[w] = hand[w] \ Units(plan[w])
      /\ \A v \in Worker \ {w} : hand'[v] = hand[v]
  BY <1>2, <1>4
<1>6. queued \subseteq queued' /\ dead \subseteq dead' /\ T \subseteq queued' \cup dead'
  BY <1>2
<1>7. ASSUME \A y \in Others(w) : Same(y) PROVE WorkKept(w)
  <2>1. Outstanding \subseteq Outstanding'
    <3> SUFFICES ASSUME NEW u \in Outstanding PROVE u \in Outstanding'
      OBVIOUS
    <3>1. CASE u \in queued \cup dead
      BY <1>6, <3>1 DEF Outstanding
    <3>2. CASE \E v \in Worker : u \in hand[v]
      BY <1>5, <1>6, <3>2 DEF Outstanding
    <3> QED
      BY <3>1, <3>2 DEF Outstanding
  <2>2. ASSUME NEW y \in Tx \ {w} PROVE Elsewhere(y) \subseteq Elsewhere(y)'
    <3>1. plan'[y] = plan[y]
      BY <1>7 DEF Others, Same
    <3>2. queued \cup dead \cup hand[w] \subseteq queued' \cup dead' \cup hand'[w]
      BY <1>5, <1>6
    <3> QED
      BY <1>5, <1>6, <3>1, <3>2, KeptElsewhere
  <2> QED
    BY <2>1, <2>2 DEF WorkKept
<1> QED
  BY <1>1, <1>2, <1>3, <1>5, <1>7, EndQuiet

LEMMA ClaimStep ==
    ASSUME IInv, NEW w \in Worker, TakeTask(w)
    PROVE  IInv'
<1>1. w \in Tx /\ w \notin Writer
  BY RunAssumption DEF Tx
<1>2. PICK u \in Claimable :
        \E seeds \in SUBSET {v.seed : v \in {v \in Claimable :
                                       v.steps = u.steps /\ v.stage = u.stage}} :
            Claim(w, PlanOf(seeds, u.steps, u.stage))
  BY DEF TakeTask
<1>0. PICK seeds \in SUBSET {v.seed : v \in {v \in Claimable :
                                       v.steps = u.steps /\ v.stage = u.stage}} :
            Claim(w, PlanOf(seeds, u.steps, u.stage))
  BY <1>2
<1> DEFINE p == PlanOf(seeds, u.steps, u.stage)
           T == Units(p)
<1>3. hand \in [Worker -> SUBSET Work] /\ queued \subseteq Work /\ dead \subseteq Work
  BY <1>1, Facts
<1>4. Claimable \subseteq Work /\ Claimable \subseteq queued \cup UNION {hand[v] : v \in Worker}
  BY <1>3 DEF Claimable
<1>5. p \in Plan /\ p.steps \subseteq p.stage
  <2>1. u \in Work /\ seeds \in SUBSET Record
    BY <1>4 DEF Work, Unit
  <2> QED
    BY <2>1 DEF PlanOf, Plan, Work, Unit
<1> HIDE DEF p
<1>6. /\ T \subseteq Claimable
      /\ phase[w] = "idle" /\ phase' = [phase EXCEPT ![w] = "claimed"]
      /\ queued' = queued \ T
      /\ hand' = [v \in Worker |-> IF v = w THEN hand[w] \cup T ELSE hand[v] \ T]
      /\ plan' = [plan EXCEPT ![w] = p]
      /\ val' = val /\ draft' = draft /\ keys' = keys /\ level' = level /\ snap' = snap
      /\ dead' = dead
  BY <1>0 DEF Claim, Becomes, cells, p
<1> HIDE DEF T
<1>7. /\ hand' \in [Worker -> SUBSET Work] /\ queued' \subseteq Work /\ dead' \subseteq Work
      /\ hand'[w] = hand[w] \cup T
      /\ \A v \in Worker \ {w} : hand'[v] = hand[v] \ T
  BY <1>3, <1>4, <1>6
<1>8. IsSet(w, draft[w], keys[w], "claimed", p, level[w], snap[w])
  BY <1>1, <1>5, <1>6, Facts DEF IsSet, Same, Others, Typed, Phase
<1>9. WorkKept(w)
  <2>1. Outstanding \subseteq Outstanding'
    BY <1>6, <1>7 DEF Outstanding
  <2>2. ASSUME NEW y \in Tx \ {w} PROVE Elsewhere(y) \subseteq Elsewhere(y)'
    <3>1. plan'[y] = plan[y]
      BY <1>8, <2>2 DEF IsSet, Others, Same
    <3>2. /\ queued \cup dead \cup hand[w] \subseteq queued' \cup dead' \cup hand'[w]
          /\ \A v \in Worker \ {w} : hand[v] \subseteq hand'[v] \cup hand'[w]
      BY <1>6, <1>7
    <3> QED
      BY <2>2, <3>1, <3>2, KeptElsewhere
  <2> QED
    BY <2>1, <2>2 DEF WorkKept
<1>10. \A r \in DOMAIN draft[w] : FALSE
  BY <1>1, <1>6, Facts DEF WritesItsOwn, Written, Updating
<1> QED
  BY <1>1, <1>5, <1>6, <1>7, <1>8, <1>9, <1>10, Facts, QuietIs DEF Phase

-----------------------------------------------------------------------------
(* The steps of the computed update *)

\* The transaction moves on with its plan, under the target locks.
LEMMA UpdateKeeps ==
    ASSUME IInv, NEW x \in Tx, NEW ph \in {"computing", "storing", "computed"},
           Updating(x) \/ phase[x] = "seedsLocked",
           phase' = [phase EXCEPT ![x] = ph], UNCHANGED <<val, plan, work>>,
           DOMAIN draft' = Tx, DOMAIN keys' = Tx, DOMAIN snap' = Tx,
           \A y \in Others(x) : /\ draft'[y] = draft[y] /\ keys'[y] = keys[y]
                                /\ level'[y] = level[y] /\ snap'[y] = snap[y]
                                /\ keys'[x] \cap keys[y] = {},
           level' \in [Tx -> Nat],
           TargetKeys(x) \subseteq keys'[x],
           WritesItsOwn(x)', InLevels(x)', Right(x)'
    PROVE  IInv'
<1>1. /\ val' = val /\ plan' = plan /\ queued' = queued /\ hand' = hand /\ dead' = dead
      /\ UNCHANGED work
  BY DEF work
<1>2. \A y \in Others(x) : Same(y)
  BY <1>1, Facts DEF Same, Others, Typed
<1>3. WorkKept(x)
  BY <1>1, <1>2, SameWork
<1>4. Typed'
  BY <1>1, Facts DEF Typed, Phase
<1>5. TargetKeys(x)' = TargetKeys(x)
  BY <1>1 DEF TargetKeys, KeysOf, KeyOf, OneByOne, Dirty, DownOf
<1>6. HoldsLocks(x)'
  BY <1>5 DEF HoldsLocks
<1>7. phase'[x] = ph
  BY Facts DEF Typed
<1>8. WellPlanned(x)'
  BY <1>1, <1>7, Facts DEF WellPlanned
<1> QED
  BY <1>1, <1>2, <1>3, <1>4, <1>6, <1>8, PrivateKeeps DEF Private, Local

LEMMA SamePlan ==
    ASSUME plan' = plan, NEW x
    PROVE  /\ Steps(x)' = Steps(x) /\ Dirty(plan[x])' = Dirty(plan[x]) /\ Mine(x)' = Mine(x)
BY DEF Steps, SyncSteps, Dirty, DownOf, Mine

LEMMA MineTypes ==
    ASSUME NEW x \in Tx, plan[x] \in Plan, NEW c \in Mine(x)
    PROVE  c \in Computed /\ c \in Record /\ Level[c] \in Nat /\ Level[c] > 0
           /\ c \in Steps(x) /\ c \in Dirty(plan[x]) /\ Steps(x) # {}
BY GraphAssumption DEF Mine, Steps, SyncSteps, Plan

LEMMA TargetsStep ==
    ASSUME IInv, NEW x \in Tx, LockTargets(x)
    PROVE  IInv'
<1>1. /\ phase[x] = "seedsLocked" /\ phase' = [phase EXCEPT ![x] = "computing"]
      /\ keys' = [keys EXCEPT ![x] = @ \cup TargetKeys(x)]
      /\ level' = [level EXCEPT ![x] = 1] /\ Free(x, TargetKeys(x))
      /\ val' = val /\ draft' = draft /\ plan' = plan /\ snap' = snap /\ UNCHANGED work
  BY DEF LockTargets, Becomes, cells
<1>2. /\ phase'[x] = "computing" /\ level'[x] = 1 /\ level' \in [Tx -> Nat]
      /\ DOMAIN keys' = Tx /\ TargetKeys(x) \subseteq keys'[x]
      /\ \A y \in Others(x) : /\ keys'[y] = keys[y] /\ level'[y] = level[y]
                              /\ keys'[x] \cap keys[y] = {}
  BY <1>1, Facts DEF Typed, Others, Free
<1>3. WritesItsOwn(x)'
  <2>1. \A r \in Written(x) : x \in Writer /\ r \in plan[x].seeds
    BY <1>1, Facts DEF WritesItsOwn, Updating
  <2> QED
    BY <1>1, <2>1 DEF WritesItsOwn, Written
<1>4. InLevels(x)'
  BY <1>2 DEF InLevels
<1>5. Right(x)'
  <2> SUFFICES ASSUME NEW c \in Mine(x)', Done(x, c)' PROVE FALSE
    BY DEF Right
  <2>1. Level[c] < 1
    BY <1>2 DEF Done
  <2>2. Level[c] \in Nat /\ Level[c] > 0
    BY <1>1, Facts, SamePlan, MineTypes
  <2> QED
    BY <2>1, <2>2
<1> QED
  BY <1>1, <1>2, <1>3, <1>4, <1>5, Facts, UpdateKeeps

LEMMA ReadStep ==
    ASSUME IInv, NEW x \in Tx, ReadLevel(x)
    PROVE  IInv'
<1> DEFINE at == StepsAt([plan[x] EXCEPT !.steps = Steps(x)], level[x])
           s  == [c \in Changed(x, at) |-> Eval(c, Reading(x, c))]
<1>1. /\ phase[x] = "computing" /\ phase' = [phase EXCEPT ![x] = "storing"]
      /\ snap' = [snap EXCEPT ![x] = s]
      /\ val' = val /\ draft' = draft /\ keys' = keys /\ plan' = plan /\ level' = level
      /\ UNCHANGED work
  BY DEF ReadLevel, Becomes, cells
<1>2. \A c : c \in at <=> c \in Mine(x) /\ Level[c] = level[x]
  <2>1. plan[x] \in Plan
    BY Facts
  <2>2. /\ [plan[x] EXCEPT !.steps = Steps(x)].steps = Steps(x)
        /\ [plan[x] EXCEPT !.steps = Steps(x)].seeds = plan[x].seeds
    BY <2>1 DEF Plan
  <2>3. Dirty([plan[x] EXCEPT !.steps = Steps(x)]) = Dirty(plan[x])
    BY <2>2 DEF Dirty
  <2> QED
    BY <2>2, <2>3 DEF StepsAt, Mine
<1>3. \A c : c \in Changed(x, at) <=> c \in at /\ Eval(c, Reading(x, c)) # Visible(x, c)
  BY DEF Changed
<1>4. DOMAIN s = Changed(x, at) /\ \A c \in Changed(x, at) : s[c] = Eval(c, Reading(x, c))
  OBVIOUS
<1> HIDE DEF s, at
<1>5. /\ phase'[x] = "storing" /\ snap'[x] = s /\ level'[x] = level[x]
      /\ DOMAIN snap' = Tx /\ \A y \in Others(x) : snap'[y] = snap[y]
      /\ DOMAIN draft' = Tx /\ DOMAIN keys' = Tx /\ level' \in [Tx -> Nat]
      /\ \A y \in Others(x) : keys'[x] \cap keys[y] = {}
  BY <1>1, Facts DEF Typed, Others
<1>6. Updating(x) /\ TargetKeys(x) \subseteq keys'[x]
  BY <1>1, Facts DEF HoldsLocks, Updating
<1>7. WritesItsOwn(x)'
  BY <1>1, <1>5, <1>6, SamePlan, Facts DEF WritesItsOwn, Written, Updating
<1>8. InLevels(x)'
  BY <1>1, <1>2, <1>3, <1>4, <1>5, SamePlan DEF InLevels
<1>9. Right(x)'
  <2> SUFFICES ASSUME NEW c \in Mine(x), Done(x, c)'
               PROVE  Stored(x, c)' = Eval(c, Reading(x, c))' \/ Covered(Elsewhere(x), c)'
    BY <1>1, SamePlan DEF Right
  <2>1. Level[c] \in Nat /\ level[x] \in Nat
    BY Facts, MineTypes
  <2>2. Level[c] < level[x] \/ Level[c] = level[x]
    BY <1>5 DEF Done
  <2>3. Visible(x, c)' = Visible(x, c) /\ Reading(x, c)' = Reading(x, c)
    BY <1>1 DEF Visible, Reading, Written
  <2>4. Covered(Elsewhere(x), c)' <=> Covered(Elsewhere(x), c)
    BY <1>1 DEF Covered, Elsewhere, Targets, Units, work
  <2>5. CASE Level[c] = level[x]
    <3>1. c \in at
      BY <1>2, <2>5
    <3>2. CASE c \in Changed(x, at)
      BY <1>4, <1>5, <2>3, <3>2 DEF Stored
    <3>3. CASE c \notin Changed(x, at)
      BY <1>3, <1>4, <1>5, <2>3, <3>1, <3>3 DEF Stored
    <3> QED
      BY <3>2, <3>3
  <2>6. CASE Level[c] < level[x]
    <3>1. c \notin Changed(x, at)
      BY <1>2, <1>3, <2>1, <2>6
    <3>2. Stored(x, c)' = Visible(x, c) /\ Stored(x, c) = Visible(x, c)
      BY <1>1, <1>4, <1>5, <2>3, <3>1 DEF Stored
    <3>3. Stored(x, c) = Eval(c, Reading(x, c)) \/ Covered(Elsewhere(x), c)
      BY <1>6, <2>6, Facts DEF Right, Done
    <3> QED
      BY <2>3, <2>4, <3>2, <3>3
  <2> QED
    BY <2>2, <2>5, <2>6
<1> QED
  BY <1>1, <1>5, <1>6, <1>7, <1>8, <1>9, UpdateKeeps

LEMMA StoreStep ==
    ASSUME IInv, NEW x \in Tx, StoreLevel(x)
    PROVE  IInv'
<1> DEFINE ph == IF \E c \in Steps(x) : Level[c] > level[x] THEN "computing" ELSE "computed"
           d == [r \in Written(x) \cup DOMAIN snap[x] |->
                   IF r \in DOMAIN snap[x] THEN snap[x][r] ELSE draft[x][r]]
<1>1. /\ phase[x] = "storing" /\ phase' = [phase EXCEPT ![x] = ph]
      /\ draft' = [draft EXCEPT ![x] = d]
      /\ snap' = [snap EXCEPT ![x] = Nothing] /\ level' = [level EXCEPT ![x] = @ + 1]
      /\ val' = val /\ keys' = keys /\ plan' = plan /\ UNCHANGED work
  BY DEF StoreLevel, Becomes
<1>2. /\ ph \in {"computing", "computed"}
      /\ ph = "computed" => \A c \in Steps(x) : ~(Level[c] > level[x])
  OBVIOUS
<1>3. /\ DOMAIN d = Written(x) \cup DOMAIN snap[x]
      /\ \A r \in DOMAIN snap[x] : d[r] = snap[x][r]
      /\ \A r \in Written(x) \ DOMAIN snap[x] : d[r] = draft[x][r]
  OBVIOUS
<1> HIDE DEF ph, d
<1>4. /\ phase'[x] = ph /\ draft'[x] = d /\ level'[x] = level[x] + 1 /\ level[x] \in Nat
      /\ level' \in [Tx -> Nat]
      /\ DOMAIN snap' = Tx /\ DOMAIN draft' = Tx /\ DOMAIN keys' = Tx
      /\ \A y \in Others(x) : /\ draft'[y] = draft[y] /\ level'[y] = level[y]
                              /\ snap'[y] = snap[y] /\ keys'[x] \cap keys[y] = {}
  BY <1>1, Facts DEF Typed, Others
<1>5. /\ Updating(x) /\ TargetKeys(x) \subseteq keys'[x] /\ Mine(x)' = Mine(x)
      /\ Steps(x)' = Steps(x)
      /\ \A c \in DOMAIN snap[x] : c \in Mine(x) /\ Level[c] = level[x]
  BY <1>1, SamePlan, Facts DEF HoldsLocks, Updating, InLevels
<1>6. \A r : Visible(x, r)' = Stored(x, r)
  BY <1>1, <1>3, <1>4 DEF Visible, Stored, Written
<1>7. WritesItsOwn(x)'
  <2>1. \A r \in Written(x)' : r \in Written(x) \/ r \in Mine(x)
    BY <1>3, <1>4, <1>5 DEF Written
  <2>2. Mine(x) # {} => Updating(x)'
    BY <1>2, <1>4, <1>5 DEF Updating, Mine
  <2>3. \A r \in Written(x) : (x \in Writer /\ r \in plan[x].seeds) \/ r \in Mine(x)
    BY Facts DEF WritesItsOwn
  <2> QED
    BY <1>1, <1>5, <2>1, <2>2, <2>3 DEF WritesItsOwn
<1>8. InLevels(x)'
  <2>1. \A c \in Steps(x) : Level[c] \in Nat
    BY Facts, GraphAssumption DEF Steps, SyncSteps, Plan
  <2> QED
    BY <1>2, <1>4, <1>5, <2>1 DEF InLevels
<1>9. Right(x)'
  <2> SUFFICES ASSUME NEW c \in Mine(x), Done(x, c)'
               PROVE  Stored(x, c)' = Eval(c, Reading(x, c))' \/ Covered(Elsewhere(x), c)'
    BY <1>5 DEF Right
  <2>1. Level[c] \in Nat /\ c \in Computed
    BY Facts, MineTypes
  <2>2. Level[c] <= level[x] /\ Done(x, c)
    BY <1>1, <1>2, <1>4, <2>1 DEF Done
  <2>3. Stored(x, c)' = Stored(x, c)
    BY <1>2, <1>4, <1>6 DEF Stored
  <2>4. \A r \in Deps[c] : Visible(x, r)' = Visible(x, r)
    <3> SUFFICES ASSUME NEW r \in Deps[c] PROVE Visible(x, r)' = Visible(x, r)
      OBVIOUS
    <3>1. Level[r] < Level[c] /\ Level[r] \in Nat
      BY <2>1, ReadsDown, GraphAssumption
    <3>2. r \notin DOMAIN snap[x]
      BY <1>4, <1>5, <2>1, <2>2, <3>1
    <3> QED
      BY <1>6, <3>2 DEF Stored
  <2>5. Reading(x, c)' = Reading(x, c)
    BY <2>4 DEF Reading
  <2>6. Covered(Elsewhere(x), c)' <=> Covered(Elsewhere(x), c)
    BY <1>1 DEF Covered, Elsewhere, Targets, Units, work
  <2>7. Stored(x, c) = Eval(c, Reading(x, c)) \/ Covered(Elsewhere(x), c)
    BY <1>5, <2>2, Facts DEF Right
  <2> QED
    BY <2>3, <2>5, <2>6, <2>7
<1> QED
  BY <1>1, <1>2, <1>4, <1>5, <1>7, <1>8, <1>9, UpdateKeeps

-----------------------------------------------------------------------------
(* The commits *)

\* What both commits do: the cells become visible, work N is queued, and a run's own
\* units leave its hand.
Commits(x, N) ==
    /\ val' = Committed(x)
    /\ queued' = queued \cup N /\ dead' = dead
    /\ \A w \in Worker \ {x} : hand'[w] = hand[w]
    /\ x \in Worker => hand'[x] = hand[x] \ Units(plan[x])
    /\ \A y \in Others(x) : Same(y)

\* Work N covers the cells that read what x wrote and x did not compute.
Covers(x, N) ==
    \A c \in Computed : \A d \in Deps[c] :
        d \in Written(x) /\ ~(Updating(x) /\ c \in Mine(x)) => Covered(N, c)

\* What is outstanding stays so, but for the run's own units.
LEMMA CommitKeepsWork ==
    ASSUME NEW x \in Tx, NEW N, Commits(x, N)
    PROVE  /\ Elsewhere(x) \subseteq Outstanding' /\ N \subseteq Outstanding'
           /\ Outstanding \subseteq Elsewhere(x) \cup (IF x \in Worker THEN Units(plan[x]) ELSE {})
<1>1. Elsewhere(x) \subseteq Outstanding'
  <2> SUFFICES ASSUME NEW u \in Elsewhere(x) PROVE u \in Outstanding'
    OBVIOUS
  <2>1. CASE u \in queued \cup dead
    BY <2>1 DEF Commits, Outstanding
  <2>2. CASE \E w \in Worker \ {x} : u \in hand[w]
    BY <2>2 DEF Commits, Outstanding
  <2>3. CASE x \in Worker /\ u \in hand[x] \ Units(plan[x])
    BY <2>3 DEF Commits, Outstanding
  <2> QED
    BY <2>1, <2>2, <2>3 DEF Elsewhere
<1>2. N \subseteq Outstanding'
  BY DEF Commits, Outstanding
<1>3. ASSUME NEW u \in Outstanding, u \notin Elsewhere(x)
      PROVE  x \in Worker /\ u \in Units(plan[x])
  <2>1. u \notin queued \cup dead /\ \A w \in Worker \ {x} : u \notin hand[w]
    BY <1>3 DEF Elsewhere
  <2>2. x \in Worker /\ u \in hand[x]
    BY <2>1 DEF Outstanding
  <2> QED
    BY <1>3, <2>2 DEF Elsewhere
<1> QED
  BY <1>1, <1>2, <1>3

LEMMA CommitKeepsElsewhere ==
    ASSUME NEW x \in Tx, NEW N, Commits(x, N), NEW y \in Others(x)
    PROVE  /\ N \subseteq Elsewhere(y)'
           /\ \A u \in Elsewhere(y) :
                u \in Elsewhere(y)' \/ (x \in Worker /\ u \in Units(plan[x]))
<1>1. plan'[y] = plan[y] /\ Units(plan[y])' = Units(plan[y]) /\ y # x /\ y \in Tx
  BY DEF Commits, Others, Same, Units
<1>2. N \subseteq Elsewhere(y)'
  BY DEF Commits, Elsewhere
<1>3. ASSUME NEW u \in Elsewhere(y), u \notin Elsewhere(y)'
      PROVE  x \in Worker /\ u \in Units(plan[x])
  <2>1. u \notin queued' \cup dead' /\ \A w \in Worker \ {y} : u \notin hand'[w]
    BY <1>3 DEF Elsewhere
  <2>2. y \in Worker => u \notin hand[y] \ Units(plan[y])
    BY <1>1, <1>3 DEF Elsewhere, Commits
  <2>3. PICK w \in Worker \ {y} : u \in hand[w]
    BY <2>1, <2>2 DEF Elsewhere, Commits
  <2> QED
    BY <2>1, <2>3 DEF Commits
<1> QED
  BY <1>2, <1>3

LEMMA OwnTargets ==
    ASSUME NEW x \in Worker, phase[x] = "computed", NEW u \in Units(plan[x]), NEW c \in Targets(u),
           plan[x] \in Plan
    PROVE  Updating(x) /\ c \in Mine(x) /\ c \in Dirty(plan[x])
<1>1. x \notin Writer
  BY RunAssumption
<1>2. PICK s \in plan[x].seeds : u = [seed |-> s, steps |-> plan[x].steps, stage |-> plan[x].stage]
  BY DEF Units
<1>3. c \in plan[x].steps /\ (c = s \/ c \in Down[s])
  BY <1>2 DEF Targets
<1>4. c \in Dirty(plan[x])
  BY <1>2, <1>3 DEF Dirty, DownOf
<1> QED
  BY <1>1, <1>3, <1>4 DEF Updating, Mine, Steps

\* A commit shows to others what its transaction saw.
LEMMA Shown ==
    ASSUME NEW x \in Tx, NEW N, Commits(x, N), NEW r \in Record
    PROVE  val'[r] = Visible(x, r) /\ (r \notin Written(x) => val'[r] = val[r])
BY DEF Commits, Committed, Visible

\* A computed cell that a transaction wrote is one it recomputes.
LEMMA WrittenCells ==
    ASSUME NEW x \in Tx, WritesItsOwn(x), WellPlanned(x), NEW c \in Computed, c \in Written(x)
    PROVE  Updating(x) /\ c \in Mine(x)
BY GraphAssumption DEF WritesItsOwn, WellPlanned

LEMMA CommitKeepsFresh ==
    ASSUME IInv, NEW x \in Tx, NEW N, Commits(x, N), Covers(x, N),
           phase[x] \in {"missed", "computed"}
    PROVE  StaleIsInWork'
<1> SUFFICES ASSUME NEW c \in Computed PROVE Fresh(c)' \/ InWork(c)'
  BY DEF StaleIsInWork
<1>1. c \in Record /\ \A d \in Deps[c] : d \in Record
  BY ReadsDown, GraphAssumption
<1>2. \A units : units \subseteq Outstanding' /\ Covered(units, c) => InWork(c)'
  BY DEF Covered, InWork, Targets
<1>3. CASE Updating(x) /\ c \in Mine(x)
  <2>1. phase[x] = "computed" /\ Level[c] < level[x]
    BY <1>3, Facts, MineTypes DEF Updating, InLevels
  <2>2. Stored(x, c) = Visible(x, c) /\ Done(x, c)
    BY <2>1 DEF Stored, Done
  <2>3. Visible(x, c) = Eval(c, Reading(x, c)) \/ Covered(Elsewhere(x), c)
    BY <1>3, <2>2, Facts DEF Right
  <2>4. ASSUME Visible(x, c) = Eval(c, Reading(x, c)) PROVE Fresh(c)'
    <3>1. val'[c] = Visible(x, c) /\ \A d \in Deps[c] : val'[d] = Visible(x, d)
      BY <1>1, Shown
    <3>2. [d \in Deps[c] |-> val'[d]] = Reading(x, c)
      BY <3>1 DEF Reading
    <3> QED
      BY <2>4, <3>1, <3>2 DEF Fresh
  <2> QED
    BY <1>2, <2>3, <2>4, CommitKeepsWork
<1>4. CASE ~(Updating(x) /\ c \in Mine(x)) /\ \E d \in Deps[c] : d \in Written(x)
  <2>1. Covered(N, c)
    BY <1>4 DEF Covers
  <2> QED
    BY <1>2, <2>1, CommitKeepsWork
<1>5. CASE ~(Updating(x) /\ c \in Mine(x)) /\ \A d \in Deps[c] : d \notin Written(x)
  <2>1. c \notin Written(x)
    BY <1>5, Facts, WrittenCells
  <2>2. val'[c] = val[c] /\ \A d \in Deps[c] : val'[d] = val[d]
    BY <1>1, <1>5, <2>1, Shown
  <2>3. [d \in Deps[c] |-> val'[d]] = [d \in Deps[c] |-> val[d]]
    BY <2>2
  <2>4. Fresh(c)' <=> Fresh(c)
    BY <2>2, <2>3 DEF Fresh
  <2>5. ASSUME NEW u \in Outstanding, c \in Targets(u) PROVE InWork(c)'
    <3>1. ~(x \in Worker /\ u \in Units(plan[x]))
      <4> SUFFICES ASSUME x \in Worker, u \in Units(plan[x]) PROVE FALSE
        OBVIOUS
      <4>1. phase[x] = "computed" /\ plan[x] \in Plan
        BY Facts DEF WellPlanned
      <4> QED
        BY <1>5, <2>5, <4>1, OwnTargets
    <3>2. u \in Outstanding'
      BY <3>1, CommitKeepsWork
    <3> QED
      BY <2>5, <3>2 DEF InWork, Targets
  <2>6. Fresh(c) \/ InWork(c)
    BY DEF IInv, StaleIsInWork
  <2> QED
    BY <2>4, <2>5, <2>6 DEF InWork
<1> QED
  BY <1>3, <1>4, <1>5

LEMMA CommitKeepsOthers ==
    ASSUME IInv, TargetsExclusive, NEW x \in Tx, NEW N, Commits(x, N), Covers(x, N),
           phase[x] \in {"missed", "computed"}, NEW y \in Others(x)
    PROVE  Local(y)' /\ Right(y)'
<1>1. Same(y) /\ y \in Tx /\ y # x /\ Local(y) /\ Right(y)
  BY DEF Commits, Others, IInv
<1>2. ASSUME NEW c \in Mine(y), Updating(y)
      PROVE  /\ Covered(Elsewhere(y), c) => Covered(Elsewhere(y), c)'
             /\ \/ Covered(Elsewhere(y), c)'
                \/ /\ Visible(y, c)' = Visible(y, c)
                   /\ \A d \in Deps[c] : Visible(y, d)' = Visible(y, d)
  <2>1. c \in Computed /\ c \in Record /\ c \in Dirty(plan[y]) /\ \A d \in Deps[c] : d \in Record
    BY <1>1, Facts, MineTypes, ReadsDown
  <2>2. ~(Updating(x) /\ c \in Dirty(plan[x]))
    BY <1>1, <1>2, <2>1 DEF TargetsExclusive
  <2>3. ~(Updating(x) /\ c \in Mine(x))
    BY <2>2 DEF Mine
  <2>4. ASSUME NEW u \in Elsewhere(y), c \in Targets(u) PROVE Covered(Elsewhere(y), c)'
    <3>1. ~(x \in Worker /\ u \in Units(plan[x]))
      <4> SUFFICES ASSUME x \in Worker, u \in Units(plan[x]) PROVE FALSE
        OBVIOUS
      <4>1. phase[x] = "computed" /\ plan[x] \in Plan
        BY Facts DEF WellPlanned
      <4> QED
        BY <2>3, <2>4, <4>1, OwnTargets
    <3>2. u \in Elsewhere(y)'
      BY <3>1, CommitKeepsElsewhere
    <3> QED
      BY <2>4, <3>2 DEF Covered, Targets
  <2>5. CASE \E d \in Deps[c] : d \in Written(x)
    <3>1. Covered(N, c)
      BY <2>1, <2>3, <2>5 DEF Covers
    <3>2. N \subseteq Elsewhere(y)'
      BY CommitKeepsElsewhere
    <3>3. Covered(Elsewhere(y), c)'
      BY <3>1, <3>2 DEF Covered, Targets
    <3> QED
      BY <3>3
  <2>6. CASE \A d \in Deps[c] : d \notin Written(x)
    <3>1. c \notin Written(x)
      BY <2>1, <2>3, Facts, WrittenCells
    <3>2. \A r \in Record : r \notin Written(x) => Visible(y, r)' = Visible(y, r)
      BY <1>1, Shown DEF Visible, Written, Same
    <3>3. Covered(Elsewhere(y), c) => Covered(Elsewhere(y), c)'
      BY <2>4 DEF Covered
    <3> QED
      BY <2>1, <2>6, <3>1, <3>2, <3>3
  <2> QED
    BY <2>4, <2>5, <2>6 DEF Covered
<1> QED
  BY <1>1, <1>2, SameLocal, SameRight

LEMMA CommitKeeps ==
    ASSUME OneGrain, IInv, NEW x \in Tx, NEW N, N \subseteq Work, Commits(x, N), Covers(x, N),
           phase[x] \in {"missed", "computed"}, phase' = [phase EXCEPT ![x] = "idle"],
           Ends(x), Forgets(x), hand' \in [Worker -> SUBSET Work]
    PROVE  IInv'
<1>1. TargetsExclusive
  BY ExclusiveNow DEF IInv, Local
<1>2. /\ phase'[x] = "idle" /\ phase' \in [Tx -> Phase]
      /\ plan'[x] = NoPlan /\ plan' \in [Tx -> Plan] /\ level' \in [Tx -> Nat]
      /\ DOMAIN draft' = Tx /\ DOMAIN keys' = Tx /\ DOMAIN snap' = Tx
      /\ draft'[x] = Nothing /\ keys'[x] = {}
  BY Facts DEF Ends, Forgets, Typed, Phase
<1>3. Typed'
  BY <1>2, Facts DEF Typed, Commits
<1>4. Local(x)' /\ Right(x)'
  <2>1. ~Updating(x)'
    BY <1>2 DEF Updating
  <2>2. DOMAIN draft'[x] = {}
    BY <1>2 DEF Nothing
  <2>3. WellPlanned(x)'
    BY <1>2, Facts DEF WellPlanned
  <2> QED
    BY <1>2, <2>1, <2>2, <2>3 DEF Local, HoldsLocks, WritesItsOwn, Written, InLevels, Right
<1>5. \A y \in Others(x) : Local(y)' /\ Right(y)'
  BY <1>1, CommitKeepsOthers
<1>6. KeysExclusive'
  <2>1. \A y \in Others(x) : keys'[y] = keys[y]
    BY DEF Commits, Same
  <2> QED
    BY <1>2, <2>1 DEF IInv, KeysExclusive, Others
<1>7. StaleIsInWork'
  BY CommitKeepsFresh
<1> QED
  BY <1>3, <1>4, <1>5, <1>6, <1>7 DEF IInv, Others

\* The others keep all they have when x ends its transaction.
LEMMA EndKeepsOthers ==
    ASSUME Typed, NEW x \in Tx, NEW to, phase' = [phase EXCEPT ![x] = to], Ends(x), Forgets(x)
    PROVE  \A y \in Others(x) : Same(y)
BY DEF Typed, Ends, Forgets, Others, Same

LEMMA WriteCommits ==
    ASSUME OneGrain, IInv, NEW x \in Writer, CommitWrite(x)
    PROVE  IInv'
<1> DEFINE q == IF phase[x] = "missed" THEN plan[x] ELSE Rest(x)
           N == UnitsIfAny(q)
<1>1. x \in Tx /\ x \notin Worker
  BY RunAssumption DEF Tx
<1>2. /\ phase[x] \in {"missed", "computed"} /\ phase' = [phase EXCEPT ![x] = "idle"]
      /\ val' = Committed(x) /\ queued' = queued \cup N /\ Ends(x) /\ Forgets(x)
      /\ hand' = hand /\ dead' = dead
  BY DEF CommitWrite
<1>3. /\ plan[x].seeds \subseteq Source /\ plan[x].seeds \subseteq Record
      /\ plan[x] = FullPlan(plan[x].seeds) /\ plan[x] \in Plan
  BY <1>1, Facts, GraphAssumption DEF WellPlanned
<1> DEFINE S == plan[x].seeds
<1>4. plan[x].steps = DownOf(S) /\ plan[x].stage = DownOf(S) /\ DownOf(S) \in SUBSET Computed
  BY <1>3, DownTypes DEF FullPlan, PlanOf
<1>5. /\ q.seeds = S /\ q.stage = DownOf(S)
      /\ q.steps = IF phase[x] = "missed" THEN DownOf(S) ELSE DownOf(S) \ SyncSteps(plan[x])
  <2>1. Rest(x) = [plan[x] EXCEPT !.steps = @ \ SyncSteps(plan[x])]
    BY DEF Rest, AsyncPlan
  <2> QED
    BY <1>3, <1>4, <2>1 DEF Plan
<1> HIDE DEF q
<1>6. \A s \in S : q.steps # {} => [seed |-> s, steps |-> q.steps, stage |-> q.stage] \in N
  BY <1>5 DEF UnitsIfAny, Units
<1>7. N \subseteq Work
  BY <1>3, <1>4, <1>5 DEF UnitsIfAny, Units, Work, Unit
<1>8. Covers(x, N)
  <2> SUFFICES ASSUME NEW c \in Computed, NEW d \in Deps[c], d \in Written(x),
                      ~(Updating(x) /\ c \in Mine(x))
               PROVE  Covered(N, c)
    BY DEF Covers
  <2>1. d \in Dirty(plan[x])
    BY <1>1, Facts DEF WritesItsOwn, Mine, Dirty
  <2>2. c \in Dirty(plan[x]) /\ c \in DownOf(S)
    BY <1>3, <2>1, ReadsDirty
  <2>3. c \in q.steps
    <3>1. CASE phase[x] = "missed"
      BY <1>5, <2>2, <3>1
    <3>2. CASE phase[x] = "computed"
      <4>1. Steps(x) = SyncSteps(plan[x])
        BY DEF Steps
      <4>2. c \notin Steps(x)
        BY <2>2, <3>2 DEF Updating, Mine
      <4> QED
        BY <1>5, <2>2, <3>2, <4>1, <4>2
    <3> QED
      BY <1>2, <3>1, <3>2
  <2>4. PICK s \in S : c \in Down[s]
    BY <2>2 DEF DownOf
  <2>5. [seed |-> s, steps |-> q.steps, stage |-> q.stage] \in N
    BY <1>6, <2>3
  <2> QED
    BY <2>3, <2>4, <2>5 DEF Covered, Targets
<1> HIDE DEF N
<1>9. Commits(x, N)
  BY <1>1, <1>2, Facts, EndKeepsOthers DEF Commits
<1> QED
  BY <1>1, <1>2, <1>7, <1>8, <1>9, Facts, CommitKeeps

LEMMA RunCommits ==
    ASSUME OneGrain, IInv, NEW w \in Worker, CommitRun(w)
    PROVE  IInv'
<1> DEFINE q == NextStage(plan[w])
           N == UnitsIfAny(q)
<1>1. w \in Tx /\ w \notin Writer
  BY RunAssumption DEF Tx
<1>2. /\ phase[w] = "computed" /\ phase' = [phase EXCEPT ![w] = "idle"]
      /\ val' = Committed(w) /\ queued' = queued \cup N /\ Ends(w) /\ Forgets(w)
      /\ hand' = [hand EXCEPT ![w] = @ \ Units(plan[w])] /\ dead' = dead
  BY <1>1 DEF CommitRun, Becomes, Rest
<1>3. /\ plan[w] \in Plan /\ plan[w].steps \subseteq plan[w].stage
      /\ plan[w].stage \in SUBSET Computed /\ plan[w].stage \in SUBSET Record
  BY <1>1, Facts, GraphAssumption DEF WellPlanned, Plan
<1>4. /\ q.seeds = {r \in Dirty(plan[w]) : TableOf[r] \in {TableOf[c] : c \in plan[w].stage}}
      /\ q.steps = DownOf(plan[w].stage) /\ q.stage = DownOf(plan[w].stage)
  BY DEF NextStage, PlanOf
<1> HIDE DEF q
<1>5. \A s \in q.seeds : q.steps # {} => [seed |-> s, steps |-> q.steps, stage |-> q.stage] \in N
  BY DEF UnitsIfAny, Units
<1>6. N \subseteq Work
  <2>1. q.seeds \subseteq Record /\ q.steps \in SUBSET Computed
    BY <1>3, <1>4, DirtyTypes, DownTypes
  <2> QED
    BY <1>4, <2>1 DEF UnitsIfAny, Units, Work, Unit
<1>7. Covers(w, N)
  <2> SUFFICES ASSUME NEW c \in Computed, NEW d \in Deps[c], d \in Written(w)
               PROVE  Covered(N, c)
    BY DEF Covers
  <2>1. d \in Mine(w)
    BY <1>1, Facts DEF WritesItsOwn
  <2>2. d \in plan[w].stage /\ d \in Dirty(plan[w])
    BY <1>1, <1>3, <2>1 DEF Mine, Steps
  <2>3. d \in q.seeds
    BY <1>4, <2>2
  <2>4. c \in q.steps /\ c \in Down[d]
    BY <1>4, <2>2, ReadsDown DEF DownOf
  <2>5. [seed |-> d, steps |-> q.steps, stage |-> q.stage] \in N
    BY <1>5, <2>3, <2>4
  <2> QED
    BY <2>4, <2>5 DEF Covered, Targets
<1> HIDE DEF N
<1>8. hand' \in [Worker -> SUBSET Work]
  BY <1>1, <1>2, Facts
<1>9. Commits(w, N)
  BY <1>1, <1>2, Facts, EndKeepsOthers DEF Commits
<1> QED
  BY <1>1, <1>2, <1>6, <1>7, <1>8, <1>9, CommitKeeps

-----------------------------------------------------------------------------
(* The theorems *)

LEMMA InitInv ==
    ASSUME Init
    PROVE  IInv
<1>1. /\ draft = [x \in Tx |-> Nothing] /\ keys = [x \in Tx |-> {}]
      /\ phase = [x \in Tx |-> "idle"] /\ plan = [x \in Tx |-> NoPlan]
      /\ level = [x \in Tx |-> 1] /\ snap = [x \in Tx |-> Nothing] /\ val = Start
      /\ queued = {} /\ hand = [w \in Worker |-> {}] /\ dead = {}
  BY DEF Init
<1>2. NoPlan \in Plan /\ NoPlan = FullPlan({}) /\ NoPlan.seeds = {} /\ NoPlan.steps = {}
  BY DEF NoPlan, Plan, PlanOf, FullPlan, DownOf
<1>3. Typed
  BY <1>1, <1>2 DEF Typed, Phase
<1>4. KeysExclusive
  BY <1>1 DEF KeysExclusive
<1>5. ASSUME NEW x \in Tx PROVE Local(x) /\ Right(x)
  <2>1. ~Updating(x) /\ phase[x] = "idle" /\ plan[x] = NoPlan
    BY <1>1 DEF Updating
  <2>2. Written(x) = {}
    BY <1>1 DEF Written, Nothing
  <2>3. WellPlanned(x)
    BY <1>2, <2>1 DEF WellPlanned
  <2> QED
    BY <2>1, <2>2, <2>3 DEF Local, HoldsLocks, WritesItsOwn, InLevels, Right
<1>6. StaleIsInWork
  BY <1>1, ValueAssumption DEF StaleIsInWork, Fresh
<1> QED
  BY <1>3, <1>4, <1>5, <1>6 DEF IInv

LEMMA NextInv ==
    ASSUME OneGrain, IInv, [Next]_vars
    PROVE  IInv'
<1>1. CASE \E x \in Writer : UserStep(x)
  <2>1. PICK x \in Writer : UserStep(x)
    BY <1>1
  <2>2. x \in Tx
    BY DEF Tx
  <2> QED
    BY <2>1, <2>2, WriteQuiet, LockSteps, WriteCommits DEF UserStep
<1>2. CASE \E w \in Worker : TakeTask(w) \/ RunStep(w)
  <2>1. PICK w \in Worker : TakeTask(w) \/ RunStep(w)
    BY <1>2
  <2>2. w \in Tx
    BY DEF Tx
  <2> QED
    BY <2>1, <2>2, ClaimStep, LockSteps, CrashStep, RunCommits, SettleStep DEF RunStep
<1>3. CASE \E x \in Tx : UpdateStep(x)
  <2>1. PICK x \in Tx : UpdateStep(x)
    BY <1>3
  <2> QED
    BY <2>1, LockSteps, TargetsStep, ReadStep, StoreStep, FailStep DEF UpdateStep
<1>4. CASE CalmDown
  BY <1>4, UnchangedKeeps DEF CalmDown
<1>5. CASE UNCHANGED vars
  BY <1>5, UnchangedKeeps DEF vars, cells, run, work
<1> QED
  BY <1>1, <1>2, <1>3, <1>4, <1>5 DEF Next

LEMMA AlwaysIInv ==
    ASSUME OneGrain
    PROVE  Spec => []IInv
<1>1. Init => IInv
  BY InitInv
<1>2. IInv /\ [Next]_vars => IInv'
  BY NextInv
<1> QED
  BY <1>1, <1>2, PTL DEF Spec

\* Two transactions that recompute at the same time share no dirty record, on every
\* graph of dependencies, with any number of transactions, as long as all sets of
\* records lock in one grain (acquireLocks, acquireDirtyTargetLocks).
THEOREM TargetsAlwaysExclusive ==
    ASSUME OneGrain
    PROVE  Spec => []TargetsExclusive
<1>1. IInv => TargetsExclusive
  BY ExclusiveNow DEF IInv, Local
<1> QED
  BY <1>1, AlwaysIInv, PTL

\* No interleaving of writes, runs, failures, crashes and runs taken over leaves a
\* committed computed cell stale without work that will recompute it.
THEOREM StaleAlwaysInWork ==
    ASSUME OneGrain
    PROVE  Spec => []StaleIsInWork
<1>1. IInv => StaleIsInWork
  BY DEF IInv
<1> QED
  BY <1>1, AlwaysIInv, PTL
=============================================================================
