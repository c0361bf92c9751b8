-------------------------- MODULE ComputedLockPlan --------------------------
(***************************************************************************)
(* buildComputedUpdateLockPlan of ComputedUpdateLock.ts: the advisory-lock *)
(* keys a computed-field run takes for a set of records.  Each table is    *)
(* decided on its own: up to MaxRecordLocks records have a key each, above *)
(* that the shards they hash to are locked, or the whole table when        *)
(* sharding is off.                                                        *)
(***************************************************************************)
EXTENDS Naturals, FiniteSets

CONSTANTS
    Record,         \* records of all tables
    Table,
    TableOf,        \* Record -> Table
    Shard,          \* 0 .. config.batchShardCount - 1; empty: no sharding
    ShardOf,        \* resolveBatchShard
    MaxRecordLocks  \* config.maxRecordLocks

ASSUME LockAssumption ==
    /\ TableOf \in [Record -> Table]
    /\ Shard # {} => ShardOf \in [Record -> Shard]
    /\ MaxRecordLocks \in Nat

\* collectSeedRecordGroups
RecordsIn(tbl, R) == {r \in R : TableOf[r] = tbl}

\* The records of this table are locked one by one.
OneByOne(tbl, R) == Cardinality(RecordsIn(tbl, R)) <= MaxRecordLocks

\* buildRecordLockKey, buildBatchLockKey, buildTableLockKey
RecordKey(r) == <<TableOf[r], "record", r>>

BatchKey(r) == <<TableOf[r], "batch", ShardOf[r]>>

TableKey(r) == <<TableOf[r], "table">>

KeyOf(r, R) ==
    IF OneByOne(TableOf[r], R) THEN RecordKey(r)
    ELSE IF Shard # {} THEN BatchKey(r)
    ELSE TableKey(r)

KeysOf(R) == {KeyOf(r, R) : r \in R}
=============================================================================
