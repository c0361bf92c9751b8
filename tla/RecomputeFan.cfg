SPECIFICATION FairSpec
CONSTANTS
    s1 = s1
    s2 = s2
    c1 = c1
    c2 = c2
    u1 = u1
    u2 = u2
    w1 = w1
    w2 = w2
    tblS = tblS
    tblC = tblC
    tblD = tblD
    Source = {s1, s2}
    Computed = {c1, c2}
    Record = {s1, s2, c1, c2}
    Table = {tblS, tblC, tblD}
    TableOf <- FanTables
    Deps <- FanDeps
    Level <- FanLevel
    Down <- FanDown
    Shard = {0}
    ShardOf <- OneShard
    MaxRecordLocks = 2
    Value = {0, 1, 2}
    Input = {1}
    Start <- AllZero
    Eval <- Total
    WriteSets <- SingleWrites
    Writer = {u1}
    Worker = {w1, w2}
    SyncCells = {}
    MaxWork = 2
    MaxDead = 0
    LeasesKept = FALSE
INVARIANTS
    TargetsExclusive
    StaleIsInWork
PROPERTIES
    EventuallySettled
CHECK_DEADLOCK FALSE
