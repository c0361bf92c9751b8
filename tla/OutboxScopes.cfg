SPECIFICATION Spec
CONSTANTS
    t1 = t1
    t2 = t2
    t3 = t3
    o1 = o1
    o2 = o2
    p1 = p1
    p2 = p2
    i1 = i1
    i2 = i2
    tbl1 = tbl1
    tbl2 = tbl2
    scope1 = scope1
    scope2 = scope2
    base1 = base1
    NoOwner = NoOwner
    Task = {t1, t2}
    Owner = {o1, o2}
    Plan = {p1, p2}
    Item = {i1, i2}
    Table = {tbl1}
    PauseScope = {scope1}
    Scope = {scope1, scope2}
    Base = {base1}
    Payload <- Singles
    KindOf <- SeedThenBackfill
    ScopeOf <- TwoScopes
    BaseOf <- OneBase
    TableOf <- OneTable
    PausedBy <- PausedByScope
    InlineLimit = 2
    MaxAttempts = 1
    MaxPerBase = 2
    MaxPerSeedTable = 1
    BatchLimit = 2
SYMMETRY Names
INVARIANTS
    OwnerSeesRow
PROPERTIES
    NoWorkLost
CHECK_DEADLOCK FALSE
