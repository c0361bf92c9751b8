SPECIFICATION AnySpec
CONSTANTS
    t1 = t1
    t2 = t2
    t3 = t3
    x1 = x1
    x2 = x2
    x3 = x3
    b1 = b1
    b2 = b2
    w1 = w1
    w2 = w2
    grouped = grouped
    NoGroup = NoGroup
    Nobody = Nobody
    Task = {t1, t2, t3}
    Claimer = {x1, x2, x3}
    Base = {b1, b2}
    BaseOf <- TwoBases
    Kind <- OneOfEach
    MaxPerBase = 2
    HeartbeatsOnTime = FALSE
    Slots = {1, 2, 3, 4, 5}
    MaxPosts = 2
    Owners = {w1, w2}
    Capacity = 1
    DeliveryIds = {1, 2}
INVARIANTS
    ChecksStayTrue
    BatchLimitKept
    SplitKeepsRecords
    HooksFollowTheirAttempt
    ResultTellsWhatHappened
    BeliefOutlived
    CapacityKept
    DeadWasTried
PROPERTIES
    LiveLeaseKept
    EveryRecordSettles
    KeepsTheStack
    GivesBack
    DeliveriesEnd
CHECK_DEADLOCK FALSE
