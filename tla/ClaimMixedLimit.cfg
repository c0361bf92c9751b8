SPECIFICATION Spec
CONSTANTS
    t1 = t1
    t2 = t2
    t3 = t3
    x1 = x1
    x2 = x2
    x3 = x3
    b1 = b1
    b2 = b2
    Nobody = Nobody
    Task = {t1, t2}
    Claimer = {x1, x2}
    Base = {b1}
    BaseOf <- OneBase
    Kind <- BatchAndById
    MaxPerBase = 1
    HeartbeatsOnTime = TRUE
INVARIANTS
    BaseLimitKept
CHECK_DEADLOCK FALSE
