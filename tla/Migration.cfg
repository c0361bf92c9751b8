SPECIFICATION Spec
CONSTANTS
    Workers = {w1}
    MaxJobs = 2
    MaxWrites = 2
    MaxCrashes = 1
    MaxCancels = 1
    FailPoints <- BeforeSwitch
    HeartbeatsOnTime = TRUE
    CancelsInTime = TRUE
INVARIANTS
    TypeOK
    NoWriteLost
    LiveTargetKept
PROPERTIES
    SwitchesToACopy
    RollsBackUntouched
CHECK_DEADLOCK FALSE
