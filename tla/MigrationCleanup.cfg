SPECIFICATION Spec
CONSTANTS
    Workers = {w1}
    MaxJobs = 1
    MaxWrites = 1
    MaxCrashes = 0
    MaxCancels = 1
    FailPoints <- AfterSwitch
    HeartbeatsOnTime = TRUE
    CancelsInTime = TRUE
INVARIANTS
    SwitchedTargetKept
CHECK_DEADLOCK FALSE
