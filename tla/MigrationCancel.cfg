SPECIFICATION Spec
CONSTANTS
    Workers = {w1}
    MaxJobs = 1
    MaxWrites = 1
    MaxCrashes = 0
    MaxCancels = 1
    FailPoints <- BeforeSwitch
    HeartbeatsOnTime = TRUE
    CancelsInTime = FALSE
PROPERTIES
    CanceledNeverSwitches
CHECK_DEADLOCK FALSE
