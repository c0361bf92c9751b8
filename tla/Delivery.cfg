SPECIFICATION SceneSpec
CONSTANTS
    p1 = p1
    h1 = h1
    h2 = h2
    t1 = t1
    t2 = t2
    Processes = {p1}
    Handlers = {h1, h2}
    ProcessOf <- OneProcess
    Tasks = {t1, t2}
    Capacity = 1
    Attempts = 2
    MaxFaults = 1
    MaxPauses = 1
INVARIANTS
    TypeOK
    NoTaskForgotten
PROPERTIES
    DueTaskRuns
CHECK_DEADLOCK FALSE
