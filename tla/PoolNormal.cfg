CONSTANTS
    NULL = NULL
    a1 = a1
    a2 = a2
    b1 = b1
    b2 = b2
    Nodes = {a1, a2, b1, b2}
    Lists <- MCLists
    Stages <- TwoStages
    Tasks <- TwoTasks
    WorkerCount = 3
    MayFail = {}
    CreateMayFail = FALSE
    KeyMayFail = FALSE
    DumpMayFail = FALSE
    ReportMayFail = FALSE
SPECIFICATION FairSpec
INVARIANTS NoLostWakeup
PROPERTIES ImplementsStagedRun Terminates
