CONSTANTS
    NULL = NULL
    a1 = a1
    a2 = a2
    b1 = b1
    b2 = b2
    Nodes = {a1, a2, b1, b2}
    Lists <- MCLists
    Stages <- TwoStages
    Tasks <- TwoTasks
    WorkerCount = 2
    MayFail = {a1}
    CreateMayFail = FALSE
    KeyMayFail = FALSE
    DumpMayFail = FALSE
    ReportMayFail = FALSE
SPECIFICATION FairSpec
PROPERTIES FailureEndsRun
