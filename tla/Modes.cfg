CONSTANTS
    MaxFaults = 1
    MaxRuns = 3
    LOG_SIZE = 5
    Dbs = {"d1", "d2"}
    Runs <- MCRuns
SPECIFICATION Spec
INVARIANTS OldFilesKept GeneratedComplete LoadedOrReported LogReadable RemovedExactly
