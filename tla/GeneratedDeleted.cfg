CONSTANTS
    MaxFaults = 1
    MaxRuns = 1
    LOG_SIZE = 5
    Dbs = {"d1", "d2"}
    Runs <- MCRuns
SPECIFICATION Spec
INVARIANT GeneratedFilesDeleted
