CONSTANTS
    COUNT_GENERATOR_WORKERS = 4
    MaxRows = 12
    MaxRandomRows = 6
    MaxRowCountMax = 52
    SizeMax = 2
    Base = 1
    Times <- OneDay
    MaxValues = 12
SPECIFICATION MCSpec
INVARIANT OneSecondApart
