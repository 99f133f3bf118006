CONSTANTS
    COUNT_GENERATOR_WORKERS = 4
    Inputs <- MCInputs
    MayFail = TRUE
SPECIFICATION Spec
INVARIANTS LayoutFits CellsExist RowsAligned BlocksTile
