SPECIFICATION MCSpec
CONSTANTS
    Half <- MCWidths
    Inputs <- MCInputs
    Numerals <- MCNumerals
    ROW_COUNT_MAX = 3
    HASH_LENGTH_MAX = 3
    CHAR_LENGTH_MAX = 40
    DbSize = 2
    TblSize = 3
    ColSize = 5
INVARIANTS
    SpecsFit ArgsExist ColumnsProvided CountersMatch JoinDeclared ParsedToTheEnd
    InRequestedRange Unbiased CellFits
