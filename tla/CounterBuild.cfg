CONSTANTS
    NONE = NONE
    Uptos = {1, 9, 10, 11, 99, 101, 201}
    Workers = {w1, w2}
    Columns = {c1, c2}
    Others = {l1}
    MayFail = TRUE
SPECIFICATION BuildSpec
INVARIANTS NoEarlyUse WholeWhenUsed PointersAbut StringsInPlace
PROPERTIES StageEnds
