SPECIFICATION Spec
CONSTANTS
    v1 = v1
    v2 = v2
    v3 = v3
    v4 = v4
    v5 = v5
    up = up
    down = down
    Ids = {"a", "b", "c"}
    Atoms = {v1, v2, v3, v4, v5}
    Sorts = {up, down}
    MaxSize = 2
    None = None
    Blank = Blank
    Menu <- MenuAll
INVARIANTS
    TypeOK
    AnswersMatch
    SizesWithinLimit
    ListedMatch
    SearchesMean
CHECK_DEADLOCK FALSE
