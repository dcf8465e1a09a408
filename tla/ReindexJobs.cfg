SPECIFICATION FairSpec
CONSTANTS
    Jobs = {j1, j2}
    Menu <- MenuAll
    Docs = {d1, d2}
    Initially = {d1}
    MaxIndex = 3
    None = None
    Faults <- AllButSwap
    Aliased = {}
    AutoCreate = FALSE
    Listings = FALSE
    SlowPolls = FALSE
INVARIANTS
    TypeOK
    SafeKept
    SingleAlias
    OneCopyPerIndex
    AtRestResolves
PROPERTIES
    EndedIsUntracked
    DiscardsOnlyItsOwn
    KeepsPromise
CHECK_DEADLOCK FALSE
