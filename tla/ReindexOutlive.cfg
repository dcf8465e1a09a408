SPECIFICATION Spec
CONSTANTS
    Jobs = {j1, j2}
    Menu <- MenuMixed
    Docs = {d1, d2}
    Initially = {d1}
    MaxIndex = 2
    None = None
    Faults <- Outliving
    Aliased = {0}
    AutoCreate = FALSE
    Listings = TRUE
    SlowPolls = FALSE
INVARIANTS
    AtRestResolves
PROPERTIES
    KeepsPromise
CHECK_DEADLOCK FALSE
