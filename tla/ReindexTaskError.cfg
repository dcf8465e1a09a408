SPECIFICATION Spec
CONSTANTS
    Jobs = {j1}
    Menu <- MenuAsync
    Docs = {d1}
    Initially = {d1}
    MaxIndex = 1
    None = None
    Faults <- TaskErrors
    Aliased = {}
    AutoCreate = FALSE
    Listings = FALSE
    SlowPolls = FALSE
INVARIANTS
    SafeKept
CHECK_DEADLOCK FALSE
