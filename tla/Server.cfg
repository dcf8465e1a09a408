SPECIFICATION FairSpec
CONSTANTS
    Others = {"auth", "users"}
    Sequenced <- MCSequenced
    Scripts <- MCScripts
    Callers = {"a", "b"}
    Clients = {"c"}
    Probes = {"p", "q"}
    None = None
INVARIANTS
    TypeOK
    ServesCurrent
    EndsForCause
PROPERTIES
    ServesOrEnds
CHECK_DEADLOCK FALSE
