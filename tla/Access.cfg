SPECIFICATION FairSpec
CONSTANTS
    Requests = {"r1", "r2"}
    Menu <- MenuAll
    Names = {"root", "keeper", "reader", "new", "r1", "r2"}
    Roles = {"guest", "staff", "Sales Team"}
    PlainRoles = {"guest", "staff"}
    RoleKeys = {"role", "claim"}
    Keys = {"k1", "k2"}
    Places = {"logs", "logs_1", ".suggestions", "*"}
    AliasOf <- MCAliasOf
    IPs = {"home"}
    Sites = {"shop"}
    Initial <- MCInitial
    InitialKey <- MCKey
    Start = 1
    MaxTime = 2
    None = None
INVARIANTS
    TypeOK
    RightsAgree
    RolesUnique
PROPERTIES
    KeySettles
    ImplementsPolicy
CHECK_DEADLOCK FALSE
