SPECIFICATION FairSpec
CONSTANTS
    n1 = n1
    n2 = n2
    u = u
    v = v
    p = p
    a = a
    b = b
    Nodes = {n1}
    Users = {u}
    Permissions = {p}
    Passwords = {a, b}
    NoName = NoName
    None = None
    Requests = {r1, r2}
    Menu <- MenuAll
    Installed <- InstalledAll
    Proxied = FALSE
    Accapi = u
    Syncing = TRUE
    MaxInFlight = 2
INVARIANTS
    TypeOK
    CachedWereStored
    PasswordsWereStored
    AcceptedKnewPassword
PROPERTIES
    EventuallyFresh
