SPECIFICATION Spec
CONSTANTS
    n1 = n1
    n2 = n2
    u = u
    v = v
    p = p
    a = a
    b = b
    Nodes = {n1, n2}
    Users = {u, v}
    Permissions = {p}
    Passwords = {a, b}
    NoName = NoName
    None = None
    Requests = {r1, r2, r3}
    Menu <- MenuClusterOwn
    Installed <- InstalledAll
    Proxied = TRUE
    Accapi = v
    Syncing = FALSE
    MaxInFlight = 1
INVARIANTS
    SequentialCoherence
CHECK_DEADLOCK FALSE
