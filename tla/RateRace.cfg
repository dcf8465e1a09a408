SPECIFICATION Spec
CONSTANTS
    docs = docs
    search = search
    ip = ip
    Workers = {w1, w2, w3}
    Categories = {docs, search}
    Addresses = {ip}
    Menu <- MenuPatched
    Cap <- CapPatched
INVARIANTS
    TypeOK
    OvershootBounded
SYMMETRY WorkersAlike
