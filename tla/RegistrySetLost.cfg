SPECIFICATION RegistrySpec
CONSTANTS
    u1 = u1
    u2 = u2
    n1 = n1
    n2 = n2
    n3 = n3
    Uuid = {u1}
    Name = {n1, n2}
    Seqs = {0, 1, 2, 3}
    Setter = {s1}
    Deleter = {d1}
    Repl = {}
    Asks <- OneCheck
    Peer <- OnePeer
    MaxOps = 3
    Overlap = "recycler"
    HostNames = FALSE
    Fires = FALSE
    ModuleRefs = TRUE
    None = None
INVARIANT SetTakesEffect
CHECK_DEADLOCK FALSE
