SPECIFICATION RegistryFairSpec
CONSTANTS
    u1 = u1
    u2 = u2
    n1 = n1
    n2 = n2
    n3 = n3
    Uuid = {u1}
    Name = {n1, n2}
    Seqs = {0, 1, 2, 3}
    Setter = {s1}
    Deleter = {}
    Repl = {r1}
    Asks <- OneCheck
    Peer <- OnePeer
    MaxOps = 2
    Overlap = "any"
    HostNames = FALSE
    Fires = FALSE
    ModuleRefs = TRUE
    None = None
PROPERTY SetAnswered
CHECK_DEADLOCK FALSE
