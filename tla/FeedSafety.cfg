SPECIFICATION Spec
CONSTANTS
    c1 = c1
    c2 = c2
    f1 = f1
    f2 = f2
    f3 = f3
    n1 = n1
    n2 = n2
    None = None
    MaxMsg = 2
    MaxRows = 1
    Conn <- MCConn
    File <- MCFile
    Node <- MCNode
    NodeOf <- MCNodeOf
    Empty = {}
    ChainLen = 1
    MaxUnwritten = 0
    MaxRaw = 2
SYMMETRY Symm
INVARIANTS TypeOK NoAckedLoss OneOwner
PROPERTIES ImplementsDelivery
