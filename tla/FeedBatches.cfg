SPECIFICATION Spec
CONSTANTS
    c1 = c1
    c2 = c2
    f1 = f1
    f2 = f2
    f3 = f3
    n1 = n1
    n2 = n2
    None = None
    MaxMsg = 3
    MaxRows = 2
    Conn <- MCOneConn
    File <- MCTwoFiles
    Node <- MCOneNode
    NodeOf <- MCOneNodeOf
    Empty <- MCEmpty
    ChainLen = 2
    MaxUnwritten = 1
    MaxRaw = 1
SYMMETRY SymmBatches
INVARIANTS NoAckedLoss NoInvalidCheckpoint SyncFindsWorkingSet
PROPERTIES SecuredForever
