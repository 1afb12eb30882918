SPECIFICATION Spec
CONSTANTS
    p1 = p1
    p2 = p2
    p3 = p3
    Procs <- ThreeProcs
    Pids = {i1, i2}
    Dsts = {ext}
    None = None
    Staged <- TwoImages
    Fileless <- TwoImages
    Protected <- NoImage
    External = {ext}
    MaxProcs = 2
    TTL = 1
    MaxDsts = 1
    LineageDepth = 3
    StaleTTL = 1
    RateMax = 1
    RateWindow = 2
    MaxTime = 3
    MaxLog = 2
    MaxLines = 4
    MaxLost = 1
    MaxStarts = 2
INVARIANTS
    NoMissedIncident
    WrongOnlyAfterLoss
    TaskIsConnectorsUnlessHandedOver
    LoaderNeverTargeted
    BudgetHolds
SYMMETRY HostSymmetry
CHECK_DEADLOCK FALSE
