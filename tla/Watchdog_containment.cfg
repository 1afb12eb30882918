SPECIFICATION Spec
CONSTANTS
    Callers = {c1, c2, c3}
    Keys = {a, b}
    Ifaces = {"lo", "tailscale0"}
    None = None
    WD = wd
    MinTicks = 2
    MinDuration = 1
    MaxRollbacks = 1
SYMMETRY CallerSymmetry
INVARIANTS
    ContainmentIsSafe
PROPERTIES
    NothingLost
    RollbackIsRealPerBackup
CHECK_DEADLOCK FALSE
