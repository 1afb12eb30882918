\* Two concurrent requests of every kind, a budget of one per two ticks, one tick of
\* lag, one write that fails, with the kill switch moving, a shutdown that waits for
\* the handlers or does not, and a crash at any point.
CONSTANTS
    r1 = r1
    r2 = r2
    Requests <- TwoRequests
    Shapes <- MixedShapes
    ResponderDry = FALSE
    RateMax = 1
    RateWindow = 2
    MaxLag = 1
    MaxClock = 2
    MaxUnwritten = 1
SPECIFICATION FairSpec
INVARIANTS
    RateWindowBound
    RefusalJustified
    KillSwitchRefuses
    TrailComplete
    CloseAfterLastWrite
PROPERTIES
    RescueCompletes
CHECK_DEADLOCK FALSE
