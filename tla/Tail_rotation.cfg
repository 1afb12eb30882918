SPECIFICATION FairSpec
CONSTANTS
    Lines = 3
    Size <- Sizes
    Inodes = {1, 2}
    ReadMax = 2
    LeftoverMax = 1
    MaxFiles = 3
    MaxStarts = 2
INVARIANTS
    NoSilentSkip
    LinesIntact
PROPERTIES
    LinesAreRead
CHECK_DEADLOCK FALSE
