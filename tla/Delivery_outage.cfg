SPECIFICATION FairSpec
CONSTANTS
    Findings = 3
    BufferMax = 2
    SpoolMax = 2
    MaxSeq = 2
    MaxLostAcks = 1
    MaxRestarts = 1
CONSTRAINT Serial
INVARIANTS
    AtLeastOnceInOrder
PROPERTIES
    BacklogDrains
    ImplementsChannel
CHECK_DEADLOCK FALSE
