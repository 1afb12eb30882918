\* Three actions on one key racing two vetoes and the brakes.
CONSTANTS
    i1 = i1
    i2 = i2
    i3 = i3
    c1 = c1
    c2 = c2
    k1 = k1
    None = None
    Items <- ThreeItems
    Keys <- OneKey
    Cancels <- TwoVetoes
    KeyOf <- SameKey
SPECIFICATION FairSpec
INVARIANTS
    VetoIsFinal
    InverseAfterForward
    WindowRespectedUnlessOverlap
    NoSilentHalfAction
PROPERTIES
    HeldIsResolved
CHECK_DEADLOCK FALSE
