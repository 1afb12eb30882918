SPECIFICATION IGSpec
CONSTANTS
    Copies <- FiveCopies
    Malicious <- PoisonedA
    Vulnerable <- WeakA
    Manifests <- SomeManifests
    Published <- Ages
    CooldownDays = 3
    BuildLines <- ThreeBuildLines
    LogLines <- ThreeLogLines
    MaxRewrites = 1
INVARIANTS
    KnownMaliciousIsBlocked
    PassMeansPinned
CHECK_DEADLOCK FALSE
