SPECIFICATION HTSpec
CONSTANTS
    Decoys <- OneDecoy
    Lines <- TwoLines
    Gitleaks = {"absent", "failed"}
    Trufflehog = {"absent", "failed"}
    Commands = {p, q}
    MaxTime = 1
    MaxDeploys = 1
    MaxRuns = 2
    MaxForeign = 2
    MaxCrashes = 1
INVARIANTS
    CleanIsTrue
    NoSelfTrip
PROPERTIES
    OwnFileKept
SYMMETRY CommandsAlike
CHECK_DEADLOCK FALSE
