SPECIFICATION HTSpec
CONSTANTS
    Decoys <- OneDecoy
    Lines <- TwoLines
    Gitleaks = {"absent", "failed"}
    Trufflehog = {"absent", "failed"}
    Commands = {p, q}
    MaxTime = 1
    MaxDeploys = 1
    MaxRuns = 2
    MaxForeign = 1
    MaxCrashes = 0
INVARIANTS
    AlteredIsCritical
SYMMETRY CommandsAlike
CHECK_DEADLOCK FALSE
