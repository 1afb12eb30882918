SPECIFICATION BPSpec
CONSTANTS
    Programs <- FivePrograms
    Nameless = ""
    Tagless = ""
    Suspicious = {"override_return"}
    MaxAlterations = 2
INVARIANTS
    CleanMeansUnchanged
    HiddenIsTold
