SPECIFICATION Spec
CONSTANTS
    Configs <- OneOfTwo
    Sources = {a, b}
    Rank <- Ranks
    MaxReports = 3
    Retain = 1
    StaleAfter = 0
    AppendCap = 2
    Operators = {o}
    MaxTime = 2
    MaxAccepted = 3
    MaxUnsaved = 1
    MaxStarts = 2
INVARIANTS
    HistoryKept
    NoResurrection
    LiveIsListed
    ViewsAgree
    AnswersAreRecorded
SYMMETRY SourcesAlike
CHECK_DEADLOCK FALSE
