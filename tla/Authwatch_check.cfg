SPECIFICATION Spec
CONSTANTS
    Machines <- FiveMachines
    Binaries = {"sshd"}
    Modules = {"pam_unix", "pam_extra"}
    Contents = {"v1", "v2"}
    Absent = "none"
    Packaged <- PackagedOnce
    KeyLines <- OneKeyLine
    InitLines <- TwoInitLines
    Watches <- OneWatch
    Pids = {1, 2}
    UIDs = {0, 1000}
    MaxChanges = 2
INVARIANTS
    ChangedIsTold
    ForeignIsTold
    ServerIsNotSuspected
CHECK_DEADLOCK FALSE
