SPECIFICATION StoreSpec
CONSTANTS
    Node = {n1}
    NoVote = NoVote
    Absent = Absent
    CrashKind = {"process"}
    FailureAfterOpen = FALSE
    MaxIndex = 3
    MaxTerm = 3
    MaxCrashes = 1
    MaxCompactions = 0
CHECK_DEADLOCK FALSE
INVARIANT LogIsWellFormed
