SPECIFICATION StoreSpec
CONSTANTS
    Node = {n1}
    NoVote = NoVote
    Absent = Absent
    CrashKind = {"process", "power"}
    FailureAfterOpen = FALSE
    MaxIndex = 2
    MaxTerm = 3
    MaxCrashes = 2
    MaxCompactions = 1
CHECK_DEADLOCK FALSE
INVARIANT MemoryMatchesEngine SpliceIsAtomic CommitIndexExists
PROPERTY CommittedEntriesAreKept EntriesAndVoteAreDurable VotesAreKept
