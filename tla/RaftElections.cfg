SPECIFICATION Spec
CONSTANTS
    Node = {n1, n2, n3}
    First = n1
    NoNode = NoNode
    Write = {}
    Read = {}
    Status = {}
    Noop = Noop
    MaxAppendEntries = 1
    MaxTerm = 4
    MaxRestarts = 0
    MaxInFlight = 1
SYMMETRY Symmetry
INVARIANTS LogMatching LeaderCompleteness NoPanic
PROPERTIES DurableStateIsKept
CHECK_DEADLOCK FALSE
