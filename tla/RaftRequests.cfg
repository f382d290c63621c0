SPECIFICATION SpecLed
CONSTANTS
    Node = {n1, n2, n3}
    First = n1
    NoNode = NoNode
    Write = {w1}
    Read = {r1}
    Status = {s1}
    Noop = Noop
    MaxAppendEntries = 1
    MaxTerm = 1
    MaxRestarts = 0
    MaxInFlight = 2
SYMMETRY SymmetryLed
INVARIANTS ProgressIsTrue
CHECK_DEADLOCK FALSE
