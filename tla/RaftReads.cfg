SPECIFICATION SpecLed
CONSTANTS
    Node = {n1, n2, n3}
    First = n1
    NoNode = NoNode
    Write = {w1}
    Read = {r1}
    Status = {}
    Noop = Noop
    MaxAppendEntries = 1
    MaxTerm = 2
    MaxRestarts = 0
    MaxInFlight = 1
SYMMETRY SymmetryLed
INVARIANTS TypeOK ReadsAreLinearizable
PROPERTIES AnsweredOnce
CHECK_DEADLOCK FALSE
