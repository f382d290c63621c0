SPECIFICATION SpecLed
CONSTANTS
    Node = {n1, n2, n3}
    First = n1
    NoNode = NoNode
    Write = {w1}
    Read = {}
    Status = {}
    Noop = Noop
    MaxAppendEntries = 1
    MaxTerm = 2
    MaxRestarts = 1
    MaxInFlight = 1
SYMMETRY SymmetryLed
INVARIANTS ElectionSafety AckedWritesDurable StateMachineSafety OnlyRestartPanics
CHECK_DEADLOCK FALSE
