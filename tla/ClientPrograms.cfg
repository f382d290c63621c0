SPECIFICATION ProgramsSpec
CONSTANTS
    Key = {k1, k2, k3}
    None = None
    MaxSize = 2
    Worker = {w1, w2}
    Batch = 2
    BlockSize = 2
    MaxRetries = 1
    MaxItems = 3
    Null = Null
    NaN = NaN
    NoTable = NoTable
    Deleted = Deleted
    Client = {1, 2}
    Txn = {1, 2, 3, 4}
    NoTxn = NoTxn
    ReadOnly = ReadOnly
    Absent = Absent
    DbKey <- Keys
    InitialDb <- Populated
    Script <- ScriptSet
    MaxAttempts = 1
    MaxFaults = 2
CHECK_DEADLOCK FALSE
INVARIANT ListIsWellFormed ReturnedMeansOnce NoHiddenTransaction ConstraintsHold
PROPERTY ImplementsEvictionQueue ItemsAreServed TransactionsEnd CallsReturn
