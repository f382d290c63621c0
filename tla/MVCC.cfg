SPECIFICATION ScanSpec
CONSTANTS
    Txn = {t1, t2, t3}
    Key = {1, 2}
    Value = {x}
    Deleted = Deleted
    Absent = Absent
    NoTxn = NoTxn
    Scanner = {t3}
    MaxVersion = 3
    BufferSizes = {1, 2}
    End = End
SYMMETRY Symmetry
CHECK_DEADLOCK FALSE
INVARIANT MVCCTypeOK UncommittedIsLatest WriteRecordsAreExact ConflictsAreFound ScanIsSnapshot
PROPERTY ImplementsSnapshotIsolation
