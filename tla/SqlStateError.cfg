SPECIFICATION SqlSpec
CONSTANTS
    Id = {i1, i2}
    Val = {a, b}
    Deleted = Deleted
    Absent = Absent
    NoEntry = NoEntry
    CrashIn = {}
    ContinueAfterError = TRUE
    MaxVersion = 2
    MaxIndex = 6
    MaxCrashes = 0
CHECK_DEADLOCK FALSE
INVARIANT IndexesMatchRows
