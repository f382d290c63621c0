SPECIFICATION SqlSpec
CONSTANTS
    Id = {i1, i2}
    Val = {a, b}
    Deleted = Deleted
    Absent = Absent
    NoEntry = NoEntry
    CrashIn = {"begin", "insert"}
    ContinueAfterError = FALSE
    MaxVersion = 3
    MaxIndex = 3
    MaxCrashes = 1
CHECK_DEADLOCK FALSE
INVARIANT ReapplicationIsDeterministic
