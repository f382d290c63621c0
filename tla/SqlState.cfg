SPECIFICATION PlansSpec
CONSTANTS
    Id = {i1, i2}
    Val = {i1, Null}
    Deleted = Deleted
    Absent = Absent
    NoEntry = NoEntry
    CrashIn = {"update", "delete", "commit", "rollback"}
    ContinueAfterError = FALSE
    MaxVersion = 2
    MaxIndex = 6
    MaxCrashes = 2
    Null = Null
    None = None
    MaxOperators = 4
    Base = 8
    WordBytes = 2
    Infinity = 20
    MaxKeyLen = 2
CHECK_DEADLOCK FALSE
INVARIANT ReapplicationIsDeterministic IndexesMatchRows OptimizedPlansAgree PrecedenceIsKept KeysKeepOrder ScansAreExact EqualityIsConsistent ArithmeticIsChecked
