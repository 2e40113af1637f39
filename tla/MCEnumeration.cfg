CONSTANTS
    Threads = {t1, t2}
    Paths <- SomePaths
    Driver <- SomeDriver
    BadABI = {"old"}
    CACHE_TIMEOUT = 0
    MaxCalls = 2
    MaxChanges = 1
    MaxTime = 1
SPECIFICATION Spec
INVARIANTS EnumerationInv NotHalfLoaded CachedIsAwaited
CHECK_DEADLOCK FALSE
SYMMETRY ThreadsAlike
