CONSTANTS
    Threads = {t1, t2}
    Paths <- SomePaths
    Driver <- SomeDriver
    BadABI = {"old"}
    CACHE_TIMEOUT = 1
    MaxCalls = 2
    MaxChanges = 1
    MaxTime = 1
SPECIFICATION Spec
PROPERTY FindsShared
CHECK_DEADLOCK FALSE

