CONSTANTS
    Servers = {s1}
    Clients = {c1, c2}
    TRIGGER_TIMEOUT_SECONDS = 1
    CACHE_DURATION_SECONDS = 2
    MaxTime = 3
SPECIFICATION Spec
INVARIANT NotifiedInTime
CHECK_DEADLOCK FALSE
