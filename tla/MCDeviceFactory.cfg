CONSTANTS
    t1 = t1
    t2 = t2
    t3 = t3
    Threads <- ThreeThreads
    Modes <- AllModes
    Inputs <- AllInputs
    Found <- SomeFound
    Addrs = {a1, a2, a3}
    Null = Null
    Empty = Empty
SPECIFICATION Spec
INVARIANTS FactoryInv NoLeak SameDeviceInTurn
CHECK_DEADLOCK FALSE
