CONSTANTS
    NumBuffs = 2
    Window = 3
    SeqMod = 6
    MaxHeld = 2
    MaxSent = 8
    LossBudget = 2
    ACKErrors = TRUE
    Ordered = TRUE
SPECIFICATION Spec
INVARIANTS FlowInv InFlightBounded NoSilentGap
CHECK_DEADLOCK FALSE
