CONSTANTS
    NumBuffs = 2
    Window = 4
    SeqMod = 7
    MaxHeld = 2
    MaxSent = 10
    LossBudget = 3
    ACKErrors = FALSE
    Ordered = TRUE
SPECIFICATION LossSpec
PROPERTIES NeverStalls AllDelivered
CHECK_DEADLOCK FALSE
