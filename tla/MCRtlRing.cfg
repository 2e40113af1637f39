CONSTANTS
    numBuffers = 3
    CountMod = 8
    MaxTick = 9
    MaxChanges = 3
    Users <- AllUsers
    MaxHeld = 1
    LeftOver = {}
SPECIFICATION Spec
INVARIANTS RingInv NoOverwrite
PROPERTIES InOrder NoOldData GapReported
CHECK_DEADLOCK FALSE
