CONSTANTS
  Thread = {t1, t2}
  MaxCalls = 2
SPECIFICATION FairSpec
INVARIANTS DeviceOutlives AllReleased ClosedOnce OwnReply HeldIsKnown
PROPERTIES LostIsReleased ListenerReturns
