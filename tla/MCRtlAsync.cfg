CONSTANTS
  NXfer = 2
  MaxActivations = 2
SPECIFICATION FairSpec
INVARIANTS AsyncInv FreedAreIdle AlarmMeansDead
PROPERTIES CancelledEnds DeleteEnds
