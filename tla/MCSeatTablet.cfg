SPECIFICATION Spec
CONSTANTS
  MaxAttempts = 1
  MaxRounds = 2
  MaxFrames = 3
  MaxFaults = 2
INVARIANTS
  CanAnswer
  PageFitsSeat
PROPERTIES
  TabletReturns
CHECK_DEADLOCK FALSE
