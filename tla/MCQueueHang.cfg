CONSTANTS
  Kinds <- MCKinds
  Interval = 1
  Hz = 2
  MaxMsgs = 2
  MaxStops = 1
SPECIFICATION FairSpec
PROPERTY StopReturns
CHECK_DEADLOCK FALSE
