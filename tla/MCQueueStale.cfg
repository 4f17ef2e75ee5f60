CONSTANTS
  Kinds <- MCKinds
  Interval = 1
  Hz = 2
  MaxMsgs = 2
  MaxStops = 1
SPECIFICATION Spec
PROPERTY StoppedMeansSilent
CHECK_DEADLOCK FALSE
