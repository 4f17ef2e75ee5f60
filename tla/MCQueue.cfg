CONSTANTS
  Kinds <- MCKinds
  Interval = 2
  Hz = 2
  MaxMsgs = 3
  MaxStops = 2
SPECIFICATION FairSpec
INVARIANTS TypeOK PermitPerMessage CleanAfterStop StopLeaksAtMostOne
PROPERTIES Spacing KeepsPromise EventuallyEmitted StopReturnsUnlessRace
CHECK_DEADLOCK FALSE
