CONSTANTS
  MaxAttempts = 2
  MaxTalk = 1
  MaxReplies = 2
  MaxHalfPipes = 0
  Severities <- Info
  MaxSessions = 2
  MaxSignals = 1
  MaxConfirms = 1
SPECIFICATION SaverFairSpec
INVARIANTS SaverTypeOK UnlockIsEarned NothingStale SessionIsCurrent
PROPERTIES NoSpin ReportLeadsOn
CHECK_DEADLOCK FALSE
