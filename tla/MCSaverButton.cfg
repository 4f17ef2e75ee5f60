CONSTANTS
  MaxAttempts = 2
  MaxTalk = 1
  MaxReplies = 2
  MaxHalfPipes = 0
  Severities <- Info
  MaxSessions = 1
  MaxSignals = 1
  MaxConfirms = 1
SPECIFICATION SaverFairSpec
PROPERTY FailureShowsButton
CHECK_DEADLOCK FALSE
