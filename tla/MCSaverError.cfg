CONSTANTS
  MaxAttempts = 2
  MaxTalk = 1
  MaxReplies = 2
  MaxHalfPipes = 0
  Severities <- InfoAndError
  MaxSessions = 1
  MaxSignals = 1
  MaxConfirms = 1
SPECIFICATION SaverSpec
INVARIANT MadeUpOnlyIfNone
CHECK_DEADLOCK FALSE
