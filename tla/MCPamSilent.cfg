CONSTANTS
  MaxAttempts = 2
  MaxTalk = 1
  MaxReplies = 1
  MaxHalfPipes = 0
SPECIFICATION FairSpec
PROPERTY EveryEndIsReported
CHECK_DEADLOCK FALSE
