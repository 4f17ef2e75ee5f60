CONSTANTS
  MaxAttempts = 3
  MaxTalk = 1
  MaxReplies = 1
  MaxHalfPipes = 1
SPECIFICATION FairSpec
INVARIANTS TypeOK LiveHandles OnlyCurrentChildWorks SuccessIsOwn ReportedOnce NoFdLeak
PROPERTY EndIsReported
CHECK_DEADLOCK FALSE
