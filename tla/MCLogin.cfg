CONSTANTS
  User = {u1, u2}
  NoUser = NoUser
  Hints = {NoUser, u2}
  MaxAttempts = 2
  MaxPrompts = 1
SPECIFICATION LoginFairSpec
CHECK_DEADLOCK FALSE
INVARIANTS ControlsFitMode PendingIsCurrent AttemptIsShown SessionIsShown
PROPERTIES ManualIsLeftAlone ReportLeadsOn
