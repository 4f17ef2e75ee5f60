CONSTANTS
  User = {u1, u2}
  NoUser = NoUser
  Hints = {NoUser, u2}
  MaxAttempts = 2
  MaxPrompts = 1
SPECIFICATION LoginSpec
CHECK_DEADLOCK FALSE
INVARIANT ReturnOnlyToManual
