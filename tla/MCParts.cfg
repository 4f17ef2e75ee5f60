CONSTANTS
  User = {u1, u2, u3}
  NoUser = NoUser
  Screen = {s1, s2}
  NoScreen = NoScreen
  Size = {small}
  MaxBackgrounds = 4
  MaxPlugs = 4
  MaxPresses = 3
  MaxWindows = 2
  Full = 3
  MaxCalls = 6
  Text = {w, x, y, z}
  Empty = Empty
  MaxConfirms = 2
  Session = {a, b}
  NoSession = NoSession
  Origins = {0, 3, 100}
  TimerId = {t1, t2}
  NoTimer = NoTimer
  Timeouts = {0, 2, 3}
  Longest = 3
  Sizes = {1, 3, 5}
  PipeBuf = 3
  Capacity = 4
  MaxEvents = 3
SPECIFICATION Spec
INVARIANTS OneAnswerPerPrompt PluggedIsShown LabelFollowsLock ShownAsMeant EventsArriveWhole
PROPERTIES ListFollowsUsers PressesMeetMenus PartsGoOn
CHECK_DEADLOCK FALSE
