CONSTANTS
  Image = {i1, i2}
  NoImage = NoImage
  Default = i1
  MaxExternal = 1
  MaxUnanswered = 1
  User = {root, u1, u2}
  Root = root
  NoUser = NoUser
  Timeout = {0, 1, 4, 9}
  MaxUInt = 4
  NoDelay = NoDelay
  Screen = {s1, s2, s3}
  NoScreen = NoScreen
  Size = {small, big}
  MaxBackgrounds = 4
SPECIFICATION Spec
INVARIANTS UntouchedIsKept SavedMeansStored AutologinIsKept
PROPERTIES OverwritesOnlySeen WindowHasItsScreen
