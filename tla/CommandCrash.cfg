\* An error that is not a HomeAccessError.
SPECIFICATION Spec
CONSTANTS
  ReorderWindow = 1
  PendingTimeout = 2
  SeenMax = 4
  BatteryLevels = {}
  first = first
  second = second
  Commands = {first}
  Fallbacks <- TwoFallbacks
  FollowUps = {1}
  Covers = {TRUE}
  Escapes = TRUE
  MaxFrames = 1
  MaxClock = 4
INVARIANTS
  PendingIsGivenUp
