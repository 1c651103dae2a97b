\* Two overlapping commands, with errors nobody catches.
SPECIFICATION FairSpec
CONSTANTS
  ReorderWindow = 1
  PendingTimeout = 1
  SeenMax = 4
  BatteryLevels = {}
  first = first
  second = second
  Commands = {first, second}
  Fallbacks <- TwoFallbacks
  FollowUps = {1}
  Covers = {TRUE, FALSE}
  Escapes = TRUE
  MaxFrames = 1
  MaxClock = 3
INVARIANTS
  TypeOK
  PendingIsWatched
  EveryRouteTried
PROPERTIES
  ShownUntilSettled
  PendingEnds
