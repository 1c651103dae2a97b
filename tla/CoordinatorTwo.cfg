\* Both locks on WebSockets.
SPECIFICATION Spec
CONSTANTS
  na = na
  sg = sg
  Streams = {na, sg}
  Datacenters = {na, sg}
  ReconnectDelay = 1
  ReconnectDelayMax = 1
  MaxForeign = 0
  MaxChanges = 2
INVARIANTS
  TypeOK
  PollAlwaysComing
  SlowOnlyWhenCovered
