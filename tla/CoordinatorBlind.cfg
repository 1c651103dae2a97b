\* A poll fails while the socket is down.
SPECIFICATION Spec
CONSTANTS
  na = na
  sg = sg
  Streams = {na}
  Datacenters = {na}
  ReconnectDelay = 1
  ReconnectDelayMax = 1
  MaxForeign = 0
  MaxChanges = 1
INVARIANT
  BlindPollsFast
