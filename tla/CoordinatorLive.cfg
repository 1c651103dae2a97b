\* One lock on one WebSocket, and another client that displaces the session.
SPECIFICATION FairSpec
CONSTANTS
  na = na
  sg = sg
  Streams = {na}
  Datacenters = {na}
  ReconnectDelay = 1
  ReconnectDelayMax = 2
  MaxForeign = 1
  MaxChanges = 1
PROPERTIES
  MissedIsRepaired
  RealtimeReturns
  BackoffIsEarned
