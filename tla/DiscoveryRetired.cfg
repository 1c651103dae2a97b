\* The pinned datacenter is shut down.
SPECIFICATION FairSpec
CONSTANTS
  na = na
  sg = sg
  new = new
  front = front
  back = back
  poll = poll
  command = command
  Locks = {front}
  Codes = {na, sg}
  Builtin = {na, sg}
  Echoes = {}
  Discoverers = {poll}
  Lookups = {}
  Failures = {}
  MaxFailures = 0
  MaxMoves = 1
  MaxRetired = 1
PROPERTY
  RehomedIsFound
