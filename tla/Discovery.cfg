\* A poll and a lookup discover at once, over a mirror, every kind of failure and a moving lock.
SPECIFICATION FairSpec
CONSTANTS
  na = na
  sg = sg
  new = new
  front = front
  back = back
  poll = poll
  command = command
  Locks = {front, back}
  Codes = {na, sg, new}
  Builtin = {na, sg}
  Echoes = {na}
  Discoverers = {poll, command}
  Lookups = {command}
  Failures = {"error", "refused", "escape"}
  MaxFailures = 1
  MaxMoves = 1
  MaxRetired = 1
INVARIANTS
  TypeOK
  LiveCopyWins
PROPERTIES
  EmptyOnlyAfterFullScan
  LostOnlyWhileOthersShow
  ImplementsList
