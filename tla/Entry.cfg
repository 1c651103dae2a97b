\* One entry from its form to its removal.
SPECIFICATION FairSpec
CONSTANTS
  Writers = {"poll", "command", "flow"}
  Parts = {"tokenset", "datacenters", "devices"}
  MaxClicks = 2
  MaxFaults = 1
CHECK_DEADLOCK FALSE
INVARIANTS
  TypeOK
  TokensKept
  OneListener
  OneFace
PROPERTIES
  EntryComesUp
