SPECIFICATION Spec
CONSTANTS
  Writers = {"poll", "command", "flow"}
  Parts = {"tokenset", "datacenters", "devices"}
  MaxClicks = 1
  MaxFaults = 1
CHECK_DEADLOCK FALSE
INVARIANTS
  RemovedLeavesNothing
