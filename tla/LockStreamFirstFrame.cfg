\* msgId starts at 0, as the documents say: the first frame has no usable msgId.
SPECIFICATION Spec
CONSTANTS
  ReorderWindow = 1
  PendingTimeout = 2
  SeenMax = 3
  BatteryLevels = {50}
  Emits = {"lock", "action"}
  Starts <- FoundLocked
  Jitter = 1
  BootTime = 3
  FirstMid = 0
  StartMid = 0
  SteadyStart = FALSE
  BlindRedelivery = FALSE
  MaxSeq = 2
  MaxBoot = 0
  MaxClock = 2
INVARIANT
  NewestWins
