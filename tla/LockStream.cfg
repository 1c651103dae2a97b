\* Every kind of frame, a power cycle, re-deliveries and polls of one lock.
SPECIFICATION FairSpec
CONSTANTS
  ReorderWindow = 1
  PendingTimeout = 2
  SeenMax = 1
  BatteryLevels = {50, 49}
  Emits = {"lock", "action", "door", "setLock", "wifiState"}
  Starts <- FoundLocked
  Jitter = 1
  BootTime = 3
  FirstMid = 0
  StartMid = 1
  SteadyStart = TRUE
  BlindRedelivery = FALSE
  MaxSeq = 2
  MaxBoot = 1
  MaxClock = 4
INVARIANTS
  TypeOK
  NewestWins
  NoPointlessPending
  IInv
PROPERTIES
  Converges
  ImplementsDisplay
