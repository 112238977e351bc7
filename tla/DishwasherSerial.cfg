\* One handler at a time; two failures, a lost connection and a crash.
SPECIFICATION FairSpec
CONSTANTS
  Handlers = {h1}
  None = none
  Unset = unset
  Blank = blank
  MaxTime = 3
  MaxCommands = 3
  MaxFaults = 2
  MaxDrops = 1
  MaxCrashes = 1
INVARIANTS
  CancelSticks
  StatesFollowMemory
PROPERTY PromiseKept
CHECK_DEADLOCK FALSE
