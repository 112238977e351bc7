\* Two handlers overlap; a failure, a lost connection and a crash.
SPECIFICATION Spec
CONSTANTS
  Handlers = {h1, h2}
  None = none
  Unset = unset
  Blank = blank
  MaxTime = 2
  MaxCommands = 3
  MaxFaults = 1
  MaxDrops = 1
  MaxCrashes = 1
INVARIANT TypeOK
PROPERTY QuietIsFinal
SYMMETRY HandlerSymmetry
CHECK_DEADLOCK FALSE
