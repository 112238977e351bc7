\* A lost MQTT connection makes the check cancel the schedule.
SPECIFICATION Spec
CONSTANTS
  Handlers = {h1}
  None = none
  Unset = unset
  Blank = blank
  MaxTime = 2
  MaxCommands = 1
  MaxFaults = 0
  MaxDrops = 1
  MaxCrashes = 0
PROPERTY CheckCancelsForUser
CHECK_DEADLOCK FALSE
