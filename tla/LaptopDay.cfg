\* An evening, a night and the critical hours, with one event and one failure.
SPECIFICATION Spec
CONSTANTS
  HourLength = 2
  DayHours = 8
  StartHour = 6
  TotalDuration = 2
  WindowSize = 8
  CriticalHoursStart = 2
  CriticalHoursEnd = 6
  DrainRate = 6
  Full = 12
  Healthy = 7
  MinBatteryPercent = 3
  PreChargeHours = 1
  Unit = 1
  Drain = 2
  Charge = 3
  AwayLimit = 2
  Horizon = 15
  PriceDays <- SomeDays
  Today = 4
  Unknown = unknown
  MaxEvents = 1
  MaxFaults = 1
INVARIANTS
  TypeOK
  NeverEmpty
  AwayIsOff
  OneLateCommand
  NightIsUsed
CHECK_DEADLOCK FALSE
