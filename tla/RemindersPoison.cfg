\* One reminder with an empty message ends the tick for all.
SPECIFICATION Spec
CONSTANTS
  Alice = alice
  Bob = bob
  Users = {alice}
  None = none
  Never = never
  Ids = {a, b}
  Tickers = {t1}
  Ackers = {k1}
  Commands <- MCPoisonCommands
  Preset <- MCPreset
  MaxTime = 2
  MaxCreates = 1
  MaxFaults = 0
  MaxCrashes = 0
PROPERTY TickEvaluatesAll
CHECK_DEADLOCK FALSE
