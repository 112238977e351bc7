\* A tick that holds a copy undoes a delete.
SPECIFICATION Spec
CONSTANTS
  Alice = alice
  Bob = bob
  Users = {alice}
  None = none
  Never = never
  Ids = {a}
  Tickers = {t1}
  Ackers = {k1}
  Commands <- MCSerialCommands
  Preset <- MCPreset
  MaxTime = 2
  MaxCreates = 1
  MaxFaults = 0
  MaxCrashes = 0
PROPERTY RemovedStaysRemoved
CHECK_DEADLOCK FALSE
