\* One tick at a time, ids created once, no failure.
SPECIFICATION FairSpec
CONSTANTS
  Alice = alice
  Bob = bob
  Users = {alice}
  None = none
  Never = never
  Ids = {a, b}
  Tickers = {t1}
  Ackers = {k1}
  Commands <- MCSerialCommands
  Preset <- MCPreset
  MaxTime = 4
  MaxCreates = 1
  MaxFaults = 0
  MaxCrashes = 0
INVARIANTS
  ExactAccounting
  EscalationHonoured
PROPERTY EventuallyFires
CHECK_DEADLOCK FALSE
