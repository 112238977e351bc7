\* Two overlapping ticks, an acknowledgement, deletes, reuse of the id, one failure
\* and one crash.
SPECIFICATION Spec
CONSTANTS
  Alice = alice
  Bob = bob
  Users = {alice, bob}
  None = none
  Never = never
  Ids = {a}
  Tickers = {t1, t2}
  Ackers = {k1}
  Commands <- MCRaceCommands
  Preset <- MCShortPreset
  MaxTime = 3
  MaxCreates = 2
  MaxFaults = 1
  MaxCrashes = 1
INVARIANTS
  TypeOK
  RecordedFiresWereSent
  BudgetRespected
  TargetlessWereRemoved
PROPERTIES
  GoneIsFinal
  ImplementsBook
CHECK_DEADLOCK FALSE
