\* One worker at a time; two failures and a crash.
SPECIFICATION FairSpec
CONSTANTS
  Ids = {"bins", "tea", "Tea"}
  Slug <- MCSlug
  Slashed = {}
  Owners = {alice, bob}
  Targets = {alice}
  Workers = {w1}
  None = none
  MaxChanges = 3
  MaxFaults = 2
  MaxCrashes = 1
INVARIANTS
  TypeOK
  MapIsTrue
  MapFollowsRuntime
  SwitchActsForOwner
PROPERTIES
  StaleStateResolves
  GhostsGo
CHECK_DEADLOCK FALSE
