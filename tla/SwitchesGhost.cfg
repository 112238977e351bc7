\* A removal that fails is never tried again.
SPECIFICATION FairSpec
CONSTANTS
  Ids = {"bins"}
  Slug <- MCSlug
  Slashed = {}
  Owners = {alice}
  Targets = {alice}
  Workers = {w1}
  None = none
  MaxChanges = 2
  MaxFaults = 1
  MaxCrashes = 0
PROPERTY SwitchesDisappear
CHECK_DEADLOCK FALSE
