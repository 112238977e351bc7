\* Two callers and two republications over one entity; the connection is lost, Home
\* Assistant restarts and the process dies.
SPECIFICATION FairSpec
CONSTANTS
  Keys = {k}
  Values = {ON, OFF}
  Jobs = {j1, j2}
  Republishers = {p1, p2}
  None = none
  MaxCalls = 3
  MaxBreaks = 1
INVARIANTS
  TypeOK
  Removable
PROPERTIES
  InitSafe
  RedeclareKeeps
  RepublicationRepairs
  Reachable
CHECK_DEADLOCK FALSE
