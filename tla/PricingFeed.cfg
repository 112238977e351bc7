\* Two callers and one announcer; a fault or a restart.
SPECIFICATION FairSpec
CONSTANTS
  Callers = {c1, c2}
  Announcers = {a1}
  Prices <- SomePrices
  SlotLength = 2
  Day = 6
  Spike = 3
  MinExtremeDuration = 4
  None = none
  Missing = missing
  MaxSlots = 3
  MaxAlerts = 3
  MaxFaults = 1
INVARIANTS
  TypeOK
  NoEcho
  LevelsRankPrices
  WindowIsCheapest
  SummaryCoversDay
  RunIsFirst
  AnnouncementIsTrue
  PostponedStartIsBest
PROPERTY
  RequestRefreshes
CHECK_DEADLOCK FALSE
