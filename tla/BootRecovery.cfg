CONSTANTS
  a = a
  b = b
  Neighbour = {a, b}
  Me = me
  ShortMemory = {b}
  Universe <- MCUniverse
  Ledgers <- MCLedgers
  Personality <- MCPersonality
  CallsNeeded = 3
  SampleSize = 2
  EventsPerSlice = 4
  PageSize = 1
  RecentLimit = 2
  RecentSince = 2
  MaxConcurrent = 2
  MaxMeshNeighbours = 2
  MaxMQTTNeighbours = 2
  TargetSuccessfulFetches = 1
  MaxNews = 1
SPECIFICATION Spec
INVARIANTS
  TypeOK
  RespondersRemembered
  SlicesComplete
  PagesComplete
PROPERTIES
  RecoveryEnds
CHECK_DEADLOCK FALSE
