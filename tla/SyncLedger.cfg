CONSTANTS
  a = a
  b = b
  Nara <- MCNara
  Id <- MCId
  Universe <- MCUniverse
  MaxEvents = 3
  MaxPingsPerTarget = 2
  MaxObservationsPerPair = 2
  VersionLimit = 3
SPECIFICATION LedgerSpec
INVARIANTS
  LedgerTypeOK
  IndexMatchesLog
  PingsBounded
  OverCapOnlyRestarts
PROPERTIES
  
  OverflowOnlyBehindCritical
