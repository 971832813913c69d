CONSTANTS
  a = a
  b = b
  Nara <- MCNara
  Id <- MCId
  Universe <- MCUniverse
  MaxEvents = 2
  MaxPingsPerTarget = 1
  MaxObservationsPerPair = 1
  VersionLimit = 2
SPECIFICATION Spec
INVARIANTS
  Exact
