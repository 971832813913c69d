CONSTANTS
  a = a
  b = b
  c = c
  d = d
  i1 = i1
  Nobody = Nobody
  Nara = {a, b, c, d}
  Journey = {i1}
  MaxRestarts = 1
SPECIFICATION Spec
INVARIANTS
  TypeOK
  CycleFree
  SuccessMeansHome
  OneOutcome
PROPERTIES
  EveryJourneyEnds
CHECK_DEADLOCK FALSE
