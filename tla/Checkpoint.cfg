CONSTANTS
  v1 = v1
  v2 = v2
  v3 = v3
  Voter = {v1, v2}
  Value = {1, 9}
  Tolerance = 5
  MinVotersRequired = 2
  MaxCheckpointSignatures = 3
  MinCheckpointSignatures = 2
  MaxProposals = 2
SPECIFICATION Spec
CHECK_DEADLOCK FALSE
INVARIANTS
  TypeOK
  
PROPERTIES
  
  WindowFinalizes
  
