CONSTANTS
  v1 = v1
  v2 = v2
  v3 = v3
  Voter = {v1, v2, v3}
  Value = {1, 4, 9}
  Tolerance = 5
  MinVotersRequired = 2
  MaxCheckpointSignatures = 3
  MinCheckpointSignatures = 2
  MaxProposals = 1
SPECIFICATION Spec
CHECK_DEADLOCK FALSE
INVARIANTS
  OneCheckpointPerProposal
  
