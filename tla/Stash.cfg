CONSTANTS
  Peer = {a, b}
  Stranger = {s}
  Target = 1
  Limit = 1
  MaxCalls = 3
  MaxVersions = 1
  MaxRestarts = 1
  MaxPushes = 1
SPECIFICATION StashSpec
INVARIANTS
  StashTypeOK
  ReaperNeverBlocks
  
  ConfidantsAccepted
PROPERTIES
  CallsAreServed
  
CHECK_DEADLOCK FALSE
