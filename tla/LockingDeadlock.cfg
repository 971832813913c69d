CONSTANTS
  Nobody = Nobody
  Goroutine <- MCPair
  Handlers <- MCPairHandlers
SPECIFICATION FairSpec
PROPERTIES
  SocialMaintenanceGoesOn
CHECK_DEADLOCK FALSE
