CONSTANTS
  Modes = {FALSE, TRUE}
  MaxClock = 3
  MaxEpisodes = 3
SPECIFICATION Spec
INVARIANTS
  TypeOK
  

  
CHECK_DEADLOCK FALSE
