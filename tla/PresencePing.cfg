CONSTANTS
  Modes = {FALSE, TRUE}
  MaxClock = 3
  MaxEpisodes = 2
SPECIFICATION Spec
PROPERTIES
  MissingOnlyAfterPing
CHECK_DEADLOCK FALSE
