CONSTANTS
  Processes <- TwoPlayers
  Program <- MultProgram
  IsFlush = TRUE
  Cap = 1
SPECIFICATION FairSpec
INVARIANT
  NoCrossTalk
CHECK_DEADLOCK FALSE
