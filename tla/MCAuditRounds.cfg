CONSTANTS
  Processes <- ThreePlayers
  Program <- ReluProgram
  IsFlush = TRUE
  Cap = 1
SPECIFICATION FairSpec
INVARIANTS
  NoCrossTalk
  ProgramsFit
PROPERTY
  Termination
