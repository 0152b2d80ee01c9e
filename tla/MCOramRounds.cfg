CONSTANTS
  Processes <- MCProcesses
  Program <- OramProgram
  IsFlush = TRUE
  Cap = 1
  Itr = 1
  Depth = 1
SPECIFICATION FairSpec
INVARIANTS
  TypeOK
  NoCrossTalk
  NothingDropped
  ProgramsFit
PROPERTY
  Termination
