CONSTANTS
  Processes <- MCProcesses
  Program <- OramProgram
  IsFlush = FALSE
  Cap = 1
  Itr = 1
  Depth = 1
SPECIFICATION FairSpec
PROPERTY
  Termination
CHECK_DEADLOCK FALSE
