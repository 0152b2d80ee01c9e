CONSTANTS
  Processes <- MCProcesses
  Program <- RiscProgram
  IsFlush = TRUE
  Cap = 2
  Instructions = 1
SPECIFICATION FairSpec
INVARIANTS
  Drained
  SomebodyRuns
  ProgramsFit
PROPERTY
  Termination
