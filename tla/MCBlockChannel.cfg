CONSTANTS
  B = 3
  Scripts <- MCScripts
SPECIFICATION FairSpec
INVARIANTS
  IInv
  Faithful
  PadStaysInBuffer
PROPERTIES
  ImplementsFifo
  FlushedArrives
