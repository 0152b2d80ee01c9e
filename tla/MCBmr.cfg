CONSTANTS
  NumPlayers = 2
  NumWire = 6
  InSize = 2
  OutSize = 1
  Gates <- MCGates
  Lens = 1
  Stride = 4
  BlockBytes = 16
  Holder <- MCHolder
  MaskChoices <- MCMasks
  InputChoices <- MCInputs
  Modes = {"held", "shared"}
SPECIFICATION FairSpec
INVARIANTS
  NeverCorrupted
  SharedOutput
PROPERTY
  Termination
