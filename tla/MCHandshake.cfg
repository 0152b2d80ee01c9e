SPECIFICATION HFairSpec
CONSTANTS
  N = 5
  Numberings <- MCNumberings
INVARIANTS
  Crosswise
  NoClash
  NeverStuck
PROPERTY
  HTermination
