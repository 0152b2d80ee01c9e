CONSTANTS
  N = 3
  SeedBits <- MCSeedBits
  M = 4
  Prime = 5
  Prg <- MCPrg
  FirstBytes <- MCFirstBytes
  Invert <- MCInvert
  RandomSeeds <- MCRandomSeeds
  RandomBits = {1}
  RandomWords = {1}
  Betas = {3}
  Kinds = {"Eq", "Eq_32", "Lt"}
SPECIFICATION Spec
INVARIANTS
  Agree
  PointEq
  LessThan
