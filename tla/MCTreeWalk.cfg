CONSTANTS
  W = 64
  Random <- MCRandom
  LeafSeed <- MCLeafSeed
  Factor <- MCFactor
  Prime <- MCPrime
  Nodes = 6
  Feats = 4
  Deep = 4
  Trees <- MCTrees
  Datas <- MCDatas
  Seeds = {0, 1}
  Owner = 2
SPECIFICATION FairSpec
INVARIANTS
  SelectsOne
  ChoosesOne
  InStep
PROPERTY
  Termination
