CONSTANTS
  L = 4
  IntBits = 3
  P = 7
  Rand = 3
  Prec = 1
  Delta = 3
  Memories <- MCMemories
  Values = {2}
  Factors = {1, 5}
  MaxRegs = 3
SPECIFICATION Spec
INVARIANTS
  ProductRight
  TruncNear
  SignTells
  FoldTells
