CONSTANTS
  L = 3
  W = 16
  V = 4
  Itr = 2
  Deals <- MCDeals
  Lists <- MCLists
  Splits <- MCSplits
  Payloads = {3}
  Random = {1}
SPECIFICATION Spec
INVARIANTS
  TypeOK
  Replicas
  RInv
  OrgIsCurrent
PROPERTY
  ImplementsMemory
