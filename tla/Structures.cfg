SPECIFICATION Spec
CONSTANTS
  NULL = NULL
  Block = {1, 2, 3}
  MaxBlockNum = 1
  PerBlock = 2
  PerArrayBlock = 2
  Value = {v1, v2}
  MaxListSize = 4
  KeySet = {k1, k2, k3}
  IndexCount = 2
  ElementCount = 2
  Hash1 <- MCHash
  HashWidth = 65536
  Sets = {A, B}
  Maps = {M}
  Data = {d1}
  NoData = NoData
  Blocks = 8
  Element = {1, 2, 3, 4, 5, 6, 7, 8, 9}
  Rank <- MCRank
  Size = 3
  Length = 8
  MaxCall = 8
  Room = {0, 2, 4, 8}
  k1 = k1
  k2 = k2
  k3 = k3
INVARIANTS
  ListsSound
  LookupsSound
PROPERTIES
  StructuresImplement
CHECK_DEADLOCK FALSE
