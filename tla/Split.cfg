CONSTANTS
  B = 3
  Key <- Tens
  Val = {1}
  NodeId <- MoreAddresses
  Nil = Nil
  Cmp <- MixedCmp
  Maps <- ThreeMaps
  Query <- Tens
SPECIFICATION FewKeysSpec
INVARIANTS
  TwoTrees
  ContentsKept
  BothLegal
  BothCounted
  BorderAsserts
PROPERTIES
  CutAtKey
CHECK_DEADLOCK FALSE
