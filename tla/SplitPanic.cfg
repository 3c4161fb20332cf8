CONSTANTS
  B = 3
  Key <- Tens
  Val = {1}
  NodeId <- MoreAddresses
  Nil = Nil
  Cmp <- MixedCmp
  Maps <- ThreeMaps
  Query <- Tens
SPECIFICATION FewKeysSpec
INVARIANTS
  LengthAfterPanic
CHECK_DEADLOCK FALSE
