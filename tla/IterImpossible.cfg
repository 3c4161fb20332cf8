CONSTANTS
  B = 2
  Key <- Tens
  Val = {1}
  NodeId <- Addresses
  Nil = Nil
  Cmp <- MixedCmp
  Maps <- TwoLevels
  Query = {10, 20, 40}
SPECIFICATION Spec
PROPERTIES
  ImpossibleBoundsPanic
