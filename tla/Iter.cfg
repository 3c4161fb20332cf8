CONSTANTS
  B = 2
  Key <- Tens
  Val = {1}
  NodeId <- Addresses
  Nil = Nil
  Cmp <- MixedCmp
  Maps <- IterMaps
  Query <- Queries
SPECIFICATION Spec
INVARIANTS
  EndsAgree
PROPERTIES
  ImplementsIterator
  RangeWithinBounds
