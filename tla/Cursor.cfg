CONSTANTS
  B = 3
  Key <- Tens
  Val = {1, 2}
  NodeId <- Addresses
  Nil = Nil
  Cmp <- MixedCmp
  Query <- Queries
  MaxLen = 37
  Maps <- VariedMaps
  MaxCalls = 4
SPECIFICATION OrderlySpec
INVARIANTS
  CurrentInTree
  EditsKeepShape
  PeeksAreNeighbours
PROPERTIES
  ImplementsCursor
  SeekFindsBound
CHECK_DEADLOCK FALSE
