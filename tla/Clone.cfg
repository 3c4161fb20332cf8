CONSTANTS
  B = 2
  Key <- Twenties
  Val = {1}
  NodeId <- MoreAddresses
  Nil = Nil
  Maps <- VariedMaps
SPECIFICATION Spec
INVARIANTS
  SourceKept
  UnfinishedMapsSound
  CloneEqualsSource
CHECK_DEADLOCK FALSE
