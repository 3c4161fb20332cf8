CONSTANTS
  B = 2
  Key <- Twenties
  Val = {1}
  NodeId <- Addresses
  Nil = Nil
  Cmp <- ChaosCmp
  MaxLen = 20
  Maps <- SmallMaps
SPECIFICATION FairDrainSpec
INVARIANTS
  EachAskedOnce
  DrainKeepsShape
  LengthLive
PROPERTIES
  DrainEnds
CHECK_DEADLOCK FALSE
