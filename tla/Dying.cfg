CONSTANTS
  B = 2
  Key = {1}
  Val = {1}
  NodeId <- Addresses
  Nil = Nil
  Maps <- SmallMaps
SPECIFICATION FairSpec
INVARIANTS
  NothingFreedEarly
  EverythingDropped
PROPERTIES
  EachElementOnce
  DropEnds
CHECK_DEADLOCK FALSE
