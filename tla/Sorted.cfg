CONSTANTS
  B = 2
  Key <- ManyKeys
  Val = {1, 2}
  NodeId <- Addresses
  Nil = Nil
  Cmp <- TensCmp
  MaxLen = 30
  Starts <- SortedStarts
SPECIFICATION LimitedSpec
PROPERTIES
  ImplementsSortedMap
CHECK_DEADLOCK FALSE
