CONSTANTS
  B = 2
  Key = {1}
  Val = {1}
  NodeId <- Addresses
  Nil = Nil
  Cmp <- ChaosCmp
  MaxLen = 30
  Starts <- ChaosStarts
SPECIFICATION FairLimitedSpec
INVARIANTS
  TypeOK
  ParentLinks
  HeightsUniform
  NodeLens
  AssertsHold
  LengthExact
PROPERTIES
  TrackedLeafKept
  CallsReturn
