CONSTANTS
  B = 3
  Key <- Keys
  Val = {1, 2}
  NodeId <- Addresses
  Nil = Nil
  Cmp <- MixedCmp
  Given <- ThreeGiven
SPECIFICATION Spec
INVARIANTS
  AlwaysDroppable
  ResultLegal
  PlentifulAsserts
  BothMerged
  IsUnion
CHECK_DEADLOCK FALSE
