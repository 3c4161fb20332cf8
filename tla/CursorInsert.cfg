CONSTANTS
  B = 2
  Key <- Tens
  Val = {1}
  NodeId <- Addresses
  Nil = Nil
  Cmp <- MixedCmp
  Query <- Queries
  MaxLen = 20
  Maps <- OneInternal
  MaxCalls = 3
SPECIFICATION FewCallsSpec
INVARIANTS
  MisplacedKeyPanics
CHECK_DEADLOCK FALSE
