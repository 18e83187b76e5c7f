CONSTANTS
  v1 = v1
  v2 = v2
  LiteLLM <- MCLiteLLM
  Bare <- Base
  KeyOrder <- MCKeyOrder
  History <- MCHistory
  Overrides <- MCOverrides
  Threshold = 2
  Pooled <- MCPooled
  OdsRows <- MCOdsRows
  Events = {"e1", "e2", "e3"}
  Control <- MCControl
  MaxTime = 2
  TTL = 1
  Size = 1
  MaxNow = 1
  QueueSize = 1
  MaxReplays = 1
  Releases = {v1, v2}
  MaxStarts = 3
SYMMETRY Symmetry
SPECIFICATION Spec
INVARIANTS
  TypeOK
  ServedWithinTTL
  BilledConfirmed
  TokensAudited
  PricedInForce
  UnpricedListed
  AtMostOneOpen
CHECK_DEADLOCK FALSE
