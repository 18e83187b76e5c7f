CONSTANTS
  Records <- MCRecords
  Requests <- MCRequests
  DefaultLimit = 1
  MaxLimit = 2
  TurnLimit = 1
  MaxSeatKeys = 1
  DayLength = 2
  SafeChars = {1, 2, 11, 12, 20}
  Underscore = 20
  Lower <- MCLower
  Unbounded = Unbounded
  Malformed = Malformed
SPECIFICATION Spec
INVARIANTS
  PagesLoseNothing
  TenantScope
  ViewsAgree
  ZipComplete
CHECK_DEADLOCK FALSE
