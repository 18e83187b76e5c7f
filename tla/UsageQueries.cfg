CONSTANTS
  DayHours = 4
  DefaultDays = 4
  MaxDetailDays = 4
  Now = 22
  NoZone = NoZone
  None = None
  Malformed = Malformed
  Events <- MCEvents
  Seats <- MCSeats
  Requests <- MCRequests
  AuditPages <- MCAuditPages
  ModelLimit = 2
  RowLimit = 2
  MaxNow = 24
  FacetLimit = 2
SPECIFICATION Spec
INVARIANTS
  PagesLoseNothing
  BreakdownsAgree
  RequestCountedOnce
  DialectsAgree
  FacetsOfferAlternatives
  CallerScope
CHECK_DEADLOCK FALSE
