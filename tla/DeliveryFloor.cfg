CONSTANTS
  oA = oA
  oB = oB
  p1 = p1
  p2 = p2
  NoOrg = NoOrg
  Orgs <- OneOrg
  OrgOf <- OneOrgOf
  Procs <- TwoProcs
  MaxSeq = 2
  Poison = {}
  ScanLimit = 1
  Ops = {"batch", "switch"}
  Faults = {}
  TrustClient = TRUE
SPECIFICATION Spec
INVARIANTS
  FloorHonoured
CHECK_DEADLOCK FALSE
