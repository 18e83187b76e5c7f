CONSTANTS
  oA = oA
  oB = oB
  p1 = p1
  p2 = p2
  NoOrg = NoOrg
  Orgs <- OneOrg
  OrgOf <- OneOrgOf
  Procs <- OneProc
  MaxSeq = 3
  Poison = {3}
  ScanLimit = 2
  Ops = {"batch", "gaps", "confirm", "switch", "promote"}
  Faults = {"tx", "event", "reply", "restart", "statement"}
  TrustClient = FALSE
SPECIFICATION Spec
INVARIANTS
  LedgerBounded
  FloorRecorded
  TerminatedNotLost
CHECK_DEADLOCK FALSE
