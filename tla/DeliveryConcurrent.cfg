CONSTANTS
  oA = oA
  oB = oB
  p1 = p1
  p2 = p2
  NoOrg = NoOrg
  Orgs <- MCOrgs
  OrgOf <- MCOrgOf
  Procs <- TwoProcs
  MaxSeq = 2
  Poison = {}
  ScanLimit = 1
  Ops = {"batch", "gaps", "confirm", "switch", "promote"}
  Faults = {"tx"}
  TrustClient = TRUE
SPECIFICATION Spec
INVARIANTS
  PruneSafe
  ContiguousAccounted
  FloorRecorded
  TerminatedNotLost
PROPERTIES
  HighWatersMonotone
  ImplementsContract
  LossIsGenuine
SYMMETRY Symmetry
CHECK_DEADLOCK FALSE
