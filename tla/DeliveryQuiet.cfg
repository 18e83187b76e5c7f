CONSTANTS
  oA = oA
  oB = oB
  p1 = p1
  p2 = p2
  NoOrg = NoOrg
  Orgs <- MCOrgs
  OrgOf <- MCOrgOf
  Procs <- OneProc
  MaxSeq = 3
  Poison = {}
  ScanLimit = 1
  Ops = {"batch", "promote"}
  Faults = {}
  TrustClient = TRUE
SPECIFICATION FairSpec
PROPERTIES
  QuietKnownAccounted
CHECK_DEADLOCK FALSE
