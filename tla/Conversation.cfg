CONSTANTS
  oA = oA
  oB = oB
  p1 = p1
  p2 = p2
  laptop = laptop
  copy = copy
  NoOrg = NoOrg
  Orgs <- OneOrg
  Procs <- TwoProcs
  MaxTurn = 3
  SeqOf <- CopiedSeq
  OrgOf <- CopiedOrg
  ProxyOf <- CopiedProxy
  Bad = {1}
  ScanLimit = 1
  MaxFaults = 1
SPECIFICATION Spec
INVARIANTS
  AckedStored
  ContiguousAccounted
  QuarantinedHasOwner
PROPERTIES
  ImplementsContract
SYMMETRY Symmetry
CHECK_DEADLOCK FALSE
