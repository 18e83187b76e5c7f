CONSTANTS
  Zips = {z1, z2}
  Lists = {l1, l2}
  PoolSize = 3
  MaxSessions = 2
SPECIFICATION FairSpec
INVARIANTS
  NobodyStuck
PROPERTIES
  RequestsEnd
CHECK_DEADLOCK FALSE
