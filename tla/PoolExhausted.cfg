CONSTANTS
  Zips = {z1, z2}
  Lists = {l1, l2}
  PoolSize = 2
  MaxSessions = 2
SPECIFICATION FairSpec
PROPERTIES
  RequestsEnd
CHECK_DEADLOCK FALSE
