CONSTANTS
  seatA = seatA
  seatB = seatB
  pool = pool
  solo = solo
  NoSubject = NoSubject
  N = 4
  BatchSize = 2
  DeadLetterThreshold = 2
  MaxFaults = 2
  Canary = {3}
  Quarantined = {4}
  Seat <- MCSeat
  Day <- MCDay
  Month <- MCMonth
  Week <- MCWeek
  Usage <- MCUsage
  Subjects <- SoloOnly
  Members <- MCMembers
  Rules <- MCRules
  InitiallyEnabled = {solo}
SPECIFICATION FairSpec
INVARIANTS
  ProjectedExactly
PROPERTIES
  EverySettles
CHECK_DEADLOCK FALSE
