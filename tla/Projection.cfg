CONSTANTS
  seatA = seatA
  seatB = seatB
  pool = pool
  solo = solo
  NoSubject = NoSubject
  N = 3
  BatchSize = 2
  DeadLetterThreshold = 2
  MaxFaults = 2
  Canary = {}
  Quarantined = {}
  Seat <- MCSeat
  Day <- MCDay
  Month <- MCMonth
  Week <- MCWeek
  Usage <- MCUsage
  Subjects <- MCSubjects
  Members <- MCMembers
  Rules <- MCRules
  InitiallyEnabled = {solo}
SPECIFICATION Spec
INVARIANTS
  DeadLetterEarned
  CountersCurrent
  AlertedAtMostOnce
  AlertedAtLeastOnce
CHECK_DEADLOCK FALSE
