SPECIFICATION MCSpec
CONSTANTS
  Inf = 1000
  InverseEps = 2
  MaxItems = 7
  MaxReports = 2
  MaxValue = 4
  Scenes = {"nested", "logic", "hull", "quotient", "inner", "inclusive", "standalone"}
INVARIANTS
  GeneratedRowsAreExact
  PendingMatchesRecords
PROPERTIES
  SealedDisjunctsStay
CHECK_DEADLOCK FALSE
