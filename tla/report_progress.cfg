CONSTANTS
  Reports <- MCReports
  Parent  <- MCParent
  Subs    <- MCSubs
  Weight  <- MCWeight
  Values  <- MCValues
  None    = "none"
SPECIFICATION Spec
INVARIANTS
  TypeOK
  SettledIsMean
  NeverAhead
PROPERTIES
  NeverBack
  CallsReturn
CHECK_DEADLOCK FALSE
