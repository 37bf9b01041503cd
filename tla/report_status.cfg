CONSTANTS
  Reports <- MCReports
  Parent  <- MCParent
  Above   <- MCAbove
  Tasks   = {"root", "one"}
  Loggers = {"one", "deep"}
  None    = "none"
SPECIFICATION Spec
INVARIANTS
  CancelReaches
PROPERTIES
  FinalStays
  GuardsDecide
CHECK_DEADLOCK FALSE
