CONSTANTS
  Statements <- MCStatements
  Workflow   <- MCWorkflow
  Placeholders <- MCPlaceholders
  Formatted = "formatted"
  MaxStatements = 6
  MaxDepth = 1
SPECIFICATION Spec
INVARIANTS VariablesApart DefaultsStay
PROPERTIES RepliesAreData
CHECK_DEADLOCK FALSE
