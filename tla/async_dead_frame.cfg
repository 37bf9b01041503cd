CONSTANTS
  Tasks    <- RaceTasks
  Shapes   <- RaceShapes
  Children <- MCChildren
SPECIFICATION Spec
INVARIANTS
  NoDeadFrame
CHECK_DEADLOCK FALSE
