CONSTANTS
  Tasks    <- MCTasks
  Shapes   <- MCShapes
  Children <- MCChildren
SPECIFICATION Spec
INVARIANTS
  ContinuesInTime
  FirstWins
  NothingLeftWaiting
  EndedIsSwept
  WaiterGetsOutcome
PROPERTIES
  PoolDrains
  WaiterReturns
CHECK_DEADLOCK FALSE
