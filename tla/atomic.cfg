CONSTANTS
  t1 = t1
  t2 = t2
  Objects = {1, 2}
  Threads = {t1, t2}
  Values = {0, 1, 2}
  Edited <- Increment
  MovedFrom = 0
  Shareable = TRUE
  Kinds = {"read", "edit", "copy", "moveAssign", "moveCtor"}
  OwnedMoves = TRUE
  MaxOps = 2
SPECIFICATION FairSpec
INVARIANTS NoDeadlock AccessIsProtected
PROPERTIES ImplementsAtomicSpec OperationsReturn
CHECK_DEADLOCK FALSE
