CONSTANTS
  Programs <- LoopPrograms
  Body <- BodyOf
  Signature <- Signatures
  MaxLoop = 2
SPECIFICATION Spec
INVARIANTS BreakStaysInLoop
CHECK_DEADLOCK FALSE
