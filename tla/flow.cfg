CONSTANTS
  Programs <- SomePrograms
  Body <- BodyOf
  Signature <- Signatures
  MaxLoop = 2
SPECIFICATION FairSpec
INVARIANTS ScopesMatchFrames NamesAreOwn
PROPERTIES ReturnEnds CallersUntouched Terminates
CHECK_DEADLOCK FALSE
