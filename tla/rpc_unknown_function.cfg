CONSTANTS
  c1 = c1
  c2 = c2
  Calls = {c1, c2}
  Kind <- KindUnknown
  MaxCopies = 1
  Lossy = FALSE
  SyncSend = TRUE
  SendFailure = "never"
SPECIFICATION Spec
INVARIANTS UnknownFunctionIsReported
CHECK_DEADLOCK FALSE
