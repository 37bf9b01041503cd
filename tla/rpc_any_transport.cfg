CONSTANTS
  c1 = c1
  c2 = c2
  Calls = {c1, c2}
  Kind <- KindUnknown
  MaxCopies = 2
  Lossy = TRUE
  SyncSend = FALSE
  SendFailure = "any"
SPECIFICATION Spec
INVARIANTS RepliesLandInFrames WakeFindsReply
CHECK_DEADLOCK FALSE
