CONSTANTS
  c1 = c1
  c2 = c2
  Calls = {c1, c2}
  Kind <- KindBadData
  MaxCopies = 2
  Lossy = TRUE
  SyncSend = TRUE
  SendFailure = "undelivered"
SPECIFICATION FairSpec
INVARIANTS ClientSafe NoLostWakeup OutcomeWasComputed
PROPERTIES ReplyStoredOnce ImplementsRpcSpec CallsReturn
CHECK_DEADLOCK FALSE
