\* One pause more than the process has retries.
CONSTANTS
  Message <- MCMessage
  Garbage = {0, 1}
  Stack <- MCStack
  EmptyReads = {"zero", "fails"}
  BufLen = 4
  HangUps = FALSE
  MaxMessages = 2
  MaxReceived = 3
  MaxPauses = 6
SPECIFICATION FairSpec
PROPERTY EventuallyDelivered
CHECK_DEADLOCK FALSE
