\* As many pauses as the process has retries.  rspBuf holds the second message
\* exactly, but not the longest; of the lengths from the stack, one is that of a
\* round without a body, and one passes for a failed read.
CONSTANTS
  Message <- MCMessage
  Garbage = {0, 255}
  Stack <- MCStack
  EmptyReads = {"zero", "fails"}
  BufLen = 4
  HangUps = TRUE
  MaxMessages = 3
  MaxReceived = 3
  MaxPauses = 5
SPECIFICATION FairSpec
INVARIANT BufferHolds
PROPERTIES ReaderIsChannel EventuallyDelivered ReturnsToPoll
CHECK_DEADLOCK FALSE
