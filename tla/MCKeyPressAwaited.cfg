\* Two resets in a row, with the Enter key or a longer line for the first.
CONSTANTS
  SeqNumbers = 256
  Fates = {"whole"}
  Garbage = {0}
  Line <- MCLine
  MaxLines = 4
  Words = {"sendresettofn"}
  LongWords = {}
SPECIFICATION MCSpec
INVARIANT KeyPressAwaited
CHECK_DEADLOCK FALSE
