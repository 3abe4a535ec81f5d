\* Every command, in every sequence of three lines; a transaction counter that
\* wraps after two messages.
CONSTANTS
  SeqNumbers = 2
  Fates = {"whole"}
  Garbage = {0, 99}
  Line <- MCLine
  MaxLines = 3
  LongWords = {"sendresettofn", "setonoff"}
  Words = {"touchlink", "sendresettofn", "resettofn", "setonoff", "setlevel",
           "sethue", "setsat", "getstate", "getlevel", "gethue", "getsat",
           "getnodes", "addgroup", "setbind", "resetflash", "enddevbind",
           "selectlight", "exit"}
SPECIFICATION MCSpec
INVARIANTS CliTypeOK ParamsAreLastGiven NumbersIdentifyMessages
CHECK_DEADLOCK FALSE
