\* Two Apps that may both be clients and of which one may stop reading; every
\* App command, a console reset with its key press, the end of stdin, a serial
\* line that hangs up.  The bounds on what the Apps, the coordinator and the
\* user send make every source but the clients fall silent in the end.
CONSTANTS
  App = {a1, a2}
  Stalling = {a1}
  Fd = {4, 5}
  Sock = {4, 5}
  MaxSocketNum = 2
  NwkAddr = {1}
  ExtAddr = {1}
  EmptyExtAddr = 0
  DevId = {0, 257}
  MaxNodeNum = 1
  SeqNumbers = 256
  Fates = {"whole"}
  Garbage = {0}
  AppCmds = {"query", "none", "bind", "group", "light", "level", "close"}
  Devices = {1}
  Answers = {"default", "nodes"}
  Words = {"sendresettofn", "eof"}
  SocMsg <- MCSocMsg
  AppMsg <- MCAppMsg
  Line <- MCLine
  HangUps = TRUE
  MaxSocMsgs = 1
  MaxAppMsgs = 1
  MaxLines = 2
SPECIFICATION FairSpec
INVARIANT ResetFollowsTouchlink
PROPERTIES DisconnectNoticed QueryAnswered
CHECK_DEADLOCK FALSE
