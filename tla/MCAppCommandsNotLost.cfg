\* Two light commands of one App.
CONSTANTS
  App = {a1}
  Stalling = {}
  Fd = {4}
  Sock = {4}
  MaxSocketNum = 1
  NwkAddr = {1, 2}
  ExtAddr = {1, 2}
  EmptyExtAddr = 0
  DevId = {0, 257}
  MaxNodeNum = 2
  SeqNumbers = 256
  Fates = {"whole"}
  Garbage = {0}
  AppCmds = {"light"}
  Devices = {}
  Answers = {}
  Words = {}
  SocMsg <- MCSocMsg
  AppMsg <- MCAppMsg
  Line <- MCLine
  HangUps = FALSE
  MaxSocMsgs = 0
  MaxAppMsgs = 2
  MaxLines = 0
SPECIFICATION Spec
INVARIANT AppCommandsNotLost
CHECK_DEADLOCK FALSE
