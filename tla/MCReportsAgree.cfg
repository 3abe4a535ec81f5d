\* A switch joins and an App asks for the nodes.
CONSTANTS
  App = {a1}
  Stalling = {}
  Fd = {4}
  Sock = {4}
  MaxSocketNum = 1
  NwkAddr = {1, 2}
  ExtAddr = {1, 2}
  EmptyExtAddr = 0
  DevId = {0, 257}
  MaxNodeNum = 2
  SeqNumbers = 256
  Fates = {"whole"}
  Garbage = {0}
  AppCmds = {"query"}
  Devices = {1, 2}
  Answers = {}
  Words = {}
  SocMsg <- MCSocMsg
  AppMsg <- MCAppMsg
  Line <- MCLine
  HangUps = FALSE
  MaxSocMsgs = 2
  MaxAppMsgs = 1
  MaxLines = 0
SPECIFICATION Spec
INVARIANT ReportsAgree
CHECK_DEADLOCK FALSE
