\* Two Apps, two descriptors and a pool of one slot.
CONSTANTS
  App = {a1, a2}
  Stalling = {}
  Fd = {4, 5}
  Sock = {4, 5}
  MaxSocketNum = 1
  NwkAddr = {1, 2}
  ExtAddr = {1, 2}
  EmptyExtAddr = 0
  DevId = {0, 257}
  MaxNodeNum = 2
  SeqNumbers = 256
  Fates = {"whole"}
  Garbage = {0}
  AppCmds = {}
  Devices = {1}
  Answers = {}
  Words = {}
  SocMsg <- MCSocMsg
  AppMsg <- MCAppMsg
  Line <- MCLine
  HangUps = FALSE
  MaxSocMsgs = 1
  MaxAppMsgs = 0
  MaxLines = 0
SPECIFICATION Spec
INVARIANT AllConnectedGetReport
CHECK_DEADLOCK FALSE
