\* Three Apps, any of which may stop reading, for two slots of the pool and
\* three descriptors; two devices, and the answer of a group.
CONSTANTS
  App = {a1, a2, a3}
  Stalling = {a1, a2, a3}
  Fd = {4, 5, 6}
  Sock = {4, 5, 6}
  MaxSocketNum = 2
  NwkAddr = {1, 2}
  ExtAddr = {1, 2}
  EmptyExtAddr = 0
  DevId = {0, 257}
  MaxNodeNum = 2
  SeqNumbers = 256
  Fates = {"whole"}
  Garbage = {0}
  AppCmds = {"query"}
  Devices = {1, 2}
  Answers = {"add group"}
  Words = {}
  SocMsg <- MCSocMsg
  AppMsg <- MCAppMsg
  Line <- MCLine
  HangUps = FALSE
  MaxSocMsgs = 2
  MaxAppMsgs = 2
  MaxLines = 0
SPECIFICATION Spec
INVARIANTS TypeOK PoolIsOpen NoStaleDescriptor
PROPERTY GatewayIsBroadcaster
SYMMETRY Clients
CHECK_DEADLOCK FALSE
