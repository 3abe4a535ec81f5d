\* Two entries for four address pairs; one of the pairs marks an empty
\* entry and another shares its network address, as bytes from the serial
\* line may.  Three device identifiers, one of each device type.
CONSTANTS
  NwkAddr = {1, 65535}
  ExtAddr = {x1, ff}
  EmptyExtAddr = ff
  DevId = {0, 257, 769}
  MaxNodeNum = 2
  MaxAnnounced = 4
SPECIFICATION MCSpec
INVARIANTS NodeTypeOK NodesAreDistinct NothingForgotten TableIsFirstAnnouncements
PROPERTY NodesAreDirectory
CHECK_DEADLOCK FALSE
