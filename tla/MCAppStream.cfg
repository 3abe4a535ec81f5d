\* A buffer as long as the longest command, which holds a light command and a
\* query together, and what is left in it of an earlier one.
CONSTANTS
  Command <- MCCommand
  Stack <- MCStack
  BufLen = 9
  Styles = {"paced", "whole", "cut"}
  MaxCommands = 3
SPECIFICATION StreamSpec
INVARIANT HandledTracesToWritten
PROPERTIES StreamIsMailbox EveryCommandHandled
CHECK_DEADLOCK FALSE
