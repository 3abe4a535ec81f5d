----------------------------- MODULE AppStream -----------------------------
(***************************************************************************)
(* How processTcpCmd (src/gateway_forSDK/server.c) and app_cmdHandler      *)
(* (src/gateway_forSDK/appCmd.c) take commands from the bytes of one App's *)
(* connection: each recv() takes what has come, at most a buffer full, and *)
(* the handler looks at the buffer as if it held one command.  The rest of *)
(* the buffer is what the stack held before.                               *)
(*                                                                         *)
(* The pieces in which TCP brings the bytes are chosen by a style:         *)
(*   paced     the App waits until a command is taken and writes the next  *)
(*   whole     several commands may come together, no more than the buffer *)
(*             holds, and none is cut                                      *)
(*   cut       whatever TCP may do: it cuts anywhere, behind the start     *)
(*             byte of a command too, and any number of bytes may wait     *)
(***************************************************************************)
EXTENDS Integers, Sequences

CONSTANTS Command,       \* the commands the App writes, sequences of bytes
          Stack,         \* what the stack may hold where the buffer is
          BufLen,        \* MAX_APP_PACKET_LEN, the size of buf: 50
          Styles,        \* the styles considered
          MaxCommands    \* bound on the commands written

(* A buffer holds the longest command, level.                               *)
ASSUME BufLenAssumption == BufLen \in Nat /\ BufLen >= 9
ASSUME StackAssumption == \A old \in Stack : old \in Seq(0 .. 255) /\ Len(old) = BufLen
ASSUME StylesAssumption == Styles \subseteq {"paced", "whole", "cut"}

APP_CMD_SOF == 163    \* 0xA3
CMD_CLOSE   == 10

(* The bytes that the handler of a command reads, the first two included.   *)
BytesUsed(cmd) == CASE cmd = 5 -> 5      \* CMD_BIND
                    [] cmd = 6 -> 7      \* CMD_GROUP
                    [] cmd = 8 -> 6      \* CMD_LIGHT
                    [] cmd = 9 -> 9      \* CMD_LEVEL
                    [] OTHER   -> 2

(* An App writes every operand of a command.                                *)
ASSUME CommandAssumption ==
  \A c \in Command : /\ c \in Seq(0 .. 255) /\ Len(c) \in 2 .. 9
                     /\ Len(c) >= BytesUsed(c[2])
                     /\ c[1] = APP_CMD_SOF

VARIABLES conn,      \* "open", "ended" by the App, "closed", or "exited"
          style,
          text,      \* all the bytes written
          come,      \* how many of them have come
          arrived,   \* how many commands have come whole
          taken,     \* how many bytes recv() has taken
          looked,    \* history: how many commands had come at the last recv()
          written,   \* history: the commands written, each with the place of
                     \* its last byte in the text
          handled    \* history: the commands handled, as their handlers see
                     \* them, each with the place of the first byte of the
                     \* buffer and the bytes that recv() had brought

streamVars == <<conn, style, text, come, arrived, taken, looked, written, handled>>

StreamInit == /\ conn = "open" /\ style \in Styles
              /\ text = << >> /\ come = 0 /\ arrived = 0 /\ taken = 0
              /\ looked = 0 /\ written = << >> /\ handled = << >>

-----------------------------------------------------------------------------
(* The App and the network. *)
AppWrites(c) ==
  /\ conn = "open" /\ Len(written) < MaxCommands
  /\ style = "paced" => taken = Len(text)
  /\ text' = text \o c
  /\ written' = Append(written, [cmd |-> c, last |-> Len(text) + Len(c)])
  /\ UNCHANGED <<conn, style, come, arrived, taken, looked, handled>>

AppCloses == /\ conn = "open"
             /\ conn' = "ended"
             /\ UNCHANGED <<style, text, come, arrived, taken, looked, written, handled>>

(* The next command comes, or where it may be cut, some of what is left.    *)
Arrive ==
  /\ conn \in {"open", "ended"} /\ arrived < Len(written)
  /\ LET last == written[arrived + 1].last
     IN  \E c \in come + 1 .. last :
           /\ style # "cut" => c = last /\ c - taken <= BufLen
           /\ come' = c
           /\ arrived' = IF c = last THEN arrived + 1 ELSE arrived
  /\ UNCHANGED <<conn, style, text, taken, looked, written, handled>>

-----------------------------------------------------------------------------
FilteredNever(buf) == FALSE    \* fault: without the filter

Filtered(buf) == buf[1] # APP_CMD_SOF

Handled(buf, len) ==
  [cmd |-> SubSeq(buf, 1, BytesUsed(buf[2])), first |-> taken + 1, len |-> len]

(* Fault: checking the length against that of the heartbeat.                *)
app_cmdHandlerChecking(buf, len) ==
  IF Filtered(buf) \/ len < 3
  THEN UNCHANGED <<conn, handled>>
  ELSE /\ handled' = Append(handled, Handled(buf, len))
       /\ conn' = IF buf[2] = CMD_CLOSE THEN "exited" ELSE conn

(* len is not looked at.                                                    *)
app_cmdHandler(buf, len) ==
  IF Filtered(buf)
  THEN UNCHANGED <<conn, handled>>
  ELSE /\ handled' = Append(handled, Handled(buf, len))
       /\ conn' = IF buf[2] = CMD_CLOSE THEN "exited" ELSE conn

BytesReceivedFew == IF come - taken < 6 THEN come - taken ELSE 6    \* fault

BytesReceived == IF come - taken < BufLen THEN come - taken ELSE BufLen

(* poll() has found the connection readable. *)
processTcpCmd ==
  /\ conn \in {"open", "ended"}
  /\ \/ /\ taken < come
        /\ \E old \in Stack :
             app_cmdHandler(SubSeq(text, taken + 1, taken + BytesReceived)
                              \o SubSeq(old, BytesReceived + 1, BufLen),
                            BytesReceived)
        /\ taken' = taken + BytesReceived
        /\ looked' = arrived
     \/ /\ taken = Len(text) /\ conn = "ended"
        /\ conn' = "closed"
        /\ UNCHANGED <<taken, looked, handled>>
  /\ UNCHANGED <<style, text, come, arrived, written>>

StreamNext == \/ processTcpCmd \/ Arrive \/ AppCloses
              \/ \E c \in Command : AppWrites(c)

(* The process is scheduled, and the network brings what was written.       *)
StreamSpec == /\ StreamInit /\ [][StreamNext]_streamVars
              /\ WF_streamVars(processTcpCmd) /\ WF_streamVars(Arrive)

-----------------------------------------------------------------------------
(* Where no command is cut, the connection is the mailbox that Gateway      *)
(* takes it for: of the commands that come together the first is handled,   *)
(* with its own operands, and never a piece of another.                     *)
Uncut == style \in {"paced", "whole"}

Seen(c) == SubSeq(c, 1, BytesUsed(c[2]))

(* The commands that have come since the last recv().                       *)
Waiting == [k \in 1 .. arrived - looked |-> Seen(written[looked + k].cmd)]

Taken == [k \in 1 .. Len(handled) |-> handled[k].cmd]

MailboxOf == INSTANCE Mailbox
               WITH Item  <- {Seen(c) : c \in Command},
                    box   <- IF Uncut THEN Waiting ELSE << >>,
                    taken <- IF Uncut THEN Taken ELSE << >>

StreamIsMailbox == MailboxOf!Spec

(* Where what a handler gets comes from.  Either the buffer begins with a   *)
(* command written, and as far as its bytes had come the handler sees that  *)
(* command, although others may stand behind it; or it begins within a      *)
(* command, which has been cut, at a byte that looks like a start byte.     *)
First(w) == w.last - Len(w.cmd) + 1

BeginsWith(h, w) ==
  /\ h.first = First(w)
  /\ \A k \in 1 .. Len(h.cmd) : k <= h.len => h.cmd[k] = w.cmd[k]

BeginsWithin(h, w) ==
  /\ h.first \in First(w) + 1 .. w.last
  /\ w.cmd[h.first - First(w) + 1] = APP_CMD_SOF

(* So a command that no App wrote is handled only where a recv() found a    *)
(* start byte alone, or a piece of a command that begins like one: the      *)
(* filter drops every other piece.  And no byte is handled twice, nor out   *)
(* of its order.                                                            *)
HandledTracesToWritten ==
  /\ \A k \in 1 .. Len(handled) : \E n \in 1 .. Len(written) :
       BeginsWith(handled[k], written[n]) \/ BeginsWithin(handled[k], written[n])
  /\ \A j, k \in 1 .. Len(handled) :
       j < k => handled[j].first + handled[j].len <= handled[k].first

(* An App that waits for each of its commands to be taken loses none,       *)
(* whatever their lengths, and although it closes its end after the last.   *)
EveryCommandHandled ==
  \A n \in 1 .. MaxCommands :
    style = "paced" /\ Len(written) >= n ~> Len(handled) >= n \/ conn = "exited"
=============================================================================
