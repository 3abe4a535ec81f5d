----------------------------- MODULE SocReader -----------------------------
(***************************************************************************)
(* How processSocCmd (src/gateway_forSDK/socCmd.c) takes a message of the  *)
(* coordinator from the bytes of the serial line: a start byte, a length   *)
(* and a body, read without blocking while the bytes still arrive.         *)
(*                                                                         *)
(* Outcomes of undefined reads are choices here: what an uninitialised     *)
(* start or length byte holds, what rspBuf holds where nothing was read    *)
(* into it, and, for the control characters of the terminal that socOpen   *)
(* never sets, whether read() without data returns 0 or fails.  On a line  *)
(* that has hung up, it returns 0.                                         *)
(***************************************************************************)
EXTENDS Integers, Sequences

CONSTANTS Message,      \* the bodies of the messages, sequences of bytes
          Garbage,      \* what an uninitialised u8 may hold
          Stack,        \* what rspBuf may hold behind its first byte
          EmptyReads,   \* what read() without data may do
          BufLen,       \* the size of rspBuf: 50
          HangUps,      \* whether the line may hang up
          MaxMessages,  \* bound on the messages sent
          MaxReceived,  \* bound on the messages found on a hung-up line
          MaxPauses     \* bound on the pauses within messages

ASSUME EmptyReadsAssumption == EmptyReads \subseteq {"zero", "fails"}
ASSUME BufLenAssumption == BufLen \in 3 .. 255
ASSUME MessageAssumption == \A m \in Message : m \in Seq(0 .. 255) /\ Len(m) <= 255
ASSUME GarbageAssumption == Garbage \subseteq 0 .. 255
ASSUME StackAssumption == Stack \subseteq Seq(0 .. 255)

SOF == 254    \* 0xFE

VARIABLES pc,             \* "poll", "len", "body", "sleep", or "overrun" when
                          \* bytes were written behind rspBuf: what the process
                          \* does then is undefined, and nothing is said of it
          rspLen,         \* the bytes of the body still to read
          rspBuf,         \* the length byte and the bytes read after it
          retryAttempts,  \* static: the failed reads of the whole process
          emptyRead,      \* whether read() without data returns "zero" or "fails"
          line,           \* the bytes that have arrived and are not read
          hungUp,         \* whether the line has hung up
          wire,           \* the rests of the messages that are on their way
          headersWhole,   \* whether no pause ever follows a start byte
          pauses,         \* how many pauses there have been
          sentMsgs,       \* history: the messages sent
          received        \* history: the messages that reached the switch

readerVars == <<pc, rspLen, rspBuf, retryAttempts, emptyRead, received>>
lineVars   == <<hungUp, wire, headersWhole, pauses, sentMsgs>>
vars       == <<readerVars, line, lineVars>>

Init == /\ pc = "poll" /\ rspLen = 0 /\ rspBuf = << >> /\ retryAttempts = 0
        /\ emptyRead \in EmptyReads
        /\ headersWhole \in BOOLEAN
        /\ hungUp = FALSE /\ line = << >> /\ wire = << >> /\ pauses = 0
        /\ sentMsgs = << >> /\ received = << >>

-----------------------------------------------------------------------------
(* The coordinator and the line. *)
Send(m) == /\ Len(sentMsgs) < MaxMessages /\ ~ hungUp
           /\ wire' = Append(wire, <<SOF, Len(m)>> \o m)
           /\ sentMsgs' = Append(sentMsgs, m)
           /\ UNCHANGED <<readerVars, line, hungUp, headersWhole, pauses>>

AtStart(rest) == rest[1] = SOF

(* The next bytes arrive: the rest of the message, or a part of it.         *)
Arrive ==
  /\ wire # << >>
  /\ \E k \in 1 .. Len(Head(wire)) :
       /\ line' = line \o SubSeq(Head(wire), 1, k)
       /\ IF k = Len(Head(wire))
          THEN wire' = Tail(wire) /\ UNCHANGED pauses
          ELSE /\ pauses < MaxPauses
               /\ headersWhole => k # 1 \/ ~ AtStart(Head(wire))
               /\ wire' = [wire EXCEPT ![1] = SubSeq(@, k + 1, Len(@))]
               /\ pauses' = pauses + 1
  /\ UNCHANGED <<readerVars, hungUp, headersWhole, sentMsgs>>

(* The line hangs up, and what has not been read of it is lost.             *)
HangUp == /\ HangUps /\ ~ hungUp
          /\ hungUp' = TRUE
          /\ line' = << >> /\ wire' = << >>
          /\ UNCHANGED <<readerVars, headersWhole, pauses, sentMsgs>>

-----------------------------------------------------------------------------
(* poll() has found the line readable, or hung up; nobody looks at the      *)
(* result of this read() and the next.                                      *)
ReadSof ==
  /\ pc = "poll"
  /\ \/ /\ line # << >>
        /\ pc' = IF Head(line) = SOF THEN "len" ELSE "poll"
        /\ line' = Tail(line)
     \/ line = << >> /\ hungUp /\ pc' \in {"len", "poll"} /\ UNCHANGED line
        /\ Len(received) < MaxReceived
  /\ UNCHANGED <<rspLen, rspBuf, retryAttempts, emptyRead, received, lineVars>>

ReadLen ==
  /\ pc = "len"
  /\ \/ line # << >> /\ rspLen' = Head(line) /\ line' = Tail(line)
     \/ line = << >> /\ rspLen' \in Garbage /\ UNCHANGED line
  /\ rspBuf' = <<rspLen'>>
  /\ pc' = "body"
  /\ UNCHANGED <<retryAttempts, emptyRead, received, lineVars>>

BytesReadUnbounded == Len(line)    \* fault: not asking for rspLen bytes

BytesRead == IF Len(line) < rspLen THEN Len(line) ELSE rspLen

(* Nothing compares the length with the size of rspBuf.                     *)
ReadBody ==
  /\ pc = "body" /\ rspLen > 0 /\ line # << >>
  /\ rspBuf' = rspBuf \o SubSeq(line, 1, BytesRead)
  /\ line' = SubSeq(line, BytesRead + 1, Len(line))
  /\ rspLen' = (rspLen - BytesRead) % 256
  /\ pc' = IF Len(rspBuf) + BytesRead <= BufLen THEN "body" ELSE "overrun"
  /\ UNCHANGED <<retryAttempts, emptyRead, received, lineVars>>

(* read() fails for want of data, and (u8)-1 exceeds the length; the rest   *)
(* of the function sleeps and tries again, or gives up.  It does not exceed *)
(* 255, and passes for as many bytes.  (When read() returns 0 instead, the  *)
(* loop spins until there is data.)                                         *)
MayRetryLess   == retryAttempts < 4    \* fault: one retry too few
MayRetryAlways == TRUE                 \* fault: no limit

MayRetry == retryAttempts < 5

ReadFails ==
  /\ pc = "body" /\ rspLen > 0 /\ line = << >>
  /\ emptyRead = "fails" /\ ~ hungUp
  /\ IF rspLen = 255
     THEN rspLen' = 0 /\ UNCHANGED <<pc, retryAttempts>>
     ELSE /\ pc' = IF MayRetry THEN "sleep" ELSE "poll"
          /\ retryAttempts' = (retryAttempts + 1) % 256
          /\ UNCHANGED rspLen
  /\ UNCHANGED <<rspBuf, emptyRead, received, line, lineVars>>

(* usleep(10000) lasts until the next bytes of a message on its way are     *)
(* there.                                                                   *)
Wake ==
  /\ pc = "sleep" /\ (line # << >> \/ wire = << >>)
  /\ pc' = "body"
  /\ UNCHANGED <<rspLen, rspBuf, retryAttempts, emptyRead, received, line, lineVars>>

(* The switch on cmd1, the second byte of the body, takes it from the stack *)
(* where the body is shorter, and may find a message handled before.        *)
Process ==
  /\ pc = "body" /\ rspLen = 0
  /\ IF Len(rspBuf) > 2
     THEN received' = Append(received, Tail(rspBuf))
     ELSE \E old \in Stack :
            received' = Append(received, Tail(rspBuf) \o SubSeq(old, Len(rspBuf), Len(old)))
  /\ pc' = "poll"
  /\ UNCHANGED <<rspLen, rspBuf, retryAttempts, emptyRead, line, lineVars>>

processSocCmd == ReadSof \/ ReadLen \/ ReadBody \/ ReadFails \/ Wake \/ Process

Next == processSocCmd \/ Arrive \/ HangUp \/ \E m \in Message : Send(m)

Spec == Init /\ [][Next]_vars

(* The process is scheduled, and the line carries what it was given.        *)
FairSpec == Spec /\ WF_vars(processSocCmd) /\ WF_vars(Arrive)

-----------------------------------------------------------------------------
(* The line is regular while the two bytes of each header have come         *)
(* together, there were no more pauses than the five reads that             *)
(* processSocCmd may repeat in its life, and the messages hold their cmd1   *)
(* and fit rspBuf.                                                          *)
Fitting == \A n \in 1 .. Len(sentMsgs) : Len(sentMsgs[n]) \in 2 .. BufLen - 1

Regular == headersWhole /\ pauses <= 5 /\ Fitting

(* Nothing is written behind rspBuf while the line is regular, although     *)
(* only the length bytes tell the reader where to stop: it never takes      *)
(* another byte for one of them, and never reads into the next message.     *)
BufferHolds == Regular => pc # "overrun"

(* While it is regular and has not hung up, the reader and the line are a   *)
(* queue of whole messages, which is what Gateway takes them for: each      *)
(* message is received once, whole and in order.  What was received stays   *)
(* so; what comes after is not promised to be a message.                    *)
Up == Regular /\ ~ hungUp

ChannelOf == INSTANCE MessageChannel WITH
  up <- Up, delivered <- received,
  queue <- IF Up THEN SubSeq(sentMsgs, Len(received) + 1, Len(sentMsgs)) ELSE << >>

ReaderIsChannel == ChannelOf!Spec

(* ... and no message is left behind, although it arrives in pieces: a read *)
(* that comes too early is tried again, as the comment in processSocCmd     *)
(* says, as long as each piece comes within the time of one sleep and the   *)
(* line does not hang up.                                                   *)
EventuallyDelivered ==
  \A n \in 1 .. MaxMessages :
    headersWhole /\ Len(sentMsgs) >= n
      ~> Len(received) >= n \/ hungUp \/ ~ Fitting

(* However out of step the reader is with the messages, it comes back to    *)
(* poll(), so that the other sources of the main loop are served, unless it *)
(* has written behind its buffer, which is undefined behaviour.  (That is   *)
(* where read() without data fails; where it returns 0, as it always does   *)
(* on a hung-up line, a reader that takes too large a length spins until    *)
(* the coordinator sends again.)                                            *)
ReturnsToPoll ==
  pc # "poll" /\ emptyRead = "fails" ~> pc \in {"poll", "overrun"} \/ hungUp
=============================================================================
