--------------------------- MODULE MessageChannel ---------------------------
(***************************************************************************)
(* What the rest of the gateway takes the serial line for: a queue of      *)
(* whole messages, delivered once each in the order they were sent, until  *)
(* the line fails.  From then on only what was delivered before is sure.   *)
(***************************************************************************)
EXTENDS Integers, Sequences

CONSTANT Message

VARIABLES up,          \* whether the line has not failed
          queue,       \* the messages on their way
          delivered    \* the messages that have arrived

Init == up \in BOOLEAN /\ queue = << >> /\ delivered = << >>

Put(m) == /\ up
          /\ queue' = Append(queue, m)
          /\ UNCHANGED <<up, delivered>>

Deliver == /\ up /\ queue # << >>
           /\ delivered' = Append(delivered, Head(queue))
           /\ queue' = Tail(queue)
           /\ UNCHANGED up

Fail == /\ up
        /\ up' = FALSE /\ queue' = << >>
        /\ UNCHANGED delivered

(* Something arrives that may be no message.                                *)
Stray == /\ ~ up
         /\ Len(delivered') = Len(delivered) + 1
         /\ SubSeq(delivered', 1, Len(delivered)) = delivered
         /\ UNCHANGED <<up, queue>>

Next == Deliver \/ Fail \/ Stray \/ \E m \in Message : Put(m)

Spec == Init /\ [][Next]_<<up, queue, delivered>>
=============================================================================
