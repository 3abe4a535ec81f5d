------------------------------- MODULE Mailbox -------------------------------
(***************************************************************************)
(* What the gateway makes of one App's connection: commands collect, whole *)
(* and in order, until it looks; then it takes the first of them and the   *)
(* others are gone.                                                        *)
(***************************************************************************)
EXTENDS Sequences

CONSTANT Item

VARIABLES box,     \* the commands that have come since the last look
          taken    \* the commands taken

Init == box = << >> /\ taken = << >>

Drop(i) == box' = Append(box, i) /\ UNCHANGED taken

Look == /\ box # << >>
        /\ taken' = Append(taken, Head(box))
        /\ box' = << >>

Next == Look \/ \E i \in Item : Drop(i)

Spec == Init /\ [][Next]_<<box, taken>>
=============================================================================
