---------------------------- MODULE Broadcaster ----------------------------
(***************************************************************************)
(* What the gateway promises the Apps it serves: whatever it tells one of  *)
(* them it tells all of them at that time, in the same order, each once.   *)
(* Who joins later is not told what was said before.                       *)
(***************************************************************************)
EXTENDS Sequences, Integers

CONSTANT Reader      \* those who may join

VARIABLES members,   \* those who have joined and not left
          inbox      \* inbox[r], what has been announced since r joined

Init == members = {} /\ inbox = [r \in Reader |-> << >>]

Join(r) == /\ r \notin members /\ inbox[r] = << >>
           /\ members' = members \cup {r}
           /\ UNCHANGED inbox

Leave(r) == /\ r \in members
            /\ members' = members \ {r}
            /\ inbox' = [inbox EXCEPT ![r] = << >>]

News(r) == SubSeq(inbox'[r], Len(inbox[r]) + 1, Len(inbox'[r]))

Announce ==
  /\ UNCHANGED members
  /\ \A r, s \in members : News(r) = News(s)
  /\ inbox' = [r \in Reader |-> IF r \in members THEN inbox[r] \o News(r)
                                                 ELSE inbox[r]]

Next == Announce \/ \E r \in Reader : Join(r) \/ Leave(r)

Spec == Init /\ [][Next]_<<members, inbox>>
=============================================================================
