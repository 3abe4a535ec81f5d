----------------------------- MODULE BoundedSet -----------------------------
(***************************************************************************)
(* What the gateway's socket pool promises to the code that uses it: a set *)
(* of at most Capacity elements.  Adding to a full set, adding a member    *)
(* and removing a stranger change nothing, and nobody is told.             *)
(***************************************************************************)
EXTENDS Naturals, FiniteSets

CONSTANTS Elem,       \* the elements a set may hold
          Capacity    \* how many it may hold at once

VARIABLE members

TypeOK == /\ members \subseteq Elem
          /\ IsFiniteSet(members)
          /\ Cardinality(members) <= Capacity

Init == members = {}

Add(e) == /\ Cardinality(members) < Capacity
          /\ members' = members \cup {e}

Remove(e) == members' = members \ {e}

Next == \E e \in Elem : Add(e) \/ Remove(e)

Spec == Init /\ [][Next]_members
=============================================================================
