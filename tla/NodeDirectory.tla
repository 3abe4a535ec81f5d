--------------------------- MODULE NodeDirectory ---------------------------
(***************************************************************************)
(* What the gateway's node table promises: a directory that remembers, for *)
(* at most Capacity addresses, the device identifier of the first          *)
(* announcement made under that address, and forgets nothing.              *)
(***************************************************************************)
EXTENDS Naturals, FiniteSets

CONSTANTS Key,        \* the addresses a device may announce
          DevId,      \* the device identifiers
          Capacity    \* how many addresses the directory holds

VARIABLE known        \* a function from the addresses heard of to identifiers

TypeOK == known \in UNION {[K -> DevId] : K \in SUBSET Key}

Init == known = [k \in {} |-> 0]

Announce(k, d) ==
  /\ k \notin DOMAIN known
  /\ Cardinality(DOMAIN known) < Capacity
  /\ known' = [x \in DOMAIN known \cup {k} |-> IF x = k THEN d ELSE known[x]]

Next == \E k \in Key, d \in DevId : Announce(k, d)

Spec == Init /\ [][Next]_known
=============================================================================
