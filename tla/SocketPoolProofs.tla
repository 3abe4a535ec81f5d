-------------------------- MODULE SocketPoolProofs --------------------------
(***************************************************************************)
(* Theorems about SocketPool, for every set of descriptors and every table *)
(* size: its types, the exactness of its count, the absence of duplicates  *)
(* and the refinement of BoundedSet.                                       *)
(***************************************************************************)
EXTENDS SocketPool, TableLemmas

(* socketPool_search returns a slot that holds the value searched, or says  *)
(* that no slot does.                                                       *)
LEMMA SearchSpec ==
  ASSUME NEW v
  PROVE  \/ /\ socketPool_search(v) = SOCKET_NOT_FOUND
            /\ Holding(v) = {}
         \/ /\ socketPool_search(v) \in Slots
            /\ sockets[socketPool_search(v)] = v
            /\ socketPool_search(v) # SOCKET_NOT_FOUND
<1>1. Holding(v) \in SUBSET Nat /\ Holding(v) \subseteq Slots
  BY MaxSocketNumAssumption, SMT DEF Holding, Slots
<1>2. CASE Holding(v) = {}
  BY <1>2 DEF socketPool_search
<1>3. CASE Holding(v) # {}
  <2>1. \E i \in Holding(v) : \A j \in Holding(v) : i <= j
    BY <1>1, <1>3, LeastNatural
  <2>2. socketPool_search(v) \in Holding(v)
    BY <2>1, <1>3, Zenon DEF socketPool_search
  <2>3. \A i \in Slots : i # SOCKET_NOT_FOUND
    BY MaxSocketNumAssumption, SMT DEF Slots, SOCKET_NOT_FOUND
  <2> QED
    BY <2>2, <2>3, <1>1 DEF Holding
<1> QED
  BY <1>2, <1>3

-----------------------------------------------------------------------------
(* The strengthening: the count is that of the slots in use, the slots in   *)
(* use hold different descriptors, and every value has its type.            *)
PoolInv == PoolTypeOK /\ CountIsExact /\ NoDuplicates

LEMMA InUseFinite == IsFiniteSet(InUse) /\ InUse \subseteq Slots
  BY ProperSubtable, MaxSocketNumAssumption DEF InUse, Slots

(* server_init establishes the invariant.                                   *)
LEMMA PoolInitInv == PoolInit => PoolInv
<1> SUFFICES ASSUME PoolInit PROVE PoolInv
  OBVIOUS
<1>1. InUse = {}
  BY DEF PoolInit, InUse
<1>2. PoolTypeOK
  BY DEF PoolInit, PoolTypeOK
<1>3. CountIsExact
  BY <1>1, FS_EmptySet DEF PoolInit, CountIsExact
<1>4. NoDuplicates
  BY <1>1 DEF NoDuplicates
<1> QED
  BY <1>2, <1>3, <1>4 DEF PoolInv

(* Filling an empty slot with a descriptor that is not in the table.        *)
LEMMA FillSlot ==
  ASSUME PoolInv, NEW s \in Sock, Holding(s) = {},
         NEW free \in Slots, sockets[free] = INVALID_SOCKET,
         sockets' = [sockets EXCEPT ![free] = s], curNum' = curNum + 1
  PROVE  /\ PoolInv'
         /\ InUse' = InUse \cup {free}
         /\ Pooled' = Pooled \cup {s}
<1> USE DEF PoolInv
<1>0. s # INVALID_SOCKET
  BY SockAssumption, SMT DEF INVALID_SOCKET
<1>1. \A i \in Slots : sockets'[i] = IF i = free THEN s ELSE sockets[i]
  BY DEF PoolTypeOK
<1>2. InUse' = InUse \cup {free} /\ free \notin InUse
  BY <1>0, <1>1 DEF InUse
<1>3. PoolTypeOK'
  BY SMT DEF PoolTypeOK
<1>4. CountIsExact'
  <2>1. Cardinality(InUse \cup {free}) = Cardinality(InUse) + 1
    BY <1>2, InUseFinite, FS_AddElement
  <2> QED
    BY <2>1, <1>2 DEF CountIsExact
<1>5. NoDuplicates'
  <2>1. \A i \in Slots : sockets[i] # s
    BY DEF Holding
  <2> QED
    BY <1>1, <1>2, <2>1, InUseFinite, SMT DEF NoDuplicates
<1>6. Pooled' = Pooled \cup {s}
  <2>1. \A i \in InUse : sockets'[i] = sockets[i]
    BY <1>1, <1>2, InUseFinite
  <2>2. sockets'[free] = s
    BY <1>1
  <2>3. Pooled' = {sockets'[i] : i \in InUse \cup {free}}
    BY <1>2 DEF Pooled
  <2> QED
    BY <2>1, <2>2, <2>3 DEF Pooled
<1> QED
  BY <1>2, <1>3, <1>4, <1>5, <1>6

(* Emptying the slot that holds a descriptor.                               *)
LEMMA ClearSlot ==
  ASSUME PoolInv, NEW s \in Sock,
         NEW index \in Slots, sockets[index] = s,
         sockets' = [sockets EXCEPT ![index] = INVALID_SOCKET],
         curNum' = curNum - 1
  PROVE  /\ PoolInv'
         /\ InUse' = InUse \ {index}
         /\ Pooled' = Pooled \ {s}
<1> USE DEF PoolInv
<1>0. s # INVALID_SOCKET
  BY SockAssumption, SMT DEF INVALID_SOCKET
<1>1. \A i \in Slots :
         sockets'[i] = IF i = index THEN INVALID_SOCKET ELSE sockets[i]
  BY DEF PoolTypeOK
<1>2. InUse' = InUse \ {index} /\ index \in InUse
  BY <1>0, <1>1 DEF InUse
<1>3. /\ Cardinality(InUse) \in Nat
      /\ Cardinality(InUse') \in Nat
      /\ Cardinality(InUse') = Cardinality(InUse) - 1
  <2>1. IsFiniteSet(InUse')
    BY <1>2, InUseFinite, FS_RemoveElement
  <2> QED
    BY <1>2, <2>1, InUseFinite, FS_RemoveElement, FS_CardinalityType
<1>4. CountIsExact'
  BY <1>3 DEF CountIsExact
<1>5. PoolTypeOK'
  BY <1>3, <1>4, SMT DEF PoolTypeOK, CountIsExact
<1>6. NoDuplicates'
  BY <1>1, <1>2, InUseFinite, SMT DEF NoDuplicates
<1>7. Pooled' = Pooled \ {s}
  <2>1. \A i \in InUse' : sockets'[i] = sockets[i]
    BY <1>1, <1>2, InUseFinite
  <2>2. \A i \in InUse : sockets[i] = s <=> i = index
    BY <1>2 DEF NoDuplicates
  <2>3. Pooled' = {sockets[i] : i \in InUse \ {index}}
    BY <1>2, <2>1 DEF Pooled
  <2> QED
    BY <2>2, <2>3 DEF Pooled
<1> QED
  BY <1>2, <1>4, <1>5, <1>6, <1>7

(* Each operation keeps the invariant, and adds or removes one descriptor   *)
(* or none.                                                                 *)
LEMMA AddStep ==
  ASSUME PoolInv, NEW s \in Sock, socketPool_add(s)
  PROVE  /\ PoolInv'
         /\ \/ UNCHANGED poolVars
            \/ /\ Cardinality(InUse) < MaxSocketNum
               /\ Pooled' = Pooled \cup {s}
<1> DEFINE free == socketPool_search(INVALID_SOCKET)
<1>1. CASE UNCHANGED poolVars
  BY <1>1 DEF poolVars, PoolInv, PoolTypeOK, CountIsExact, NoDuplicates, InUse
<1>2. CASE ~ UNCHANGED poolVars
  <2>1. /\ socketPool_search(s) = SOCKET_NOT_FOUND
        /\ free # SOCKET_NOT_FOUND
        /\ sockets' = [sockets EXCEPT ![free] = s]
        /\ curNum' = curNum + 1
    BY <1>2 DEF socketPool_add
  <2>2. Holding(s) = {}
    BY <2>1, SearchSpec
  <2>3. free \in Slots /\ sockets[free] = INVALID_SOCKET
    BY <2>1, SearchSpec
  <2>4. PoolInv' /\ Pooled' = Pooled \cup {s}
    BY <2>1, <2>2, <2>3, FillSlot
  <2>5. Cardinality(InUse) < MaxSocketNum
    <3>1. InUse \subseteq Slots /\ InUse # Slots
      BY <2>3 DEF InUse
    <3> QED
      BY <3>1, ProperSubtable, MaxSocketNumAssumption DEF Slots
  <2> QED
    BY <2>4, <2>5
<1> QED
  BY <1>1, <1>2

LEMMA DelStep ==
  ASSUME PoolInv, NEW s \in Sock, socketPool_del(s)
  PROVE  /\ PoolInv'
         /\ UNCHANGED poolVars \/ Pooled' = Pooled \ {s}
<1> DEFINE index == socketPool_search(s)
<1>1. CASE UNCHANGED poolVars
  BY <1>1 DEF poolVars, PoolInv, PoolTypeOK, CountIsExact, NoDuplicates, InUse
<1>2. CASE ~ UNCHANGED poolVars
  <2>1. /\ index # SOCKET_NOT_FOUND
        /\ sockets' = [sockets EXCEPT ![index] = INVALID_SOCKET]
        /\ curNum' = curNum - 1
    BY <1>2 DEF socketPool_del
  <2>2. index \in Slots /\ sockets[index] = s
    BY <2>1, SearchSpec
  <2> QED
    BY <2>1, <2>2, ClearSlot
<1> QED
  BY <1>1, <1>2

-----------------------------------------------------------------------------
LEMMA PoolInvariance == PoolSpec => []PoolInv
<1>1. PoolInv /\ [PoolNext]_poolVars => PoolInv'
  <2> SUFFICES ASSUME PoolInv, [PoolNext]_poolVars PROVE PoolInv'
    OBVIOUS
  <2>1. CASE UNCHANGED poolVars
    BY <2>1 DEF poolVars, PoolInv, PoolTypeOK, CountIsExact, NoDuplicates, InUse
  <2>2. ASSUME NEW s \in Sock, socketPool_add(s) PROVE PoolInv'
    BY <2>2, AddStep
  <2>3. ASSUME NEW s \in Sock, socketPool_del(s) PROVE PoolInv'
    BY <2>3, DelStep
  <2> QED
    BY <2>1, <2>2, <2>3 DEF PoolNext
<1> QED
  BY <1>1, PoolInitInv, PTL DEF PoolSpec

(* The table and its count have their types after any calls.                *)
THEOREM PoolTypeCorrect == PoolSpec => []PoolTypeOK
<1>1. PoolInv => PoolTypeOK
  BY DEF PoolInv
<1> QED
  BY <1>1, PoolInvariance, PTL

(* curNum is the number of occupied slots after any calls of                *)
(* socketPool_add and socketPool_del.                                       *)
THEOREM PoolCountCorrect == PoolSpec => []CountIsExact
<1>1. PoolInv => CountIsExact
  BY DEF PoolInv
<1> QED
  BY <1>1, PoolInvariance, PTL

(* No descriptor is ever in two slots, so every broadcast sends once to     *)
(* each client.                                                             *)
THEOREM PoolHasNoDuplicates == PoolSpec => []NoDuplicates
<1>1. PoolInv => NoDuplicates
  BY DEF PoolInv
<1> QED
  BY <1>1, PoolInvariance, PTL

(* The occupied slots are as many as the descriptors they hold, or more.    *)
LEMMA PooledCardinality ==
  ASSUME PoolTypeOK
  PROVE  /\ Pooled \subseteq Sock
         /\ IsFiniteSet(Pooled)
         /\ Cardinality(Pooled) \in Nat
         /\ Cardinality(Pooled) <= Cardinality(InUse)
<1> DEFINE f == [i \in InUse |-> sockets[i]]
<1>1. f \in Surjection(InUse, Pooled)
  BY DEF Surjection, Pooled
<1>2. IsFiniteSet(Pooled) /\ Cardinality(Pooled) <= Cardinality(InUse)
  <2> HIDE DEF f
  <2> QED
    BY <1>1, InUseFinite, FS_Surjection
<1> QED
  BY <1>2, FS_CardinalityType DEF PoolTypeOK, Pooled, InUse

(* The table implements a bounded set of descriptors.                       *)
THEOREM PoolRefinement == PoolSpec => PoolIsBoundedSet
<1>1. PoolInit => BoundedSetOf!Init
  <2> SUFFICES ASSUME PoolInit PROVE Pooled = {}
    BY DEF BoundedSetOf!Init
  <2> QED
    BY DEF PoolInit, Pooled, InUse
<1>2. PoolInv /\ [PoolNext]_poolVars => [BoundedSetOf!Next]_Pooled
  <2> SUFFICES ASSUME PoolInv, [PoolNext]_poolVars
               PROVE  [BoundedSetOf!Next]_Pooled
    OBVIOUS
  <2>1. CASE UNCHANGED poolVars
    BY <2>1 DEF poolVars, Pooled, InUse
  <2>2. ASSUME NEW s \in Sock, socketPool_add(s)
        PROVE  [BoundedSetOf!Next]_Pooled
    <3>1. CASE UNCHANGED poolVars
      BY <3>1 DEF poolVars, Pooled, InUse
    <3>2. CASE Cardinality(InUse) < MaxSocketNum /\ Pooled' = Pooled \cup {s}
      <4>1. Cardinality(Pooled) < MaxSocketNum
        <5>1. Cardinality(InUse) \in Nat
          BY InUseFinite, FS_CardinalityType
        <5> QED
          BY <3>2, <5>1, PooledCardinality, MaxSocketNumAssumption DEF PoolInv
      <4>2. BoundedSetOf!Cardinality(Pooled) < MaxSocketNum
        BY <4>1 DEF Cardinality, BoundedSetOf!Cardinality
      <4> QED
        BY <3>2, <4>2 DEF BoundedSetOf!Next, BoundedSetOf!Add
    <3> QED
      BY <2>2, <3>1, <3>2, AddStep
  <2>3. ASSUME NEW s \in Sock, socketPool_del(s)
        PROVE  [BoundedSetOf!Next]_Pooled
    <3>1. CASE UNCHANGED poolVars
      BY <3>1 DEF poolVars, Pooled, InUse
    <3>2. CASE Pooled' = Pooled \ {s}
      BY <3>2 DEF BoundedSetOf!Next, BoundedSetOf!Remove
    <3> QED
      BY <2>3, <3>1, <3>2, DelStep
  <2> QED
    BY <2>1, <2>2, <2>3 DEF PoolNext
<1> QED
  BY <1>1, <1>2, PoolInvariance, PTL DEF PoolSpec, PoolIsBoundedSet, BoundedSetOf!Spec
=============================================================================
