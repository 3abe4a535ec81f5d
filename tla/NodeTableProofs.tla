-------------------------- MODULE NodeTableProofs --------------------------
(***************************************************************************)
(* Theorems about NodeTable, for every set of addresses and identifiers    *)
(* and every table size.                                                   *)
(***************************************************************************)
EXTENDS NodeTable, TableLemmas

(* nodes_search returns the first entry with the addresses searched, or     *)
(* says that there is none.                                                 *)
LEMMA NodesSearchSpec ==
  ASSUME NEW nwk, NEW ext
  PROVE  \/ /\ nodes_search(nwk, ext) = NODE_NULL
            /\ Matching(nwk, ext) = {}
         \/ /\ nodes_search(nwk, ext) \in Entries
            /\ KeyOf(nodeTbl[nodes_search(nwk, ext)]) = <<nwk, ext>>
            /\ nodes_search(nwk, ext) # NODE_NULL
            /\ \A j \in Entries : KeyOf(nodeTbl[j]) = <<nwk, ext>>
                                 => nodes_search(nwk, ext) <= j
<1> DEFINE M == Matching(nwk, ext)
<1>1. M \in SUBSET Nat /\ M \subseteq Entries
  BY MaxNodeNumAssumption, SMT DEF Matching, Entries
<1>2. CASE M = {}
  BY <1>2 DEF nodes_search
<1>3. CASE M # {}
  <2>1. \E i \in M : \A j \in M : i <= j
    BY <1>1, <1>3, LeastNatural
  <2>2. /\ nodes_search(nwk, ext) \in M
        /\ \A j \in M : nodes_search(nwk, ext) <= j
    BY <2>1, <1>3, Zenon DEF nodes_search
  <2>3. \A i \in Entries : i # NODE_NULL
    BY MaxNodeNumAssumption, SMT DEF Entries, NODE_NULL
  <2> QED
    BY <2>2, <2>3, <1>1 DEF Matching
<1> QED
  BY <1>2, <1>3

LEMMA FilledFinite ==
  /\ Filled \subseteq Entries
  /\ IsFiniteSet(Filled)
  /\ Cardinality(Filled) \in Nat
  /\ Cardinality(Filled) <= MaxNodeNum
  /\ Filled # Entries => Cardinality(Filled) < MaxNodeNum
  BY ProperSubtable, MaxNodeNumAssumption DEF Filled, Entries

(* An empty entry has the addresses that mark it.                           *)
LEMMA EmptyNodeKey == EmptyNode \in Node /\ KeyOf(EmptyNode) = EmptyKey
  BY SMT DEF EmptyNode, Node, KeyOf, EmptyKey

-----------------------------------------------------------------------------
NodeInv == NodeTypeOK /\ NodesAreDistinct /\ NothingForgotten

(* nodes_reset establishes the invariant.                                   *)
LEMMA NodeInitInv == NodeInit => NodeInv
<1> SUFFICES ASSUME NodeInit PROVE NodeInv
  OBVIOUS
<1>1. \A i \in Entries : nodeTbl[i] = EmptyNode
  BY DEF NodeInit, nodes_reset
<1>2. Filled = {}
  BY <1>1, EmptyNodeKey DEF Filled
<1>3. NodeTypeOK
  <2>1. nodeTbl \in [Entries -> Node]
    BY EmptyNodeKey DEF NodeInit, nodes_reset
  <2>2. curNodeNum \in 0 .. MaxNodeNum
    BY MaxNodeNumAssumption DEF NodeInit, nodes_reset
  <2>3. announced \in Seq(Announcement)
    BY DEF NodeInit
  <2> QED
    BY <2>1, <2>2, <2>3 DEF NodeTypeOK
<1>4. NodesAreDistinct
  BY <1>1, <1>2, FS_EmptySet DEF NodesAreDistinct, NodeInit, nodes_reset
<1>5. NothingForgotten
  <2>1. Len(announced) = 0
    BY DEF NodeInit
  <2> QED
    BY <2>1 DEF NothingForgotten
<1> QED
  BY <1>3, <1>4, <1>5 DEF NodeInv

(* Filling an empty entry with a node under a new pair of addresses.        *)
LEMMA FillEntry ==
  ASSUME NodeTypeOK, NodesAreDistinct,
         NEW free \in Entries, KeyOf(nodeTbl[free]) = EmptyKey,
         NEW n \in Node, KeyOf(n) # EmptyKey,
         \A i \in Entries : KeyOf(nodeTbl[i]) # KeyOf(n),
         nodeTbl' = [nodeTbl EXCEPT ![free] = n],
         curNodeNum' = curNodeNum + 1
  PROVE  /\ nodeTbl' \in [Entries -> Node]
         /\ curNodeNum' \in 0 .. MaxNodeNum
         /\ NodesAreDistinct'
         /\ Filled # Entries
         /\ Filled' = Filled \cup {free}
         /\ \A i \in Filled : nodeTbl'[i] = nodeTbl[i]
         /\ KnownKeys' = KnownKeys \cup {KeyOf(n)}
<1>1. \A i \in Entries : nodeTbl'[i] = IF i = free THEN n ELSE nodeTbl[i]
  BY DEF NodeTypeOK
<1>2. nodeTbl' \in [Entries -> Node]
  BY DEF NodeTypeOK
<1>3. Filled' = Filled \cup {free} /\ free \notin Filled
  BY <1>1 DEF Filled, EmptyKey
<1>4. Cardinality(Filled') = Cardinality(Filled) + 1
  BY <1>3, FilledFinite, FS_AddElement
<1>5. Filled # Entries
  BY <1>3
<1>6. curNodeNum' = Cardinality(Filled') /\ curNodeNum' \in 0 .. MaxNodeNum
  <2>1. curNodeNum' = Cardinality(Filled) + 1
    BY DEF NodesAreDistinct
  <2> QED
    BY <2>1, <1>4, <1>5, FilledFinite, MaxNodeNumAssumption
<1>7. \A i \in Filled : nodeTbl'[i] = nodeTbl[i]
  BY <1>1, <1>3, FilledFinite
<1>8. nodeTbl'[free] = n
  BY <1>1
<1>9. NodesAreDistinct'
  <2>1. \A i, j \in Filled' : KeyOf(nodeTbl'[i]) = KeyOf(nodeTbl'[j]) => i = j
    BY <1>3, <1>7, <1>8, FilledFinite DEF NodesAreDistinct
  <2>2. \A i \in Entries \ Filled' : nodeTbl'[i] = EmptyNode
    BY <1>1, <1>3 DEF NodesAreDistinct
  <2> QED
    BY <2>1, <2>2, <1>6 DEF NodesAreDistinct, Entries, KeyOf
<1>10. KnownKeys' = KnownKeys \cup {KeyOf(n)}
  <2>1. KnownKeys' = {KeyOf(nodeTbl'[i]) : i \in Filled \cup {free}}
    BY <1>3 DEF KnownKeys, KeyOf
  <2> QED
    BY <2>1, <1>7, <1>8 DEF KnownKeys
<1> QED
  BY <1>2, <1>3, <1>5, <1>6, <1>7, <1>9, <1>10

(* What nodes_add stores has the types of an entry.                         *)
LEMMA StoredNode ==
  ASSUME NEW nwk \in NwkAddr, NEW ext \in ExtAddr, NEW devID \in DevId
  PROVE  LET n == [nwkAddr |-> nwk, extAddr |-> ext, devId |-> devID,
                   devType |-> TypeOfDevice(devID)]
         IN  n \in Node /\ KeyOf(n) = <<nwk, ext>>
<1>1. TypeOfDevice(devID) \in {DEV_TYPE_LIGHT, DEV_TYPE_ONOFF_SWITCH, DEV_TYPE_UNKNOWN}
  BY Zenon DEF TypeOfDevice
<1> QED
  BY <1>1 DEF Node, KeyOf

(* One call of nodes_add: an announcement is recorded in the history, and   *)
(* the table either keeps its nodes or fills one entry.                     *)
LEMMA NodesAddStep ==
  ASSUME NodeInv, NEW nwk \in NwkAddr, NEW ext \in ExtAddr,
         NEW devID \in DevId, nodes_add(nwk, ext, devID)
  PROVE  /\ NodeInv'
         /\ \/ UNCHANGED nodeTbl
            \/ \E free \in Entries :
                 /\ <<nwk, ext>> \notin KnownKeys
                 /\ Filled # Entries
                 /\ Filled' = Filled \cup {free}
                 /\ nodeTbl'[free].devId = devID
                 /\ KeyOf(nodeTbl'[free]) = <<nwk, ext>>
                 /\ \A i \in Filled : nodeTbl'[i] = nodeTbl[i]
                 /\ KnownKeys' = KnownKeys \cup {<<nwk, ext>>}
<1> USE DEF NodeInv
<1> DEFINE a == [nwkAddr |-> nwk, extAddr |-> ext, devId |-> devID]
           free == nodes_search(EMPTY_NODE_NWK_ADDR, EmptyExtAddr)
           n == [nwkAddr |-> nwk, extAddr |-> ext, devId |-> devID,
                 devType |-> TypeOfDevice(devID)]
<1>1. /\ a \in Announcement
      /\ KeyOf(a) = <<nwk, ext>>
      /\ announced' = Append(announced, a)
  BY DEF nodes_add, Announced, Announcement, KeyOf
<1>2. /\ announced' \in Seq(Announcement)
      /\ Len(announced') = Len(announced) + 1
      /\ \A m \in 1 .. Len(announced) : announced'[m] = announced[m]
      /\ announced'[Len(announced) + 1] = a
      /\ Len(announced) \in Nat
  <2> HIDE DEF a
  <2> QED BY <1>1, SMT DEF NodeTypeOK
<1>3. CASE UNCHANGED <<nodeTbl, curNodeNum>> /\ (\/ nodes_search(nwk, ext) # NODE_NULL
                                               \/ free = NODE_NULL)
  <2>1. Filled' = Filled /\ KnownKeys' = KnownKeys
    BY <1>3 DEF Filled, KnownKeys, KeyOf
  <2>2. NodeTypeOK' /\ NodesAreDistinct'
    BY <1>2, <1>3, <2>1 DEF NodeTypeOK, NodesAreDistinct, KeyOf
  <2>3. Filled # Entries => <<nwk, ext>> \in KnownKeys \cup {EmptyKey}
    <3>1. CASE nodes_search(nwk, ext) # NODE_NULL
      <4>1. PICK i \in Entries : KeyOf(nodeTbl[i]) = <<nwk, ext>>
        BY <3>1, NodesSearchSpec
      <4> QED
        BY <4>1 DEF KnownKeys, Filled
    <3>2. CASE free = NODE_NULL
      <4>1. Matching(EMPTY_NODE_NWK_ADDR, EmptyExtAddr) = {}
        BY <3>2, NodesSearchSpec
      <4> QED
        BY <4>1 DEF Matching, Filled, EmptyKey
    <3> QED
      BY <1>3, <3>1, <3>2
  <2>4. NothingForgotten'
    <3> SUFFICES ASSUME Filled # Entries, NEW m \in 1 .. Len(announced')
                 PROVE  KeyOf(announced'[m]) \in KnownKeys \cup {EmptyKey}
      BY <2>1 DEF NothingForgotten, Entries, EmptyKey, KeyOf
    <3>1. CASE m \in 1 .. Len(announced)
      BY <3>1, <1>2 DEF NothingForgotten
    <3>2. CASE m = Len(announced) + 1
      BY <3>2, <1>1, <1>2, <2>3
    <3> QED
      BY <3>1, <3>2, <1>2, SMT
  <2> QED
    BY <1>3, <2>2, <2>4
<1>4. CASE /\ nodes_search(nwk, ext) = NODE_NULL
           /\ free # NODE_NULL
           /\ nodeTbl' = [nodeTbl EXCEPT ![free] = n]
           /\ curNodeNum' = curNodeNum + 1
  <2>1. free \in Entries /\ KeyOf(nodeTbl[free]) = EmptyKey
    BY <1>4, NodesSearchSpec DEF EmptyKey
  <2>2. \A i \in Entries : KeyOf(nodeTbl[i]) # <<nwk, ext>>
    BY <1>4, NodesSearchSpec DEF Matching
  <2>3. n \in Node /\ KeyOf(n) = <<nwk, ext>> /\ n.devId = devID
    BY StoredNode
  <2>4. /\ nodeTbl' \in [Entries -> Node]
        /\ curNodeNum' \in 0 .. MaxNodeNum
        /\ NodesAreDistinct'
        /\ Filled # Entries
        /\ Filled' = Filled \cup {free}
        /\ \A i \in Filled : nodeTbl'[i] = nodeTbl[i]
        /\ KnownKeys' = KnownKeys \cup {<<nwk, ext>>}
    <3> HIDE DEF n, free
    <3>1. KeyOf(n) # EmptyKey
      BY <2>1, <2>2, <2>3
    <3> QED
      BY <1>4, <2>1, <2>2, <2>3, <3>1, FillEntry
  <2>5. nodeTbl'[free] = n
    BY <1>4, <2>1 DEF NodeTypeOK
  <2>6. NodeTypeOK'
    BY <1>2, <2>4 DEF NodeTypeOK
  <2>7. NothingForgotten'
    <3> SUFFICES ASSUME NEW m \in 1 .. Len(announced')
                 PROVE  KeyOf(announced'[m]) \in KnownKeys' \cup {EmptyKey}
      BY DEF NothingForgotten, Entries, EmptyKey, KeyOf
    <3>1. CASE m \in 1 .. Len(announced)
      BY <3>1, <1>2, <2>4 DEF NothingForgotten
    <3>2. CASE m = Len(announced) + 1
      BY <3>2, <1>1, <1>2, <2>4
    <3> QED
      BY <3>1, <3>2, <1>2, SMT
  <2>8. <<nwk, ext>> \notin KnownKeys
    BY <2>2 DEF KnownKeys, Filled
  <2> QED
    BY <2>1, <2>3, <2>4, <2>5, <2>6, <2>7, <2>8
<1> QED
  BY <1>3, <1>4 DEF nodes_add, StoreAt

-----------------------------------------------------------------------------
(* What TableIsFirstAnnouncements needs of the table beside the contents of *)
(* its entries: the filled ones are the leading ones, and the addresses     *)
(* they hold were announced.                                                *)
ListInv ==
  /\ NodeInv
  /\ TableIsFirstAnnouncements
  /\ \A i \in Entries : i < Cardinality(Firsts) => i \in Filled
  /\ \A i \in Filled : \E m \in 1 .. Len(announced) :
                         KeyOf(announced[m]) = KeyOf(nodeTbl[i])

LEMMA FirstsFinite ==
  ASSUME NodeTypeOK
  PROVE  /\ IsFiniteSet(Firsts)
         /\ Cardinality(Firsts) \in Nat
         /\ \A n \in Firsts : Place(n) \in Nat
<1>1. Len(announced) \in Nat
  BY DEF NodeTypeOK
<1>2. IsFiniteSet(1 .. Len(announced))
  BY <1>1, FS_Interval
<1>3. IsFiniteSet(Firsts)
  BY <1>2, FS_Subset DEF Firsts
<1>4. \A n : IsFiniteSet({m \in Firsts : m < n})
  BY <1>3, FS_Subset
<1> QED
  BY <1>3, <1>4, FS_CardinalityType DEF Place

(* An announcement changes neither which of the earlier ones came first nor *)
(* their places; it is a first one itself when its addresses are new.       *)
LEMMA FirstsGrow ==
  ASSUME NodeTypeOK, NEW a \in Announcement, announced' = Append(announced, a),
         NEW N, N = Len(announced) + 1
  PROVE  /\ N \in Nat /\ N \notin Firsts /\ Len(announced') = N
         /\ announced'[N] = a
         /\ \A n \in 1 .. N - 1 : announced'[n] = announced[n]
         /\ \A n \in Firsts : n \in 1 .. N - 1 /\ Place(n)' = Place(n)
         /\ \/ /\ Firsts' = Firsts
               /\ KeyOf(a) = EmptyKey \/ \E m \in 1 .. N - 1 :
                                           KeyOf(announced[m]) = KeyOf(a)
            \/ /\ Firsts' = Firsts \cup {N}
               /\ KeyOf(a) # EmptyKey
               /\ \A m \in 1 .. N - 1 : KeyOf(announced[m]) # KeyOf(a)
               /\ Cardinality(Firsts') = Cardinality(Firsts) + 1
               /\ Place(N)' = Cardinality(Firsts)
<1>1. /\ N \in Nat /\ Len(announced) = N - 1 /\ Len(announced') = N
      /\ announced'[N] = a
      /\ \A n \in 1 .. N - 1 : announced'[n] = announced[n]
  BY SMT DEF NodeTypeOK
<1>2. \A n \in 1 .. N - 1 : IsFirst(n)' <=> IsFirst(n)
  <2> SUFFICES ASSUME NEW n \in 1 .. N - 1 PROVE IsFirst(n)' <=> IsFirst(n)
    OBVIOUS
  <2>1. \A m \in 1 .. n - 1 : m \in 1 .. N - 1
    BY <1>1
  <2> QED
    BY <1>1, <2>1 DEF IsFirst, KeyOf, EmptyKey
<1>3. IsFirst(N)' <=> /\ KeyOf(a) # EmptyKey
                      /\ \A m \in 1 .. N - 1 : KeyOf(announced[m]) # KeyOf(a)
  BY <1>1 DEF IsFirst, KeyOf, EmptyKey
<1>4. Firsts' = {n \in 1 .. N : IsFirst(n)'} /\ Firsts = {n \in 1 .. N - 1 : IsFirst(n)}
  BY <1>1 DEF Firsts, IsFirst, KeyOf
<1>5. N \notin Firsts /\ \A n \in Firsts : n \in 1 .. N - 1 /\ n < N
  BY <1>1, <1>4
<1>6. Firsts' = IF IsFirst(N)' THEN Firsts \cup {N} ELSE Firsts
  <2>1. \A n : n \in 1 .. N <=> n \in 1 .. N - 1 \/ n = N
    BY <1>1
  <2>2. \A n : n \in Firsts' <=> (n \in Firsts \/ (n = N /\ IsFirst(N)'))
    BY <1>2, <1>4, <1>5, <2>1
  <2> QED
    BY <2>2
<1>7. \A n \in Firsts : Place(n)' = Place(n)
  <2> SUFFICES ASSUME NEW n \in Firsts PROVE Place(n)' = Place(n)
    OBVIOUS
  <2>1. ~ (N < n)
    BY <1>1, <1>5
  <2>2. {m \in Firsts' : m < n} = {m \in Firsts : m < n}
    BY <1>6, <2>1
  <2> QED
    BY <2>2 DEF Place
<1>8. CASE IsFirst(N)'
  <2>1. Cardinality(Firsts') = Cardinality(Firsts) + 1
    BY <1>5, <1>6, <1>8, FirstsFinite, FS_AddElement
  <2>2. {m \in Firsts' : m < N} = Firsts
    BY <1>1, <1>5, <1>6
  <2> QED
    BY <1>1, <1>3, <1>5, <1>6, <1>7, <1>8, <2>1, <2>2 DEF Place
<1>9. CASE ~ IsFirst(N)'
  BY <1>1, <1>3, <1>5, <1>6, <1>7, <1>9
<1> QED
  BY <1>8, <1>9

(* The entries the list speaks about are the same after an announcement     *)
(* that leaves the table alone.                                             *)
LEMMA RefusedKeepsList ==
  ASSUME ListInv, NodeInv', NEW a \in Announcement,
         announced' = Append(announced, a), UNCHANGED nodeTbl,
         \/ Filled = Entries
         \/ KeyOf(a) = EmptyKey
         \/ \E i \in Filled : KeyOf(nodeTbl[i]) = KeyOf(a)
  PROVE  ListInv'
<1>c. PICK N, C : N = Len(announced) + 1 /\ C = Cardinality(Firsts)
  OBVIOUS
<1>0. NodeTypeOK /\ TableIsFirstAnnouncements
  BY DEF ListInv, NodeInv
<1>1. /\ N \in Nat /\ N \notin Firsts /\ Len(announced') = N
      /\ announced'[N] = a
      /\ \A n \in 1 .. N - 1 : announced'[n] = announced[n]
      /\ \A n \in Firsts : n \in 1 .. N - 1 /\ Place(n)' = Place(n)
      /\ \/ /\ Firsts' = Firsts
            /\ KeyOf(a) = EmptyKey \/ \E m \in 1 .. N - 1 :
                                        KeyOf(announced[m]) = KeyOf(a)
         \/ /\ Firsts' = Firsts \cup {N}
            /\ KeyOf(a) # EmptyKey
            /\ \A m \in 1 .. N - 1 : KeyOf(announced[m]) # KeyOf(a)
            /\ Cardinality(Firsts') = C + 1
            /\ Place(N)' = C
  BY <1>0, <1>c, FirstsGrow
<1>2. C \in Nat
  BY <1>0, <1>c, FirstsFinite
<1>3. Len(announced) = N - 1 /\ N - 1 \in Nat
  BY <1>0, <1>c DEF NodeTypeOK
<1>4. Filled' = Filled
  BY DEF Filled, KeyOf
<1>5. \A i \in Filled : \E m \in 1 .. N - 1 : KeyOf(announced[m]) = KeyOf(nodeTbl[i])
  BY <1>3 DEF ListInv
<1>6. Firsts' # Firsts => C >= MaxNodeNum
  <2> SUFFICES ASSUME Firsts' # Firsts PROVE C >= MaxNodeNum
    OBVIOUS
  <2>1. Filled = Entries
    BY <1>1, <1>5
  <2>2. \A i \in Entries : nodeTbl[i] # EmptyNode
    BY <2>1, EmptyNodeKey DEF Filled
  <2>3. \A i \in Entries : ~ (i >= C)
    BY <1>0, <1>c, <2>2 DEF TableIsFirstAnnouncements
  <2> QED
    BY <1>2, <2>3, MaxNodeNumAssumption DEF Entries
<1>7. Cardinality(Firsts') \in {C, C + 1}
  BY <1>1, <1>c
<1>8. TableIsFirstAnnouncements'
  <2>1. ASSUME NEW n \in Firsts', Place(n)' < MaxNodeNum
        PROVE  n \in Firsts
    <3>1. n = N => Place(n)' = C
      BY <1>1, <2>1
    <3>2. n = N => C >= MaxNodeNum
      BY <1>1, <1>6, <2>1
    <3> QED
      BY <1>1, <1>2, <2>1, <3>1, <3>2, MaxNodeNumAssumption
  <2>2. \A n \in Firsts : announced'[n] = announced[n] /\ Place(n)' = Place(n)
    BY <1>1
  <2>3. \A i \in Entries : i >= Cardinality(Firsts') => i >= C
    BY <1>2, <1>7, MaxNodeNumAssumption DEF Entries
  <2>4. \A n \in Firsts' : Place(n)' < MaxNodeNum =>
          LET b == announced'[n]
          IN  nodeTbl'[Place(n)'] =
                [nwkAddr |-> b.nwkAddr, extAddr |-> b.extAddr,
                 devId |-> b.devId, devType |-> TypeOfDevice(b.devId)]
    BY <1>0, <2>1, <2>2 DEF TableIsFirstAnnouncements
  <2>5. \A i \in Entries : i >= Cardinality(Firsts') => nodeTbl'[i] = EmptyNode
    BY <1>0, <1>c, <2>3 DEF TableIsFirstAnnouncements
  <2>6. (\A n \in Firsts : Place(n) < MaxNodeNum =>
          LET b == announced[n]
          IN  nodeTbl[Place(n)] =
                [nwkAddr |-> b.nwkAddr, extAddr |-> b.extAddr,
                 devId |-> b.devId, devType |-> TypeOfDevice(b.devId)])'
    BY <2>4
  <2>7. (\A i \in Entries : i >= Cardinality(Firsts) => nodeTbl[i] = EmptyNode)'
    BY <2>5 DEF Entries, EmptyNode
  <2> QED
    BY <2>6, <2>7 DEF TableIsFirstAnnouncements
<1>9. \A i \in Entries : i < Cardinality(Firsts') => i \in Filled
  <2>1. ASSUME NEW i \in Entries, i < Cardinality(Firsts') PROVE i < C
    BY <1>1, <1>2, <1>6, <1>c, <2>1, MaxNodeNumAssumption DEF Entries
  <2> QED
    BY <1>c, <2>1 DEF ListInv
<1>10. \A i \in Filled : \E m \in 1 .. Len(announced') :
                            KeyOf(announced'[m]) = KeyOf(nodeTbl[i])
  <2> SUFFICES ASSUME NEW i \in Filled
               PROVE  \E m \in 1 .. N : KeyOf(announced'[m]) = KeyOf(nodeTbl[i])
    BY <1>1
  <2>1. PICK m \in 1 .. N - 1 : KeyOf(announced[m]) = KeyOf(nodeTbl[i])
    BY <1>5
  <2>2. m \in 1 .. N
    BY <1>1
  <2> QED
    BY <1>1, <2>1, <2>2
<1> QED
  BY <1>4, <1>8, <1>9, <1>10 DEF ListInv, Entries, KeyOf

(* A node stored in the first empty entry is the next of the list.          *)
LEMMA StoredContinuesList ==
  ASSUME ListInv, NodeInv', NEW a \in Announcement,
         announced' = Append(announced, a),
         NEW free \in Entries, KeyOf(nodeTbl[free]) = EmptyKey,
         \A j \in Entries : KeyOf(nodeTbl[j]) = EmptyKey => free <= j,
         \A i \in Entries : KeyOf(nodeTbl[i]) # KeyOf(a),
         nodeTbl' = [nodeTbl EXCEPT ![free] =
                       [nwkAddr |-> a.nwkAddr, extAddr |-> a.extAddr,
                        devId |-> a.devId, devType |-> TypeOfDevice(a.devId)]]
  PROVE  ListInv'
<1> DEFINE NodeOf(b) == [nwkAddr |-> b.nwkAddr, extAddr |-> b.extAddr,
                         devId |-> b.devId, devType |-> TypeOfDevice(b.devId)]
<1>c. PICK N, C : N = Len(announced) + 1 /\ C = Cardinality(Firsts)
  OBVIOUS
<1>0. NodeTypeOK /\ TableIsFirstAnnouncements /\ NothingForgotten
  BY DEF ListInv, NodeInv
<1>1. KeyOf(a) # EmptyKey /\ free \notin Filled
  BY DEF Filled
<1>2. \A m \in 1 .. N - 1 : KeyOf(announced[m]) # KeyOf(a)
  <2> SUFFICES ASSUME NEW m \in 1 .. N - 1, KeyOf(announced[m]) = KeyOf(a)
               PROVE  FALSE
    OBVIOUS
  <2>1. m \in 1 .. Len(announced)
    BY <1>c, <1>0 DEF NodeTypeOK
  <2>2. KeyOf(a) \in KnownKeys
    BY <1>0, <1>1, <2>1 DEF NothingForgotten
  <2> QED
    BY <2>2 DEF KnownKeys, Filled
<1>3. /\ N \in Nat /\ N \notin Firsts /\ Len(announced') = N
      /\ announced'[N] = a
      /\ \A n \in 1 .. N - 1 : announced'[n] = announced[n]
      /\ \A n \in Firsts : n \in 1 .. N - 1 /\ Place(n)' = Place(n)
      /\ Firsts' = Firsts \cup {N}
      /\ Cardinality(Firsts') = C + 1
      /\ Place(N)' = C
  BY <1>0, <1>1, <1>2, <1>c, FirstsGrow
<1>4. C \in Nat /\ \A n \in Firsts : Place(n) \in Nat
  BY <1>0, <1>c, FirstsFinite
<1>5. Len(announced) = N - 1
  BY <1>0, <1>c DEF NodeTypeOK
<1>6. \A i \in Entries : nodeTbl'[i] = IF i = free THEN NodeOf(a) ELSE nodeTbl[i]
  BY <1>0 DEF NodeTypeOK
<1>7. KeyOf(NodeOf(a)) = KeyOf(a)
  BY DEF KeyOf
<1> HIDE DEF NodeOf
<1>8. free = C
  <2>1. free >= C
    BY <1>1, <1>4, <1>c, MaxNodeNumAssumption DEF ListInv, Entries
  <2>2. C \in Entries
    BY <2>1, <1>4, MaxNodeNumAssumption DEF Entries
  <2>3. nodeTbl[C] = EmptyNode
    BY <1>0, <1>4, <1>c, <2>2 DEF TableIsFirstAnnouncements
  <2>4. free <= C
    BY <2>2, <2>3, EmptyNodeKey
  <2> QED
    BY <1>4, <2>1, <2>4, MaxNodeNumAssumption DEF Entries
<1>9. Filled' = Filled \cup {free}
  BY <1>1, <1>6, <1>7 DEF Filled, EmptyKey, KeyOf
<1>10. TableIsFirstAnnouncements'
  <2>1. ASSUME NEW n \in Firsts', Place(n)' < MaxNodeNum
        PROVE  nodeTbl'[Place(n)'] = NodeOf(announced'[n])
    <3>1. CASE n = N
      BY <1>3, <1>6, <1>8, <3>1
    <3>2. CASE n \in Firsts
      <4>1. Place(n) \in Nat /\ Place(n)' = Place(n) /\ announced'[n] = announced[n]
        BY <1>3, <1>4, <3>2
      <4>2. nodeTbl[Place(n)] = NodeOf(announced[n])
        BY <1>0, <2>1, <3>2, <4>1 DEF TableIsFirstAnnouncements, NodeOf
      <4>3. Place(n) \in Entries
        BY <2>1, <4>1, MaxNodeNumAssumption DEF Entries
      <4>4. Place(n) # free
        <5>1. n \in 1 .. Len(announced) /\ IsFirst(n)
          BY <3>2 DEF Firsts
        <5>2. KeyOf(NodeOf(announced[n])) = KeyOf(announced[n])
          BY DEF KeyOf, NodeOf
        <5> QED
          BY <4>2, <5>1, <5>2 DEF IsFirst
      <4> QED
        BY <1>6, <4>1, <4>2, <4>3, <4>4
    <3> QED
      BY <1>3, <3>1, <3>2
  <2>2. \A i \in Entries : i >= Cardinality(Firsts') => nodeTbl'[i] = EmptyNode
    <3> SUFFICES ASSUME NEW i \in Entries, i >= Cardinality(Firsts')
                 PROVE  nodeTbl'[i] = EmptyNode
      OBVIOUS
    <3>1. i # free /\ i >= C
      BY <1>3, <1>4, <1>8, MaxNodeNumAssumption DEF Entries
    <3> QED
      BY <1>0, <1>6, <1>c, <3>1 DEF TableIsFirstAnnouncements
  <2>3. (\A n \in Firsts : Place(n) < MaxNodeNum =>
          LET b == announced[n]
          IN  nodeTbl[Place(n)] =
                [nwkAddr |-> b.nwkAddr, extAddr |-> b.extAddr,
                 devId |-> b.devId, devType |-> TypeOfDevice(b.devId)])'
    BY <2>1 DEF NodeOf
  <2>4. (\A i \in Entries : i >= Cardinality(Firsts) => nodeTbl[i] = EmptyNode)'
    BY <2>2 DEF Entries, EmptyNode
  <2> QED
    BY <2>3, <2>4 DEF TableIsFirstAnnouncements
<1>11. \A i \in Entries : i < Cardinality(Firsts') => i \in Filled'
  <2> SUFFICES ASSUME NEW i \in Entries, i < Cardinality(Firsts'), i # free
               PROVE  i \in Filled
    BY <1>9
  <2>1. i < C
    BY <1>3, <1>4, <1>8, MaxNodeNumAssumption DEF Entries
  <2> QED
    BY <1>c, <2>1 DEF ListInv
<1>12. \A i \in Filled' : \E m \in 1 .. Len(announced') :
                            KeyOf(announced'[m]) = KeyOf(nodeTbl'[i])
  <2> SUFFICES ASSUME NEW i \in Filled'
               PROVE  \E m \in 1 .. N : KeyOf(announced'[m]) = KeyOf(nodeTbl'[i])
    BY <1>3
  <2>1. CASE i = free
    <3>1. N \in 1 .. N
      BY <1>3, <1>5, <1>0 DEF NodeTypeOK
    <3> QED
      BY <1>3, <1>6, <1>7, <2>1, <3>1
  <2>2. CASE i \in Filled /\ i # free
    <3>1. PICK m \in 1 .. N - 1 : KeyOf(announced[m]) = KeyOf(nodeTbl[i])
      BY <1>5, <2>2 DEF ListInv
    <3>2. m \in 1 .. N /\ announced'[m] = announced[m]
      BY <1>3
    <3>3. nodeTbl'[i] = nodeTbl[i]
      BY <1>6, <2>2 DEF Filled
    <3> QED
      BY <3>1, <3>2, <3>3
  <2> QED
    BY <1>9, <2>1, <2>2
<1> QED
  BY <1>10, <1>11, <1>12 DEF ListInv, Entries, KeyOf

LEMMA NodesAddList ==
  ASSUME ListInv, NEW nwk \in NwkAddr, NEW ext \in ExtAddr,
         NEW devID \in DevId, nodes_add(nwk, ext, devID)
  PROVE  ListInv'
<1> DEFINE a == [nwkAddr |-> nwk, extAddr |-> ext, devId |-> devID]
           free == nodes_search(EMPTY_NODE_NWK_ADDR, EmptyExtAddr)
<1>1. NodeInv /\ NodeInv'
  BY NodesAddStep DEF ListInv
<1>2. /\ a \in Announcement
      /\ KeyOf(a) = <<nwk, ext>>
      /\ announced' = Append(announced, a)
  BY DEF nodes_add, Announced, Announcement, KeyOf
<1>3. CASE UNCHANGED nodeTbl /\ nodes_search(nwk, ext) # NODE_NULL
  <2>1. PICK i \in Entries : KeyOf(nodeTbl[i]) = <<nwk, ext>>
    BY <1>3, NodesSearchSpec
  <2>2. KeyOf(a) = EmptyKey \/ \E j \in Filled : KeyOf(nodeTbl[j]) = KeyOf(a)
    BY <1>2, <2>1 DEF Filled
  <2> HIDE DEF a
  <2> QED
    BY <1>1, <1>2, <1>3, <2>2, RefusedKeepsList
<1>4. CASE UNCHANGED nodeTbl /\ free = NODE_NULL
  <2>1. Filled = Entries
    BY <1>4, NodesSearchSpec DEF Matching, Filled, EmptyKey
  <2> HIDE DEF a
  <2> QED
    BY <1>1, <1>2, <1>4, <2>1, RefusedKeepsList
<1>5. CASE /\ nodes_search(nwk, ext) = NODE_NULL
           /\ free # NODE_NULL
           /\ nodeTbl' = [nodeTbl EXCEPT ![free] =
                 [nwkAddr |-> nwk, extAddr |-> ext, devId |-> devID,
                  devType |-> TypeOfDevice(devID)]]
  <2>1. \A i \in Entries : KeyOf(nodeTbl[i]) # KeyOf(a)
    BY <1>2, <1>5, NodesSearchSpec DEF Matching
  <2>2. PICK f \in Entries :
           /\ f = free
           /\ KeyOf(nodeTbl[f]) = EmptyKey
           /\ \A j \in Entries : KeyOf(nodeTbl[j]) = EmptyKey => f <= j
    BY <1>5, NodesSearchSpec DEF EmptyKey
  <2>3. nodeTbl' = [nodeTbl EXCEPT ![f] =
                       [nwkAddr |-> a.nwkAddr, extAddr |-> a.extAddr,
                        devId |-> a.devId, devType |-> TypeOfDevice(a.devId)]]
    BY <1>5, <2>2
  <2> HIDE DEF a
  <2> QED
    BY <1>1, <1>2, <2>1, <2>2, <2>3, StoredContinuesList
<1> QED
  BY <1>3, <1>4, <1>5 DEF nodes_add, StoreAt

-----------------------------------------------------------------------------
LEMMA NodeStutter == NodeInv /\ UNCHANGED nodeVars => NodeInv'
  BY DEF nodeVars, NodeInv, NodeTypeOK, NodesAreDistinct, NothingForgotten,
         Filled, KnownKeys, KeyOf

LEMMA NodeInvariance == NodeSpec => []NodeInv
<1>1. NodeInv /\ [NodeNext]_nodeVars => NodeInv'
  <2> SUFFICES ASSUME NodeInv, [NodeNext]_nodeVars PROVE NodeInv'
    OBVIOUS
  <2>1. CASE UNCHANGED nodeVars
    BY <2>1, NodeStutter
  <2>2. ASSUME NEW nwk \in NwkAddr, NEW ext \in ExtAddr, NEW devID \in DevId,
               nodes_add(nwk, ext, devID)
        PROVE  NodeInv'
    BY <2>2, NodesAddStep
  <2> QED
    BY <2>1, <2>2 DEF NodeNext
<1> QED
  BY <1>1, NodeInitInv, PTL DEF NodeSpec

(* The entries of the table keep their types and the count stays within it. *)
THEOREM NodeTypeCorrect == NodeSpec => []NodeTypeOK
<1>1. NodeInv => NodeTypeOK
  BY DEF NodeInv
<1> QED
  BY <1>1, NodeInvariance, PTL

(* No two entries share their addresses, empty entries are recognised as    *)
(* such and curNodeNum counts the others, after any announcements.          *)
THEOREM NodesAlwaysDistinct == NodeSpec => []NodesAreDistinct
<1>1. NodeInv => NodesAreDistinct
  BY DEF NodeInv
<1> QED
  BY <1>1, NodeInvariance, PTL

(* While there is room, every device that announced itself is in the table. *)
THEOREM NodesNeverForgotten == NodeSpec => []NothingForgotten
<1>1. NodeInv => NothingForgotten
  BY DEF NodeInv
<1> QED
  BY <1>1, NodeInvariance, PTL

LEMMA ListInvariance == NodeSpec => []ListInv
<1>1. NodeInit => ListInv
  <2> SUFFICES ASSUME NodeInit PROVE ListInv
    OBVIOUS
  <2>1. \A i \in Entries : nodeTbl[i] = EmptyNode
    BY DEF NodeInit, nodes_reset
  <2>2. Firsts = {} /\ Filled = {}
    BY <2>1, EmptyNodeKey, SMT DEF NodeInit, Firsts, Filled
  <2>3. Cardinality(Firsts) = 0
    BY <2>2, FS_EmptySet
  <2>4. NodeInv
    BY NodeInitInv
  <2> QED
    BY <2>1, <2>2, <2>3, <2>4, MaxNodeNumAssumption
    DEF ListInv, TableIsFirstAnnouncements, Entries
<1>2. ListInv /\ [NodeNext]_nodeVars => ListInv'
  <2> SUFFICES ASSUME ListInv, [NodeNext]_nodeVars PROVE ListInv'
    OBVIOUS
  <2>1. CASE UNCHANGED nodeVars
    <3>1. NodeInv'
      BY <2>1, NodeStutter DEF ListInv
    <3> QED
      BY <2>1, <3>1 DEF ListInv, TableIsFirstAnnouncements, nodeVars, Firsts,
         IsFirst, Place, Filled, KeyOf
  <2>2. ASSUME NEW nwk \in NwkAddr, NEW ext \in ExtAddr, NEW devID \in DevId,
               nodes_add(nwk, ext, devID)
        PROVE  ListInv'
    BY <2>2, NodesAddList
  <2> QED
    BY <2>1, <2>2 DEF NodeNext
<1> QED
  BY <1>1, <1>2, PTL DEF NodeSpec

(* The table is the list of the first devices announced, in the order of    *)
(* their first announcements, whatever else is announced and however often. *)
THEOREM NodesListFirstAnnouncements == NodeSpec => []TableIsFirstAnnouncements
<1>1. ListInv => TableIsFirstAnnouncements
  BY DEF ListInv
<1> QED
  BY <1>1, ListInvariance, PTL

(* An address pair of the table is found in one entry only.                 *)
LEMMA EntryOfUnique ==
  ASSUME NodesAreDistinct, NEW i \in Filled
  PROVE  EntryOf(KeyOf(nodeTbl[i])) = i
  BY Zenon DEF EntryOf, NodesAreDistinct

(* The directory holds as many addresses as the table has filled entries,   *)
(* or fewer.                                                                *)
LEMMA KnownCardinality == Cardinality(KnownKeys) <= Cardinality(Filled)
                          /\ Cardinality(KnownKeys) \in Nat
<1> DEFINE f == [i \in Filled |-> KeyOf(nodeTbl[i])]
<1>1. f \in Surjection(Filled, KnownKeys)
  BY DEF Surjection, KnownKeys
<1>2. IsFiniteSet(KnownKeys) /\ Cardinality(KnownKeys) <= Cardinality(Filled)
  <2> HIDE DEF f
  <2> QED
    BY <1>1, FilledFinite, FS_Surjection
<1> QED
  BY <1>2, FS_CardinalityType

(* The table implements the directory: the first announcement of an address *)
(* pair decides its entry, which is never changed or lost.                  *)
THEOREM NodeRefinement == NodeSpec => NodesAreDirectory
<1> DEFINE dir == [k \in KnownKeys |-> nodeTbl[EntryOf(k)].devId]
<1>1. NodeInit => DirectoryOf!Init
  <2> SUFFICES ASSUME NodeInit PROVE dir = [k \in {} |-> 0]
    BY DEF DirectoryOf!Init
  <2>1. Filled = {}
    BY EmptyNodeKey DEF NodeInit, nodes_reset, Filled
  <2>2. KnownKeys = {}
    BY <2>1 DEF KnownKeys
  <2> QED
    BY <2>2
<1>2. NodeInv /\ [NodeNext]_nodeVars => [DirectoryOf!Next]_dir
  <2> SUFFICES ASSUME NodeInv, [NodeNext]_nodeVars
               PROVE  [DirectoryOf!Next]_dir
    OBVIOUS
  <2>1. UNCHANGED nodeTbl => UNCHANGED dir
    BY DEF KnownKeys, Filled, EntryOf, KeyOf
  <2>2. CASE UNCHANGED nodeVars
    BY <2>1, <2>2 DEF nodeVars
  <2>3. ASSUME NEW nwk \in NwkAddr, NEW ext \in ExtAddr, NEW devID \in DevId,
               nodes_add(nwk, ext, devID), ~ UNCHANGED nodeTbl
        PROVE  DirectoryOf!Next
    <3> DEFINE k == <<nwk, ext>>
    <3>1. NodeInv'
      BY <2>3, NodesAddStep
    <3>2. PICK free \in Entries :
             /\ k \notin KnownKeys
             /\ Filled # Entries
             /\ Filled' = Filled \cup {free}
             /\ nodeTbl'[free].devId = devID
             /\ KeyOf(nodeTbl'[free]) = k
             /\ \A i \in Filled : nodeTbl'[i] = nodeTbl[i]
             /\ KnownKeys' = KnownKeys \cup {k}
      BY <2>3, NodesAddStep
    <3>3. Cardinality(DOMAIN dir) < MaxNodeNum
      <4>1. Cardinality(KnownKeys) < MaxNodeNum
        BY <3>2, FilledFinite, KnownCardinality, MaxNodeNumAssumption
      <4> QED
        BY <4>1
    <3>4. ASSUME NEW x \in KnownKeys
          PROVE  dir'[x] = dir[x]
      <4>1. PICK i \in Filled : x = KeyOf(nodeTbl[i])
        BY DEF KnownKeys
      <4>2. EntryOf(x) = i
        BY <4>1, EntryOfUnique DEF NodeInv
      <4>3. i \in Filled' /\ nodeTbl'[i] = nodeTbl[i] /\ x \in KnownKeys'
        BY <3>2
      <4>4. \A j \in Filled' : KeyOf(nodeTbl'[j]) = x <=> j = i
        <5>1. NodesAreDistinct'
          BY <3>1 DEF NodeInv
        <5>2. \A j \in Filled' : KeyOf(nodeTbl'[j]) = KeyOf(nodeTbl'[i]) => j = i
          BY <4>3, <5>1 DEF NodesAreDistinct, KeyOf
        <5> QED
          BY <4>1, <4>3, <5>2
      <4>5. EntryOf(x)' = i
        <5>1. EntryOf(x)' = CHOOSE j \in Filled' : KeyOf(nodeTbl'[j]) = x
          BY DEF EntryOf, KeyOf
        <5> QED
          BY <4>3, <4>4, <5>1, Zenon
      <4> QED
        BY <4>2, <4>3, <4>5
    <3>5. dir'[k] = devID
      <4>1. \A j \in Filled' : KeyOf(nodeTbl'[j]) = k <=> j = free
        <5>1. \A j \in Filled : KeyOf(nodeTbl'[j]) \in KnownKeys
          BY <3>2 DEF KnownKeys
        <5> QED
          BY <3>2, <5>1
      <4>2. EntryOf(k)' = free
        <5>1. EntryOf(k)' = CHOOSE j \in Filled' : KeyOf(nodeTbl'[j]) = k
          BY DEF EntryOf, KeyOf
        <5> HIDE DEF k
        <5> QED
          BY <3>2, <4>1, <5>1, Zenon
      <4> QED
        BY <3>2, <4>2
    <3>6. dir' = [x \in DOMAIN dir \cup {k} |-> IF x = k THEN devID ELSE dir[x]]
      <4>1. dir' = [x \in KnownKeys \cup {k} |-> dir'[x]]
        BY <3>2
      <4>2. DOMAIN dir = KnownKeys
        OBVIOUS
      <4> HIDE DEF dir, k
      <4>3. \A x \in KnownKeys \cup {k} :
              dir'[x] = IF x = k THEN devID ELSE dir[x]
        BY <3>2, <3>4, <3>5
      <4> QED
        BY <4>1, <4>2, <4>3, Zenon
    <3>7. DirectoryOf!Cardinality(DOMAIN dir) < MaxNodeNum
      BY <3>3 DEF Cardinality, DirectoryOf!Cardinality
    <3>8. k \in NwkAddr \X ExtAddr /\ k \notin DOMAIN dir
      BY <3>2
    <3>9. DirectoryOf!Announce(k, devID)
      <4> HIDE DEF dir, k
      <4> QED
        BY <3>6, <3>7, <3>8 DEF DirectoryOf!Announce, dir
    <3> QED
      BY <3>8, <3>9, Zenon DEF DirectoryOf!Next
  <2> QED
    BY <2>1, <2>2, <2>3 DEF NodeNext
<1> QED
  BY <1>1, <1>2, NodeInvariance, PTL DEF NodeSpec, NodesAreDirectory, DirectoryOf!Spec
=============================================================================
