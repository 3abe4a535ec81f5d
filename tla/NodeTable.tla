----------------------------- MODULE NodeTable -----------------------------
(***************************************************************************)
(* The table of ZigBee nodes the gateway has heard of                      *)
(* (src/gateway_forSDK/nodes.c): MAX_NODE_NUM entries that are filled by    *)
(* device announcements and never changed or released.  The endpoint and   *)
(* the capability an entry also stores are never read and are left out.    *)
(***************************************************************************)
EXTENDS Integers, Sequences, FiniteSets

CONSTANTS NwkAddr,       \* the 16-bit network addresses announced
          ExtAddr,       \* the extended addresses announced
          EmptyExtAddr,  \* eight bytes 0xff
          DevId,         \* the 16-bit device identifiers handed to nodes_add
          MaxNodeNum     \* MAX_NODE_NUM, the entries of the table

ASSUME NwkAddrAssumption == NwkAddr \subseteq 0 .. 65535
ASSUME DevIdAssumption == DevId \subseteq 0 .. 65535
ASSUME MaxNodeNumAssumption == MaxNodeNum \in Nat

EMPTY_NODE_NWK_ADDR == 65535
NODE_NULL           == -1     \* the NULL of nodes_search

DEV_TYPE_LIGHT        == 1
DEV_TYPE_ONOFF_SWITCH == 3
DEV_TYPE_UNKNOWN      == 4

VARIABLES nodeTbl,      \* the entries
          curNodeNum,   \* the number of entries filled
          announced     \* history: the calls of nodes_add so far

nodeVars == <<nodeTbl, curNodeNum, announced>>

Entries == 0 .. MaxNodeNum - 1

Node == [nwkAddr : NwkAddr \cup {EMPTY_NODE_NWK_ADDR},
         extAddr : ExtAddr \cup {EmptyExtAddr},
         devId   : DevId \cup {65535},
         devType : {DEV_TYPE_LIGHT, DEV_TYPE_ONOFF_SWITCH, DEV_TYPE_UNKNOWN, 255}]

Announcement == [nwkAddr : NwkAddr, extAddr : ExtAddr, devId : DevId]

NodeTypeOK == /\ nodeTbl \in [Entries -> Node]
              /\ curNodeNum \in 0 .. MaxNodeNum
              /\ announced \in Seq(Announcement)

(* memset of an entry to 0xff, as nodes_reset does for every entry. *)
EmptyNode == [nwkAddr |-> EMPTY_NODE_NWK_ADDR, extAddr |-> EmptyExtAddr,
              devId |-> 65535, devType |-> 255]

nodes_reset == /\ nodeTbl = [i \in Entries |-> EmptyNode]
               /\ curNodeNum = 0

NodeInit == nodes_reset /\ announced = << >>

KeyOf(n) == <<n.nwkAddr, n.extAddr>>

(* Fault: comparing the network addresses only.                             *)
MatchingNwk(nwk, ext) == {i \in Entries : nodeTbl[i].nwkAddr = nwk}

Matching(nwk, ext) == {i \in Entries : KeyOf(nodeTbl[i]) = <<nwk, ext>>}

(* Fault: the last matching entry, so that the table fills from its end.    *)
nodes_searchLast(nwk, ext) ==
  IF Matching(nwk, ext) = {}
  THEN NODE_NULL
  ELSE CHOOSE i \in Matching(nwk, ext) : \A j \in Matching(nwk, ext) : j <= i

(* The index of the first entry with this pair of addresses. *)
nodes_search(nwk, ext) ==
  IF Matching(nwk, ext) = {}
  THEN NODE_NULL
  ELSE CHOOSE i \in Matching(nwk, ext) : \A j \in Matching(nwk, ext) : i <= j

(* The switch of nodes_add on the device identifier. *)
TypeOfDevice(devID) ==
  CASE devID \in {256, 257, 258, 528} -> DEV_TYPE_LIGHT
    [] devID \in {0, 259, 260, 261}   -> DEV_TYPE_ONOFF_SWITCH
    [] OTHER                          -> DEV_TYPE_UNKNOWN

(* What nodes_add stores, and the history of its calls. *)
StoreAt(i, nwk, ext, devID) ==
  nodeTbl' = [nodeTbl EXCEPT ![i] =
                [nwkAddr |-> nwk, extAddr |-> ext, devId |-> devID,
                 devType |-> TypeOfDevice(devID)]]

Announced(nwk, ext, devID) ==
  announced' = Append(announced,
                 [nwkAddr |-> nwk, extAddr |-> ext, devId |-> devID])

(* Faults: counting a refused call; storing a node again; overwriting the   *)
(* entry of a node that announces itself again.                             *)
nodes_addCounting(nwk, ext, devID) ==
  LET free == nodes_search(EMPTY_NODE_NWK_ADDR, EmptyExtAddr)
  IN  /\ Announced(nwk, ext, devID)
      /\ curNodeNum' = curNodeNum + 1
      /\ IF nodes_search(nwk, ext) # NODE_NULL \/ free = NODE_NULL
         THEN UNCHANGED nodeTbl
         ELSE StoreAt(free, nwk, ext, devID)

nodes_addAgain(nwk, ext, devID) ==
  LET free == nodes_search(EMPTY_NODE_NWK_ADDR, EmptyExtAddr)
  IN  /\ Announced(nwk, ext, devID)
      /\ free # NODE_NULL
      /\ StoreAt(free, nwk, ext, devID)
      /\ curNodeNum' = curNodeNum + 1

nodes_addRefreshing(nwk, ext, devID) ==
  LET known == nodes_search(nwk, ext)
  IN  IF known # NODE_NULL
      THEN /\ Announced(nwk, ext, devID)
           /\ StoreAt(known, nwk, ext, devID)
           /\ UNCHANGED curNodeNum
      ELSE nodes_addAgain(nwk, ext, devID)

nodes_add(nwk, ext, devID) ==
  LET free == nodes_search(EMPTY_NODE_NWK_ADDR, EmptyExtAddr)
      refused == \/ nodes_search(nwk, ext) # NODE_NULL
                 \/ free = NODE_NULL
  IN  /\ Announced(nwk, ext, devID)
      /\ \/ refused /\ UNCHANGED <<nodeTbl, curNodeNum>>
         \/ /\ ~ refused
            /\ StoreAt(free, nwk, ext, devID)
            /\ curNodeNum' = curNodeNum + 1

NodeNext == \E nwk \in NwkAddr, ext \in ExtAddr, devID \in DevId :
               nodes_add(nwk, ext, devID)

NodeSpec == NodeInit /\ [][NodeNext]_nodeVars

-----------------------------------------------------------------------------
EmptyKey == <<EMPTY_NODE_NWK_ADDR, EmptyExtAddr>>

Filled == {i \in Entries : KeyOf(nodeTbl[i]) # EmptyKey}

KnownKeys == {KeyOf(nodeTbl[i]) : i \in Filled}

(* The entries in use have different address pairs, so nodes_search has one *)
(* answer; an empty entry is never mistaken for a node or a node for an     *)
(* empty entry; and curNodeNum counts the nodes.                            *)
NodesAreDistinct ==
  /\ \A i, j \in Filled : KeyOf(nodeTbl[i]) = KeyOf(nodeTbl[j]) => i = j
  /\ \A i \in Entries \ Filled : nodeTbl[i] = EmptyNode
  /\ curNodeNum = Cardinality(Filled)

(* A device that announced itself is in the table unless the table is full: *)
(* nodes_add drops an announcement only for a node it knows or for want of  *)
(* room (the address pair that marks an empty entry excepted).              *)
NothingForgotten ==
  Filled # Entries =>
    \A n \in 1 .. Len(announced) :
       KeyOf(announced[n]) \in KnownKeys \cup {EmptyKey}

(* The announcements that are the first of their address pair, and the      *)
(* number of such announcements before the n-th one.                        *)
IsFirst(n) ==
  /\ KeyOf(announced[n]) # EmptyKey
  /\ \A m \in 1 .. n - 1 : KeyOf(announced[m]) # KeyOf(announced[n])

Firsts == {n \in 1 .. Len(announced) : IsFirst(n)}

Place(n) == Cardinality({m \in Firsts : m < n})

(* The table lists the first MaxNodeNum devices ever announced, in the      *)
(* order of their first announcements and with the device type of that      *)
(* announcement, without holes: what a query of the Apps reports depends on *)
(* nothing else, in particular not on repeats.                              *)
TableIsFirstAnnouncements ==
  /\ \A n \in Firsts :
        Place(n) < MaxNodeNum =>
          LET a == announced[n]
          IN  nodeTbl[Place(n)] =
                [nwkAddr |-> a.nwkAddr, extAddr |-> a.extAddr,
                 devId |-> a.devId, devType |-> TypeOfDevice(a.devId)]
  /\ \A i \in Entries : i >= Cardinality(Firsts) => nodeTbl[i] = EmptyNode

(* The table implements a directory in which the first announcement of an   *)
(* address wins and no entry is ever changed or lost.                       *)
EntryOf(k) == CHOOSE i \in Filled : KeyOf(nodeTbl[i]) = k

DirectoryOf == INSTANCE NodeDirectory
                 WITH Key <- NwkAddr \X ExtAddr, Capacity <- MaxNodeNum,
                      known <- [k \in KnownKeys |-> nodeTbl[EntryOf(k)].devId]

NodesAreDirectory == DirectoryOf!Spec
=============================================================================
