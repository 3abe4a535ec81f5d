----------------------------- MODULE SocketPool -----------------------------
(***************************************************************************)
(* The pool of accepted client sockets (src/gateway_forSDK/server.c): a    *)
(* table of MAX_SOCKET_NUM slots and a count of the slots in use.          *)
(***************************************************************************)
EXTENDS Integers, FiniteSets

CONSTANTS Sock,            \* the file descriptors accept() may return
          MaxSocketNum     \* MAX_SOCKET_NUM, the slots of the table

ASSUME SockAssumption == Sock \subseteq Nat
ASSUME MaxSocketNumAssumption == MaxSocketNum \in Nat

INVALID_SOCKET   == -1
SOCKET_NOT_FOUND == -1

VARIABLES sockets,   \* sockets[i], the descriptor in slot i or INVALID_SOCKET
          curNum     \* the number of descriptors in the table

poolVars == <<sockets, curNum>>

Slots == 0 .. MaxSocketNum - 1

PoolTypeOK == /\ sockets \in [Slots -> Sock \cup {INVALID_SOCKET}]
              /\ curNum \in Nat

(* server_init *)
PoolInit == /\ sockets = [i \in Slots |-> INVALID_SOCKET]
            /\ curNum = 0

(* The index of the first slot that holds sock.  Searching INVALID_SOCKET   *)
(* finds the first empty slot.                                              *)
Holding(sock) == {i \in Slots : sockets[i] = sock}

socketPool_search(sock) ==
  IF Holding(sock) = {}
  THEN SOCKET_NOT_FOUND
  ELSE CHOOSE i \in Holding(sock) : \A j \in Holding(sock) : i <= j

(* Faults: without the search for newSock; with a full table reusing slot 0. *)
socketPool_addUnsearched(newSock) ==
  LET free == socketPool_search(INVALID_SOCKET)
  IN  \/ free = SOCKET_NOT_FOUND /\ UNCHANGED poolVars
      \/ /\ free # SOCKET_NOT_FOUND
         /\ sockets' = [sockets EXCEPT ![free] = newSock]
         /\ curNum' = curNum + 1

socketPool_addEvicting(newSock) ==
  /\ socketPool_search(newSock) = SOCKET_NOT_FOUND
  /\ IF socketPool_search(INVALID_SOCKET) = SOCKET_NOT_FOUND
     THEN sockets' = [sockets EXCEPT ![0] = newSock] /\ UNCHANGED curNum
     ELSE socketPool_addUnsearched(newSock)

socketPool_add(newSock) ==
  LET free == socketPool_search(INVALID_SOCKET)
      refused == \/ socketPool_search(newSock) # SOCKET_NOT_FOUND
                 \/ free = SOCKET_NOT_FOUND
  IN  \/ refused /\ UNCHANGED poolVars
      \/ /\ ~ refused
         /\ sockets' = [sockets EXCEPT ![free] = newSock]
         /\ curNum' = curNum + 1

(* Faults: counting a deletion that finds nothing; not clearing the slot.   *)
socketPool_delUnfound(delSock) ==
  /\ sockets' = [i \in Slots |-> IF i = socketPool_search(delSock)
                                 THEN INVALID_SOCKET ELSE sockets[i]]
  /\ curNum' = curNum - 1

socketPool_delUncleared(delSock) ==
  /\ socketPool_search(delSock) # SOCKET_NOT_FOUND
  /\ curNum' = curNum - 1
  /\ UNCHANGED sockets

socketPool_del(delSock) ==
  LET index == socketPool_search(delSock)
  IN  \/ index = SOCKET_NOT_FOUND /\ UNCHANGED poolVars
      \/ /\ index # SOCKET_NOT_FOUND
         /\ sockets' = [sockets EXCEPT ![index] = INVALID_SOCKET]
         /\ curNum' = curNum - 1

(* The slots that socketPool_get finds in use.                              *)
InUse == {i \in Slots : sockets[i] # INVALID_SOCKET}

(* Fault: looking only at the first curNum slots.                           *)
socketPool_getFirst == {<<i, sockets[i]>> : i \in {j \in InUse : j < curNum}}

(* The descriptors in use with their slots, in whose order the callers go   *)
(* through them.                                                            *)
socketPool_get == {<<i, sockets[i]>> : i \in InUse}

PoolNext == \E s \in Sock : socketPool_add(s) \/ socketPool_del(s)

PoolSpec == PoolInit /\ [][PoolNext]_poolVars

-----------------------------------------------------------------------------
Pooled == {sockets[i] : i \in InUse}

(* curNum, kept by increments and decrements, is the number of slots in use *)
(* (what a scan of the table would count) after any history of accepts and  *)
(* disconnections, full-table refusals and unknown deletions included.      *)
CountIsExact == curNum = Cardinality(InUse)

(* No descriptor sits in two slots: the broadcasts of appCmd.c, which send  *)
(* once per slot, would otherwise send a report twice to the same client,   *)
(* and one deletion would leave a closed descriptor behind.                 *)
NoDuplicates ==
  \A i, j \in InUse : sockets[i] = sockets[j] => i = j

(* The pool implements a bounded set: whatever slots it uses, it never      *)
(* loses a member, keeps a deleted one or grows past its capacity.          *)
BoundedSetOf == INSTANCE BoundedSet
                  WITH Elem <- Sock, Capacity <- MaxSocketNum, members <- Pooled

PoolIsBoundedSet == BoundedSetOf!Spec
=============================================================================
