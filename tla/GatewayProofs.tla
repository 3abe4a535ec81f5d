--------------------------- MODULE GatewayProofs ---------------------------
(***************************************************************************)
(* Theorems about Gateway, for every number of Apps, descriptors, slots,   *)
(* messages and lines, and without the bounds' being reached or not.       *)
(*                                                                         *)
(* Four inductive invariants.  DescriptorInv: the descriptors that the    *)
(* pool, the last poll and the broadcast under way hold are open.  It      *)
(* needs that a connection in the backlog is there once and has no         *)
(* descriptor yet, for accept() would otherwise take an open one away.     *)
(* FrameInv: the frames sent to the coordinator are numbered and ordered   *)
(* as they must be.  It needs that the loop serves no App while it waits   *)
(* for a key.  TableInv and Typed: the node table and the types.  They     *)
(* need that an entry is empty or holds what a device announced, for the   *)
(* reports are made from the entries, and DescriptorInv, for the reports   *)
(* are addressed to the pool.  QueueInv: what is to be sent has turns, and *)
(* one message to a client in each.  It is what the refinement of          *)
(* Broadcaster needs, with DescriptorInv, which makes clients and slots    *)
(* correspond.                                                             *)
(***************************************************************************)
EXTENDS Gateway, SocketPoolProofs, NodeTableProofs, SocCmdProofs

LinkState == {"none", "alive", "stuck", "closed", "poked", "broken", "reset", "gone"}

Connections ==
  /\ link \in [App -> LinkState]
  /\ fdOf \in [App -> Fd \cup {NoFd}]
  /\ \A a \in App : fdOf[a] # NoFd => link[a] # "none"

Backlogged ==
  /\ backlog \in Seq(App)
  /\ \A k \in 1 .. Len(backlog) :
       link[backlog[k]] # "none" /\ fdOf[backlog[k]] = NoFd
  /\ \A j, k \in 1 .. Len(backlog) : backlog[j] = backlog[k] => j = k

DescriptorInv ==
  PoolInv /\ Connections /\ Backlogged /\ PoolIsOpen /\ NoStaleDescriptor

(* A connection never returns to the state of one that was not made.        *)
LinksKept == /\ link' \in [App -> LinkState]
             /\ \A a \in App : link[a] # "none" => link'[a] # "none"

LEMMA DescriptorInit == Init => DescriptorInv
<1> SUFFICES ASSUME Init PROVE DescriptorInv
  OBVIOUS
<1>1. PoolInv
  BY PoolInitInv DEF Init
<1>2. InUse = {}
  BY DEF Init, PoolInit, InUse
<1>3. Connections
  BY DEF Init, TcpInit, Connections, LinkState
<1>4. Backlogged
  BY DEF Init, TcpInit, Backlogged
<1>5. PoolIsOpen
  BY <1>2 DEF Init, TcpInit, PoolIsOpen, Pooled
<1>6. NoStaleDescriptor
  BY DEF Init, NoStaleDescriptor
<1> QED
  BY <1>1, <1>3, <1>4, <1>5, <1>6 DEF DescriptorInv

(* The steps that open and close nothing: what they put into work and todo  *)
(* comes from the pool.                                                     *)
LEMMA QuietStep ==
  ASSUME DescriptorInv, UNCHANGED <<poolVars, fdOf, backlog>>, LinksKept,
         work' \subseteq socketPool_get,
         \A s \in todo' : <<s.slot, s.fd>> \in socketPool_get
  PROVE  DescriptorInv'
<1>1. sockets' = sockets /\ curNum' = curNum /\ fdOf' = fdOf /\ backlog' = backlog
  BY DEF poolVars
<1>2. PoolInv'
  BY <1>1 DEF DescriptorInv, PoolInv, PoolTypeOK, CountIsExact, NoDuplicates, InUse
<1>3. Connections'
  BY <1>1 DEF DescriptorInv, Connections, LinksKept
<1>4. Backlogged'
  <2>1. \A k \in 1 .. Len(backlog) : backlog[k] \in App
    BY ElementOfSeq DEF DescriptorInv, Backlogged
  <2> QED
    BY <1>1, <2>1 DEF DescriptorInv, Backlogged, LinksKept
<1>5. socketPool_get' = socketPool_get /\ Pooled' = Pooled /\ OpenFds' = OpenFds
  BY <1>1 DEF socketPool_get, Pooled, InUse, OpenFds
<1>6. PoolIsOpen'
  BY <1>1, <1>5 DEF DescriptorInv, PoolIsOpen
<1>7. NoStaleDescriptor'
  BY <1>5 DEF NoStaleDescriptor
<1> QED
  BY <1>2, <1>3, <1>4, <1>6, <1>7 DEF DescriptorInv

(* A client that is served is one of those found readable.                  *)
LEMMA NextClientChosen ==
  ASSUME DescriptorInv, work # {}
  PROVE  /\ NextClient \in work
         /\ NextClient \in socketPool_get
<1> DEFINE S == {c[1] : c \in work}
<1>1. work \subseteq socketPool_get
  BY DEF DescriptorInv, NoStaleDescriptor
<1>2. \A c \in socketPool_get : c[1] \in Slots
  BY DEF socketPool_get, InUse
<1>3. S \in SUBSET Nat /\ S # {}
  BY <1>1, <1>2, MaxSocketNumAssumption DEF Slots
<1>4. PICK i \in S : \A j \in S : i <= j
  BY <1>3, LeastNatural
<1>5. \E c \in work : \A d \in work : c[1] <= d[1]
  BY <1>4
<1>6. NextClient \in work
  BY <1>5, Zenon DEF NextClient
<1> QED
  BY <1>1, <1>6

(* The descriptor of a client has one owner.                                *)
LEMMA OwnerOfClient ==
  ASSUME DescriptorInv, NEW fd \in Pooled
  PROVE  /\ Owner(fd) \in App
         /\ fdOf[Owner(fd)] = fd
         /\ fd # NoFd /\ fd \in Sock
<1>1. fd \in OpenFds
  BY DEF DescriptorInv, PoolIsOpen
<1>2. \E a \in App : fdOf[a] = fd
  BY <1>1 DEF OpenFds
<1>3. Owner(fd) \in App /\ fdOf[Owner(fd)] = fd
  BY <1>2, Zenon DEF Owner
<1>4. fd # NoFd
  BY <1>1 DEF OpenFds
<1> QED
  BY <1>3, <1>4, PooledCardinality DEF DescriptorInv, PoolInv

(* Closing a client's descriptor and deleting it from the pool: the other   *)
(* clients stay in their slots.                                             *)
LEMMA Disconnect ==
  ASSUME DescriptorInv, NEW c \in socketPool_get, CloseFd(Owner(c[2])),
         socketPool_del(c[2]), work' \subseteq work \ {c}, todo' = {}
  PROVE  DescriptorInv' /\ Pooled' = Pooled \ {c[2]}
<1> DEFINE a == Owner(c[2])
           fd == c[2]
<1>1. c[1] \in InUse /\ c[1] \in Slots /\ sockets[c[1]] = fd /\ c = <<c[1], fd>>
  BY DEF socketPool_get, InUse
<1>2. fd \in Pooled
  BY <1>1 DEF Pooled
<1>3. a \in App /\ fdOf[a] = fd /\ fd # NoFd /\ fd \in Sock
  BY <1>2, OwnerOfClient
<1>4. /\ link' = [link EXCEPT ![a] = "gone"]
      /\ fdOf' = [fdOf EXCEPT ![a] = NoFd]
      /\ backlog' = backlog
  BY DEF CloseFd
<1>5. /\ PoolInv /\ NoDuplicates /\ Connections /\ Backlogged
      /\ PoolIsOpen /\ NoStaleDescriptor
  BY DEF DescriptorInv, PoolInv
<1>6. socketPool_search(fd) = c[1] /\ c[1] # SOCKET_NOT_FOUND
  <2>1. Holding(fd) # {}
    BY <1>1 DEF Holding
  <2>2. /\ socketPool_search(fd) \in Slots
        /\ sockets[socketPool_search(fd)] = fd
        /\ socketPool_search(fd) # SOCKET_NOT_FOUND
    BY <2>1, SearchSpec
  <2>3. socketPool_search(fd) \in InUse
    BY <1>1, <2>2 DEF InUse
  <2> QED
    BY <1>1, <1>5, <2>2, <2>3 DEF NoDuplicates
<1>7. sockets' = [sockets EXCEPT ![c[1]] = INVALID_SOCKET] /\ curNum' = curNum - 1
  BY <1>6 DEF socketPool_del
<1> HIDE DEF a, fd
<1>8. PoolInv' /\ InUse' = InUse \ {c[1]} /\ Pooled' = Pooled \ {fd}
  BY <1>1, <1>3, <1>5, <1>7, ClearSlot
<1>9. Connections'
  BY <1>3, <1>4, <1>5 DEF Connections, LinkState
<1>10. Backlogged'
  <2>1. \A k \in 1 .. Len(backlog) : backlog[k] \in App
    BY <1>5, ElementOfSeq DEF Backlogged
  <2>2. \A b \in App : link[b] # "none" => link'[b] # "none"
    BY <1>4, <1>5 DEF Connections
  <2>3. \A b \in App : fdOf[b] = NoFd => fdOf'[b] = NoFd
    BY <1>4, <1>5 DEF Connections
  <2> QED
    BY <1>4, <1>5, <2>1, <2>2, <2>3 DEF Backlogged
<1>11. \A b \in App : fdOf'[b] = IF b = a THEN NoFd ELSE fdOf[b]
  BY <1>4, <1>5 DEF Connections
<1>12. PoolIsOpen'
  <2>1. ASSUME NEW f \in Pooled, f # fd PROVE f \in OpenFds'
    <3>1. PICK b \in App : fdOf[b] = f /\ f # NoFd
      BY <1>5 DEF PoolIsOpen, OpenFds
    <3>2. fdOf'[b] = f
      BY <1>3, <1>11, <2>1, <3>1
    <3> QED
      BY <3>1, <3>2 DEF OpenFds
  <2> QED
    BY <1>5, <1>8, <1>11, <2>1 DEF PoolIsOpen
<1>13. NoStaleDescriptor'
  <2>1. ASSUME NEW d \in work' PROVE d \in socketPool_get'
    <3>1. d \in socketPool_get /\ d # c
      BY <1>5 DEF NoStaleDescriptor
    <3>2. d[1] \in InUse /\ d = <<d[1], sockets[d[1]]>>
      BY <3>1 DEF socketPool_get
    <3>3. d[1] # c[1]
      BY <1>1, <3>1, <3>2
    <3>4. d[1] \in InUse' /\ sockets'[d[1]] = sockets[d[1]]
      BY <1>5, <1>7, <1>8, <3>2, <3>3 DEF PoolInv, PoolTypeOK, InUse
    <3> QED
      BY <3>2, <3>4 DEF socketPool_get
  <2> QED
    BY <2>1 DEF NoStaleDescriptor
<1> QED
  BY <1>8, <1>9, <1>10, <1>12, <1>13 DEF DescriptorInv, fd

(* accept() takes a descriptor that is not open, so none that the pool      *)
(* holds.                                                                   *)
LEMMA FreeDescriptor ==
  ASSUME Connections, OpenFds # Fd
  PROVE  LowestFreeFd \in Fd /\ LowestFreeFd \notin OpenFds /\ LowestFreeFd \in Sock
                             /\ LowestFreeFd # NoFd
<1>1. Fd \subseteq Nat
  BY FdAssumption, SockAssumption
<1>2. OpenFds \subseteq Fd
  BY DEF OpenFds, Connections
<1>3. Fd \ OpenFds \in SUBSET Nat /\ Fd \ OpenFds # {}
  BY <1>1, <1>2
<1>4. \E fd \in Fd \ OpenFds : \A f \in Fd \ OpenFds : fd <= f
  BY <1>3, LeastNatural
<1>5. LowestFreeFd \in Fd \ OpenFds
  BY <1>4, Zenon DEF LowestFreeFd
<1> QED
  BY <1>1, <1>5, FdAssumption DEF NoFd

LEMMA Accept ==
  ASSUME DescriptorInv, backlog # << >>, OpenFds # Fd,
         fdOf' = [fdOf EXCEPT ![Head(backlog)] = LowestFreeFd],
         backlog' = Tail(backlog), link' = link,
         socketPool_add(LowestFreeFd),
         work = {}, todo = {}, work' = {}, todo' = {}
  PROVE  DescriptorInv' /\ Pooled' \subseteq Pooled \cup {LowestFreeFd}
                        /\ Pooled \subseteq Pooled'
<1> DEFINE a == Head(backlog)
           fd == LowestFreeFd
<1>1. PoolInv /\ Connections /\ Backlogged /\ PoolIsOpen
  BY DEF DescriptorInv
<1>2. fd \in Fd /\ fd \notin OpenFds /\ fd \in Sock /\ fd # NoFd
  BY <1>1, FreeDescriptor
<1>3. /\ a \in App /\ a = backlog[1] /\ 1 \in 1 .. Len(backlog)
      /\ Len(backlog) \in Nat
      /\ Tail(backlog) \in Seq(App)
      /\ Len(Tail(backlog)) = Len(backlog) - 1
      /\ \A k \in 1 .. Len(Tail(backlog)) : Tail(backlog)[k] = backlog[k + 1]
  BY <1>1, HeadTailProperties, LenProperties DEF Backlogged
<1>4. fdOf[a] = NoFd /\ link[a] # "none"
  BY <1>1, <1>3 DEF Backlogged
<1> HIDE DEF a, fd
<1>5. \A b \in App : fdOf'[b] = IF b = a THEN fd ELSE fdOf[b]
  BY <1>1 DEF Connections, a, fd
<1>6. Connections'
  BY <1>1, <1>2, <1>4, <1>5 DEF Connections, a, fd
<1>7. Backlogged'
  <2>1. ASSUME NEW k \in 1 .. Len(Tail(backlog))
        PROVE  /\ k + 1 \in 1 .. Len(backlog)
               /\ Tail(backlog)[k] = backlog[k + 1]
               /\ backlog[k + 1] \in App
               /\ backlog[k + 1] # a
    <3>1. k + 1 \in 1 .. Len(backlog) /\ k + 1 # 1
      BY <1>3
    <3>2. backlog[k + 1] \in App
      BY <1>1, <3>1, ElementOfSeq DEF Backlogged
    <3>3. backlog[k + 1] # a
      BY <1>1, <1>3, <3>1 DEF Backlogged
    <3> QED
      BY <1>3, <3>1, <3>2, <3>3
  <2>2. \A k \in 1 .. Len(Tail(backlog)) :
          link'[Tail(backlog)[k]] # "none" /\ fdOf'[Tail(backlog)[k]] = NoFd
    BY <1>1, <1>5, <2>1 DEF Backlogged
  <2>3. \A j, k \in 1 .. Len(Tail(backlog)) :
          Tail(backlog)[j] = Tail(backlog)[k] => j = k
    <3> TAKE j, k \in 1 .. Len(Tail(backlog))
    <3>1. backlog[j + 1] = backlog[k + 1] => j + 1 = k + 1
      BY <1>1, <2>1 DEF Backlogged
    <3> QED
      BY <1>3, <2>1, <3>1
  <2> QED
    BY <1>3, <2>2, <2>3 DEF Backlogged
<1>8. PoolInv' /\ Pooled' \subseteq Pooled \cup {fd} /\ Pooled \subseteq Pooled'
  <2>1. PoolInv' /\ (UNCHANGED poolVars \/ Pooled' = Pooled \cup {fd})
    BY <1>1, <1>2, AddStep DEF fd
  <2>2. UNCHANGED poolVars => Pooled' = Pooled
    BY DEF poolVars, Pooled, InUse
  <2> QED
    BY <2>1, <2>2
<1>9. PoolIsOpen'
  <2>1. OpenFds' = OpenFds \cup {fd}
    BY <1>2, <1>3, <1>4, <1>5 DEF OpenFds
  <2>2. \A b \in App : fdOf[b] # fd
    BY <1>2 DEF OpenFds
  <2> QED
    BY <1>1, <1>5, <1>8, <2>1, <2>2 DEF PoolIsOpen
<1>10. NoStaleDescriptor'
  BY DEF NoStaleDescriptor
<1> QED
  BY <1>6, <1>7, <1>8, <1>9, <1>10 DEF DescriptorInv, fd

LEMMA Connecting ==
  ASSUME DescriptorInv, NEW a \in App, Connect(a),
         UNCHANGED <<poolVars, work, todo>>
  PROVE  DescriptorInv'
<1>1. PoolInv /\ Connections /\ Backlogged /\ PoolIsOpen /\ NoStaleDescriptor
  BY DEF DescriptorInv
<1>2. /\ link[a] = "none" /\ link' = [link EXCEPT ![a] = "alive"]
      /\ backlog' = Append(backlog, a) /\ fdOf' = fdOf
      /\ sockets' = sockets /\ curNum' = curNum /\ work' = work /\ todo' = todo
  BY DEF Connect, poolVars
<1>3. PoolInv'
  BY <1>1, <1>2 DEF PoolInv, PoolTypeOK, CountIsExact, NoDuplicates, InUse
<1>4. Connections'
  BY <1>1, <1>2 DEF Connections, LinkState
<1>5. Backlogged'
  <2> DEFINE q == Append(backlog, a)
  <2>1. /\ q \in Seq(App) /\ Len(q) = Len(backlog) + 1 /\ Len(backlog) \in Nat
        /\ \A k \in 1 .. Len(backlog) : q[k] = backlog[k] /\ q[k] \in App
        /\ q[Len(backlog) + 1] = a
    BY <1>1 DEF Backlogged
  <2>2. fdOf[a] = NoFd
    BY <1>1, <1>2 DEF Connections
  <2>3. \A k \in 1 .. Len(backlog) : q[k] # a
    BY <1>1, <1>2, <2>1 DEF Backlogged
  <2> HIDE DEF q
  <2>4. \A k \in 1 .. Len(q) : link'[q[k]] # "none" /\ fdOf'[q[k]] = NoFd
    BY <1>1, <1>2, <2>1, <2>2 DEF Backlogged, Connections
  <2>5. \A j, k \in 1 .. Len(q) : q[j] = q[k] => j = k
    BY <1>1, <2>1, <2>3 DEF Backlogged
  <2> QED
    BY <1>2, <2>1, <2>4, <2>5 DEF Backlogged, q
<1>6. PoolIsOpen' /\ NoStaleDescriptor'
  BY <1>1, <1>2 DEF PoolIsOpen, NoStaleDescriptor, socketPool_get, Pooled, InUse, OpenFds
<1> QED
  BY <1>3, <1>4, <1>5, <1>6 DEF DescriptorInv

-----------------------------------------------------------------------------
(* A broadcast is addressed to the clients of the pool.                     *)
LEMMA BroadcastAddressed ==
  /\ \A turn, msg : \A s \in Broadcast(turn, msg) : <<s.slot, s.fd>> \in socketPool_get
  /\ \A s \in app_queryCmdHandler : <<s.slot, s.fd>> \in socketPool_get
<1>1. ASSUME NEW turn, NEW msg, NEW s \in Broadcast(turn, msg)
      PROVE  <<s.slot, s.fd>> \in socketPool_get
  <2>1. PICK c \in socketPool_get :
          s = [turn |-> turn, slot |-> c[1], fd |-> c[2], msg |-> msg]
    BY DEF Broadcast
  <2>2. c = <<c[1], c[2]>>
    BY DEF socketPool_get
  <2> QED
    BY <2>1, <2>2
<1>2. ASSUME NEW s \in app_queryCmdHandler
      PROVE  \E turn, msg : s \in Broadcast(turn, msg)
  BY DEF app_queryCmdHandler, ReportOf, app_sendDeviceReportCmd
<1> QED
  BY <1>1, <1>2

LEMMA HandleAddressed ==
  ASSUME NEW m, Handle(m), todo = {}
  PROVE  \A s \in todo' : <<s.slot, s.fd>> \in socketPool_get
<1>1. \/ \E turn, msg : todo' = Broadcast(turn, msg)
      \/ todo' = {}
  BY DEF Handle, zll_ctrlRspHandler, zll_dataRspHandler, app_sendDeviceReportCmd,
         app_sendGroupRspCmd
<1> QED
  BY <1>1, BroadcastAddressed

(* What the calls on connections do to their states.                        *)
LEMMA TcpKeepsLinks ==
  ASSUME Connections, NEW a
  PROVE  /\ \A m : Deliver(a, m) => LinksKept
         /\ TakeData(a) \/ TakeError(a) => LinksKept
         /\ Close(a) \/ Abort(a) \/ RstArrives(a) \/ Resume(a) => LinksKept
         /\ link' = link => LinksKept
<1>1. ASSUME NEW after \in LinkState \ {"none"}, link' = [link EXCEPT ![a] = after]
      PROVE  LinksKept
  BY <1>1 DEF Connections, LinksKept
<1>2. link' = link => LinksKept
  BY DEF Connections, LinksKept
<1>3. ASSUME NEW m, Deliver(a, m) PROVE LinksKept
  <2>1. PICK after \in AfterSend(a) : link' = [link EXCEPT ![a] = after]
    BY <1>3 DEF Deliver
  <2>2. CASE a \notin App
    <3>1. link' = link
      BY <2>1, <2>2 DEF Connections
    <3> QED
      BY <1>2, <3>1
  <2>3. CASE a \in App /\ after = link[a]
    <3>1. link' = link
      BY <2>1, <2>3 DEF Connections
    <3> QED
      BY <1>2, <3>1
  <2>4. CASE after # link[a]
    <3>1. after \in {"alive", "stuck", "poked", "broken"}
      BY <2>1, <2>4 DEF AfterSend
    <3> QED
      BY <1>1, <2>1, <3>1 DEF LinkState
  <2> QED
    BY <2>2, <2>3, <2>4
<1>4. TakeData(a) \/ TakeError(a) => LinksKept
  BY <1>1, <1>2 DEF TakeData, TakeError, LinkState
<1>5. Close(a) \/ Abort(a) \/ RstArrives(a) \/ Resume(a) => LinksKept
  BY <1>1 DEF Close, Abort, RstArrives, Resume, LinkState
<1> QED
  BY <1>2, <1>3, <1>4, <1>5

(* The steps that leave the descriptors, the connections and what is to be  *)
(* served alone.                                                            *)
LEMMA IdleStep ==
  ASSUME DescriptorInv, UNCHANGED <<poolVars, link, fdOf, backlog, work, todo>>
  PROVE  DescriptorInv'
<1>1. LinksKept
  BY TcpKeepsLinks DEF DescriptorInv
<1> QED
  BY <1>1, QuietStep DEF DescriptorInv, NoStaleDescriptor

LEMMA LoopKeepsDescriptors == DescriptorInv /\ Loop => DescriptorInv'
<1> SUFFICES ASSUME DescriptorInv, Loop PROVE DescriptorInv'
  OBVIOUS
<1>0. Connections /\ NoStaleDescriptor
  BY DEF DescriptorInv
<1>1. CASE socOpen
  BY <1>1, IdleStep DEF socOpen, tcpVars
<1>2. CASE server_open
  BY <1>2, IdleStep DEF server_open, tcpVars
<1>3. CASE ServeSerial
  <2>1. /\ UNCHANGED <<poolVars, tcpVars, work>> /\ work = {} /\ todo = {}
        /\ todo' = todo \/ \E m : Handle(m)
    BY <1>3 DEF ServeSerial, AtPoll, processSocCmd
  <2>2. \A s \in todo' : <<s.slot, s.fd>> \in socketPool_get
    BY <2>1, HandleAddressed
  <2>3. LinksKept
    BY <1>0, <2>1, TcpKeepsLinks DEF tcpVars
  <2> QED
    BY <2>1, <2>2, <2>3, QuietStep DEF tcpVars
<1>4. CASE ServeStdin
  BY <1>4, IdleStep DEF ServeStdin, tcpVars
<1>5. CASE ServeListen
  <2>1. /\ backlog # << >> /\ work = {} /\ todo = {} /\ server_acceptNewConn
    BY <1>5 DEF ServeListen, AtPoll, ListenReady
  <2>2. CASE UNCHANGED vars
    BY <2>2, IdleStep DEF vars, loopVars, tcpVars
  <2>3. CASE ~ UNCHANGED vars
    BY <2>1, <2>3, Accept DEF server_acceptNewConn, loopVars
  <2> QED
    BY <2>2, <2>3
<1>6. CASE PollClients
  <2>1. /\ UNCHANGED <<poolVars, tcpVars, todo>> /\ work' \subseteq socketPool_get
    BY <1>6 DEF PollClients
  <2>2. LinksKept
    BY <1>0, <2>1, TcpKeepsLinks DEF tcpVars
  <2> QED
    BY <1>0, <2>1, <2>2, QuietStep DEF tcpVars, NoStaleDescriptor
<1>7. CASE ServeClient
  <2> DEFINE c == NextClient
             a == Owner(c[2])
  <2>1. /\ todo = {} /\ work # {} /\ work' = work \ {c}
        /\ processTcpCmd(c[2])
    BY <1>7 DEF ServeClient
  <2>2. c \in work /\ c \in socketPool_get
    BY <2>1, NextClientChosen
  <2>3. CASE CloseFd(a) /\ socketPool_del(c[2]) /\ todo' = todo
    BY <2>1, <2>2, <2>3, Disconnect
  <2>4. CASE /\ UNCHANGED poolVars /\ (TakeData(a) \/ TakeError(a))
             /\ todo' \in {todo, app_queryCmdHandler}
    <3>1. UNCHANGED <<fdOf, backlog>> /\ LinksKept
      BY <1>0, <2>4, TcpKeepsLinks DEF TakeData, TakeError
    <3>2. \A s \in todo' : <<s.slot, s.fd>> \in socketPool_get
      BY <2>1, <2>4, BroadcastAddressed
    <3>3. work' \subseteq socketPool_get
      BY <1>0, <2>1 DEF NoStaleDescriptor
    <3> QED
      BY <2>4, <3>1, <3>2, <3>3, QuietStep
  <2> HIDE DEF c
  <2>5. \A m : app_cmdHandler(m) => todo' \in {todo, app_queryCmdHandler}
    BY DEF app_cmdHandler
  <2> QED
    BY <2>1, <2>3, <2>4, <2>5 DEF processTcpCmd
<1>8. CASE KeyPress
  BY <1>8, IdleStep DEF KeyPress, loopVars, tcpVars
<1>9. CASE server_send
  <2>1. /\ UNCHANGED <<work, poolVars>> /\ todo' \subseteq todo
        /\ UNCHANGED tcpVars \/ Deliver(Owner(Earliest.fd), Earliest.msg)
    BY <1>9 DEF server_send
  <2>2. UNCHANGED <<fdOf, backlog>> /\ LinksKept
    BY <1>0, <2>1, TcpKeepsLinks DEF tcpVars, Deliver
  <2> QED
    BY <1>0, <2>1, <2>2, QuietStep DEF NoStaleDescriptor
<1> QED
  BY <1>1, <1>2, <1>3, <1>4, <1>5, <1>6, <1>7, <1>8, <1>9 DEF Loop

LEMMA EnvironmentKeepsDescriptors == DescriptorInv /\ Environment => DescriptorInv'
<1> SUFFICES ASSUME DescriptorInv, Environment PROVE DescriptorInv'
  OBVIOUS
<1>0. Connections /\ NoStaleDescriptor
  BY DEF DescriptorInv
<1>1. CASE CoordinatorSends
  BY <1>1, IdleStep DEF CoordinatorSends, loopVars, tcpVars
<1>2. CASE SerialHangsUp
  BY <1>2, IdleStep DEF SerialHangsUp, loopVars, tcpVars
<1>3. CASE AppWrites
  BY <1>3, IdleStep DEF AppWrites, Write, loopVars
<1>4. CASE AppOrNetwork
  <2>1. PICK a \in App : Connect(a) \/ Close(a) \/ Abort(a) \/ RstArrives(a) \/ Resume(a)
    BY <1>4 DEF AppOrNetwork
  <2>2. UNCHANGED <<poolVars, work, todo>>
    BY <1>4 DEF AppOrNetwork, loopVars
  <2>3. CASE Connect(a)
    BY <2>2, <2>3, Connecting
  <2>4. CASE ~ Connect(a)
    <3>1. LinksKept
      BY <1>0, <2>1, <2>4, TcpKeepsLinks
    <3>2. UNCHANGED <<fdOf, backlog>>
      BY <2>1, <2>4 DEF Close, Abort, RstArrives, Resume
    <3> QED
      BY <1>0, <2>2, <3>1, <3>2, QuietStep DEF NoStaleDescriptor
  <2> QED
    BY <2>3, <2>4
<1>5. CASE User
  BY <1>5, IdleStep DEF User, loopVars, tcpVars
<1> QED
  BY <1>1, <1>2, <1>3, <1>4, <1>5 DEF Environment

LEMMA DescriptorInvariance == Spec => []DescriptorInv
<1>1. DescriptorInv /\ [Next]_vars => DescriptorInv'
  <2>1. DescriptorInv /\ UNCHANGED vars => DescriptorInv'
    BY IdleStep DEF vars, loopVars, tcpVars
  <2> QED
    BY <2>1, LoopKeepsDescriptors, EnvironmentKeepsDescriptors DEF Next
<1> QED
  BY <1>1, DescriptorInit, PTL DEF Spec

(* The pool of server.c never holds a descriptor that has been closed or    *)
(* given to another App, whoever connects, sends, stalls, disconnects or    *)
(* aborts between any two of the gateway's calls.                           *)
THEOREM PoolStaysOpen == Spec => []PoolIsOpen
<1>1. DescriptorInv => PoolIsOpen
  BY DEF DescriptorInv
<1> QED
  BY <1>1, DescriptorInvariance, PTL

(* The descriptors that main() and the handlers of appCmd.c keep in their   *)
(* snapshots of the pool are never used after they were closed.             *)
THEOREM NoDescriptorGoesStale == Spec => []NoStaleDescriptor
<1>1. DescriptorInv => NoStaleDescriptor
  BY DEF DescriptorInv
<1> QED
  BY <1>1, DescriptorInvariance, PTL

(* The count that server.c keeps stays that of the slots in use in the      *)
(* whole gateway, whose steps are more than those of the pool.              *)
THEOREM GatewayCountsClients == Spec => []CountIsExact
<1>1. DescriptorInv => CountIsExact
  BY DEF DescriptorInv, PoolInv
<1> QED
  BY <1>1, DescriptorInvariance, PTL

-----------------------------------------------------------------------------
(* The frames.                                                              *)
TouchlinkLast == /\ Len(uart) > 0
                 /\ uart[Len(uart)].frame.cluster = NoCluster
                 /\ uart[Len(uart)].frame.cmdID = 1

FrameInv == /\ CInv(uart, transSeqNumber)
            /\ ResetFollowsTouchlink
            /\ cliPc = "getc" => work = {} /\ TouchlinkLast

LEMMA FrameInit == Init => FrameInv
<1> SUFFICES ASSUME Init PROVE FrameInv
  OBVIOUS
<1>1. uart = << >> /\ cliPc = "read" /\ CInv(uart, transSeqNumber)
  BY SocInitHolds DEF Init, SocInit, CliInit
<1> QED
  BY <1>1 DEF FrameInv, ResetFollowsTouchlink

(* More commands, of which none is a reset for a device.                    *)
LEMMA GrownKeeps ==
  ASSUME ResetFollowsTouchlink, Grown
  PROVE  ResetFollowsTouchlink'
<1> SUFFICES ASSUME NEW k \in 1 .. Len(uart'), IsReset(uart'[k].frame)
             PROVE  /\ k > 1
                    /\ uart'[k - 1].frame.cluster = NoCluster
                    /\ uart'[k - 1].frame.cmdID = 1
  BY DEF ResetFollowsTouchlink, IsReset
<1>1. k \in 1 .. Len(uart) /\ uart'[k] = uart[k]
  BY DEF Grown
<1>2. k > 1 /\ uart[k - 1].frame.cluster = NoCluster /\ uart[k - 1].frame.cmdID = 1
  BY <1>1 DEF ResetFollowsTouchlink, IsReset
<1>3. k - 1 \in 1 .. Len(uart)
  BY <1>1, <1>2 DEF Grown
<1> QED
  BY <1>2, <1>3 DEF Grown

(* The touchlink command, and the reset that is sent next.                  *)
LEMMA TouchlinkSent ==
  ASSUME History(uart), zllSocTouchLink
  PROVE  TouchlinkLast'
<1>1. PICK fate \in Fates :
        uart' = Append(uart, [frame |-> Ctrl(AREQ, 1, << >>), fate |-> fate])
  BY DEF zllSocTouchLink, SendCtrl, Transmit
<1> DEFINE e == [frame |-> Ctrl(AREQ, 1, << >>), fate |-> fate]
<1>2. e.frame.cluster = NoCluster /\ e.frame.cmdID = 1
  BY DEF Ctrl
<1> HIDE DEF e
<1>3. Len(uart') > 0 /\ uart'[Len(uart')] = e
  BY <1>1, AppendHistory DEF e
<1> QED
  BY <1>2, <1>3 DEF TouchlinkLast

LEMMA ResetSent ==
  ASSUME History(uart), TouchlinkLast, ResetFollowsTouchlink, zllSocSendResetToFn
  PROVE  ResetFollowsTouchlink'
<1>1. PICK e : uart' = Append(uart, e)
  BY DEF zllSocSendResetToFn, SendCtrl, Transmit
<1>2. /\ Len(uart) \in Nat /\ Len(uart') = Len(uart) + 1
      /\ \A k \in 1 .. Len(uart) : uart'[k] = uart[k]
  BY <1>1, AppendHistory
<1> SUFFICES ASSUME NEW k \in 1 .. Len(uart'), IsReset(uart'[k].frame)
             PROVE  /\ k > 1
                    /\ uart'[k - 1].frame.cluster = NoCluster
                    /\ uart'[k - 1].frame.cmdID = 1
  BY DEF ResetFollowsTouchlink, IsReset
<1>3. CASE k \in 1 .. Len(uart)
  <2>1. k > 1 /\ uart[k - 1].frame.cluster = NoCluster /\ uart[k - 1].frame.cmdID = 1
    BY <1>2, <1>3 DEF ResetFollowsTouchlink, IsReset
  <2>2. k - 1 \in 1 .. Len(uart)
    BY <1>2, <1>3, <2>1
  <2> QED
    BY <1>2, <2>1, <2>2
<1>4. CASE k = Len(uart) + 1
  <2>1. k - 1 = Len(uart) /\ k > 1
    BY <1>2, <1>4 DEF TouchlinkLast
  <2>2. uart'[k - 1] = uart[Len(uart)]
    BY <1>2, <2>1
  <2> QED
    BY <2>1, <2>2 DEF TouchlinkLast
<1> QED
  BY <1>2, <1>3, <1>4

(* What the console and the Apps send are such commands.                    *)
Sends == CInv(uart, transSeqNumber)' /\ (Grown \/ uart' = uart)

LEMMA AnyCommandSends ==
  ASSUME CInv(uart, transSeqNumber)
  PROVE  /\ CtrlCommand => Sends
         /\ \A x, y, t, dst, mode : ZclCommand(x, y, t, dst, mode) => Sends
         /\ UNCHANGED socVars => Sends
BY CtrlStep, ZclStep, SocStutter DEF Sends, socVars

LEMMA DispatchSends ==
  ASSUME CInv(uart, transSeqNumber), NEW word, NEW p, Dispatch(word, p)
  PROVE  Sends
<1>1. \/ CtrlCommand
      \/ \E x, y, t, dst, mode : ZclCommand(x, y, t, dst, mode)
      \/ UNCHANGED socVars
  BY Zenon DEF Dispatch, CtrlCommand, ZclCommand
<1> QED
  BY <1>1, AnyCommandSends, Zenon

LEMMA AppCommandSends ==
  ASSUME CInv(uart, transSeqNumber), NEW m, app_cmdHandler(m)
  PROVE  Sends
<1>1. \/ CtrlCommand
      \/ \E x, y, t, dst, mode : ZclCommand(x, y, t, dst, mode)
      \/ UNCHANGED socVars
  BY Zenon DEF app_cmdHandler, app_groupCmdHandler, app_bindCmdHandler,
               app_lightCmdHandler, app_levelCmdHandler, CtrlCommand, ZclCommand
<1> QED
  BY <1>1, AnyCommandSends, Zenon

(* Steps that send what is no reset, with nobody waiting for a key after    *)
(* them unless it is the touchlink command that was sent.                   *)
LEMMA SendingStep ==
  ASSUME FrameInv, Sends,
         cliPc' = "getc" => /\ work' = {}
                            /\ \/ uart' = uart /\ cliPc = "getc"
                               \/ TouchlinkLast'
  PROVE  FrameInv'
<1>1. ResetFollowsTouchlink'
  <2>1. CASE Grown
    BY <2>1, GrownKeeps DEF FrameInv
  <2>2. CASE uart' = uart
    BY <2>2 DEF FrameInv, ResetFollowsTouchlink
  <2> QED
    BY <2>1, <2>2 DEF Sends
<1>2. cliPc' = "getc" => TouchlinkLast'
  BY DEF FrameInv, TouchlinkLast
<1> QED
  BY <1>1, <1>2 DEF FrameInv, Sends

LEMMA SilentStep ==
  ASSUME FrameInv, UNCHANGED socVars, cliPc' = cliPc,
         work' = work \/ cliPc # "getc"
  PROVE  FrameInv'
<1>1. Sends /\ uart' = uart
  BY AnyCommandSends DEF FrameInv, socVars
<1> QED
  BY <1>1, SendingStep DEF FrameInv

LEMMA LoopKeepsFrames == FrameInv /\ Loop => FrameInv'
<1> SUFFICES ASSUME FrameInv, Loop PROVE FrameInv'
  OBVIOUS
<1>0. CInv(uart, transSeqNumber) /\ History(uart)
  BY DEF FrameInv, CInv
<1>1. CASE socOpen
  BY <1>1, SilentStep DEF socOpen, cliVars
<1>2. CASE server_open
  BY <1>2, SilentStep DEF server_open, cliVars
<1>3. CASE ServeSerial
  BY <1>3, SilentStep DEF ServeSerial, processSocCmd, cliVars
<1>4. CASE ServeStdin
  <2>1. AtPoll /\ processConsoleCommand /\ work' = work
    BY <1>4 DEF ServeStdin
  <2>2. CASE UNCHANGED <<stdin, saved, cliPc, socVars>>
    BY <2>1, <2>2, SilentStep
  <2>3. CASE ~ UNCHANGED <<stdin, saved, cliPc, socVars>>
    <3> DEFINE word == Head(Head(stdin)).word
    <3>1. /\ Dispatch(word, saved')
          /\ cliPc' = "getc" => word = "sendresettofn"
      BY <2>1, <2>3 DEF processConsoleCommand
    <3>2. Sends
      BY <1>0, <3>1, DispatchSends
    <3>3. cliPc' = "getc" => zllSocTouchLink
      BY <3>1 DEF Dispatch
    <3>4. cliPc' = "getc" => TouchlinkLast'
      BY <1>0, <3>3, TouchlinkSent
    <3> QED
      BY <2>1, <3>2, <3>4, SendingStep DEF AtPoll
  <2> QED
    BY <2>2, <2>3
<1>5. CASE ServeListen
  BY <1>5, SilentStep DEF ServeListen, server_acceptNewConn, vars, loopVars, cliVars
<1>6. CASE PollClients
  BY <1>6, SilentStep DEF PollClients, AtPoll, cliVars
<1>7. CASE ServeClient
  <2>1. /\ cliPc # "getc" /\ cliPc' = cliPc
        /\ processTcpCmd(NextClient[2])
    BY <1>7 DEF ServeClient, FrameInv, cliVars
  <2>2. UNCHANGED socVars \/ \E m : app_cmdHandler(m)
    BY <2>1 DEF processTcpCmd
  <2>3. Sends
    BY <1>0, <2>2, AnyCommandSends, AppCommandSends
  <2> QED
    BY <2>1, <2>3, SendingStep
<1>8. CASE KeyPress
  <2>1. /\ cliPc = "getc" /\ cliPc' = "read" /\ zllSocSendResetToFn
    BY <1>8 DEF KeyPress, getcReturns
  <2>2. CInv(uart, transSeqNumber)'
    BY <1>0, <2>1, CtrlStep
  <2>3. ResetFollowsTouchlink'
    BY <1>0, <2>1, ResetSent DEF FrameInv
  <2> QED
    BY <2>1, <2>2, <2>3 DEF FrameInv
<1>9. CASE server_send
  BY <1>9, SilentStep DEF server_send, cliVars
<1> QED
  BY <1>1, <1>2, <1>3, <1>4, <1>5, <1>6, <1>7, <1>8, <1>9 DEF Loop

LEMMA EnvironmentKeepsFrames == FrameInv /\ Environment => FrameInv'
<1> SUFFICES ASSUME FrameInv, Environment PROVE FrameInv'
  OBVIOUS
<1>1. UNCHANGED socVars /\ cliPc' = cliPc /\ work' = work
  BY DEF Environment, CoordinatorSends, SerialHangsUp, AppWrites, AppOrNetwork,
         User, UserTypes, loopVars, cliVars
<1> QED
  BY <1>1, SilentStep

LEMMA FrameInvariance == Spec => []FrameInv
<1>1. FrameInv /\ [Next]_vars => FrameInv'
  <2>1. FrameInv /\ UNCHANGED vars => FrameInv'
    BY SilentStep DEF vars, loopVars, cliVars
  <2> QED
    BY <2>1, LoopKeepsFrames, EnvironmentKeepsFrames DEF Next
<1> QED
  BY <1>1, FrameInit, PTL DEF Spec

(* The reset for a device that cli.c sends after the key press comes next   *)
(* after its touchlink, whatever the Apps command meanwhile.                *)
THEOREM ResetNextToTouchlink == Spec => []ResetFollowsTouchlink
<1>1. FrameInv => ResetFollowsTouchlink
  BY DEF FrameInv
<1> QED
  BY <1>1, FrameInvariance, PTL

(* The transaction numbers of socCmd.c identify messages in the whole       *)
(* gateway, where the Apps and the console send.                            *)
THEOREM GatewayNumbers == Spec => []NumbersIdentifyMessages
<1>1. FrameInv => NumbersIdentifyMessages
  BY Implied DEF FrameInv
<1> QED
  BY <1>1, FrameInvariance, PTL

-----------------------------------------------------------------------------
(* The node table, and the types of everything.                             *)

(* An entry is empty or was announced.                                      *)
EntriesAnnounced ==
  \A i \in Entries : \/ nodeTbl[i] = EmptyNode
                     \/ /\ nodeTbl[i].extAddr \in ExtAddr
                        /\ nodeTbl[i].devType \in {1, 3, 4}

TableInv == NodeInv /\ EntriesAnnounced

LEMMA TableInit == Init => TableInv
<1> SUFFICES ASSUME Init PROVE TableInv
  OBVIOUS
<1>1. NodeInv
  BY NodeInitInv DEF Init
<1>2. EntriesAnnounced
  BY DEF Init, NodeInit, nodes_reset, EntriesAnnounced
<1> QED
  BY <1>1, <1>2 DEF TableInv

LEMMA AnnouncementKeepsTable ==
  ASSUME TableInv, NEW nwk \in NwkAddr, NEW ext \in ExtAddr, NEW devID \in DevId,
         nodes_add(nwk, ext, devID)
  PROVE  TableInv'
<1> DEFINE n == [nwkAddr |-> nwk, extAddr |-> ext, devId |-> devID,
                 devType |-> TypeOfDevice(devID)]
<1>1. NodeInv'
  BY NodesAddStep DEF TableInv
<1>2. \A i \in Entries : nodeTbl'[i] = nodeTbl[i] \/ nodeTbl'[i] = n
  BY DEF nodes_add, StoreAt, TableInv, NodeInv, NodeTypeOK
<1>3. TypeOfDevice(devID) \in {1, 3, 4}
  BY Zenon DEF TypeOfDevice, DEV_TYPE_LIGHT, DEV_TYPE_ONOFF_SWITCH, DEV_TYPE_UNKNOWN
<1>4. EntriesAnnounced'
  BY <1>2, <1>3 DEF EntriesAnnounced, TableInv, Entries, EmptyNode
<1> QED
  BY <1>1, <1>4 DEF TableInv

LEMMA TableStutter == TableInv /\ UNCHANGED nodeVars => TableInv'
BY DEF nodeVars, TableInv, EntriesAnnounced, NodeInv, NodeTypeOK, NodesAreDistinct,
       NothingForgotten, Filled, KnownKeys, KeyOf, EmptyKey, Entries

(* The handlers of the coordinator's messages hand nodes_add what a device  *)
(* announced.                                                               *)
LEMMA HandleKeepsTable ==
  ASSUME TableInv, NEW m \in SocMsg, Handle(m)
  PROVE  TableInv'
<1>1. CASE UNCHANGED nodeVars
  BY <1>1, TableStutter
<1>2. CASE /\ m.kind = "announce"
           /\ nodes_add(m.nwkAddr, m.extAddr, AnnouncedAs(m.devId).id)
  <2>1. /\ m.nwkAddr \in NwkAddr /\ m.extAddr \in ExtAddr
        /\ AnnouncedAs(m.devId).id \in DevId
    BY <1>2, SocMsgAssumption DEF AnnouncedAs
  <2> QED
    BY <1>2, <2>1, AnnouncementKeepsTable
<1> QED
  BY <1>1, <1>2 DEF Handle, zll_ctrlRspHandler, zll_dataRspHandler

LEMMA StepKeepsTable ==
  ASSUME TableInv, serialIn \in Seq(SocMsg), [Next]_vars
  PROVE  TableInv'
<1>1. CASE UNCHANGED nodeVars
  BY <1>1, TableStutter
<1>2. CASE ServeSerial
  <2>1. CASE serialIn # << >> /\ Handle(Head(serialIn))
    <3>1. Head(serialIn) \in SocMsg
      BY <2>1, HeadTailProperties
    <3> QED
      BY <2>1, <3>1, HandleKeepsTable
  <2>2. CASE \E m \in SocMsg : Handle(m)
    BY <2>2, HandleKeepsTable
  <2> QED
    BY <1>1, <1>2, <2>1, <2>2 DEF ServeSerial, processSocCmd, nodeVars
<1>3. CASE Loop /\ ~ ServeSerial
  <2>1. UNCHANGED nodeVars
    BY <1>3 DEF Loop, socOpen, server_open, ServeStdin, ServeListen, server_acceptNewConn,
         PollClients, ServeClient, KeyPress, server_send, vars
  <2> QED
    BY <2>1, TableStutter
<1>4. CASE Environment
  <2>1. UNCHANGED nodeVars
    BY <1>4 DEF Environment, CoordinatorSends, SerialHangsUp, AppWrites, AppOrNetwork, User
  <2> QED
    BY <2>1, TableStutter
<1> QED
  BY <1>1, <1>2, <1>3, <1>4 DEF Next, vars

Sendings == [turn : Nat, slot : Slots, fd : Sock, msg : Report]

Control == /\ pc \in {"socOpen", "serverOpen", "running", "exited", "SIGPIPE"}
           /\ cliPc \in {"read", "getc", "exit"}
Inputs  == /\ serialIn \in Seq(SocMsg) /\ hungUp \in BOOLEAN
           /\ sent \in [soc : 0 .. MaxSocMsgs, app : 0 .. MaxAppMsgs, line : 0 .. MaxLines]
Traffic == /\ rcv \in [App -> Seq(AppMsg)]
           /\ got \in [App -> Seq(Report)]

Typed == Control /\ Inputs /\ Traffic /\ todo \subseteq Sendings

(* A function updated at one point keeps its type.                          *)
LEMMA UpdateTyped ==
  ASSUME NEW S, NEW f \in [App -> S], NEW a, NEW v, a \in App => v \in S
  PROVE  [f EXCEPT ![a] = v] \in [App -> S]
OBVIOUS

LEMMA TypedInit == Init => Typed
<1> SUFFICES ASSUME Init PROVE Typed
  OBVIOUS
<1>1. Control
  BY DEF Init, CliInit, Control
<1>2. Inputs
  <2>1. 0 \in 0 .. MaxSocMsgs /\ 0 \in 0 .. MaxAppMsgs /\ 0 \in 0 .. MaxLines
    BY BoundsAssumption
  <2>2. /\ serialIn = << >> /\ hungUp = FALSE
        /\ sent = [soc |-> 0, app |-> 0, line |-> 0]
    BY DEF Init
  <2>3. << >> \in Seq(SocMsg)
    OBVIOUS
  <2>4. sent \in [soc : 0 .. MaxSocMsgs, app : 0 .. MaxAppMsgs, line : 0 .. MaxLines]
    BY <2>1, <2>2
  <2> QED
    BY <2>2, <2>3, <2>4 DEF Inputs
<1>3. Traffic
  BY DEF Init, TcpInit, Traffic
<1> QED
  BY <1>1, <1>2, <1>3 DEF Init, Typed

LEMMA BroadcastTyped ==
  ASSUME PoolInv, NEW turn \in Nat, NEW msg \in Report
  PROVE  Broadcast(turn, msg) \subseteq Sendings
<1>1. \A c \in socketPool_get : c[1] \in Slots /\ c[2] \in Sock
  BY DEF PoolInv, PoolTypeOK, socketPool_get, InUse
<1> QED
  BY <1>1 DEF Broadcast, Sendings

LEMMA QueryTyped ==
  ASSUME PoolInv, TableInv
  PROVE  app_queryCmdHandler \subseteq Sendings
<1> SUFFICES ASSUME NEW i \in Entries, nodeTbl[i].nwkAddr # EMPTY_NODE_NWK_ADDR
             PROVE  ReportOf(i) \subseteq Sendings
  BY DEF app_queryCmdHandler
<1>1. nodeTbl[i].nwkAddr \in NwkAddr
  BY DEF TableInv, NodeInv, NodeTypeOK, Node
<1>2. nodeTbl[i].extAddr \in ExtAddr /\ nodeTbl[i].devType \in {1, 3, 4}
  BY DEF TableInv, EntriesAnnounced, EmptyNode
<1>3. i \in Nat
  BY MaxNodeNumAssumption DEF Entries
<1>4. [cmd |-> "report", devType |-> nodeTbl[i].devType,
       nwkAddr |-> nodeTbl[i].nwkAddr, extAddr |-> nodeTbl[i].extAddr] \in Report
  BY <1>1, <1>2 DEF Report
<1> QED
  BY <1>3, <1>4, BroadcastTyped DEF ReportOf, app_sendDeviceReportCmd

LEMMA HandleTyped ==
  ASSUME PoolInv, NEW m \in SocMsg, Handle(m), todo = {}
  PROVE  todo' \subseteq Sendings
<1>1. CASE m.kind = "announce"
  <2> DEFINE r == [cmd |-> "report", devType |-> AnnouncedAs(m.devId).type,
                   nwkAddr |-> m.nwkAddr, extAddr |-> m.extAddr]
  <2>1. AnnouncedAs(m.devId).type \in {1, 3, 4}
    BY DEF AnnouncedAs, DEV_TYPE_LIGHT, DEV_TYPE_UNKNOWN
  <2>2. r \in Report
    BY <1>1, <2>1, SocMsgAssumption DEF Report
  <2> HIDE DEF r
  <2>3. Broadcast(0, r) \subseteq Sendings
    BY <2>2, BroadcastTyped
  <2> QED
    BY <1>1, <2>3 DEF r, Handle, zll_ctrlRspHandler, zll_dataRspHandler,
                      app_sendDeviceReportCmd
<1>2. CASE m.kind = "zcl"
  <2> DEFINE r == [cmd |-> "groupRsp", nwkAddr |-> m.nwkAddr, opCode |-> m.cmdID]
  <2>1. r \in Report
    BY <1>2, SocMsgAssumption DEF Report
  <2> HIDE DEF r
  <2>2. Broadcast(0, r) \subseteq Sendings
    BY <2>1, BroadcastTyped
  <2> QED
    BY <1>2, <2>2 DEF r, Handle, zll_ctrlRspHandler, zll_dataRspHandler,
                      app_sendGroupRspCmd
<1>3. CASE m.kind = "nodes"
  BY <1>3 DEF Handle, zll_ctrlRspHandler, zll_dataRspHandler
<1> QED
  BY <1>1, <1>2, <1>3 DEF Handle, zll_ctrlRspHandler, zll_dataRspHandler

(* Something is sent first of what is to be sent.                           *)
LEMMA EarliestChosen ==
  ASSUME todo \subseteq Sendings, todo # {}
  PROVE  Earliest \in todo /\ \A t \in todo : Before(Earliest, t)
<1> DEFINE T == {s.turn : s \in todo}
<1>1. \A s \in todo : s.turn \in Nat /\ s.slot \in Nat
  BY MaxSocketNumAssumption DEF Sendings, Slots
<1>2. T \in SUBSET Nat /\ T # {}
  BY <1>1
<1>3. PICK t \in T : \A u \in T : t <= u
  BY <1>2, LeastNatural
<1> DEFINE S == {s.slot : s \in {r \in todo : r.turn = t}}
<1>4. S \in SUBSET Nat /\ S # {}
  BY <1>1, <1>3
<1>5. PICK l \in S : \A k \in S : l <= k
  BY <1>4, LeastNatural
<1>6. PICK s \in todo : s.turn = t /\ s.slot = l
  BY <1>5
<1>7. \A r \in todo : Before(s, r)
  <2> SUFFICES ASSUME NEW r \in todo PROVE Before(s, r)
    OBVIOUS
  <2>1. r.turn \in T /\ (r.turn = t => r.slot \in S)
    OBVIOUS
  <2>2. t <= r.turn /\ (r.turn = t => l <= r.slot)
    BY <1>3, <1>5, <2>1
  <2> QED
    BY <1>1, <1>6, <2>2 DEF Before
<1> QED
  BY <1>6, <1>7, Zenon DEF Earliest

(* Of the App commands only close changes the control state.                *)
LEMMA ControlOfClient ==
  ASSUME Control, NEW m, app_cmdHandler(m), cliPc' = cliPc
  PROVE  Control'
BY DEF Control, app_cmdHandler

LEMMA StepKeepsTypes ==
  ASSUME DescriptorInv, TableInv, Typed, Next
  PROVE  Typed'
<1> USE DEF Typed
<1>0. PoolInv
  BY DEF DescriptorInv
<1>a. ASSUME NEW a, rcv' = [rcv EXCEPT ![a] = << >>], got' = got
      PROVE  Traffic'
  <2>1. << >> \in Seq(AppMsg)
    OBVIOUS
  <2>2. [rcv EXCEPT ![a] = << >>] \in [App -> Seq(AppMsg)]
    BY <2>1, UpdateTyped DEF Traffic
  <2> QED
    BY <1>a, <2>2 DEF Traffic
<1>1. CASE socOpen
  <2>1. /\ pc' \in {"exited", "serverOpen"} /\ serialIn' \in {serialIn, << >>}
        /\ UNCHANGED <<todo, hungUp, sent, cliVars, tcpVars>>
    BY <1>1 DEF socOpen
  <2>2. serialIn' \in Seq(SocMsg)
    <3>1. << >> \in Seq(SocMsg)
      OBVIOUS
    <3> QED
      BY <2>1, <3>1 DEF Inputs
  <2>3. Inputs'
    BY <2>1, <2>2 DEF Inputs
  <2> QED
    BY <2>1, <2>3 DEF Control, Traffic, cliVars, tcpVars
<1>2. CASE server_open
  BY <1>2 DEF server_open, Control, Inputs, Traffic, cliVars, tcpVars, envVars
<1>3. CASE ServeSerial
  <2>1. UNCHANGED <<pc, cliVars, tcpVars, hungUp>> /\ todo = {} /\ processSocCmd
    BY <1>3 DEF ServeSerial, AtPoll, processSocCmd
  <2>2. Control' /\ Traffic'
    BY <2>1 DEF Control, Traffic, cliVars, tcpVars
  <2>3. CASE /\ serialIn # << >> /\ serialIn' = Tail(serialIn)
             /\ Handle(Head(serialIn)) /\ UNCHANGED sent
    <3>1. Head(serialIn) \in SocMsg /\ Tail(serialIn) \in Seq(SocMsg)
      BY <2>3, HeadTailProperties DEF Inputs
    <3>2. Inputs'
      BY <2>1, <2>3, <3>1 DEF Inputs
    <3> QED
      BY <1>0, <2>1, <2>2, <2>3, <3>1, <3>2, HandleTyped
  <2>4. CASE serialIn' = serialIn /\ UNCHANGED <<todo, sent>>
    BY <2>1, <2>2, <2>4 DEF Inputs
  <2>5. CASE /\ serialIn' = serialIn
             /\ sent.soc < MaxSocMsgs
             /\ sent' = [sent EXCEPT !.soc = @ + 1]
             /\ \E m \in SocMsg : Handle(m)
    <3>1. Inputs'
      BY <2>1, <2>5, BoundsAssumption DEF Inputs
    <3> QED
      BY <1>0, <2>1, <2>2, <2>5, <3>1, HandleTyped
  <2> QED
    BY <2>1, <2>3, <2>4, <2>5 DEF processSocCmd
<1>4. CASE ServeStdin
  <2>1. /\ UNCHANGED <<todo, envVars, tcpVars>> /\ pc' \in {"exited", pc}
        /\ cliPc' = cliPc \/ cliPc' \in {"getc", "exit", "read"}
    BY <1>4, Zenon DEF ServeStdin, processConsoleCommand
  <2> QED
    BY <2>1 DEF Control, Inputs, Traffic, tcpVars, envVars
<1>5. CASE ServeListen
  BY <1>5 DEF ServeListen, server_acceptNewConn, Control, Inputs, Traffic, vars,
              loopVars, envVars, cliVars, tcpVars
<1>6. CASE PollClients
  BY <1>6 DEF PollClients, Control, Inputs, Traffic, cliVars, tcpVars, envVars
<1>7. CASE ServeClient
  <2> DEFINE a == Owner(NextClient[2])
  <2>1. /\ UNCHANGED <<envVars, cliVars>> /\ processTcpCmd(NextClient[2])
    BY <1>7 DEF ServeClient
  <2>2. Inputs' /\ cliPc' = cliPc
    BY <2>1 DEF Inputs, envVars, cliVars
  <2>3. CASE TakeData(a) /\ app_cmdHandler(Head(rcv[a]))
    <3>1. Traffic'
      BY <1>a, <2>3 DEF TakeData
    <3>2. todo' = todo \/ todo' = app_queryCmdHandler
      BY <2>3, Zenon DEF app_cmdHandler
    <3> QED
      BY <1>0, <2>2, <2>3, <3>1, <3>2, ControlOfClient, QueryTyped
  <2>4. CASE CloseFd(a) /\ UNCHANGED <<pc, todo>>
    <3>1. Traffic'
      BY <1>a, <2>4 DEF CloseFd
    <3> QED
      BY <2>2, <2>4, <3>1 DEF Control
  <2>5. CASE TakeError(a) /\ UNCHANGED <<pc, todo>>
    BY <2>2, <2>5 DEF TakeError, Traffic, Control
  <2> QED
    BY <2>1, <2>3, <2>4, <2>5 DEF processTcpCmd
<1>8. CASE KeyPress
  BY <1>8 DEF KeyPress, getcReturns, Control, Inputs, Traffic, loopVars, tcpVars, envVars
<1>9. CASE server_send
  <2>1. /\ UNCHANGED <<envVars, cliVars>> /\ todo' \subseteq todo
        /\ pc' \in {pc, "SIGPIPE"} /\ todo # {}
    BY <1>9 DEF server_send
  <2>2. Control' /\ Inputs'
    BY <2>1 DEF Control, Inputs, cliVars, envVars
  <2>3. Earliest \in todo
    BY <2>1, EarliestChosen
  <2>4. Earliest.msg \in Report
    BY <2>3 DEF Sendings
  <2>5. ASSUME Deliver(Owner(Earliest.fd), Earliest.msg) PROVE Traffic'
    <3> DEFINE b == Owner(Earliest.fd)
               v == Append(got[b], Earliest.msg)
    <3>1. b \in App => v \in Seq(Report)
      BY <2>4, AppendProperties DEF Traffic
    <3> HIDE DEF v
    <3>2. [got EXCEPT ![b] = v] \in [App -> Seq(Report)]
      BY <3>1, UpdateTyped DEF Traffic
    <3>3. rcv' = rcv /\ got' \in {got, [got EXCEPT ![b] = v]}
      BY <2>5 DEF Deliver, v
    <3> QED
      BY <3>2, <3>3 DEF Traffic
  <2>6. Traffic'
    BY <1>9, <2>5 DEF server_send, Traffic, tcpVars
  <2> QED
    BY <2>1, <2>2, <2>6
<1>10. CASE CoordinatorSends
  <2>1. PICK m \in SocMsg : /\ sent.soc < MaxSocMsgs /\ serialIn' = Append(serialIn, m)
                            /\ sent' = [sent EXCEPT !.soc = @ + 1]
                            /\ UNCHANGED <<loopVars, hungUp, cliVars, tcpVars>>
    BY <1>10 DEF CoordinatorSends
  <2>2. Inputs'
    BY <2>1, BoundsAssumption, AppendProperties DEF Inputs
  <2> QED
    BY <2>1, <2>2 DEF Control, Traffic, loopVars, cliVars, tcpVars
<1>11. CASE SerialHangsUp
  BY <1>11 DEF SerialHangsUp, Control, Inputs, Traffic, loopVars, cliVars, tcpVars
<1>12. CASE AppWrites
  <2>1. PICK b \in App, m \in AppMsg :
          /\ sent.app < MaxAppMsgs /\ Write(b, m)
          /\ sent' = [sent EXCEPT !.app = @ + 1]
          /\ UNCHANGED <<loopVars, serialIn, hungUp, cliVars>>
    BY <1>12 DEF AppWrites
  <2>2. Inputs'
    BY <2>1, BoundsAssumption DEF Inputs
  <2>3. Traffic'
    BY <2>1 DEF Traffic, Write
  <2> QED
    BY <2>1, <2>2, <2>3 DEF Control, loopVars, cliVars
<1>13. CASE AppOrNetwork
  BY <1>13 DEF AppOrNetwork, Connect, Close, Abort, RstArrives, Resume, Control, Inputs,
               Traffic, loopVars, envVars, cliVars
<1>14. CASE User
  <2>1. /\ sent.line < MaxLines /\ sent' = [sent EXCEPT !.line = @ + 1]
        /\ UNCHANGED <<loopVars, serialIn, hungUp, tcpVars, cliPc>>
    BY <1>14 DEF User, UserTypes
  <2>2. Inputs'
    BY <2>1, BoundsAssumption DEF Inputs
  <2> QED
    BY <2>1, <2>2 DEF Control, Traffic, loopVars, tcpVars
<1> QED
  BY <1>1, <1>2, <1>3, <1>4, <1>5, <1>6, <1>7, <1>8, <1>9, <1>10, <1>11, <1>12,
     <1>13, <1>14 DEF Next, Loop, Environment

LEMMA GatewayInvariance == Spec => [](DescriptorInv /\ TableInv /\ Typed)
<1>1. DescriptorInv /\ TableInv /\ Typed /\ [Next]_vars => TableInv' /\ Typed'
  <2> SUFFICES ASSUME DescriptorInv, TableInv, Typed, [Next]_vars PROVE TableInv' /\ Typed'
    OBVIOUS
  <2>1. TableInv'
    BY StepKeepsTable DEF Typed, Inputs
  <2>2. CASE UNCHANGED vars
    <3>1. UNCHANGED <<pc, cliPc, serialIn, hungUp, sent, rcv, got, todo>>
      BY <2>2 DEF vars, loopVars, envVars, cliVars, tcpVars
    <3> QED
      BY <2>1, <3>1 DEF Typed, Control, Inputs, Traffic
  <2> QED
    BY <2>1, <2>2, StepKeepsTypes
<1> QED
  BY <1>1, TableInit, TypedInit, DescriptorInvariance, PTL DEF Spec

(* Every variable of the gateway keeps its type: above all, no report is    *)
(* ever made of an empty entry of the node table, and none is addressed to  *)
(* an empty slot of the pool.                                               *)
THEOREM GatewayTypeCorrect == Spec => []TypeOK
<1>1. DescriptorInv /\ TableInv /\ Typed => TypeOK
  <2> SUFFICES ASSUME DescriptorInv, TableInv, Typed PROVE TypeOK
    OBVIOUS
  <2>1. work \subseteq Slots \X Sock
    BY DEF DescriptorInv, NoStaleDescriptor, socketPool_get, PoolInv, PoolTypeOK, InUse
  <2>2. PoolTypeOK /\ NodeTypeOK
    BY DEF DescriptorInv, PoolInv, TableInv, NodeInv
  <2>3. /\ link \in [App -> {"none", "alive", "stuck", "closed", "poked", "broken",
                             "reset", "gone"}]
        /\ fdOf \in [App -> Fd \cup {NoFd}]
        /\ backlog \in Seq(App)
    BY DEF DescriptorInv, Connections, Backlogged, LinkState
  <2> QED
    BY <2>1, <2>2, <2>3 DEF Typed, Control, Inputs, Traffic, Sendings, TypeOK
<1> QED
  BY <1>1, GatewayInvariance, PTL

(* In the whole gateway too, a device that announced itself is in the node  *)
(* table unless the table is full: handlers, not the table, decide what is  *)
(* announced.                                                               *)
THEOREM GatewayForgetsNoNode == Spec => []NothingForgotten
<1>1. TableInv => NothingForgotten
  BY DEF TableInv, NodeInv
<1> QED
  BY <1>1, GatewayInvariance, PTL
-----------------------------------------------------------------------------
(* The broadcaster.  The refinement needs, of what is to be sent, that a   *)
(* client has one message in each of finitely many turns, and the order of  *)
(* the turns.                                                               *)

(* The numbers of a finite set have their places in its order.              *)
UpTo(T, t) == {u \in T : u <= t}

LEMMA NthExists ==
  ASSUME NEW T \in SUBSET Nat, IsFiniteSet(T), NEW k \in 1 .. Cardinality(T)
  PROVE  Nth(T, k) \in T /\ Cardinality(UpTo(T, Nth(T, k))) = k
<1> DEFINE Bad == {n \in 1 .. Cardinality(T) : \A t \in T : Cardinality(UpTo(T, t)) # n}
<1>0. Cardinality(T) \in Nat /\ \A u \in T : u \in Nat
  BY FS_CardinalityType
<1>1. Bad = {}
  <2> SUFFICES ASSUME Bad # {} PROVE FALSE
    OBVIOUS
  <2>1. PICK n \in Bad : \A j \in Bad : n <= j
    <3>1. Bad \in SUBSET Nat
      BY <1>0
    <3> HIDE DEF Bad
    <3> QED
      BY <3>1, LeastNatural
  <2>2. PICK L \in SUBSET T : /\ Cardinality(L) = n - 1
                              /\ \A u \in T, v \in L : u <= v => u \in L
    <3>1. CASE n = 1
      <4>1. Cardinality({}) = 0
        BY FS_EmptySet
      <4> WITNESS {} \in SUBSET T
      <4> QED
        BY <3>1, <4>1
    <3>2. CASE n # 1
      <4>1. n - 1 \in 1 .. Cardinality(T) /\ n - 1 \notin Bad
        BY <1>0, <2>1, <3>2
      <4>2. PICK t \in T : Cardinality(UpTo(T, t)) = n - 1
        BY <4>1
      <4>3. \A u \in T, v \in UpTo(T, t) : u <= v => u \in UpTo(T, t)
        BY <1>0 DEF UpTo
      <4>4. UpTo(T, t) \in SUBSET T
        BY DEF UpTo
      <4> QED
        BY <4>2, <4>3, <4>4
    <3> QED
      BY <3>1, <3>2
  <2>3. IsFiniteSet(L)
    BY FS_Subset
  <2>4. T \ L \in SUBSET Nat /\ T \ L # {}
    <3>1. Cardinality(L) < Cardinality(T)
      BY <1>0, <2>1, <2>2
    <3>2. L # T
      <4> HIDE DEF Bad
      <4> QED
        BY <1>0, <3>1
    <3> QED
      BY <1>0, <3>2
  <2>5. PICK v \in T \ L : \A u \in T \ L : v <= u
    <3> HIDE DEF Bad
    <3> QED
      BY <2>4, LeastNatural
  <2>6. UpTo(T, v) = L \cup {v}
    <3>1. ASSUME NEW u \in L PROVE u <= v
      BY <2>2, <2>5, <3>1
    <3>2. ASSUME NEW u \in T, u <= v, u \notin L PROVE u = v
      BY <2>5, <3>2
    <3>3. v <= v
      BY <2>4, <2>5
    <3> QED
      BY <3>1, <3>2, <3>3 DEF UpTo
  <2>7. Cardinality(L \cup {v}) = Cardinality(L) + 1
    BY <2>3, <2>5, FS_AddElement
  <2> QED
    BY <1>0, <2>1, <2>2, <2>5, <2>6, <2>7
<1>2. \E t \in T : Cardinality(UpTo(T, t)) = k
  BY <1>1
<1> QED
  BY <1>2, Zenon DEF Nth, UpTo

LEMMA PlacesDiffer ==
  ASSUME NEW T \in SUBSET Nat, IsFiniteSet(T), NEW t \in T, NEW u \in T,
         Cardinality(UpTo(T, t)) = Cardinality(UpTo(T, u))
  PROVE  t = u
<1>1. ASSUME NEW x \in T, NEW y \in T, x < y,
             Cardinality(UpTo(T, x)) = Cardinality(UpTo(T, y))
      PROVE  FALSE
  <2>0. \A v \in T : v \in Nat
    OBVIOUS
  <2>a. x \in Nat /\ y \in Nat /\ ~ (y <= x) /\ y <= y
    BY <1>1, <2>0
  <2>b. \A v \in T : v <= x => v <= y
    BY <1>1, <2>0, <2>a
  <2>1. UpTo(T, x) \subseteq UpTo(T, y) /\ y \in UpTo(T, y) /\ y \notin UpTo(T, x)
    BY <2>a, <2>b, Zenon DEF UpTo
  <2>2. IsFiniteSet(UpTo(T, y))
    BY FS_Subset DEF UpTo
  <2> QED
    BY <1>1, <2>1, <2>2, FS_Subset
<1> QED
  BY <1>1

(* The place of a number is one more with a smaller number than without it. *)
LEMMA NthWithout ==
  ASSUME NEW T \in SUBSET Nat, IsFiniteSet(T), NEW m \in T, \A u \in T : m <= u
  PROVE  /\ Cardinality(T \ {m}) \in Nat
         /\ Cardinality(T) = Cardinality(T \ {m}) + 1
         /\ Nth(T, 1) = m
         /\ \A k \in 1 .. Cardinality(T \ {m}) : Nth(T, k + 1) = Nth(T \ {m}, k)
<1> DEFINE R == T \ {m}
<1>1. IsFiniteSet(R) /\ Cardinality(R) = Cardinality(T) - 1
  BY FS_RemoveElement
<1>2. Cardinality(T) \in Nat /\ Cardinality(R) \in Nat
  BY <1>1, FS_CardinalityType
<1>0. \A u \in T : u \in Nat
  OBVIOUS
<1>3. Cardinality(UpTo(T, m)) = 1
  <2>a. \A u \in T : u <= m <=> u = m
    BY <1>0
  <2>1. UpTo(T, m) = {} \cup {m}
    BY <2>a DEF UpTo
  <2>2. Cardinality({} \cup {m}) = 0 + 1
    BY FS_EmptySet, FS_AddElement
  <2> QED
    BY <2>1, <2>2
<1>4. Nth(T, 1) = m
  <2>1. 1 \in 1 .. Cardinality(T)
    BY <1>1, <1>2
  <2> DEFINE x == Nth(T, 1)
  <2>2. x \in T /\ Cardinality(UpTo(T, x)) = 1
    BY <2>1, NthExists
  <2> HIDE DEF x
  <2>3. x = m
    BY <1>3, <2>2, PlacesDiffer, Zenon
  <2> QED
    BY <2>3 DEF x
<1>5. ASSUME NEW k \in 1 .. Cardinality(R) PROVE Nth(T, k + 1) = Nth(R, k)
  <2> DEFINE x == Nth(R, k)
  <2>1. x \in R /\ Cardinality(UpTo(R, x)) = k
    BY <1>1, NthExists
  <2> DEFINE y == Nth(T, k + 1)
  <2>2. y \in T /\ Cardinality(UpTo(T, y)) = k + 1
    <3>1. k + 1 \in 1 .. Cardinality(T)
      BY <1>1, <1>2
    <3> QED
      BY <3>1, NthExists
  <2> HIDE DEF x, y
  <2>3. UpTo(T, x) = UpTo(R, x) \cup {m} /\ m \notin UpTo(R, x)
    BY <2>1 DEF UpTo
  <2>4. IsFiniteSet(UpTo(R, x))
    BY <1>1, FS_Subset DEF UpTo
  <2>5. Cardinality(UpTo(T, x)) = k + 1
    BY <2>1, <2>3, <2>4, FS_AddElement
  <2>6. x \in T
    BY <2>1
  <2>7. x = y
    BY <2>2, <2>5, <2>6, PlacesDiffer, Zenon
  <2> QED
    BY <2>7 DEF x, y
<1> QED
  BY <1>1, <1>2, <1>4, <1>5

-----------------------------------------------------------------------------
(* What is to be sent, in the order of its turns.                           *)
LEMMA InTurnOf ==
  ASSUME NEW S \in SUBSET Sendings, IsFiniteSet(Turns(S))
  PROVE  /\ InTurn(S) \in Seq(Report)
         /\ Len(InTurn(S)) = Cardinality(Turns(S))
         /\ Cardinality(Turns(S)) \in Nat
         /\ \A k \in 1 .. Cardinality(Turns(S)) :
              \E s \in S : s.turn = Nth(Turns(S), k) /\ InTurn(S)[k] = s.msg
<1> DEFINE T == Turns(S)
           n == Cardinality(T)
<1>1. T \in SUBSET Nat
  BY DEF Turns, Sendings
<1>2. n \in Nat
  BY FS_CardinalityType
<1>3. ASSUME NEW k \in 1 .. n
      PROVE  \E s \in S : s.turn = Nth(T, k) /\ InTurn(S)[k] = s.msg
  <2>1. Nth(T, k) \in T
    BY <1>1, NthExists
  <2>2. \E s \in S : s.turn = Nth(T, k)
    BY <2>1 DEF Turns
  <2> DEFINE s == CHOOSE r \in S : r.turn = Nth(T, k)
  <2>3. s \in S /\ s.turn = Nth(T, k)
    <3> HIDE DEF T
    <3> QED
      BY <2>2, Zenon
  <2>4. InTurn(S)[k] = s.msg
    BY <1>3 DEF InTurn
  <2> QED
    BY <2>3, <2>4
<1>4. \A s \in S : s.msg \in Report
  BY DEF Sendings
<1>5. InTurn(S) = [k \in 1 .. n |-> InTurn(S)[k]]
  BY DEF InTurn
<1> HIDE DEF n, T
<1>6. \A k \in 1 .. n : InTurn(S)[k] \in Report
  BY <1>3, <1>4
<1>7. InTurn(S) \in Seq(Report) /\ Len(InTurn(S)) = n
  BY <1>2, <1>5, <1>6, IsASeq, LenProperties
<1> QED
  BY <1>2, <1>3, <1>7 DEF n, T

LEMMA InTurnEmpty == InTurn({}) = << >>
<1>1. Turns({}) = {}
  BY DEF Turns
<1>2. Cardinality(Turns({})) = 0 /\ IsFiniteSet(Turns({}))
  BY <1>1, FS_EmptySet
<1>3. InTurn({}) \in Seq(Report) /\ Len(InTurn({})) = 0
  BY <1>2, InTurnOf
<1> QED
  BY <1>3, EmptySeq

LEMMA InTurnFirst ==
  ASSUME NEW S \in SUBSET Sendings, IsFiniteSet(Turns(S)),
         \A s, t \in S : s.turn = t.turn => s = t,
         NEW e \in S, \A s \in S : e.turn <= s.turn
  PROVE  InTurn(S) = << e.msg >> \o InTurn(S \ {e})
<1> DEFINE T == Turns(S)
           R == Turns(S \ {e})
           q == InTurn(S \ {e})
<1>1. T \in SUBSET Nat /\ e.turn \in T /\ \A t \in T : e.turn <= t
  BY DEF Turns, Sendings
<1>2. R = T \ {e.turn}
  BY DEF Turns
<1>3. IsFiniteSet(R)
  BY <1>2, FS_Subset
<1>4. /\ Cardinality(R) \in Nat /\ Cardinality(T) = Cardinality(R) + 1
      /\ Nth(T, 1) = e.turn
      /\ \A k \in 1 .. Cardinality(R) : Nth(T, k + 1) = Nth(R, k)
  <2> HIDE DEF T, R
  <2> QED
    BY <1>1, <1>2, NthWithout DEF T
<1>5. /\ InTurn(S) \in Seq(Report) /\ Len(InTurn(S)) = Cardinality(T)
      /\ \A k \in 1 .. Cardinality(T) :
           \E s \in S : s.turn = Nth(T, k) /\ InTurn(S)[k] = s.msg
  BY InTurnOf
<1>6. /\ q \in Seq(Report) /\ Len(q) = Cardinality(R)
      /\ \A k \in 1 .. Cardinality(R) :
           \E s \in S \ {e} : s.turn = Nth(R, k) /\ q[k] = s.msg
  BY <1>3, InTurnOf
<1>7. e.msg \in Report
  BY DEF Sendings
<1> HIDE DEF T, R, q
<1>8. InTurn(S)[1] = e.msg
  BY <1>4, <1>5
<1>9. ASSUME NEW k \in 1 .. Cardinality(R) PROVE InTurn(S)[k + 1] = q[k]
  <2>1. PICK s \in S : s.turn = Nth(T, k + 1) /\ InTurn(S)[k + 1] = s.msg
    BY <1>4, <1>5
  <2>2. PICK r \in S \ {e} : r.turn = Nth(R, k) /\ q[k] = r.msg
    BY <1>6
  <2>3. s = r
    BY <1>4, <2>1, <2>2
  <2> QED
    BY <2>1, <2>2, <2>3
<1>10. /\ << e.msg >> \in Seq(Report) /\ Len(<< e.msg >>) = 1
       /\ << e.msg >>[1] = e.msg
  BY <1>7
<1> DEFINE r == << e.msg >> \o q
<1>11. /\ r \in Seq(Report) /\ Len(r) = Cardinality(R) + 1
       /\ \A i \in 1 .. Cardinality(R) + 1 : r[i] = IF i <= 1 THEN e.msg ELSE q[i - 1]
  BY <1>4, <1>6, <1>10, ConcatProperties
<1>13. InTurn(S) = << e.msg >> \o q <=> InTurn(S) = r
  OBVIOUS
<1> HIDE DEF r
<1>12. \A i \in 1 .. Len(InTurn(S)) : InTurn(S)[i] = r[i]
  <2> SUFFICES ASSUME NEW i \in 1 .. Cardinality(R) + 1 PROVE InTurn(S)[i] = r[i]
    BY <1>4, <1>5
  <2>1. CASE i = 1
    BY <1>8, <1>11, <2>1
  <2>2. CASE i # 1
    <3>1. i - 1 \in 1 .. Cardinality(R) /\ (i - 1) + 1 = i /\ ~ (i <= 1)
      BY <1>4, <2>2
    <3> QED
      BY <1>9, <1>11, <3>1
  <2> QED
    BY <2>1, <2>2
<1> QED
  <2>1. InTurn(S) = r
    BY <1>4, <1>5, <1>11, <1>12, SeqEqual
  <2> QED
    BY <1>13, <2>1 DEF q

-----------------------------------------------------------------------------
(* What the refinement needs: a client has at most one message in each of   *)
(* finitely many turns, and who was never accepted has received nothing.    *)
QueueInv ==
  /\ \A s \in todo : s.turn \in 0 .. MaxNodeNum
  /\ \A s, t \in todo : s.turn = t.turn /\ s.fd = t.fd => s = t
  /\ \A a \in App : fdOf[a] = NoFd /\ link[a] # "gone" => got[a] = << >>

LEMMA TurnsFinite ==
  ASSUME NEW S, \A s \in S : s.turn \in 0 .. MaxNodeNum
  PROVE  IsFiniteSet(Turns(S))
<1>1. IsFiniteSet(0 .. MaxNodeNum)
  BY FS_Interval, MaxNodeNumAssumption
<1>2. Turns(S) \subseteq 0 .. MaxNodeNum
  BY DEF Turns
<1> QED
  BY <1>1, <1>2, FS_Subset

(* Broadcasts one after the other: in turn t of T, the message M[t] to all. *)
Rounds(T, M) ==
  {[turn |-> t, slot |-> c[1], fd |-> c[2], msg |-> M[t]] : t \in T, c \in socketPool_get}

LEMMA HandleInRounds ==
  ASSUME NEW m, Handle(m), todo = {}
  PROVE  \E T \in SUBSET (0 .. MaxNodeNum) : \E M : todo' = Rounds(T, M)
<1>1. \/ \E msg : todo' = Broadcast(0, msg)
      \/ todo' = {}
  BY DEF Handle, zll_ctrlRspHandler, zll_dataRspHandler, app_sendDeviceReportCmd,
         app_sendGroupRspCmd
<1>2. ASSUME NEW msg PROVE Broadcast(0, msg) = Rounds({0}, [t \in {0} |-> msg])
  BY DEF Broadcast, Rounds
<1>3. {0} \in SUBSET (0 .. MaxNodeNum)
  BY MaxNodeNumAssumption
<1>4. \A M : {} = Rounds({}, M)
  BY DEF Rounds
<1> QED
  BY <1>1, <1>2, <1>3, <1>4, Zenon

LEMMA QueryInRounds ==
  \E T \in SUBSET (0 .. MaxNodeNum) : \E M : app_queryCmdHandler = Rounds(T, M)
<1> DEFINE T == {j \in Entries : nodeTbl[j].nwkAddr # EMPTY_NODE_NWK_ADDR}
           R(i) == [cmd |-> "report", devType |-> nodeTbl[i].devType,
                    nwkAddr |-> nodeTbl[i].nwkAddr, extAddr |-> nodeTbl[i].extAddr]
           M == [i \in T |-> R(i)]
<1>1. T \in SUBSET (0 .. MaxNodeNum)
  BY MaxNodeNumAssumption DEF Entries
<1>2. \A i \in T : M[i] = R(i)
  OBVIOUS
<1>3. \A i : ReportOf(i) = {[turn |-> i, slot |-> c[1], fd |-> c[2], msg |-> R(i)] :
                              c \in socketPool_get}
  BY DEF ReportOf, app_sendDeviceReportCmd, Broadcast
<1>4. app_queryCmdHandler = UNION {ReportOf(i) : i \in T}
  BY DEF app_queryCmdHandler
<1> HIDE DEF T, R, M
<1>5. ASSUME NEW x PROVE x \in app_queryCmdHandler <=> x \in Rounds(T, M)
  <2>1. x \in app_queryCmdHandler <=> \E i \in T : x \in ReportOf(i)
    BY <1>4
  <2>2. x \in app_queryCmdHandler <=>
          \E i \in T, c \in socketPool_get :
            x = [turn |-> i, slot |-> c[1], fd |-> c[2], msg |-> R(i)]
    BY <1>3, <2>1
  <2> QED
    BY <1>2, <2>2 DEF Rounds
<1>6. app_queryCmdHandler = Rounds(T, M)
  BY <1>5
<1> QED
  BY <1>1, <1>6

(* Whoever is addressed gets the messages of the turns in their order.      *)
LEMMA RoundsTo ==
  ASSUME PoolInv, NEW c \in socketPool_get, NEW T \in SUBSET (0 .. MaxNodeNum), NEW M,
         Rounds(T, M) \subseteq Sendings
  PROVE  LET P == {s \in Rounds(T, M) : s.fd = c[2]}
         IN  /\ InTurn(P) \in Seq(Report)
             /\ Len(InTurn(P)) = Cardinality(T)
             /\ \A k \in 1 .. Cardinality(T) : InTurn(P)[k] = M[Nth(T, k)]
<1> DEFINE P == {s \in Rounds(T, M) : s.fd = c[2]}
<1>1. \A s \in P : s.turn \in T /\ s.msg = M[s.turn]
  BY DEF Rounds
<1>2. ASSUME NEW t \in T PROVE \E s \in P : s.turn = t
  <2> DEFINE s == [turn |-> t, slot |-> c[1], fd |-> c[2], msg |-> M[t]]
  <2>1. s \in Rounds(T, M)
    BY DEF Rounds
  <2>2. s.fd = c[2] /\ s.turn = t
    OBVIOUS
  <2> QED
    BY <2>1, <2>2
<1>3. Turns(P) = T
  <2> HIDE DEF P
  <2> QED
    BY <1>1, <1>2 DEF Turns
<1>4. P \in SUBSET Sendings /\ \A s \in P : s.turn \in 0 .. MaxNodeNum
  BY <1>1
<1> HIDE DEF P
<1>5. IsFiniteSet(Turns(P))
  BY <1>4, TurnsFinite
<1>6. /\ InTurn(P) \in Seq(Report) /\ Len(InTurn(P)) = Cardinality(T)
      /\ \A k \in 1 .. Cardinality(T) :
           \E s \in P : s.turn = Nth(T, k) /\ InTurn(P)[k] = s.msg
  BY <1>3, <1>4, <1>5, InTurnOf
<1>7. \A k \in 1 .. Cardinality(T) : InTurn(P)[k] = M[Nth(T, k)]
  BY <1>1, <1>6
<1> QED
  BY <1>6, <1>7 DEF P

(* Two messages to one descriptor have different turns.                     *)
LEMMA RoundsDiffer ==
  ASSUME PoolInv, NEW T, NEW M, NEW s \in Rounds(T, M), NEW t \in Rounds(T, M),
         s.turn = t.turn, s.fd = t.fd
  PROVE  s = t
<1>1. PICK c \in socketPool_get : /\ s.slot = c[1] /\ s.fd = c[2]
                                  /\ s = [turn |-> s.turn, slot |-> c[1], fd |-> c[2],
                                          msg |-> M[s.turn]]
  BY DEF Rounds
<1>2. PICK d \in socketPool_get : /\ t.slot = d[1] /\ t.fd = d[2]
                                  /\ t = [turn |-> t.turn, slot |-> d[1], fd |-> d[2],
                                          msg |-> M[t.turn]]
  BY DEF Rounds
<1>3. /\ c[1] \in InUse /\ sockets[c[1]] = c[2]
      /\ d[1] \in InUse /\ sockets[d[1]] = d[2]
  BY DEF socketPool_get
<1>4. c[2] = d[2]
  BY <1>1, <1>2
<1>5. c[1] = d[1]
  BY <1>3, <1>4 DEF PoolInv, NoDuplicates
<1> QED
  BY <1>1, <1>2, <1>4, <1>5

LEMMA NewsOfConcat ==
  ASSUME NEW S, NEW g \in Seq(S), NEW q \in Seq(S)
  PROVE  SubSeq(g \o q, Len(g) + 1, Len(g \o q)) = q
<1> DEFINE c == g \o q
           n == SubSeq(c, Len(g) + 1, Len(c))
<1>1. /\ c \in Seq(S) /\ Len(c) = Len(g) + Len(q)
      /\ \A i \in 1 .. Len(g) + Len(q) : c[i] = IF i <= Len(g) THEN g[i] ELSE q[i - Len(g)]
  BY ConcatProperties
<1>2. Len(g) \in Nat /\ Len(q) \in Nat
  BY LenProperties
<1>3. \A i \in 1 .. Len(q) : q[i] \in S
  BY ElementOfSeq
<1> HIDE DEF c
<1>4. \A i \in 1 .. Len(q) : c[Len(g) + i] = q[i]
  <2> TAKE i \in 1 .. Len(q)
  <2>1. Len(g) + i \in 1 .. Len(g) + Len(q) /\ ~ (Len(g) + i <= Len(g))
        /\ (Len(g) + i) - Len(g) = i
    BY <1>2
  <2> QED
    BY <1>1, <2>1
<1>5. \A i \in Len(g) + 1 .. Len(c) : c[i] \in S
  <2> TAKE i \in Len(g) + 1 .. Len(c)
  <2>1. i \in 1 .. Len(c)
    BY <1>1, <1>2
  <2> QED
    BY <1>1, <2>1, ElementOfSeq
<1>6. /\ n \in Seq(S)
      /\ Len(n) = IF Len(g) + 1 <= Len(c) THEN Len(c) - (Len(g) + 1) + 1 ELSE 0
      /\ \A i \in 1 .. Len(c) - (Len(g) + 1) + 1 : n[i] = c[Len(g) + 1 + i - 1]
  <2>1. Len(g) + 1 \in Int /\ Len(c) \in Int
    BY <1>1, <1>2
  <2> QED
    BY <1>5, <2>1, SubSeqProperties
<1> HIDE DEF n
<1>7. Len(n) = Len(q)
  BY <1>1, <1>2, <1>6
<1>8. \A i \in 1 .. Len(n) : n[i] = q[i]
  <2> TAKE i \in 1 .. Len(n)
  <2>1. i \in 1 .. Len(c) - (Len(g) + 1) + 1 /\ i \in 1 .. Len(q)
        /\ Len(g) + 1 + i - 1 = Len(g) + i
    BY <1>1, <1>2, <1>7
  <2> QED
    BY <1>4, <1>6, <2>1
<1> QED
  BY <1>6, <1>7, <1>8, SeqEqual DEF n, c

-----------------------------------------------------------------------------
RefInv == DescriptorInv /\ Typed /\ QueueInv

LEMMA MemberFacts ==
  ASSUME DescriptorInv
  PROVE  /\ NoFd \notin Pooled
         /\ \A a \in App : fdOf[a] \in Pooled => link[a] # "none"
         /\ \A a, b \in App : fdOf[a] \in Pooled /\ fdOf[a] = fdOf[b] => a = b
         /\ \A fd \in Pooled : \E c \in socketPool_get : c[2] = fd
<1>1. NoFd \notin Pooled
  BY DEF DescriptorInv, PoolIsOpen, OpenFds
<1>2. \A fd \in Pooled : \E c \in socketPool_get : c[2] = fd
  <2> TAKE fd \in Pooled
  <2>1. PICK i \in InUse : fd = sockets[i]
    BY DEF Pooled
  <2>2. <<i, fd>> \in socketPool_get /\ <<i, fd>>[2] = fd
    BY <2>1 DEF socketPool_get
  <2> QED
    BY <2>2
<1> QED
  BY <1>1, <1>2 DEF DescriptorInv, PoolIsOpen, Connections

(* What one Inbox holds.                                                    *)
LEMMA InboxOf ==
  ASSUME NEW a \in App
  PROVE  /\ a \in Members => Inbox[a] = got[a] \o InTurn(Pending(a))
         /\ a \notin Members => Inbox[a] = << >>
BY DEF Inbox

LEMMA PendingTyped ==
  ASSUME Typed, QueueInv, NEW a \in App
  PROVE  /\ got[a] \in Seq(Report)
         /\ Pending(a) \in SUBSET Sendings
         /\ IsFiniteSet(Turns(Pending(a)))
         /\ InTurn(Pending(a)) \in Seq(Report)
<1>1. Pending(a) \in SUBSET Sendings
  BY DEF Typed, Pending
<1>2. \A s \in Pending(a) : s.turn \in 0 .. MaxNodeNum
  BY DEF QueueInv, Pending
<1>3. IsFiniteSet(Turns(Pending(a)))
  BY <1>2, TurnsFinite
<1> QED
  BY <1>1, <1>3, InTurnOf DEF Typed, Traffic

(* Nobody sees a step that opens and closes nothing and sends nothing.      *)
LEMMA UnseenStep ==
  ASSUME RefInv, UNCHANGED <<poolVars, fdOf, got, todo>>,
         \A a \in App : fdOf[a] \in Pooled => (link'[a] \in Open <=> link[a] \in Open),
         \A a \in App : fdOf[a] = NoFd /\ link'[a] # "gone" => link[a] # "gone"
  PROVE  UNCHANGED <<Members, Inbox>> /\ QueueInv'
<1>1. Pooled' = Pooled
  BY DEF poolVars, Pooled, InUse
<1>2. Members' = Members
  BY <1>1 DEF Members
<1>3. \A a \in App : Pending(a)' = Pending(a)
  BY DEF Pending
<1>4. Inbox' = Inbox
  BY <1>2, <1>3 DEF Inbox
<1>5. QueueInv'
  BY DEF RefInv, QueueInv
<1> QED
  BY <1>2, <1>4, <1>5

(* What a handler has to say to the Apps is announced to all of them.       *)
LEMMA AnnounceStep ==
  ASSUME RefInv, Typed', todo = {},
         NEW T \in SUBSET (0 .. MaxNodeNum), NEW M, todo' = Rounds(T, M),
         UNCHANGED <<poolVars, link, fdOf, got>>
  PROVE  BroadcasterOf!Announce /\ QueueInv'
<1>0. PoolInv /\ DescriptorInv /\ Typed /\ QueueInv
  BY DEF RefInv, DescriptorInv
<1>1. Pooled' = Pooled
  BY DEF poolVars, Pooled, InUse
<1>2. Members' = Members
  BY <1>1 DEF Members
<1>3. Rounds(T, M) \subseteq Sendings
  BY DEF Typed
<1>4. QueueInv'
  <2>1. \A s \in Rounds(T, M) : s.turn \in 0 .. MaxNodeNum
    BY DEF Rounds
  <2>2. \A s, t \in Rounds(T, M) : s.turn = t.turn /\ s.fd = t.fd => s = t
    BY <1>0, RoundsDiffer
  <2> QED
    BY <1>0, <2>1, <2>2 DEF QueueInv
<1>5. \A a \in App : Pending(a) = {} /\ InTurn(Pending(a)) = << >>
  BY InTurnEmpty DEF Pending
<1> DEFINE q(a) == InTurn(Pending(a)')
<1>6. ASSUME NEW a \in Members
      PROVE  /\ a \in App
             /\ q(a) \in Seq(Report)
             /\ Len(q(a)) = Cardinality(T)
             /\ \A k \in 1 .. Cardinality(T) : q(a)[k] = M[Nth(T, k)]
  <2>1. a \in App /\ fdOf[a] \in Pooled
    BY DEF Members
  <2>2. PICK c \in socketPool_get : c[2] = fdOf[a]
    BY <1>0, <2>1, MemberFacts
  <2>3. Pending(a)' = {s \in Rounds(T, M) : s.fd = c[2]}
    BY <2>2 DEF Pending
  <2> QED
    BY <1>0, <1>3, <2>1, <2>3, RoundsTo
<1>7. \A a \in Members : got[a] \in Seq(Report)
  BY <1>0, <1>6, PendingTyped
<1>8. \A a \in Members : Inbox[a] = got[a] /\ Inbox'[a] = got[a] \o q(a)
  <2> TAKE a \in Members
  <2>1. a \in App /\ a \in Members'
    BY <1>2, <1>6
  <2>2. Inbox[a] = got[a] \o << >>
    BY <1>5, <2>1, InboxOf
  <2>3. Inbox[a] = got[a]
    BY <1>7, <2>2, ConcatEmptySeq
  <2>4. Inbox'[a] = (got[a] \o InTurn(Pending(a)))'
    BY <2>1 DEF Inbox
  <2>5. InTurn(Pending(a))' = InTurn(Pending(a)')
    BY DEF InTurn, Nth, Turns
  <2> QED
    BY <2>3, <2>4, <2>5
<1> HIDE DEF q
<1>9. \A a \in Members : BroadcasterOf!News(a) = q(a)
  BY <1>6, <1>7, <1>8, NewsOfConcat DEF BroadcasterOf!News
<1>10. \A a, b \in Members : q(a) = q(b)
  <2> TAKE a, b \in Members
  <2>1. \A k \in 1 .. Len(q(a)) : q(a)[k] = q(b)[k]
    BY <1>6
  <2> QED
    BY <1>6, <2>1, SeqEqual
<1>11. Inbox' = [a \in App |-> IF a \in Members THEN Inbox[a] \o BroadcasterOf!News(a)
                                               ELSE Inbox[a]]
  <2>1. Inbox' = [a \in App |-> Inbox'[a]]
    BY DEF Inbox
  <2>2. \A a \in App : a \notin Members => Inbox'[a] = Inbox[a]
    BY <1>2 DEF Inbox
  <2>3. \A a \in App : Inbox'[a] = IF a \in Members
                                   THEN Inbox[a] \o BroadcasterOf!News(a)
                                   ELSE Inbox[a]
    BY <1>8, <1>9, <2>2
  <2> QED
    BY <2>1, <2>3, Zenon
<1> QED
  BY <1>2, <1>4, <1>9, <1>10, <1>11 DEF BroadcasterOf!Announce

(* A member that closes or aborts its connection leaves.                    *)
LEMMA LeavingStep ==
  ASSUME RefInv, NEW a \in App, Close(a) \/ Abort(a), UNCHANGED <<poolVars, todo>>
  PROVE  /\ BroadcasterOf!Leave(a) \/ UNCHANGED <<Members, Inbox>>
         /\ QueueInv'
<1>1. /\ link[a] \in Open /\ UNCHANGED <<fdOf, got>>
      /\ \A b \in App : link'[b] = link[b] \/ (b = a /\ link'[b] \in {"closed", "reset"})
      /\ link'[a] \notin Open
  BY DEF Close, Abort, Open, RefInv, DescriptorInv, Connections
<1>2. Pooled' = Pooled
  BY DEF poolVars, Pooled, InUse
<1>3. Members' = Members \ {a}
  BY <1>1, <1>2 DEF Members
<1>4. QueueInv'
  BY <1>1 DEF RefInv, QueueInv, Open
<1>5. \A b \in App : Pending(b)' = Pending(b)
  BY <1>1 DEF Pending
<1>6. Inbox' = [b \in App |-> IF b \in Members \ {a} THEN Inbox[b] ELSE << >>]
  BY <1>1, <1>3, <1>5 DEF Inbox
<1>7. CASE a \in Members
  <2>1. Inbox' = [Inbox EXCEPT ![a] = << >>]
    BY <1>6 DEF Inbox
  <2> QED
    BY <1>3, <1>4, <1>7, <2>1 DEF BroadcasterOf!Leave
<1>8. CASE a \notin Members
  <2>1. Members' = Members
    BY <1>3, <1>8
  <2>2. Inbox' = Inbox
    BY <1>1, <1>5, <2>1 DEF Inbox
  <2> QED
    BY <1>4, <2>1, <2>2
<1> QED
  BY <1>7, <1>8

(* A client whose end the gateway notices is no member any more.            *)
LEMMA ClosingStep ==
  ASSUME RefInv, NEW a \in App, link[a] \notin Open, CloseFd(a), fdOf[a] # NoFd,
         Pooled' = Pooled \ {fdOf[a]}, UNCHANGED todo
  PROVE  UNCHANGED <<Members, Inbox>> /\ QueueInv'
<1>1. /\ got' = got
      /\ link'[a] = "gone" /\ fdOf'[a] = NoFd
      /\ \A b \in App \ {a} : link'[b] = link[b] /\ fdOf'[b] = fdOf[b]
  BY DEF CloseFd, RefInv, DescriptorInv, Connections
<1>2. \A b \in App \ {a} : fdOf[b] # fdOf[a]
  BY DEF RefInv, DescriptorInv, PoolIsOpen
<1>3. Members' = Members
  BY <1>1, <1>2 DEF Members, Open
<1>4. \A b \in Members : b \in App /\ Pending(b)' = Pending(b)
  BY <1>1 DEF Members, Pending
<1>5. Inbox' = Inbox
  BY <1>1, <1>3, <1>4 DEF Inbox
<1>6. QueueInv'
  BY <1>1 DEF RefInv, QueueInv
<1> QED
  BY <1>3, <1>5, <1>6

(* An accepted App that is still there joins, if the pool has room.         *)
LEMMA JoiningStep ==
  ASSUME RefInv, NEW a \in App, NEW fd, fdOf[a] = NoFd, fd # NoFd, fd \notin OpenFds,
         fdOf' = [fdOf EXCEPT ![a] = fd],
         Pooled' \subseteq Pooled \cup {fd}, Pooled \subseteq Pooled',
         UNCHANGED <<link, got>>, todo = {}, todo' = {}
  PROVE  /\ BroadcasterOf!Join(a) \/ UNCHANGED <<Members, Inbox>>
         /\ QueueInv'
<1>1. \A b \in App : fdOf'[b] = IF b = a THEN fd ELSE fdOf[b]
  BY DEF RefInv, DescriptorInv, Connections
<1>2. \A b \in App : fdOf[b] # fd
  BY DEF OpenFds
<1>3. a \notin Members
  BY MemberFacts DEF RefInv, Members
<1>4. Members' \ {a} = Members
  BY <1>1, <1>2, <1>3 DEF Members
<1>5. \A b \in App : Pending(b) = {} /\ Pending(b)' = {}
  BY DEF Pending
<1>6. InTurn({}) = << >>
  BY InTurnEmpty
<1>7. QueueInv'
  BY <1>1 DEF RefInv, QueueInv
<1>8. \A b \in App : Inbox[b] = IF b \in Members THEN got[b] \o InTurn({}) ELSE << >>
  BY <1>5 DEF Inbox
<1>9. \A b \in App : InTurn(Pending(b))' = InTurn({})
  <2>1. \A b \in App : InTurn(Pending(b))' = InTurn(Pending(b)')
    BY DEF InTurn, Nth, Turns
  <2> QED
    BY <1>5, <2>1
<1>10. \A b \in App : Inbox'[b] = IF b \in Members' THEN got[b] \o InTurn({}) ELSE << >>
  BY <1>9 DEF Inbox
<1>11. Inbox' = [b \in App |-> Inbox'[b]] /\ Inbox = [b \in App |-> Inbox[b]]
  BY DEF Inbox
<1>12. CASE a \in Members'
  <2>1. link[a] \in Open
    BY <1>12 DEF Members
  <2>2. got[a] = << >>
    BY <2>1 DEF RefInv, QueueInv, Open
  <2>3. got[a] \o InTurn({}) = << >>
    BY <1>6, <2>2
  <2>4. \A b \in App : Inbox'[b] = Inbox[b]
    BY <1>3, <1>4, <1>8, <1>10, <2>3
  <2>5. Inbox' = Inbox
    BY <1>11, <2>4, Zenon
  <2>6. Inbox[a] = << >>
    BY <1>3, <1>8
  <2>7. Members' = Members \cup {a}
    BY <1>4, <1>12
  <2> QED
    BY <1>3, <1>7, <2>5, <2>6, <2>7 DEF BroadcasterOf!Join
<1>13. CASE a \notin Members'
  <2>1. Members' = Members
    BY <1>4, <1>13
  <2>2. \A b \in App : Inbox'[b] = Inbox[b]
    BY <1>8, <1>10, <2>1
  <2>3. Inbox' = Inbox
    BY <1>11, <2>2, Zenon
  <2> QED
    BY <1>7, <2>1, <2>3
<1> QED
  BY <1>12, <1>13

-----------------------------------------------------------------------------
(* A message that is sent passes from what is to be sent to what was got.   *)
LEMMA SendingToOne ==
  ASSUME RefInv, todo # {}, Deliver(Owner(Earliest.fd), Earliest.msg),
         link[Owner(Earliest.fd)] # "stuck", todo' = todo \ {Earliest},
         UNCHANGED poolVars
  PROVE  UNCHANGED <<Members, Inbox>> /\ QueueInv'
<1>0. DescriptorInv /\ Typed /\ QueueInv
  BY DEF RefInv
<1>1. PICK e \in todo : e = Earliest /\ e \in Sendings /\ \A t \in todo : Before(e, t)
  BY <1>0, EarliestChosen DEF Typed
<1>2. <<e.slot, e.fd>> \in socketPool_get
  BY <1>0, <1>1 DEF DescriptorInv, NoStaleDescriptor
<1>3. e.fd \in Pooled
  BY <1>2 DEF socketPool_get, Pooled
<1>4. PICK a \in App : a = Owner(e.fd) /\ fdOf[a] = e.fd
  BY <1>0, <1>3, OwnerOfClient
<1>5. /\ Deliver(a, e.msg) /\ link[a] # "stuck" /\ todo' = todo \ {e}
      /\ sockets' = sockets
  BY <1>1, <1>4 DEF poolVars
<1>6. Pooled' = Pooled /\ fdOf' = fdOf
  BY <1>5 DEF Pooled, InUse, Deliver
<1>7. /\ link[a] = "alive" => link'[a] \in {"alive", "stuck"}
      /\ link[a] # "alive" => link'[a] \notin Open
      /\ \A b \in App \ {a} : link'[b] = link[b] /\ got'[b] = got[b]
      /\ got'[a] = IF link[a] = "alive" THEN Append(got[a], e.msg) ELSE got[a]
  <2>1. PICK after \in AfterSend(a) : link' = [link EXCEPT ![a] = after]
    BY <1>5 DEF Deliver
  <2>2. link \in [App -> LinkState] /\ got \in [App -> Seq(Report)]
    BY <1>0 DEF DescriptorInv, Connections, Typed, Traffic
  <2>3. link[a] = "alive" => after \in {"alive", "stuck"}
    BY <2>1 DEF AfterSend
  <2>4. link[a] # "alive" => after \notin Open
    BY <1>5, <2>1 DEF AfterSend, Open
  <2>5. link'[a] = after /\ \A b \in App \ {a} : link'[b] = link[b]
    BY <1>4, <2>1, <2>2
  <2>6. got' = IF link[a] = "alive" THEN [got EXCEPT ![a] = Append(@, e.msg)] ELSE got
    BY <1>5 DEF Deliver
  <2>7. /\ \A b \in App \ {a} : got'[b] = got[b]
        /\ got'[a] = IF link[a] = "alive" THEN Append(got[a], e.msg) ELSE got[a]
    BY <1>4, <2>2, <2>6
  <2> QED
    BY <2>3, <2>4, <2>5, <2>7
<1>8. Members' = Members
  BY <1>5, <1>6, <1>7 DEF Members, Open
<1>9. \A b \in Members : b # a => Pending(b)' = Pending(b)
  <2>1. \A b \in App : b # a => fdOf[b] # e.fd
    BY <1>0, <1>3, <1>4, MemberFacts
  <2> QED
    BY <1>5, <1>6, <2>1 DEF Members, Pending
<1>10. ASSUME a \in Members
       PROVE  got'[a] \o InTurn(Pending(a)') = got[a] \o InTurn(Pending(a))
  <2> DEFINE P == Pending(a)
  <2>1. link[a] = "alive" /\ got'[a] = Append(got[a], e.msg)
    BY <1>5, <1>7, <1>10 DEF Members, Open
  <2>2. Pending(a)' = P \ {e}
    BY <1>5, <1>6 DEF Pending
  <2>3. P \in SUBSET Sendings /\ IsFiniteSet(Turns(P)) /\ got[a] \in Seq(Report)
    BY <1>0, <1>4, PendingTyped
  <2>4. e \in P /\ e.msg \in Report
    BY <1>1, <1>4 DEF Pending, Sendings
  <2>5. \A s, t \in P : s.turn = t.turn => s = t
    BY <1>0 DEF QueueInv, Pending
  <2>6. \A s \in P : e.turn <= s.turn
    <3> TAKE s \in P
    <3>1. Before(e, s) /\ e.turn \in Nat /\ s.turn \in Nat
      BY <1>1, <2>3 DEF Pending, Sendings
    <3> QED
      BY <3>1 DEF Before
  <2>7. P \ {e} \in SUBSET Sendings /\ IsFiniteSet(Turns(P \ {e}))
    <3>1. \A s \in P \ {e} : s.turn \in 0 .. MaxNodeNum
      BY <1>0 DEF QueueInv, Pending
    <3> QED
      BY <2>3, <3>1, TurnsFinite
  <2> DEFINE q == InTurn(P \ {e})
  <2>8. q \in Seq(Report)
    BY <2>7, InTurnOf
  <2> HIDE DEF P
  <2>9. InTurn(P) = << e.msg >> \o q
    BY <2>3, <2>4, <2>5, <2>6, InTurnFirst
  <2> HIDE DEF q
  <2>10. << e.msg >> \in Seq(Report)
    BY <2>4
  <2>11. Append(got[a], e.msg) = got[a] \o << e.msg >>
    BY <2>3, <2>4, AppendIsConcat
  <2>12. (got[a] \o << e.msg >>) \o q = got[a] \o (<< e.msg >> \o q)
    <3> DEFINE g == got[a]
               x == << e.msg >>
    <3>1. g \in Seq(Report) /\ x \in Seq(Report)
      BY <2>3, <2>10
    <3> HIDE DEF g, x
    <3>2. (g \o x) \o q = g \o (x \o q)
      BY <2>8, <3>1, ConcatAssociative
    <3> QED
      BY <3>2 DEF g, x
  <2> QED
    BY <2>1, <2>2, <2>9, <2>11, <2>12 DEF P, q
<1>11. \A b \in App : InTurn(Pending(b))' = InTurn(Pending(b)')
  BY DEF InTurn, Nth, Turns
<1>12. \A b \in App : Inbox'[b] = Inbox[b]
  <2> TAKE b \in App
  <2>1. CASE b \notin Members
    BY <1>8, <2>1 DEF Inbox
  <2>2. CASE b \in Members
    <3>1. Inbox'[b] = got'[b] \o InTurn(Pending(b)')
      BY <1>8, <1>11, <2>2 DEF Inbox
    <3>2. Inbox[b] = got[b] \o InTurn(Pending(b))
      BY <2>2 DEF Inbox
    <3> QED
      BY <1>7, <1>9, <1>10, <2>2, <3>1, <3>2
  <2> QED
    BY <2>1, <2>2
<1>13. Inbox' = Inbox
  <2>1. Inbox' = [b \in App |-> Inbox'[b]] /\ Inbox = [b \in App |-> Inbox[b]]
    BY DEF Inbox
  <2> QED
    BY <1>12, <2>1, Zenon
<1>14. QueueInv'
  <2>1. fdOf[a] # NoFd
    BY <1>0, <1>3, <1>4, MemberFacts
  <2>2. \A b \in App : fdOf'[b] = NoFd /\ link'[b] # "gone" => got'[b] = << >>
    BY <1>0, <1>6, <1>7, <2>1 DEF QueueInv
  <2> QED
    BY <1>0, <1>5, <2>2 DEF QueueInv
<1> QED
  BY <1>8, <1>13, <1>14

Seen == BroadcasterOf!Next \/ UNCHANGED <<Members, Inbox>>

LEMMA StepIsSeen ==
  ASSUME RefInv, Typed', Next
  PROVE  Seen /\ QueueInv'
<1>0. DescriptorInv /\ Typed /\ QueueInv
  BY DEF RefInv
<1>a. ASSUME UNCHANGED <<poolVars, link, fdOf, got, todo>> PROVE Seen /\ QueueInv'
  BY <1>a, UnseenStep DEF Seen
<1>b. ASSUME todo = {}, UNCHANGED <<poolVars, link, fdOf, got>>,
             NEW T \in SUBSET (0 .. MaxNodeNum), NEW M, todo' = Rounds(T, M)
      PROVE  Seen /\ QueueInv'
  BY <1>b, AnnounceStep DEF Seen, BroadcasterOf!Next
<1>1. CASE \/ socOpen \/ server_open \/ ServeStdin \/ PollClients \/ KeyPress
           \/ CoordinatorSends \/ SerialHangsUp \/ User \/ AppWrites
  <2>1. UNCHANGED <<poolVars, link, fdOf, got, todo>>
    BY <1>1 DEF socOpen, server_open, ServeStdin, PollClients, KeyPress, CoordinatorSends,
                SerialHangsUp, User, AppWrites, Write, loopVars, tcpVars
  <2> QED
    BY <1>a, <2>1
<1>2. CASE ServeSerial
  <2>1. /\ todo = {} /\ UNCHANGED <<poolVars, link, fdOf, got>>
        /\ todo' = todo \/ \E m : Handle(m)
    BY <1>2 DEF ServeSerial, AtPoll, processSocCmd, tcpVars
  <2>2. CASE todo' = todo
    BY <1>a, <2>1, <2>2
  <2>3. CASE \E m : Handle(m)
    <3>1. PICK T \in SUBSET (0 .. MaxNodeNum) : \E M : todo' = Rounds(T, M)
      BY <2>1, <2>3, HandleInRounds
    <3>2. PICK M : todo' = Rounds(T, M)
      BY <3>1
    <3> QED
      BY <1>b, <2>1, <3>2
  <2> QED
    BY <2>1, <2>2, <2>3
<1>3. CASE ServeListen
  <2>1. backlog # << >> /\ work = {} /\ todo = {} /\ server_acceptNewConn
    BY <1>3 DEF ServeListen, AtPoll, ListenReady
  <2>2. CASE UNCHANGED vars
    BY <1>a, <2>2 DEF vars, loopVars, tcpVars
  <2>3. CASE ~ UNCHANGED vars
    <3>1. /\ OpenFds # Fd /\ backlog' = Tail(backlog) /\ socketPool_add(LowestFreeFd)
          /\ fdOf' = [fdOf EXCEPT ![Head(backlog)] = LowestFreeFd]
          /\ UNCHANGED <<link, got>> /\ work' = {} /\ todo' = {}
      BY <2>1, <2>3 DEF server_acceptNewConn, loopVars
    <3>2. Pooled' \subseteq Pooled \cup {LowestFreeFd} /\ Pooled \subseteq Pooled'
      BY <1>0, <2>1, <3>1, Accept
    <3>3. LowestFreeFd \notin OpenFds /\ LowestFreeFd # NoFd
      BY <1>0, <3>1, FreeDescriptor DEF DescriptorInv
    <3>4. Head(backlog) \in App /\ fdOf[Head(backlog)] = NoFd
      <4>1. /\ backlog \in Seq(App)
            /\ \A k \in 1 .. Len(backlog) : fdOf[backlog[k]] = NoFd
        BY <1>0 DEF DescriptorInv, Backlogged
      <4>2. Head(backlog) = backlog[1] /\ 1 \in 1 .. Len(backlog)
        BY <2>1, <4>1, LenProperties, EmptySeq
      <4> QED
        BY <2>1, <4>1, <4>2, HeadTailProperties
    <3> DEFINE a == Head(backlog)
               fd == LowestFreeFd
    <3>5. /\ a \in App /\ fdOf[a] = NoFd /\ fd \notin OpenFds /\ fd # NoFd
          /\ fdOf' = [fdOf EXCEPT ![a] = fd]
          /\ Pooled' \subseteq Pooled \cup {fd}
      BY <3>1, <3>2, <3>3, <3>4
    <3> HIDE DEF a, fd
    <3>6. /\ BroadcasterOf!Join(a) \/ UNCHANGED <<Members, Inbox>>
          /\ QueueInv'
      BY <2>1, <3>1, <3>2, <3>5, JoiningStep
    <3> QED
      BY <3>5, <3>6 DEF Seen, BroadcasterOf!Next
  <2> QED
    BY <2>2, <2>3
<1>4. CASE ServeClient
  <2> DEFINE c == NextClient
             a == Owner(c[2])
  <2>1. /\ todo = {} /\ work # {} /\ work' = work \ {c} /\ processTcpCmd(c[2])
    BY <1>4 DEF ServeClient
  <2>2. c \in work /\ c \in socketPool_get
    BY <1>0, <2>1, NextClientChosen
  <2>3. c[2] \in Pooled
    BY <2>2 DEF socketPool_get, Pooled
  <2>4. a \in App /\ fdOf[a] = c[2] /\ c[2] # NoFd
    BY <1>0, <2>3, OwnerOfClient
  <2>5. CASE /\ link[a] \in {"closed", "poked", "broken"} /\ CloseFd(a)
             /\ socketPool_del(c[2]) /\ todo' = todo
    <3>1. Pooled' = Pooled \ {c[2]}
      BY <1>0, <2>1, <2>2, <2>5, Disconnect
    <3>2. link[a] \notin Open
      BY <2>5 DEF Open
    <3> HIDE DEF a
    <3> QED
      BY <2>4, <2>5, <3>1, <3>2, ClosingStep DEF Seen
  <2>6. CASE TakeError(a) /\ link[a] = "reset" /\ UNCHANGED <<todo, poolVars>>
    <3> HIDE DEF a
    <3>1. /\ UNCHANGED <<fdOf, got>> /\ link' = [link EXCEPT ![a] = "broken"]
      BY <2>6 DEF TakeError
    <3>2. \A b \in App : link'[b] = link[b] \/ (b = a /\ link'[b] = "broken")
      BY <1>0, <3>1 DEF DescriptorInv, Connections
    <3> QED
      BY <2>6, <3>1, <3>2, UnseenStep DEF Seen, Open
  <2>7. CASE TakeData(a) /\ UNCHANGED poolVars /\ todo' \in {todo, app_queryCmdHandler}
    <3>1. UNCHANGED <<poolVars, link, fdOf, got>>
      BY <2>7 DEF TakeData
    <3>2. PICK T \in SUBSET (0 .. MaxNodeNum) : \E M : app_queryCmdHandler = Rounds(T, M)
      BY QueryInRounds
    <3>3. PICK M : app_queryCmdHandler = Rounds(T, M)
      BY <3>2
    <3> QED
      BY <1>a, <1>b, <2>1, <2>7, <3>1, <3>3
  <2> HIDE DEF c
  <2>8. \A m : app_cmdHandler(m) => todo' \in {todo, app_queryCmdHandler}
    BY DEF app_cmdHandler
  <2> QED
    BY <2>1, <2>5, <2>6, <2>7, <2>8 DEF processTcpCmd
<1>5. CASE server_send
  <2>1. CASE UNCHANGED <<todo, tcpVars>>
    BY <1>5, <1>a, <2>1 DEF server_send, tcpVars
  <2>2. CASE /\ link[Owner(Earliest.fd)] \notin {"broken", "stuck"}
             /\ Deliver(Owner(Earliest.fd), Earliest.msg) /\ todo' = todo \ {Earliest}
    <3>1. todo # {} /\ UNCHANGED poolVars
      BY <1>5 DEF server_send
    <3> QED
      BY <2>2, <3>1, SendingToOne DEF Seen
  <2> QED
    BY <1>5, <2>1, <2>2 DEF server_send
<1>6. CASE AppOrNetwork
  <2>1. PICK a \in App : Connect(a) \/ Close(a) \/ Abort(a) \/ RstArrives(a) \/ Resume(a)
    BY <1>6 DEF AppOrNetwork
  <2>2. UNCHANGED <<poolVars, todo>>
    BY <1>6 DEF AppOrNetwork, loopVars
  <2>3. CASE Close(a) \/ Abort(a)
    BY <2>2, <2>3, LeavingStep DEF Seen, BroadcasterOf!Next
  <2>4. CASE Connect(a) \/ RstArrives(a) \/ Resume(a)
    <3>1. /\ UNCHANGED <<fdOf, got>>
          /\ \A b \in App \ {a} : link'[b] = link[b]
          /\ \/ link[a] = "none" /\ link'[a] = "alive"
             \/ link[a] = "poked" /\ link'[a] = "broken"
             \/ link[a] = "stuck" /\ link'[a] = "alive"
      BY <1>0, <2>4 DEF Connect, RstArrives, Resume, DescriptorInv, Connections
    <3>2. \A b \in App : fdOf[b] \in Pooled => (link'[b] \in Open <=> link[b] \in Open)
      BY <1>0, <3>1, MemberFacts DEF Open
    <3>3. \A b \in App : fdOf[b] = NoFd /\ link'[b] # "gone" => link[b] # "gone"
      BY <3>1
    <3> QED
      BY <2>2, <3>1, <3>2, <3>3, UnseenStep DEF Seen
  <2> QED
    BY <2>1, <2>3, <2>4
<1> QED
  BY <1>1, <1>2, <1>3, <1>4, <1>5, <1>6 DEF Next, Loop, Environment

(* The gateway implements the broadcaster: whatever it tells one of the     *)
(* Apps in its pool it tells all of them, in the same order, once each,     *)
(* although the loop of app_sendDeviceReportCmd sends it to one after the   *)
(* other, Apps come, stall and go in between, and the answer to a query is  *)
(* one broadcast after another.                                             *)
THEOREM GatewayRefinement == Spec => GatewayIsBroadcaster
<1>1. Init => QueueInv /\ BroadcasterOf!Init
  <2> SUFFICES ASSUME Init PROVE QueueInv /\ BroadcasterOf!Init
    OBVIOUS
  <2>1. todo = {} /\ fdOf = [a \in App |-> NoFd] /\ got = [a \in App |-> << >>]
    BY DEF Init, TcpInit
  <2>2. InUse = {}
    BY DEF Init, PoolInit, InUse
  <2>3. Members = {}
    BY <2>2 DEF Members, Pooled
  <2>4. Inbox = [a \in App |-> << >>]
    BY <2>3 DEF Inbox
  <2> QED
    BY <2>1, <2>3, <2>4 DEF QueueInv, BroadcasterOf!Init
<1>2. ASSUME RefInv, Typed', [Next]_vars
      PROVE  QueueInv' /\ [BroadcasterOf!Next]_<<Members, Inbox>>
  <2>1. CASE UNCHANGED vars
    <3>1. UNCHANGED <<poolVars, link, fdOf, got, todo>>
      BY <2>1 DEF vars, loopVars, tcpVars
    <3> QED
      BY <1>2, <3>1, UnseenStep
  <2>2. CASE Next
    BY <1>2, <2>2, StepIsSeen DEF Seen
  <2> QED
    BY <1>2, <2>1, <2>2
<1>3. Spec => []RefInv
  <2>1. RefInv /\ Typed' /\ [Next]_vars => QueueInv'
    BY <1>2
  <2> QED
    BY <1>1, <2>1, GatewayInvariance, PTL DEF Spec, RefInv
<1> QED
  BY <1>1, <1>2, <1>3, GatewayInvariance, PTL
     DEF Spec, GatewayIsBroadcaster, BroadcasterOf!Spec

-----------------------------------------------------------------------------
(* In the gateway the pool and the node table are used as their own         *)
(* specifications have them, so what these implement the gateway does.      *)
LEMMA StepOfTables ==
  ASSUME DescriptorInv, Typed, [Next]_vars
  PROVE  [PoolNext]_poolVars /\ [NodeNext]_nodeVars
<1>1. CASE UNCHANGED <<poolVars, nodeVars>>
  BY <1>1
<1>2. CASE ServeSerial
  <2>1. UNCHANGED poolVars
    BY <1>2 DEF ServeSerial, processSocCmd
  <2>2. ASSUME NEW m \in SocMsg, Handle(m) PROVE [NodeNext]_nodeVars
    <3>1. CASE UNCHANGED nodeVars
      BY <3>1
    <3>2. CASE /\ m.kind = "announce"
               /\ nodes_add(m.nwkAddr, m.extAddr, AnnouncedAs(m.devId).id)
      <4>1. /\ m.nwkAddr \in NwkAddr /\ m.extAddr \in ExtAddr
            /\ AnnouncedAs(m.devId).id \in DevId
        BY <3>2, SocMsgAssumption DEF AnnouncedAs
      <4> QED
        BY <3>2, <4>1 DEF NodeNext
    <3> QED
      BY <2>2, <3>1, <3>2 DEF Handle, zll_ctrlRspHandler, zll_dataRspHandler
  <2>3. CASE serialIn # << >> /\ Handle(Head(serialIn))
    <3>1. Head(serialIn) \in SocMsg
      BY <2>3, HeadTailProperties DEF Typed, Inputs
    <3> QED
      BY <2>1, <2>2, <2>3, <3>1
  <2> QED
    BY <1>2, <2>1, <2>2, <2>3 DEF ServeSerial, processSocCmd
<1>3. CASE ServeListen
  <2>1. server_acceptNewConn
    BY <1>3 DEF ServeListen
  <2>2. CASE UNCHANGED vars
    BY <2>2 DEF vars
  <2>3. CASE ~ UNCHANGED vars
    <3>1. OpenFds # Fd /\ socketPool_add(LowestFreeFd) /\ UNCHANGED nodeVars
      BY <2>1, <2>3 DEF server_acceptNewConn
    <3>2. LowestFreeFd \in Sock
      BY <3>1, FreeDescriptor DEF DescriptorInv
    <3> QED
      BY <3>1, <3>2 DEF PoolNext
  <2> QED
    BY <2>2, <2>3
<1>4. CASE ServeClient
  <2> DEFINE fd == NextClient[2]
  <2>1. /\ UNCHANGED nodeVars /\ work # {}
        /\ UNCHANGED poolVars \/ socketPool_del(fd)
    BY <1>4 DEF ServeClient, processTcpCmd
  <2>2. fd \in Pooled
    BY <2>1, NextClientChosen DEF socketPool_get, Pooled
  <2>3. fd \in Sock
    BY <2>2, OwnerOfClient
  <2> QED
    BY <2>1, <2>3 DEF PoolNext
<1>5. CASE Next /\ ~ ServeSerial /\ ~ ServeListen /\ ~ ServeClient
  <2>1. UNCHANGED <<poolVars, nodeVars>>
    BY <1>5 DEF Next, Loop, Environment, socOpen, server_open, ServeStdin, PollClients,
         KeyPress, server_send, CoordinatorSends, SerialHangsUp, AppWrites, AppOrNetwork,
         User
  <2> QED
    BY <2>1
<1> QED
  BY <1>1, <1>2, <1>3, <1>4, <1>5 DEF vars

LEMMA GatewayUsesTables == Spec => PoolSpec /\ NodeSpec
<1>1. DescriptorInv /\ Typed /\ [Next]_vars => [PoolNext]_poolVars /\ [NodeNext]_nodeVars
  BY StepOfTables
<1>2. Init => PoolInit /\ NodeInit
  BY DEF Init
<1> QED
  BY <1>1, <1>2, GatewayInvariance, PTL DEF Spec, PoolSpec, NodeSpec

(* Of the descriptors that accept() hands out, the gateway keeps a bounded  *)
(* set, whatever comes and goes.                                            *)
THEOREM GatewayKeepsBoundedSet == Spec => PoolIsBoundedSet
BY GatewayUsesTables, PoolRefinement, PTL

(* Of the devices that announce themselves, the gateway keeps a directory:  *)
(* the first announcement of an address wins and none is changed or lost,   *)
(* whatever the Apps and the user do meanwhile.                             *)
THEOREM GatewayKeepsDirectory == Spec => NodesAreDirectory
BY GatewayUsesTables, NodeRefinement, PTL

(* What a query reports to the Apps, the table of the running gateway, is   *)
(* the list of the first devices announced to it, in order.                 *)
THEOREM GatewayListsFirstAnnouncements == Spec => []TableIsFirstAnnouncements
BY GatewayUsesTables, NodesListFirstAnnouncements, PTL
=============================================================================
