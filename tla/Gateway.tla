------------------------------ MODULE Gateway ------------------------------
(***************************************************************************)
(* The gateway process (src/gateway_forSDK): the poll loop of main.c, the  *)
(* server of server.c, the App commands of appCmd.c and the handlers of    *)
(* the coordinator's messages in socCmd.c, on top of the socket pool, the  *)
(* node table and the command line.  The process has one thread; it        *)
(* interleaves with the Apps, the coordinator and the user between any two *)
(* of its system calls on connections: each send() is a step of its own.   *)
(*                                                                         *)
(* A message of the coordinator is taken from the serial line whole, which *)
(* is what SocReader shows of a line that is regular and has not hung up.  *)
(***************************************************************************)
EXTENDS SocketPool, NodeTable, Console, Tcp

CONSTANTS SocMsg,        \* the messages the coordinator may send
          AppMsg,        \* the messages an App may write
          HangUps,       \* whether the serial line may hang up
          MaxSocMsgs,    \* bound on the messages of the coordinator
          MaxAppMsgs,    \* bound on the messages of all Apps together
          MaxLines       \* bound on the lines typed

ASSUME FdAssumption == Fd = Sock

(* A device that is no light is stored with the identifier 0.               *)
ASSUME SocMsgAssumption == \A m \in SocMsg :
  /\ m.kind = "announce" =>
       m.nwkAddr \in NwkAddr /\ m.extAddr \in ExtAddr /\ {m.devId, 0} \subseteq DevId
  /\ m.kind = "zcl" => m.nwkAddr \in NwkAddr /\ m.cmdID \in 0 .. 255

ASSUME BoundsAssumption == {MaxSocMsgs, MaxAppMsgs, MaxLines} \subseteq Nat

VARIABLES pc,         \* "socOpen", "serverOpen", "running", "exited" or killed
                      \* by "SIGPIPE"
          work,       \* the readable clients of the last poll not served yet,
                      \* each with its slot
          todo,       \* what the handler has yet to send: records of a turn, a
                      \* slot and the descriptor in it, and a message
          serialIn,   \* the coordinator's messages not read yet
          hungUp,     \* whether the serial line has hung up
          sent        \* how many messages and lines there have been so far

loopVars == <<pc, work, todo>>
envVars  == <<serialIn, hungUp, sent>>
vars     == <<loopVars, envVars, poolVars, nodeVars, cliVars, socVars, tcpVars>>

(* nodes_reset and server_init, which main() calls in between, set up what  *)
(* nobody reads before.                                                     *)
Init == /\ pc = "socOpen" /\ work = {} /\ todo = {}
        /\ serialIn = << >> /\ hungUp = FALSE
        /\ sent = [soc |-> 0, app |-> 0, line |-> 0]
        /\ PoolInit /\ NodeInit /\ CliInit /\ SocInit /\ TcpInit

(* What has come over the serial line before it is set up is flushed.       *)
socOpen ==
  /\ pc = "socOpen"
  /\ \/ pc' = "exited" /\ UNCHANGED serialIn
     \/ pc' = "serverOpen" /\ serialIn' = << >>
  /\ UNCHANGED <<work, todo, hungUp, sent, poolVars, nodeVars, cliVars,
                 socVars, tcpVars>>

server_open ==
  /\ pc = "serverOpen"
  /\ pc' \in {"exited", "running"}
  /\ UNCHANGED <<work, todo, envVars, poolVars, nodeVars, cliVars, socVars, tcpVars>>

-----------------------------------------------------------------------------
(* Messages to the Apps.                                                    *)

(* Fault: the last client of the pool is left out.                          *)
BroadcastButLast(turn, msg) ==
  {[turn |-> turn, slot |-> c[1], fd |-> c[2], msg |-> msg] :
     c \in {d \in socketPool_get : \E e \in socketPool_get : d[1] < e[1]}}

(* One server_send for each descriptor of the pool.  Of several broadcasts  *)
(* each has its turn; within one, the slots are gone through in order.      *)
Broadcast(turn, msg) ==
  {[turn |-> turn, slot |-> c[1], fd |-> c[2], msg |-> msg] : c \in socketPool_get}

Before(s, t) == s.turn < t.turn \/ (s.turn = t.turn /\ s.slot <= t.slot)

Earliest == CHOOSE s \in todo : \A t \in todo : Before(s, t)

app_sendDeviceReportCmd(turn, type, nwk, ext) ==
  Broadcast(turn, [cmd |-> "report", devType |-> type, nwkAddr |-> nwk, extAddr |-> ext])

app_sendGroupRspCmd(nwk, opcode) ==
  Broadcast(0, [cmd |-> "groupRsp", nwkAddr |-> nwk, opCode |-> opcode])

ReportOf(i) ==
  app_sendDeviceReportCmd(i, nodeTbl[i].devType, nodeTbl[i].nwkAddr, nodeTbl[i].extAddr)

(* Faults: reporting the empty entries too; stopping one entry too early.   *)
QueryUnfiltered == UNION {ReportOf(i) : i \in Entries}

QueryButLast ==
  UNION {ReportOf(i) : i \in {j \in Entries : /\ nodeTbl[j].nwkAddr # EMPTY_NODE_NWK_ADDR
                                              /\ j < MaxNodeNum - 1}}

(* The reports of all the nodes of the table, one broadcast after another.  *)
app_queryCmdHandler ==
  UNION {ReportOf(i) : i \in {j \in Entries : nodeTbl[j].nwkAddr # EMPTY_NODE_NWK_ADDR}}

(* Fault: dropping a client at once when send() fails on its connection.    *)
server_sendDropping ==
  LET a == Owner(Earliest.fd)
  IN  /\ pc = "running" /\ todo # {}
      /\ IF link[a] = "reset"
         THEN CloseFd(a) /\ socketPool_del(Earliest.fd)
         ELSE Deliver(a, Earliest.msg) /\ UNCHANGED poolVars
      /\ todo' = todo \ {Earliest}
      /\ UNCHANGED <<pc, work, envVars, nodeVars, cliVars, socVars>>

server_send ==
  LET a == Owner(Earliest.fd)
  IN  /\ pc = "running" /\ todo # {}
      /\ \/ /\ link[a] = "broken"
            /\ pc' = "SIGPIPE"
            /\ UNCHANGED <<todo, tcpVars>>
         \/ /\ link[a] \notin {"broken", "stuck"}
            /\ Deliver(a, Earliest.msg)
            /\ todo' = todo \ {Earliest}
            /\ UNCHANGED pc
      /\ UNCHANGED <<work, envVars, poolVars, nodeVars, cliVars, socVars>>

-----------------------------------------------------------------------------
(* The coordinator's messages.                                              *)

(* The type and identifier that zll_ctrlRspHandler makes of the announced   *)
(* device identifier: its "else if (devID = 0x0000)" assigns.               *)
AnnouncedAs(devID) ==
  IF devID \in {256, 257, 258, 528}
  THEN [type |-> DEV_TYPE_LIGHT, id |-> devID]
  ELSE [type |-> DEV_TYPE_UNKNOWN, id |-> 0]

(* The answer to zllSocGetNodes is printed.                                 *)
zll_ctrlRspHandler(m) ==
  \/ /\ m.kind = "announce"
     /\ nodes_add(m.nwkAddr, m.extAddr, AnnouncedAs(m.devId).id)
     /\ todo' = app_sendDeviceReportCmd(0, AnnouncedAs(m.devId).type,
                                        m.nwkAddr, m.extAddr)
  \/ m.kind = "nodes" /\ UNCHANGED <<todo, nodeVars>>

(* Only the answers of the groups cluster go further, unless they are       *)
(* default responses (0x0B).                                                *)
zll_dataRspHandler(m) ==
  /\ m.kind = "zcl"
  /\ todo' = IF m.cluster = 4 /\ m.cmdID # 11
             THEN app_sendGroupRspCmd(m.nwkAddr, m.cmdID)
             ELSE {}
  /\ UNCHANGED nodeVars

Handle(m) == zll_ctrlRspHandler(m) \/ zll_dataRspHandler(m)

(* On a hung-up line every read() comes back without a byte.  What the      *)
(* uninitialised variables hold then is no start byte, or makes the reader  *)
(* wait for ever (either way nothing changes and no other source is         *)
(* served), or it looks like a message, which counts as one more sent.      *)
processSocCmd ==
  /\ \/ /\ serialIn # << >>
        /\ serialIn' = Tail(serialIn)
        /\ Handle(Head(serialIn))
        /\ UNCHANGED sent
     \/ /\ serialIn = << >> /\ hungUp
        /\ \/ UNCHANGED <<todo, nodeVars, sent>>
           \/ /\ sent.soc < MaxSocMsgs
              /\ sent' = [sent EXCEPT !.soc = @ + 1]
              /\ \E m \in SocMsg : Handle(m)
        /\ UNCHANGED serialIn
  /\ UNCHANGED <<pc, work, hungUp, poolVars, cliVars, socVars, tcpVars>>

-----------------------------------------------------------------------------
(* The Apps' commands.                                                      *)

app_groupCmdHandler(m) ==
  IF m.opCode = 0    \* GROUP_OPCODE_ADD
  THEN zllSocAddGroup(m.groupId, m.addr, 2)
  ELSE UNCHANGED socVars

app_bindCmdHandler(m)  == zllSocDemoBind(m.addrMode, m.addr)
app_lightCmdHandler(m) == zllSocSetState(m.opCode, m.addr, m.addrMode)
app_levelCmdHandler(m) == zllSocSetLevel(m.level, m.transTime, m.addr, m.addrMode)

(* The switch of app_cmdHandler; a message that does not begin with the     *)
(* start byte (cmd "none") is dropped like the commands without a handler.  *)
app_cmdHandler(m) ==
  \/ /\ m.cmd \in {"none", "heartbeat", "leave"}
     /\ UNCHANGED <<pc, todo, socVars>>
  \/ m.cmd = "query" /\ todo' = app_queryCmdHandler /\ UNCHANGED <<pc, socVars>>
  \/ m.cmd = "group" /\ app_groupCmdHandler(m) /\ UNCHANGED <<pc, todo>>
  \/ m.cmd = "bind"  /\ app_bindCmdHandler(m)  /\ UNCHANGED <<pc, todo>>
  \/ m.cmd = "light" /\ app_lightCmdHandler(m) /\ UNCHANGED <<pc, todo>>
  \/ m.cmd = "level" /\ app_levelCmdHandler(m) /\ UNCHANGED <<pc, todo>>
  \/ m.cmd = "close" /\ pc' = "exited" /\ UNCHANGED <<todo, socVars>>

(* One readable client: only the first of the messages that one recv()      *)
(* returns is handled.                                                      *)
processTcpCmd(fd) ==
  LET a == Owner(fd)
  IN  \/ /\ rcv[a] # << >>
         /\ TakeData(a)
         /\ app_cmdHandler(Head(rcv[a]))
         /\ UNCHANGED poolVars
      \/ /\ rcv[a] = << >> /\ link[a] \in {"closed", "poked", "broken"}
         /\ CloseFd(a)
         /\ socketPool_del(fd)
         /\ UNCHANGED <<pc, todo, socVars>>
      \/ /\ rcv[a] = << >> /\ link[a] = "reset"
         /\ TakeError(a)
         /\ UNCHANGED <<pc, todo, socVars, poolVars>>

(* accept() takes the lowest free descriptor, and fails when there is none. *)
server_acceptNewConn ==
  \/ OpenFds = Fd /\ UNCHANGED vars
  \/ /\ OpenFds # Fd
     /\ fdOf' = [fdOf EXCEPT ![Head(backlog)] = LowestFreeFd]
     /\ backlog' = Tail(backlog)
     /\ socketPool_add(LowestFreeFd)
     /\ UNCHANGED <<link, rcv, got, loopVars, envVars, nodeVars, cliVars, socVars>>

-----------------------------------------------------------------------------
(* The loop.  poll() blocks until a source is ready; then one source is     *)
(* served: the serial line before stdin, stdin before the listening socket, *)
(* and the clients, all those found readable, when none of these is ready.  *)
AtPollInGetc == pc = "running" /\ todo = {} /\ work = {}   \* fault

AtPoll == pc = "running" /\ cliPc = "read" /\ todo = {} /\ work = {}

SerialReady == serialIn # << >> \/ hungUp
StdinReady  == stdin # << >>
ListenReady == backlog # << >>

ServeSerial == AtPoll /\ SerialReady /\ processSocCmd

ServeStdin ==
  /\ AtPoll /\ ~ SerialReady /\ StdinReady
  /\ processConsoleCommand
  /\ pc' = IF cliPc' = "exit" THEN "exited" ELSE pc
  /\ UNCHANGED <<work, todo, envVars, poolVars, nodeVars, tcpVars>>

ServeListen ==
  AtPoll /\ ~ SerialReady /\ ~ StdinReady /\ ListenReady /\ server_acceptNewConn

PollClients ==
  /\ AtPoll /\ ~ SerialReady /\ ~ StdinReady /\ ~ ListenReady
  /\ work' = {c \in socketPool_get : Readable(c[2])}
  /\ work' # {}
  /\ UNCHANGED <<pc, todo, envVars, poolVars, nodeVars, cliVars, socVars, tcpVars>>

NextClient == CHOOSE c \in work : \A d \in work : c[1] <= d[1]

ServeClient ==
  /\ pc = "running" /\ todo = {} /\ work # {}
  /\ processTcpCmd(NextClient[2])
  /\ work' = work \ {NextClient}
  /\ UNCHANGED <<envVars, nodeVars, cliVars>>

KeyPress ==
  /\ pc = "running" /\ getcReturns
  /\ UNCHANGED <<loopVars, envVars, poolVars, nodeVars, tcpVars>>

Loop == \/ socOpen \/ server_open \/ ServeSerial \/ ServeStdin \/ ServeListen \/ PollClients
        \/ ServeClient \/ KeyPress \/ server_send

-----------------------------------------------------------------------------
(* The coordinator, the Apps and the user, as long as the process lives;    *)
(* the Apps can connect once the server is open.                            *)
CoordinatorSends == \E m \in SocMsg :
  /\ sent.soc < MaxSocMsgs /\ ~ hungUp
  /\ serialIn' = Append(serialIn, m)
  /\ sent' = [sent EXCEPT !.soc = @ + 1]
  /\ UNCHANGED <<loopVars, hungUp, poolVars, nodeVars, cliVars, socVars, tcpVars>>

(* What has not been read of a line that hangs up is lost.                  *)
SerialHangsUp ==
  /\ HangUps /\ pc # "socOpen" /\ ~ hungUp
  /\ hungUp' = TRUE /\ serialIn' = << >>
  /\ UNCHANGED <<loopVars, sent, poolVars, nodeVars, cliVars, socVars, tcpVars>>

AppWrites == \E a \in App, m \in AppMsg :
  /\ sent.app < MaxAppMsgs
  /\ Write(a, m)
  /\ sent' = [sent EXCEPT !.app = @ + 1]
  /\ UNCHANGED <<loopVars, serialIn, hungUp, poolVars, nodeVars, cliVars, socVars>>

AppOrNetwork == \E a \in App :
  /\ \/ Connect(a) /\ pc = "running"
     \/ Close(a) \/ Abort(a) \/ RstArrives(a) \/ Resume(a)
  /\ UNCHANGED <<loopVars, envVars, poolVars, nodeVars, cliVars, socVars>>

User == \E l \in Line :
  /\ sent.line < MaxLines
  /\ UserTypes(l)
  /\ sent' = [sent EXCEPT !.line = @ + 1]
  /\ UNCHANGED <<loopVars, serialIn, hungUp, poolVars, nodeVars, socVars, tcpVars>>

Environment == /\ pc \in {"socOpen", "serverOpen", "running"}
               /\ \/ CoordinatorSends \/ SerialHangsUp
                  \/ AppWrites \/ AppOrNetwork \/ User

Next == Loop \/ Environment

Spec == Init /\ [][Next]_vars

(* The operating system schedules the process: it never stays for ever at   *)
(* a step it can take.                                                      *)
FairSpec == Spec /\ WF_vars(Loop)

-----------------------------------------------------------------------------
Report == [cmd : {"report"}, devType : {1, 4, 3},
           nwkAddr : NwkAddr, extAddr : ExtAddr]
            \cup [cmd : {"groupRsp"}, nwkAddr : NwkAddr, opCode : 0 .. 255]

TypeOK ==
  /\ pc \in {"socOpen", "serverOpen", "running", "exited", "SIGPIPE"}
  /\ work \subseteq Slots \X Sock
  /\ todo \subseteq [turn : Nat, slot : Slots, fd : Sock, msg : Report]
  /\ serialIn \in Seq(SocMsg) /\ hungUp \in BOOLEAN
  /\ sent \in [soc : 0 .. MaxSocMsgs, app : 0 .. MaxAppMsgs, line : 0 .. MaxLines]
  /\ PoolTypeOK /\ NodeTypeOK
  /\ link \in [App -> {"none", "alive", "stuck", "closed", "poked", "broken",
                       "reset", "gone"}]
  /\ fdOf \in [App -> Fd \cup {NoFd}]
  /\ backlog \in Seq(App)
  /\ rcv \in [App -> Seq(AppMsg)]
  /\ got \in [App -> Seq(Report)]
  /\ cliPc \in {"read", "getc", "exit"}

(* Every descriptor of the pool is an open connection, and no two accepted  *)
(* connections share one: a client that disconnects leaves the pool in the  *)
(* step that closes its descriptor, so the descriptor the next accept()     *)
(* reuses never stands for two clients.                                     *)
PoolIsOpen ==
  /\ Pooled \subseteq OpenFds
  /\ \A a, b \in App : fdOf[a] = fdOf[b] /\ fdOf[a] # NoFd => a = b

(* The descriptors main() and the handlers hold across steps (the clients   *)
(* of the last poll, the addressees of a broadcast) stay in their slots of  *)
(* the pool until they have been served, although serving one may close it  *)
(* and the Apps come and go meanwhile.                                      *)
NoStaleDescriptor ==
  /\ work \subseteq socketPool_get
  /\ \A s \in todo : <<s.slot, s.fd>> \in socketPool_get

(* What the Apps of the pool see: every message that any of them is sent    *)
(* since it joined goes to all of them, in one order, once each, although   *)
(* the loop sends it to one after the other and Apps leave in between.      *)
Open == {"alive", "stuck"}

Members == {a \in App : link[a] \in Open /\ fdOf[a] \in Pooled}

Pending(a) == {s \in todo : s.fd = fdOf[a]}

(* The messages of S, no two of one turn, in the order of their turns: the  *)
(* k-th number of T is the one that k numbers of T do not exceed.           *)
Turns(S) == {s.turn : s \in S}

Nth(T, k) == CHOOSE t \in T : Cardinality({u \in T : u <= t}) = k

InTurn(S) ==
  [k \in 1 .. Cardinality(Turns(S)) |->
     (CHOOSE s \in S : s.turn = Nth(Turns(S), k)).msg]

(* What a member has been sent and is about to be sent.                     *)
Inbox == [a \in App |-> IF a \in Members THEN got[a] \o InTurn(Pending(a)) ELSE << >>]

BroadcasterOf == INSTANCE Broadcaster
                   WITH Reader <- App, members <- Members, inbox <- Inbox

GatewayIsBroadcaster == BroadcasterOf!Spec

(* The loop is held up: stdin is at its end, which poll() reports for ever; *)
(* a reset waits for its key press; no descriptor is left for a connection  *)
(* that waits to be accepted; the serial line has hung up; or the next      *)
(* send() is to an App that does not read.                                  *)
Held ==
  \/ stdin # << >> /\ Head(stdin) = EOF
  \/ cliPc = "getc" /\ stdin = << >> /\ stdioBuf = 0
  \/ backlog # << >> /\ OpenFds = Fd
  \/ hungUp
  \/ todo # {} /\ link[Owner(Earliest.fd)] = "stuck"

IsClient(a) == fdOf[a] \in Pooled

(* A client whose App is gone, by closing or by aborting the connection,    *)
(* eventually leaves the pool and its descriptor is closed, unless the      *)
(* process ends; only what holds up the loop for ever can prevent it.       *)
DisconnectNoticed ==
  []<> ~ Held =>
    \A a \in App :
      IsClient(a) /\ link[a] \notin Open ~> link[a] = "gone" \/ pc # "running"

(* A client that asks for the nodes is eventually told of every node that   *)
(* is in the table, unless it leaves or the process ends; again, only what  *)
(* holds up the loop for ever can prevent it.                               *)
Told(a, i) ==
  \E k \in 1 .. Len(got[a]) :
    /\ got[a][k].cmd = "report"
    /\ <<got[a][k].nwkAddr, got[a][k].extAddr>> = KeyOf(nodeTbl[i])

Asks(a) == IsClient(a) /\ rcv[a] # << >> /\ Head(rcv[a]).cmd = "query"

QueryAnswered ==
  []<> ~ Held =>
    \A a \in App, i \in Entries :
      Asks(a) /\ i \in Filled ~> Told(a, i) \/ link[a] \notin Open \/ pc # "running"
=============================================================================
