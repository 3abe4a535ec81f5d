----------------------------- MODULE MCGateway -----------------------------
(***************************************************************************)
(* Gateway on small instances: the messages, the Apps' symmetry and the    *)
(* properties that the repository's comments state and the code breaks.    *)
(***************************************************************************)
EXTENDS Gateway, SequencesExt, TLC

CONSTANTS AppCmds,     \* the commands the Apps send
          Devices,     \* the devices that join: 1, a light, and 2, a switch
          Answers,     \* the coordinator's answers: "nodes" and, of the
                       \* groups cluster, "add group" and "default"
          Words        \* the commands typed at the console

(* A device has one extended address and one network address.              *)
MCSocMsg ==
  {[kind |-> "announce", nwkAddr |-> d, extAddr |-> d,
    devId |-> IF d = 1 THEN 257 ELSE 0] : d \in Devices}
  \cup
  {[kind |-> "zcl", nwkAddr |-> 1, cluster |-> 4,
    cmdID |-> IF z = "default" THEN 11 ELSE 0] : z \in Answers \ {"nodes"}}
  \cup {[kind |-> z] : z \in Answers \cap {"nodes"}}

(* Only lights and groups tell their operation codes apart.                 *)
Coded == {"light", "group"}

MCAppMsg ==
  {[cmd |-> x[1], opCode |-> x[2], addr |-> 1, addrMode |-> 2,
    groupId |-> 3, level |-> 224, transTime |-> 10] :
     x \in (AppCmds \X {0}) \cup ((AppCmds \cap Coded) \X {2})}

MCLine == {<<[word |-> w, args |-> << >>, left |-> 2]>> : w \in Words \ {"eof"}}
            \cup IF "eof" \in Words THEN {EOF} ELSE {}

Clients == Permutations(App)

-----------------------------------------------------------------------------
(* "The device type newly joined device", as app_sendDeviceReportCmd calls  *)
(* it: whatever reports an App receives of one device, from its joining or  *)
(* from queries, name the same type.                                        *)
SameDevice(r, s) == /\ r.cmd = "report" /\ s.cmd = "report"
                    /\ KeyOf(r) = KeyOf(s)

ReportsAgree ==
  \A a \in App : \A j, k \in 1 .. Len(got[a]) :
    SameDevice(got[a][j], got[a][k]) => got[a][j].devType = got[a][k].devType

(* "Send the report command to all connected Apps": while a broadcast is    *)
(* under way, an App whose connection was accepted and is alive either is   *)
(* still to be sent something or has just received the same message.        *)
AllConnectedGetReport ==
  \A a \in App :
    todo # {} /\ fdOf[a] # NoFd /\ link[a] = "alive" =>
      \/ \E s \in todo : s.fd = fdOf[a]
      \/ got[a] # << >> /\ Last(got[a]) = Earliest.msg

(* "Handle the received commands from Apps": as long as no App leaves, each *)
(* light command that was written waits in a receive buffer or has become a *)
(* frame for the coordinator.                                               *)
AppCommandsNotLost ==
  (\A a \in App : link[a] \in {"none", "alive"}) =>
    sent.app = Len(uart) + FoldFunction(+, 0, [a \in App |-> Len(rcv[a])])
=============================================================================
