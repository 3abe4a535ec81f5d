------------------------------- MODULE SocCmd -------------------------------
(***************************************************************************)
(* The commands the gateway sends to the ZigBee coordinator over the       *)
(* serial line (src/gateway_forSDK/socCmd.c): one operator per zllSoc      *)
(* function, which builds a frame, write()s it and then calls              *)
(* tcflush(TCOFLUSH), which discards whatever of it the line has not       *)
(* carried yet.  Frame lengths, check bytes and the endpoints are left     *)
(* out.                                                                    *)
(***************************************************************************)
EXTENDS Integers, Sequences, FiniteSets

CONSTANTS SeqNumbers,   \* the values of the u8 transSeqNumber: 2^8
          Fates         \* what the flush may leave of a frame

ASSUME SeqNumbersAssumption == SeqNumbers \in Nat \ {0, 1}
ASSUME FatesAssumption == Fates \subseteq {"whole", "cut", "lost"}

VARIABLES transSeqNumber,   \* the next ZCL transaction number
          uart              \* history: the frames written and their fates

socVars == <<transSeqNumber, uart>>

SocInit == transSeqNumber = 0 /\ uart = << >>

(* A frame for the data pipe, which carries ZCL messages, with the command   *)
(* byte cmd0, and one for the control pipe, which does not.                  *)
AREQ    == 41    \* 0x29
AREQ_GW == 73    \* 0x49

(* The ZCL clusters. *)
IDENTIFY == 3
GROUPS   == 4
SCENES   == 5
ON_OFF   == 6
LEVEL_CONTROL == 8
COLOR_CONTROL == 768
NoCluster == 65535    \* the mark of a control command here

Zcl(cmd0, cluster, cmdID, dst, mode, payload) ==
  [cmd0 |-> cmd0, cluster |-> cluster, cmdID |-> cmdID, dst |-> dst,
   mode |-> mode, payload |-> payload, seq |-> transSeqNumber]

Ctrl(cmd0, cmdID, payload) ==
  [cmd0 |-> cmd0, cluster |-> NoCluster, cmdID |-> cmdID, dst |-> 0,
   mode |-> 0, payload |-> payload, seq |-> -1]

(* write() and tcflush(); zllSocAddGroup writes its one buffer twice. *)
Transmit(frame) ==
  \E fate \in Fates : uart' = Append(uart, [frame |-> frame, fate |-> fate])

TransmitTwice(frame) ==
  \E first, second \in Fates :
    uart' = Append(Append(uart, [frame |-> frame, fate |-> first]),
                   [frame |-> frame, fate |-> second])

CountUp == transSeqNumber' = (transSeqNumber + 1) % SeqNumbers

SendZcl(frame)  == Transmit(frame) /\ CountUp
SendCtrl(frame) == Transmit(frame) /\ UNCHANGED transSeqNumber

(* Control commands.                                                        *)
zllSocTouchLink         == SendCtrl(Ctrl(AREQ, 1, << >>))
zllSocResetToFn         == SendCtrl(Ctrl(AREQ, 2, << >>))
zllSocSendResetToFn     == SendCtrl(Ctrl(AREQ, 6, << >>))
zllSocGetNodes          == SendCtrl(Ctrl(AREQ_GW, 8, << >>))
zllSocEndDevBind        == SendCtrl(Ctrl(AREQ_GW, 9, << >>))
zllSocDemoBind(mode, addr) == SendCtrl(Ctrl(AREQ_GW, 10, <<addr, mode>>))

(* ZCL commands.                                                            *)
zllSocSetState(state, dst, mode) ==
  SendZcl(Zcl(AREQ_GW, ON_OFF, IF state # 0 THEN 1 ELSE 0, dst, mode, << >>))

(* Fault: transSeqNumber not incremented.                                   *)
zllSocSetLevelUncounted(level, time, dst, mode) ==
  SendCtrl(Zcl(AREQ_GW, LEVEL_CONTROL, 4, dst, mode, <<level, time>>))

zllSocSetLevel(level, time, dst, mode) ==
  SendZcl(Zcl(AREQ_GW, LEVEL_CONTROL, 4, dst, mode, <<level, time>>))

zllSocIdentify(time, dst, mode) ==
  SendZcl(Zcl(AREQ_GW, IDENTIFY, 0, dst, mode, <<time>>))

zllSocSetHue(hue, time, dst, mode) ==
  SendZcl(Zcl(AREQ_GW, COLOR_CONTROL, 0, dst, mode, <<hue, time>>))

zllSocSetSat(sat, time, dst, mode) ==
  SendZcl(Zcl(AREQ, COLOR_CONTROL, 3, dst, mode, <<sat, time>>))

(* No code calls this one and the two of the scenes below.                  *)
zllSocSetHueSat(hue, sat, time, dst, mode) ==
  SendZcl(Zcl(AREQ, COLOR_CONTROL, 6, dst, mode, <<hue, sat, time>>))

zllSocStoreScene(groupId, sceneId, dst, mode) ==
  SendZcl(Zcl(AREQ, SCENES, 4, dst, mode, <<groupId, sceneId>>))

zllSocRecallScene(groupId, sceneId, dst, mode) ==
  SendZcl(Zcl(AREQ, SCENES, 5, dst, mode, <<groupId, sceneId>>))

zllSocAddGroup(groupId, dst, mode) ==
  TransmitTwice(Zcl(AREQ_GW, GROUPS, 0, dst, mode, <<groupId>>)) /\ CountUp

zllSocFlashReset(dst, mode) ==
  SendZcl(Zcl(AREQ_GW, ON_OFF, 4, dst, mode, << >>))

(* Attribute 0 is the state, the level or the hue, 1 the saturation.        *)
ReadAttribute(cluster, attribute, dst, mode) ==
  SendZcl(Zcl(AREQ, cluster, 0, dst, mode, <<attribute>>))

zllSocGetState(dst, mode) == ReadAttribute(ON_OFF, 0, dst, mode)
zllSocGetLevel(dst, mode) == ReadAttribute(LEVEL_CONTROL, 0, dst, mode)
zllSocGetHue(dst, mode)   == ReadAttribute(COLOR_CONTROL, 0, dst, mode)
zllSocGetSat(dst, mode)   == ReadAttribute(COLOR_CONTROL, 1, dst, mode)

(* The functions called in any order, with any arguments: x and y are the   *)
(* values of a command (state, level, hue, group, ...), t its time.         *)
U16 == 0 .. 65535

SocCtrlNext ==
  \/ zllSocTouchLink \/ zllSocResetToFn \/ zllSocSendResetToFn
  \/ zllSocGetNodes \/ zllSocEndDevBind
  \/ \E dst, mode \in U16 : zllSocDemoBind(mode, dst)

SocZclNext ==
  \E x, y, t, dst, mode \in U16 :
    \/ zllSocSetState(x, dst, mode)    \/ zllSocSetLevel(x, t, dst, mode)
    \/ zllSocIdentify(t, dst, mode)    \/ zllSocSetHue(x, t, dst, mode)
    \/ zllSocSetSat(x, t, dst, mode)   \/ zllSocSetHueSat(x, y, t, dst, mode)
    \/ zllSocAddGroup(x, dst, mode)    \/ zllSocFlashReset(dst, mode)
    \/ zllSocStoreScene(x, y, dst, mode)
    \/ zllSocRecallScene(x, y, dst, mode)
    \/ zllSocGetState(dst, mode)       \/ zllSocGetLevel(dst, mode)
    \/ zllSocGetHue(dst, mode)         \/ zllSocGetSat(dst, mode)

SocSpec == SocInit /\ [][SocCtrlNext \/ SocZclNext]_socVars

-----------------------------------------------------------------------------
IsZcl(n) == uart[n].frame.seq # -1

(* A transaction number identifies the ZCL message that an answer belongs   *)
(* to: two different messages carry the same number only if a whole round   *)
(* of the counter lies between them, whatever mixture of commands the Apps  *)
(* and the console send.  The one exception is the copy that zllSocAddGroup *)
(* writes of its own frame.                                                 *)
IsCopy(n) == n > 1 /\ IsZcl(n) /\ uart[n].frame = uart[n - 1].frame
                   /\ uart[n].frame.cluster = GROUPS

MessagesIn(m, n) ==
  Cardinality({k \in m .. n : IsZcl(k) /\ ~ IsCopy(k)})

NumbersIdentifyMessages ==
  \A m, n \in 1 .. Len(uart) :
    /\ m < n
    /\ IsZcl(m) /\ IsZcl(n)
    /\ uart[m].frame.seq = uart[n].frame.seq
    => \/ n = m + 1 /\ IsCopy(n)
       \/ MessagesIn(m + 1, n) >= SeqNumbers
=============================================================================
