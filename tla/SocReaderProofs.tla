-------------------------- MODULE SocReaderProofs --------------------------
(***************************************************************************)
(* Theorems about SocReader, for every set of messages, every content of   *)
(* the stack and every size of the buffer, however the bytes arrive.       *)
(*                                                                         *)
(* What has been read of a body and what is missing always make up the     *)
(* length announced: that read() never returns more than was missing keeps *)
(* the subtraction on the u8 from wrapping.  (A length of 255, for which a *)
(* failed read passes for a whole body, is the exception.)                 *)
(*                                                                         *)
(* That the reader stays within rspBuf, and is a channel of whole          *)
(* messages, follows from keeping, of every byte of the line, which byte   *)
(* of which message it is: while the line is regular, the reader and the   *)
(* line never get out of step, because no read that comes too early finds  *)
(* the retries of the process used up, and so each length that the reader  *)
(* believes is the length of a message.                                    *)
(***************************************************************************)
EXTENDS SocReader, TableLemmas, TLAPS

Byte == 0 .. 255

LineInv == line \in Seq(Byte) /\ wire \in Seq(Seq(Byte))

LengthKept == Len(rspBuf) - 1 + rspLen = rspBuf[1] \/ rspBuf[1] = 255

ReaderInv ==
  /\ LineInv
  /\ rspLen \in Byte
  /\ rspBuf \in Seq(Byte)
  /\ pc \in {"body", "sleep"} => rspBuf # << >> /\ LengthKept

LEMMA ReaderInit == Init => ReaderInv
<1> SUFFICES ASSUME Init PROVE ReaderInv
  OBVIOUS
<1>1. rspBuf = << >> /\ line = << >> /\ wire = << >> /\ rspLen = 0 /\ pc = "poll"
  BY DEF Init
<1>2. << >> \in Seq(Byte) /\ << >> \in Seq(Seq(Byte)) /\ Len(<< >>) = 0
  OBVIOUS
<1>3. rspLen \in Byte
  BY <1>1 DEF Byte
<1> QED
  BY <1>1, <1>2, <1>3 DEF ReaderInv, LineInv

(* The pieces of a sequence of bytes are sequences of bytes.                *)
LEMMA Pieces ==
  ASSUME NEW s \in Seq(Byte), NEW k \in Nat, k <= Len(s)
  PROVE  /\ SubSeq(s, 1, k) \in Seq(Byte) /\ Len(SubSeq(s, 1, k)) = k
         /\ SubSeq(s, k + 1, Len(s)) \in Seq(Byte)
<1>1. Len(s) \in Nat
  OBVIOUS
<1>2. \A i \in 1 .. Len(s) : s[i] \in Byte
  BY ElementOfSeq
<1>3. /\ SubSeq(s, 1, k) \in Seq(Byte) /\ Len(SubSeq(s, 1, k)) = k
  BY <1>1, <1>2, SubSeqProperties
<1>4. SubSeq(s, k + 1, Len(s)) \in Seq(Byte)
  BY <1>1, <1>2, SubSeqProperties
<1> QED
  BY <1>3, <1>4

(* The steps of the coordinator and the line leave the reader alone.        *)
LEMMA LineKept ==
  ASSUME ReaderInv, UNCHANGED <<pc, rspLen, rspBuf>>, LineInv'
  PROVE  ReaderInv'
BY DEF ReaderInv, LengthKept

LEMMA LineSteps ==
  ASSUME LineInv, Arrive \/ HangUp \/ \E m \in Message : Send(m)
  PROVE  LineInv'
<1>0. line \in Seq(Byte) /\ wire \in Seq(Seq(Byte))
  BY DEF LineInv
<1>1. CASE Arrive
  <2> DEFINE h == Head(wire)
  <2>1. wire # << >> /\ h \in Seq(Byte) /\ Tail(wire) \in Seq(Seq(Byte))
    BY <1>0, <1>1, HeadTailProperties DEF Arrive
  <2> HIDE DEF h
  <2>2. PICK k \in 1 .. Len(h) :
          /\ line' = line \o SubSeq(h, 1, k)
          /\ wire' \in {Tail(wire), [wire EXCEPT ![1] = SubSeq(@, k + 1, Len(@))]}
    BY <1>1 DEF Arrive, h
  <2>3. k \in Nat /\ k <= Len(h)
    BY <2>1, <2>2
  <2>4. SubSeq(h, 1, k) \in Seq(Byte) /\ SubSeq(h, k + 1, Len(h)) \in Seq(Byte)
    BY <2>1, <2>3, Pieces
  <2>5. line' \in Seq(Byte)
    BY <1>0, <2>2, <2>4, ConcatProperties
  <2>6. h = wire[1]
    BY <1>0, <2>1 DEF h
  <2>7. [wire EXCEPT ![1] = SubSeq(h, k + 1, Len(h))] \in Seq(Seq(Byte))
    BY <1>0, <2>1, <2>4, ExceptSeq
  <2> QED
    BY <2>1, <2>2, <2>5, <2>6, <2>7 DEF LineInv
<1>2. CASE HangUp
  <2>1. << >> \in Seq(Byte) /\ << >> \in Seq(Seq(Byte))
    OBVIOUS
  <2> QED
    BY <1>2, <2>1 DEF HangUp, LineInv
<1>3. ASSUME NEW m \in Message, Send(m) PROVE LineInv'
  <2>1. m \in Seq(Byte) /\ Len(m) \in Byte /\ SOF \in Byte
    <3>1. m \in Seq(0 .. 255) /\ Len(m) <= 255
      BY MessageAssumption
    <3>2. Len(m) \in Nat
      BY <3>1, LenProperties
    <3>3. \A l \in Nat : l <= 255 => l \in Byte
      BY DEF Byte
    <3>4. SOF \in Byte
      BY DEF SOF, Byte
    <3> QED
      BY <3>1, <3>2, <3>3, <3>4, Zenon DEF Byte
  <2>2. <<SOF, Len(m)>> \in Seq(Byte)
    BY <2>1
  <2>3. <<SOF, Len(m)>> \o m \in Seq(Byte)
    BY <2>1, <2>2, ConcatProperties
  <2>4. wire' \in Seq(Seq(Byte)) /\ line' = line
    BY <1>0, <1>3, <2>3, AppendProperties DEF Send
  <2> QED
    BY <1>0, <2>4 DEF LineInv
<1> QED
  BY <1>1, <1>2, <1>3

LEMMA FirstByte ==
  ASSUME NEW s \in Seq(Byte), s # << >>
  PROVE  Len(s) \in Nat /\ Len(s) >= 1 /\ s[1] \in Nat /\ s[1] <= 255
<1>1. Len(s) \in Nat /\ Len(s) >= 1
  BY EmptySeq
<1>2. s[1] \in Byte
  <2>1. 1 \in 1 .. Len(s)
    BY <1>1
  <2> QED
    BY <2>1, ElementOfSeq
<1>3. \A b \in Byte : b \in Nat /\ b <= 255
  BY DEF Byte
<1> QED
  BY <1>1, <1>2, <1>3

(* Reading a part of the body.                                              *)
LEMMA BodyStep ==
  ASSUME ReaderInv, ReadBody
  PROVE  ReaderInv'
<1> DEFINE n == BytesRead
           piece == SubSeq(line, 1, n)
<1>1. /\ line \in Seq(Byte) /\ rspBuf \in Seq(Byte) /\ rspLen \in Byte
      /\ pc = "body" /\ rspBuf # << >> /\ LengthKept
  BY DEF ReaderInv, LineInv, ReadBody
<1>2. n \in Nat /\ n <= Len(line) /\ n <= rspLen
  <2>1. Len(line) \in Nat
    BY <1>1, LenProperties
  <2> QED
    BY <1>1, <2>1 DEF BytesRead, Byte
<1>3. /\ rspBuf' = rspBuf \o piece /\ line' = SubSeq(line, n + 1, Len(line))
      /\ rspLen' = (rspLen - n) % 256 /\ wire' = wire
  BY DEF ReadBody, lineVars
<1> HIDE DEF n
<1>4. piece \in Seq(Byte) /\ Len(piece) = n /\ line' \in Seq(Byte)
  BY <1>1, <1>2, <1>3, Pieces
<1> HIDE DEF piece
<1>5. rspLen' = rspLen - n /\ rspLen' \in Byte
  <2>1. \A d \in 0 .. 255 : d % 256 = d
    OBVIOUS
  <2>2. rspLen - n \in 0 .. 255
    BY <1>1, <1>2 DEF Byte
  <2> QED
    BY <1>3, <2>1, <2>2 DEF Byte
<1>6. /\ rspBuf' \in Seq(Byte) /\ Len(rspBuf') = Len(rspBuf) + n
      /\ Len(rspBuf) \in Nat \ {0} /\ rspBuf'[1] = rspBuf[1]
  <2>1. /\ rspBuf' \in Seq(Byte) /\ Len(rspBuf') = Len(rspBuf) + n
        /\ \A i \in 1 .. Len(rspBuf') :
             rspBuf'[i] = IF i <= Len(rspBuf) THEN rspBuf[i] ELSE piece[i - Len(rspBuf)]
    <3>1. /\ rspBuf \o piece \in Seq(Byte)
          /\ Len(rspBuf \o piece) = Len(rspBuf) + Len(piece)
          /\ \A i \in 1 .. Len(rspBuf) + Len(piece) :
               (rspBuf \o piece)[i] =
                 IF i <= Len(rspBuf) THEN rspBuf[i] ELSE piece[i - Len(rspBuf)]
      BY <1>1, <1>4, ConcatProperties, Zenon
    <3> DEFINE q == rspBuf \o piece
    <3> HIDE DEF q
    <3> QED
      BY <1>3, <1>4, <3>1, Zenon DEF q
  <2>2. Len(rspBuf) \in Nat \ {0}
    BY <1>1, EmptySeq, LenProperties
  <2>3. 1 \in 1 .. Len(rspBuf') /\ 1 <= Len(rspBuf)
    BY <1>2, <2>1, <2>2
  <2> QED
    BY <2>1, <2>2, <2>3
<1>7. rspBuf[1] \in Nat
  BY <1>1, FirstByte
<1>8. LengthKept' /\ rspBuf' # << >>
  <2>1. rspBuf' # << >>
    BY <1>2, <1>6, EmptySeq
  <2> QED
    BY <1>1, <1>2, <1>5, <1>6, <1>7, <2>1 DEF LengthKept, Byte
<1> QED
  BY <1>1, <1>3, <1>4, <1>5, <1>6, <1>8 DEF ReaderInv, LineInv

LEMMA ReaderSteps ==
  ASSUME ReaderInv, processSocCmd
  PROVE  ReaderInv'
<1>0. LineInv /\ line \in Seq(Byte) /\ wire \in Seq(Seq(Byte))
  BY DEF ReaderInv, LineInv
<1>1. line # << >> => Head(line) \in Byte /\ Tail(line) \in Seq(Byte)
  BY <1>0, HeadTailProperties
<1>2. CASE ReadSof
  <2>1. /\ UNCHANGED <<rspLen, rspBuf, wire>> /\ pc' \in {"len", "poll"}
        /\ line' = line \/ (line # << >> /\ line' = Tail(line))
    BY <1>2 DEF ReadSof, lineVars
  <2> QED
    BY <1>0, <1>1, <2>1 DEF ReaderInv, LineInv
<1>3. CASE ReadLen
  <2>1. /\ rspLen' \in Byte /\ rspBuf' = <<rspLen'>> /\ line' \in Seq(Byte)
        /\ wire' = wire
    BY <1>0, <1>1, <1>3, GarbageAssumption DEF ReadLen, lineVars, Byte
  <2>2. Len(rspBuf') = 1 /\ rspBuf'[1] = rspLen' /\ rspBuf' # << >> /\ rspBuf' \in Seq(Byte)
    BY <2>1
  <2>3. LengthKept'
    <3>1. \A l \in Byte : 1 - 1 + l = l
      BY DEF Byte
    <3> QED
      BY <2>1, <2>2, <3>1, Zenon DEF LengthKept
  <2> QED
    BY <1>0, <2>1, <2>2, <2>3 DEF ReaderInv, LineInv
<1>4. CASE ReadBody
  BY <1>4, BodyStep
<1>5. CASE ReadFails
  <2>1. /\ pc = "body" /\ UNCHANGED <<rspBuf, line, wire>>
        /\ rspLen' = rspLen \/ (rspLen = 255 /\ rspLen' = 0)
    BY <1>5 DEF ReadFails, lineVars
  <2>2. rspBuf \in Seq(Byte) /\ rspBuf # << >> /\ LengthKept /\ rspLen \in Byte
    BY <2>1 DEF ReaderInv
  <2>3. Len(rspBuf) \in Nat /\ Len(rspBuf) >= 1 /\ rspBuf[1] \in Nat /\ rspBuf[1] <= 255
    BY <2>2, FirstByte
  <2>4. LengthKept'
    BY <2>1, <2>2, <2>3 DEF LengthKept
  <2>5. rspLen' \in Byte
    <3>1. 0 \in Byte
      BY DEF Byte
    <3> HIDE DEF Byte
    <3> QED
      BY <2>1, <2>2, <3>1
  <2> QED
    BY <1>0, <2>1, <2>2, <2>4, <2>5 DEF ReaderInv, LineInv
<1>6. CASE Wake
  BY <1>6 DEF Wake, ReaderInv, LineInv, LengthKept, lineVars
<1>7. CASE Process
  BY <1>7 DEF Process, ReaderInv, LineInv, lineVars
<1> QED
  BY <1>2, <1>3, <1>4, <1>5, <1>6, <1>7 DEF processSocCmd

-----------------------------------------------------------------------------
(* What the line carries: the messages as Send encodes them.                *)
Enc(m) == <<SOF, Len(m)>> \o m

Codes == [n \in 1 .. Len(sentMsgs) |-> Enc(sentMsgs[n])]

(* What is on its way: the messages that have not come, but of the first of *)
(* them only the bytes from NextByte on.                                    *)
Come == Len(sentMsgs) - Len(wire)

NextByte == IF wire = << >> THEN 1
            ELSE Len(Codes[Come + 1]) - Len(Head(wire)) + 1

OnTheirWay ==
  /\ \A k \in 2 .. Len(wire) : wire[k] = Codes[Come + k]
  /\ wire # << >> =>
       /\ NextByte \in 1 .. Len(Codes[Come + 1]) /\ NextByte # 2
       /\ Head(wire) = SubSeq(Codes[Come + 1], NextByte, Len(Codes[Come + 1]))

WireInv == /\ LineInv /\ sentMsgs \in Seq(Message) /\ Len(wire) <= Len(sentMsgs)
           /\ headersWhole /\ OnTheirWay

LEMMA EncSpec ==
  ASSUME NEW m \in Message
  PROVE  /\ m \in Seq(Byte) /\ Len(m) \in Nat /\ Len(m) <= 255
         /\ Enc(m) \in Seq(Byte) /\ Len(Enc(m)) = Len(m) + 2
         /\ Enc(m)[1] = SOF /\ Enc(m)[2] = Len(m)
         /\ \A j \in 1 .. Len(m) : Enc(m)[j + 2] = m[j]
<1>1. m \in Seq(Byte) /\ Len(m) \in Nat /\ Len(m) <= 255
  BY MessageAssumption DEF Byte
<1>2. SOF \in Byte /\ Len(m) \in Byte
  <2>1. \A l \in Nat : l <= 255 => l \in Byte
    BY DEF Byte
  <2> QED
    BY <1>1, <2>1 DEF SOF
<1>3. PICK h \in Seq(Byte) : h = <<SOF, Len(m)>> /\ Len(h) = 2 /\ h[1] = SOF /\ h[2] = Len(m)
  <2>1. <<SOF, Len(m)>> \in Seq(Byte)
    BY <1>2
  <2> QED
    BY <2>1
<1>4. /\ h \o m \in Seq(Byte) /\ Len(h \o m) = 2 + Len(m)
      /\ \A j \in 1 .. 2 + Len(m) : (h \o m)[j] = IF j <= 2 THEN h[j] ELSE m[j - 2]
  BY <1>1, <1>3, ConcatProperties
<1>5. (h \o m)[1] = h[1] /\ (h \o m)[2] = h[2]
  BY <1>1, <1>4
<1>6. \A j \in 1 .. Len(m) : (h \o m)[j + 2] = m[j]
  <2>1. \A j \in 1 .. Len(m) : j + 2 \in 1 .. 2 + Len(m) /\ ~ (j + 2 <= 2) /\ j + 2 - 2 = j
    BY <1>1
  <2> QED
    BY <1>4, <2>1
<1> QED
  BY <1>1, <1>2, <1>3, <1>4, <1>5, <1>6 DEF Enc

LEMMA CodeSpec ==
  ASSUME sentMsgs \in Seq(Message), NEW n \in 1 .. Len(sentMsgs)
  PROVE  /\ Codes[n] \in Seq(Byte) /\ Len(Codes[n]) \in Nat /\ Len(Codes[n]) >= 2
         /\ sentMsgs[n] \in Seq(Byte) /\ Len(sentMsgs[n]) <= 255
         /\ Len(Codes[n]) = Len(sentMsgs[n]) + 2
         /\ Codes[n][1] = SOF /\ Codes[n][2] = Len(sentMsgs[n])
         /\ \A j \in 1 .. Len(sentMsgs[n]) : Codes[n][j + 2] = sentMsgs[n][j]
<1>1. PICK m \in Message : m = sentMsgs[n]
  OBVIOUS
<1>2. Len(m) \in Nat /\ Len(Enc(m)) = Len(m) + 2
  BY EncSpec
<1> QED
  BY <1>1, <1>2, EncSpec DEF Codes

LEMMA NextTyped ==
  ASSUME WireInv
  PROVE  /\ Come \in Nat /\ NextByte \in Nat \ {0, 2} /\ Come <= Len(sentMsgs)
         /\ Len(sentMsgs) \in Nat /\ Len(wire) \in Nat
         /\ wire # << >> => Come + 1 \in 1 .. Len(sentMsgs)
<1>1. /\ Len(sentMsgs) \in Nat /\ Len(wire) \in Nat /\ Len(wire) <= Len(sentMsgs)
  BY DEF WireInv, LineInv
<1>2. Come \in Nat /\ Come <= Len(sentMsgs)
  BY <1>1 DEF Come
<1>3. CASE wire = << >>
  BY <1>1, <1>2, <1>3 DEF NextByte
<1>4. CASE wire # << >>
  <2>1. Len(wire) # 0
    BY <1>4, EmptySeq DEF WireInv, LineInv
  <2>2. Come + 1 \in 1 .. Len(sentMsgs)
    BY <1>1, <2>1 DEF Come
  <2>3. Len(Codes[Come + 1]) \in Nat
    BY <2>2, CodeSpec DEF WireInv
  <2> QED
    BY <1>1, <1>2, <1>4, <2>2, <2>3 DEF WireInv, OnTheirWay
<1> QED
  BY <1>3, <1>4

(* A message sent goes behind the others on their way.                      *)
LEMMA SendStep ==
  ASSUME WireInv, NEW m \in Message, Send(m)
  PROVE  /\ WireInv' /\ Come' = Come /\ NextByte' = NextByte
         /\ \A n \in 1 .. Len(sentMsgs) : /\ Codes'[n] = Codes[n]
                                          /\ sentMsgs'[n] = sentMsgs[n]
         /\ Len(sentMsgs') = Len(sentMsgs) + 1
<1>1. PICK c : c = Enc(m)
  OBVIOUS
<1>2. /\ wire' = Append(wire, c) /\ sentMsgs' = Append(sentMsgs, m)
      /\ UNCHANGED <<line, headersWhole>>
  BY <1>1 DEF Send, Enc
<1>3. PICK w, n : w = Len(wire) /\ n = Len(sentMsgs)
  OBVIOUS
<1>4. /\ w \in Nat /\ n \in Nat /\ w <= n
      /\ sentMsgs \in Seq(Message) /\ wire \in Seq(Seq(Byte)) /\ line \in Seq(Byte)
  BY <1>3 DEF WireInv, LineInv
<1>5. c \in Seq(Byte) /\ Len(c) \in Nat /\ Len(c) >= 2
  BY <1>1, EncSpec
<1>6. /\ wire' \in Seq(Seq(Byte)) /\ Len(wire') = w + 1
      /\ wire'[w + 1] = c /\ \A k \in 1 .. w : wire'[k] = wire[k]
      /\ sentMsgs' \in Seq(Message) /\ Len(sentMsgs') = n + 1
      /\ sentMsgs'[n + 1] = m /\ \A k \in 1 .. n : sentMsgs'[k] = sentMsgs[k]
  BY <1>2, <1>3, <1>4, <1>5
<1>7. Codes'[n + 1] = c /\ \A k \in 1 .. n : Codes'[k] = Codes[k]
  <2>1. Codes' = [k \in 1 .. n + 1 |-> Enc(sentMsgs'[k])]
    BY <1>6 DEF Codes
  <2>2. Codes = [k \in 1 .. n |-> Enc(sentMsgs[k])]
    BY <1>3 DEF Codes
  <2> QED
    BY <1>1, <1>4, <1>6, <2>1, <2>2
<1>8. Come = n - w /\ Come' = n - w
  BY <1>3, <1>4, <1>6 DEF Come
<1>9. wire' # << >> /\ Head(wire') = wire'[1]
  BY <1>4, <1>6
<1>10. ASSUME OnTheirWay', NextByte' = NextByte
       PROVE  /\ WireInv' /\ Come' = Come /\ NextByte' = NextByte
              /\ \A k \in 1 .. Len(sentMsgs) : /\ Codes'[k] = Codes[k]
                                               /\ sentMsgs'[k] = sentMsgs[k]
              /\ Len(sentMsgs') = Len(sentMsgs) + 1
  BY <1>2, <1>3, <1>4, <1>6, <1>7, <1>8, <1>10 DEF WireInv, LineInv
<1>11. CASE w = 0
  <2>1. wire = << >>
    BY <1>3, <1>4, <1>11, EmptySeq
  <2>2. Head(wire') = c /\ Codes'[Come' + 1] = c
    BY <1>4, <1>6, <1>7, <1>8, <1>9, <1>11
  <2>3. NextByte' = 1 /\ NextByte = 1
    BY <1>5, <1>9, <2>1, <2>2 DEF NextByte
  <2>4. SubSeq(c, 1, Len(c)) = c
    BY <1>5
  <2>5. \A k \in 2 .. Len(wire') : wire'[k] = Codes'[Come' + k]
    BY <1>6, <1>11
  <2>6. OnTheirWay'
    BY <1>5, <2>2, <2>3, <2>4, <2>5 DEF OnTheirWay
  <2> QED
    BY <1>10, <2>3, <2>6
<1>12. CASE w > 0
  <2>1. wire # << >> /\ Head(wire) = wire[1] /\ Head(wire') = Head(wire)
    BY <1>3, <1>4, <1>6, <1>9, <1>12
  <2>2. PICK o : o = n - w + 1 /\ o \in 1 .. n
    BY <1>4, <1>12
  <2>3. Codes'[o] = Codes[o] /\ Come + 1 = o /\ Come' + 1 = o
    BY <1>4, <1>7, <1>8, <2>2
  <2>4. Codes'[Come' + 1] = Codes[Come + 1]
    BY <2>3
  <2>5. NextByte' = NextByte
    BY <1>9, <2>1, <2>4 DEF NextByte
  <2>6. \A k \in 2 .. w + 1 : wire'[k] = Codes'[Come' + k]
    <3> SUFFICES ASSUME NEW k \in 2 .. w + 1 PROVE wire'[k] = Codes'[Come' + k]
      OBVIOUS
    <3>1. CASE k = w + 1
      <4>1. Come' + k = n + 1 /\ wire'[k] = c
        BY <1>4, <1>6, <1>8, <3>1
      <4>2. Codes'[Come' + k] = Codes'[n + 1]
        BY <4>1
      <4> QED
        BY <1>7, <4>1, <4>2
    <3>2. CASE k \in 2 .. w
      <4>1. wire[k] = Codes[Come + k]
        BY <1>3, <3>2 DEF WireInv, OnTheirWay
      <4>2. k \in 1 .. w /\ Come + k \in 1 .. n
        BY <1>4, <1>8, <3>2
      <4>3. Codes'[Come + k] = Codes[Come + k]
        BY <1>7, <1>8, <4>2
      <4> QED
        BY <1>6, <1>8, <4>1, <4>2, <4>3
    <3> QED
      BY <1>4, <3>1, <3>2
  <2>7. /\ NextByte \in 1 .. Len(Codes[Come + 1]) /\ NextByte # 2
        /\ Head(wire) = SubSeq(Codes[Come + 1], NextByte, Len(Codes[Come + 1]))
    BY <2>1 DEF WireInv, OnTheirWay
  <2>8. OnTheirWay'
    BY <1>6, <2>1, <2>4, <2>5, <2>6, <2>7 DEF OnTheirWay
  <2> QED
    BY <1>10, <2>5, <2>8
<1> QED
  BY <1>4, <1>11, <1>12

(* Bytes arrive: k of them, of the message n, from its i-th on, and not all *)
(* that are left of it only where there is a pause.                         *)
Arrives(n, i, k) ==
  LET c == Codes[n]
  IN  /\ n = Come + 1 /\ n \in 1 .. Len(sentMsgs)
      /\ i = NextByte /\ i \in 1 .. Len(c) /\ i # 2
      /\ k \in 1 .. Len(c) - i + 1
      /\ UNCHANGED <<readerVars, hungUp, headersWhole, sentMsgs>>
      /\ Len(line') = Len(line) + k
      /\ \A j \in 1 .. Len(line) : line'[j] = line[j]
      /\ \A j \in 1 .. k : line'[Len(line) + j] = c[i + j - 1]
      /\ IF k = Len(c) - i + 1
         THEN Come' = Come + 1 /\ NextByte' = 1 /\ pauses' = pauses
         ELSE /\ Come' = Come /\ NextByte' = i + k
              /\ pauses' = pauses + 1

LEMMA ArriveStep ==
  ASSUME WireInv, Arrive
  PROVE  WireInv' /\ \E n, i, k \in Nat : Arrives(n, i, k)
<1>1. wire # << >> /\ UNCHANGED <<readerVars, hungUp, headersWhole, sentMsgs>>
  BY DEF Arrive
<1>2. PICK w, t, rest : w = Len(wire) /\ t = Len(sentMsgs) /\ rest = Head(wire)
  OBVIOUS
<1>3. /\ w \in Nat /\ w > 0 /\ t \in Nat /\ w <= t
      /\ sentMsgs \in Seq(Message) /\ wire \in Seq(Seq(Byte))
      /\ line \in Seq(Byte) /\ Len(line) \in Nat
  BY <1>1, <1>2, EmptySeq DEF WireInv, LineInv
<1>4. PICK n : n = Come + 1 /\ n = t - w + 1 /\ n \in 1 .. t /\ n \in Nat
  <2>1. t - w + 1 \in 1 .. t /\ t - w + 1 \in Nat
    BY <1>3
  <2> QED
    BY <1>2, <2>1 DEF Come
<1>5. PICK c : c = Codes[n]
  OBVIOUS
<1>6. c \in Seq(Byte) /\ Len(c) \in Nat /\ Len(c) >= 2 /\ c[1] = SOF
  BY <1>2, <1>3, <1>4, <1>5, CodeSpec
<1>7. PICK i \in 1 .. Len(c) : i = NextByte /\ i # 2 /\ rest = SubSeq(c, i, Len(c))
  BY <1>1, <1>2, <1>4, <1>5 DEF WireInv, OnTheirWay
<1>8. Len(rest) = Len(c) - i + 1
  BY <1>6, <1>7
<1>9. PICK k \in 1 .. Len(c) - i + 1 :
         /\ line' = line \o SubSeq(rest, 1, k)
         /\ IF k = Len(rest)
            THEN wire' = Tail(wire) /\ UNCHANGED pauses
            ELSE /\ headersWhole => k # 1 \/ ~ AtStart(rest)
                 /\ wire' = [wire EXCEPT ![1] = SubSeq(@, k + 1, Len(@))]
                 /\ pauses' = pauses + 1
  BY <1>2, <1>8 DEF Arrive
<1>10. /\ rest \in Seq(Byte) /\ rest[1] = c[i]
       /\ SubSeq(rest, 1, k) \in Seq(Byte) /\ Len(SubSeq(rest, 1, k)) = k
       /\ \A j \in 1 .. k : SubSeq(rest, 1, k)[j] = c[i + j - 1]
       /\ k < Len(rest) =>
            SubSeq(rest, k + 1, Len(rest)) = SubSeq(c, i + k, Len(c))
  BY <1>6, <1>7, PieceSpec
<1>11. /\ line' \in Seq(Byte) /\ Len(line') = Len(line) + k
       /\ \A j \in 1 .. Len(line) : line'[j] = line[j]
       /\ \A j \in 1 .. k : line'[Len(line) + j] = c[i + j - 1]
  <2> DEFINE piece == SubSeq(rest, 1, k)
  <2>1. /\ piece \in Seq(Byte) /\ Len(piece) = k
        /\ \A j \in 1 .. k : piece[j] = c[i + j - 1]
        /\ line' = line \o piece
    BY <1>9, <1>10
  <2> HIDE DEF piece
  <2>2. /\ line \o piece \in Seq(Byte) /\ Len(line \o piece) = Len(line) + k
        /\ \A j \in 1 .. Len(line) + k :
              (line \o piece)[j] = IF j <= Len(line) THEN line[j]
                                   ELSE piece[j - Len(line)]
    BY <1>3, <2>1, ConcatProperties
  <2>3. \A j \in 1 .. k : /\ Len(line) + j \in 1 .. Len(line) + k
                          /\ ~ (Len(line) + j <= Len(line))
                          /\ Len(line) + j - Len(line) = j
    BY <1>3
  <2>4. \A j \in 1 .. Len(line) : j \in 1 .. Len(line) + k /\ j <= Len(line)
    BY <1>3
  <2> QED
    BY <2>1, <2>2, <2>3, <2>4
<1>12. /\ wire[1] = rest
       /\ \A j \in 2 .. w : wire[j] = Codes[Come + j]
  BY <1>2, <1>3 DEF WireInv, OnTheirWay
<1>13. Codes' = Codes
  BY <1>1 DEF Codes
<1>14. ASSUME OnTheirWay', wire' \in Seq(Seq(Byte)), Len(wire') <= w,
              IF k = Len(c) - i + 1
              THEN Come' = Come + 1 /\ NextByte' = 1 /\ pauses' = pauses
              ELSE /\ Come' = Come /\ NextByte' = i + k
                   /\ pauses' = pauses + 1
       PROVE  WireInv' /\ \E m, j, l \in Nat : Arrives(m, j, l)
  <2>1. WireInv'
    <3>1. Len(wire') <= Len(sentMsgs')
      BY <1>1, <1>2, <1>3, <1>14, EmptySeq
    <3> QED
      BY <1>1, <1>3, <1>11, <1>14, <3>1 DEF WireInv, LineInv
  <2>2. Arrives(n, i, k)
    BY <1>1, <1>2, <1>4, <1>5, <1>7, <1>9, <1>11, <1>14, Zenon DEF Arrives
  <2>3. n \in Nat /\ i \in Nat /\ k \in Nat
    BY <1>4, <1>6, <1>7, <1>9
  <2> QED
    BY <2>1, <2>2, <2>3
<1>15. CASE k = Len(rest)
  <2>1. wire' \in Seq(Seq(Byte)) /\ Len(wire') = w - 1
        /\ \A j \in 1 .. w - 1 : wire'[j] = wire[j + 1]
    <3>1. wire' = Tail(wire)
      BY <1>9, <1>15
    <3> HIDE DEF Byte
    <3> QED
      BY <1>1, <1>2, <1>3, <3>1, HeadTailProperties
  <2>2. Come' = Come + 1 /\ Come' = n
    BY <1>1, <1>2, <1>3, <1>4, <2>1 DEF Come
  <2>3. \A j \in 1 .. w - 1 : wire'[j] = Codes[n + j]
    <3> SUFFICES ASSUME NEW j \in 1 .. w - 1 PROVE wire'[j] = Codes[n + j]
      OBVIOUS
    <3>1. j + 1 \in 2 .. w /\ Come + (j + 1) = n + j
      BY <1>2, <1>3, <1>4 DEF Come
    <3> QED
      BY <1>12, <2>1, <3>1
  <2>4. CASE wire' = << >>
    <3>1. NextByte' = 1
      BY <2>4 DEF NextByte
    <3>2. Len(wire') = 0
      BY <2>4
    <3>3. OnTheirWay'
      BY <2>4, <3>2 DEF OnTheirWay
    <3> QED
      BY <1>3, <1>8, <1>9, <1>14, <1>15, <2>1, <2>2, <3>1, <3>3
  <2>5. CASE wire' # << >>
    <3>1. w - 1 > 0 /\ Head(wire') = wire'[1]
      BY <1>3, <2>1, <2>5, EmptySeq
    <3>2. Head(wire') = Codes[n + 1] /\ n + 1 \in 1 .. t
      BY <1>3, <1>4, <2>3, <3>1
    <3>3. PICK d : d = Codes[n + 1]
      OBVIOUS
    <3>4. d \in Seq(Byte) /\ Len(d) \in Nat /\ Len(d) >= 2
      BY <1>2, <1>3, <3>2, <3>3, CodeSpec
    <3>5. Codes'[Come' + 1] = d /\ Head(wire') = d
      BY <1>13, <2>2, <3>2, <3>3
    <3>6. NextByte' = 1
      BY <2>5, <3>4, <3>5 DEF NextByte
    <3>7. OnTheirWay'
      <4>1. /\ NextByte' \in 1 .. Len(d) /\ NextByte' # 2
            /\ Head(wire') = SubSeq(d, NextByte', Len(d))
        BY <3>4, <3>5, <3>6
      <4>2. \A j \in 2 .. Len(wire') : wire'[j] = Codes'[Come' + j]
        <5>1. \A j \in 2 .. w - 1 : j \in 1 .. w - 1
          BY <1>3
        <5>2. \A j \in 2 .. w - 1 : wire'[j] = Codes[n + j]
          BY <2>3, <5>1
        <5> QED
          BY <1>13, <2>1, <2>2, <5>2
      <4> QED
        BY <3>5, <3>6, <4>1, <4>2 DEF OnTheirWay
    <3> QED
      BY <1>3, <1>8, <1>9, <1>14, <1>15, <2>1, <2>2, <3>6, <3>7
  <2> QED
    BY <2>4, <2>5
<1>16. CASE k < Len(rest)
  <2>1. PICK r : r = SubSeq(rest, k + 1, Len(rest)) /\ r = SubSeq(c, i + k, Len(c))
    BY <1>10, <1>16
  <2>2. r \in Seq(Byte) /\ Len(r) = Len(c) - (i + k) + 1 /\ i + k \in 1 .. Len(c)
    <3>1. i + k \in 1 .. Len(c)
      BY <1>6, <1>8, <1>16
    <3>2. i + k \in Int /\ Len(c) \in Int /\ \A j \in i + k .. Len(c) : c[j] \in Byte
      BY <1>6, <3>1
    <3>3. i + k <= Len(c)
      BY <3>1
    <3>4. PICK m \in Int : m = i + k /\ m <= Len(c)
      BY <3>2, <3>3
    <3>5. /\ SubSeq(c, m, Len(c)) \in Seq(Byte)
          /\ Len(SubSeq(c, m, Len(c))) = Len(c) - m + 1
      <4> HIDE DEF Byte
      <4>1. \A j \in m .. Len(c) : c[j] \in Byte
        BY <3>2, <3>4
      <4> QED
        BY <3>2, <3>4, <4>1, SubSeqProperties
    <3> QED
      BY <2>1, <3>1, <3>4, <3>5
  <2>3. wire' = [wire EXCEPT ![1] = r] /\ pauses' = pauses + 1
    BY <1>9, <1>12, <1>16, <2>1
  <2>4. /\ wire' \in Seq(Seq(Byte)) /\ Len(wire') = w
        /\ wire'[1] = r /\ \A j \in 2 .. w : wire'[j] = wire[j]
    BY <1>2, <1>3, <2>2, <2>3, ExceptSeq
  <2>5. wire' # << >> /\ Head(wire') = r
    BY <1>3, <2>4
  <2>6. Come' = Come /\ Codes'[Come' + 1] = c
    BY <1>1, <1>2, <1>4, <1>5, <1>13, <2>4 DEF Come
  <2>7. NextByte' = i + k
    <3>1. NextByte' = Len(c) - Len(r) + 1
      BY <2>5, <2>6 DEF NextByte
    <3> QED
      BY <1>6, <2>2, <3>1
  <2>8. i + k # 2
    <3>1. i = 1 => k # 1
      BY <1>6, <1>9, <1>10, <1>16 DEF AtStart, WireInv
    <3> QED
      BY <1>7, <3>1
  <2>9. OnTheirWay'
    <3>1. \A j \in 2 .. Len(wire') : wire'[j] = Codes'[Come' + j]
      BY <1>1, <1>12, <1>13, <2>4, <2>6
    <3> QED
      BY <2>1, <2>2, <2>5, <2>6, <2>7, <2>8, <3>1 DEF OnTheirWay
  <2> QED
    BY <1>3, <1>8, <1>14, <1>16, <2>3, <2>4, <2>6, <2>7, <2>9
<1> QED
  BY <1>6, <1>8, <1>9, <1>15, <1>16

-----------------------------------------------------------------------------
(* Of L bytes ln of the line, which byte of which message each is, and which *)
(* one comes next: num and pos name the message and the byte, cd has the     *)
(* bytes of the N messages sent, and the next byte to come is the B-th of    *)
(* the message M.                                                            *)
Tags(L, ln, N, cd, M, B, num, pos) ==
  /\ num \in [1 .. L + 1 -> Nat] /\ pos \in [1 .. L + 1 -> Nat]
  /\ num[L + 1] = M /\ pos[L + 1] = B
  /\ \A j \in 1 .. L : /\ num[j] \in 1 .. N /\ pos[j] \in 1 .. Len(cd[num[j]])
                       /\ ln[j] = cd[num[j]][pos[j]]
  /\ \A j \in 1 .. L : \A k \in j .. L + 1 :
       /\ pos[j] + (k - j) <= Len(cd[num[j]])
            => num[k] = num[j] /\ pos[k] = pos[j] + (k - j)
       /\ pos[j] + (k - j) = Len(cd[num[j]]) + 1
            => num[k] = num[j] + 1 /\ pos[k] = 1

(* Bytes read are gone from the front.                                      *)
Leaves(L, ln, t, rest) == \A j \in 1 .. L - t : rest[j] = ln[t + j]

LEMMA TagsDrop ==
  ASSUME NEW L \in Nat, NEW ln, NEW N, NEW cd, NEW M, NEW B, NEW num, NEW pos,
         Tags(L, ln, N, cd, M, B, num, pos),
         NEW t \in 0 .. L, NEW rest, Leaves(L, ln, t, rest)
  PROVE  \E num2, pos2 : /\ Tags(L - t, rest, N, cd, M, B, num2, pos2)
                         /\ num2[1] = num[t + 1] /\ pos2[1] = pos[t + 1]
<1> DEFINE num2 == [j \in 1 .. L - t + 1 |-> num[t + j]]
           pos2 == [j \in 1 .. L - t + 1 |-> pos[t + j]]
<1>1. \A j \in 1 .. L - t + 1 : t + j \in 1 .. L + 1 /\ (j # L - t + 1 => t + j \in 1 .. L)
  OBVIOUS
<1>2. num2 \in [1 .. L - t + 1 -> Nat] /\ pos2 \in [1 .. L - t + 1 -> Nat]
  BY <1>1 DEF Tags
<1>3. \A j \in 1 .. L - t + 1 : num2[j] = num[t + j] /\ pos2[j] = pos[t + j]
  OBVIOUS
<1> HIDE DEF num2, pos2
<1>4. num2[L - t + 1] = M /\ pos2[L - t + 1] = B
  <2>1. L - t + 1 \in 1 .. L - t + 1 /\ t + (L - t + 1) = L + 1
    OBVIOUS
  <2> QED
    BY <1>3, <2>1 DEF Tags
<1>5. \A j \in 1 .. L - t : /\ num2[j] \in 1 .. N /\ pos2[j] \in 1 .. Len(cd[num2[j]])
                            /\ rest[j] = cd[num2[j]][pos2[j]]
  <2> SUFFICES ASSUME NEW j \in 1 .. L - t
               PROVE  /\ num2[j] \in 1 .. N /\ pos2[j] \in 1 .. Len(cd[num2[j]])
                      /\ rest[j] = cd[num2[j]][pos2[j]]
    OBVIOUS
  <2>1. t + j \in 1 .. L /\ j \in 1 .. L - t + 1
    OBVIOUS
  <2>2. num2[j] = num[t + j] /\ pos2[j] = pos[t + j] /\ rest[j] = ln[t + j]
    BY <1>3, <2>1 DEF Leaves
  <2>3. /\ num[t + j] \in 1 .. N /\ pos[t + j] \in 1 .. Len(cd[num[t + j]])
        /\ ln[t + j] = cd[num[t + j]][pos[t + j]]
    BY <2>1, Zenon DEF Tags
  <2> QED
    BY <2>2, <2>3, Zenon
<1>6. ASSUME NEW j \in 1 .. L - t, NEW k \in j .. L - t + 1
      PROVE  /\ pos2[j] + (k - j) <= Len(cd[num2[j]])
                  => num2[k] = num2[j] /\ pos2[k] = pos2[j] + (k - j)
             /\ pos2[j] + (k - j) = Len(cd[num2[j]]) + 1
                  => num2[k] = num2[j] + 1 /\ pos2[k] = 1
  <2>1. PICK a \in 1 .. L : a = t + j
    OBVIOUS
  <2>2. PICK b \in a .. L + 1 : b = t + k
    BY <2>1
  <2>3. b - a = k - j /\ j \in 1 .. L - t + 1 /\ k \in 1 .. L - t + 1
    BY <2>1, <2>2
  <2>4. num2[j] = num[a] /\ pos2[j] = pos[a] /\ num2[k] = num[b] /\ pos2[k] = pos[b]
    BY <1>3, <2>1, <2>2, <2>3
  <2>5. /\ pos[a] + (b - a) <= Len(cd[num[a]])
             => num[b] = num[a] /\ pos[b] = pos[a] + (b - a)
        /\ pos[a] + (b - a) = Len(cd[num[a]]) + 1
             => num[b] = num[a] + 1 /\ pos[b] = 1
    BY Zenon DEF Tags
  <2> QED
    BY <2>3, <2>4, <2>5, Zenon
<1>7. Tags(L - t, rest, N, cd, M, B, num2, pos2)
  BY <1>2, <1>4, <1>5, <1>6, Zenon DEF Tags
<1>8. num2[1] = num[t + 1] /\ pos2[1] = pos[t + 1]
  BY <1>3
<1> QED
  BY <1>7, <1>8

LEMMA Shift ==
  ASSUME NEW B \in Int, NEW p \in Int, NEW L \in Int, NEW j \in Int, NEW l \in Int,
         B = p + (L + 1 - j)
  PROVE  B + (l - L - 1) = p + (l - j)
OBVIOUS

(* Bytes that arrive go behind the others: k of them, up to the end of the  *)
(* message M or not.                                                        *)
Continues(L, ln, N, cd, M, B, k, all, M2, B2) ==
  /\ M \in 1 .. N /\ B \in 1 .. Len(cd[M]) /\ k \in 1 .. Len(cd[M]) - B + 1
  /\ \A n \in 1 .. N : Len(cd[n]) \in Nat
  /\ \A j \in 1 .. L : all[j] = ln[j]
  /\ \A j \in 1 .. k : all[L + j] = cd[M][B + j - 1]
  /\ IF k = Len(cd[M]) - B + 1 THEN M2 = M + 1 /\ B2 = 1 ELSE M2 = M /\ B2 = B + k

LEMMA TagsExtend ==
  ASSUME NEW L \in Nat, NEW N \in Nat, NEW M2 \in Nat, NEW B2 \in Nat,
         NEW ln, NEW cd, NEW M, NEW B, NEW num, NEW pos, NEW k, NEW all,
         Tags(L, ln, N, cd, M, B, num, pos),
         Continues(L, ln, N, cd, M, B, k, all, M2, B2)
  PROVE  \E num2, pos2 : /\ Tags(L + k, all, N, cd, M2, B2, num2, pos2)
                         /\ num2[1] = num[1] /\ pos2[1] = pos[1]
<1>0. /\ M \in 1 .. N /\ B \in 1 .. Len(cd[M]) /\ k \in 1 .. Len(cd[M]) - B + 1
      /\ \A n \in 1 .. N : Len(cd[n]) \in Nat
      /\ \A j \in 1 .. L : all[j] = ln[j]
      /\ \A j \in 1 .. k : all[L + j] = cd[M][B + j - 1]
      /\ IF k = Len(cd[M]) - B + 1 THEN M2 = M + 1 /\ B2 = 1 ELSE M2 = M /\ B2 = B + k
  BY DEF Continues
<1> USE <1>0
<1> DEFINE num2 == [j \in 1 .. L + k + 1 |-> IF j <= L THEN num[j]
                                             ELSE IF j <= L + k THEN M ELSE M2]
           pos2 == [j \in 1 .. L + k + 1 |-> IF j <= L THEN pos[j]
                                             ELSE IF j <= L + k THEN B + (j - L - 1) ELSE B2]
<1>1. PICK len \in Nat : len = Len(cd[M]) /\ B <= len /\ k <= len - B + 1 /\ k >= 1 /\ B >= 1
                         /\ k \in Nat /\ B \in Nat /\ M \in Nat
  OBVIOUS
<1>2. /\ \A j \in 1 .. L : num[j] \in Nat /\ pos[j] \in Nat
      /\ num[L + 1] = M /\ pos[L + 1] = B
  BY DEF Tags
<1>3. num2 \in [1 .. L + k + 1 -> Nat] /\ pos2 \in [1 .. L + k + 1 -> Nat]
  BY <1>1, <1>2
<1>4. /\ \A j \in 1 .. L : num2[j] = num[j] /\ pos2[j] = pos[j]
      /\ \A j \in L + 1 .. L + k : num2[j] = M /\ pos2[j] = B + (j - L - 1)
      /\ num2[L + k + 1] = M2 /\ pos2[L + k + 1] = B2
  BY <1>1
<1> HIDE DEF num2, pos2
<1>5. ASSUME NEW j \in 1 .. L + k
      PROVE  /\ num2[j] \in 1 .. N /\ pos2[j] \in 1 .. Len(cd[num2[j]])
             /\ all[j] = cd[num2[j]][pos2[j]]
  <2>1. CASE j \in 1 .. L
    <3>1. /\ num[j] \in 1 .. N /\ pos[j] \in 1 .. Len(cd[num[j]])
          /\ ln[j] = cd[num[j]][pos[j]]
      BY <2>1, Zenon DEF Tags
    <3> QED
      BY <1>4, <2>1, <3>1
  <2>2. CASE j \in L + 1 .. L + k
    <3>1. PICK d \in 1 .. k : j = L + d
      <4>1. j - L \in 1 .. k /\ j = L + (j - L)
        BY <1>1, <2>2
      <4> QED
        BY <4>1
    <3>2. num2[j] = M /\ pos2[j] = B + d - 1 /\ all[j] = cd[M][B + d - 1]
      <4>1. j - L - 1 = d - 1 /\ B + (d - 1) = B + d - 1
        BY <1>1, <3>1
      <4>2. all[j] = cd[M][B + d - 1]
        BY <3>1
      <4>3. num2[j] = M /\ pos2[j] = B + (j - L - 1)
        BY <1>4, <2>2
      <4> QED
        BY <4>1, <4>2, <4>3
    <3>3. B + d - 1 \in 1 .. len
      BY <1>1
    <3> QED
      BY <1>1, <3>2, <3>3
  <2> QED
    BY <1>1, <2>1, <2>2
<1>6. ASSUME NEW j \in 1 .. L + k, NEW l \in j .. L + k + 1
      PROVE  /\ pos2[j] + (l - j) <= Len(cd[num2[j]])
                  => num2[l] = num2[j] /\ pos2[l] = pos2[j] + (l - j)
             /\ pos2[j] + (l - j) = Len(cd[num2[j]]) + 1
                  => num2[l] = num2[j] + 1 /\ pos2[l] = 1
  <2>0. \A x \in L + 1 .. L + k + 1 :
           /\ B + (x - L - 1) <= len => num2[x] = M /\ pos2[x] = B + (x - L - 1)
           /\ B + (x - L - 1) = len + 1 => num2[x] = M + 1 /\ pos2[x] = 1
    <3>1. /\ B + k <= len => M2 = M /\ B2 = B + k
          /\ B + k = len + 1 => M2 = M + 1 /\ B2 = 1
      BY <1>1
    <3> SUFFICES ASSUME NEW x \in L + 1 .. L + k + 1
                 PROVE  /\ B + (x - L - 1) <= len
                             => num2[x] = M /\ pos2[x] = B + (x - L - 1)
                        /\ B + (x - L - 1) = len + 1 => num2[x] = M + 1 /\ pos2[x] = 1
      OBVIOUS
    <3>2. CASE x \in L + 1 .. L + k
      <4>1. B + (x - L - 1) <= len
        BY <1>1, <3>2
      <4>2. B + (x - L - 1) # len + 1
        BY <1>1, <3>2, <4>1
      <4> QED
        BY <1>4, <3>2, <4>1, <4>2
    <3>3. CASE x = L + k + 1
      <4>1. x - L - 1 = k
        BY <1>1, <3>3
      <4>2. num2[x] = M2 /\ pos2[x] = B2
        BY <1>4, <3>3
      <4> QED
        BY <3>1, <4>1, <4>2
    <3> QED
      BY <1>1, <3>2, <3>3
  <2>1. CASE j \in L + 1 .. L + k
    <3>1. num2[j] = M /\ pos2[j] = B + (j - L - 1)
      BY <1>4, <2>1
    <3>2. l \in L + 1 .. L + k + 1 /\ pos2[j] + (l - j) = B + (l - L - 1)
      BY <1>1, <2>1, <3>1
    <3> QED
      BY <1>1, <2>0, <3>1, <3>2
  <2>2. CASE j \in 1 .. L
    <3>1. num2[j] = num[j] /\ pos2[j] = pos[j]
      BY <1>4, <2>2
    <3>2. PICK p, h : p = pos[j] /\ h = Len(cd[num[j]])
      OBVIOUS
    <3>3. p \in Nat /\ h \in Nat /\ num[j] \in Nat
      BY <2>2, <3>2 DEF Tags
    <3>4. ASSUME NEW x \in j .. L + 1
          PROVE  /\ p + (x - j) <= h => num[x] = num[j] /\ pos[x] = p + (x - j)
                 /\ p + (x - j) = h + 1 => num[x] = num[j] + 1 /\ pos[x] = 1
      BY <2>2, <3>2, Zenon DEF Tags
    <3>5. CASE l <= L
      <4>1. l \in j .. L + 1 /\ num2[l] = num[l] /\ pos2[l] = pos[l]
        BY <1>4, <2>2, <3>5
      <4> QED
        BY <3>1, <3>2, <3>4, <4>1
    <3>6. CASE l > L
      <4>1. L + 1 \in j .. L + 1 /\ l \in L + 1 .. L + k + 1
        BY <1>1, <2>2, <3>6
      <4>2. /\ p + (L + 1 - j) <= h => M = num[j] /\ B = p + (L + 1 - j)
            /\ p + (L + 1 - j) = h + 1 => M = num[j] + 1 /\ B = 1
        BY <1>2, <3>4, <4>1
      <4>3. CASE p + (l - j) <= h
        <5>1. p + (L + 1 - j) <= h
          BY <1>1, <2>2, <3>3, <3>6, <4>3
        <5>2. M = num[j] /\ B = p + (L + 1 - j) /\ h = len
          BY <1>1, <3>2, <4>2, <5>1
        <5>3. B + (l - L - 1) = p + (l - j)
          BY <1>1, <2>2, <3>3, <5>2, Shift
        <5> QED
          BY <1>1, <2>0, <3>1, <3>2, <3>3, <4>1, <4>3, <5>2, <5>3
      <4>4. CASE p + (l - j) = h + 1
        <5>1. CASE l = L + 1
          <6>1. M = num[j] + 1 /\ B = 1
            BY <1>1, <2>2, <3>3, <4>2, <4>4, <5>1
          <6>2. B + (l - L - 1) <= len /\ B + (l - L - 1) = 1
            BY <1>1, <5>1, <6>1
          <6>3. num2[l] = M /\ pos2[l] = 1
            BY <2>0, <4>1, <6>2
          <6>4. ~ (p + (l - j) <= h)
            BY <3>3, <4>4
          <6> QED
            BY <3>1, <3>2, <6>1, <6>3, <6>4, Zenon
        <5>2. CASE l > L + 1
          <6>1. p + (L + 1 - j) <= h
            BY <1>1, <2>2, <3>3, <4>4, <5>2
          <6>2. M = num[j] /\ B = p + (L + 1 - j) /\ h = len
            BY <1>1, <3>2, <4>2, <6>1
          <6>3. B + (l - L - 1) = p + (l - j)
            BY <1>1, <2>2, <3>3, <6>2, Shift
          <6> QED
            BY <1>1, <2>0, <3>1, <3>2, <3>3, <4>1, <4>4, <6>2, <6>3
        <5> QED
          BY <1>1, <2>2, <3>6, <5>1, <5>2
      <4>5. CASE ~ (p + (l - j) <= h) /\ p + (l - j) # h + 1
        BY <3>1, <3>2, <4>5
      <4> QED
        BY <4>3, <4>4, <4>5
    <3> QED
      BY <1>1, <2>2, <3>5, <3>6
  <2> QED
    BY <1>1, <2>1, <2>2
<1>7. Tags(L + k, all, N, cd, M2, B2, num2, pos2)
  BY <1>3, <1>4, <1>5, <1>6, Zenon DEF Tags
<1>8. num2[1] = num[1] /\ pos2[1] = pos[1]
  <2>1. CASE L = 0
    <3>1. 1 \in L + 1 .. L + k /\ L + 1 = 1 /\ B + (1 - L - 1) = B
      BY <1>1, <2>1
    <3> QED
      BY <1>2, <1>4, <3>1
  <2>2. CASE L > 0
    BY <1>4, <2>2
  <2> QED
    BY <2>1, <2>2
<1> QED
  BY <1>7, <1>8

LEMMA TagsSent ==
  ASSUME NEW L \in Nat, NEW ln, NEW N \in Nat, NEW cd, NEW M, NEW B, NEW num, NEW pos,
         Tags(L, ln, N, cd, M, B, num, pos),
         NEW N2 \in Nat, N <= N2, NEW cd2, \A n \in 1 .. N : cd2[n] = cd[n]
  PROVE  Tags(L, ln, N2, cd2, M, B, num, pos)
<1>1. \A j \in 1 .. L : num[j] \in 1 .. N
  BY DEF Tags
<1>2. \A j \in 1 .. L : cd2[num[j]] = cd[num[j]] /\ num[j] \in 1 .. N2
  BY <1>1
<1>3. \A j \in 1 .. L : /\ num[j] \in 1 .. N2 /\ pos[j] \in 1 .. Len(cd2[num[j]])
                        /\ ln[j] = cd2[num[j]][pos[j]]
  BY <1>2 DEF Tags
<1>4. \A j \in 1 .. L : \A k \in j .. L + 1 :
        /\ pos[j] + (k - j) <= Len(cd2[num[j]])
             => num[k] = num[j] /\ pos[k] = pos[j] + (k - j)
        /\ pos[j] + (k - j) = Len(cd2[num[j]]) + 1
             => num[k] = num[j] + 1 /\ pos[k] = 1
  <2> SUFFICES ASSUME NEW j \in 1 .. L, NEW k \in j .. L + 1
               PROVE  /\ pos[j] + (k - j) <= Len(cd2[num[j]])
                           => num[k] = num[j] /\ pos[k] = pos[j] + (k - j)
                      /\ pos[j] + (k - j) = Len(cd2[num[j]]) + 1
                           => num[k] = num[j] + 1 /\ pos[k] = 1
    OBVIOUS
  <2>1. cd2[num[j]] = cd[num[j]]
    BY <1>2
  <2>2. /\ pos[j] + (k - j) <= Len(cd[num[j]])
             => num[k] = num[j] /\ pos[k] = pos[j] + (k - j)
        /\ pos[j] + (k - j) = Len(cd[num[j]]) + 1
             => num[k] = num[j] + 1 /\ pos[k] = 1
    BY Zenon DEF Tags
  <2> QED
    BY <2>1, <2>2, Zenon
<1> QED
  BY <1>3, <1>4, Zenon DEF Tags

(* The bytes of the line, each with its place in the messages.              *)
Tagged(num, pos) ==
  Tags(Len(line), line, Len(sentMsgs), Codes, Come + 1, NextByte, num, pos)

LEMMA LineEmpty ==
  ASSUME NEW num, NEW pos, Tagged(num, pos), line = << >>
  PROVE  num[1] = Come + 1 /\ pos[1] = NextByte
<1>1. Len(line) = 0 /\ Len(line) + 1 = 1
  OBVIOUS
<1> QED
  BY <1>1 DEF Tagged, Tags

(* Reading t bytes that are not more than what is left of a message.        *)
LEMMA TagsRead ==
  ASSUME WireInv, NEW num, NEW pos, Tagged(num, pos), line # << >>,
         NEW t \in 1 .. Len(line),
         NEW rest, Leaves(Len(line), line, t, rest)
  PROVE  /\ num[1] \in 1 .. Len(sentMsgs) /\ pos[1] \in 1 .. Len(Codes[num[1]])
         /\ Len(Codes[num[1]]) \in Nat
         /\ Head(line) = Codes[num[1]][pos[1]]
         /\ \A j \in 1 .. t :
              pos[1] + j - 1 <= Len(Codes[num[1]]) => line[j] = Codes[num[1]][pos[1] + j - 1]
         /\ \E num2, pos2 :
              /\ Tags(Len(line) - t, rest, Len(sentMsgs), Codes, Come + 1, NextByte,
                      num2, pos2)
              /\ pos[1] + t <= Len(Codes[num[1]]) => num2[1] = num[1] /\ pos2[1] = pos[1] + t
              /\ pos[1] + t = Len(Codes[num[1]]) + 1
                   => num2[1] = num[1] + 1 /\ pos2[1] = 1
<1>1. PICK L \in Nat : L = Len(line)
  BY DEF WireInv, LineInv
<1>2. 1 \in 1 .. L /\ t \in 0 .. L /\ line[1] = Head(line) /\ t + 1 \in 1 .. L + 1
  BY <1>1, EmptySeq DEF WireInv, LineInv
<1>3. Tags(L, line, Len(sentMsgs), Codes, Come + 1, NextByte, num, pos)
  BY <1>1 DEF Tagged
<1>4. /\ num[1] \in 1 .. Len(sentMsgs) /\ pos[1] \in 1 .. Len(Codes[num[1]])
      /\ line[1] = Codes[num[1]][pos[1]]
  BY <1>2, <1>3, Zenon DEF Tags
<1>5. PICK h \in Nat : h = Len(Codes[num[1]])
  BY <1>4, CodeSpec DEF WireInv
<1>6. PICK p \in 1 .. h : p = pos[1]
  BY <1>4, <1>5
<1>7. ASSUME NEW k \in 1 .. L + 1
      PROVE  /\ p + (k - 1) <= h => num[k] = num[1] /\ pos[k] = p + (k - 1)
             /\ p + (k - 1) = h + 1 => num[k] = num[1] + 1 /\ pos[k] = 1
  BY <1>2, <1>3, <1>5, <1>6, Zenon DEF Tags
<1>8. ASSUME NEW j \in 1 .. t, p + j - 1 <= h
      PROVE  line[j] = Codes[num[1]][p + j - 1]
  <2>1. j \in 1 .. L /\ j \in 1 .. L + 1 /\ p + (j - 1) <= h /\ p + (j - 1) = p + j - 1
    BY <1>1, <1>8
  <2>2. num[j] = num[1] /\ pos[j] = p + j - 1
    BY <1>7, <2>1
  <2>3. line[j] = Codes[num[j]][pos[j]]
    BY <1>3, <2>1, Zenon DEF Tags
  <2> QED
    BY <2>2, <2>3
<1>9. \E num2, pos2 :
        /\ Tags(L - t, rest, Len(sentMsgs), Codes, Come + 1, NextByte, num2, pos2)
        /\ p + t <= h => num2[1] = num[1] /\ pos2[1] = p + t
        /\ p + t = h + 1 => num2[1] = num[1] + 1 /\ pos2[1] = 1
  <2>1. PICK num2, pos2 :
          /\ Tags(L - t, rest, Len(sentMsgs), Codes, Come + 1, NextByte, num2, pos2)
          /\ num2[1] = num[t + 1] /\ pos2[1] = pos[t + 1]
    <3>1. PICK ln, N, cd, M, B : /\ ln = line /\ N = Len(sentMsgs) /\ cd = Codes
                                 /\ M = Come + 1 /\ B = NextByte
      OBVIOUS
    <3>2. Tags(L, ln, N, cd, M, B, num, pos)
      BY <1>3, <3>1
    <3>3. t \in 0 .. L /\ Leaves(L, ln, t, rest)
      BY <1>1, <1>2, <3>1
    <3>4. \E num2, pos2 : /\ Tags(L - t, rest, N, cd, M, B, num2, pos2)
                          /\ num2[1] = num[t + 1] /\ pos2[1] = pos[t + 1]
      BY <3>2, <3>3, TagsDrop
    <3> QED
      BY <3>1, <3>4
  <2>2. p + (t + 1 - 1) = p + t
    BY <1>2
  <2>3. /\ p + t <= h => num[t + 1] = num[1] /\ pos[t + 1] = p + t
        /\ p + t = h + 1 => num[t + 1] = num[1] + 1 /\ pos[t + 1] = 1
    BY <1>2, <1>7, <2>2
  <2> QED
    BY <2>1, <2>3
<1> QED
  BY <1>1, <1>2, <1>4, <1>5, <1>6, <1>8, <1>9

(* Which byte the reader expects next.                                      *)
BodyRead == /\ Len(received) + 1 \in 1 .. Len(sentMsgs)
            /\ \A j \in 1 .. Len(rspBuf) : rspBuf[j] = Codes[Len(received) + 1][j + 1]

NextInBody(n, i) ==
  IF rspLen > 0 THEN n = Len(received) + 1 /\ i = Len(rspBuf) + 2
                ELSE n = Len(received) + 2 /\ i = 1

NextRead(n, i) == /\ pc = "poll" => n = Len(received) + 1 /\ i = 1
                  /\ pc = "len" => n = Len(received) + 1 /\ i = 2
                  /\ pc \in {"body", "sleep"} => BodyRead /\ NextInBody(n, i)

(* Each pause costs at most one retry, and the reader that waits for the    *)
(* end of a message has one left for the pause it has not met yet.          *)
RetriesLeft ==
  /\ retryAttempts \in Nat /\ pauses \in Nat /\ retryAttempts <= pauses
  /\ NextByte > 1 /\ ~ (pc = "sleep" /\ line = << >>) => retryAttempts < pauses

Synced == /\ Regular /\ pc # "overrun"
          /\ WireInv /\ RetriesLeft
          /\ \E num, pos : Tagged(num, pos) /\ NextRead(num[1], pos[1])

(* The steps of the reader leave what is on its way alone.                  *)
LEMMA WireLeft ==
  ASSUME WireInv, ReaderInv', UNCHANGED lineVars
  PROVE  WireInv' /\ Codes' = Codes /\ Come' = Come /\ NextByte' = NextByte
         /\ UNCHANGED <<hungUp, wire, headersWhole, pauses, sentMsgs>>
         /\ Regular' = Regular
<1>1. UNCHANGED <<hungUp, wire, headersWhole, pauses, sentMsgs>>
  BY DEF lineVars
<1>2. Codes' = Codes /\ Come' = Come
  BY <1>1 DEF Codes, Come
<1>3. NextByte' = NextByte
  BY <1>1, <1>2 DEF NextByte
<1>4. LineInv'
  BY DEF ReaderInv
<1>5. OnTheirWay'
  BY <1>1, <1>2, <1>3 DEF WireInv, OnTheirWay
<1>6. Regular' = Regular
  BY <1>1 DEF Regular, Fitting
<1> QED
  BY <1>1, <1>2, <1>3, <1>4, <1>5, <1>6 DEF WireInv

LEMMA TailBytes ==
  ASSUME line \in Seq(Byte), line # << >>
  PROVE  /\ Len(Tail(line)) = Len(line) - 1 /\ 1 \in 1 .. Len(line)
         /\ \A j \in 1 .. Len(line) - 1 : Tail(line)[j] = line[1 + j]
<1>1. Len(line) \in Nat /\ Len(line) # 0
  BY EmptySeq
<1>2. /\ Len(Tail(line)) = Len(line) - 1
      /\ \A j \in 1 .. Len(line) - 1 : Tail(line)[j] = line[j + 1]
  <2> HIDE DEF Byte
  <2> QED
    BY HeadTailProperties
<1> QED
  BY <1>1, <1>2

(* Reading one byte. *)
LEMMA TagsReadOne ==
  ASSUME WireInv, NEW num, NEW pos, Tagged(num, pos), line # << >>
  PROVE  /\ num[1] \in 1 .. Len(sentMsgs) /\ pos[1] \in 1 .. Len(Codes[num[1]])
         /\ Head(line) = Codes[num[1]][pos[1]]
         /\ \E num2, pos2 :
              /\ Tags(Len(line) - 1, Tail(line), Len(sentMsgs), Codes, Come + 1, NextByte,
                      num2, pos2)
              /\ pos[1] + 1 <= Len(Codes[num[1]]) => num2[1] = num[1] /\ pos2[1] = pos[1] + 1
              /\ pos[1] + 1 = Len(Codes[num[1]]) + 1
                   => num2[1] = num[1] + 1 /\ pos2[1] = 1
<1>1. /\ 1 \in 1 .. Len(line)
      /\ \A j \in 1 .. Len(line) - 1 : Tail(line)[j] = line[1 + j]
  BY TailBytes DEF WireInv, LineInv
<1>2. PICK t \in 1 .. Len(line) : t = 1
  BY <1>1
<1>3. PICK rest : rest = Tail(line)
  OBVIOUS
<1>4. Leaves(Len(line), line, t, rest)
  BY <1>1, <1>2, <1>3 DEF Leaves
<1>5. \E num2, pos2 :
        /\ Tags(Len(line) - t, rest, Len(sentMsgs), Codes, Come + 1, NextByte, num2, pos2)
        /\ pos[1] + t <= Len(Codes[num[1]]) => num2[1] = num[1] /\ pos2[1] = pos[1] + t
        /\ pos[1] + t = Len(Codes[num[1]]) + 1 => num2[1] = num[1] + 1 /\ pos2[1] = 1
  BY <1>4, TagsRead
<1>6. /\ num[1] \in 1 .. Len(sentMsgs) /\ pos[1] \in 1 .. Len(Codes[num[1]])
      /\ Head(line) = Codes[num[1]][pos[1]]
  BY <1>4, TagsRead
<1> QED
  BY <1>2, <1>3, <1>5, <1>6

LEMMA ReadSofSynced ==
  ASSUME ReaderInv, ReaderInv', Synced, ~ hungUp, Len(received) \in Nat, ReadSof
  PROVE  Synced'
<1>1. PICK num, pos : Tagged(num, pos) /\ NextRead(num[1], pos[1])
  BY DEF Synced
<1>2. /\ WireInv' /\ Codes' = Codes /\ Come' = Come /\ NextByte' = NextByte
      /\ UNCHANGED <<hungUp, wire, headersWhole, pauses, sentMsgs>> /\ Regular'
  BY WireLeft DEF ReadSof, Synced
<1>3. /\ line # << >> /\ line' = Tail(line) /\ pc = "poll"
      /\ pc' = IF Head(line) = SOF THEN "len" ELSE "poll"
      /\ UNCHANGED <<received, retryAttempts>>
  BY DEF ReadSof
<1>4. num[1] = Len(received) + 1 /\ pos[1] = 1
  BY <1>1, <1>3 DEF NextRead
<1>5. /\ Len(Tail(line)) = Len(line) - 1 /\ 1 \in 1 .. Len(line)
      /\ \A j \in 1 .. Len(line) - 1 : Tail(line)[j] = line[1 + j]
  BY <1>3, TailBytes DEF ReaderInv, LineInv
<1>6. PICK num2, pos2 :
         /\ Tags(Len(line) - 1, Tail(line), Len(sentMsgs), Codes, Come + 1, NextByte,
                 num2, pos2)
         /\ pos[1] + 1 <= Len(Codes[num[1]]) => num2[1] = num[1] /\ pos2[1] = pos[1] + 1
  <2>1. WireInv
    BY DEF Synced
  <2> QED
    BY <1>1, <1>3, <2>1, TagsReadOne
<1>7. num[1] \in 1 .. Len(sentMsgs) /\ Head(line) = Codes[num[1]][pos[1]]
  BY <1>1, <1>3, TagsReadOne DEF Synced
<1>8. Len(Codes[num[1]]) \in Nat /\ Len(Codes[num[1]]) >= 2 /\ Codes[num[1]][1] = SOF
  BY <1>7, CodeSpec DEF Synced, WireInv
<1>9. pc' = "len" /\ num2[1] = Len(received) + 1 /\ pos2[1] = 2
  BY <1>3, <1>4, <1>6, <1>7, <1>8
<1>10. Tagged(num2, pos2)'
  BY <1>2, <1>3, <1>5, <1>6 DEF Tagged
<1>11. NextRead(num2[1], pos2[1])'
  BY <1>3, <1>9 DEF NextRead
<1>12. RetriesLeft'
  BY <1>2, <1>3, <1>9 DEF Synced, RetriesLeft
<1> QED
  BY <1>2, <1>9, <1>10, <1>11, <1>12 DEF Synced

LEMMA ReadLenSynced ==
  ASSUME ReaderInv, ReaderInv', Synced, ~ hungUp, Len(received) \in Nat, ReadLen
  PROVE  Synced'
<1>1. PICK num, pos : Tagged(num, pos) /\ NextRead(num[1], pos[1])
  BY DEF Synced
<1>2. /\ WireInv' /\ Codes' = Codes /\ Come' = Come /\ NextByte' = NextByte
      /\ UNCHANGED <<hungUp, wire, headersWhole, pauses, sentMsgs>> /\ Regular'
  BY WireLeft DEF ReadLen, Synced
<1>3. /\ pc = "len" /\ rspBuf' = <<rspLen'>> /\ UNCHANGED <<received, retryAttempts>>
      /\ pc' = "body"
      /\ line # << >> => rspLen' = Head(line) /\ line' = Tail(line)
  BY DEF ReadLen
<1>4. num[1] = Len(received) + 1 /\ pos[1] = 2
  BY <1>1, <1>3 DEF NextRead
<1>5. line # << >>
  BY <1>1, <1>4, LineEmpty, NextTyped DEF Synced
<1>6. /\ Len(Tail(line)) = Len(line) - 1 /\ 1 \in 1 .. Len(line)
      /\ \A j \in 1 .. Len(line) - 1 : Tail(line)[j] = line[1 + j]
  BY <1>5, TailBytes DEF ReaderInv, LineInv
<1>7. PICK num2, pos2 :
         /\ Tags(Len(line) - 1, Tail(line), Len(sentMsgs), Codes, Come + 1, NextByte,
                 num2, pos2)
         /\ pos[1] + 1 <= Len(Codes[num[1]]) => num2[1] = num[1] /\ pos2[1] = pos[1] + 1
         /\ pos[1] + 1 = Len(Codes[num[1]]) + 1 => num2[1] = num[1] + 1 /\ pos2[1] = 1
  <2>1. WireInv
    BY DEF Synced
  <2> QED
    BY <1>1, <1>5, <2>1, TagsReadOne
<1>8. num[1] \in 1 .. Len(sentMsgs) /\ Head(line) = Codes[num[1]][pos[1]]
  BY <1>1, <1>5, TagsReadOne DEF Synced
<1>9. PICK l \in Nat : l = Len(sentMsgs[num[1]]) /\ Len(Codes[num[1]]) = l + 2
                       /\ Codes[num[1]][2] = l
  <2>1. /\ Len(Codes[num[1]]) \in Nat /\ Len(Codes[num[1]]) >= 2
        /\ Len(Codes[num[1]]) = Len(sentMsgs[num[1]]) + 2
        /\ Codes[num[1]][2] = Len(sentMsgs[num[1]])
        /\ sentMsgs[num[1]] \in Seq(Byte)
    BY <1>8, CodeSpec DEF Synced, WireInv
  <2> QED
    BY <2>1
<1>10. rspLen' = l
  BY <1>3, <1>4, <1>5, <1>8, <1>9
<1>11. NextRead(num2[1], pos2[1])'
  <2>1. rspBuf' = <<l>> /\ Len(rspBuf') = 1
    BY <1>3, <1>10
  <2>2. BodyRead'
    <3>1. Len(received') + 1 \in 1 .. Len(sentMsgs')
      BY <1>2, <1>3, <1>4, <1>8
    <3>2. \A j \in 1 .. 1 : rspBuf'[j] = Codes[Len(received) + 1][j + 1]
      BY <1>4, <1>9, <2>1
    <3> QED
      BY <1>2, <1>3, <2>1, <3>1, <3>2 DEF BodyRead
  <2>3. NextInBody(num2[1], pos2[1])'
    <3>1. CASE l > 0
      <4>1. num2[1] = Len(received) + 1 /\ pos2[1] = 3
        BY <1>4, <1>7, <1>9, <3>1
      <4> QED
        BY <1>3, <1>10, <2>1, <3>1, <4>1 DEF NextInBody
    <3>2. CASE l = 0
      <4>1. num2[1] = Len(received) + 2 /\ pos2[1] = 1
        BY <1>4, <1>7, <1>9, <3>2
      <4> QED
        BY <1>3, <1>10, <3>2, <4>1 DEF NextInBody
    <3> QED
      BY <3>1, <3>2
  <2> QED
    BY <1>3, <2>2, <2>3 DEF NextRead
<1>12. Tagged(num2, pos2)'
  BY <1>2, <1>3, <1>5, <1>6, <1>7 DEF Tagged
<1>13. RetriesLeft'
  BY <1>2, <1>3 DEF Synced, RetriesLeft
<1> QED
  BY <1>2, <1>3, <1>11, <1>12, <1>13 DEF Synced

(* What reading a part of the body moves from the line to rspBuf.           *)
LEMMA BodyBytes ==
  ASSUME ReaderInv, ReadBody
  PROVE  /\ BytesRead \in 1 .. Len(line) /\ BytesRead <= rspLen
         /\ rspLen' = rspLen - BytesRead
         /\ Len(rspBuf') = Len(rspBuf) + BytesRead
         /\ \A j \in 1 .. Len(rspBuf) : rspBuf'[j] = rspBuf[j]
         /\ \A j \in 1 .. BytesRead : rspBuf'[Len(rspBuf) + j] = line[j]
         /\ Len(line') = Len(line) - BytesRead
         /\ Leaves(Len(line), line, BytesRead, line')
<1>1. PICK L, n, b : L = Len(line) /\ n = BytesRead /\ b = Len(rspBuf)
  OBVIOUS
<1>2. /\ line \in Seq(Byte) /\ rspBuf \in Seq(Byte) /\ rspLen \in 1 .. 255
      /\ line # << >> /\ L \in Nat /\ L > 0 /\ b \in Nat
  BY <1>1, EmptySeq DEF ReaderInv, LineInv, ReadBody, Byte
<1>3. n \in 1 .. L /\ n <= rspLen /\ n \in Nat
  BY <1>1, <1>2 DEF BytesRead
<1>4. rspLen' = rspLen - n
  <2>1. \A d \in 0 .. 255 : d % 256 = d
    OBVIOUS
  <2>2. rspLen - n \in 0 .. 255
    BY <1>2, <1>3
  <2>3. rspLen' = (rspLen - n) % 256
    BY <1>1 DEF ReadBody
  <2> QED
    BY <2>1, <2>2, <2>3
<1>5. /\ SubSeq(line, 1, n) \in Seq(Byte) /\ Len(SubSeq(line, 1, n)) = n
      /\ \A j \in 1 .. n : SubSeq(line, 1, n)[j] = line[j]
      /\ Len(SubSeq(line, n + 1, L)) = L - n
      /\ \A j \in 1 .. L - n : SubSeq(line, n + 1, L)[j] = line[n + j]
  <2>1. /\ SubSeq(line, 1, n) \in Seq(Byte) /\ Len(SubSeq(line, 1, n)) = n
        /\ \A j \in 1 .. n : SubSeq(line, 1, n)[j] = line[j]
    BY <1>1, <1>2, <1>3
  <2>2. PICK m \in Int : m = n + 1 /\ m <= L + 1 /\ m >= 1
    BY <1>2, <1>3
  <2>3. \A j \in m .. L : line[j] \in Byte
    BY <1>1, <1>2, <2>2
  <2>4. /\ Len(SubSeq(line, m, L)) = L - m + 1
        /\ \A j \in 1 .. L - m + 1 : SubSeq(line, m, L)[j] = line[m + j - 1]
    <3> HIDE DEF Byte
    <3>1. IF m <= L THEN Len(SubSeq(line, m, L)) = L - m + 1
                    ELSE Len(SubSeq(line, m, L)) = 0
      BY <1>2, <2>2, <2>3, SubSeqProperties
    <3>2. \A j \in 1 .. L - m + 1 : SubSeq(line, m, L)[j] = line[m + j - 1]
      BY <1>2, <2>2, <2>3, SubSeqProperties
    <3> QED
      BY <1>2, <2>2, <3>1, <3>2
  <2>5. L - m + 1 = L - n /\ \A j \in 1 .. L - n : m + j - 1 = n + j
    BY <1>2, <1>3, <2>2
  <2> QED
    BY <2>1, <2>2, <2>4, <2>5
<1>6. /\ rspBuf' = rspBuf \o SubSeq(line, 1, n) /\ line' = SubSeq(line, n + 1, L)
  BY <1>1 DEF ReadBody
<1>7. PICK piece \in Seq(Byte) : piece = SubSeq(line, 1, n)
  BY <1>5
<1>8. /\ Len(rspBuf') = b + n
      /\ \A j \in 1 .. b + n : rspBuf'[j] = IF j <= b THEN rspBuf[j] ELSE piece[j - b]
  <2>1. Len(piece) = n /\ rspBuf' = rspBuf \o piece
    BY <1>5, <1>6, <1>7
  <2> QED
    BY <1>1, <1>2, <2>1, ConcatProperties
<1>9. \A j \in 1 .. b : rspBuf'[j] = rspBuf[j]
  BY <1>2, <1>3, <1>8
<1>10. \A j \in 1 .. n : rspBuf'[b + j] = line[j]
  <2> SUFFICES ASSUME NEW j \in 1 .. n PROVE rspBuf'[b + j] = line[j]
    OBVIOUS
  <2>1. PICK i \in 1 .. b + n : i = b + j
    BY <1>2, <1>3
  <2>2. ~ (i <= b) /\ i - b = j
    BY <1>2, <1>3, <2>1
  <2>3. rspBuf'[i] = piece[i - b]
    BY <1>8, <2>2
  <2>4. piece[j] = line[j]
    BY <1>5, <1>7
  <2> QED
    BY <2>1, <2>2, <2>3, <2>4
<1> QED
  BY <1>1, <1>3, <1>4, <1>5, <1>6, <1>8, <1>9, <1>10 DEF Leaves

(* What has been read of a body and what is missing make up the message.    *)
LEMMA BodyLength ==
  ASSUME ReaderInv, WireInv, Regular, BodyRead, pc \in {"body", "sleep"}
  PROVE  /\ Len(rspBuf) \in Nat /\ Len(rspBuf) >= 1 /\ rspLen \in Nat
         /\ Len(Codes[Len(received) + 1]) = Len(rspBuf) + rspLen + 1
         /\ Len(rspBuf) + rspLen \in 3 .. BufLen
<1>1. /\ LengthKept /\ rspBuf \in Seq(Byte) /\ rspBuf # << >>
      /\ rspLen \in Nat
  BY DEF ReaderInv, Byte
<1>2. Len(rspBuf) \in Nat /\ Len(rspBuf) >= 1
  BY <1>1, EmptySeq
<1>3. rspBuf[1] = Codes[Len(received) + 1][2]
  <2>1. 1 \in 1 .. Len(rspBuf) /\ 1 + 1 = 2
    BY <1>2
  <2> QED
    BY <2>1 DEF BodyRead
<1>4. PICK n \in 1 .. Len(sentMsgs) : n = Len(received) + 1
  BY DEF BodyRead
<1>5. PICK l \in Nat : l = Len(sentMsgs[n]) /\ Len(Codes[n]) = l + 2 /\ Codes[n][2] = l
  <2>1. /\ sentMsgs[n] \in Seq(Byte) /\ Len(Codes[n]) = Len(sentMsgs[n]) + 2
        /\ Codes[n][2] = Len(sentMsgs[n])
    BY CodeSpec DEF WireInv
  <2> QED
    BY <2>1
<1>6. l \in 2 .. BufLen - 1
  BY <1>5 DEF Regular, Fitting
<1>7. rspBuf[1] = l /\ l # 255
  <2>1. rspBuf[1] = l
    BY <1>3, <1>4, <1>5
  <2> QED
    BY <1>6, <2>1, BufLenAssumption
<1>8. Len(rspBuf) + rspLen = l + 1
  BY <1>1, <1>2, <1>7 DEF LengthKept
<1> QED
  BY <1>1, <1>2, <1>4, <1>5, <1>6, <1>8, BufLenAssumption

LEMMA ReadBodySynced ==
  ASSUME ReaderInv, ReaderInv', Synced, Len(received) \in Nat, ReadBody
  PROVE  Synced'
<1>1. PICK num, pos : Tagged(num, pos) /\ NextRead(num[1], pos[1])
  BY DEF Synced
<1>2. /\ WireInv' /\ Codes' = Codes /\ Come' = Come /\ NextByte' = NextByte
      /\ UNCHANGED <<hungUp, wire, headersWhole, pauses, sentMsgs>> /\ Regular'
  BY WireLeft DEF ReadBody, Synced
<1>3. /\ pc = "body" /\ UNCHANGED <<received, retryAttempts>>
      /\ pc' = IF Len(rspBuf) + BytesRead <= BufLen THEN "body" ELSE "overrun"
      /\ line # << >> /\ rspLen > 0
  BY DEF ReadBody
<1>4. PICK c, b, r, t : /\ r = Len(received) + 1 /\ c = Codes[r]
                        /\ b = Len(rspBuf) /\ t = BytesRead
  OBVIOUS
<1>5. BodyRead /\ num[1] = r /\ pos[1] = b + 2
  BY <1>1, <1>3, <1>4 DEF NextRead, NextInBody
<1>6. /\ b \in Nat /\ b >= 1 /\ rspLen \in Nat /\ Len(c) = b + rspLen + 1
      /\ b + rspLen \in 3 .. BufLen
  BY <1>3, <1>4, <1>5, BodyLength DEF Synced
<1>7. /\ t \in 1 .. Len(line) /\ t <= rspLen /\ rspLen' = rspLen - t
      /\ Len(rspBuf') = b + t
      /\ \A j \in 1 .. b : rspBuf'[j] = rspBuf[j]
      /\ \A j \in 1 .. t : rspBuf'[b + j] = line[j]
      /\ Len(line') = Len(line) - t
      /\ Leaves(Len(line), line, t, line')
  BY <1>4, BodyBytes
<1>8. t \in Nat /\ t >= 1
  BY <1>7 DEF ReaderInv, LineInv
<1>9. WireInv
  BY DEF Synced
<1>10. PICK num2, pos2 :
          /\ Tags(Len(line) - t, line', Len(sentMsgs), Codes, Come + 1, NextByte,
                  num2, pos2)
          /\ pos[1] + t <= Len(Codes[num[1]]) => num2[1] = num[1] /\ pos2[1] = pos[1] + t
          /\ pos[1] + t = Len(Codes[num[1]]) + 1
               => num2[1] = num[1] + 1 /\ pos2[1] = 1
  BY <1>1, <1>3, <1>7, <1>9, TagsRead
<1>11. \A j \in 1 .. t : pos[1] + j - 1 <= Len(Codes[num[1]])
                           => line[j] = Codes[num[1]][pos[1] + j - 1]
  BY <1>1, <1>3, <1>7, <1>9, TagsRead
<1>12. \A j \in 1 .. t : line[j] = c[b + j + 1]
  <2>1. \A j \in 1 .. t : b + 2 + j - 1 <= Len(c) /\ b + 2 + j - 1 = b + j + 1
    BY <1>6, <1>7, <1>8
  <2> QED
    BY <1>4, <1>5, <1>11, <2>1
<1>13. \A j \in 1 .. b + t : rspBuf'[j] = c[j + 1]
  <2> SUFFICES ASSUME NEW j \in 1 .. b + t PROVE rspBuf'[j] = c[j + 1]
    OBVIOUS
  <2>1. CASE j \in 1 .. b
    BY <1>4, <1>5, <1>7, <2>1 DEF BodyRead
  <2>2. CASE j \in b + 1 .. b + t
    <3>1. PICK d \in 1 .. t : j = b + d
      <4>1. j - b \in 1 .. t /\ j = b + (j - b)
        BY <1>6, <1>8, <2>2
      <4> QED
        BY <4>1
    <3> QED
      BY <1>7, <1>12, <3>1
  <2> QED
    BY <1>6, <1>8, <2>1, <2>2
<1>14. BodyRead'
  BY <1>2, <1>3, <1>4, <1>5, <1>7, <1>13 DEF BodyRead
<1>15. NextInBody(num2[1], pos2[1])'
  <2>1. CASE t < rspLen
    <3>1. b + 2 + t <= Len(c)
      BY <1>6, <1>8, <2>1
    <3>2. num2[1] = r /\ pos2[1] = b + 2 + t
      BY <1>4, <1>5, <1>10, <3>1
    <3>3. rspLen' > 0 /\ b + 2 + t = Len(rspBuf') + 2
      BY <1>6, <1>7, <1>8, <2>1
    <3> QED
      BY <1>3, <1>4, <3>2, <3>3 DEF NextInBody
  <2>2. CASE t = rspLen
    <3>1. b + 2 + t = Len(c) + 1
      BY <1>6, <1>8, <2>2
    <3>2. num2[1] = Len(received) + 2 /\ pos2[1] = 1
      BY <1>4, <1>5, <1>10, <3>1
    <3>3. rspLen' = 0
      BY <1>6, <1>7, <2>2
    <3> QED
      BY <1>3, <3>2, <3>3 DEF NextInBody
  <2> QED
    BY <1>6, <1>7, <1>8, <2>1, <2>2
<1>16. Tagged(num2, pos2)'
  BY <1>2, <1>7, <1>10 DEF Tagged
<1>17. pc' = "body"
  BY <1>3, <1>4, <1>6, <1>7, <1>8, BufLenAssumption
<1>18. NextRead(num2[1], pos2[1])'
  BY <1>14, <1>15, <1>17 DEF NextRead
<1>19. RetriesLeft'
  BY <1>2, <1>3, <1>17 DEF Synced, RetriesLeft
<1> QED
  BY <1>2, <1>16, <1>17, <1>18, <1>19 DEF Synced

(* A read that fails has a retry left: the reader waits within a message,   *)
(* so for a pause that none has been spent on.                              *)
LEMMA ReadFailsSynced ==
  ASSUME ReaderInv, ReaderInv', Synced, Len(received) \in Nat, ReadFails
  PROVE  Synced'
<1>1. PICK num, pos : Tagged(num, pos) /\ NextRead(num[1], pos[1])
  BY DEF Synced
<1>2. /\ WireInv' /\ Codes' = Codes /\ Come' = Come /\ NextByte' = NextByte
      /\ UNCHANGED <<hungUp, wire, headersWhole, pauses, sentMsgs>> /\ Regular'
  BY WireLeft DEF ReadFails, Synced
<1>0. pc = "body" /\ line = << >> /\ rspLen > 0
  BY DEF ReadFails
<1>4. BodyRead /\ pos[1] = Len(rspBuf) + 2
  BY <1>0, <1>1 DEF NextRead, NextInBody
<1>3. /\ pc' = (IF MayRetry THEN "sleep" ELSE "poll")
      /\ retryAttempts' = (retryAttempts + 1) % 256
      /\ UNCHANGED <<rspLen, rspBuf, received, line>>
      /\ pc = "body" /\ line = << >> /\ rspLen > 0
  <2>1. rspLen # 255
    <3>1. Len(rspBuf) >= 1 /\ Len(rspBuf) \in Nat /\ Len(rspBuf) + rspLen <= BufLen
      BY <1>0, <1>4, BodyLength, BufLenAssumption DEF Synced
    <3> QED
      BY <3>1, BufLenAssumption
  <2> QED
    BY <1>0, <2>1 DEF ReadFails
<1>5. pos[1] = NextByte
  BY <1>1, <1>3, LineEmpty
<1>6. Len(rspBuf) \in Nat /\ Len(rspBuf) >= 1
  BY <1>3, <1>4, BodyLength DEF Synced
<1>7. NextByte > 1
  BY <1>4, <1>5, <1>6
<1>8. retryAttempts \in Nat /\ pauses \in Nat /\ pauses <= 5 /\ retryAttempts < pauses
  BY <1>3, <1>7 DEF Synced, RetriesLeft, Regular
<1>9. retryAttempts < 5
  BY <1>8
<1>10. pc' = "sleep"
  BY <1>3, <1>9 DEF MayRetry
<1>11. retryAttempts' = retryAttempts + 1
  BY <1>3, <1>8, <1>9
<1>12. retryAttempts' \in Nat /\ retryAttempts' <= pauses
  BY <1>8, <1>11
<1>13. RetriesLeft'
  BY <1>2, <1>3, <1>8, <1>10, <1>12 DEF RetriesLeft
<1>14. Tagged(num, pos)'
  BY <1>1, <1>2, <1>3 DEF Tagged
<1>15. NextRead(num[1], pos[1])'
  <2>1. BodyRead'
    BY <1>2, <1>3, <1>4 DEF BodyRead
  <2>2. NextInBody(num[1], pos[1])
    BY <1>1, <1>3 DEF NextRead
  <2>3. NextInBody(num[1], pos[1])'
    BY <1>3, <2>2 DEF NextInBody
  <2> QED
    BY <1>10, <2>1, <2>3 DEF NextRead
<1> QED
  BY <1>2, <1>10, <1>13, <1>14, <1>15 DEF Synced

LEMMA WakeSynced ==
  ASSUME ReaderInv', Synced, Wake
  PROVE  Synced'
<1>1. PICK num, pos : Tagged(num, pos) /\ NextRead(num[1], pos[1])
  BY DEF Synced
<1>2. /\ WireInv' /\ Codes' = Codes /\ Come' = Come /\ NextByte' = NextByte
      /\ UNCHANGED <<hungUp, wire, headersWhole, pauses, sentMsgs>> /\ Regular'
  BY WireLeft DEF Wake, Synced
<1>3. /\ pc = "sleep" /\ pc' = "body"
      /\ UNCHANGED <<rspLen, rspBuf, retryAttempts, received, line>>
      /\ line # << >> \/ wire = << >>
  BY DEF Wake
<1>4. wire = << >> => NextByte = 1
  BY DEF NextByte
<1>5. RetriesLeft'
  BY <1>2, <1>3, <1>4 DEF Synced, RetriesLeft
<1>6. Tagged(num, pos)'
  BY <1>1, <1>2, <1>3 DEF Tagged
<1>7. NextRead(num[1], pos[1])'
  <2>1. BodyRead /\ NextInBody(num[1], pos[1])
    BY <1>1, <1>3 DEF NextRead
  <2>2. BodyRead' /\ NextInBody(num[1], pos[1])'
    BY <1>2, <1>3, <2>1 DEF BodyRead, NextInBody
  <2> QED
    BY <1>3, <2>2 DEF NextRead
<1> QED
  BY <1>2, <1>3, <1>5, <1>6, <1>7 DEF Synced

(* A body with nothing missing is the message.                              *)
LEMMA BodyComplete ==
  ASSUME ReaderInv, WireInv, Regular, BodyRead, pc \in {"body", "sleep"}, rspLen = 0
  PROVE  Tail(rspBuf) = sentMsgs[Len(received) + 1] /\ Len(rspBuf) > 2
<1>1. PICK n \in 1 .. Len(sentMsgs) : n = Len(received) + 1
  BY DEF BodyRead
<1>2. PICK b \in Nat : b = Len(rspBuf) /\ b >= 1 /\ Len(Codes[n]) = b + 1 /\ b > 2
  BY <1>1, BodyLength, BufLenAssumption
<1>3. PICK m \in Seq(Byte) : m = sentMsgs[n]
  BY CodeSpec DEF WireInv
<1>4. Len(m) = b - 1 /\ \A j \in 1 .. Len(m) : Codes[n][j + 2] = m[j]
  <2>1. /\ Len(Codes[n]) = Len(m) + 2 /\ Len(m) \in Nat
        /\ \A j \in 1 .. Len(m) : Codes[n][j + 2] = m[j]
    BY <1>3, CodeSpec DEF WireInv
  <2> QED
    BY <1>2, <2>1
<1>5. PICK u \in Seq(Byte) : u = rspBuf /\ Len(u) = b /\ u # << >>
  BY <1>2 DEF ReaderInv
<1>6. /\ Tail(u) \in Seq(Byte) /\ Len(Tail(u)) = b - 1
      /\ \A j \in 1 .. b - 1 : Tail(u)[j] = u[j + 1]
  <2> HIDE DEF Byte
  <2> QED
    BY <1>2, <1>5, HeadTailProperties
<1>7. \A j \in 1 .. b - 1 : u[j + 1] = m[j]
  <2> SUFFICES ASSUME NEW j \in 1 .. b - 1 PROVE u[j + 1] = m[j]
    OBVIOUS
  <2>1. PICK k \in 1 .. b : k = j + 1
    BY <1>2
  <2>2. u[k] = Codes[n][k + 1]
    BY <1>1, <1>2, <1>5 DEF BodyRead
  <2>3. k + 1 = j + 2 /\ j \in 1 .. Len(m)
    BY <1>2, <1>4, <2>1
  <2> QED
    BY <1>4, <2>1, <2>2, <2>3
<1>8. Tail(u) = m
  BY <1>2, <1>3, <1>4, <1>6, <1>7, SeqEqual
<1> QED
  BY <1>1, <1>2, <1>3, <1>5, <1>8

(* The next message, whole.                                                 *)
Delivers == /\ Len(received) + 1 \in 1 .. Len(sentMsgs)
            /\ received' = Append(received, sentMsgs[Len(received) + 1])

LEMMA ProcessSynced ==
  ASSUME ReaderInv, ReaderInv', Synced, ~ hungUp, received \in Seq(Seq(Byte)), Process
  PROVE  Synced' /\ Delivers
<1>1. PICK num, pos : Tagged(num, pos) /\ NextRead(num[1], pos[1])
  BY DEF Synced
<1>2. /\ WireInv' /\ Codes' = Codes /\ Come' = Come /\ NextByte' = NextByte
      /\ UNCHANGED <<hungUp, wire, headersWhole, pauses, sentMsgs>> /\ Regular'
  BY WireLeft DEF Process, Synced
<1>3. /\ pc = "body" /\ pc' = "poll" /\ rspLen = 0
      /\ UNCHANGED <<rspLen, rspBuf, retryAttempts, line>>
      /\ Len(rspBuf) > 2 => received' = Append(received, Tail(rspBuf))
  BY DEF Process
<1>4. BodyRead /\ num[1] = Len(received) + 2 /\ pos[1] = 1
  BY <1>1, <1>3 DEF NextRead, NextInBody
<1>5. Tail(rspBuf) = sentMsgs[Len(received) + 1] /\ Len(rspBuf) > 2
  BY <1>3, <1>4, BodyComplete DEF Synced
<1>6. Delivers
  BY <1>3, <1>4, <1>5 DEF Delivers, BodyRead
<1>7. Len(received) \in Nat /\ Len(received') = Len(received) + 1
  <2>1. PICK x : x = Tail(rspBuf)
    OBVIOUS
  <2>2. Len(Append(received, x)) = Len(received) + 1
    OBVIOUS
  <2> QED
    BY <1>3, <1>5, <2>1, <2>2
<1>8. num[1] = Len(received') + 1
  BY <1>4, <1>7
<1>9. NextRead(num[1], pos[1])'
  BY <1>3, <1>4, <1>8 DEF NextRead
<1>10. Tagged(num, pos)'
  BY <1>1, <1>2, <1>3 DEF Tagged
<1>11. RetriesLeft'
  BY <1>2, <1>3 DEF Synced, RetriesLeft
<1> QED
  BY <1>2, <1>3, <1>6, <1>9, <1>10, <1>11 DEF Synced

-----------------------------------------------------------------------------
(* The steps of the coordinator and the line. *)
LEMMA SendSynced ==
  ASSUME ReaderInv, Synced, Regular', Len(received) \in Nat, NEW m \in Message, Send(m)
  PROVE  Synced'
<1>1. PICK num, pos : Tagged(num, pos) /\ NextRead(num[1], pos[1])
  BY DEF Synced
<1>2. /\ WireInv /\ WireInv' /\ Come' = Come /\ NextByte' = NextByte
      /\ \A n \in 1 .. Len(sentMsgs) : Codes'[n] = Codes[n]
      /\ Len(sentMsgs') = Len(sentMsgs) + 1
  BY SendStep DEF Synced
<1>3. UNCHANGED <<pc, rspLen, rspBuf, retryAttempts, received, line, pauses>>
  BY DEF Send, readerVars
<1>4. Len(sentMsgs) \in Nat /\ Len(sentMsgs') \in Nat /\ Len(sentMsgs) <= Len(sentMsgs')
  BY <1>2, NextTyped
<1>5. RetriesLeft'
  BY <1>2, <1>3 DEF Synced, RetriesLeft
<1>6. Tagged(num, pos)'
  <2>1. Len(line) \in Nat
    BY DEF ReaderInv, LineInv
  <2>2. PICK M, B : M = Come + 1 /\ B = NextByte
    OBVIOUS
  <2>3. Tags(Len(line), line, Len(sentMsgs), Codes, M, B, num, pos)
    BY <1>1, <2>2 DEF Tagged
  <2>4. Tags(Len(line), line, Len(sentMsgs'), Codes', M, B, num, pos)
    BY <1>2, <1>4, <2>1, <2>3, TagsSent
  <2> QED
    BY <1>2, <1>3, <2>2, <2>4 DEF Tagged
<1>7. BodyRead => BodyRead'
  <2> SUFFICES ASSUME BodyRead PROVE BodyRead'
    OBVIOUS
  <2>1. PICK r \in 1 .. Len(sentMsgs) : r = Len(received) + 1
    BY DEF BodyRead
  <2>2. Codes'[r] = Codes[r] /\ r \in 1 .. Len(sentMsgs')
    BY <1>2, <1>4, <2>1
  <2> QED
    BY <1>3, <2>1, <2>2 DEF BodyRead
<1>8. NextRead(num[1], pos[1])'
  BY <1>1, <1>3, <1>7 DEF NextRead, NextInBody
<1> QED
  BY <1>2, <1>3, <1>5, <1>6, <1>8 DEF Synced

LEMMA ArriveSynced ==
  ASSUME ReaderInv, Synced, Regular', Arrive
  PROVE  Synced'
<1>1. PICK num, pos : Tagged(num, pos) /\ NextRead(num[1], pos[1])
  BY DEF Synced
<1>2. PICK n, i, k \in Nat : Arrives(n, i, k)
  BY ArriveStep DEF Synced
<1>3. WireInv /\ WireInv'
  BY ArriveStep DEF Synced
<1>4. UNCHANGED <<pc, rspLen, rspBuf, retryAttempts, received, sentMsgs>>
  BY DEF Arrive, readerVars
<1>5. Codes' = Codes
  BY <1>4 DEF Codes
<1>6. PICK c : c = Codes[n]
  OBVIOUS
<1>7. /\ n = Come + 1 /\ n \in 1 .. Len(sentMsgs)
      /\ i = NextByte /\ i \in 1 .. Len(c) /\ i # 2
      /\ k \in 1 .. Len(c) - i + 1
      /\ Len(line') = Len(line) + k
      /\ \A j \in 1 .. Len(line) : line'[j] = line[j]
      /\ \A j \in 1 .. k : line'[Len(line) + j] = c[i + j - 1]
      /\ IF k = Len(c) - i + 1
         THEN Come' = Come + 1 /\ NextByte' = 1 /\ pauses' = pauses
         ELSE Come' = Come /\ NextByte' = i + k /\ pauses' = pauses + 1
  BY <1>2, <1>6 DEF Arrives
<1>8. PICK L, N \in Nat : L = Len(line) /\ N = Len(sentMsgs)
  BY <1>3, NextTyped DEF WireInv, LineInv
<1>9. \A x \in 1 .. N : Len(Codes[x]) \in Nat
  BY <1>3, <1>8, CodeSpec DEF WireInv
<1>10. PICK M, B \in Nat : M = Come' + 1 /\ B = NextByte'
  BY <1>2, <1>7
<1>11. IF k = Len(c) - i + 1 THEN M = n + 1 /\ B = 1 ELSE M = n /\ B = i + k
  BY <1>7, <1>10
<1>12. \E num2, pos2 : Tagged(num2, pos2)' /\ num2[1] = num[1] /\ pos2[1] = pos[1]
  <2>1. PICK ln, cd, all : ln = line /\ cd = Codes /\ all = line'
    OBVIOUS
  <2>2. Tags(L, ln, N, cd, n, i, num, pos)
    BY <1>1, <1>7, <1>8, <2>1 DEF Tagged
  <2>3. Continues(L, ln, N, cd, n, i, k, all, M, B)
    BY <1>6, <1>7, <1>8, <1>9, <1>11, <2>1 DEF Continues
  <2>4. \E num2, pos2 : /\ Tags(L + k, all, N, cd, M, B, num2, pos2)
                        /\ num2[1] = num[1] /\ pos2[1] = pos[1]
    BY <2>2, <2>3, TagsExtend
  <2> QED
    BY <1>4, <1>5, <1>7, <1>8, <1>10, <2>1, <2>4 DEF Tagged
<1>13. NextRead(num[1], pos[1])'
  <2>1. BodyRead => BodyRead'
    BY <1>4, <1>5 DEF BodyRead
  <2> QED
    BY <1>1, <1>4, <2>1 DEF NextRead, NextInBody
<1>14. RetriesLeft'
  <2>1. retryAttempts \in Nat /\ pauses \in Nat /\ retryAttempts <= pauses
    BY DEF Synced, RetriesLeft
  <2>2. CASE k = Len(c) - i + 1
    BY <1>4, <1>7, <2>1, <2>2 DEF RetriesLeft
  <2>3. CASE k # Len(c) - i + 1
    <3>1. pauses' = pauses + 1
      BY <1>7, <2>3
    <3>2. pauses' \in Nat /\ retryAttempts < pauses'
      BY <2>1, <3>1
    <3> QED
      BY <1>4, <2>1, <3>2 DEF RetriesLeft
  <2> QED
    BY <2>2, <2>3
<1> QED
  BY <1>3, <1>4, <1>12, <1>13, <1>14 DEF Synced

-----------------------------------------------------------------------------
(* The line stays regular for a while, and is not regular again after.      *)
LEMMA RegularBefore ==
  ASSUME sentMsgs \in Seq(Message), pauses \in Nat, Next, Regular'
  PROVE  Regular
<1>1. CASE UNCHANGED <<headersWhole, pauses, sentMsgs>>
  BY <1>1 DEF Regular, Fitting
<1>2. CASE Arrive
  <2>1. /\ UNCHANGED <<headersWhole, sentMsgs>>
        /\ UNCHANGED pauses \/ pauses' = pauses + 1
    BY <1>2 DEF Arrive
  <2>2. pauses <= pauses'
    BY <2>1
  <2> QED
    BY <2>1, <2>2 DEF Regular, Fitting
<1>3. ASSUME NEW m \in Message, Send(m) PROVE Regular
  <2>1. /\ UNCHANGED <<headersWhole, pauses>> /\ sentMsgs' = Append(sentMsgs, m)
    BY <1>3 DEF Send
  <2>2. /\ Len(sentMsgs) \in Nat /\ Len(sentMsgs') = Len(sentMsgs) + 1
        /\ \A n \in 1 .. Len(sentMsgs) : sentMsgs'[n] = sentMsgs[n]
    BY <2>1
  <2>3. \A n \in 1 .. Len(sentMsgs) : n \in 1 .. Len(sentMsgs')
    BY <2>2
  <2> QED
    BY <2>1, <2>2, <2>3 DEF Regular, Fitting
<1>4. CASE processSocCmd \/ HangUp
  BY <1>1, <1>4 DEF processSocCmd, ReadSof, ReadLen, ReadBody, ReadFails, Wake, Process,
                    HangUp, lineVars
<1> QED
  BY <1>2, <1>3, <1>4 DEF Next

(* A regular line that has hung up brings nothing any more.                 *)
ChannelInv ==
  /\ ReaderInv /\ sentMsgs \in Seq(Message) /\ received \in Seq(Seq(Byte))
  /\ pauses \in Nat /\ hungUp \in BOOLEAN /\ headersWhole \in BOOLEAN
  /\ Regular => IF hungUp THEN line = << >> /\ wire = << >> /\ pc # "overrun"
                          ELSE Synced /\ Len(received) <= Len(sentMsgs)

(* The switch finds something, if not always a message.                     *)
Receives == /\ Len(received') = Len(received) + 1
            /\ SubSeq(received', 1, Len(received)) = received

LEMMA AppendReceives ==
  ASSUME NEW s \in Seq(Seq(Byte)), NEW x \in Seq(Byte)
  PROVE  /\ Append(s, x) \in Seq(Seq(Byte)) /\ Len(Append(s, x)) = Len(s) + 1
         /\ SubSeq(Append(s, x), 1, Len(s)) = s
<1>1. PICK t : t = Append(s, x)
  OBVIOUS
<1>2. PICK n \in Nat : n = Len(s)
  OBVIOUS
<1>3. /\ t \in Seq(Seq(Byte)) /\ Len(t) = n + 1
      /\ \A j \in 1 .. n : t[j] = s[j] /\ t[j] \in Seq(Byte)
  BY <1>1, <1>2, AppendProperties, ElementOfSeq
<1>4. PICK u : u = SubSeq(t, 1, n)
  OBVIOUS
<1>5. u \in Seq(Seq(Byte)) /\ Len(u) = n /\ \A j \in 1 .. n : u[j] = t[j]
  BY <1>2, <1>3, <1>4, SubSeqProperties
<1>6. u = s
  BY <1>2, <1>3, <1>5, SeqEqual
<1> QED
  BY <1>1, <1>2, <1>3, <1>4, <1>6

LEMMA ReceivedTyped ==
  ASSUME ReaderInv, received \in Seq(Seq(Byte)), processSocCmd
  PROVE  received' \in Seq(Seq(Byte)) /\ (UNCHANGED received \/ Receives)
<1>1. CASE Process
  <2>1. rspBuf \in Seq(Byte) /\ rspBuf # << >>
    BY <1>1 DEF Process, ReaderInv
  <2>2. Len(rspBuf) \in Nat /\ Len(rspBuf) >= 1 /\ Tail(rspBuf) \in Seq(Byte)
    BY <2>1, EmptySeq, HeadTailProperties
  <2>3. ASSUME NEW old \in Stack
        PROVE  Tail(rspBuf) \o SubSeq(old, Len(rspBuf), Len(old)) \in Seq(Byte)
    <3>1. old \in Seq(Byte)
      BY StackAssumption DEF Byte
    <3>2. Len(old) \in Nat /\ \A j \in 1 .. Len(old) : old[j] \in Byte
      BY <3>1, ElementOfSeq
    <3>3. \A j \in Len(rspBuf) .. Len(old) : old[j] \in Byte
      BY <2>2, <3>2
    <3>4. SubSeq(old, Len(rspBuf), Len(old)) \in Seq(Byte)
      <4>1. PICK n, l \in Int : n = Len(rspBuf) /\ l = Len(old)
        BY <2>2, <3>2
      <4> HIDE DEF Byte
      <4> QED
        BY <3>3, <4>1, SubSeqProperties
    <3> QED
      BY <2>2, <3>4, ConcatProperties
  <2>4. \E x \in Seq(Byte) : received' = Append(received, x)
    BY <1>1, <2>2, <2>3 DEF Process
  <2> QED
    BY <2>4, AppendReceives DEF Receives
<1>2. CASE ~ Process
  BY <1>2 DEF processSocCmd, ReadSof, ReadLen, ReadBody, ReadFails, Wake
<1> QED
  BY <1>1, <1>2

(* A step of the reader on a regular line that is up delivers the next      *)
(* message or none.                                                         *)
LEMMA ReaderDelivers ==
  ASSUME ChannelInv, processSocCmd
  PROVE  /\ ChannelInv' /\ Up' = Up
         /\ UNCHANGED sentMsgs
         /\ UNCHANGED received \/ Receives
         /\ Up => UNCHANGED received \/ Delivers
<1>1. UNCHANGED <<hungUp, wire, headersWhole, pauses, sentMsgs>>
  BY DEF processSocCmd, ReadSof, ReadLen, ReadBody, ReadFails, Wake, Process, lineVars
<1>2. /\ ReaderInv /\ ReaderInv' /\ received \in Seq(Seq(Byte)) /\ received' \in Seq(Seq(Byte))
      /\ UNCHANGED received \/ Receives
  BY ReaderSteps, ReceivedTyped DEF ChannelInv
<1>3. Len(received) \in Nat
  BY <1>2
<1>4. Regular' = Regular /\ Up' = Up
  BY <1>1 DEF Regular, Fitting, Up
<1>5. ASSUME Up
      PROVE  Synced' /\ (UNCHANGED received \/ Delivers)
  <2>1. Synced /\ ~ hungUp
    BY <1>5 DEF ChannelInv, Up
  <2>2. CASE Process
    BY <1>2, <2>1, <2>2, ProcessSynced
  <2>3. CASE ~ Process
    <3>1. UNCHANGED received
      BY <2>3 DEF processSocCmd, ReadSof, ReadLen, ReadBody, ReadFails, Wake
    <3>2. Synced'
      BY <1>2, <1>3, <2>1, <2>3, ReadSofSynced, ReadLenSynced, ReadBodySynced,
         ReadFailsSynced, WakeSynced DEF processSocCmd
    <3> QED
      BY <3>1, <3>2
  <2> QED
    BY <2>2, <2>3
<1>6. Up => Len(received') <= Len(sentMsgs')
  <2>1. Len(sentMsgs) \in Nat
    BY DEF ChannelInv
  <2>2. ASSUME Delivers
        PROVE  Len(received') = Len(received) + 1 /\ Len(received) + 1 <= Len(sentMsgs)
    <3>1. PICK r \in Nat : r = Len(received)
      BY <1>3
    <3>2. \A x : Len(Append(received, x)) = Len(received) + 1
      BY <1>2
    <3> QED
      BY <2>1, <2>2, <3>1, <3>2 DEF Delivers
  <2> QED
    BY <1>1, <1>5, <2>2 DEF ChannelInv, Up
<1>7. Regular /\ hungUp => line' = << >> /\ pc' # "overrun"
  BY DEF ChannelInv, processSocCmd, ReadSof, ReadLen, ReadBody, ReadFails, Wake, Process
<1>8. ChannelInv'
  BY <1>1, <1>2, <1>4, <1>5, <1>6, <1>7 DEF ChannelInv, Up
<1> QED
  BY <1>1, <1>2, <1>4, <1>5, <1>8

LEMMA LineDelivers ==
  ASSUME ChannelInv, Arrive \/ HangUp
  PROVE  ChannelInv' /\ UNCHANGED <<sentMsgs, received>> /\ (Up' => Up)
<1>1. UNCHANGED <<pc, rspLen, rspBuf, sentMsgs, headersWhole, received>>
  BY DEF Arrive, HangUp, readerVars
<1>2. ReaderInv'
  BY <1>1, LineSteps, LineKept DEF ChannelInv, ReaderInv
<1>3. Regular' => Regular
  BY RegularBefore DEF ChannelInv, Next
<1>4. CASE Arrive
  <2>1. /\ hungUp' = hungUp /\ wire # << >>
        /\ UNCHANGED pauses \/ pauses' = pauses + 1
    BY <1>4 DEF Arrive
  <2>2. ASSUME Regular'
        PROVE  ~ hungUp /\ Synced' /\ Len(received') <= Len(sentMsgs')
    <3>1. ~ hungUp /\ Synced /\ Len(received) <= Len(sentMsgs)
      BY <1>3, <2>1, <2>2 DEF ChannelInv
    <3> QED
      BY <1>1, <1>4, <2>2, <3>1, ArriveSynced DEF ChannelInv
  <2>3. pauses' \in Nat
    BY <2>1 DEF ChannelInv
  <2>4. ChannelInv'
    BY <1>1, <1>2, <2>1, <2>2, <2>3 DEF ChannelInv
  <2> QED
    BY <1>1, <1>3, <2>1, <2>4 DEF Up
<1>5. CASE HangUp
  <2>1. ~ hungUp /\ hungUp' /\ hungUp' \in BOOLEAN /\ line' = << >> /\ wire' = << >> /\ UNCHANGED pauses
    BY <1>5 DEF HangUp
  <2>2. Regular' => pc' # "overrun"
    BY <1>1, <1>3, <2>1 DEF ChannelInv, Synced
  <2>3. ChannelInv'
    BY <1>1, <1>2, <2>1, <2>2 DEF ChannelInv
  <2> QED
    BY <1>1, <2>1, <2>3 DEF Up
<1> QED
  BY <1>4, <1>5

LEMMA SendDelivers ==
  ASSUME ChannelInv, NEW m \in Message, Send(m)
  PROVE  /\ ChannelInv' /\ (Up' => Up)
         /\ UNCHANGED received /\ sentMsgs' = Append(sentMsgs, m)
<1>1. /\ UNCHANGED <<pc, rspLen, rspBuf, hungUp, headersWhole, pauses, received>>
      /\ ~ hungUp /\ sentMsgs' = Append(sentMsgs, m)
  BY DEF Send, readerVars
<1>2. ReaderInv'
  BY <1>1, LineSteps, LineKept DEF ChannelInv, ReaderInv
<1>3. /\ sentMsgs' \in Seq(Message) /\ Len(sentMsgs') = Len(sentMsgs) + 1
      /\ Len(sentMsgs) \in Nat /\ Len(received) \in Nat
  BY <1>1 DEF ChannelInv
<1>4. Regular' => Regular
  BY RegularBefore DEF ChannelInv, Next
<1>5. ASSUME Regular' PROVE Synced' /\ Len(received') <= Len(sentMsgs')
  <2>1. Synced /\ Len(received) <= Len(sentMsgs)
    BY <1>1, <1>4, <1>5 DEF ChannelInv
  <2>2. Len(received') <= Len(sentMsgs')
    BY <1>1, <1>3, <2>1
  <2> QED
    BY <1>3, <1>5, <2>1, <2>2, SendSynced DEF ChannelInv
<1>6. ChannelInv'
  BY <1>1, <1>2, <1>3, <1>5 DEF ChannelInv
<1> QED
  BY <1>1, <1>4, <1>6 DEF Up

-----------------------------------------------------------------------------
(* The messages sent and not received are a queue.                          *)
Queue == SubSeq(sentMsgs, Len(received) + 1, Len(sentMsgs))

LEMMA QueueSpec ==
  ASSUME NEW s \in Seq(Message), NEW r \in Nat, r <= Len(s)
  PROVE  /\ SubSeq(s, r + 1, Len(s)) \in Seq(Message)
         /\ Len(SubSeq(s, r + 1, Len(s))) = Len(s) - r
         /\ \A j \in 1 .. Len(s) - r : SubSeq(s, r + 1, Len(s))[j] = s[r + j]
<1>1. PICK n, l \in Int : n = r + 1 /\ l = Len(s) /\ n >= 1 /\ n <= l + 1
  OBVIOUS
<1>2. \A j \in n .. l : s[j] \in Message
  BY <1>1
<1>3. /\ SubSeq(s, n, l) \in Seq(Message)
      /\ IF n <= l THEN Len(SubSeq(s, n, l)) = l - n + 1 ELSE Len(SubSeq(s, n, l)) = 0
      /\ \A j \in 1 .. l - n + 1 : SubSeq(s, n, l)[j] = s[n + j - 1]
  BY <1>1, <1>2, SubSeqProperties
<1>4. /\ l - n + 1 = l - r /\ \A j \in 1 .. l - r : n + j - 1 = r + j
      /\ ~ (n <= l) => l - r = 0
  BY <1>1
<1>5. PICK q : q = SubSeq(s, n, l)
  OBVIOUS
<1>6. q \in Seq(Message) /\ Len(q) = l - r /\ \A j \in 1 .. l - r : q[j] = s[r + j]
  BY <1>3, <1>4, <1>5
<1> QED
  BY <1>1, <1>5, <1>6

LEMMA QueueGrows ==
  ASSUME NEW s \in Seq(Message), NEW r \in Nat, r <= Len(s), NEW m \in Message
  PROVE  SubSeq(Append(s, m), r + 1, Len(Append(s, m)))
           = Append(SubSeq(s, r + 1, Len(s)), m)
<1>1. PICK t : t = Append(s, m)
  OBVIOUS
<1>2. PICK n \in Nat : n = Len(s) /\ r <= n
  OBVIOUS
<1>3. t \in Seq(Message) /\ Len(t) = n + 1 /\ t[n + 1] = m /\ \A j \in 1 .. n : t[j] = s[j]
  BY <1>1, <1>2, AppendProperties
<1>4. PICK q : q = SubSeq(s, r + 1, Len(s))
  OBVIOUS
<1>5. q \in Seq(Message) /\ Len(q) = n - r /\ \A j \in 1 .. n - r : q[j] = s[r + j]
  BY <1>2, <1>4, QueueSpec
<1>6. PICK u : u = SubSeq(t, r + 1, Len(t))
  OBVIOUS
<1>7. u \in Seq(Message) /\ Len(u) = n + 1 - r /\ \A j \in 1 .. n + 1 - r : u[j] = t[r + j]
  <2>1. r <= Len(t)
    BY <1>2, <1>3
  <2>2. /\ u \in Seq(Message) /\ Len(u) = Len(t) - r
        /\ \A j \in 1 .. Len(t) - r : u[j] = t[r + j]
    BY <1>3, <1>6, <2>1, QueueSpec
  <2> QED
    BY <1>3, <2>2
<1>8. PICK v : v = Append(q, m)
  OBVIOUS
<1>9. PICK w \in Nat : w = n - r
  <2>1. n - r \in Nat
    BY <1>2
  <2> QED
    BY <2>1
<1>10. v \in Seq(Message) /\ Len(v) = w + 1 /\ v[w + 1] = m /\ \A j \in 1 .. w : v[j] = q[j]
  BY <1>5, <1>8, <1>9, AppendProperties
<1>11. \A j \in 1 .. w + 1 : u[j] = v[j]
  <2> SUFFICES ASSUME NEW j \in 1 .. w + 1 PROVE u[j] = v[j]
    OBVIOUS
  <2>1. CASE j = w + 1
    <3>1. u[j] = t[r + j] /\ r + j = n + 1
      BY <1>2, <1>7, <1>9, <2>1
    <3> QED
      BY <1>3, <1>10, <2>1, <3>1
  <2>2. CASE j \in 1 .. w
    <3>1. j \in 1 .. n + 1 - r /\ r + j \in 1 .. n
      BY <1>2, <1>9, <2>2
    <3> QED
      BY <1>3, <1>5, <1>7, <1>9, <1>10, <2>2, <3>1
  <2> QED
    BY <1>9, <2>1, <2>2
<1>12. Len(u) = w + 1
  BY <1>2, <1>7, <1>9
<1>13. u = v
  BY <1>7, <1>8, <1>10, <1>11, <1>12, SeqEqual
<1> QED
  BY <1>1, <1>4, <1>6, <1>8, <1>13

LEMMA QueueShrinks ==
  ASSUME NEW s \in Seq(Message), NEW r \in Nat, r + 1 \in 1 .. Len(s)
  PROVE  /\ SubSeq(s, r + 1, Len(s)) # << >>
         /\ Head(SubSeq(s, r + 1, Len(s))) = s[r + 1]
         /\ Tail(SubSeq(s, r + 1, Len(s))) = SubSeq(s, r + 1 + 1, Len(s))
<1>1. PICK n \in Nat : n = Len(s) /\ r < n
  OBVIOUS
<1>2. PICK q : q = SubSeq(s, r + 1, Len(s))
  OBVIOUS
<1>3. q \in Seq(Message) /\ Len(q) = n - r /\ \A j \in 1 .. n - r : q[j] = s[r + j]
  BY <1>1, <1>2, QueueSpec
<1>4. PICK u : u = SubSeq(s, r + 1 + 1, Len(s))
  OBVIOUS
<1>5. u \in Seq(Message) /\ Len(u) = n - (r + 1)
      /\ \A j \in 1 .. n - (r + 1) : u[j] = s[r + 1 + j]
  BY <1>1, <1>4, QueueSpec
<1>6. q # << >> /\ 1 \in 1 .. n - r
  BY <1>1, <1>3
<1>7. Head(q) = s[r + 1]
  BY <1>3, <1>6
<1>8. PICK v : v = Tail(q)
  OBVIOUS
<1>9. v \in Seq(Message) /\ Len(v) = n - r - 1 /\ \A j \in 1 .. n - r - 1 : v[j] = q[j + 1]
  <2>1. /\ Tail(q) \in Seq(Message) /\ Len(Tail(q)) = Len(q) - 1
        /\ \A j \in 1 .. Len(q) - 1 : Tail(q)[j] = q[j + 1]
    BY <1>3, <1>6, HeadTailProperties
  <2> QED
    BY <1>3, <1>8, <2>1
<1>10. \A j \in 1 .. n - r - 1 : v[j] = u[j]
  <2> SUFFICES ASSUME NEW j \in 1 .. n - r - 1 PROVE v[j] = u[j]
    OBVIOUS
  <2>1. j + 1 \in 1 .. n - r /\ r + (j + 1) = r + 1 + j /\ j \in 1 .. n - (r + 1)
    BY <1>1
  <2> QED
    BY <1>3, <1>5, <1>9, <2>1
<1>11. v = u
  <2>1. PICK w \in Nat : w = n - r - 1 /\ w = n - (r + 1)
    <3>1. n - r - 1 \in Nat /\ n - r - 1 = n - (r + 1)
      BY <1>1
    <3> QED
      BY <3>1
  <2> QED
    BY <1>5, <1>9, <1>10, <2>1, SeqEqual
<1> QED
  BY <1>2, <1>4, <1>6, <1>7, <1>8, <1>11

LEMMA ChannelStart == Init => ChannelInv /\ ChannelOf!Init
<1> SUFFICES ASSUME Init PROVE ChannelInv /\ ChannelOf!Init
  OBVIOUS
<1>1. /\ pc = "poll" /\ retryAttempts = 0 /\ pauses = 0 /\ hungUp = FALSE
      /\ line = << >> /\ wire = << >> /\ sentMsgs = << >> /\ received = << >>
      /\ headersWhole \in BOOLEAN
  BY DEF Init
<1>2. Come = 0 /\ NextByte = 1 /\ Len(sentMsgs) = 0 /\ Len(received) = 0
  BY <1>1 DEF Come, NextByte
<1>3. ASSUME Regular PROVE Synced
  <2>1. WireInv
    BY <1>1, <1>3, ReaderInit DEF WireInv, OnTheirWay, ReaderInv, Regular
  <2>2. RetriesLeft
    BY <1>1, <1>2 DEF RetriesLeft
  <2>3. Tags(0, line, 0, Codes, 1, 1, [j \in 1 .. 1 |-> 1], [j \in 1 .. 1 |-> 1])
    BY DEF Tags
  <2>4. Tagged([j \in 1 .. 1 |-> 1], [j \in 1 .. 1 |-> 1])
    BY <1>1, <1>2, <2>3 DEF Tagged
  <2>5. NextRead(1, 1)
    BY <1>1, <1>2 DEF NextRead
  <2> QED
    BY <1>1, <1>3, <2>1, <2>2, <2>4, <2>5 DEF Synced
<1>4. ChannelInv
  <2>1. sentMsgs \in Seq(Message) /\ received \in Seq(Seq(Byte)) /\ Len(received) <= Len(sentMsgs)
    BY <1>1, <1>2
  <2> QED
    BY <1>1, <1>3, <2>1, ReaderInit DEF ChannelInv
<1>5. Queue = << >>
  BY <1>1 DEF Queue
<1>6. Up \in BOOLEAN
  BY <1>1 DEF Up, Regular
<1> QED
  BY <1>1, <1>4, <1>5, <1>6 DEF ChannelOf!Init, Queue

(* Each step puts a message in the channel, delivers one, or neither, as    *)
(* long as the line does not fail.                                          *)
LEMMA StepOfChannel ==
  ASSUME ChannelInv, [Next]_vars
  PROVE  /\ ChannelInv'
         /\ [ChannelOf!Next]_<<Up, IF Up THEN Queue ELSE << >>, received>>
<1>1. CASE processSocCmd
  <2>1. /\ ChannelInv' /\ Up' = Up /\ UNCHANGED sentMsgs
        /\ UNCHANGED received \/ Receives
        /\ Up => UNCHANGED received \/ Delivers
    BY <1>1, ReaderDelivers
  <2>2. CASE Up /\ Delivers
    <3>1. PICK r \in Nat : r = Len(received)
      BY DEF ChannelInv
    <3>2. Len(received') = r + 1
      <4>1. \A x : Len(Append(received, x)) = Len(received) + 1
        BY DEF ChannelInv
      <4> QED
        BY <2>2, <3>1, <4>1 DEF Delivers
    <3>3. /\ Queue # << >> /\ Head(Queue) = sentMsgs[r + 1]
          /\ Tail(Queue) = SubSeq(sentMsgs, r + 1 + 1, Len(sentMsgs))
      BY <2>2, <3>1, QueueShrinks DEF ChannelInv, Delivers, Queue
    <3>4. Queue' = Tail(Queue)
      BY <2>1, <3>2, <3>3 DEF Queue
    <3>5. received' = Append(received, Head(Queue))
      BY <2>2, <3>1, <3>3 DEF Delivers
    <3>6. ChannelOf!Deliver
      BY <2>1, <2>2, <3>3, <3>4, <3>5 DEF ChannelOf!Deliver, Queue
    <3> QED
      BY <2>1, <3>6 DEF ChannelOf!Next
  <2>3. CASE UNCHANGED received
    <3>1. Queue' = Queue
      BY <2>1, <2>3 DEF Queue
    <3> QED
      BY <2>1, <2>3, <3>1
  <2>4. CASE ~ Up /\ Receives
    <3>1. ChannelOf!Stray
      BY <2>1, <2>4 DEF ChannelOf!Stray, Receives
    <3> QED
      BY <2>1, <3>1 DEF ChannelOf!Next
  <2> QED
    BY <2>1, <2>2, <2>3, <2>4
<1>2. ASSUME ChannelInv', UNCHANGED received, Up' => Up, ~ Up'
      PROVE  [ChannelOf!Next]_<<Up, IF Up THEN Queue ELSE << >>, received>>
  <2>1. CASE Up
    <3>1. Up' = FALSE
      BY <1>2 DEF Up
    <3>2. ChannelOf!Fail
      BY <1>2, <2>1, <3>1 DEF ChannelOf!Fail
    <3> QED
      BY <3>2 DEF ChannelOf!Next
  <2>2. CASE ~ Up
    <3>1. Up' = Up
      BY <1>2, <2>2 DEF Up
    <3> QED
      BY <1>2, <2>2, <3>1
  <2> QED
    BY <2>1, <2>2
<1>3. CASE Arrive \/ HangUp
  <2>1. ChannelInv' /\ UNCHANGED <<sentMsgs, received>> /\ (Up' => Up)
    BY <1>3, LineDelivers
  <2>2. CASE Up'
    <3>1. Queue' = Queue
      BY <2>1 DEF Queue
    <3>2. Up' = Up
      BY <2>1, <2>2 DEF Up
    <3> QED
      BY <2>1, <3>1, <3>2
  <2> QED
    BY <1>2, <2>1, <2>2
<1>4. ASSUME NEW m \in Message, Send(m)
      PROVE  /\ ChannelInv'
             /\ [ChannelOf!Next]_<<Up, IF Up THEN Queue ELSE << >>, received>>
  <2>1. /\ ChannelInv' /\ UNCHANGED received /\ (Up' => Up)
        /\ sentMsgs' = Append(sentMsgs, m)
    BY <1>4, SendDelivers
  <2>2. CASE Up'
    <3>1. Len(received) \in Nat /\ Len(received) <= Len(sentMsgs) /\ sentMsgs \in Seq(Message)
      BY <2>1, <2>2 DEF ChannelInv, Up
    <3>2. Queue' = Append(Queue, m)
      BY <2>1, <3>1, QueueGrows DEF Queue
    <3>3. Up' = Up
      BY <2>1, <2>2 DEF Up
    <3>4. ChannelOf!Put(m)
      BY <2>1, <2>2, <3>2, <3>3 DEF ChannelOf!Put, Queue
    <3> QED
      BY <2>1, <3>4 DEF ChannelOf!Next
  <2> QED
    BY <1>2, <2>1, <2>2
<1>5. CASE UNCHANGED vars
  <2>1. UNCHANGED <<pc, rspLen, rspBuf, retryAttempts, line, hungUp, wire, headersWhole,
                    pauses, sentMsgs, received>>
    BY <1>5 DEF vars, readerVars, lineVars
  <2>2. ReaderInv'
    BY <2>1 DEF ChannelInv, ReaderInv, LineInv, LengthKept
  <2>3. Synced => Synced'
    <3>1. ASSUME Synced PROVE Synced'
      <4>1. PICK num, pos : Tagged(num, pos) /\ NextRead(num[1], pos[1])
        BY <3>1 DEF Synced
      <4>2. /\ WireInv' /\ Codes' = Codes /\ Come' = Come /\ NextByte' = NextByte
            /\ Regular'
        BY <2>1, <2>2, <3>1, WireLeft DEF Synced, lineVars
      <4>3. Tagged(num, pos)'
        BY <2>1, <4>1, <4>2 DEF Tagged
      <4>4. BodyRead => BodyRead'
        BY <2>1, <4>2 DEF BodyRead
      <4>5. NextRead(num[1], pos[1])'
        BY <2>1, <4>1, <4>4 DEF NextRead, NextInBody
      <4>6. RetriesLeft'
        BY <2>1, <3>1, <4>2 DEF Synced, RetriesLeft
      <4> QED
        BY <2>1, <3>1, <4>2, <4>3, <4>5, <4>6 DEF Synced
    <3> QED
      BY <3>1
  <2>4. Regular' = Regular /\ Up' = Up
    BY <2>1 DEF Regular, Fitting, Up
  <2>5. ChannelInv'
    BY <2>1, <2>2, <2>3, <2>4 DEF ChannelInv
  <2>6. Queue' = Queue
    BY <2>1 DEF Queue
  <2> QED
    BY <2>1, <2>4, <2>5, <2>6
<1> QED
  BY <1>1, <1>3, <1>4, <1>5 DEF Next

(* As long as the line is regular (no pause follows a start byte, there are *)
(* no more pauses within messages than processSocCmd has retries, which it  *)
(* counts over its whole life and never gives back, and the messages hold   *)
(* their cmd1 and fit rspBuf) processSocCmd writes nothing behind rspBuf,   *)
(* although it compares no length with the size of it, whatever pieces the  *)
(* line brings and whether it hangs up.                                     *)
THEOREM ReaderKeepsToBuffer == Spec => []BufferHolds
<1>1. ChannelInv /\ [Next]_vars => ChannelInv'
  BY StepOfChannel
<1>2. ChannelInv => BufferHolds
  BY DEF ChannelInv, BufferHolds, Synced
<1> QED
  BY <1>1, <1>2, ChannelStart, PTL DEF Spec

(* As long as the line is regular and has not hung up, each message the     *)
(* coordinator sends reaches the switch once, whole and in order, whatever  *)
(* its length and in whatever pieces it arrives; and what was received      *)
(* before the line failed stays as it is, whatever processSocCmd takes for  *)
(* a message after.                                                         *)
THEOREM ReaderRefinement == Spec => ReaderIsChannel
<1>1. Init => ChannelInv /\ ChannelOf!Init
  BY ChannelStart
<1>2. ChannelInv /\ [Next]_vars =>
        /\ ChannelInv'
        /\ [ChannelOf!Next]_<<Up, IF Up THEN Queue ELSE << >>, received>>
  BY StepOfChannel
<1> QED
  BY <1>1, <1>2, PTL DEF Spec, ReaderIsChannel, ChannelOf!Spec, Queue
=============================================================================
