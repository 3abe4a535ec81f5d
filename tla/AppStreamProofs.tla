--------------------------- MODULE AppStreamProofs ---------------------------
(***************************************************************************)
(* Theorems about AppStream, for any commands that are as long as what     *)
(* their handlers read, any number of them, any contents of the stack, any *)
(* buffer that holds the longest command, and bytes that come in whatever  *)
(* pieces.                                                                 *)
(*                                                                         *)
(* The text is made up of the commands written, one behind the other, so   *)
(* each place of it is within one of them, and no step ever changes what   *)
(* it holds at a place: what was once true of where a buffer began stays   *)
(* true.                                                                   *)
(***************************************************************************)
EXTENDS AppStream, TableLemmas, TLAPS

Byte == 0 .. 255

Write == [cmd : Command, last : Nat]

Receipt == [cmd : Seq(Byte), first : Nat, len : Nat]

(* How much has been written with the n-th command.                         *)
Last(n) == IF n = 0 THEN 0 ELSE written[n].last

TypeInv ==
  /\ text \in Seq(Byte) /\ written \in Seq(Write) /\ handled \in Seq(Receipt)
  /\ come \in Nat /\ arrived \in Nat /\ taken \in Nat /\ looked \in Nat
  /\ taken <= come /\ come <= Len(text)
  /\ looked <= arrived /\ arrived <= Len(written)

(* The text is made up of the commands.                                     *)
TextInv ==
  /\ Last(Len(written)) = Len(text)
  /\ \A n \in 1 .. Len(written) :
       /\ written[n].last = Last(n - 1) + Len(written[n].cmd)
       /\ written[n].last <= Len(text)
       /\ \A j \in 1 .. Len(written[n].cmd) : text[Last(n - 1) + j] = written[n].cmd[j]
  /\ \A m, n \in 0 .. Len(written) : m < n => Last(m) < Last(n)
  /\ \A p \in 1 .. Len(text) :
       \E n \in 1 .. Len(written) : Last(n - 1) < p /\ p <= written[n].last

StreamInv == TypeInv /\ TextInv

LEMMA CommandFacts ==
  ASSUME NEW c \in Command
  PROVE  /\ c \in Seq(Byte) /\ Len(c) \in Nat /\ Len(c) >= 2 /\ Len(c) <= 9
         /\ Len(c) >= BytesUsed(c[2])
         /\ c[1] = APP_CMD_SOF
<1>1. /\ c \in Seq(0 .. 255) /\ Len(c) \in 2 .. 9
      /\ Len(c) >= BytesUsed(c[2]) /\ c[1] = APP_CMD_SOF
  BY CommandAssumption, Zenon
<1>2. Len(c) \in Nat /\ Len(c) >= 2 /\ Len(c) <= 9
  <2>1. PICK d \in 2 .. 9 : d = Len(c)
    BY <1>1, Zenon
  <2>2. d \in Nat /\ d >= 2 /\ d <= 9
    OBVIOUS
  <2> QED
    BY <2>1, <2>2
<1>3. c \in Seq(Byte)
  BY <1>1 DEF Byte
<1> QED
  BY <1>1, <1>2, <1>3

LEMMA BytesUsedBounds ==
  ASSUME NEW cmd
  PROVE  BytesUsed(cmd) \in Nat /\ BytesUsed(cmd) >= 2 /\ BytesUsed(cmd) <= 9
<1>1. BytesUsed(cmd) \in {2, 5, 6, 7, 9}
  BY Zenon DEF BytesUsed
<1> QED
  BY <1>1

(* The n-th command.                                                        *)
LEMMA WrittenFacts ==
  ASSUME StreamInv, NEW n \in 1 .. Len(written)
  PROVE  /\ written[n].cmd \in Command
         /\ written[n].last \in Nat /\ Last(n) = written[n].last
         /\ Last(n - 1) \in Nat /\ First(written[n]) = Last(n - 1) + 1
         /\ written[n].last = Last(n - 1) + Len(written[n].cmd)
         /\ written[n].last <= Len(text)
         /\ \A j \in 1 .. Len(written[n].cmd) : text[Last(n - 1) + j] = written[n].cmd[j]
<1>1. written \in Seq(Write) /\ Len(written) \in Nat
  BY DEF StreamInv, TypeInv
<1>2. written[n] \in Write
  BY <1>1, ElementOfSeq
<1>3. written[n].cmd \in Command /\ written[n].last \in Nat
  BY <1>2 DEF Write
<1>4. Last(n) = written[n].last
  BY DEF Last
<1>5. Last(n - 1) \in Nat
  <2>1. CASE n = 1
    BY <2>1 DEF Last
  <2>2. CASE n > 1
    <3>1. n - 1 \in 1 .. Len(written)
      BY <1>1, <2>2
    <3>2. written[n - 1] \in Write
      BY <1>1, <3>1, ElementOfSeq
    <3> QED
      BY <3>1, <3>2 DEF Last, Write
  <2> QED
    BY <2>1, <2>2
<1>6. /\ written[n].last = Last(n - 1) + Len(written[n].cmd)
      /\ written[n].last <= Len(text)
      /\ \A j \in 1 .. Len(written[n].cmd) : text[Last(n - 1) + j] = written[n].cmd[j]
  BY DEF StreamInv, TextInv
<1>7. Len(written[n].cmd) \in Nat
  BY <1>3, CommandFacts
<1>8. First(written[n]) = Last(n - 1) + 1
  BY <1>3, <1>5, <1>6, <1>7 DEF First
<1> QED
  BY <1>3, <1>4, <1>5, <1>6, <1>8

-----------------------------------------------------------------------------
LEMMA StreamStart == StreamInit => StreamInv
<1> SUFFICES ASSUME StreamInit PROVE StreamInv
  OBVIOUS
<1>1. /\ text = << >> /\ written = << >> /\ handled = << >>
      /\ come = 0 /\ arrived = 0 /\ taken = 0 /\ looked = 0
  BY DEF StreamInit
<1>2. Len(text) = 0 /\ Len(written) = 0
  BY <1>1
<1>3. TypeInv
  BY <1>1, <1>2 DEF TypeInv
<1>4. TextInv
  BY <1>2 DEF TextInv, Last
<1> QED
  BY <1>3, <1>4 DEF StreamInv

(* A command written goes behind the text, and changes nothing before it.   *)
LEMMA WriteStep ==
  ASSUME StreamInv, NEW c \in Command, AppWrites(c)
  PROVE  /\ StreamInv'
         /\ Len(written') = Len(written) + 1
         /\ \A n \in 1 .. Len(written) : written'[n] = written[n]
<1>1. /\ text' = text \o c
      /\ written' = Append(written, [cmd |-> c, last |-> Len(text) + Len(c)])
      /\ UNCHANGED <<come, arrived, taken, looked, handled>>
  BY DEF AppWrites
<1>2. PICK t, w, d \in Nat : t = Len(text) /\ w = Len(written) /\ d = Len(c) /\ d >= 2
  BY CommandFacts DEF StreamInv, TypeInv
<1>3. /\ text \in Seq(Byte) /\ written \in Seq(Write) /\ c \in Seq(Byte)
  BY CommandFacts DEF StreamInv, TypeInv
<1>4. /\ text' \in Seq(Byte) /\ Len(text') = t + d
      /\ \A j \in 1 .. t : text'[j] = text[j]
      /\ \A j \in 1 .. d : text'[t + j] = c[j]
  <2>1. /\ text \o c \in Seq(Byte) /\ Len(text \o c) = t + d
        /\ \A j \in 1 .. t + d : (text \o c)[j] = IF j <= t THEN text[j] ELSE c[j - t]
    BY <1>2, <1>3, ConcatProperties
  <2>2. /\ \A j \in 1 .. t : j \in 1 .. t + d /\ j <= t
        /\ \A j \in 1 .. d : t + j \in 1 .. t + d /\ ~ (t + j <= t) /\ t + j - t = j
    BY <1>2
  <2> QED
    BY <1>1, <2>1, <2>2
<1>5. PICK r \in Write : r = [cmd |-> c, last |-> t + d]
  <2>1. t + d \in Nat
    BY <1>2
  <2>2. [cmd |-> c, last |-> t + d] \in Write
    BY <2>1 DEF Write
  <2> QED
    BY <2>2
<1>6. /\ written' \in Seq(Write) /\ Len(written') = w + 1
      /\ written'[w + 1] = r /\ \A n \in 1 .. w : written'[n] = written[n]
  BY <1>1, <1>2, <1>3, <1>5, AppendProperties
<1>7. Last(w)' = t /\ Last(w + 1)' = t + d /\ \A n \in 0 .. w : Last(n)' = Last(n)
  <2>1. \A n \in 0 .. w : n # 0 => n \in 1 .. w
    OBVIOUS
  <2>2. \A n \in 0 .. w : Last(n)' = Last(n)
    BY <1>6, <2>1 DEF Last
  <2>3. w \in 0 .. w /\ w + 1 # 0
    BY <1>2
  <2>4. Last(w) = t
    BY <1>2 DEF StreamInv, TextInv
  <2>5. Last(w + 1)' = t + d
    BY <1>5, <1>6, <2>3 DEF Last
  <2> QED
    BY <2>2, <2>3, <2>4, <2>5
<1>8. TypeInv'
  BY <1>1, <1>2, <1>4, <1>6 DEF StreamInv, TypeInv
<1>9. ASSUME NEW n \in 1 .. w + 1
      PROVE  /\ written'[n].last = Last(n - 1)' + Len(written'[n].cmd)
             /\ written'[n].last <= Len(text')
             /\ \A j \in 1 .. Len(written'[n].cmd) : text'[Last(n - 1)' + j] = written'[n].cmd[j]
  <2>1. CASE n \in 1 .. w
    <3>1. n - 1 \in 0 .. w
      BY <2>1
    <3>2. /\ written[n].cmd \in Command /\ Last(n - 1) \in Nat
          /\ written[n].last = Last(n - 1) + Len(written[n].cmd)
          /\ written[n].last <= t
          /\ \A j \in 1 .. Len(written[n].cmd) : text[Last(n - 1) + j] = written[n].cmd[j]
      BY <1>2, <2>1, WrittenFacts
    <3>3. Len(written[n].cmd) \in Nat
      BY <3>2, CommandFacts
    <3>4. \A j \in 1 .. Len(written[n].cmd) : Last(n - 1) + j \in 1 .. t
      BY <1>2, <3>2, <3>3
    <3>5. written'[n] = written[n] /\ Last(n - 1)' = Last(n - 1)
      BY <1>6, <1>7, <2>1, <3>1
    <3>6. written[n].last <= Len(text')
      BY <1>2, <1>4, <3>2, <3>3
    <3> QED
      BY <1>4, <3>2, <3>4, <3>5, <3>6
  <2>2. CASE n = w + 1
    <3>1. n - 1 = w /\ written'[n] = r /\ r.cmd = c /\ r.last = t + d
      BY <1>2, <1>5, <1>6, <2>2
    <3>2. Last(n - 1)' = t
      BY <1>7, <3>1
    <3>3. /\ written'[n].last = t + d /\ written'[n].cmd = c
          /\ Len(written'[n].cmd) = d /\ Len(text') = t + d
      BY <1>2, <1>4, <3>1
    <3>4. \A j \in 1 .. Len(written'[n].cmd) : text'[Last(n - 1)' + j] = written'[n].cmd[j]
      BY <1>4, <3>2, <3>3
    <3> QED
      BY <1>2, <3>2, <3>3, <3>4
  <2> QED
    BY <1>2, <2>1, <2>2
<1>10. \A n \in 0 .. w : Last(n) \in Nat /\ Last(n) <= t
  <2>1. Last(0) = 0
    BY DEF Last
  <2>2. \A n \in 1 .. w : Last(n) \in Nat /\ Last(n) <= t
    BY <1>2, WrittenFacts
  <2> QED
    BY <1>2, <2>1, <2>2
<1>11. \A m, n \in 0 .. w + 1 : m < n => Last(m)' < Last(n)'
  <2> SUFFICES ASSUME NEW m \in 0 .. w + 1, NEW n \in 0 .. w + 1, m < n
               PROVE  Last(m)' < Last(n)'
    OBVIOUS
  <2>1. m \in 0 .. w /\ Last(m)' = Last(m)
    BY <1>2, <1>7
  <2>2. CASE n \in 0 .. w
    <3>1. Last(m) < Last(n)
      BY <1>2, <2>1, <2>2 DEF StreamInv, TextInv
    <3> QED
      BY <1>7, <2>1, <2>2, <3>1
  <2>3. CASE n = w + 1
    <3>1. Last(n)' = t + d
      BY <1>7, <2>3
    <3> QED
      BY <1>2, <1>10, <2>1, <3>1
  <2> QED
    BY <1>2, <2>2, <2>3
<1>12. ASSUME NEW p \in 1 .. t + d
       PROVE  \E n \in 1 .. w + 1 : Last(n - 1)' < p /\ p <= written'[n].last
  <2>1. CASE p \in 1 .. t
    <3>1. PICK n \in 1 .. w : Last(n - 1) < p /\ p <= written[n].last
      BY <1>2, <2>1 DEF StreamInv, TextInv
    <3>2. n - 1 \in 0 .. w /\ n \in 1 .. w + 1
      BY <1>2
    <3> QED
      BY <1>6, <1>7, <3>1, <3>2
  <2>2. CASE p \in t + 1 .. t + d
    <3>1. w + 1 \in 1 .. w + 1 /\ w + 1 - 1 = w
      BY <1>2
    <3>2. Last(w + 1 - 1)' = t /\ written'[w + 1].last = t + d
      BY <1>5, <1>6, <1>7, <3>1
    <3> QED
      BY <1>2, <2>2, <3>1, <3>2
  <2> QED
    BY <1>2, <2>1, <2>2
<1>13. TextInv'
  BY <1>4, <1>6, <1>7, <1>9, <1>11, <1>12 DEF TextInv
<1> QED
  BY <1>2, <1>6, <1>8, <1>13 DEF StreamInv

LEMMA ArriveStep ==
  ASSUME StreamInv, Arrive
  PROVE  StreamInv'
<1>1. /\ arrived < Len(written)
      /\ UNCHANGED <<text, taken, looked, written, handled>>
  BY DEF Arrive
<1>2. PICK l : l = written[arrived + 1].last
  OBVIOUS
<1>3. PICK c \in come + 1 .. l :
         come' = c /\ arrived' = IF c = l THEN arrived + 1 ELSE arrived
  BY <1>2 DEF Arrive
<1>4. arrived + 1 \in 1 .. Len(written) /\ come \in Nat /\ arrived \in Nat
  BY <1>1 DEF StreamInv, TypeInv
<1>5. l \in Nat /\ l <= Len(text)
  BY <1>2, <1>4, WrittenFacts
<1>6. TypeInv'
  <2>1. come' \in Nat /\ taken' <= come' /\ come' <= Len(text')
    BY <1>1, <1>3, <1>4, <1>5 DEF StreamInv, TypeInv
  <2>2. arrived' \in Nat /\ looked' <= arrived' /\ arrived' <= Len(written')
    BY <1>1, <1>3, <1>4 DEF StreamInv, TypeInv
  <2> QED
    BY <1>1, <2>1, <2>2 DEF StreamInv, TypeInv
<1>7. TextInv'
  BY <1>1 DEF StreamInv, TextInv, Last
<1> QED
  BY <1>6, <1>7 DEF StreamInv

(* The buffer of processTcpCmd begins with the bytes that recv() brings.    *)
Buffer(old) == SubSeq(text, taken + 1, taken + BytesReceived)
                 \o SubSeq(old, BytesReceived + 1, BufLen)

LEMMA BufferSpec ==
  ASSUME StreamInv, taken < come, NEW old \in Stack
  PROVE  /\ BytesReceived \in 1 .. BufLen /\ BytesReceived \in Nat
         /\ taken + BytesReceived <= come
         /\ Buffer(old) \in Seq(Byte) /\ Len(Buffer(old)) = BufLen
         /\ \A j \in 1 .. BytesReceived : Buffer(old)[j] = text[taken + j]
<1>1. /\ text \in Seq(Byte) /\ Len(text) \in Nat /\ come \in Nat /\ taken \in Nat
      /\ taken < come /\ come <= Len(text) /\ BufLen \in Nat /\ BufLen >= 9
  BY BufLenAssumption DEF StreamInv, TypeInv
<1>2. PICK r \in Nat : r = BytesReceived /\ r \in 1 .. BufLen /\ taken + r <= come
  <2>1. CASE come - taken < BufLen
    <3>1. BytesReceived = come - taken
      BY <2>1 DEF BytesReceived
    <3> QED
      BY <1>1, <2>1, <3>1
  <2>2. CASE ~ (come - taken < BufLen)
    <3>1. BytesReceived = BufLen
      BY <2>2 DEF BytesReceived
    <3> QED
      BY <1>1, <2>2, <3>1
  <2> QED
    BY <2>1, <2>2
<1>3. old \in Seq(Byte) /\ Len(old) = BufLen
  BY StackAssumption DEF Byte
<1>4. PICK a : a = SubSeq(text, taken + 1, taken + r)
  OBVIOUS
<1>5. PICK b : b = SubSeq(old, r + 1, BufLen)
  OBVIOUS
<1>6. /\ a \in Seq(Byte) /\ Len(a) = r
      /\ \A j \in 1 .. r : a[j] = text[taken + j]
  <2>1. PICK m, n \in Int : m = taken + 1 /\ n = taken + r
    BY <1>1, <1>2
  <2>2. \A j \in m .. n : j \in 1 .. Len(text)
    BY <1>1, <1>2, <2>1
  <2>3. \A j \in m .. n : text[j] \in Byte
    BY <1>1, <2>2, ElementOfSeq
  <2>4. m <= n /\ n - m + 1 = r /\ \A j \in 1 .. r : m + j - 1 = taken + j
    BY <1>1, <1>2, <2>1
  <2>5. /\ SubSeq(text, m, n) \in Seq(Byte) /\ Len(SubSeq(text, m, n)) = n - m + 1
        /\ \A j \in 1 .. n - m + 1 : SubSeq(text, m, n)[j] = text[m + j - 1]
    <3> HIDE DEF Byte
    <3> QED
      BY <2>3, <2>4, SubSeqProperties
  <2> QED
    BY <1>4, <2>1, <2>4, <2>5
<1>7. b \in Seq(Byte) /\ Len(b) = BufLen - r
  BY <1>1, <1>2, <1>3, <1>5
<1>8. /\ a \o b \in Seq(Byte) /\ Len(a \o b) = r + (BufLen - r)
      /\ \A j \in 1 .. r : (a \o b)[j] = a[j]
  BY <1>2, <1>6, <1>7
<1>9. Buffer(old) = a \o b
  BY <1>2, <1>4, <1>5 DEF Buffer
<1> QED
  BY <1>1, <1>2, <1>6, <1>8, <1>9

(* processTcpCmd when bytes have come: the handler takes as many bytes of   *)
(* the buffer as the command has that it takes it for.                      *)
Receives(old) ==
  /\ taken < come /\ taken' = taken + BytesReceived /\ looked' = arrived
  /\ UNCHANGED <<style, text, come, arrived, written>>
  /\ \/ UNCHANGED handled /\ Buffer(old)[1] # APP_CMD_SOF
     \/ /\ Buffer(old)[1] = APP_CMD_SOF
        /\ handled' = Append(handled, Handled(Buffer(old), BytesReceived))

LEMMA ProcessStep ==
  ASSUME processTcpCmd
  PROVE  \/ \E old \in Stack : Receives(old)
         \/ UNCHANGED <<style, text, come, arrived, taken, looked, written, handled>>
<1>1. CASE taken < come
  <2>1. CASE /\ taken' = taken + BytesReceived /\ looked' = arrived
             /\ \E old \in Stack : app_cmdHandler(Buffer(old), BytesReceived)
    <3>1. PICK old \in Stack : app_cmdHandler(Buffer(old), BytesReceived)
      BY <2>1
    <3>2. UNCHANGED <<style, text, come, arrived, written>>
      BY DEF processTcpCmd
    <3>3. \/ UNCHANGED handled /\ Buffer(old)[1] # APP_CMD_SOF
          \/ /\ Buffer(old)[1] = APP_CMD_SOF
             /\ handled' = Append(handled, Handled(Buffer(old), BytesReceived))
      BY <3>1 DEF app_cmdHandler, Filtered
    <3> QED
      BY <1>1, <2>1, <3>2, <3>3 DEF Receives
  <2>2. CASE UNCHANGED <<taken, looked, handled>>
    BY <2>2 DEF processTcpCmd
  <2> QED
    BY <2>1, <2>2 DEF processTcpCmd, Buffer
<1>2. CASE ~ (taken < come)
  BY <1>2 DEF processTcpCmd
<1> QED
  BY <1>1, <1>2

(* What is handled has the bytes of the buffer.                             *)
LEMMA HandledSpec ==
  ASSUME StreamInv, taken < come, NEW old \in Stack
  PROVE  LET h == Handled(Buffer(old), BytesReceived)
         IN  /\ h \in Receipt /\ h.first = taken + 1 /\ h.len = BytesReceived
             /\ Len(h.cmd) = BytesUsed(Buffer(old)[2])
             /\ \A j \in 1 .. Len(h.cmd) : h.cmd[j] = Buffer(old)[j]
<1>1. PICK b, u : b = Buffer(old) /\ u = BytesUsed(b[2])
  OBVIOUS
<1>2. b \in Seq(Byte) /\ Len(b) = BufLen /\ BufLen \in Nat /\ BufLen >= 9
  BY <1>1, BufferSpec, BufLenAssumption
<1>3. u \in Nat /\ u >= 2 /\ u <= 9
  BY <1>1, BytesUsedBounds
<1>4. /\ SubSeq(b, 1, u) \in Seq(Byte) /\ Len(SubSeq(b, 1, u)) = u
      /\ \A j \in 1 .. u : SubSeq(b, 1, u)[j] = b[j]
  BY <1>2, <1>3
<1>5. BytesReceived \in Nat /\ taken + 1 \in Nat
  BY BufferSpec DEF StreamInv, TypeInv
<1>6. Handled(b, BytesReceived)
        = [cmd |-> SubSeq(b, 1, u), first |-> taken + 1, len |-> BytesReceived]
  BY <1>1 DEF Handled
<1> QED
  BY <1>1, <1>4, <1>5, <1>6 DEF Receipt

LEMMA ReceiveStep ==
  ASSUME StreamInv, NEW old \in Stack, Receives(old)
  PROVE  StreamInv'
<1>1. /\ taken < come /\ taken' = taken + BytesReceived /\ looked' = arrived
      /\ UNCHANGED <<text, come, arrived, written>>
  BY DEF Receives
<1>2. taken' \in Nat /\ taken' <= come'
  BY <1>1, BufferSpec DEF StreamInv, TypeInv
<1>3. handled' \in Seq(Receipt)
  <2>1. PICK h \in Receipt : h = Handled(Buffer(old), BytesReceived)
    BY <1>1, HandledSpec
  <2>2. handled \in Seq(Receipt)
    BY DEF StreamInv, TypeInv
  <2>3. Append(handled, h) \in Seq(Receipt)
    BY <2>2, AppendProperties
  <2> QED
    BY <2>1, <2>2, <2>3 DEF Receives
<1>4. TypeInv'
  BY <1>1, <1>2, <1>3 DEF StreamInv, TypeInv
<1>5. TextInv'
  BY <1>1 DEF StreamInv, TextInv, Last
<1> QED
  BY <1>4, <1>5 DEF StreamInv

LEMMA QuietStep ==
  ASSUME StreamInv, UNCHANGED <<text, come, arrived, taken, looked, written, handled>>
  PROVE  StreamInv'
BY DEF StreamInv, TypeInv, TextInv, Last

-----------------------------------------------------------------------------
(* Where the commands handled come from.                                    *)
Source(h, w) == BeginsWith(h, w) \/ BeginsWithin(h, w)

SourceInv ==
  /\ StreamInv
  /\ \A k \in 1 .. Len(handled) : \E n \in 1 .. Len(written) : Source(handled[k], written[n])
  /\ \A k \in 1 .. Len(handled) : handled[k].first + handled[k].len <= taken + 1
  /\ \A j, k \in 1 .. Len(handled) :
       j < k => handled[j].first + handled[j].len <= handled[k].first

(* The place at which a buffer begins is within a command, and the filter   *)
(* lets it pass only at a start byte.                                       *)
LEMMA HandledHasSource ==
  ASSUME StreamInv, NEW old \in Stack, taken < come, Buffer(old)[1] = APP_CMD_SOF
  PROVE  \E n \in 1 .. Len(written) : Source(Handled(Buffer(old), BytesReceived), written[n])
<1>1. PICK h \in Receipt : h = Handled(Buffer(old), BytesReceived)
  BY HandledSpec
<1>2. /\ h.first = taken + 1 /\ h.len = BytesReceived
      /\ Len(h.cmd) = BytesUsed(Buffer(old)[2])
      /\ \A j \in 1 .. Len(h.cmd) : h.cmd[j] = Buffer(old)[j]
  BY <1>1, HandledSpec
<1>3. PICK r \in Nat : r = BytesReceived /\ r >= 1
  BY BufferSpec, BufLenAssumption
<1>4. \A j \in 1 .. r : Buffer(old)[j] = text[taken + j]
  BY <1>3, BufferSpec
<1>5. taken \in Nat /\ come \in Nat /\ taken + 1 \in 1 .. Len(text) /\ Len(text) \in Nat
  BY DEF StreamInv, TypeInv
<1>6. PICK n \in 1 .. Len(written) : Last(n - 1) < taken + 1 /\ taken + 1 <= written[n].last
  BY <1>5 DEF StreamInv, TextInv
<1>7. PICK c \in Command : c = written[n].cmd
  BY WrittenFacts
<1>8. PICK b \in Nat : b = Last(n - 1) /\ First(written[n]) = b + 1 /\ written[n].last = b + Len(c)
  BY <1>7, WrittenFacts
<1>9. \A j \in 1 .. Len(c) : text[b + j] = c[j]
  BY <1>7, <1>8, WrittenFacts
<1>10. /\ Len(c) \in Nat /\ Len(c) >= 2 /\ BytesUsed(c[2]) <= Len(c)
       /\ BytesUsed(c[2]) \in Nat
  BY CommandFacts, BytesUsedBounds
<1>11. CASE taken = b
  <2>1. ASSUME NEW k \in 1 .. Len(h.cmd), k <= r
        PROVE  h.cmd[k] = c[k]
    <3>1. h.cmd[k] = text[b + k]
      BY <1>2, <1>3, <1>4, <1>11, <2>1
    <3>2. k \in 1 .. Len(c)
      <4>1. CASE r = 1
        BY <1>10, <2>1, <4>1
      <4>2. CASE r >= 2
        <5>1. 2 \in 1 .. r /\ 2 \in 1 .. Len(c)
          BY <1>3, <1>10, <4>2
        <5>2. Buffer(old)[2] = c[2]
          BY <1>4, <1>9, <1>11, <5>1
        <5> QED
          BY <1>2, <1>10, <2>1, <5>2
      <4> QED
        BY <1>3, <4>1, <4>2
    <3> QED
      BY <1>9, <3>1, <3>2
  <2>2. BeginsWith(h, written[n])
    BY <1>2, <1>3, <1>7, <1>8, <1>11, <2>1 DEF BeginsWith
  <2> QED
    BY <1>1, <2>2 DEF Source
<1>12. CASE taken > b
  <2>1. taken + 1 \in First(written[n]) + 1 .. written[n].last
    BY <1>5, <1>6, <1>8, <1>10, <1>12
  <2>2. PICK j \in 1 .. Len(c) : j = taken + 1 - b /\ j = taken + 1 - First(written[n]) + 1
    <3>1. taken + 1 - b \in 1 .. Len(c) /\ taken + 1 - b = taken + 1 - First(written[n]) + 1
      BY <1>5, <1>6, <1>8, <1>10, <1>12
    <3> QED
      BY <3>1
  <2>3. text[taken + 1] = APP_CMD_SOF
    BY <1>3, <1>4
  <2>4. c[j] = APP_CMD_SOF
    <3>1. b + j = taken + 1
      BY <1>5, <1>8, <2>2
    <3> QED
      BY <1>9, <2>3, <3>1
  <2>5. BeginsWithin(h, written[n])
    <3>1. h.first \in First(written[n]) + 1 .. written[n].last
      BY <1>2, <2>1
    <3>2. h.first - First(written[n]) + 1 = j
      <4>1. PICK f \in Nat : f = First(written[n]) /\ f = b + 1
        BY <1>8
      <4> QED
        BY <1>2, <1>5, <2>2, <4>1
    <3>3. written[n].cmd[h.first - First(written[n]) + 1] = APP_CMD_SOF
      BY <1>7, <2>4, <3>2
    <3> QED
      BY <3>1, <3>3 DEF BeginsWithin
  <2> QED
    BY <1>1, <2>5 DEF Source
<1>13. taken = b \/ taken > b
  BY <1>5, <1>6, <1>8
<1> QED
  BY <1>11, <1>12, <1>13

LEMMA ReceiveKeepsSource ==
  ASSUME SourceInv, NEW old \in Stack, Receives(old)
  PROVE  SourceInv'
<1>1. StreamInv /\ StreamInv' /\ written' = written /\ taken' = taken + BytesReceived
      /\ taken < come
  BY ReceiveStep DEF SourceInv, Receives
<1>2. BytesReceived \in Nat /\ taken \in Nat
  BY <1>1, BufferSpec DEF StreamInv, TypeInv
<1>3. PICK l \in Nat : l = Len(handled)
  BY <1>1 DEF StreamInv, TypeInv
<1>4. \A k \in 1 .. l : handled[k].first \in Nat /\ handled[k].len \in Nat
                        /\ handled[k].first + handled[k].len <= taken + 1
  <2>1. \A k \in 1 .. l : handled[k] \in Receipt
    BY <1>1, <1>3, ElementOfSeq DEF StreamInv, TypeInv
  <2> QED
    BY <1>3, <2>1 DEF SourceInv, Receipt
<1>5. \A k \in 1 .. l : \E n \in 1 .. Len(written) : Source(handled[k], written[n])
  BY <1>3 DEF SourceInv
<1>6. CASE UNCHANGED handled
  <2>1. \A k \in 1 .. l : handled[k].first + handled[k].len <= taken' + 1
    BY <1>1, <1>2, <1>4
  <2> QED
    BY <1>1, <1>3, <1>5, <1>6, <2>1 DEF SourceInv
<1>7. CASE ~ UNCHANGED handled
  <2>1. PICK h \in Receipt : h = Handled(Buffer(old), BytesReceived)
    BY <1>1, HandledSpec
  <2>2. h.first = taken + 1 /\ h.len = BytesReceived
    BY <1>1, <2>1, HandledSpec
  <2>3. /\ Len(handled') = l + 1 /\ handled'[l + 1] = h
        /\ \A k \in 1 .. l : handled'[k] = handled[k]
    <3>1. handled' = Append(handled, h) /\ handled \in Seq(Receipt)
      BY <1>1, <1>7, <2>1 DEF Receives, StreamInv, TypeInv
    <3> QED
      BY <1>3, <3>1, AppendProperties
  <2>4. \E n \in 1 .. Len(written) : Source(h, written[n])
    BY <1>1, <1>7, <2>1, HandledHasSource DEF Receives
  <2>5. ASSUME NEW k \in 1 .. l + 1
        PROVE  /\ \E n \in 1 .. Len(written) : Source(handled'[k], written[n])
               /\ handled'[k].first + handled'[k].len <= taken' + 1
    <3>1. CASE k \in 1 .. l
      BY <1>1, <1>2, <1>4, <1>5, <2>3, <3>1
    <3>2. CASE k = l + 1
      BY <1>1, <1>2, <2>2, <2>3, <2>4, <3>2
    <3> QED
      BY <1>3, <3>1, <3>2
  <2>6. ASSUME NEW j \in 1 .. l + 1, NEW k \in 1 .. l + 1, j < k
        PROVE  handled'[j].first + handled'[j].len <= handled'[k].first
    <3>1. j \in 1 .. l /\ handled'[j] = handled[j]
      BY <1>3, <2>3, <2>6
    <3>2. CASE k \in 1 .. l
      BY <1>3, <2>3, <2>6, <3>1, <3>2 DEF SourceInv
    <3>3. CASE k = l + 1
      BY <1>4, <2>2, <2>3, <3>1, <3>3
    <3> QED
      BY <1>3, <3>2, <3>3
  <2> QED
    BY <1>1, <2>3, <2>5, <2>6 DEF SourceInv
<1> QED
  BY <1>6, <1>7

LEMMA WriteKeepsSource ==
  ASSUME SourceInv, NEW c \in Command, AppWrites(c)
  PROVE  SourceInv'
<1>1. /\ StreamInv /\ StreamInv'
      /\ Len(written') = Len(written) + 1
      /\ \A n \in 1 .. Len(written) : written'[n] = written[n]
      /\ UNCHANGED <<handled, taken>>
  BY WriteStep DEF SourceInv, AppWrites
<1>2. Len(written) \in Nat
  BY <1>1 DEF StreamInv, TypeInv
<1>3. \A n \in 1 .. Len(written) : n \in 1 .. Len(written')
  BY <1>1, <1>2
<1>4. ASSUME NEW k \in 1 .. Len(handled)
      PROVE  \E n \in 1 .. Len(written') : Source(handled'[k], written'[n])
  <2>1. PICK n \in 1 .. Len(written) : Source(handled[k], written[n])
    BY DEF SourceInv
  <2>2. Source(handled'[k], written'[n])
    BY <1>1, <2>1
  <2> QED
    BY <1>3, <2>2
<1> QED
  BY <1>1, <1>4 DEF SourceInv

LEMMA QuietKeepsSource ==
  ASSUME SourceInv, StreamInv', UNCHANGED <<written, handled, taken>>
  PROVE  SourceInv'
BY DEF SourceInv

LEMMA SourceInvariance == StreamSpec => []SourceInv
<1>1. SourceInv /\ [StreamNext]_streamVars => SourceInv'
  <2> SUFFICES ASSUME SourceInv, [StreamNext]_streamVars PROVE SourceInv'
    OBVIOUS
  <2>0. StreamInv
    BY DEF SourceInv
  <2>1. CASE processTcpCmd
    <3>1. CASE \E old \in Stack : Receives(old)
      BY <3>1, ReceiveKeepsSource
    <3>2. CASE UNCHANGED <<style, text, come, arrived, taken, looked, written, handled>>
      BY <2>0, <3>2, QuietStep, QuietKeepsSource
    <3> QED
      BY <2>1, <3>1, <3>2, ProcessStep
  <2>2. CASE Arrive
    BY <2>0, <2>2, ArriveStep, QuietKeepsSource DEF Arrive
  <2>3. CASE AppCloses
    BY <2>0, <2>3, QuietStep, QuietKeepsSource DEF AppCloses
  <2>4. CASE \E c \in Command : AppWrites(c)
    BY <2>4, WriteKeepsSource
  <2>5. CASE UNCHANGED streamVars
    BY <2>0, <2>5, QuietStep, QuietKeepsSource DEF streamVars
  <2> QED
    BY <2>1, <2>2, <2>3, <2>4, <2>5 DEF StreamNext
<1>2. StreamInit => SourceInv
  <2> SUFFICES ASSUME StreamInit PROVE SourceInv
    OBVIOUS
  <2>1. Len(handled) = 0
    BY DEF StreamInit
  <2> QED
    BY <2>1, StreamStart DEF SourceInv
<1> QED
  BY <1>1, <1>2, PTL DEF StreamSpec

(* Whatever pieces the bytes come in and whatever the operands are: what a  *)
(* handler gets is a command that was written, as far as recv() has brought *)
(* it, unless the buffer begins within a command at a byte that looks like  *)
(* a start byte; and no byte is handled twice, nor out of its order         *)
(* (processTcpCmd and the filter of app_cmdHandler).                        *)
THEOREM TraceOfHandled == StreamSpec => []HandledTracesToWritten
<1>1. SourceInv => HandledTracesToWritten
  BY DEF SourceInv, HandledTracesToWritten, Source
<1> QED
  BY <1>1, SourceInvariance, PTL

-----------------------------------------------------------------------------
(* Where no command is cut, what has come ends with a command, and so does  *)
(* what has been taken.                                                     *)
Whole == /\ come = Last(arrived) /\ taken = Last(looked)
         /\ come - taken <= BufLen

BoxInv == StreamInv /\ (Uncut => Whole)

LEMMA SeenSpec ==
  ASSUME NEW c \in Command
  PROVE  /\ Seen(c) \in Seq(Byte) /\ Len(Seen(c)) = BytesUsed(c[2])
         /\ \A j \in 1 .. BytesUsed(c[2]) : Seen(c)[j] = c[j]
<1>1. PICK u \in Nat : u = BytesUsed(c[2]) /\ u >= 2
  BY BytesUsedBounds
<1>2. c \in Seq(Byte) /\ Len(c) \in Nat /\ u <= Len(c)
  BY <1>1, CommandFacts
<1>3. /\ SubSeq(c, 1, u) \in Seq(Byte) /\ Len(SubSeq(c, 1, u)) = u
      /\ \A j \in 1 .. u : SubSeq(c, 1, u)[j] = c[j]
  BY <1>2
<1> QED
  BY <1>1, <1>3 DEF Seen

(* The command that the handler takes the buffer for is the first in the box. *)
LEMMA FirstIsSeen ==
  ASSUME BoxInv, Uncut, taken < come, NEW old \in Stack
  PROVE  /\ looked < arrived
         /\ Buffer(old)[1] = APP_CMD_SOF
         /\ Handled(Buffer(old), BytesReceived).cmd = Seen(written[looked + 1].cmd)
         /\ taken + BytesReceived = come
<1>1. StreamInv /\ Whole
  BY DEF BoxInv
<1>2. /\ looked \in Nat /\ arrived \in Nat /\ looked <= arrived /\ arrived <= Len(written)
      /\ Len(written) \in Nat /\ taken \in Nat /\ come \in Nat /\ BufLen \in Nat
  BY <1>1, BufLenAssumption DEF StreamInv, TypeInv
<1>3. looked < arrived
  BY <1>1, <1>2 DEF Whole
<1>4. PICK n \in 1 .. Len(written) : n = looked + 1 /\ n - 1 = looked
  BY <1>2, <1>3
<1>5. PICK c \in Command : c = written[n].cmd
  BY <1>1, WrittenFacts
<1>6. Last(n) = taken + Len(c) /\ \A j \in 1 .. Len(c) : text[taken + j] = c[j]
  <2>1. Last(n - 1) = taken
    BY <1>1, <1>4 DEF Whole
  <2> QED
    BY <1>1, <1>5, <2>1, WrittenFacts
<1>7. Last(n) <= come
  <2>1. n \in 0 .. Len(written) /\ arrived \in 0 .. Len(written)
    BY <1>2
  <2>2. n < arrived => Last(n) < Last(arrived)
    BY <1>1, <2>1 DEF StreamInv, TextInv
  <2>3. n = arrived \/ n < arrived
    BY <1>2, <1>3, <1>4
  <2>4. Last(n) \in Nat /\ come = Last(arrived)
    BY <1>1, WrittenFacts DEF Whole
  <2> QED
    BY <1>2, <2>2, <2>3, <2>4
<1>8. BytesReceived = come - taken
  BY <1>1, <1>2 DEF BytesReceived, Whole
<1>9. /\ Len(c) \in Nat /\ Len(c) >= 2 /\ c[1] = APP_CMD_SOF /\ BytesUsed(c[2]) <= Len(c)
  BY CommandFacts
<1>10. \A j \in 1 .. Len(c) : Buffer(old)[j] = c[j]
  <2>1. \A j \in 1 .. Len(c) : j \in 1 .. BytesReceived
    BY <1>2, <1>6, <1>7, <1>8, <1>9
  <2> QED
    BY <1>1, <1>6, <2>1, BufferSpec
<1>11. Buffer(old)[1] = APP_CMD_SOF /\ Buffer(old)[2] = c[2]
  BY <1>9, <1>10
<1>12. PICK u \in Nat : u = BytesUsed(c[2]) /\ u <= Len(c)
  BY <1>9, BytesUsedBounds
<1>13. Handled(Buffer(old), BytesReceived).cmd = Seen(c)
  <2>1. PICK h \in Receipt : h = Handled(Buffer(old), BytesReceived)
    BY <1>1, HandledSpec
  <2>2. Len(h.cmd) = u /\ \A j \in 1 .. u : h.cmd[j] = Buffer(old)[j]
    BY <1>1, <1>11, <1>12, <2>1, HandledSpec
  <2>3. PICK e \in Seq(Byte) : e = h.cmd
    BY DEF Receipt
  <2>4. PICK d \in Seq(Byte) : d = Seen(c) /\ Len(d) = u /\ \A j \in 1 .. u : d[j] = c[j]
    BY <1>12, SeenSpec
  <2>5. \A j \in 1 .. u : j \in 1 .. Len(c)
    BY <1>9, <1>12
  <2>6. \A j \in 1 .. u : e[j] = d[j]
    BY <1>10, <2>2, <2>3, <2>4, <2>5
  <2>7. Len(e) = u
    BY <2>2, <2>3
  <2>8. e = d
    BY <2>4, <2>6, <2>7, SeqEqual
  <2> QED
    BY <2>1, <2>3, <2>4, <2>8
<1> QED
  BY <1>2, <1>3, <1>4, <1>5, <1>8, <1>11, <1>13

LEMMA WriteKeepsBox ==
  ASSUME BoxInv, NEW c \in Command, AppWrites(c)
  PROVE  BoxInv' /\ UNCHANGED style /\ Waiting' = Waiting /\ UNCHANGED handled
<1>1. /\ StreamInv /\ StreamInv'
      /\ \A m \in 1 .. Len(written) : written'[m] = written[m]
  BY WriteStep DEF BoxInv
<1>2. UNCHANGED <<come, arrived, taken, looked, style, handled>>
  BY DEF AppWrites
<1>3. /\ looked \in Nat /\ arrived \in Nat /\ looked <= arrived /\ arrived <= Len(written)
      /\ Len(written) \in Nat
  BY <1>1 DEF StreamInv, TypeInv
<1>4. \A n \in 0 .. arrived : Last(n)' = Last(n)
  <2>1. \A n \in 0 .. arrived : n # 0 => n \in 1 .. Len(written)
    BY <1>3
  <2> QED
    BY <1>1, <2>1 DEF Last
<1>5. \A k \in 1 .. arrived - looked : written'[looked + k] = written[looked + k]
  <2>1. \A k \in 1 .. arrived - looked : looked + k \in 1 .. Len(written)
    BY <1>3
  <2> QED
    BY <1>1, <2>1
<1>6. Waiting' = Waiting
  BY <1>2, <1>5 DEF Waiting
<1>7. Whole => Whole'
  BY <1>2, <1>3, <1>4 DEF Whole
<1> QED
  BY <1>1, <1>2, <1>6, <1>7 DEF BoxInv, Uncut

LEMMA ArriveFillsBox ==
  ASSUME BoxInv, Arrive
  PROVE  /\ BoxInv' /\ UNCHANGED style /\ UNCHANGED handled
         /\ Uncut => \E c \in Command : Waiting' = Append(Waiting, Seen(c))
<1>1. StreamInv /\ StreamInv'
  BY ArriveStep DEF BoxInv
<1>2. UNCHANGED <<style, written, handled, looked, taken>> /\ arrived < Len(written)
  BY DEF Arrive
<1>3. CASE Uncut
  <2>1. /\ come' = written[arrived + 1].last /\ arrived' = arrived + 1
        /\ come' - taken <= BufLen
    BY <1>3 DEF Arrive, Uncut
  <2>2. looked \in Nat /\ arrived \in Nat /\ looked <= arrived /\ Len(written) \in Nat
    BY <1>1 DEF StreamInv, TypeInv
  <2>3. Whole'
    <3>1. Last(arrived + 1) = written[arrived + 1].last
      BY <2>2 DEF Last
    <3>2. \A n : Last(n)' = Last(n)
      BY <1>2 DEF Last
    <3> QED
      BY <1>2, <1>3, <2>1, <3>1, <3>2 DEF BoxInv, Whole
  <2>4. PICK c \in Command : c = written[arrived + 1].cmd
    <3>1. arrived + 1 \in 1 .. Len(written)
      BY <1>2, <2>2
    <3> QED
      BY <1>1, <3>1, WrittenFacts
  <2>5. Waiting' = Append(Waiting, Seen(c))
    <3>1. PICK w \in Nat : w = arrived - looked
      BY <2>2
    <3> DEFINE see(j) == Seen(written[looked + j].cmd)
    <3>2. Waiting' = [j \in 1 .. w + 1 |-> see(j)]
      <4>1. arrived' - looked' = w + 1
        BY <1>2, <2>1, <2>2, <3>1
      <4> QED
        BY <1>2, <4>1 DEF Waiting
    <3>3. see(w + 1) = Seen(c)
      <4>1. looked + (w + 1) = arrived + 1
        BY <2>2, <3>1
      <4> QED
        BY <2>4, <4>1
    <3>4. Waiting = [j \in 1 .. w |-> see(j)]
      BY <3>1 DEF Waiting
    <3>5. Len([j \in 1 .. w |-> see(j)]) = w
      OBVIOUS
    <3>6. Append([j \in 1 .. w |-> see(j)], see(w + 1)) = [j \in 1 .. w + 1 |-> see(j)]
      <4> HIDE DEF see
      <4> QED
        BY <3>5
    <3> QED
      BY <3>2, <3>3, <3>4, <3>6
  <2> QED
    BY <1>1, <1>2, <2>3, <2>5 DEF BoxInv
<1>4. CASE ~ Uncut
  BY <1>1, <1>2, <1>4 DEF BoxInv, Uncut
<1> QED
  BY <1>3, <1>4

LEMMA ReceiveEmptiesBox ==
  ASSUME BoxInv, NEW old \in Stack, Receives(old)
  PROVE  /\ BoxInv' /\ UNCHANGED style
         /\ Uncut => /\ Waiting # << >> /\ Waiting' = << >>
                     /\ Taken' = Append(Taken, Head(Waiting))
<1>1. StreamInv /\ StreamInv'
  BY ReceiveStep DEF BoxInv
<1>2. /\ UNCHANGED <<style, come, arrived, written>> /\ taken < come /\ looked' = arrived
      /\ taken' = taken + BytesReceived
  BY DEF Receives
<1>3. looked \in Nat /\ arrived \in Nat /\ come \in Nat
  BY <1>1 DEF StreamInv, TypeInv
<1>4. ASSUME Uncut
      PROVE  /\ Waiting # << >> /\ Waiting' = << >>
             /\ Taken' = Append(Taken, Head(Waiting))
             /\ Whole'
  <2>1. /\ looked < arrived /\ taken' = come
        /\ Buffer(old)[1] = APP_CMD_SOF
        /\ Handled(Buffer(old), BytesReceived).cmd = Seen(written[looked + 1].cmd)
    BY <1>2, <1>4, FirstIsSeen
  <2>2. Waiting # << >> /\ Head(Waiting) = Seen(written[looked + 1].cmd)
    <3>1. arrived - looked \in Nat /\ arrived - looked > 0 /\ 1 \in 1 .. arrived - looked
      BY <1>3, <2>1
    <3> QED
      BY <3>1 DEF Waiting
  <2>3. Waiting' = << >>
    <3>1. 1 .. arrived' - looked' = {}
      BY <1>2, <1>3
    <3> QED
      BY <3>1 DEF Waiting
  <2>4. Whole'
    <3>1. \A n : Last(n)' = Last(n)
      BY <1>2 DEF Last
    <3>2. come' - taken' <= BufLen
      BY <1>2, <1>3, <2>1, BufLenAssumption
    <3> QED
      BY <1>2, <1>4, <2>1, <3>1, <3>2 DEF BoxInv, Whole
  <2>5. Taken' = Append(Taken, Head(Waiting))
    <3>1. PICK h : h = Handled(Buffer(old), BytesReceived)
      OBVIOUS
    <3>2. handled' = Append(handled, h) /\ handled \in Seq(Receipt) /\ h \in Receipt
      BY <1>1, <1>2, <2>1, <3>1, HandledSpec DEF Receives, StreamInv, TypeInv
    <3>3. PICK l \in Nat : l = Len(handled)
      BY <3>2
    <3>4. /\ Len(handled') = l + 1 /\ handled'[l + 1] = h
          /\ \A k \in 1 .. l : handled'[k] = handled[k]
      BY <3>2, <3>3, AppendProperties
    <3> DEFINE t(k) == handled'[k].cmd
    <3>5. Taken' = [k \in 1 .. l + 1 |-> t(k)] /\ Taken = [k \in 1 .. l |-> t(k)]
      BY <3>3, <3>4 DEF Taken
    <3>6. t(l + 1) = Head(Waiting)
      BY <2>1, <2>2, <3>1, <3>4
    <3>7. Len([k \in 1 .. l |-> t(k)]) = l
      OBVIOUS
    <3>8. Append([k \in 1 .. l |-> t(k)], t(l + 1)) = [k \in 1 .. l + 1 |-> t(k)]
      <4> HIDE DEF t
      <4> QED
        BY <3>7
    <3> QED
      BY <3>5, <3>6, <3>8
  <2> QED
    BY <2>2, <2>3, <2>4, <2>5
<1> QED
  BY <1>1, <1>2, <1>4 DEF BoxInv, Uncut

LEMMA QuietKeepsBox ==
  ASSUME BoxInv,
         UNCHANGED <<style, text, come, arrived, taken, looked, written, handled>>
  PROVE  BoxInv' /\ UNCHANGED style /\ Waiting' = Waiting /\ Taken' = Taken
<1>1. StreamInv'
  BY QuietStep DEF BoxInv
<1> QED
  BY <1>1 DEF BoxInv, Whole, Last, Waiting, Taken, Uncut

LEMMA BoxStart == StreamInit => BoxInv
  BY StreamStart, BufLenAssumption DEF StreamInit, BoxInv, Whole, Last

(* Each step of the connection is a step of the mailbox or leaves it alone. *)
LEMMA StepOfMailbox ==
  ASSUME BoxInv, [StreamNext]_streamVars
  PROVE  /\ BoxInv'
         /\ [MailboxOf!Next]_<<IF Uncut THEN Waiting ELSE << >>,
                               IF Uncut THEN Taken ELSE << >>>>
<1>1. ASSUME BoxInv', UNCHANGED style, Waiting' = Waiting, Taken' = Taken
      PROVE  [MailboxOf!Next]_<<IF Uncut THEN Waiting ELSE << >>,
                                IF Uncut THEN Taken ELSE << >>>>
  BY <1>1 DEF Uncut
<1>2. CASE processTcpCmd
  <2>1. CASE \E old \in Stack : Receives(old)
    <3>1. /\ BoxInv' /\ Uncut' = Uncut
          /\ Uncut => /\ Waiting # << >> /\ Waiting' = << >>
                      /\ Taken' = Append(Taken, Head(Waiting))
      BY <2>1, ReceiveEmptiesBox DEF Uncut
    <3>2. CASE Uncut
      BY <3>1, <3>2 DEF MailboxOf!Next, MailboxOf!Look
    <3>3. CASE ~ Uncut
      BY <3>1, <3>3
    <3> QED
      BY <3>2, <3>3
  <2>2. CASE UNCHANGED <<style, text, come, arrived, taken, looked, written, handled>>
    BY <1>1, <2>2, QuietKeepsBox
  <2> QED
    BY <1>2, <2>1, <2>2, ProcessStep
<1>3. CASE Arrive
  <2>1. /\ BoxInv' /\ Uncut' = Uncut /\ Taken' = Taken
        /\ Uncut => \E c \in Command : Waiting' = Append(Waiting, Seen(c))
    BY <1>3, ArriveFillsBox DEF Uncut, Taken
  <2>2. CASE Uncut
    <3>1. PICK c \in Command : Waiting' = Append(Waiting, Seen(c))
      BY <2>1, <2>2
    <3>2. MailboxOf!Drop(Seen(c))
      BY <2>1, <2>2, <3>1 DEF MailboxOf!Drop
    <3>3. MailboxOf!Next
      BY <3>2 DEF MailboxOf!Next
    <3> QED
      BY <2>1, <3>3
  <2>3. CASE ~ Uncut
    BY <2>1, <2>3
  <2> QED
    BY <2>2, <2>3
<1>4. CASE AppCloses
  BY <1>1, <1>4, QuietKeepsBox DEF AppCloses
<1>5. CASE \E c \in Command : AppWrites(c)
  <2>1. BoxInv' /\ UNCHANGED style /\ Waiting' = Waiting /\ UNCHANGED handled
    BY <1>5, WriteKeepsBox
  <2>2. Taken' = Taken
    BY <2>1 DEF Taken
  <2> QED
    BY <1>1, <2>1, <2>2
<1>6. CASE UNCHANGED streamVars
  BY <1>1, <1>6, QuietKeepsBox DEF streamVars
<1> QED
  BY <1>2, <1>3, <1>4, <1>5, <1>6 DEF StreamNext

(* An App whose commands come whole has a mailbox at the gateway: of those   *)
(* that come together the first is handled, with its own operands whatever   *)
(* the stack holds, and the others are gone (app_cmdHandler looks once at    *)
(* what one recv() of processTcpCmd has brought).                            *)
THEOREM StreamRefinement == StreamSpec => StreamIsMailbox
<1>1. StreamInit => MailboxOf!Init
  <2> SUFFICES ASSUME StreamInit PROVE MailboxOf!Init
    OBVIOUS
  <2>1. Len(handled) = 0 /\ 1 .. arrived - looked = {}
    BY DEF StreamInit
  <2>2. Waiting = << >> /\ Taken = << >>
    BY <2>1 DEF Waiting, Taken
  <2> QED
    BY <2>2 DEF MailboxOf!Init
<1> QED
  BY <1>1, BoxStart, StepOfMailbox, PTL DEF StreamSpec, StreamIsMailbox, MailboxOf!Spec
=============================================================================
