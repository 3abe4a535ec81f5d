---------------------------- MODULE SocCmdProofs ----------------------------
(***************************************************************************)
(* Theorems about SocCmd, for every modulus of the transaction counter     *)
(* that is at least 2: transaction numbers identify messages.              *)
(*                                                                         *)
(* The invariant says, of each ZCL message, how far the counter has gone   *)
(* since: as many steps as messages were written, as long as these are     *)
(* fewer than a whole round.  It is stated of a history u and a counter t, *)
(* because zllSocAddGroup writes twice within one step.                    *)
(***************************************************************************)
EXTENDS SocCmd, TableLemmas, SequenceTheorems

ZclAt(u, n) == u[n].frame.seq # -1

CopyAt(u, n) == /\ n > 1 /\ ZclAt(u, n)
                /\ u[n].frame = u[n - 1].frame
                /\ u[n].frame.cluster = GROUPS

Between(u, m, n) == {k \in m .. n : ZclAt(u, k) /\ ~ CopyAt(u, k)}

After(u, m) == Between(u, m + 1, Len(u))

History(u) == u \in Seq({u[k] : k \in DOMAIN u})

Numbered(u, t) ==
  /\ t \in 0 .. SeqNumbers - 1
  /\ \A k \in 1 .. Len(u) : ZclAt(u, k) => u[k].frame.seq \in 0 .. SeqNumbers - 1

(* The counter returns to 0 after its last value.                           *)
Wrap(n) == IF n < SeqNumbers THEN n ELSE n - SeqNumbers

Counted(u, t) ==
  \A k \in 1 .. Len(u) :
    ZclAt(u, k) /\ Cardinality(After(u, k)) < SeqNumbers =>
      t = Wrap(u[k].frame.seq + 1 + Cardinality(After(u, k)))

Identify(u) ==
  \A m, n \in 1 .. Len(u) :
    /\ m < n
    /\ ZclAt(u, m) /\ ZclAt(u, n)
    /\ u[m].frame.seq = u[n].frame.seq
    => \/ n = m + 1 /\ CopyAt(u, n)
       \/ Cardinality(Between(u, m + 1, n)) >= SeqNumbers

CInv(u, t) == /\ History(u)
              /\ Numbered(u, t)
              /\ Counted(u, t)
              /\ Identify(u)

-----------------------------------------------------------------------------
(* One more entry leaves the others where they are.                         *)
LEMMA AppendHistory ==
  ASSUME NEW u, NEW e, History(u)
  PROVE  /\ History(Append(u, e))
         /\ Len(u) \in Nat
         /\ Len(Append(u, e)) = Len(u) + 1
         /\ \A k \in 1 .. Len(u) : Append(u, e)[k] = u[k]
         /\ Append(u, e)[Len(u) + 1] = e
<1> DEFINE S == {u[k] : k \in DOMAIN u}
           v == Append(u, e)
<1>1. u \in Seq(S \cup {e}) /\ e \in S \cup {e}
  BY DEF History
<1>2. /\ Len(u) \in Nat
      /\ v \in Seq(S \cup {e})
      /\ Len(v) = Len(u) + 1
      /\ \A k \in 1 .. Len(u) : v[k] = u[k]
      /\ v[Len(u) + 1] = e
  BY <1>1
<1>3. v \in Seq({v[k] : k \in DOMAIN v})
  <2>1. Len(v) \in Nat /\ v \in [1 .. Len(v) -> S \cup {e}] /\ DOMAIN v = 1 .. Len(v)
    BY <1>2, LenProperties, Zenon
  <2> HIDE DEF v
  <2> DEFINE T == {v[k] : k \in DOMAIN v}
  <2>2. v \in [1 .. Len(v) -> T]
    <3>1. \A k \in 1 .. Len(v) : v[k] \in T
      BY <2>1, Zenon
    <3> HIDE DEF T
    <3> QED
      BY <2>1, <3>1
  <2> HIDE DEF T
  <2>3. v \in UNION {[1 .. n -> T] : n \in Nat}
    BY <2>1, <2>2
  <2>4. v \in Seq(T)
    BY <2>3, SeqDef, Zenon
  <2> QED
    BY <2>4 DEF T
<1> QED
  BY <1>2, <1>3 DEF History

(* ... so what is said of them still holds.                                 *)
LEMMA AppendKeeps ==
  ASSUME NEW u, NEW e, History(u)
  PROVE  /\ \A k \in 1 .. Len(u) : /\ ZclAt(Append(u, e), k) <=> ZclAt(u, k)
                                   /\ CopyAt(Append(u, e), k) <=> CopyAt(u, k)
         /\ \A m \in Nat, n \in 1 .. Len(u) :
               m >= 1 => Between(Append(u, e), m, n) = Between(u, m, n)
<1> DEFINE v == Append(u, e)
<1>1. Len(u) \in Nat /\ \A k \in 1 .. Len(u) : v[k] = u[k]
  BY AppendHistory, Zenon
<1>2. ASSUME NEW k \in 1 .. Len(u)
      PROVE  (ZclAt(v, k) <=> ZclAt(u, k)) /\ (CopyAt(v, k) <=> CopyAt(u, k))
  <2>1. v[k] = u[k]
    BY <1>1
  <2>2. k > 1 => v[k - 1] = u[k - 1]
    BY <1>1
  <2> HIDE DEF v
  <2> QED
    BY <2>1, <2>2, Zenon DEF ZclAt, CopyAt
<1>3. ASSUME NEW m \in Nat, NEW n \in 1 .. Len(u), m >= 1
      PROVE  Between(v, m, n) = Between(u, m, n)
  <2>1. \A k \in m .. n : k \in 1 .. Len(u)
    BY <1>1, <1>3
  <2> HIDE DEF v
  <2> QED
    BY <1>2, <2>1, Zenon DEF Between
<1> QED
  BY <1>2, <1>3

(* The messages after one form a finite set, to which a new message is      *)
(* added, and a control frame or a copy is not.                             *)
LEMMA AfterFinite ==
  ASSUME NEW u, History(u), NEW m \in Nat, NEW n \in Int
  PROVE  /\ IsFiniteSet(Between(u, m, n))
         /\ Cardinality(Between(u, m, n)) \in Nat
<1>1. IsFiniteSet(m .. n)
  BY FS_Interval
<1>2. Between(u, m, n) \subseteq m .. n
  BY DEF Between
<1>3. IsFiniteSet(Between(u, m, n))
  BY <1>1, <1>2, FS_Subset, Zenon
<1> QED
  BY <1>3, FS_CardinalityType

LEMMA AfterAppend ==
  ASSUME NEW u, NEW e, History(u), NEW m \in 1 .. Len(u)
  PROVE  LET v == Append(u, e)
             fresh == ZclAt(v, Len(v)) /\ ~ CopyAt(v, Len(v))
         IN  /\ fresh => Cardinality(After(v, m)) = Cardinality(After(u, m)) + 1
             /\ ~ fresh => Cardinality(After(v, m)) = Cardinality(After(u, m))
             /\ Cardinality(After(u, m)) \in Nat
<1> DEFINE v == Append(u, e)
<1>1. Len(u) \in Nat /\ Len(v) = Len(u) + 1 /\ m \in Nat /\ m + 1 \in Nat
  BY AppendHistory
<1>2. \A k \in 1 .. Len(u) : /\ ZclAt(v, k) <=> ZclAt(u, k)
                             /\ CopyAt(v, k) <=> CopyAt(u, k)
  BY AppendKeeps, Zenon
<1> HIDE DEF v
<1>3. After(v, m) = IF ZclAt(v, Len(v)) /\ ~ CopyAt(v, Len(v))
                    THEN After(u, m) \cup {Len(v)} ELSE After(u, m)
  <2>1. (m + 1) .. Len(v) = ((m + 1) .. Len(u)) \cup {Len(v)}
    BY <1>1
  <2>2. \A k \in (m + 1) .. Len(u) : k \in 1 .. Len(u)
    BY <1>1
  <2> QED
    BY <1>2, <2>1, <2>2, Zenon DEF After, Between
<1>4. Len(v) \notin After(u, m)
  BY <1>1 DEF After, Between
<1>5. IsFiniteSet(After(u, m)) /\ Cardinality(After(u, m)) \in Nat
  <2>1. Len(u) \in Int
    BY <1>1
  <2> QED
    BY <1>1, <2>1, AfterFinite, Zenon DEF After
<1>6. Cardinality(After(u, m) \cup {Len(v)}) = Cardinality(After(u, m)) + 1
  BY <1>4, <1>5, FS_AddElement
<1> QED
  BY <1>3, <1>5, <1>6 DEF v

(* Nothing was written after the last frame.                                *)
LEMMA AfterLast ==
  ASSUME NEW u, History(u)
  PROVE  After(u, Len(u)) = {} /\ Cardinality(After(u, Len(u))) = 0
<1>1. Len(u) \in Nat
  BY AppendHistory
<1>2. After(u, Len(u)) = {}
  BY <1>1 DEF After, Between
<1> QED
  BY <1>2, FS_EmptySet

LEMMA CounterWraps ==
  ASSUME NEW t \in 0 .. SeqNumbers - 1
  PROVE  /\ (t + 1) % SeqNumbers = Wrap(t + 1)
         /\ Wrap(t + 1) \in 0 .. SeqNumbers - 1
<1>1. SeqNumbers \in Nat /\ SeqNumbers > 1
  BY SeqNumbersAssumption
<1>2. CASE t + 1 < SeqNumbers
  BY <1>1, <1>2 DEF Wrap
<1>3. CASE t + 1 = SeqNumbers
  BY <1>1, <1>3 DEF Wrap
<1> QED
  BY <1>1, <1>2, <1>3

(* A frame of the control pipe changes nothing.                             *)
LEMMA AppendCtrl ==
  ASSUME NEW u, NEW t, NEW e, CInv(u, t), e.frame.seq = -1
  PROVE  CInv(Append(u, e), t)
<1> DEFINE v == Append(u, e)
           L == Len(u)
<1>1. /\ History(u) /\ Numbered(u, t) /\ Counted(u, t) /\ Identify(u)
  BY DEF CInv
<1>2. /\ History(v) /\ L \in Nat /\ Len(v) = L + 1
      /\ \A k \in 1 .. L : v[k] = u[k]
      /\ v[L + 1] = e
  BY <1>1, AppendHistory, Zenon
<1>3. /\ \A k \in 1 .. L : /\ ZclAt(v, k) <=> ZclAt(u, k)
                           /\ CopyAt(v, k) <=> CopyAt(u, k)
      /\ \A m \in Nat, n \in 1 .. L : m >= 1 => Between(v, m, n) = Between(u, m, n)
  BY <1>1, AppendKeeps, Zenon
<1>4. ~ ZclAt(v, L + 1)
  BY <1>2 DEF ZclAt
<1>5. \A m \in 1 .. L : Cardinality(After(v, m)) = Cardinality(After(u, m))
  BY <1>1, <1>2, <1>4, AfterAppend, Zenon
<1> HIDE DEF v
<1>6. Numbered(v, t)
  BY <1>1, <1>2, <1>3, <1>4 DEF Numbered
<1>7. Counted(v, t)
  BY <1>1, <1>2, <1>3, <1>4, <1>5 DEF Counted
<1>8. Identify(v)
  BY <1>1, <1>2, <1>3, <1>4 DEF Identify
<1> QED
  BY <1>2, <1>6, <1>7, <1>8 DEF CInv, v

(* A new message takes the counter's value, which it shares only with       *)
(* messages a whole round of the counter ago; it is never taken for a copy  *)
(* of the frame before it.                                                  *)
LEMMA AppendZcl ==
  ASSUME NEW u, NEW t, NEW e, CInv(u, t), e.frame.seq = t
  PROVE  /\ CInv(Append(u, e), (t + 1) % SeqNumbers)
         /\ ~ CopyAt(Append(u, e), Len(u) + 1)
<1> DEFINE v == Append(u, e)
           L == Len(u)
<1>1. /\ History(u) /\ Numbered(u, t) /\ Counted(u, t) /\ Identify(u)
  BY DEF CInv
<1>2. /\ History(v) /\ L \in Nat /\ Len(v) = L + 1
      /\ \A k \in 1 .. L : v[k] = u[k]
      /\ v[L + 1] = e
  BY <1>1, AppendHistory, Zenon
<1>3. /\ \A k \in 1 .. L : /\ ZclAt(v, k) <=> ZclAt(u, k)
                           /\ CopyAt(v, k) <=> CopyAt(u, k)
      /\ \A m \in Nat, n \in 1 .. L : m >= 1 => Between(v, m, n) = Between(u, m, n)
  BY <1>1, AppendKeeps, Zenon
<1>4. SeqNumbers \in Nat /\ SeqNumbers > 1 /\ t \in 0 .. SeqNumbers - 1
  BY <1>1, SeqNumbersAssumption DEF Numbered
<1>5. (t + 1) % SeqNumbers = Wrap(t + 1) /\ Wrap(t + 1) \in 0 .. SeqNumbers - 1
  BY <1>4, CounterWraps
<1>6. ZclAt(v, L + 1)
  BY <1>2, <1>4 DEF ZclAt
<1>7. ~ CopyAt(v, L + 1)
  <2> SUFFICES ASSUME L >= 1, CopyAt(v, L + 1) PROVE FALSE
    BY <1>2 DEF CopyAt
  <2>1. u[L].frame = e.frame
    <3>1. (L + 1) - 1 = L /\ L \in 1 .. L
      BY <1>2
    <3> QED
      BY <1>2, <3>1 DEF CopyAt
  <2>2. ZclAt(u, L) /\ u[L].frame.seq = t
    BY <2>1, <1>4 DEF ZclAt
  <2>3. Cardinality(After(u, L)) = 0
    BY <1>1, AfterLast, Zenon
  <2>4. t = Wrap(t + 1 + 0)
    BY <1>1, <1>2, <1>4, <2>2, <2>3 DEF Counted
  <2> QED
    BY <1>4, <2>4 DEF Wrap
<1>8. \A m \in 1 .. L : /\ Cardinality(After(v, m)) = Cardinality(After(u, m)) + 1
                        /\ Cardinality(After(u, m)) \in Nat
  BY <1>1, <1>2, <1>6, <1>7, AfterAppend, Zenon
<1>9. Cardinality(After(v, L + 1)) = 0
  BY <1>2, AfterLast, Zenon
<1> HIDE DEF v
<1>10. Numbered(v, Wrap(t + 1))
  BY <1>1, <1>2, <1>3, <1>4, <1>5 DEF Numbered
<1>11. Counted(v, Wrap(t + 1))
  <2> SUFFICES ASSUME NEW k \in 1 .. L + 1, ZclAt(v, k),
                      Cardinality(After(v, k)) < SeqNumbers
               PROVE  Wrap(t + 1) = Wrap(v[k].frame.seq + 1 + Cardinality(After(v, k)))
    BY <1>2 DEF Counted
  <2>1. CASE k = L + 1
    BY <1>2, <1>4, <1>9, <2>1
  <2>2. CASE k \in 1 .. L
    <3> DEFINE c == Cardinality(After(u, k))
               s == u[k].frame.seq
    <3>1. c \in Nat /\ Cardinality(After(v, k)) = c + 1 /\ c < SeqNumbers
      BY <1>4, <1>8, <2>2
    <3>2. s \in 0 .. SeqNumbers - 1 /\ v[k].frame.seq = s
      BY <1>1, <1>2, <1>3, <2>2 DEF Numbered
    <3>3. t = Wrap(s + 1 + c)
      BY <1>1, <1>3, <2>2, <3>1 DEF Counted
    <3>4. c + 1 < SeqNumbers
      BY <3>1
    <3> HIDE DEF c, s
    <3>5. Wrap(t + 1) = Wrap(s + 1 + (c + 1))
      BY <1>4, <3>1, <3>2, <3>3, <3>4 DEF Wrap
    <3> QED
      BY <3>1, <3>2, <3>5
  <2> QED
    BY <1>2, <2>1, <2>2
<1>12. Identify(v)
  <2> SUFFICES ASSUME NEW m \in 1 .. L + 1, NEW n \in 1 .. L + 1,
                      m < n, ZclAt(v, m), ZclAt(v, n),
                      v[m].frame.seq = v[n].frame.seq
               PROVE  \/ n = m + 1 /\ CopyAt(v, n)
                      \/ Cardinality(Between(v, m + 1, n)) >= SeqNumbers
    BY <1>2 DEF Identify
  <2>1. CASE n \in 1 .. L
    BY <1>1, <1>2, <1>3, <2>1 DEF Identify
  <2>2. CASE n = L + 1
    <3> DEFINE c == Cardinality(After(u, m))
    <3>1. m \in 1 .. L /\ u[m].frame.seq = t /\ ZclAt(u, m)
      BY <1>2, <1>3, <2>2
    <3>2. c \in Nat /\ Cardinality(Between(v, m + 1, n)) = c + 1
      BY <1>2, <1>8, <2>2, <3>1 DEF After
    <3>3. c < SeqNumbers => t = Wrap(t + 1 + c)
      BY <1>1, <3>1 DEF Counted
    <3> HIDE DEF c
    <3>4. c + 1 >= SeqNumbers
      BY <1>4, <3>2, <3>3 DEF Wrap
    <3> QED
      BY <3>2, <3>4
  <2> QED
    BY <1>2, <2>1, <2>2
<1> QED
  BY <1>2, <1>5, <1>7, <1>10, <1>11, <1>12 DEF CInv, v

(* The copy zllSocAddGroup writes of its own frame belongs to that frame.   *)
LEMMA AppendCopy ==
  ASSUME NEW u, NEW t, NEW e, CInv(u, t),
         Len(u) >= 1, ZclAt(u, Len(u)), ~ CopyAt(u, Len(u)),
         e.frame = u[Len(u)].frame, e.frame.cluster = GROUPS
  PROVE  CInv(Append(u, e), t)
<1> DEFINE v == Append(u, e)
           L == Len(u)
<1>1. /\ History(u) /\ Numbered(u, t) /\ Counted(u, t) /\ Identify(u)
  BY DEF CInv
<1>2. /\ History(v) /\ L \in Nat /\ Len(v) = L + 1
      /\ \A k \in 1 .. L : v[k] = u[k]
      /\ v[L + 1] = e
  BY <1>1, AppendHistory
<1>3. /\ \A k \in 1 .. L : /\ ZclAt(v, k) <=> ZclAt(u, k)
                           /\ CopyAt(v, k) <=> CopyAt(u, k)
      /\ \A m \in Nat, n \in 1 .. L : m >= 1 => Between(v, m, n) = Between(u, m, n)
  BY <1>1, AppendKeeps, Zenon
<1>4. L \in 1 .. L /\ v[L] = u[L] /\ v[L + 1].frame = u[L].frame /\ (L + 1) - 1 = L
  BY <1>2
<1>5. ZclAt(v, L + 1) /\ CopyAt(v, L + 1)
  BY <1>2, <1>4 DEF ZclAt, CopyAt
<1>6. \A m \in 1 .. L : Cardinality(After(v, m)) = Cardinality(After(u, m))
  BY <1>1, <1>2, <1>5, AfterAppend, Zenon
<1>7. Cardinality(After(v, L + 1)) = 0 /\ Cardinality(After(u, L)) = 0
  BY <1>1, <1>2, AfterLast, Zenon
<1> HIDE DEF v
<1>8. Numbered(v, t)
  BY <1>1, <1>2, <1>3, <1>4 DEF Numbered
<1>9. Counted(v, t)
  <2> SUFFICES ASSUME NEW k \in 1 .. L + 1, ZclAt(v, k),
                      Cardinality(After(v, k)) < SeqNumbers
               PROVE  t = Wrap(v[k].frame.seq + 1 + Cardinality(After(v, k)))
    BY <1>2 DEF Counted
  <2>1. CASE k \in 1 .. L
    BY <1>1, <1>2, <1>3, <1>6, <2>1 DEF Counted
  <2>2. CASE k = L + 1
    <3>1. Cardinality(After(u, L)) < SeqNumbers
      BY <1>7, SeqNumbersAssumption
    <3>2. t = Wrap(u[L].frame.seq + 1 + Cardinality(After(u, L)))
      BY <1>1, <1>4, <3>1 DEF Counted
    <3> QED
      BY <1>4, <1>7, <2>2, <3>2, Zenon
  <2> QED
    BY <1>2, <2>1, <2>2
<1>10. Identify(v)
  <2> SUFFICES ASSUME NEW m \in 1 .. L + 1, NEW n \in 1 .. L + 1,
                      m < n, ZclAt(v, m), ZclAt(v, n),
                      v[m].frame.seq = v[n].frame.seq
               PROVE  \/ n = m + 1 /\ CopyAt(v, n)
                      \/ Cardinality(Between(v, m + 1, n)) >= SeqNumbers
    BY <1>2 DEF Identify
  <2>1. CASE n \in 1 .. L
    BY <1>1, <1>2, <1>3, <2>1 DEF Identify
  <2>2. CASE n = L + 1 /\ m = L
    BY <1>5, <2>2
  <2>3. CASE n = L + 1 /\ m < L
    <3>1. m \in 1 .. L /\ ZclAt(u, m) /\ u[m].frame.seq = u[L].frame.seq
      BY <1>2, <1>3, <1>4, <2>3
    <3>2. Cardinality(Between(u, m + 1, L)) >= SeqNumbers
      BY <1>1, <1>4, <2>3, <3>1 DEF Identify
    <3>3. Cardinality(Between(v, m + 1, n)) = Cardinality(Between(u, m + 1, L))
      BY <1>2, <1>6, <2>3, <3>1 DEF After
    <3> QED
      BY <3>2, <3>3
  <2> QED
    BY <1>2, <2>1, <2>2, <2>3
<1> QED
  BY <1>2, <1>8, <1>9, <1>10 DEF CInv, v

-----------------------------------------------------------------------------
(* What sending does: the frames written before stay where they are, and    *)
(* no reset for a device comes after them.                                  *)
IsReset(frame) == frame.cluster = NoCluster /\ frame.cmdID = 6

Grown ==
  /\ Len(uart) \in Nat /\ Len(uart') \in Nat /\ Len(uart) < Len(uart')
  /\ \A k \in 1 .. Len(uart) : uart'[k] = uart[k]
  /\ \A k \in 1 .. Len(uart') : k > Len(uart) => ~ IsReset(uart'[k].frame)

LEMMA GrownByOne ==
  ASSUME History(uart), NEW e, ~ IsReset(e.frame), uart' = Append(uart, e)
  PROVE  Grown
<1> DEFINE v == Append(uart, e)
<1>1. /\ Len(uart) \in Nat /\ Len(v) = Len(uart) + 1
      /\ \A k \in 1 .. Len(uart) : v[k] = uart[k]
      /\ v[Len(uart) + 1] = e
  BY AppendHistory
<1> HIDE DEF v
<1>2. \A k \in 1 .. Len(v) : k > Len(uart) => v[k] = e
  BY <1>1
<1> QED
  BY <1>1, <1>2 DEF Grown, v

LEMMA GrownByTwo ==
  ASSUME History(uart), NEW e, NEW d, ~ IsReset(e.frame), ~ IsReset(d.frame),
         uart' = Append(Append(uart, e), d)
  PROVE  Grown
<1> DEFINE v == Append(uart, e)
           w == Append(v, d)
<1>1. /\ Len(uart) \in Nat /\ Len(v) = Len(uart) + 1 /\ History(v)
      /\ \A k \in 1 .. Len(uart) : v[k] = uart[k]
      /\ v[Len(uart) + 1] = e
  BY AppendHistory
<1> HIDE DEF v
<1>2. /\ Len(w) = Len(v) + 1
      /\ \A k \in 1 .. Len(v) : w[k] = v[k]
      /\ w[Len(v) + 1] = d
  BY <1>1, AppendHistory
<1> HIDE DEF w
<1>3. \A k \in 1 .. Len(w) : k > Len(uart) => w[k] = e \/ w[k] = d
  BY <1>1, <1>2
<1>4. \A k \in 1 .. Len(uart) : w[k] = uart[k]
  BY <1>1, <1>2
<1>5. uart' = w
  BY DEF v, w
<1> QED
  BY <1>1, <1>2, <1>3, <1>4, <1>5 DEF Grown

LEMMA SendCtrlKeeps ==
  ASSUME CInv(uart, transSeqNumber), NEW frame, frame.seq = -1, SendCtrl(frame)
  PROVE  CInv(uart, transSeqNumber)' /\ (~ IsReset(frame) => Grown)
<1>1. PICK fate \in Fates : uart' = Append(uart, [frame |-> frame, fate |-> fate])
  BY DEF SendCtrl, Transmit
<1>2. transSeqNumber' = transSeqNumber
  BY DEF SendCtrl
<1>3. CInv(Append(uart, [frame |-> frame, fate |-> fate]), transSeqNumber)
  BY AppendCtrl
<1>4. CInv(uart', transSeqNumber')
  BY <1>1, <1>2, <1>3, Zenon
<1>5. ~ IsReset(frame) => Grown
  BY <1>1, GrownByOne DEF CInv
<1> QED
  BY <1>4, <1>5

LEMMA SendZclKeeps ==
  ASSUME CInv(uart, transSeqNumber), NEW frame, NEW fate,
         frame.seq = transSeqNumber, frame.cluster # NoCluster,
         uart' = Append(uart, [frame |-> frame, fate |-> fate]),
         transSeqNumber' = (transSeqNumber + 1) % SeqNumbers
  PROVE  CInv(uart, transSeqNumber)' /\ Grown
<1>1. CInv(Append(uart, [frame |-> frame, fate |-> fate]),
           (transSeqNumber + 1) % SeqNumbers)
  BY AppendZcl
<1>2. CInv(uart', transSeqNumber')
  BY <1>1, Zenon
<1>3. Grown
  BY GrownByOne DEF CInv, IsReset
<1> QED
  BY <1>2, <1>3

LEMMA SendTwiceKeeps ==
  ASSUME CInv(uart, transSeqNumber), NEW frame, frame.seq = transSeqNumber,
         frame.cluster = GROUPS, TransmitTwice(frame), CountUp
  PROVE  CInv(uart, transSeqNumber)' /\ Grown
<1>1. PICK first, second \in Fates :
        uart' = Append(Append(uart, [frame |-> frame, fate |-> first]),
                       [frame |-> frame, fate |-> second])
  BY DEF TransmitTwice
<1> DEFINE e == [frame |-> frame, fate |-> first]
           v == Append(uart, e)
           d == [frame |-> frame, fate |-> second]
           t == (transSeqNumber + 1) % SeqNumbers
<1>2. CInv(v, t) /\ ~ CopyAt(v, Len(uart) + 1)
  BY AppendZcl
<1>3. Len(uart) \in Nat /\ Len(v) = Len(uart) + 1 /\ v[Len(v)] = e
  BY AppendHistory DEF CInv
<1>4. ZclAt(v, Len(v))
  <2>1. v[Len(v)].frame.seq = transSeqNumber /\ transSeqNumber # -1
    BY <1>3 DEF CInv, Numbered
  <2> QED
    BY <2>1 DEF ZclAt
<1>5. d.frame = v[Len(v)].frame /\ d.frame.cluster = GROUPS /\ Len(v) >= 1
  BY <1>3
<1>6. ~ CopyAt(v, Len(v))
  BY <1>2, <1>3
<1>7. Grown
  <2>1. ~ IsReset(frame) /\ e.frame = frame /\ d.frame = frame
    BY DEF IsReset, GROUPS, NoCluster
  <2> QED
    BY <1>1, <2>1, GrownByTwo DEF CInv
<1> HIDE DEF v, d, t
<1>8. CInv(Append(v, d), t)
  BY <1>2, <1>4, <1>5, <1>6, AppendCopy
<1>9. CInv(uart', transSeqNumber')
  BY <1>1, <1>8 DEF v, d, t, CountUp
<1> QED
  BY <1>7, <1>9

LEMMA SocInitHolds == SocInit => CInv(uart, transSeqNumber)
<1> SUFFICES ASSUME SocInit PROVE CInv(uart, transSeqNumber)
  OBVIOUS
<1>1. uart = << >> /\ transSeqNumber = 0 /\ Len(uart) = 0
  BY DEF SocInit
<1>2. History(uart)
  BY <1>1 DEF History
<1> QED
  BY <1>1, <1>2, SeqNumbersAssumption DEF CInv, Numbered, Counted, Identify

-----------------------------------------------------------------------------
(* Every command but the reset for a device, with whatever arguments.       *)
CtrlCommand ==
  \/ zllSocTouchLink \/ zllSocResetToFn \/ zllSocGetNodes \/ zllSocEndDevBind
  \/ \E dst, mode : zllSocDemoBind(mode, dst)

ZclCommand(x, y, t, dst, mode) ==
  \/ zllSocSetState(x, dst, mode)    \/ zllSocSetLevel(x, t, dst, mode)
  \/ zllSocIdentify(t, dst, mode)    \/ zllSocSetHue(x, t, dst, mode)
  \/ zllSocSetSat(x, t, dst, mode)   \/ zllSocSetHueSat(x, y, t, dst, mode)
  \/ zllSocAddGroup(x, dst, mode)    \/ zllSocFlashReset(dst, mode)
  \/ zllSocStoreScene(x, y, dst, mode)
  \/ zllSocRecallScene(x, y, dst, mode)
  \/ zllSocGetState(dst, mode)       \/ zllSocGetLevel(dst, mode)
  \/ zllSocGetHue(dst, mode)         \/ zllSocGetSat(dst, mode)

LEMMA CtrlStep ==
  ASSUME CInv(uart, transSeqNumber)
  PROVE  /\ CtrlCommand => CInv(uart, transSeqNumber)' /\ Grown
         /\ zllSocSendResetToFn => CInv(uart, transSeqNumber)'
<1>1. ASSUME NEW cmd0, NEW cmdID, NEW payload
      PROVE  /\ Ctrl(cmd0, cmdID, payload).seq = -1
             /\ IsReset(Ctrl(cmd0, cmdID, payload)) <=> cmdID = 6
  BY DEF Ctrl, IsReset
<1>2. ASSUME NEW cmd0, NEW cmdID, NEW payload, cmdID # 6,
             SendCtrl(Ctrl(cmd0, cmdID, payload))
      PROVE  CInv(uart, transSeqNumber)' /\ Grown
  <2> DEFINE frame == Ctrl(cmd0, cmdID, payload)
  <2>1. frame.seq = -1 /\ ~ IsReset(frame) /\ SendCtrl(frame)
    BY <1>1, <1>2
  <2> HIDE DEF frame
  <2> QED
    BY <2>1, SendCtrlKeeps, Zenon
<1>3. CtrlCommand => CInv(uart, transSeqNumber)' /\ Grown
  <2>1. 1 # 6 /\ 2 # 6 /\ 8 # 6 /\ 9 # 6 /\ 10 # 6
    OBVIOUS
  <2> QED
    BY <1>2, <2>1, Zenon
       DEF CtrlCommand, zllSocTouchLink, zllSocResetToFn, zllSocGetNodes,
           zllSocEndDevBind, zllSocDemoBind
<1>4. zllSocSendResetToFn => CInv(uart, transSeqNumber)'
  BY <1>1, SendCtrlKeeps, Zenon DEF zllSocSendResetToFn
<1> QED
  BY <1>3, <1>4

(* A frame of the data pipe carries the counter and a cluster.              *)
LEMMA ZclNumber ==
  \A cmd0, cluster, cmdID, dst, mode, payload :
    /\ Zcl(cmd0, cluster, cmdID, dst, mode, payload).seq = transSeqNumber
    /\ Zcl(cmd0, cluster, cmdID, dst, mode, payload).cluster = cluster
BY DEF Zcl

LEMMA Clusters ==
  /\ IDENTIFY # NoCluster /\ SCENES # NoCluster /\ ON_OFF # NoCluster
  /\ LEVEL_CONTROL # NoCluster /\ COLOR_CONTROL # NoCluster
BY DEF IDENTIFY, SCENES, ON_OFF, LEVEL_CONTROL, COLOR_CONTROL, NoCluster

LEMMA ZclStep ==
  ASSUME CInv(uart, transSeqNumber), NEW x, NEW y, NEW t, NEW dst, NEW mode,
         ZclCommand(x, y, t, dst, mode)
  PROVE  CInv(uart, transSeqNumber)' /\ Grown
<1> DEFINE Kept == CInv(uart, transSeqNumber)' /\ Grown
<1>0. ASSUME NEW cmd0, NEW cluster, NEW cmdID, NEW payload, NEW fate,
             cluster # NoCluster,
             uart' = Append(uart, [frame |-> Zcl(cmd0, cluster, cmdID, dst, mode, payload),
                                   fate |-> fate]),
             transSeqNumber' = (transSeqNumber + 1) % SeqNumbers
      PROVE  Kept
  <2> DEFINE frame == Zcl(cmd0, cluster, cmdID, dst, mode, payload)
  <2>1. frame.seq = transSeqNumber /\ frame.cluster # NoCluster
    BY <1>0, ZclNumber
  <2>2. /\ uart' = Append(uart, [frame |-> frame, fate |-> fate])
        /\ transSeqNumber' = (transSeqNumber + 1) % SeqNumbers
    BY <1>0
  <2> HIDE DEF frame
  <2> QED
    BY <2>1, <2>2, SendZclKeeps
<1>1. zllSocAddGroup(x, dst, mode) => Kept
  <2> SUFFICES ASSUME zllSocAddGroup(x, dst, mode) PROVE Kept
    OBVIOUS
  <2> DEFINE frame == Zcl(AREQ_GW, GROUPS, 0, dst, mode, <<x>>)
  <2>1. frame.seq = transSeqNumber /\ frame.cluster = GROUPS
    BY DEF Zcl
  <2>2. TransmitTwice(frame) /\ CountUp
    BY DEF zllSocAddGroup
  <2> HIDE DEF frame
  <2> QED
    BY <2>1, <2>2, SendTwiceKeeps, Zenon
<1> HIDE DEF Kept
<1>2. zllSocSetState(x, dst, mode) \/ zllSocFlashReset(dst, mode) => Kept
  BY <1>0, Clusters, Zenon
     DEF SendZcl, Transmit, CountUp, zllSocSetState, zllSocFlashReset
<1>3. zllSocSetLevel(x, t, dst, mode) \/ zllSocIdentify(t, dst, mode) => Kept
  BY <1>0, Clusters, Zenon
     DEF SendZcl, Transmit, CountUp, zllSocSetLevel, zllSocIdentify
<1>4. zllSocSetHue(x, t, dst, mode) \/ zllSocSetSat(x, t, dst, mode) => Kept
  BY <1>0, Clusters, Zenon
     DEF SendZcl, Transmit, CountUp, zllSocSetHue, zllSocSetSat
<1>5. zllSocSetHueSat(x, y, t, dst, mode) => Kept
  BY <1>0, Clusters, Zenon
     DEF SendZcl, Transmit, CountUp, zllSocSetHueSat
<1>6. zllSocStoreScene(x, y, dst, mode) \/ zllSocRecallScene(x, y, dst, mode)
        => Kept
  BY <1>0, Clusters, Zenon
     DEF SendZcl, Transmit, CountUp, zllSocStoreScene, zllSocRecallScene
<1>7. zllSocGetState(dst, mode) \/ zllSocGetLevel(dst, mode) => Kept
  BY <1>0, Clusters, Zenon
     DEF SendZcl, Transmit, CountUp, ReadAttribute, zllSocGetState, zllSocGetLevel
<1>8. zllSocGetHue(dst, mode) \/ zllSocGetSat(dst, mode) => Kept
  BY <1>0, Clusters, Zenon
     DEF SendZcl, Transmit, CountUp, ReadAttribute, zllSocGetHue, zllSocGetSat
<1>9. Kept
  BY <1>1, <1>2, <1>3, <1>4, <1>5, <1>6, <1>7, <1>8, Zenon DEF ZclCommand
<1> QED
  BY <1>9 DEF Kept

(* The invariant is about the history and the counter alone.                *)
LEMMA Implied == CInv(uart, transSeqNumber) => NumbersIdentifyMessages
<1> SUFFICES ASSUME Identify(uart) PROVE NumbersIdentifyMessages
  BY DEF CInv
<1>1. \A n : (IsZcl(n) <=> ZclAt(uart, n)) /\ (IsCopy(n) <=> CopyAt(uart, n))
  BY DEF IsZcl, IsCopy, ZclAt, CopyAt
<1>2. \A m, n : MessagesIn(m, n) = Cardinality(Between(uart, m, n))
  BY <1>1, Zenon DEF MessagesIn, Between
<1> QED
  BY <1>1, <1>2 DEF Identify, NumbersIdentifyMessages

LEMMA SocStutter ==
  CInv(uart, transSeqNumber) /\ UNCHANGED socVars => CInv(uart, transSeqNumber)'
<1> SUFFICES ASSUME CInv(uart, transSeqNumber), UNCHANGED socVars
             PROVE  CInv(uart', transSeqNumber')
  OBVIOUS
<1> QED
  BY DEF socVars

(* Whatever functions of socCmd.c are called, in any order and with any     *)
(* arguments, two different ZCL messages carry the same transaction number  *)
(* only if a whole round of the counter lies between them (socCmd.c:617,    *)
(* transSeqNumber++ of every data command).                                 *)
THEOREM NumbersIdentify == SocSpec => []NumbersIdentifyMessages
<1>1. SocInit => CInv(uart, transSeqNumber)
  BY SocInitHolds
<1>2. CInv(uart, transSeqNumber) /\ [SocCtrlNext \/ SocZclNext]_socVars
        => CInv(uart, transSeqNumber)'
  <2>1. SocCtrlNext => CtrlCommand \/ zllSocSendResetToFn
    BY Zenon DEF SocCtrlNext, CtrlCommand
  <2>2. SocZclNext => \E x, y, t, dst, mode : ZclCommand(x, y, t, dst, mode)
    BY Zenon DEF SocZclNext, ZclCommand
  <2> QED
    BY <2>1, <2>2, SocStutter, CtrlStep, ZclStep
<1>3. CInv(uart, transSeqNumber) => NumbersIdentifyMessages
  BY Implied
<1> QED
  BY <1>1, <1>2, <1>3, PTL DEF SocSpec
=============================================================================
