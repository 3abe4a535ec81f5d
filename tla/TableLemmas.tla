---------------------------- MODULE TableLemmas ----------------------------
(***************************************************************************)
(* Facts that the proofs share: about tables of slots, those of the socket *)
(* pool and of the node table, and about pieces of sequences, those of the *)
(* messages on the serial line and of the commands of the Apps.            *)
(***************************************************************************)
EXTENDS Integers, FiniteSets, FiniteSetTheorems, SequenceTheorems, WellFoundedInduction, TLAPS

(* A nonempty set of naturals has a least element, so the first index at    *)
(* which a table holds a value exists as soon as the table holds the value. *)
LEMMA LeastNatural ==
  ASSUME NEW S \in SUBSET Nat, S # {}
  PROVE  \E i \in S : \A j \in S : i <= j
<1> DEFINE Less == {ss \in Nat \X Nat : ss[1] < ss[2]}
<1>1. IsWellFoundedOn(Less, Nat)
  BY NatLessThanWellFounded, Zenon DEF OpToRel
<1>2. PICK i \in S : \A j \in S : ~ (<<j, i>> \in Less)
  <2> HIDE DEF Less
  <2> QED BY <1>1, WFMin, Zenon
<1>3. ASSUME NEW j \in S PROVE i <= j
  <2>1. i \in Nat /\ j \in Nat
    OBVIOUS
  <2>2. ~ (j < i)
    <3>1. <<j, i>> \in Less <=> j < i
      BY <2>1
    <3> QED BY <3>1, <1>2
  <2> QED
    BY <2>1, <2>2
<1> QED
  BY <1>3

(* A table with n slots numbered from 0 has n slots, and fewer than n of    *)
(* them are in use as soon as one is not.                                   *)
LEMMA ProperSubtable ==
  ASSUME NEW n \in Nat, NEW T, T \subseteq 0 .. n - 1
  PROVE  /\ IsFiniteSet(T)
         /\ Cardinality(T) \in Nat
         /\ Cardinality(T) <= n
         /\ T # 0 .. n - 1 => Cardinality(T) < n
<1>1. IsFiniteSet(0 .. n - 1) /\ Cardinality(0 .. n - 1) = n
  <2>1. 0 \in Int /\ n - 1 \in Int
    OBVIOUS
  <2>2. /\ IsFiniteSet(0 .. n - 1)
        /\ Cardinality(0 .. n - 1) = IF 0 > n - 1 THEN 0 ELSE (n - 1) - 0 + 1
    BY <2>1, FS_Interval
  <2> QED
    BY <2>2
<1>2. /\ IsFiniteSet(T)
      /\ Cardinality(T) <= n
      /\ Cardinality(T) = n => T = 0 .. n - 1
  BY <1>1, FS_Subset, Zenon
<1>3. Cardinality(T) \in Nat
  BY <1>2, FS_CardinalityType
<1> QED
  BY <1>2, <1>3

(* The end of a sequence from its i-th element on, and the first k of it.   *)
LEMMA PieceSpec ==
  ASSUME NEW S, NEW c \in Seq(S), NEW i \in 1 .. Len(c), NEW k \in 1 .. Len(c) - i + 1
  PROVE  LET rest == SubSeq(c, i, Len(c))
         IN  /\ rest \in Seq(S) /\ Len(rest) = Len(c) - i + 1
             /\ rest[1] = c[i]
             /\ SubSeq(rest, 1, k) \in Seq(S) /\ Len(SubSeq(rest, 1, k)) = k
             /\ \A j \in 1 .. k : SubSeq(rest, 1, k)[j] = c[i + j - 1]
             /\ k < Len(rest) =>
                  SubSeq(rest, k + 1, Len(rest)) = SubSeq(c, i + k, Len(c))
<1> DEFINE rest == SubSeq(c, i, Len(c))
           L == Len(c)
<1>1. /\ rest \in Seq(S) /\ Len(rest) = L - i + 1 /\ L \in Nat
      /\ \A j \in 1 .. L - i + 1 : rest[j] = c[i + j - 1]
  BY SubSeqProperties
<1>2. rest[1] = c[i]
  BY <1>1
<1> HIDE DEF rest, L
<1>3. /\ SubSeq(rest, 1, k) \in Seq(S) /\ Len(SubSeq(rest, 1, k)) = k
      /\ \A j \in 1 .. k : SubSeq(rest, 1, k)[j] = rest[j]
  BY <1>1 DEF L
<1>4. \A j \in 1 .. k : SubSeq(rest, 1, k)[j] = c[i + j - 1]
  BY <1>1, <1>3 DEF L
<1>5. ASSUME k < Len(rest)
      PROVE  SubSeq(rest, k + 1, Len(rest)) = SubSeq(c, i + k, L)
  <2> DEFINE a == SubSeq(rest, k + 1, Len(rest))
             b == SubSeq(c, i + k, L)
  <2>1. /\ a \in Seq(S) /\ Len(a) = L - i + 1 - k
        /\ \A j \in 1 .. L - i + 1 - k : a[j] = rest[k + j]
    BY <1>1, <1>5 DEF L
  <2>2. /\ b \in Seq(S) /\ Len(b) = L - i + 1 - k
        /\ \A j \in 1 .. L - i + 1 - k : b[j] = c[i + k + j - 1]
    BY <1>1, <1>5 DEF L
  <2> HIDE DEF a, b
  <2>3. \A j \in 1 .. L - i + 1 - k : a[j] = b[j]
    <3> SUFFICES ASSUME NEW j \in 1 .. L - i + 1 - k PROVE a[j] = b[j]
      OBVIOUS
    <3>1. k + j \in 1 .. L - i + 1 /\ i + (k + j) - 1 = i + k + j - 1
      BY <1>1 DEF L
    <3> QED
      BY <1>1, <2>1, <2>2, <3>1
  <2>4. a = b
    BY <2>1, <2>2, <2>3, SeqEqual
  <2> QED
    BY <2>4 DEF a, b
<1> QED
  BY <1>1, <1>2, <1>3, <1>4, <1>5 DEF rest, L
=============================================================================
