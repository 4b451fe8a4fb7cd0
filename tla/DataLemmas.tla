---- MODULE DataLemmas ----
(***************************************************************************)
(* Facts about sets and sequences that the theorems of several components  *)
(* rest on.                                                                *)
(***************************************************************************)
EXTENDS Integers, FiniteSets, Sequences, SequencesExt,
        FiniteSetTheorems, SequenceTheorems, WellFoundedInduction, TLAPS

\* A set of numbers up to n that is not empty has a greatest element.
LEMMA Greatest ==
  ASSUME NEW n \in Nat, NEW ids \in SUBSET (0 .. n), ids # {}
  PROVE  \E id \in ids : \A other \in ids : other <= id
<1> DEFINE gaps == {n - id : id \in ids}
<1>1. gaps \subseteq Nat /\ gaps # {}
  <2>1. \A id \in ids : n - id \in Nat
    OBVIOUS
  <2> QED BY <2>1
<1>2. PICK gap \in gaps : \A other \in gaps : ~(<<other, gap>> \in OpToRel(<, Nat))
  BY <1>1, NatLessThanWellFounded, WFMin
<1>3. \A other \in gaps : ~(other < gap)
  BY <1>1, <1>2 DEF OpToRel
<1>4. PICK id \in ids : gap = n - id
  OBVIOUS
<1>5. \A other \in ids : other <= id
  BY <1>3, <1>4
<1> QED BY <1>5

\* SetToSeq lists each element of a finite set once.
LEMMA SetToSeqIs ==
  ASSUME NEW S, IsFiniteSet(S)
  PROVE  /\ SetToSeq(S) \in Seq(S) /\ Len(SetToSeq(S)) = Cardinality(S)
         /\ \A x \in S : \E i \in 1 .. Len(SetToSeq(S)) : SetToSeq(S)[i] = x
         /\ \A i, j \in 1 .. Len(SetToSeq(S)) : SetToSeq(S)[i] = SetToSeq(S)[j] => i = j
<1> DEFINE n == Cardinality(S)
           f == SetToSeq(S)
<1>1. n \in Nat /\ ExistsBijection(1 .. n, S)
  BY FS_CardinalityType
<1>2. \E g \in [1 .. n -> S] : IsInjective(g)
  BY <1>1 DEF ExistsBijection, Bijection, Injection
<1>3. f \in [1 .. n -> S] /\ IsInjective(f)
  BY <1>2 DEF SetToSeq
<1>4. f \in Injection(1 .. n, S)
  BY <1>3 DEF Injection
<1>5. Cardinality(1 .. n) = n
  BY <1>1, FS_Interval
<1> HIDE DEF f
<1>6. f \in Surjection(1 .. n, S)
  BY <1>4, <1>5, FS_Injection
<1>7. f \in Seq(S) /\ Len(f) = n
  BY <1>1, <1>3, SeqDef
<1>8. \A x \in S : \E i \in 1 .. n : f[i] = x
  BY <1>6 DEF Surjection
<1>9. \A i, j \in 1 .. n : f[i] = f[j] => i = j
  BY <1>3 DEF IsInjective
<1> QED BY <1>7, <1>8, <1>9 DEF f

\* What has as many places as it has elements lists each of them.
LEMMA AllPlaced ==
  ASSUME NEW S, IsFiniteSet(S), NEW f \in [1 .. Cardinality(S) -> S],
         \A i, j \in 1 .. Cardinality(S) : i # j => f[i] # f[j]
  PROVE  f \in Seq(S) /\ Len(f) = Cardinality(S) /\ ToSet(f) = S
<1> DEFINE n == Cardinality(S)
<1>1. n \in Nat
  BY FS_CardinalityType
<1>2. IsFiniteSet(1 .. n) /\ Cardinality(1 .. n) = n
  BY <1>1, FS_Interval
<1>3. f \in Injection(1 .. n, S)
  BY DEF Injection, IsInjective
<1>4. f \in Surjection(1 .. n, S)
  BY <1>2, <1>3, FS_Injection
<1>5. \A x \in S : \E i \in 1 .. n : f[i] = x
  BY <1>4 DEF Surjection
<1>6. f \in Seq(S) /\ Len(f) = n /\ DOMAIN f = 1 .. n
  BY <1>1, SeqDef
<1>7. ToSet(f) = S
  <2>1. \A i \in 1 .. n : f[i] \in S
    OBVIOUS
  <2> HIDE DEF n
  <2> QED BY <1>5, <1>6, <2>1 DEF ToSet
<1> QED BY <1>6, <1>7

\* The elements of a sequence without repetitions, put in any order.
LEMMA Reordered ==
  ASSUME NEW S, NEW s \in Seq(S), \A i, j \in 1 .. Len(s) : i # j => s[i] # s[j],
         NEW order \in SetToSeqs(ToSet(s))
  PROVE  order \in Seq(ToSet(s)) /\ Len(order) = Len(s) /\ ToSet(order) = ToSet(s)
<1> DEFINE n == Len(s)
           T == ToSet(s)
<1>1. n \in Nat /\ DOMAIN s = 1 .. n
  OBVIOUS
<1>2. IsFiniteSet(1 .. n) /\ Cardinality(1 .. n) = n
  BY <1>1, FS_Interval
<1>3. s \in [1 .. n -> T]
  BY <1>1 DEF ToSet
<1>4. s \in Injection(1 .. n, T)
  BY <1>3 DEF Injection, IsInjective
<1>5. s \in Surjection(1 .. n, T)
  BY <1>1, <1>3 DEF Surjection, ToSet
<1> HIDE DEF T
<1>6. IsFiniteSet(T) /\ Cardinality(T) = n
  BY <1>2, <1>4, <1>5, FS_Surjection
<1>7. order \in [1 .. Cardinality(T) -> T] /\ \A i, j \in 1 .. Cardinality(T) : i # j => order[i] # order[j]
  BY DEF SetToSeqs, T
<1>8. order \in Seq(T) /\ Len(order) = Cardinality(T) /\ ToSet(order) = T
  BY <1>6, <1>7, AllPlaced
<1> QED BY <1>6, <1>8 DEF T
====
