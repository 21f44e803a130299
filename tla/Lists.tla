-------------------------------- MODULE Lists --------------------------------
(***************************************************************************)
(* Lists that lose some of what they hold, as free_disposed of sound.c     *)
(* sweeps its own.                                                         *)
(***************************************************************************)
EXTENDS Naturals, Sequences, FiniteSets, Functions, FiniteSetTheorems,
        WellFoundedInduction, TLAPS

(* What is left of a list without some of it: SelectSeq, with each place   *)
(* in it told by how many of those that stay come first.                   *)
Kept(list, gone) == {i \in DOMAIN list : list[i] \notin gone}
Rank(places, i) == Cardinality({j \in places : j <= i})
Without(list, gone) ==
  [n \in 1..Cardinality(Kept(list, gone)) |->
     list[CHOOSE i \in Kept(list, gone) : Rank(Kept(list, gone), i) = n]]

(* The natural numbers are well ordered.                                   *)
LEMMA LeastOf ==
  ASSUME NEW S \in SUBSET Nat, S # {}
  PROVE  \E n \in S : \A m \in S : n <= m
<1> DEFINE R == OpToRel(<, Nat)
<1>1. IsWellFoundedOn(R, Nat)
  BY NatLessThanWellFounded
<1>2. \A m, n \in Nat : m < n => <<m, n>> \in R
  BY DEF OpToRel
<1> HIDE DEF R
<1>3. PICK n \in S : \A m \in S : ~(<<m, n>> \in R)
  BY <1>1, WFMin
<1>4. ASSUME NEW m \in S
      PROVE  n <= m
  <2>1. m \in Nat /\ n \in Nat /\ ~(m < n)
    BY <1>2, <1>3
  <2> QED
    BY <2>1
<1> QED
  BY <1>4

(* Each place among some has a rank of its own, and there are as many      *)
(* ranks as places.                                                        *)
LEMMA Ranks ==
  ASSUME NEW K \in SUBSET Nat, IsFiniteSet(K)
  PROVE  /\ \A i \in K : Rank(K, i) \in 1..Cardinality(K)
         /\ \A i, j \in K : Rank(K, i) = Rank(K, j) => i = j
         /\ \A n \in 1..Cardinality(K) : \E i \in K : Rank(K, i) = n
<1> DEFINE To(i) == {j \in K : j <= i}
<1>0. Cardinality(K) \in Nat
  BY FS_CardinalityType
<1>1. \A i \in K : /\ IsFiniteSet(To(i)) /\ Cardinality(To(i)) \in Nat
                   /\ Cardinality(To(i)) <= Cardinality(K)
  <2> TAKE i \in K
  <2>1. To(i) \subseteq K
    OBVIOUS
  <2> HIDE DEF To
  <2> QED
    BY <2>1, FS_Subset, FS_CardinalityType
<1>2. ASSUME NEW i \in K
      PROVE  Cardinality(To(i)) >= 1
  <2>1. {i} \subseteq To(i)
    OBVIOUS
  <2>2. Cardinality({i}) = 1
    BY FS_Singleton
  <2> HIDE DEF To
  <2> QED
    BY <1>1, <2>1, <2>2, FS_Subset
<1>3. ASSUME NEW i \in K, NEW j \in K, i < j
      PROVE  Cardinality(To(i)) < Cardinality(To(j))
  <2>1. To(i) \cup {j} \subseteq To(j) /\ j \notin To(i)
    <3>1. \A k \in K : k \in Nat
      OBVIOUS
    <3>2. \A k \in K : k <= i => k <= j
      BY <3>1, <1>3
    <3>3. ~(j <= i) /\ j <= j
      BY <3>1, <1>3
    <3> QED
      BY <3>2, <3>3
  <2> HIDE DEF To
  <2>2. Cardinality(To(i) \cup {j}) = Cardinality(To(i)) + 1
    BY <1>1, <2>1, FS_AddElement
  <2>3. Cardinality(To(i) \cup {j}) <= Cardinality(To(j))
    BY <1>1, <2>1, FS_Subset
  <2> QED
    BY <1>1, <2>2, <2>3
<1>4. \A i, j \in K : Cardinality(To(i)) = Cardinality(To(j)) => i = j
  <2> SUFFICES ASSUME NEW k \in K, NEW l \in K, Cardinality(To(k)) = Cardinality(To(l)),
                      k # l
               PROVE  FALSE
    OBVIOUS
  <2>1. k \in Nat /\ l \in Nat
    OBVIOUS
  <2>2. Cardinality(To(k)) \in Nat
    BY <1>1
  <2>3. k < l \/ l < k
    BY <2>1
  <2>4. CASE k < l
    <3>1. Cardinality(To(k)) < Cardinality(To(l))
      BY <1>3, <2>4
    <3> HIDE DEF To
    <3> QED
      BY <3>1, <2>2
  <2>5. CASE l < k
    <3>1. Cardinality(To(l)) < Cardinality(To(k))
      BY <1>3, <2>5
    <3> HIDE DEF To
    <3> QED
      BY <3>1, <2>2
  <2> QED
    BY <2>3, <2>4, <2>5
<1>5. \A n \in 1..Cardinality(K) : \E i \in K : Cardinality(To(i)) = n
  <2> DEFINE Missed == {n \in 1..Cardinality(K) : \A i \in K : Cardinality(To(i)) # n}
  <2> SUFFICES ASSUME Missed # {} PROVE FALSE
    OBVIOUS
  <2>1. PICK n \in Missed : \A m \in Missed : n <= m
    <3>1. Missed \in SUBSET Nat
      BY <1>0
    <3> HIDE DEF Missed
    <3> QED
      BY <3>1, LeastOf
  <2>2. n \in 1..Cardinality(K) /\ n \in Nat
    BY <1>0
  (* The places of a rank below n, and those after them.                   *)
  <2>3. PICK low \in SUBSET K : /\ Cardinality(low) = n - 1
                                /\ \A i \in low, j \in K \ low : i < j
    <3>1. CASE n = 1
      <4>1. Cardinality({}) = 0
        BY FS_EmptySet
      <4> QED
        BY <3>1, <4>1
    <3>2. CASE n # 1
      <4>1. n - 1 \in 1..Cardinality(K) /\ n - 1 \notin Missed
        <5>1. n - 1 \in 1..Cardinality(K)
          BY <1>0, <2>2, <3>2
        <5>2. ~(n <= n - 1)
          BY <2>2
        <5> HIDE DEF Missed
        <5> QED
          BY <5>1, <5>2, <2>1
      <4>2. PICK i \in K : Cardinality(To(i)) = n - 1
        BY <4>1
      <4>3. To(i) \in SUBSET K /\ \A k \in To(i), j \in K \ To(i) : k < j
        OBVIOUS
      <4> HIDE DEF To
      <4> QED
        BY <4>2, <4>3
    <3> QED
      BY <3>1, <3>2
  <2>4. K \ low # {}
    <3>1. CASE K \ low = {}
      <4>1. low = K
        BY <3>1
      <4> QED
        BY <4>1, <2>2, <2>3, <1>0
    <3> QED
      BY <3>1
  <2>5. PICK i \in K \ low : \A j \in K \ low : i <= j
    BY <2>4, LeastOf
  <2>6. To(i) = low \cup {i} /\ i \notin low
    <3>1. ASSUME NEW j \in K
          PROVE  j <= i <=> j \in low \cup {i}
      <4>1. i \in Nat /\ j \in Nat
        OBVIOUS
      <4>2. j \in low => j < i
        BY <2>3, <2>5
      <4>3. j \notin low => i <= j
        BY <2>5
      <4> QED
        BY <4>1, <4>2, <4>3
    <3> QED
      BY <3>1
  <2>7. Cardinality(To(i)) = n
    <3>1. IsFiniteSet(low)
      BY FS_Subset
    <3>2. Cardinality(low \cup {i}) = Cardinality(low) + 1
      BY <3>1, <2>6, FS_AddElement
    <3> HIDE DEF To
    <3> QED
      BY <3>2, <2>2, <2>3, <2>6
  <2> QED
    BY <2>1, <2>7
<1> QED
  BY <1>0, <1>1, <1>2, <1>4, <1>5 DEF Rank

(* What is left of a list without some of it, in no two places the same.   *)
LEMMA WithoutGone ==
  ASSUME NEW S, NEW list \in Seq(S), NEW gone,
         \A i, j \in DOMAIN list : list[i] = list[j] => i = j
  PROVE  LET left == Without(list, gone)
         IN /\ left \in Seq(S)
            /\ Range(left) = Range(list) \ gone
            /\ \A i, j \in DOMAIN left : left[i] = left[j] => i = j
<1> DEFINE K == Kept(list, gone)
           At(n) == CHOOSE i \in K : Rank(K, i) = n
           left == Without(list, gone)
<1>1. /\ K \subseteq DOMAIN list /\ K \in SUBSET Nat /\ IsFiniteSet(K)
      /\ \A i \in DOMAIN list : i \in K <=> list[i] \notin gone
  <2>1. K \subseteq 1..Len(list)
    BY DEF Kept
  <2>2. IsFiniteSet(1..Len(list))
    BY FS_Interval
  <2>3. IsFiniteSet(K)
    BY <2>1, <2>2, FS_Subset
  <2> QED
    BY <2>1, <2>3 DEF Kept
<1>2. Cardinality(K) \in Nat
  BY <1>1, FS_CardinalityType
<1>3. left = [n \in 1..Cardinality(K) |-> list[At(n)]]
  BY DEF Without
<1> HIDE DEF K, left
<1>4. \A n \in 1..Cardinality(K) : At(n) \in K /\ Rank(K, At(n)) = n
  BY <1>1, Ranks
<1>5. \A i \in K : Rank(K, i) \in 1..Cardinality(K) /\ At(Rank(K, i)) = i
  BY <1>1, Ranks
<1> HIDE DEF At
<1>6. left \in Seq(S)
  <2>1. \A n \in 1..Cardinality(K) : list[At(n)] \in S
    BY <1>1, <1>4
  <2> QED
    BY <2>1, <1>2, <1>3
<1>7. DOMAIN left = 1..Cardinality(K) /\ \A n \in DOMAIN left : left[n] = list[At(n)]
  BY <1>3
<1>8. Range(left) = Range(list) \ gone
  <2>1. ASSUME NEW c \in Range(left)
        PROVE  c \in Range(list) \ gone
    BY <1>1, <1>4, <1>7 DEF Range
  <2>2. ASSUME NEW c \in Range(list) \ gone
        PROVE  c \in Range(left)
    <3>1. PICK i \in DOMAIN list : list[i] = c
      BY DEF Range
    <3>2. i \in K
      BY <1>1, <3>1
    <3> QED
      BY <3>1, <3>2, <1>5, <1>7 DEF Range
  <2> QED
    BY <2>1, <2>2
<1>9. ASSUME NEW i \in DOMAIN left, NEW j \in DOMAIN left, left[i] = left[j]
      PROVE  i = j
  <2>1. At(i) \in DOMAIN list /\ At(j) \in DOMAIN list /\ list[At(i)] = list[At(j)]
    BY <1>1, <1>4, <1>7, <1>9
  <2>2. At(i) = At(j)
    BY <2>1
  <2> QED
    BY <2>2, <1>4, <1>7
<1> QED
  BY <1>6, <1>8, <1>9 DEF left
=============================================================================
