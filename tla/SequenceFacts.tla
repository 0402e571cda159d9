---------------------------- MODULE SequenceFacts ----------------------------
(***************************************************************************)
(* What the proofs need to know of the lists the code keeps, queues in     *)
(* memory and what was delivered from them: which elements they have, and  *)
(* at which places, after something is appended, joined or taken off.      *)
(***************************************************************************)
EXTENDS SequencesExt, SequenceTheorems, FiniteSetTheorems, WellFoundedInduction, TLAPS

(* The elements of a list, and of lists that are joined.                   *)
LEMMA ElementsOf ==
  ASSUME NEW S, NEW q \in Seq(S), NEW s \in Seq(S)
  PROVE  /\ ToSet(q) \subseteq S /\ ToSet(<<>>) = {}
         /\ ToSet(q \o s) = ToSet(q) \union ToSet(s)
         /\ \A x \in S : ToSet(Append(q, x)) = ToSet(q) \union {x}
<1>1. ToSet(q) \subseteq S /\ ToSet(<<>>) = {}
  BY DEF ToSet
<1>2. ToSet(q \o s) = ToSet(q) \union ToSet(s)
  <2>1. q \o s \in Seq(S) /\ Len(q \o s) = Len(q) + Len(s)
    OBVIOUS
  <2>2. \A i \in 1..Len(q) : i \in 1..Len(q \o s) /\ (q \o s)[i] = q[i]
    OBVIOUS
  <2>3. \A i \in 1..Len(s) : Len(q) + i \in 1..Len(q \o s) /\ (q \o s)[Len(q) + i] = s[i]
    OBVIOUS
  <2>4. \A i \in 1..Len(q \o s) : 
         i \in 1..Len(q) \/ (i - Len(q) \in 1..Len(s) /\ i = Len(q) + (i - Len(q)))
    BY <2>1
  <2>5. DOMAIN q = 1..Len(q) /\ DOMAIN s = 1..Len(s) /\ DOMAIN (q \o s) = 1..Len(q \o s)
    BY <2>1
  <2>6. ASSUME NEW y \in ToSet(q \o s) PROVE y \in ToSet(q) \union ToSet(s)
    <3>1. PICK i \in 1..Len(q \o s) : y = (q \o s)[i]
      BY <2>5 DEF ToSet
    <3>2. CASE i \in 1..Len(q)
      BY <3>1, <3>2, <2>2, <2>5 DEF ToSet
    <3>3. CASE i - Len(q) \in 1..Len(s) /\ i = Len(q) + (i - Len(q))
      <4>1. y = s[i - Len(q)]
        BY <3>1, <3>3, <2>3
      <4> QED
        BY <3>3, <4>1, <2>5 DEF ToSet
    <3> QED
      BY <3>2, <3>3, <2>4
  <2>7. ASSUME NEW y \in ToSet(q) PROVE y \in ToSet(q \o s)
    BY <2>2, <2>5 DEF ToSet
  <2>8. ASSUME NEW y \in ToSet(s) PROVE y \in ToSet(q \o s)
    <3>1. PICK i \in 1..Len(s) : y = s[i]
      BY <2>5 DEF ToSet
    <3> QED
      BY <3>1, <2>3, <2>5 DEF ToSet
  <2> QED
    BY <2>6, <2>7, <2>8
<1>3. ASSUME NEW x \in S PROVE ToSet(Append(q, x)) = ToSet(q) \union {x}
  <2>1. DOMAIN Append(q, x) = 1..(Len(q) + 1) /\ DOMAIN q = 1..Len(q)
    OBVIOUS
  <2>2. \A i \in 1..Len(q) : Append(q, x)[i] = q[i]
    OBVIOUS
  <2>3. Append(q, x)[Len(q) + 1] = x
    OBVIOUS
  <2>4. \A i \in 1..(Len(q) + 1) : i \in 1..Len(q) \/ i = Len(q) + 1
    OBVIOUS
  <2>5. 1..Len(q) \subseteq 1..(Len(q) + 1) /\ Len(q) + 1 \in 1..(Len(q) + 1)
    OBVIOUS
  <2> QED
    BY <2>1, <2>2, <2>3, <2>4, <2>5 DEF ToSet
<1> QED
  BY <1>1, <1>2, <1>3

(* A list that is read: its first element and the places of the others.    *)
LEMMA HeadAndTail ==
  ASSUME NEW S, NEW q \in Seq(S), q # <<>>
  PROVE  /\ Head(q) \in S /\ Tail(q) \in Seq(S) /\ ToSet(q) = {Head(q)} \union ToSet(Tail(q))
         /\ Head(q) = q[1] /\ 1 \in DOMAIN q /\ Len(Tail(q)) = Len(q) - 1
         /\ \A i \in DOMAIN Tail(q) : i \in Nat /\ i + 1 \in DOMAIN q /\ Tail(q)[i] = q[i + 1]
<1>1. /\ DOMAIN q = 1..Len(q) /\ DOMAIN Tail(q) = 1..(Len(q) - 1) /\ Len(q) \in Nat /\ Len(q) >= 1
      /\ Head(q) = q[1] /\ \A i \in 1..(Len(q) - 1) : Tail(q)[i] = q[i + 1]
      /\ Tail(q) \in Seq(S) /\ Head(q) \in S /\ Len(Tail(q)) = Len(q) - 1
  OBVIOUS
<1>2. \A i \in 1..(Len(q) - 1) : i + 1 \in 1..Len(q)
  BY <1>1
<1>3. \A i \in 1..Len(q) : i = 1 \/ (i - 1 \in 1..(Len(q) - 1) /\ (i - 1) + 1 = i)
  BY <1>1
<1>4. ASSUME NEW y \in ToSet(q) PROVE y \in {Head(q)} \union ToSet(Tail(q))
  <2>1. PICK i \in 1..Len(q) : y = q[i]
    BY <1>1 DEF ToSet
  <2>2. CASE i = 1
    BY <2>1, <2>2, <1>1
  <2>3. CASE i - 1 \in 1..(Len(q) - 1) /\ (i - 1) + 1 = i
    <3>1. Tail(q)[i - 1] = y
      BY <2>1, <2>3, <1>1
    <3> QED
      BY <2>3, <3>1, <1>1 DEF ToSet
  <2> QED
    BY <2>2, <2>3, <1>3
<1>5. Head(q) \in ToSet(q)
  BY <1>1 DEF ToSet
<1>6. ASSUME NEW y \in ToSet(Tail(q)) PROVE y \in ToSet(q)
  <2>1. PICK i \in 1..(Len(q) - 1) : y = Tail(q)[i]
    BY <1>1 DEF ToSet
  <2> QED
    BY <2>1, <1>1, <1>2 DEF ToSet
<1> QED
  BY <1>1, <1>2, <1>4, <1>5, <1>6

(* A list that grows at its end: its elements and their places.            *)
LEMMA AppendedIs ==
  ASSUME NEW S, NEW q \in Seq(S), NEW x \in S
  PROVE  /\ Append(q, x) \in Seq(S) /\ ToSet(Append(q, x)) = ToSet(q) \union {x}
         /\ Len(q) \in Nat /\ DOMAIN q = 1..Len(q) /\ DOMAIN Append(q, x) = 1..(Len(q) + 1)
         /\ Len(Append(q, x)) = Len(q) + 1
         /\ \A i \in DOMAIN Append(q, x) : \/ i \in DOMAIN q /\ Append(q, x)[i] = q[i]
                                           \/ i = Len(q) + 1 /\ Append(q, x)[i] = x
<1>1. ToSet(Append(q, x)) = ToSet(q) \union {x}
  BY ElementsOf
<1> QED
  BY <1>1

(* A list over a set is one over any larger set.                           *)
LEMMA WiderSeq == ASSUME NEW S, NEW T, S \subseteq T PROVE Seq(S) \subseteq Seq(T)
OBVIOUS

(* Numbers up to a bound, and lists of them, are so up to a larger bound.  *)
LEMMA LongerRange ==
  ASSUME NEW m \in Nat, NEW n \in Nat, m <= n
  PROVE  1..m \subseteq 1..n /\ Seq(1..m) \subseteq Seq(1..n)
<1>1. 1..m \subseteq 1..n
  OBVIOUS
<1>2. ASSUME NEW S, NEW T, S \subseteq T PROVE Seq(S) \subseteq Seq(T)
  BY <1>2
<1> QED
  BY <1>1, <1>2

(* The lists of the elements of a set, as many as it has, in the order of  *)
(* their numbers.                                                          *)
InOrder(at, S) ==
  {q \in [1..Cardinality(S) -> S] : \A i, j \in DOMAIN q : i < j => at[q[i]] < at[q[j]]}

(* The elements of a finite set in the order of a number each has alone:   *)
(* there is such a list, and it leaves out none.                           *)
LEMMA InOrderOf ==
  ASSUME NEW T, NEW at \in [T -> Nat], NEW S \in SUBSET T, IsFiniteSet(S),
         \A e, f \in S : e # f => at[e] # at[f]
  PROVE  /\ \E q : q \in InOrder(at, S)
         /\ \A q \in InOrder(at, S) : q \in Seq(S) /\ ToSet(q) = S
<1> DEFINE n == Cardinality(S)
           UpTo(e) == {f \in S : at[f] <= at[e]}
           rank == [e \in S |-> Cardinality(UpTo(e))]
           Sorted(q) == \A i, j \in DOMAIN q : i < j => at[q[i]] < at[q[j]]
<1>1. IsFiniteSet(S) /\ n \in Nat
  BY FS_CardinalityType
<1>2. \A e \in S : at[e] \in Nat
  OBVIOUS
<1>3. ASSUME NEW e \in S PROVE IsFiniteSet(UpTo(e)) /\ rank[e] \in 1..n
  <2>1. UpTo(e) \in SUBSET S
    OBVIOUS
  <2>2. IsFiniteSet(UpTo(e)) /\ Cardinality(UpTo(e)) <= n
    BY <1>1, <2>1, FS_Subset
  <2>3. e \in UpTo(e)
    BY <1>2
  <2>4. Cardinality(UpTo(e)) \in Nat /\ Cardinality(UpTo(e)) # 0
    BY <2>2, <2>3, FS_CardinalityType, FS_EmptySet
  <2> QED
    BY <2>2, <2>4, <1>1
<1>4. ASSUME NEW e \in S, NEW f \in S, at[e] < at[f] PROVE rank[e] < rank[f]
  <2>1. UpTo(e) \in SUBSET UpTo(f)
    BY <1>2, <1>4
  <2>2. f \in UpTo(f) /\ f \notin UpTo(e)
    BY <1>2, <1>4
  <2>3. UpTo(e) # UpTo(f)
    BY <2>2
  <2> HIDE DEF UpTo
  <2>4. /\ IsFiniteSet(UpTo(f)) /\ IsFiniteSet(UpTo(e))
    BY <1>3
  <2>5. Cardinality(UpTo(e)) <= Cardinality(UpTo(f)) /\ Cardinality(UpTo(e)) # Cardinality(UpTo(f))
    BY <2>1, <2>3, <2>4, FS_Subset
  <2>6. Cardinality(UpTo(e)) \in Nat /\ Cardinality(UpTo(f)) \in Nat
    BY <2>4, FS_CardinalityType
  <2> QED
    BY <2>5, <2>6
<1> HIDE DEF UpTo, n
<1>5. \A e, f \in S : e # f => at[e] < at[f] \/ at[f] < at[e]
  <2> SUFFICES ASSUME NEW e \in S, NEW f \in S, e # f PROVE at[e] < at[f] \/ at[f] < at[e]
    OBVIOUS
  <2>1. at[e] # at[f]
    OBVIOUS
  <2> QED
    BY <2>1, <1>2
<1>6. rank \in Injection(S, 1..n)
  <2>1. rank \in [S -> 1..n]
    BY <1>3
  <2>2. \A e \in S : rank[e] \in Nat
    BY <1>3, <1>1
  <2> HIDE DEF rank
  <2>3. \A e, f \in S : rank[e] = rank[f] => e = f
    <3> SUFFICES ASSUME NEW e \in S, NEW f \in S, e # f PROVE rank[e] # rank[f]
      OBVIOUS
    <3>1. rank[e] < rank[f] \/ rank[f] < rank[e]
      BY <1>4, <1>5
    <3> QED
      BY <2>2, <3>1
  <2> QED
    BY <2>1, <2>3 DEF Injection, IsInjective
<1>7. rank \in Surjection(S, 1..n)
  <2>1. IsFiniteSet(1..n) /\ Cardinality(1..n) = n
    BY <1>1, FS_Interval
  <2> HIDE DEF rank
  <2>2. Cardinality(S) = Cardinality(1..n) <=> rank \in Surjection(S, 1..n)
    BY <1>6, <2>1, FS_Injection
  <2> QED
    BY <2>1, <2>2 DEF n
<1> HIDE DEF rank
<1>8. \E q \in [1..n -> S] : Sorted(q)
  <2> DEFINE q == [i \in 1..n |-> CHOOSE e \in S : rank[e] = i]
  <2>1. \A i \in 1..n : q[i] \in S /\ rank[q[i]] = i
    <3> SUFFICES ASSUME NEW i \in 1..n PROVE q[i] \in S /\ rank[q[i]] = i
      OBVIOUS
    <3>1. \E e \in S : rank[e] = i
      BY <1>7 DEF Surjection
    <3> QED
      BY <3>1
  <2>2. q \in [1..n -> S]
    BY <2>1
  <2> HIDE DEF q
  <2>3. ASSUME NEW i \in 1..n, NEW j \in 1..n, i < j PROVE at[q[i]] < at[q[j]]
    <3>1. q[i] \in S /\ q[j] \in S /\ rank[q[i]] = i /\ rank[q[j]] = j
      BY <2>1
    <3>2. q[i] # q[j]
      BY <3>1, <2>3, <1>1
    <3>3. ~(at[q[j]] < at[q[i]])
      <4> SUFFICES ASSUME at[q[j]] < at[q[i]] PROVE FALSE
        OBVIOUS
      <4>1. j < i
        BY <1>4, <3>1
      <4> QED
        BY <4>1, <2>3, <1>1
    <3> QED
      BY <3>1, <3>2, <3>3, <1>5
  <2>4. DOMAIN q = 1..n
    BY <2>2
  <2> QED
    BY <2>2, <2>3, <2>4
<1>9. ASSUME NEW q \in [1..n -> S], Sorted(q) PROVE q \in Seq(S) /\ ToSet(q) = S
  <2>1. DOMAIN q = 1..n /\ \A i \in 1..n : at[q[i]] \in Nat
    BY <1>2, <1>9
  <2>2. \A i, j \in 1..n : q[i] = q[j] => i = j
    <3> SUFFICES ASSUME NEW i \in 1..n, NEW j \in 1..n, i # j PROVE q[i] # q[j]
      OBVIOUS
    <3>1. i < j \/ j < i
      BY <1>1
    <3>2. at[q[i]] < at[q[j]] \/ at[q[j]] < at[q[i]]
      BY <3>1, <2>1, <1>9
    <3> QED
      BY <2>1, <3>2
  <2>3. q \in Injection(1..n, S)
    BY <2>2, <1>9 DEF Injection, IsInjective
  <2>4. IsFiniteSet(1..n) /\ Cardinality(1..n) = n
    BY <1>1, FS_Interval
  <2>5. q \in Surjection(1..n, S)
    <3>1. Cardinality(1..n) = Cardinality(S)
      BY <2>4 DEF n
    <3> QED
      BY <1>1, <2>3, <3>1, FS_Injection
  <2>6. ToSet(q) = S
    BY <2>1, <2>5 DEF Surjection, ToSet
  <2>7. q \in Seq(S)
    BY <1>1, <1>9, SeqDef
  <2> QED
    BY <2>6, <2>7
<1> QED
  BY <1>8, <1>9 DEF n, InOrder

(* A stretch of a list: the elements at its places.                        *)
LEMMA StretchIs ==
  ASSUME NEW S, NEW q \in Seq(S), NEW a \in Nat \ {0}, NEW b \in Nat, b <= Len(q)
  PROVE  ToSet(SubSeq(q, a, b)) = {q[m] : m \in a..b}
<1>1. Len(q) \in Nat
  OBVIOUS
<1> DEFINE s == SubSeq(q, a, b)
<1>2. CASE a > b
  <2>1. s = <<>> /\ a..b = {}
    BY <1>1, <1>2
  <2> QED
    BY <2>1 DEF ToSet
<1>3. CASE a <= b
  <2>1. /\ DOMAIN s = 1..(b - a + 1) /\ \A i \in 1..(b - a + 1) : s[i] = q[i + a - 1]
    BY <1>1, <1>3
  <2> HIDE DEF s
  <2>2. ASSUME NEW i \in 1..(b - a + 1) PROVE i + a - 1 \in a..b
    OBVIOUS
  <2>3. ASSUME NEW m \in a..b PROVE m - a + 1 \in 1..(b - a + 1) /\ (m - a + 1) + a - 1 = m
    OBVIOUS
  <2>4. ToSet(s) \subseteq {q[m] : m \in a..b}
    BY <2>1, <2>2 DEF ToSet
  <2>5. \A m \in a..b : q[m] \in ToSet(s)
    BY <2>1, <2>3 DEF ToSet
  <2> QED
    BY <2>4, <2>5 DEF s
<1> QED
  BY <1>1, <1>2, <1>3

(* A set of numbers has a least one.                                       *)
LEMMA LeastNumber ==
  ASSUME NEW T \in SUBSET Nat, T # {}
  PROVE  \E x \in T : \A y \in T : x <= y
<1>1. \E x \in T : \A y \in T : <<y, x>> \notin OpToRel(<, Nat)
  BY NatLessThanWellFounded, WFMin
<1>2. PICK x \in T : \A y \in T : <<y, x>> \notin OpToRel(<, Nat)
  BY <1>1
<1>3. \A y \in T : ~(y < x)
  BY <1>2 DEF OpToRel
<1> QED
  BY <1>3

(* Numbers up to a bound have a greatest one.                              *)
LEMMA MaxIs ==
  ASSUME NEW n \in Nat, NEW S \in SUBSET (0..n), S # {}
  PROVE  Max(S) \in S /\ \A x \in S : x <= Max(S)
<1> DEFINE Above == {k \in Nat : \A x \in S : x <= k}
<1>1. PICK m \in Above : \A k \in Above : m <= k
  <2>1. n \in Above
    OBVIOUS
  <2>2. Above \in SUBSET Nat /\ Above # {}
    BY <2>1
  <2> HIDE DEF Above
  <2> QED
    BY <2>2, LeastNumber
<1>2. m \in Nat /\ \A x \in S : x \in Nat /\ x <= m
  BY <1>1
<1>3. m \in S
  <2> SUFFICES ASSUME m \notin S PROVE FALSE
    OBVIOUS
  <2>1. \A x \in S : x <= m - 1
    BY <1>2
  <2>2. m - 1 \in Nat
    <3>1. PICK x \in S : TRUE
      OBVIOUS
    <3> QED
      BY <1>2, <2>1, <3>1
  <2>3. m - 1 \in Above
    BY <2>1, <2>2
  <2> QED
    BY <1>1, <1>2, <2>3
<1>4. \E k \in S : \A x \in S : k >= x
  BY <1>2, <1>3
<1>5. Max(S) \in S /\ \A x \in S : Max(S) >= x
  BY <1>4 DEF Max
<1> QED
  BY <1>2, <1>5
=============================================================================
