---------------------------- MODULE ListsProofs ----------------------------
(***************************************************************************)
(* Theorems about two programs of one thread that keep lists by hand:      *)
(* EdmondsKarp, for every city and whoever stands where, and ContactBook,  *)
(* for every set of names, places, keys and domains and every hash         *)
(* function.  The two have nothing in common but the lemmas about lists.   *)
(***************************************************************************)
EXTENDS EdmondsKarp, ContactBook,
        FiniteSetTheorems, SequenceTheorems, WellFoundedInduction, TLAPS

-----------------------------------------------------------------------------
\* Lists without repetitions.

LEMMA LeastElement ==
  ASSUME NEW S \in SUBSET Nat, S # {}
  PROVE  \E i \in S : \A j \in S : i <= j
<1>1. PICK i \in S : \A j \in S : <<j, i>> \notin OpToRel(<, Nat)
  BY NatLessThanWellFounded, WFMin, Zenon
<1>2. \A j \in S : ~(j < i)
  BY <1>1 DEF OpToRel
<1>. QED
  BY <1>2

\* Every element once.
Once(w) == \A i, j \in 1 .. Len(w) : w[i] = w[j] => i = j

LEMMA SetOf ==
  ASSUME NEW S, NEW w \in Seq(S)
  PROVE  /\ \A x : x \in ToSet(w) <=> \E i \in 1 .. Len(w) : x = w[i]
         /\ ToSet(w) \subseteq S
         /\ IsInjective(w) <=> Once(w)
         /\ \A x : Contains(w, x) <=> x \in ToSet(w)
<1>1. DOMAIN w = 1 .. Len(w) /\ \A i \in 1 .. Len(w) : w[i] \in S
  BY LenProperties, ElementOfSeq
<1>. QED
  BY <1>1 DEF ToSet, IsInjective, Contains, Once

LEMMA RemoveAtIs ==
  ASSUME NEW S, NEW w \in Seq(S), NEW i \in 1 .. Len(w)
  PROVE  /\ RemoveAt(w, i) \in Seq(S)
         /\ Len(RemoveAt(w, i)) = Len(w) - 1
         /\ \A j \in 1 .. Len(w) - 1 :
              RemoveAt(w, i)[j] = IF j < i THEN w[j] ELSE w[j + 1]
<1> DEFINE a == SubSeq(w, 1, i - 1)
           c == SubSeq(w, i + 1, Len(w))
<1>1. Len(w) \in Nat /\ i \in Int /\ \A j \in 1 .. Len(w) : w[j] \in S
  BY LenProperties, ElementOfSeq
<1>2. /\ a \in Seq(S) /\ Len(a) = i - 1
      /\ \A j \in 1 .. i - 1 : a[j] = w[j]
  <2>1. \A j \in 1 .. i - 1 : w[j] \in S
    BY <1>1
  <2>2. 1 \in Int /\ i - 1 \in Int
    BY <1>1
  <2>3. /\ a \in Seq(S) /\ Len(a) = IF 1 <= i - 1 THEN (i - 1) - 1 + 1 ELSE 0
        /\ \A j \in 1 .. (i - 1) - 1 + 1 : a[j] = w[1 + j - 1]
    BY <2>1, <2>2, SubSeqProperties
  <2> HIDE DEF a
  <2>4. Len(a) = i - 1
    BY <1>1, <2>3
  <2>5. ASSUME NEW j \in 1 .. i - 1 PROVE a[j] = w[j]
    <3>1. j \in 1 .. (i - 1) - 1 + 1 /\ 1 + j - 1 = j
      BY <1>1
    <3>. QED
      BY <2>3, <3>1
  <2>. QED
    BY <2>3, <2>4, <2>5
<1>3. /\ c \in Seq(S) /\ Len(c) = Len(w) - i
      /\ \A j \in 1 .. Len(w) - i : c[j] = w[i + j]
  <2>1. \A j \in i + 1 .. Len(w) : w[j] \in S
    BY <1>1
  <2>2. i + 1 \in Int /\ Len(w) \in Int
    BY <1>1
  <2>3. /\ c \in Seq(S) /\ Len(c) = IF i + 1 <= Len(w) THEN Len(w) - (i + 1) + 1 ELSE 0
        /\ \A j \in 1 .. Len(w) - (i + 1) + 1 : c[j] = w[i + 1 + j - 1]
    BY <2>1, <2>2, SubSeqProperties
  <2> HIDE DEF c
  <2>4. Len(c) = Len(w) - i
    BY <1>1, <2>3
  <2>5. ASSUME NEW j \in 1 .. Len(w) - i PROVE c[j] = w[i + j]
    <3>1. j \in 1 .. Len(w) - (i + 1) + 1 /\ i + 1 + j - 1 = i + j
      BY <1>1
    <3>. QED
      BY <2>3, <3>1
  <2>. QED
    BY <2>3, <2>4, <2>5
<1> HIDE DEF a, c
<1>4. /\ a \o c \in Seq(S) /\ Len(a \o c) = Len(a) + Len(c)
      /\ \A j \in 1 .. Len(a) + Len(c) :
           (a \o c)[j] = IF j <= Len(a) THEN a[j] ELSE c[j - Len(a)]
  BY <1>2, <1>3, ConcatProperties
<1>5. RemoveAt(w, i) = a \o c
  BY DEF RemoveAt, a, c
<1>6. ASSUME NEW j \in 1 .. Len(w) - 1
      PROVE  (a \o c)[j] = IF j < i THEN w[j] ELSE w[j + 1]
  <2>1. j \in 1 .. Len(a) + Len(c)
    BY <1>1, <1>2, <1>3
  <2>2. CASE j < i
    <3>1. j <= Len(a) /\ j \in 1 .. i - 1
      BY <1>1, <1>2, <2>2
    <3>. QED
      BY <1>2, <1>4, <2>1, <2>2, <3>1
  <2>3. CASE ~(j < i)
    <3>1. ~(j <= Len(a)) /\ j - Len(a) \in 1 .. Len(w) - i /\ i + (j - Len(a)) = j + 1
      BY <1>1, <1>2, <2>3
    <3>. QED
      BY <1>3, <1>4, <2>1, <2>3, <3>1
  <2>. QED
    BY <2>2, <2>3
<1>7. Len(a \o c) = Len(w) - 1
  BY <1>1, <1>2, <1>3, <1>4
<1>. QED
  BY <1>4, <1>5, <1>6, <1>7

\* The node at place i is bypassed.

LEMMA NodesShort == 
  ASSUME NEW S, IsFiniteSet(S), NEW w \in Seq(S), Once(w)
  PROVE  Len(w) \in Nat /\ Len(w) <= Cardinality(S)
<1>1. w \in Injection(1 .. Len(w), S)
  <2>1. w \in [1 .. Len(w) -> S]
    BY LenProperties
  <2>. QED
    BY <2>1, Zenon DEF Injection, IsInjective, Once
<1>2. Cardinality(1 .. Len(w)) <= Cardinality(S)
  BY <1>1, FS_Injection
<1>3. Len(w) \in Nat
  BY LenProperties
<1>4. Cardinality(1 .. Len(w)) = Len(w)
  <2>1. 1 \in Int /\ Len(w) \in Int
    BY <1>3
  <2>2. Cardinality(1 .. Len(w)) = IF 1 > Len(w) THEN 0 ELSE Len(w) - 1 + 1
    BY <2>1, FS_Interval, Zenon
  <2>. QED
    BY <1>3, <2>2
<1>. QED
  BY <1>2, <1>3, <1>4

\* Two lists with no element in common, one after the other.
LEMMA JoinedIs ==
  ASSUME NEW S, NEW v \in Seq(S), NEW w \in Seq(S), Once(v), Once(w),
         ToSet(v) \cap ToSet(w) = {}
  PROVE  /\ v \o w \in Seq(S) /\ Once(v \o w)
         /\ ToSet(v \o w) = ToSet(v) \cup ToSet(w)
         /\ Len(v \o w) = Len(v) + Len(w)
         /\ \A i \in 1 .. Len(v) : (v \o w)[i] = v[i]
         /\ \A i \in 1 .. Len(w) : (v \o w)[Len(v) + i] = w[i]
<1> DEFINE u == v \o w
<1>1. Len(v) \in Nat /\ Len(w) \in Nat
  BY LenProperties
<1>2. /\ u \in Seq(S) /\ Len(u) = Len(v) + Len(w)
      /\ \A i \in 1 .. Len(v) + Len(w) : u[i] = IF i <= Len(v) THEN v[i] ELSE w[i - Len(v)]
  BY ConcatProperties
<1> HIDE DEF u
<1>3. /\ \A i \in 1 .. Len(v) : u[i] = v[i]
      /\ \A i \in 1 .. Len(w) : u[Len(v) + i] = w[i]
  <2>1. ASSUME NEW i \in 1 .. Len(v) PROVE u[i] = v[i]
    <3>1. i \in 1 .. Len(v) + Len(w) /\ i <= Len(v)
      BY <1>1
    <3>. QED
      BY <1>2, <3>1
  <2>2. ASSUME NEW i \in 1 .. Len(w) PROVE u[Len(v) + i] = w[i]
    <3>1. Len(v) + i \in 1 .. Len(v) + Len(w) /\ ~(Len(v) + i <= Len(v)) /\ Len(v) + i - Len(v) = i
      BY <1>1
    <3>. QED
      BY <1>2, <3>1
  <2>. QED
    BY <2>1, <2>2
<1>4. ASSUME NEW i \in 1 .. Len(u)
      PROVE  i \in 1 .. Len(v) \/ \E j \in 1 .. Len(w) : i = Len(v) + j
  <2>1. CASE i <= Len(v)
    BY <1>1, <2>1
  <2>2. CASE ~(i <= Len(v))
    <3>1. i - Len(v) \in 1 .. Len(w) /\ i = Len(v) + (i - Len(v))
      BY <1>1, <1>2, <2>2
    <3>. QED
      BY <3>1
  <2>. QED
    BY <2>1, <2>2
<1>5. /\ \A i \in 1 .. Len(v) : i \in 1 .. Len(u)
      /\ \A i \in 1 .. Len(w) : Len(v) + i \in 1 .. Len(u)
  BY <1>1, <1>2
<1>6. ASSUME NEW x
      PROVE  x \in ToSet(u) <=> x \in ToSet(v) \cup ToSet(w)
  <2>1. x \in ToSet(u) => x \in ToSet(v) \/ x \in ToSet(w)
    <3>1. SUFFICES ASSUME NEW i \in 1 .. Len(u), x = u[i]
                   PROVE  x \in ToSet(v) \/ x \in ToSet(w)
      BY <1>2, SetOf
    <3>2. CASE i \in 1 .. Len(v)
      BY <1>3, <3>1, <3>2, SetOf
    <3>3. CASE i \notin 1 .. Len(v)
      <4>1. PICK j \in 1 .. Len(w) : i = Len(v) + j
        BY <1>4, <3>3
      <4>2. x = w[j]
        BY <1>3, <3>1, <4>1
      <4>. QED
        BY <4>2, SetOf
    <3>. QED
      BY <3>2, <3>3
  <2>2. x \in ToSet(v) => x \in ToSet(u)
    <3>1. SUFFICES ASSUME NEW i \in 1 .. Len(v), x = v[i]
                   PROVE  x \in ToSet(u)
      BY SetOf
    <3>. QED
      BY <1>2, <1>3, <1>5, <3>1, SetOf
  <2>3. x \in ToSet(w) => x \in ToSet(u)
    <3>1. SUFFICES ASSUME NEW i \in 1 .. Len(w), x = w[i]
                   PROVE  x \in ToSet(u)
      BY SetOf
    <3>. QED
      BY <1>2, <1>3, <1>5, <3>1, SetOf
  <2>. QED
    BY <2>1, <2>2, <2>3
<1>7. Once(u)
  <2>1. SUFFICES ASSUME NEW i \in 1 .. Len(u), NEW j \in 1 .. Len(u), u[i] = u[j]
                 PROVE  i = j
    BY DEF Once
  <2>2. \A a \in 1 .. Len(v), b \in 1 .. Len(w) : v[a] # w[b]
    BY SetOf
  <2>3. CASE i \in 1 .. Len(v) /\ j \in 1 .. Len(v)
    BY <1>3, <2>1, <2>3 DEF Once
  <2>4. CASE i \in 1 .. Len(v) /\ \E b \in 1 .. Len(w) : j = Len(v) + b
    BY <1>3, <2>1, <2>2, <2>4
  <2>5. CASE j \in 1 .. Len(v) /\ \E b \in 1 .. Len(w) : i = Len(v) + b
    BY <1>3, <2>1, <2>2, <2>5
  <2>6. CASE (\E b \in 1 .. Len(w) : i = Len(v) + b) /\ (\E b \in 1 .. Len(w) : j = Len(v) + b)
    <3>1. PICK a \in 1 .. Len(w) : i = Len(v) + a
      BY <2>6
    <3>2. PICK b \in 1 .. Len(w) : j = Len(v) + b
      BY <2>6
    <3>3. w[a] = w[b]
      BY <1>3, <2>1, <3>1, <3>2
    <3>4. a = b
      BY <3>3 DEF Once
    <3>. QED
      BY <3>1, <3>2, <3>4
  <2>. QED
    BY <1>4, <2>3, <2>4, <2>5, <2>6
<1>. QED
  BY <1>2, <1>3, <1>6, <1>7 DEF u

LEMMA OneIs ==
  ASSUME NEW S, NEW x \in S
  PROVE  <<x>> \in Seq(S) /\ Len(<<x>>) = 1 /\ <<x>>[1] = x /\ Once(<<x>>) /\ ToSet(<<x>>) = {x}
<1> DEFINE w == <<x>>
<1>1. w \in Seq(S) /\ Len(w) = 1 /\ w[1] = x
  OBVIOUS
<1> HIDE DEF w
<1>2. Once(w)
  BY <1>1 DEF Once
<1>3. \A y : y \in ToSet(w) <=> \E i \in 1 .. Len(w) : y = w[i]
  BY <1>1, SetOf
<1>4. ToSet(w) = {x}
  BY <1>1, <1>3
<1>. QED
  BY <1>1, <1>2, <1>4 DEF w

LEMMA NoneIs ==
  ASSUME NEW S
  PROVE  <<>> \in Seq(S) /\ Once(<<>>) /\ ToSet(<<>>) = {}
<1> DEFINE w == <<>>
<1>1. w \in Seq(S) /\ Len(w) = 0
  OBVIOUS
<1> HIDE DEF w
<1>2. Once(w)
  BY <1>1 DEF Once
<1>3. \A y : y \in ToSet(w) <=> \E i \in 1 .. Len(w) : y = w[i]
  BY <1>1, SetOf
<1>4. ToSet(w) = {}
  BY <1>1, <1>3
<1>. QED
  BY <1>1, <1>2, <1>4 DEF w

LEMMA HeadAndTail ==
  ASSUME NEW S, NEW w \in Seq(S), w # <<>>
  PROVE  /\ Head(w) \in S /\ Head(w) \in ToSet(w)
         /\ Tail(w) \in Seq(S) /\ ToSet(Tail(w)) \subseteq ToSet(w)
<1> DEFINE t == Tail(w)
<1>1. /\ Len(w) \in Nat /\ Len(w) > 0 /\ Head(w) = w[1]
      /\ t \in Seq(S) /\ Len(t) = Len(w) - 1
      /\ \A i \in 1 .. Len(t) : t[i] = w[i + 1]
  BY HeadTailProperties, LenProperties, EmptySeq
<1> HIDE DEF t
<1>2. Head(w) \in ToSet(w)
  <2>1. 1 \in 1 .. Len(w)
    BY <1>1
  <2>. QED
    BY <1>1, <2>1, SetOf
<1>3. ASSUME NEW x \in ToSet(t) PROVE x \in ToSet(w)
  <2>1. PICK i \in 1 .. Len(t) : x = t[i]
    BY <1>1, SetOf
  <2>2. x = w[i + 1] /\ i + 1 \in 1 .. Len(w)
    BY <1>1, <2>1
  <2>. QED
    BY <2>2, SetOf
<1>. QED
  BY <1>1, <1>2, <1>3, SetOf DEF t

LEMMA AppendedIs ==
  ASSUME NEW S, NEW w \in Seq(S), NEW x \in S
  PROVE  Append(w, x) \in Seq(S) /\ ToSet(Append(w, x)) \subseteq ToSet(w) \cup {x}
<1> DEFINE a == Append(w, x)
<1>1. /\ Len(w) \in Nat /\ a \in Seq(S) /\ Len(a) = Len(w) + 1
      /\ a[Len(w) + 1] = x /\ \A i \in 1 .. Len(w) : a[i] = w[i]
  BY AppendProperties, LenProperties
<1> HIDE DEF a
<1>2. ASSUME NEW y \in ToSet(a) PROVE y \in ToSet(w) \cup {x}
  <2>1. PICK i \in 1 .. Len(a) : y = a[i]
    BY <1>1, SetOf
  <2>2. CASE i = Len(w) + 1
    BY <1>1, <2>1, <2>2
  <2>3. CASE i # Len(w) + 1
    <3>1. i \in 1 .. Len(w) /\ y = w[i]
      BY <1>1, <2>1, <2>3
    <3>. QED
      BY <3>1, SetOf
  <2>. QED
    BY <2>2, <2>3
<1>. QED
  BY <1>1, <1>2 DEF a

\* deleteEdge.
LEMMA RemoveFirstIs ==
  ASSUME NEW S, NEW w \in Seq(S), Once(w), NEW e \in ToSet(w)
  PROVE  /\ RemoveFirst(w, e) \in Seq(S) /\ Once(RemoveFirst(w, e))
         /\ ToSet(RemoveFirst(w, e)) = ToSet(w) \ {e}
<1>1. PICK i \in 1 .. Len(w) : w[i] = e
  BY SetOf
<1>2. Len(w) \in Nat
  BY LenProperties
<1>3. SelectInSeq(w, LAMBDA v : v = e) = i
  <2> DEFINE I == {k \in 1 .. Len(w) : w[k] = e}
  <2>1. I = {i}
    BY <1>1 DEF Once
  <2>2. Min({i}) = i
    <3>1. \A y \in {i} : i =< y
      BY <1>2
    <3>. QED
      BY <3>1 DEF Min
  <2>3. SelectInSeq(w, LAMBDA v : v = e) = IF I # {} THEN Min(I) ELSE 0
    BY DEF SelectInSeq
  <2>. QED
    BY <2>1, <2>2, <2>3
<1> DEFINE u == RemoveAt(w, i)
<1>4. RemoveFirst(w, e) = u
  BY <1>1, <1>3 DEF RemoveFirst
<1>5. /\ u \in Seq(S) /\ Len(u) = Len(w) - 1
      /\ \A j \in 1 .. Len(w) - 1 : u[j] = IF j < i THEN w[j] ELSE w[j + 1]
  BY RemoveAtIs
<1> HIDE DEF u
<1> DEFINE old(j) == IF j < i THEN j ELSE j + 1
<1>6. \A j \in 1 .. Len(u) : old(j) \in 1 .. Len(w) /\ old(j) # i /\ u[j] = w[old(j)]
  BY <1>2, <1>5
<1>7. \A j, k \in 1 .. Len(u) : old(j) = old(k) => j = k
  BY <1>2, <1>5
<1>8. Once(u)
  <2> HIDE DEF old
  <2>. QED
    BY <1>6, <1>7 DEF Once
<1>9. ASSUME NEW k \in 1 .. Len(w), k # i PROVE \E j \in 1 .. Len(u) : u[j] = w[k]
  <2>1. CASE k < i
    <3>1. k \in 1 .. Len(u) /\ old(k) = k
      BY <1>2, <1>5, <2>1
    <3>. QED
      BY <1>6, <3>1
  <2>2. CASE ~(k < i)
    <3>1. k - 1 \in 1 .. Len(u) /\ old(k - 1) = k
      BY <1>2, <1>5, <1>9, <2>2
    <3>. QED
      BY <1>6, <3>1
  <2>. QED
    BY <2>1, <2>2
<1>10. ASSUME NEW x PROVE x \in ToSet(u) <=> x \in ToSet(w) /\ x # e
  <2> HIDE DEF old
  <2>1. ASSUME x \in ToSet(u) PROVE x \in ToSet(w) /\ x # e
    <3>1. PICK j \in 1 .. Len(u) : x = u[j]
      BY <1>5, <2>1, SetOf
    <3>2. x = w[old(j)] /\ old(j) \in 1 .. Len(w) /\ old(j) # i
      BY <1>6, <3>1
    <3>. QED
      BY <1>1, <3>2, SetOf DEF Once
  <2>2. ASSUME x \in ToSet(w), x # e PROVE x \in ToSet(u)
    <3>1. PICK k \in 1 .. Len(w) : x = w[k]
      BY <2>2, SetOf
    <3>2. k # i
      BY <1>1, <2>2, <3>1
    <3>. QED
      BY <1>5, <1>9, <3>1, <3>2, SetOf
  <2>. QED
    BY <2>1, <2>2
<1>. QED
  BY <1>4, <1>5, <1>8, <1>10

\* The members of a finite set of numbers are found once each, by their rank.
LEMMA LastFirstIs ==
  ASSUME NEW S \in SUBSET Nat, IsFiniteSet(S)
  PROVE  LastFirst(S) \in Seq(S) /\ Once(LastFirst(S))
<1> DEFINE above(n) == {m \in S : m > n}
           rank(n) == Cardinality(above(n))
           size == Cardinality(S)
<1>1. size \in Nat
  BY FS_CardinalityType
<1>2. ASSUME NEW n \in S
      PROVE  rank(n) \in Nat /\ rank(n) + 1 \in 1 .. size
  <2>1. above(n) \in SUBSET S /\ n \notin above(n)
    OBVIOUS
  <2> HIDE DEF above
  <2>2. IsFiniteSet(above(n)) /\ rank(n) \in Nat /\ rank(n) <= size /\ rank(n) # size
    BY <2>1, FS_Subset, FS_CardinalityType
  <2>. QED
    BY <1>1, <2>2
<1>3. ASSUME NEW n \in S, NEW m \in S, n < m
      PROVE  rank(n) # rank(m)
  <2>1. above(n) \in SUBSET S /\ m \in above(n) /\ m \notin above(m)
    BY <1>3
  <2>2. ASSUME NEW x \in above(m) PROVE x \in above(n)
    <3>1. x \in Nat /\ n \in Nat /\ m \in Nat
      OBVIOUS
    <3>. QED
      BY <1>3, <2>2, <3>1
  <2> HIDE DEF above
  <2>3. IsFiniteSet(above(n)) /\ above(m) \in SUBSET above(n)
    BY <2>1, <2>2, FS_Subset
  <2>. QED
    BY <2>1, <2>3, FS_Subset
<1> DEFINE f == [n \in S |-> rank(n) + 1]
<1>4. \A n \in S : rank(n) \in Int
  BY <1>2
<1> HIDE DEF rank
<1>5. f \in Injection(S, 1 .. size)
  <2>1. f \in [S -> 1 .. size]
    BY <1>2
  <2>2. ASSUME NEW n \in S, NEW m \in S, f[n] = f[m]
        PROVE  n = m
    <3>1. rank(n) = rank(m)
      BY <1>4, <2>2
    <3>2. ~(n < m) /\ ~(m < n)
      BY <1>3, <3>1
    <3>. QED
      BY <3>2
  <2> HIDE DEF f
  <2>. QED
    BY <2>1, <2>2, Zenon DEF Injection, IsInjective
<1>6. f \in Surjection(S, 1 .. size)
  <2>1. IsFiniteSet(1 .. size) /\ Cardinality(1 .. size) = size
    <3>1. 1 \in Int /\ size \in Int
      BY <1>1
    <3>2. IsFiniteSet(1 .. size) /\ Cardinality(1 .. size) = IF 1 > size THEN 0 ELSE size - 1 + 1
      BY <3>1, FS_Interval, Zenon
    <3>. QED
      BY <1>1, <3>2
  <2> HIDE DEF f
  <2>. QED
    BY <1>5, <2>1, FS_Injection
<1>7. \A i \in 1 .. size : \E n \in S : f[n] = i
  BY <1>6 DEF Surjection
<1> DEFINE at(i) == CHOOSE n \in S : rank(n) = i - 1
<1>8. ASSUME NEW i \in 1 .. size
      PROVE  at(i) \in S /\ rank(at(i)) = i - 1
  <2>1. \E n \in S : rank(n) = i - 1
    BY <1>4, <1>7
  <2>. QED
    BY <2>1
<1> DEFINE u == [i \in 1 .. size |-> at(i)]
<1>9. LastFirst(S) = u
  BY DEF LastFirst, rank
<1> HIDE DEF at
<1>10. u \in Seq(S) /\ Len(u) = size
  <2>1. u \in [1 .. size -> S]
    BY <1>8
  <2> HIDE DEF u
  <2>. QED
    BY <1>1, <2>1, SeqDef, LenProperties
<1>11. Once(u)
  <2>1. SUFFICES ASSUME NEW i \in 1 .. size, NEW j \in 1 .. size, at(i) = at(j)
                 PROVE  i = j
    BY <1>10 DEF Once
  <2>2. i - 1 = j - 1
    BY <1>8, <2>1
  <2>. QED
    BY <2>2
<1>. QED
  BY <1>9, <1>10, <1>11

-----------------------------------------------------------------------------
\* The city and its graph.

LEMMA DivMod ==
  ASSUME NEW k \in Nat, NEW m \in Nat \ {0}
  PROVE  k \div m \in Nat /\ k % m \in 0 .. m - 1 /\ k = m * (k \div m) + (k % m)
OBVIOUS

LEMMA Half ==
  ASSUME NEW v \in Nat
  PROVE  /\ v \div 2 \in Nat
         /\ v % 2 = 0 => v = 2 * (v \div 2)
         /\ v % 2 # 0 => v = 2 * (v \div 2) + 1
OBVIOUS

\* Where there is a street from the crossing k of avenue r and street q, there
\* is a crossing at its other end.
LEMMA Sides ==
  ASSUME NEW m \in Nat \ {0}, NEW n \in Nat \ {0}, NEW q \in Nat, NEW r \in 0 .. m - 1,
         NEW k \in Nat, k = m * q + r, k < m * n
  PROVE  /\ q < n - 1 => k + m < m * n
         /\ q > 0 => k >= m
         /\ r < m - 1 => k + 1 < m * n
OBVIOUS

City == M \in Nat \ {0} /\ N \in Nat \ {0} /\ citizens \subseteq Crossings

LEMMA CityIs ==
  ASSUME City
  PROVE  /\ M * N \in Nat \ {0}
         /\ Source = 2 * (M * N) /\ Target = 2 * (M * N) + 1
         /\ Vertices = 0 .. 2 * (M * N) + 1 /\ Inner = 0 .. 2 * (M * N) - 1
BY DEF City, Source, Target, Vertices, Inner

LEMMA VerticesAre ==
  ASSUME City
  PROVE  /\ Source \in Vertices /\ Target \in Vertices /\ Source # Target
         /\ Source \notin Inner /\ Target \notin Inner
         /\ Vertices = Inner \cup {Source, Target}
         /\ IsFiniteSet(Vertices) /\ Cardinality(Vertices) = Target + 1
         /\ Inner \subseteq Nat /\ IsFiniteSet(Inner) /\ Target \in Nat /\ Source \in Nat
<1> DEFINE k == M * N
<1>1. k \in Nat \ {0} /\ Source = 2 * k /\ Target = 2 * k + 1
      /\ Vertices = 0 .. 2 * k + 1 /\ Inner = 0 .. 2 * k - 1
  BY CityIs
<1> HIDE DEF k
<1> DEFINE last == 2 * k + 1
<1>2. 0 \in Int /\ last \in Int
  BY <1>1
<1> HIDE DEF last
<1>3. IsFiniteSet(0 .. last) /\ Cardinality(0 .. last) = IF 0 > last THEN 0 ELSE last - 0 + 1
  BY <1>2, FS_Interval, Zenon
<1> USE DEF last
<1>4. Cardinality(0 .. 2 * k + 1) = 2 * k + 1 + 1
  BY <1>1, <1>3
<1>5. Inner \in SUBSET Vertices
  BY <1>1
<1>6. IsFiniteSet(Inner)
  BY <1>1, <1>3, <1>5, FS_Subset
<1>. QED
  BY <1>1, <1>3, <1>4, <1>6

LEMMA OnlyIs ==
  ASSUME NEW S, NEW condition \in BOOLEAN, NEW x, condition => x \in S
  PROVE  /\ Only(condition, x) \in Seq(S) /\ Once(Only(condition, x))
         /\ \A y : y \in ToSet(Only(condition, x)) <=> condition /\ y = x
<1>1. CASE condition
  BY <1>1, OneIs DEF Only
<1>2. CASE ~condition
  BY <1>2, NoneIs DEF Only
<1>. QED
  BY <1>1, <1>2

\* The streets from the exit v.
StreetTo(v, u) ==
  LET k == v \div 2 IN
  \/ k \div M < N - 1 /\ u = v + 2 * M - 1
  \/ k \div M > 0 /\ u = v - 2 * M - 1
  \/ k % M > 0 /\ u = v - 3
  \/ k % M < M - 1 /\ u = v + 1

\* The streets of an exit lead to entries, of other crossings than its own,
\* and an entry leads to its exit.
LEMMA StreetsAre ==
  ASSUME City, NEW v \in Inner
  PROVE  /\ Streets(v) \in Seq(Inner) /\ Once(Streets(v))
         /\ \A u \in ToSet(Streets(v)) :
              /\ v % 2 = 0 => u = v + 1
              /\ v % 2 # 0 => u % 2 = 0 /\ u # v - 1
         /\ \A u : u \in ToSet(Streets(v)) <=> IF v % 2 = 0 THEN u = v + 1 ELSE StreetTo(v, u)
<1> DEFINE c == M * N
           k == v \div 2
           q == k \div M
           r == k % M
<1>1. c \in Nat \ {0} /\ Inner = 0 .. 2 * c - 1 /\ M \in Nat \ {0} /\ N \in Nat \ {0}
  BY CityIs DEF City
<1>2. v \in Nat /\ v <= 2 * c - 1
  BY <1>1
<1>3. CASE v % 2 = 0
  <2>1. v + 1 \in Inner
    <3>1. v = 2 * k /\ k \in Nat
      BY <1>2, <1>3, Half
    <3> HIDE DEF k, c
    <3>. QED
      BY <1>1, <1>2, <3>1
  <2>2. Streets(v) = <<v + 1>>
    BY <1>3 DEF Streets
  <2>. QED
    BY <1>3, <2>1, <2>2, OneIs
<1>4. CASE v % 2 # 0
  <2>1. v = 2 * k + 1 /\ k \in Nat
    BY <1>2, <1>4, Half
  <2>2. k < c
    <3> HIDE DEF k, c
    <3>. QED
      BY <1>1, <1>2, <2>1
  <2>3. q \in Nat /\ r \in 0 .. M - 1 /\ k = M * q + r
    <3> HIDE DEF k
    <3>. QED
      BY <1>1, <2>1, DivMod
  <2>4. /\ q < N - 1 => k + M < c
        /\ q > 0 => k >= M
        /\ r < M - 1 => k + 1 < c
    <3>1. k < M * N
      BY <2>2
    <3> HIDE DEF k, q, r
    <3>. QED
      BY <1>1, <2>1, <2>3, <3>1, Sides DEF c
  <2> DEFINE down  == Only(q < N - 1, v + 2 * M - 1)
             up    == Only(q > 0, v - 2 * M - 1)
             left  == Only(r > 0, v - 3)
             right == Only(r < M - 1, v + 1)
  <2>5. Streets(v) = ((down \o up) \o left) \o right
    BY <1>4 DEF Streets
  <2> HIDE DEF c, k, q, r
  <2>6. /\ q < N - 1 => v + 2 * M - 1 \in Inner
        /\ q > 0 => v - 2 * M - 1 \in Inner
        /\ r > 0 => v - 3 \in Inner
        /\ r < M - 1 => v + 1 \in Inner
    <3>1. ASSUME q < N - 1 PROVE v + 2 * M - 1 \in Inner
      BY <1>1, <2>1, <2>2, <2>4, <3>1
    <3>2. ASSUME q > 0 PROVE v - 2 * M - 1 \in Inner
      BY <1>1, <2>1, <2>2, <2>4, <3>2
    <3>3. ASSUME r > 0 PROVE v - 3 \in Inner
      <4>1. k >= 1
        <5>1. M * q \in Nat
          BY <1>1, <2>3
        <5>. QED
          BY <1>1, <2>3, <3>3, <5>1
      <4>. QED
        BY <1>1, <2>1, <2>2, <4>1
    <3>4. ASSUME r < M - 1 PROVE v + 1 \in Inner
      BY <1>1, <2>1, <2>2, <2>4, <3>4
    <3>. QED
      BY <3>1, <3>2, <3>3, <3>4
  <2>7. /\ down \in Seq(Inner) /\ Once(down) /\ \A y : y \in ToSet(down) <=> q < N - 1 /\ y = v + 2 * M - 1
        /\ up \in Seq(Inner) /\ Once(up) /\ \A y : y \in ToSet(up) <=> q > 0 /\ y = v - 2 * M - 1
        /\ left \in Seq(Inner) /\ Once(left) /\ \A y : y \in ToSet(left) <=> r > 0 /\ y = v - 3
        /\ right \in Seq(Inner) /\ Once(right) /\ \A y : y \in ToSet(right) <=> r < M - 1 /\ y = v + 1
    <3>1. down \in Seq(Inner) /\ Once(down) /\ \A y : y \in ToSet(down) <=> q < N - 1 /\ y = v + 2 * M - 1
      <4>1. CASE q < N - 1
        <5>1. down = <<v + 2 * M - 1>> /\ v + 2 * M - 1 \in Inner
          BY <2>6, <4>1 DEF Only
        <5> HIDE DEF down
        <5>2. down \in Seq(Inner) /\ Once(down) /\ ToSet(down) = {v + 2 * M - 1}
          BY <5>1, OneIs
        <5>. QED
          BY <4>1, <5>2
      <4>2. CASE ~(q < N - 1)
        <5>1. down = <<>>
          BY <4>2 DEF Only
        <5> HIDE DEF down
        <5>2. down \in Seq(Inner) /\ Once(down) /\ ToSet(down) = {}
          BY <5>1, NoneIs
        <5>. QED
          BY <4>2, <5>2
      <4>. QED
        BY <4>1, <4>2
    <3>2. up \in Seq(Inner) /\ Once(up) /\ \A y : y \in ToSet(up) <=> q > 0 /\ y = v - 2 * M - 1
      <4>1. CASE q > 0
        <5>1. up = <<v - 2 * M - 1>> /\ v - 2 * M - 1 \in Inner
          BY <2>6, <4>1 DEF Only
        <5> HIDE DEF up
        <5>2. up \in Seq(Inner) /\ Once(up) /\ ToSet(up) = {v - 2 * M - 1}
          BY <5>1, OneIs
        <5>. QED
          BY <4>1, <5>2
      <4>2. CASE ~(q > 0)
        <5>1. up = <<>>
          BY <4>2 DEF Only
        <5> HIDE DEF up
        <5>2. up \in Seq(Inner) /\ Once(up) /\ ToSet(up) = {}
          BY <5>1, NoneIs
        <5>. QED
          BY <4>2, <5>2
      <4>. QED
        BY <4>1, <4>2
    <3>3. left \in Seq(Inner) /\ Once(left) /\ \A y : y \in ToSet(left) <=> r > 0 /\ y = v - 3
      <4>1. CASE r > 0
        <5>1. left = <<v - 3>> /\ v - 3 \in Inner
          BY <2>6, <4>1 DEF Only
        <5> HIDE DEF left
        <5>2. left \in Seq(Inner) /\ Once(left) /\ ToSet(left) = {v - 3}
          BY <5>1, OneIs
        <5>. QED
          BY <4>1, <5>2
      <4>2. CASE ~(r > 0)
        <5>1. left = <<>>
          BY <4>2 DEF Only
        <5> HIDE DEF left
        <5>2. left \in Seq(Inner) /\ Once(left) /\ ToSet(left) = {}
          BY <5>1, NoneIs
        <5>. QED
          BY <4>2, <5>2
      <4>. QED
        BY <4>1, <4>2
    <3>4. right \in Seq(Inner) /\ Once(right) /\ \A y : y \in ToSet(right) <=> r < M - 1 /\ y = v + 1
      <4>1. CASE r < M - 1
        <5>1. right = <<v + 1>> /\ v + 1 \in Inner
          BY <2>6, <4>1 DEF Only
        <5> HIDE DEF right
        <5>2. right \in Seq(Inner) /\ Once(right) /\ ToSet(right) = {v + 1}
          BY <5>1, OneIs
        <5>. QED
          BY <4>1, <5>2
      <4>2. CASE ~(r < M - 1)
        <5>1. right = <<>>
          BY <4>2 DEF Only
        <5> HIDE DEF right
        <5>2. right \in Seq(Inner) /\ Once(right) /\ ToSet(right) = {}
          BY <5>1, NoneIs
        <5>. QED
          BY <4>2, <5>2
      <4>. QED
        BY <4>1, <4>2
    <3>. QED
      BY <3>1, <3>2, <3>3, <3>4
  <2> HIDE DEF down, up, left, right
  <2>8. /\ v + 2 * M - 1 # v - 2 * M - 1 /\ v + 2 * M - 1 # v - 3 /\ v - 3 # v + 1 /\ v - 2 * M - 1 # v + 1
        /\ r > 0 => v - 2 * M - 1 # v - 3
        /\ r < M - 1 => v + 2 * M - 1 # v + 1
    BY <1>1, <1>2, <2>3
  <2>9. /\ (down \o up) \in Seq(Inner) /\ Once(down \o up)
        /\ ToSet(down \o up) = ToSet(down) \cup ToSet(up)
    <3>1. ToSet(down) \cap ToSet(up) = {}
      BY <2>7, <2>8
    <3>. QED
      BY <2>7, <3>1, JoinedIs
  <2> DEFINE three == (down \o up) \o left
  <2>10. /\ three \in Seq(Inner) /\ Once(three)
         /\ ToSet(three) = ToSet(down) \cup ToSet(up) \cup ToSet(left)
    <3> DEFINE two == down \o up
    <3>1. /\ two \in Seq(Inner) /\ Once(two) /\ left \in Seq(Inner) /\ Once(left)
          /\ ToSet(two) \cap ToSet(left) = {}
      BY <2>7, <2>8, <2>9
    <3> HIDE DEF two
    <3>2. /\ two \o left \in Seq(Inner) /\ Once(two \o left)
          /\ ToSet(two \o left) = ToSet(two) \cup ToSet(left)
      BY <3>1, JoinedIs
    <3>. QED
      BY <2>9, <3>2 DEF two, three
  <2> HIDE DEF three
  <2>11. /\ three \o right \in Seq(Inner) /\ Once(three \o right)
         /\ ToSet(three \o right) = ToSet(down) \cup ToSet(up) \cup ToSet(left) \cup ToSet(right)
    <3>1. ToSet(three) \cap ToSet(right) = {}
      BY <2>7, <2>8, <2>10
    <3>. QED
      BY <2>7, <2>10, <3>1, JoinedIs
  <2>12. ASSUME NEW u \in ToSet(three \o right) PROVE u % 2 = 0 /\ u # v - 1
    <3>1. u \in {v + 2 * M - 1, v - 2 * M - 1, v - 3, v + 1} /\ u \in Inner
      BY <2>7, <2>11, SetOf
    <3>. QED
      BY <1>1, <2>1, <3>1
  <2>13. \A u : u \in ToSet(three \o right) <=> StreetTo(v, u)
    BY <2>7, <2>11 DEF StreetTo, k, q, r
  <2>. QED
    BY <1>4, <2>5, <2>11, <2>12, <2>13 DEF three
<1>. QED
  BY <1>3, <1>4

LEMMA SeqInto ==
  ASSUME NEW S, NEW T, S \subseteq T, NEW w \in Seq(S)
  PROVE  w \in Seq(T)
<1>1. w \in [1 .. Len(w) -> S] /\ Len(w) \in Nat
  BY LenProperties
<1>2. w \in [1 .. Len(w) -> T]
  BY <1>1
<1>. QED
  BY <1>1, <1>2, SeqDef

LEMMA EntriesAre ==
  ASSUME City
  PROVE  Entries \subseteq Inner
<1>1. SUFFICES ASSUME NEW c \in Crossings PROVE vin(c) \in Inner
  BY DEF City, Entries
<1> DEFINE x == c[1]
           y == c[2]
<1>2. x \in 1 .. M /\ y \in 1 .. N /\ M \in Nat \ {0} /\ N \in Nat \ {0}
  BY DEF Crossings, City
<1>3. vin(c) = 2 * ((y - 1) * M + (x - 1))
  BY DEF vin
<1>4. Inner = 0 .. 2 * (M * N) - 1
  BY CityIs
<1> HIDE DEF x, y
<1>5. (y - 1) * M + (x - 1) >= 0 /\ (y - 1) * M + (x - 1) < M * N
  <2>1. (y - 1) * M >= 0 /\ (y - 1) * M \in Int
    BY <1>2
  <2>2. (N - y) * M >= 0 /\ (N - y) * M \in Int
    BY <1>2
  <2>3. M * N = (N - y) * M + (y - 1) * M + M
    BY <1>2
  <2>. QED
    BY <1>2, <2>1, <2>2, <2>3
<1> DEFINE k == (y - 1) * M + (x - 1)
           c2 == M * N
<1>6. k \in Int /\ c2 \in Int /\ k >= 0 /\ k < c2
  BY <1>2, <1>5
<1> HIDE DEF k, c2
<1>7. 2 * k \in 0 .. 2 * c2 - 1
  BY <1>6
<1>. QED
  BY <1>3, <1>4, <1>7 DEF k, c2

LEMMA LastFirstAll ==
  ASSUME NEW S \in SUBSET Nat, IsFiniteSet(S)
  PROVE  ToSet(LastFirst(S)) = S
<1> DEFINE w == LastFirst(S)
           size == Cardinality(S)
<1>1. w \in Seq(S) /\ Once(w) /\ DOMAIN w = 1 .. size /\ size \in Nat
  BY LastFirstIs, FS_CardinalityType DEF LastFirst
<1> HIDE DEF w, size
<1>2. Len(w) = size /\ w \in [1 .. size -> S]
  BY <1>1, LenProperties
<1>3. w \in Injection(1 .. size, S)
  BY <1>1, <1>2, Zenon DEF Injection, IsInjective, Once
<1>4. Cardinality(1 .. size) = size
  <2>1. 1 \in Int /\ size \in Int
    BY <1>1
  <2>2. Cardinality(1 .. size) = IF 1 > size THEN 0 ELSE size - 1 + 1
    BY <2>1, FS_Interval, Zenon
  <2>. QED
    BY <1>1, <2>2
<1>5. w \in Surjection(1 .. size, S)
  BY <1>3, <1>4, FS_Injection DEF size
<1>6. \A x \in S : \E i \in 1 .. Len(w) : w[i] = x
  BY <1>2, <1>5 DEF Surjection
<1>7. /\ \A x : x \in ToSet(w) <=> \E i \in 1 .. Len(w) : x = w[i]
      /\ ToSet(w) \subseteq S
  BY <1>1, SetOf
<1>8. S \subseteq ToSet(w)
  BY <1>6, <1>7, Zenon
<1>. QED
  BY <1>7, <1>8 DEF w

\* Every vertex has a list, with no neighbour twice.
Listed(g) == g \in [Vertices -> Seq(Vertices)] /\ \A v \in Vertices : Once(g[v])

LEMMA StartListed ==
  ASSUME City
  PROVE  /\ Listed(InitialGraph)
         /\ \A v \in Inner : \A u \in ToSet(InitialGraph[v]) : u = Target \/ u \in ToSet(Streets(v))
         /\ ToSet(InitialGraph[Source]) \subseteq Inner
         /\ ToSet(InitialGraph[Target]) = {}
         /\ \A v \in Inner : \A u :
              u \in ToSet(InitialGraph[v]) <=> (v \in Exits /\ u = Target) \/ u \in ToSet(Streets(v))
         /\ ToSet(InitialGraph[Source]) = Entries
<1>1. ASSUME NEW v \in Inner
      PROVE  /\ InitialGraph[v] \in Seq(Vertices) /\ Once(InitialGraph[v])
             /\ \A u \in ToSet(InitialGraph[v]) : u = Target \/ u \in ToSet(Streets(v))
             /\ \A u : u \in ToSet(InitialGraph[v]) <=> (v \in Exits /\ u = Target) \/ u \in ToSet(Streets(v))
  <2> DEFINE only == Only(v \in Exits, Target)
             streets == Streets(v)
  <2>1. InitialGraph[v] = only \o streets
    BY VerticesAre DEF InitialGraph
  <2>2. /\ only \in Seq(Vertices) /\ Once(only) /\ ToSet(only) \subseteq {Target}
        /\ v \in Exits <=> Target \in ToSet(only)
    <3>1. (v \in Exits /\ only = <<Target>>) \/ (v \notin Exits /\ only = <<>>)
      BY DEF Only
    <3> HIDE DEF only
    <3>2. CASE v \in Exits /\ only = <<Target>>
      BY <3>2, OneIs, VerticesAre
    <3>3. CASE v \notin Exits /\ only = <<>>
      BY <3>3, NoneIs
    <3>. QED
      BY <3>1, <3>2, <3>3
  <2>3. streets \in Seq(Vertices) /\ Once(streets) /\ ToSet(streets) \subseteq Inner
    BY StreetsAre, SeqInto, SetOf, VerticesAre
  <2>4. ToSet(only) \cap ToSet(streets) = {}
    BY <2>2, <2>3, VerticesAre
  <2> HIDE DEF only, streets
  <2>5. /\ only \o streets \in Seq(Vertices) /\ Once(only \o streets)
        /\ ToSet(only \o streets) = ToSet(only) \cup ToSet(streets)
    BY <2>2, <2>3, <2>4, JoinedIs
  <2>. QED
    BY <2>1, <2>2, <2>5 DEF streets
<1>2. /\ InitialGraph[Source] \in Seq(Vertices) /\ Once(InitialGraph[Source])
      /\ ToSet(InitialGraph[Source]) \subseteq Inner /\ ToSet(InitialGraph[Source]) = Entries
  <2>1. InitialGraph[Source] = LastFirst(Entries)
    BY VerticesAre DEF InitialGraph
  <2>2. Entries \subseteq Inner /\ Entries \in SUBSET Nat /\ IsFiniteSet(Entries)
    <3>1. Entries \in SUBSET Inner
      BY EntriesAre
    <3>. QED
      BY <3>1, VerticesAre, FS_Subset
  <2>3. LastFirst(Entries) \in Seq(Entries) /\ Once(LastFirst(Entries)) /\ ToSet(LastFirst(Entries)) = Entries
    BY <2>2, LastFirstIs, LastFirstAll
  <2>4. Inner \subseteq Vertices
    BY VerticesAre
  <2>. QED
    BY <2>1, <2>2, <2>3, <2>4, SeqInto, SetOf
<1>3. /\ InitialGraph[Target] \in Seq(Vertices) /\ Once(InitialGraph[Target])
      /\ ToSet(InitialGraph[Target]) = {}
  <2>1. InitialGraph[Target] = <<>>
    BY VerticesAre DEF InitialGraph
  <2>. QED
    BY <2>1, NoneIs
<1>4. InitialGraph = [v \in Vertices |-> InitialGraph[v]]
  <2> DEFINE listOf(v) ==
     CASE v \in Inner -> Only(v \in Exits, Target) \o Streets(v)
       [] v = Source  -> LastFirst(Entries)
       [] v = Target  -> <<>>
  <2>1. InitialGraph = [v \in Vertices |-> listOf(v)]
    BY Zenon DEF InitialGraph
  <2> HIDE DEF listOf
  <2>. QED
    BY <2>1
<1>5. \A v \in Vertices : InitialGraph[v] \in Seq(Vertices) /\ Once(InitialGraph[v])
  BY <1>1, <1>2, <1>3, VerticesAre
<1>6. InitialGraph \in [Vertices -> Seq(Vertices)]
  BY <1>4, <1>5, Zenon
<1>. QED
  BY <1>1, <1>2, <1>3, <1>5, <1>6 DEF Listed

\* No edge is there in both directions.
LEMMA StartOneWay ==
  ASSUME City, NEW u \in Vertices, NEW v \in ToSet(InitialGraph[u])
  PROVE  v \in Vertices /\ u \notin ToSet(InitialGraph[v])
<1>1. v \in Vertices
  BY StartListed, SetOf DEF Listed
<1>2. CASE u = Source
  <2>1. v \in Inner
    BY <1>2, StartListed
  <2>2. ToSet(Streets(v)) \subseteq Inner
    BY <2>1, StreetsAre, SetOf
  <2>. QED
    BY <1>1, <1>2, <2>1, <2>2, StartListed, VerticesAre
<1>3. CASE u = Target
  BY <1>3, StartListed
<1>4. CASE u \in Inner /\ v = Target
  BY <1>1, <1>4, StartListed
<1>5. CASE u \in Inner /\ v # Target
  <2>1. v \in ToSet(Streets(u)) /\ v \in Inner
    BY <1>5, StartListed, StreetsAre, SetOf
  <2>2. u # Target
    BY <1>5, VerticesAre
  <2>3. SUFFICES u \notin ToSet(Streets(v))
    BY <1>1, <2>1, <2>2, StartListed
  <2>4. /\ u % 2 = 0 => v = u + 1
        /\ u % 2 # 0 => v % 2 = 0 /\ v # u - 1
    BY <1>5, <2>1, StreetsAre
  <2>5. ASSUME u \in ToSet(Streets(v))
        PROVE  /\ v % 2 = 0 => u = v + 1
               /\ v % 2 # 0 => u # v - 1
    BY <2>1, <2>5, StreetsAre
  <2>6. u \in Nat /\ v \in Nat
    BY <1>5, <2>1, VerticesAre
  <2>7. u % 2 = 0 => (u + 1) % 2 # 0
    BY <2>6
  <2>8. CASE u % 2 = 0
    <3>1. v = u + 1 /\ v % 2 # 0
      BY <2>4, <2>7, <2>8
    <3>2. u = v - 1
      BY <2>6, <3>1
    <3>. QED
      BY <2>5, <3>1, <3>2
  <2>9. CASE u % 2 # 0
    <3>1. v % 2 = 0 /\ v # u - 1
      BY <2>4, <2>9
    <3>2. u # v + 1
      BY <2>6, <3>1
    <3>. QED
      BY <2>5, <3>1, <3>2
  <2>. QED
    BY <2>8, <2>9
<1>. QED
  BY <1>1, <1>2, <1>3, <1>4, <1>5, VerticesAre

-----------------------------------------------------------------------------
\* The edges of a graph, and the reversal of one.

LEMMA EdgesAre ==
  ASSUME City, NEW g, Listed(g)
  PROVE  /\ \A u, v : <<u, v>> \in Edges(g) <=> u \in Vertices /\ v \in ToSet(g[u])
         /\ Edges(g) \subseteq Vertices \X Vertices
         /\ IsFiniteSet(Edges(g))
<1>1. ASSUME NEW u \in Vertices PROVE ToSet(g[u]) \subseteq Vertices
  BY SetOf DEF Listed
<1>2. \A u, v : <<u, v>> \in Edges(g) <=> u \in Vertices /\ v \in ToSet(g[u])
  BY DEF Edges
<1>3. Edges(g) \in SUBSET (Vertices \X Vertices)
  BY <1>1 DEF Edges
<1>4. IsFiniteSet(Vertices \X Vertices)
  BY VerticesAre, FS_Product
<1>5. IsFiniteSet(Edges(g))
  BY <1>3, <1>4, FS_Subset
<1>. QED
  BY <1>2, <1>3, <1>5

LEMMA ReversedIs ==
  ASSUME NEW E \in SUBSET (Vertices \X Vertices)
  PROVE  /\ \A u, v : <<u, v>> \in Reversed(E) <=> <<v, u>> \in E
         /\ Reversed(E) \subseteq Vertices \X Vertices
<1>1. \A e \in E : e = <<e[1], e[2]>> /\ e[1] \in Vertices /\ e[2] \in Vertices
  OBVIOUS
<1>2. ASSUME NEW u, NEW v PROVE <<u, v>> \in Reversed(E) <=> <<v, u>> \in E
  <2>1. ASSUME <<u, v>> \in Reversed(E) PROVE <<v, u>> \in E
    <3>1. PICK e \in E : <<u, v>> = <<e[2], e[1]>>
      BY <2>1 DEF Reversed
    <3>. QED
      BY <1>1, <3>1
  <2>2. ASSUME <<v, u>> \in E PROVE <<u, v>> \in Reversed(E)
    <3>1. <<v, u>>[1] = v /\ <<v, u>>[2] = u
      OBVIOUS
    <3>. QED
      BY <2>2, <3>1 DEF Reversed
  <2>. QED
    BY <2>1, <2>2
<1>. QED
  BY <1>1, <1>2 DEF Reversed

LEMMA ReverseIs ==
  ASSUME City, Listed(graph), NEW p \in Vertices, NEW c \in ToSet(graph[p]), p \notin ToSet(graph[c]), p # c
  PROVE  /\ c \in Vertices
         /\ Listed(ReverseEdge(p, c))
         /\ Edges(ReverseEdge(p, c)) = (Edges(graph) \ {<<p, c>>}) \cup {<<c, p>>}
<1> DEFINE g == ReverseEdge(p, c)
<1>1. graph \in [Vertices -> Seq(Vertices)] /\ \A v \in Vertices : Once(graph[v])
  BY DEF Listed
<1>2. c \in Vertices
  BY <1>1, SetOf
<1>3. /\ DOMAIN g = Vertices /\ g = [v \in Vertices |-> g[v]]
      /\ g[c] = <<p>> \o graph[c] /\ g[p] = RemoveFirst(graph[p], c)
      /\ \A v \in Vertices \ {p, c} : g[v] = graph[v]
  BY <1>1, <1>2 DEF ReverseEdge
<1> HIDE DEF g
<1>4. g[c] \in Seq(Vertices) /\ Once(g[c]) /\ ToSet(g[c]) = {p} \cup ToSet(graph[c])
  <2> DEFINE one == <<p>>
  <2>1. one \in Seq(Vertices) /\ Once(one) /\ ToSet(one) = {p}
    BY OneIs
  <2>2. g[c] = one \o graph[c]
    BY <1>3
  <2> HIDE DEF one
  <2>. QED
    BY <1>1, <1>2, <2>1, <2>2, JoinedIs
<1>5. g[p] \in Seq(Vertices) /\ Once(g[p]) /\ ToSet(g[p]) = ToSet(graph[p]) \ {c}
  BY <1>1, <1>3, RemoveFirstIs
<1>6. Listed(g)
  <2>1. \A v \in Vertices : g[v] \in Seq(Vertices) /\ Once(g[v])
    BY <1>1, <1>3, <1>4, <1>5
  <2>2. g \in [Vertices -> Seq(Vertices)]
    BY <1>3, <2>1, Zenon
  <2>. QED
    BY <2>1, <2>2 DEF Listed
<1> DEFINE after == (Edges(graph) \ {<<p, c>>}) \cup {<<c, p>>}
<1>7. Edges(g) \subseteq Vertices \X Vertices /\ after \subseteq Vertices \X Vertices
  BY <1>2, <1>6, EdgesAre
<1>8. ASSUME NEW u, NEW v PROVE <<u, v>> \in Edges(g) <=> <<u, v>> \in after
  <2>1. <<u, v>> \in Edges(g) <=> u \in Vertices /\ v \in ToSet(g[u])
    BY <1>6, EdgesAre
  <2>2. <<u, v>> \in Edges(graph) <=> u \in Vertices /\ v \in ToSet(graph[u])
    BY EdgesAre
  <2>3. <<u, v>> \in after <=> (<<u, v>> \in Edges(graph) /\ ~(u = p /\ v = c)) \/ (u = c /\ v = p)
    OBVIOUS
  <2> HIDE DEF after
  <2>4. CASE u = p
    BY <1>5, <2>1, <2>2, <2>3, <2>4
  <2>5. CASE u = c
    BY <1>2, <1>4, <2>1, <2>2, <2>3, <2>5
  <2>6. CASE u # p /\ u # c
    BY <1>3, <2>1, <2>2, <2>3, <2>6
  <2>. QED
    BY <2>4, <2>5, <2>6
<1>9. Edges(g) = after
  <2> HIDE DEF after
  <2>1. ASSUME NEW e \in Vertices \X Vertices PROVE e \in Edges(g) <=> e \in after
    <3>1. e = <<e[1], e[2]>>
      OBVIOUS
    <3>. QED
      BY <1>8, <3>1
  <2>. QED
    BY <1>7, <2>1
<1>. QED
  BY <1>2, <1>6, <1>9 DEF g

LEMMA StartIsOneWay ==
  ASSUME City
  PROVE  Edges(InitialGraph) \cap Reversed(Edges(InitialGraph)) = {}
<1> DEFINE start == Edges(InitialGraph)
<1>1. start \in SUBSET (Vertices \X Vertices)
  BY StartListed, EdgesAre
<1>2. ASSUME NEW u, NEW v, <<u, v>> \in start PROVE <<v, u>> \notin start
  BY <1>2, StartListed, EdgesAre, StartOneWay
<1> HIDE DEF start
<1>3. ASSUME NEW e \in start PROVE e \notin Reversed(start)
  <2>1. PICK u, v : e = <<u, v>>
    BY <1>1
  <2>. QED
    BY <1>1, <1>2, <2>1, ReversedIs
<1>. QED
  BY <1>3 DEF start

\* What Residual says of the edges is kept by the reversal of one.
OneDirection(now, start) ==
  /\ now \cup Reversed(now) = start \cup Reversed(start)
  /\ now \cap Reversed(now) = {}

LEMMA OneDirectionKept ==
  ASSUME NEW now \in SUBSET (Vertices \X Vertices), NEW start, OneDirection(now, start),
         NEW p, NEW c, <<p, c>> \in now
  PROVE  /\ p \in Vertices /\ c \in Vertices /\ p # c /\ <<c, p>> \notin now
         /\ OneDirection((now \ {<<p, c>>}) \cup {<<c, p>>}, start)
<1> DEFINE after == (now \ {<<p, c>>}) \cup {<<c, p>>}
<1>1. \A u, v : <<u, v>> \in Reversed(now) <=> <<v, u>> \in now
  BY ReversedIs
<1>2. \A u, v : ~(<<u, v>> \in now /\ <<v, u>> \in now)
  BY <1>1 DEF OneDirection
<1>3. p \in Vertices /\ c \in Vertices /\ p # c /\ <<c, p>> \notin now
  BY <1>2
<1>4. after \in SUBSET (Vertices \X Vertices)
  BY <1>3
<1>5. \A u, v : <<u, v>> \in Reversed(after) <=> <<v, u>> \in after
  BY <1>4, ReversedIs
<1>6. \A u, v : <<u, v>> \in after <=> (<<u, v>> \in now /\ ~(u = p /\ v = c)) \/ (u = c /\ v = p)
  OBVIOUS
<1>7. Reversed(after) \subseteq Vertices \X Vertices /\ Reversed(now) \subseteq Vertices \X Vertices
  BY <1>4, ReversedIs
<1> HIDE DEF after
<1>8. after \cup Reversed(after) = now \cup Reversed(now)
  <2>1. ASSUME NEW e \in Vertices \X Vertices
        PROVE  e \in after \cup Reversed(after) <=> e \in now \cup Reversed(now)
    <3>1. PICK u, v : e = <<u, v>>
      OBVIOUS
    <3>2. /\ e \in after \cup Reversed(after) <=> <<u, v>> \in after \/ <<v, u>> \in after
          /\ e \in now \cup Reversed(now) <=> <<u, v>> \in now \/ <<v, u>> \in now
      BY <1>1, <1>5, <3>1
    <3>3. CASE {u, v} = {p, c}
      <4>1. (u = p /\ v = c) \/ (u = c /\ v = p)
        BY <3>3
      <4>. QED
        BY <1>6, <3>2, <4>1
    <3>4. CASE {u, v} # {p, c}
      <4>1. ~(u = p /\ v = c) /\ ~(u = c /\ v = p)
        BY <3>4
      <4>. QED
        BY <1>6, <3>2, <4>1
    <3>. QED
      BY <3>3, <3>4
  <2>. QED
    BY <1>4, <1>7, <2>1
<1>9. after \cap Reversed(after) = {}
  <2>1. ASSUME NEW e \in Vertices \X Vertices, e \in after PROVE e \notin Reversed(after)
    <3>1. PICK u, v : e = <<u, v>>
      OBVIOUS
    <3>. QED
      BY <1>2, <1>3, <1>5, <1>6, <2>1, <3>1
  <2>. QED
    BY <1>4, <2>1
<1>. QED
  BY <1>3, <1>8, <1>9 DEF OneDirection, after

-----------------------------------------------------------------------------
\* What flows out of a vertex, and into it.

Out(flow, v) == Cardinality({e \in flow : e[1] = v})
In(flow, v)  == Cardinality({e \in flow : e[2] = v})

LEMMA FlowsAreNat ==
  ASSUME NEW flow, IsFiniteSet(flow), NEW v
  PROVE  /\ Out(flow, v) \in Nat /\ In(flow, v) \in Nat
         /\ IsFiniteSet({e \in flow : e[1] = v}) /\ IsFiniteSet({e \in flow : e[2] = v})
<1>1. {e \in flow : e[1] = v} \in SUBSET flow /\ {e \in flow : e[2] = v} \in SUBSET flow
  OBVIOUS
<1>. QED
  BY <1>1, FS_Subset, FS_CardinalityType DEF Out, In

\* One more edge, from p to c.
LEMMA FlowMore ==
  ASSUME NEW flow, IsFiniteSet(flow), NEW p, NEW c, <<p, c>> \notin flow, NEW v
  PROVE  /\ Out(flow \cup {<<p, c>>}, v) = Out(flow, v) + (IF v = p THEN 1 ELSE 0)
         /\ In(flow \cup {<<p, c>>}, v) = In(flow, v) + (IF v = c THEN 1 ELSE 0)
<1> DEFINE e0 == <<p, c>>
           out == {e \in flow : e[1] = v}
           in  == {e \in flow : e[2] = v}
<1>1. /\ IsFiniteSet(out) /\ Cardinality(out) = Out(flow, v) /\ Out(flow, v) \in Nat
      /\ IsFiniteSet(in) /\ Cardinality(in) = In(flow, v) /\ In(flow, v) \in Nat
  BY FlowsAreNat DEF Out, In
<1>2. e0[1] = p /\ e0[2] = c /\ e0 \notin out /\ e0 \notin in
  OBVIOUS
<1>3. /\ Out(flow \cup {e0}, v) = Cardinality({e \in flow \cup {e0} : e[1] = v})
      /\ In(flow \cup {e0}, v) = Cardinality({e \in flow \cup {e0} : e[2] = v})
  BY DEF Out, In
<1> HIDE DEF e0
<1>4. /\ v = p => {e \in flow \cup {e0} : e[1] = v} = out \cup {e0}
      /\ v # p => {e \in flow \cup {e0} : e[1] = v} = out
  BY <1>2
<1>5. /\ v = c => {e \in flow \cup {e0} : e[2] = v} = in \cup {e0}
      /\ v # c => {e \in flow \cup {e0} : e[2] = v} = in
  BY <1>2
<1> HIDE DEF out, in
<1>6. Cardinality(out \cup {e0}) = Cardinality(out) + 1 /\ Cardinality(in \cup {e0}) = Cardinality(in) + 1
  BY <1>1, <1>2, FS_AddElement
<1>7. Out(flow \cup {e0}, v) = Out(flow, v) + (IF v = p THEN 1 ELSE 0)
  <2>1. v = p => Out(flow \cup {e0}, v) = Out(flow, v) + 1
    BY <1>1, <1>3, <1>4, <1>6
  <2>2. v # p => Out(flow \cup {e0}, v) = Out(flow, v)
    BY <1>1, <1>3, <1>4
  <2>. QED
    BY <1>1, <2>1, <2>2
<1>8. In(flow \cup {e0}, v) = In(flow, v) + (IF v = c THEN 1 ELSE 0)
  <2>1. v = c => In(flow \cup {e0}, v) = In(flow, v) + 1
    BY <1>1, <1>3, <1>5, <1>6
  <2>2. v # c => In(flow \cup {e0}, v) = In(flow, v)
    BY <1>1, <1>3, <1>5
  <2>. QED
    BY <1>1, <2>1, <2>2
<1>. QED
  BY <1>7, <1>8 DEF e0

\* One edge less, from c to p.
LEMMA FlowLess ==
  ASSUME NEW flow, IsFiniteSet(flow), NEW p, NEW c, <<c, p>> \in flow, NEW v
  PROVE  /\ Out(flow, v) = Out(flow \ {<<c, p>>}, v) + (IF v = c THEN 1 ELSE 0)
         /\ In(flow, v) = In(flow \ {<<c, p>>}, v) + (IF v = p THEN 1 ELSE 0)
<1> DEFINE less == flow \ {<<c, p>>}
<1>1. IsFiniteSet(less) /\ <<c, p>> \notin less /\ less \cup {<<c, p>>} = flow
  BY FS_RemoveElement
<1> HIDE DEF less
<1>2. /\ Out(less \cup {<<c, p>>}, v) = Out(less, v) + (IF v = c THEN 1 ELSE 0)
      /\ In(less \cup {<<c, p>>}, v) = In(less, v) + (IF v = p THEN 1 ELSE 0)
  BY <1>1, FlowMore
<1>. QED
  BY <1>1, <1>2 DEF less

\* The edges reversed are a flow but for one vertex, which loses one more than
\* it gets.
Balanced(flow, extra) ==
  \A v \in Inner : Out(flow, v) = In(flow, v) + (IF v = extra THEN 1 ELSE 0)

LEMMA BalancedKept ==
  ASSUME City, NEW start \in SUBSET (Vertices \X Vertices), IsFiniteSet(start),
         NEW now \in SUBSET (Vertices \X Vertices), OneDirection(now, start),
         start \cap Reversed(start) = {},
         NEW p, NEW c, <<p, c>> \in now, Balanced(start \ now, c)
  PROVE  Balanced(start \ ((now \ {<<p, c>>}) \cup {<<c, p>>}), p)
<1> DEFINE flow  == start \ now
           after == start \ ((now \ {<<p, c>>}) \cup {<<c, p>>})
<1>1. p # c /\ <<c, p>> \notin now /\ <<p, c>> # <<c, p>>
  <2>1. p # c /\ <<c, p>> \notin now
    BY OneDirectionKept
  <2>. QED
    BY <2>1
<1>2. IsFiniteSet(flow) /\ \A v : Out(flow, v) \in Nat /\ In(flow, v) \in Nat
  <2>1. IsFiniteSet(flow)
    BY FS_Difference
  <2>. QED
    BY <2>1, FlowsAreNat
<1>3. \A u, v : <<u, v>> \in Reversed(now) <=> <<v, u>> \in now
  BY ReversedIs
<1>4. \A u, v : <<u, v>> \in Reversed(start) <=> <<v, u>> \in start
  BY ReversedIs
<1>5. CASE <<p, c>> \in start
  <2>1. <<c, p>> \notin start
    BY <1>4, <1>5
  <2>2. after = flow \cup {<<p, c>>} /\ <<p, c>> \notin flow
    BY <1>1, <1>5, <2>1
  <2> HIDE DEF flow, after
  <2>3. ASSUME NEW v
        PROVE  /\ Out(after, v) = Out(flow, v) + (IF v = p THEN 1 ELSE 0)
               /\ In(after, v) = In(flow, v) + (IF v = c THEN 1 ELSE 0)
    BY <1>2, <2>2, FlowMore
  <2>4. ASSUME NEW v \in Inner PROVE Out(after, v) = In(after, v) + (IF v = p THEN 1 ELSE 0)
    <3>1. Out(flow, v) = In(flow, v) + (IF v = c THEN 1 ELSE 0)
      BY DEF Balanced, flow
    <3>. QED
      BY <1>1, <1>2, <2>3, <3>1
  <2>. QED
    BY <2>4 DEF Balanced, after
<1>6. CASE <<p, c>> \notin start
  <2>1. <<c, p>> \in start
    <3>1. <<p, c>> \in start \cup Reversed(start)
      BY DEF OneDirection
    <3>. QED
      BY <1>4, <1>6, <3>1
  <2>2. after = flow \ {<<c, p>>} /\ <<c, p>> \in flow
    BY <1>1, <1>6, <2>1
  <2> HIDE DEF flow, after
  <2>3. ASSUME NEW v
        PROVE  /\ Out(flow, v) = Out(after, v) + (IF v = c THEN 1 ELSE 0)
               /\ In(flow, v) = In(after, v) + (IF v = p THEN 1 ELSE 0)
    BY <1>2, <2>2, FlowLess
  <2>4. ASSUME NEW v \in Inner PROVE Out(after, v) = In(after, v) + (IF v = p THEN 1 ELSE 0)
    <3>1. Out(flow, v) = In(flow, v) + (IF v = c THEN 1 ELSE 0)
      BY DEF Balanced, flow
    <3>2. Out(after, v) \in Nat /\ In(after, v) \in Nat
      <4>1. IsFiniteSet(after)
        BY <1>2, <2>2, FS_RemoveElement
      <4>. QED
        BY <4>1, FlowsAreNat
    <3>. QED
      BY <1>1, <1>2, <2>3, <3>1, <3>2
  <2>. QED
    BY <2>4 DEF Balanced, after
<1>. QED
  BY <1>5, <1>6

-----------------------------------------------------------------------------
\* Paths.

\* The vertices of w, which are in the set marked, from vertex to the source,
\* each of which is a neighbour of its parent, the next.
Path(w, lists, up, marked, vertex) ==
  /\ w \in Seq(marked) /\ Once(w) /\ Len(w) > 0
  /\ w[1] = vertex /\ w[Len(w)] = Source
  /\ \A i \in 1 .. Len(w) - 1 : up[w[i]] = w[i + 1] /\ w[i] \in ToSet(lists[w[i + 1]])

Reached(lists, up, marked, vertex) == \E w : Path(w, lists, up, marked, vertex)

\* Marking a vertex leaves the paths of others as they are.
LEMMA ReachedStays ==
  ASSUME NEW marked \in SUBSET Vertices, NEW up, DOMAIN up = Vertices, NEW lists, NEW v,
         Reached(lists, up, marked, v), NEW to \in Vertices, to \notin marked, NEW parent
  PROVE  Reached(lists, [up EXCEPT ![to] = parent], marked \cup {to}, v)
<1> DEFINE new == [up EXCEPT ![to] = parent]
<1>1. PICK w : Path(w, lists, up, marked, v)
  BY DEF Reached
<1>2. \A x \in marked : new[x] = up[x]
  OBVIOUS
<1>3. w \in Seq(marked) /\ Len(w) \in Nat /\ \A i \in 1 .. Len(w) : w[i] \in marked
  BY <1>1, LenProperties, ElementOfSeq DEF Path
<1>4. w \in Seq(marked \cup {to})
  BY <1>3, SeqInto
<1> HIDE DEF new
<1>5. Path(w, lists, new, marked \cup {to}, v)
  BY <1>1, <1>2, <1>3, <1>4 DEF Path
<1>. QED
  BY <1>5 DEF Reached, new

\* And a neighbour of one that is marked gets a path by it.
LEMMA ReachedNext ==
  ASSUME NEW marked \in SUBSET Vertices, NEW up, DOMAIN up = Vertices, NEW lists, NEW v,
         Reached(lists, up, marked, v), NEW to \in Vertices, to \notin marked, to \in ToSet(lists[v])
  PROVE  Reached(lists, [up EXCEPT ![to] = v], marked \cup {to}, to)
<1> DEFINE new == [up EXCEPT ![to] = v]
           all == marked \cup {to}
           one == <<to>>
<1>1. PICK w : Path(w, lists, up, marked, v)
  BY DEF Reached
<1>2. (\A x \in marked : new[x] = up[x]) /\ new[to] = v
  OBVIOUS
<1>3. w \in Seq(marked) /\ Len(w) \in Nat /\ Len(w) > 0 /\ \A i \in 1 .. Len(w) : w[i] \in marked
  BY <1>1, LenProperties, ElementOfSeq DEF Path
<1>4. w \in Seq(all) /\ Once(w) /\ ToSet(w) \subseteq marked
  BY <1>1, <1>3, SeqInto, SetOf DEF Path
<1>5. one \in Seq(all) /\ Once(one) /\ ToSet(one) = {to} /\ Len(one) = 1 /\ one[1] = to
  <2>1. to \in all
    OBVIOUS
  <2> HIDE DEF all
  <2>. QED
    BY <2>1, OneIs
<1>6. ToSet(one) \cap ToSet(w) = {}
  BY <1>4, <1>5
<1> DEFINE p == one \o w
<1> HIDE DEF new, one, all
<1>7. /\ p \in Seq(all) /\ Once(p) /\ Len(p) = 1 + Len(w) /\ p[1] = to
      /\ \A i \in 1 .. Len(w) : p[1 + i] = w[i]
  <2>1. /\ p \in Seq(all) /\ Once(p) /\ Len(p) = Len(one) + Len(w)
        /\ \A i \in 1 .. Len(one) : p[i] = one[i]
        /\ \A i \in 1 .. Len(w) : p[Len(one) + i] = w[i]
    <3>1. /\ one \in Seq(all) /\ w \in Seq(all) /\ Once(one) /\ Once(w)
          /\ ToSet(one) \cap ToSet(w) = {}
      BY <1>4, <1>5, <1>6
    <3>2. /\ one \o w \in Seq(all) /\ Once(one \o w)
          /\ ToSet(one \o w) = ToSet(one) \cup ToSet(w)
          /\ Len(one \o w) = Len(one) + Len(w)
          /\ \A i \in 1 .. Len(one) : (one \o w)[i] = one[i]
          /\ \A i \in 1 .. Len(w) : (one \o w)[Len(one) + i] = w[i]
      BY <3>1, JoinedIs
    <3>. QED
      BY <3>2
  <2> HIDE DEF p
  <2>2. 1 \in 1 .. Len(one)
    BY <1>5
  <2>. QED
    BY <1>5, <2>1, <2>2
<1> HIDE DEF p
<1>8. p[Len(p)] = Source
  <2>1. Len(w) \in 1 .. Len(w)
    BY <1>3
  <2>. QED
    BY <1>1, <1>7, <2>1 DEF Path
<1>9. ASSUME NEW i \in 1 .. Len(p) - 1
      PROVE  new[p[i]] = p[i + 1] /\ p[i] \in ToSet(lists[p[i + 1]])
  <2>1. CASE i = 1
    <3>1. p[i] = to /\ p[i + 1] = v
      <4>1. 1 \in 1 .. Len(w)
        BY <1>3
      <4>. QED
        BY <1>1, <1>7, <2>1, <4>1 DEF Path
    <3>. QED
      BY <1>2, <3>1
  <2>2. CASE i # 1
    <3> DEFINE j == i - 1
    <3>1. /\ j \in 1 .. Len(w) - 1 /\ j \in 1 .. Len(w) /\ j + 1 \in 1 .. Len(w)
          /\ i = 1 + j /\ i + 1 = 1 + (j + 1)
      BY <1>3, <1>7, <2>2
    <3> HIDE DEF j
    <3>2. p[i] = w[j] /\ p[i + 1] = w[j + 1]
      BY <1>7, <3>1
    <3>3. up[w[j]] = w[j + 1] /\ w[j] \in ToSet(lists[w[j + 1]])
      BY <1>1, <3>1 DEF Path
    <3>. QED
      BY <1>2, <1>3, <3>1, <3>2, <3>3
  <2>. QED
    BY <2>1, <2>2
<1>10. Path(p, lists, new, all, to)
  BY <1>3, <1>7, <1>8, <1>9 DEF Path
<1>. QED
  BY <1>10 DEF Reached, new, all

\* The reversal of the last edge of a path leaves the rest of it.
LEMMA ReachedBack ==
  ASSUME City, Listed(graph), \A a : \A c \in ToSet(graph[a]) : a \in Vertices => a # c /\ a \notin ToSet(graph[c]),
         Reached(graph, parents, Vertices, currentNode), currentNode # Source
  PROVE  LET p == parents[currentNode] IN
         /\ p \in Vertices /\ currentNode \in ToSet(graph[p])
         /\ Reached(ReverseEdge(p, currentNode), parents, Vertices, p)
<1> DEFINE p == parents[currentNode]
           new == ReverseEdge(p, currentNode)
<1>1. PICK w : Path(w, graph, parents, Vertices, currentNode)
  BY DEF Reached
<1>2. w \in Seq(Vertices) /\ Len(w) \in Nat /\ Len(w) > 0 /\ \A i \in 1 .. Len(w) : w[i] \in Vertices
  BY <1>1, LenProperties, ElementOfSeq DEF Path
<1>3. Len(w) > 1 /\ 1 \in 1 .. Len(w) - 1 /\ 2 \in 1 .. Len(w) /\ 1 \in 1 .. Len(w)
  BY <1>1, <1>2 DEF Path
<1>4. p = w[2] /\ currentNode = w[1] /\ currentNode \in ToSet(graph[p]) /\ p \in Vertices
  <2>1. parents[w[1]] = w[1 + 1] /\ w[1] \in ToSet(graph[w[1 + 1]])
    BY <1>1, <1>3 DEF Path
  <2>. QED
    BY <1>1, <1>2, <1>3, <2>1 DEF Path
<1> HIDE DEF p
<1>5. ASSUME NEW x \in Vertices, NEW y \in ToSet(graph[x]), y # currentNode
      PROVE  y \in ToSet(new[x])
  <2>1. /\ Listed(new)
        /\ Edges(new) = (Edges(graph) \ {<<p, currentNode>>}) \cup {<<currentNode, p>>}
    BY <1>4, ReverseIs
  <2>2. <<x, y>> \in Edges(graph)
    BY EdgesAre
  <2>3. <<x, y>> # <<p, currentNode>>
    BY <1>5
  <2>4. <<x, y>> \in Edges(new)
    BY <2>1, <2>2, <2>3
  <2> HIDE DEF new
  <2>. QED
    BY <2>1, <2>4, EdgesAre
<1> HIDE DEF new
<1> DEFINE t == Tail(w)
<1>6. /\ t \in Seq(Vertices) /\ Len(t) = Len(w) - 1
      /\ \A i \in 1 .. Len(t) : t[i] = w[i + 1]
  <2>1. w # <<>>
    BY <1>2
  <2>. QED
    BY <1>2, <2>1, HeadTailProperties
<1> HIDE DEF t
<1>7. \A i \in 1 .. Len(t) : i + 1 \in 1 .. Len(w) /\ i + 1 # 1
  BY <1>2, <1>6
<1>8. Once(t)
  <2>1. SUFFICES ASSUME NEW i \in 1 .. Len(t), NEW j \in 1 .. Len(t), t[i] = t[j]
                 PROVE  i = j
    BY DEF Once
  <2>2. w[i + 1] = w[j + 1]
    BY <1>6, <2>1
  <2>3. i + 1 = j + 1
    BY <1>1, <1>7, <2>2 DEF Path, Once
  <2>. QED
    BY <2>3
<1>9. Len(t) > 0 /\ t[1] = p /\ t[Len(t)] = Source
  <2>1. 1 \in 1 .. Len(t) /\ Len(t) \in 1 .. Len(t) /\ Len(t) + 1 = Len(w) /\ Len(t) > 0
    BY <1>2, <1>3, <1>6
  <2>2. t[1] = w[1 + 1] /\ t[Len(t)] = w[Len(w)]
    BY <1>6, <2>1
  <2>. QED
    BY <1>1, <1>4, <2>1, <2>2 DEF Path
<1>10. ASSUME NEW i \in 1 .. Len(t) - 1
       PROVE  parents[t[i]] = t[i + 1] /\ t[i] \in ToSet(new[t[i + 1]])
  <2> DEFINE j == i + 1
  <2>1. /\ j \in 1 .. Len(w) - 1 /\ j \in 1 .. Len(w) /\ j + 1 \in 1 .. Len(w) /\ j # 1
        /\ t[i] = w[j] /\ t[i + 1] = w[j + 1]
    <3>1. j \in 1 .. Len(w) - 1 /\ j \in 1 .. Len(w) /\ j + 1 \in 1 .. Len(w) /\ j # 1
          /\ i \in 1 .. Len(t) /\ i + 1 \in 1 .. Len(t)
      BY <1>2, <1>6
    <3>. QED
      BY <1>6, <3>1
  <2> HIDE DEF j
  <2>2. parents[w[j]] = w[j + 1] /\ w[j] \in ToSet(graph[w[j + 1]])
    BY <1>1, <2>1 DEF Path
  <2>3. w[j] # currentNode
    BY <1>1, <1>3, <1>4, <2>1 DEF Path, Once
  <2>. QED
    BY <1>2, <1>5, <2>1, <2>2, <2>3
<1>11. Path(t, new, parents, Vertices, p)
  BY <1>6, <1>8, <1>9, <1>10 DEF Path
<1>. QED
  BY <1>4, <1>11 DEF Reached, new, p

\* What the function in Climb must satisfy.
Climbs(f) ==
  f = [n \in Vertices |-> IF n = 0 THEN currentNode
                                   ELSE [parents EXCEPT ![Source] = Source][f[n - 1]]]

LEMMA ClimbsOnce ==
  ASSUME City, NEW f, NEW g, Climbs(f), Climbs(g)
  PROVE  f = g
<1> DEFINE wrong == {n \in Vertices : f[n] # g[n]}
<1>1. Target \in Nat /\ Vertices = 0 .. Target
  BY CityIs
<1>2. SUFFICES wrong = {}
  <2>1. f = [n \in Vertices |-> f[n]] /\ g = [n \in Vertices |-> g[n]]
    BY Zenon DEF Climbs
  <2>. QED
    BY <1>2, <2>1
<1>3. SUFFICES ASSUME wrong # {} PROVE FALSE
  OBVIOUS
<1>4. PICK n \in wrong : \A m \in wrong : n <= m
  <2>1. wrong \in SUBSET Nat
    BY <1>1
  <2> HIDE DEF wrong
  <2>. QED
    BY <1>3, <2>1, LeastElement
<1>5. n # 0
  BY <1>4 DEF Climbs
<1>6. n - 1 \in Vertices /\ n - 1 \notin wrong
  BY <1>1, <1>4, <1>5
<1>7. f[n - 1] = g[n - 1]
  BY <1>6
<1>8. f[n] = g[n]
  BY <1>4, <1>5, <1>7 DEF Climbs
<1>. QED
  BY <1>4, <1>8

\* The walk up a path comes to its end.
LEMMA ReachedIsPath ==
  ASSUME City, Listed(graph), parents \in [Vertices -> Vertices \cup {-1}],
         Reached(graph, parents, Vertices, currentNode)
  PROVE  PathToSource
<1>1. PICK w : Path(w, graph, parents, Vertices, currentNode)
  BY DEF Reached
<1>2. w \in Seq(Vertices) /\ Once(w) /\ Len(w) \in Nat /\ Len(w) > 0 /\ \A i \in 1 .. Len(w) : w[i] \in Vertices
  BY <1>1, LenProperties, ElementOfSeq DEF Path
<1>3. Target \in Nat /\ Vertices = 0 .. Target /\ Source \in Vertices /\ Len(w) <= Target + 1
  <2>1. Target \in Nat /\ Vertices = 0 .. Target /\ IsFiniteSet(Vertices) /\ Cardinality(Vertices) = Target + 1
    BY CityIs, VerticesAre
  <2>2. Len(w) <= Cardinality(Vertices)
    BY <1>2, <2>1, NodesShort
  <2>. QED
    BY <2>1, <2>2, VerticesAre
<1> DEFINE climb == [parents EXCEPT ![Source] = Source]
           F == [n \in Vertices |-> IF n < Len(w) THEN w[n + 1] ELSE Source]
<1>4. climb[Source] = Source /\ \A v \in Vertices : v # Source => climb[v] = parents[v]
  BY <1>3
<1> HIDE DEF climb
<1>5. ASSUME NEW i \in 1 .. Len(w) - 1
      PROVE  /\ w[i] # Source /\ parents[w[i]] = w[i + 1] /\ climb[w[i]] = w[i + 1]
             /\ w[i] \in ToSet(graph[w[i + 1]])
  <2>1. parents[w[i]] = w[i + 1] /\ w[i] \in ToSet(graph[w[i + 1]]) /\ w[Len(w)] = Source
    BY <1>1 DEF Path
  <2>2. i \in 1 .. Len(w) /\ Len(w) \in 1 .. Len(w) /\ i # Len(w)
    BY <1>2
  <2>3. w[i] # Source
    BY <1>2, <2>1, <2>2 DEF Once
  <2>. QED
    BY <1>2, <1>4, <2>1, <2>2, <2>3
<1>6. ASSUME NEW n \in Vertices
      PROVE  F[n] = IF n = 0 THEN currentNode ELSE climb[F[n - 1]]
  <2>1. CASE n = 0
    BY <1>1, <1>2, <2>1 DEF Path
  <2>2. CASE n # 0
    <3>1. n - 1 \in Vertices /\ n \in Nat /\ n - 1 \in Nat
      BY <1>3, <2>2
    <3>2. CASE n < Len(w)
      <4>1. n \in 1 .. Len(w) - 1 /\ n - 1 < Len(w) /\ (n - 1) + 1 = n
        BY <1>2, <2>2, <3>1, <3>2
      <4>2. F[n] = w[n + 1] /\ F[n - 1] = w[n]
        BY <3>1, <3>2, <4>1
      <4> HIDE DEF F
      <4>. QED
        BY <1>5, <2>2, <4>1, <4>2
    <3>3. CASE ~(n < Len(w))
      <4>1. F[n] = Source
        BY <3>3
      <4>2. F[n - 1] = Source
        <5>1. CASE n = Len(w)
          <6>1. n - 1 < Len(w) /\ (n - 1) + 1 = Len(w)
            BY <1>2, <5>1
          <6>2. F[n - 1] = w[Len(w)]
            BY <3>1, <6>1
          <6> HIDE DEF F
          <6>. QED
            BY <1>1, <6>2 DEF Path
        <5>2. CASE n # Len(w)
          <6>1. ~(n - 1 < Len(w))
            BY <1>2, <3>1, <3>3, <5>2
          <6>. QED
            BY <3>1, <6>1
        <5>. QED
          BY <5>1, <5>2
      <4> HIDE DEF F
      <4>. QED
        BY <1>4, <2>2, <4>1, <4>2
    <3>. QED
      BY <3>2, <3>3
  <2>. QED
    BY <2>1, <2>2
<1>7. F = [n \in Vertices |-> F[n]]
  OBVIOUS
<1>8. \A n \in Vertices : F[n] = IF n < Len(w) THEN w[n + 1] ELSE Source
  OBVIOUS
<1> HIDE DEF F
<1>9. Climbs(F)
  <2>1. F = [n \in Vertices |-> IF n = 0 THEN currentNode ELSE climb[F[n - 1]]]
    BY <1>6, <1>7
  <2>. QED
    BY <2>1, Zenon DEF Climbs, climb
<1>10. Climb = F
  <2>1. Climb = CHOOSE f : Climbs(f)
    BY DEF Climb, Climbs
  <2>2. Climbs(Climb)
    BY <1>9, <2>1
  <2>. QED
    BY <1>9, <2>2, ClimbsOnce
<1>11. F[Target] = Source
  <2>1. Target \in Vertices
    BY <1>3
  <2>2. CASE Target < Len(w)
    <3>1. Target + 1 = Len(w)
      BY <1>2, <1>3, <2>2
    <3>. QED
      BY <1>1, <1>8, <2>1, <2>2, <3>1 DEF Path
  <2>. QED
    BY <1>8, <2>1, <2>2
<1>12. ASSUME NEW n \in Vertices, F[n] # Source
       PROVE  Contains(graph[parents[F[n]]], F[n])
  <2>1. n < Len(w) /\ F[n] = w[n + 1]
    BY <1>8, <1>12
  <2>2. n + 1 # Len(w)
    BY <1>1, <1>12, <2>1 DEF Path
  <2>3. n + 1 \in 1 .. Len(w) - 1 /\ (n + 1) + 1 \in 1 .. Len(w)
    BY <1>2, <1>3, <2>1, <2>2
  <2>4. /\ parents[w[n + 1]] = w[(n + 1) + 1] /\ w[n + 1] \in ToSet(graph[w[(n + 1) + 1]])
        /\ w[(n + 1) + 1] \in Vertices
    BY <1>2, <1>5, <2>3
  <2>5. graph[w[(n + 1) + 1]] \in Seq(Vertices)
    BY <2>4 DEF Listed
  <2>. QED
    BY <2>1, <2>4, <2>5, SetOf
<1>. QED
  BY <1>10, <1>11, <1>12 DEF PathToSource

-----------------------------------------------------------------------------
\* The invariant.

\* In a search every vertex marked has a path, among those marked, and the rest
\* of a list is of the vertex popped last.
SearchInv ==
  /\ Source \in visited /\ Target \notin visited
  /\ ToSet(queue) \subseteq visited
  /\ node # <<>> => from \in visited /\ ToSet(node) \subseteq ToSet(graph[from])
  /\ \A v \in visited : Reached(graph, parents, visited, v)

FlowInv ==
  /\ FlowTypeOK /\ Residual /\ Conserved
  /\ pc # "bfs" => node = <<>>
  /\ pc = "bfs" => SearchInv
  /\ pc = "augment" => Reached(graph, parents, Vertices, currentNode)

LEMMA TypeGivesCity ==
  ASSUME FlowTypeOK
  PROVE  City
BY GridsAssumption DEF FlowTypeOK, City, Places, GridsAssumption

\* The input stays, and with it what is defined of it.
LEMMA Frame ==
  ASSUME UNCHANGED input
  PROVE  /\ Vertices' = Vertices /\ Source' = Source /\ Target' = Target /\ Inner' = Inner
         /\ Crossings' = Crossings /\ Places' = Places
         /\ InitialGraph' = InitialGraph
<1>1. M' = M /\ N' = N /\ citizens' = citizens /\ markets' = markets
  BY DEF input
<1>2. /\ Vertices' = Vertices /\ Source' = Source /\ Target' = Target /\ Inner' = Inner
      /\ Crossings' = Crossings
  BY <1>1 DEF Vertices, Source, Target, Inner, Crossings
<1>3. Places' = Places
  BY <1>2 DEF Places
<1>4. Entries' = Entries /\ Exits' = Exits
  BY <1>1 DEF Entries, Exits, vin, vout
<1>5. ASSUME NEW v PROVE Streets(v)' = Streets(v)
  BY <1>1 DEF Streets
<1>6. InitialGraph' = InitialGraph
  <2> DEFINE listOf(v) ==
     CASE v \in Inner -> Only(v \in Exits, Target) \o Streets(v)
       [] v = Source  -> LastFirst(Entries)
       [] v = Target  -> <<>>
  <2>1. InitialGraph = [v \in Vertices |-> listOf(v)] /\ InitialGraph' = [v \in Vertices' |-> listOf(v)']
    BY Zenon DEF InitialGraph
  <2>2. ASSUME NEW v PROVE listOf(v)' = listOf(v)
    <3>1. LastFirst(Entries)' = LastFirst(Entries)
      BY <1>4, Zenon
    <3>2. (v \in Inner)' = (v \in Inner) /\ (v = Source)' = (v = Source) /\ (v = Target)' = (v = Target)
      BY <1>2
    <3>3. (Only(v \in Exits, Target) \o Streets(v))' = Only(v \in Exits, Target) \o Streets(v)
      BY <1>2, <1>4, <1>5 DEF Only
    <3>. QED
      BY <1>2, <3>1, <3>3
  <2> HIDE DEF listOf
  <2>. QED
    BY <1>2, <2>1, <2>2
<1>. QED
  BY <1>2, <1>3, <1>6

LEMMA EdgesStay ==
  ASSUME UNCHANGED input
  PROVE  Edges(graph)' = Edges(graph') /\ Edges(InitialGraph)' = Edges(InitialGraph)
BY Frame, Zenon DEF Edges

LEMMA ResidualIs ==
  ASSUME City, Listed(graph)
  PROVE  Residual <=> OneDirection(Edges(graph), Edges(InitialGraph))
<1>1. \A v \in Vertices : IsInjective(graph[v])
  BY SetOf DEF Listed
<1>. QED
  BY <1>1 DEF Residual, OneDirection

LEMMA ResidualAfter ==
  ASSUME City, UNCHANGED input, Listed(graph'), OneDirection(Edges(graph'), Edges(InitialGraph))
  PROVE  Residual'
<1>1. \A v \in Vertices : IsInjective(graph'[v])
  BY SetOf DEF Listed
<1>2. /\ Edges(graph') \cup Reversed(Edges(graph')) = Edges(InitialGraph) \cup Reversed(Edges(InitialGraph))
      /\ Edges(graph') \cap Reversed(Edges(graph')) = {}
  BY DEF OneDirection
<1>. QED
  BY <1>1, <1>2, EdgesStay, Frame, Zenon DEF Residual

\* The vertex at which the flow is not yet in balance; it may be at the target.
Extra == IF pc = "augment" THEN currentNode ELSE Target

LEMMA ConservedIs ==
  ASSUME City
  PROVE  Conserved <=> Balanced(Edges(InitialGraph) \ Edges(graph), Extra)
<1>1. ASSUME NEW v \in Inner PROVE v = Extra <=> pc = "augment" /\ v = currentNode
  BY VerticesAre DEF Extra
<1>. QED
  BY <1>1 DEF Conserved, Balanced, Out, In

LEMMA ConservedAfter ==
  ASSUME City, UNCHANGED input, NEW extra,
         Balanced(Edges(InitialGraph) \ Edges(graph'), extra),
         \A v \in Inner : v = extra <=> pc' = "augment" /\ v = currentNode'
  PROVE  Conserved'
BY EdgesStay, Frame DEF Conserved, Balanced, Out, In

LEMMA GraphListed ==
  ASSUME FlowTypeOK, Residual
  PROVE  Listed(graph)
BY SetOf DEF FlowTypeOK, Residual, Listed

LEMMA InputTypes ==
  ASSUME FlowTypeOK, UNCHANGED input
  PROVE  /\ (<<M, N>> \in Grids)' /\ (citizens \in Places)' /\ (markets \in Places)'
BY Frame DEF FlowTypeOK, input

LEMMA ReachedAfter ==
  ASSUME UNCHANGED input
  PROVE  /\ \A v : Reached(graph, parents, visited, v)' <=> Reached(graph', parents', visited', v)
         /\ Reached(graph, parents, Vertices, currentNode)'
              <=> Reached(graph', parents', Vertices, currentNode')
<1>1. Source' = Source /\ Vertices' = Vertices
  BY Frame
<1>. QED
  BY <1>1, Zenon DEF Reached, Path

LEMMA SourceReached ==
  ASSUME City, NEW lists, NEW up
  PROVE  Reached(lists, up, {Source}, Source)
<1> DEFINE w == <<Source>>
<1>1. w \in Seq({Source}) /\ Once(w) /\ Len(w) = 1 /\ w[1] = Source
  BY OneIs
<1> HIDE DEF w
<1>2. Path(w, lists, up, {Source}, Source)
  BY <1>1 DEF Path
<1>. QED
  BY <1>2 DEF Reached

LEMMA EmptyList == ASSUME NEW S PROVE <<>> \in Seq(S) /\ ToSet(<<>>) = {}
BY NoneIs

\* A step that neither ends nor begins the reversal of a path leaves the graph
\* what it is.
LEMMA GraphStays ==
  ASSUME FlowInv, UNCHANGED <<input, graph>>,
         \A v \in Inner : ~(pc = "augment" /\ v = currentNode) /\ ~(pc' = "augment" /\ v = currentNode')
  PROVE  Residual' /\ Conserved' /\ City /\ Listed(graph)
<1>1. FlowTypeOK /\ Residual /\ Conserved /\ City /\ Listed(graph) /\ graph' = graph /\ UNCHANGED input
  BY TypeGivesCity, GraphListed DEF FlowInv
<1>2. Residual'
  BY <1>1, ResidualIs, ResidualAfter
<1>3. Conserved'
  <2>1. Balanced(Edges(InitialGraph) \ Edges(graph'), Extra)
    BY <1>1, ConservedIs
  <2>2. \A v \in Inner : v = Extra <=> pc' = "augment" /\ v = currentNode'
    BY <1>1, VerticesAre DEF Extra
  <2>. QED
    BY <1>1, <2>1, <2>2, ConservedAfter
<1>. QED
  BY <1>1, <1>2, <1>3

LEMMA StartKeeps ==
  ASSUME FlowInv, Start
  PROVE  FlowInv'
<1>1. FlowTypeOK /\ City /\ UNCHANGED input /\ pc = "search" /\ pc' = "bfs" /\ node = <<>>
  BY TypeGivesCity DEF FlowInv, Start
<1>2. Residual' /\ Conserved'
  BY <1>1, GraphStays DEF Start
<1>3. Source \in Vertices
  BY <1>1, VerticesAre
<1>4. FlowTypeOK'
  <2>1. queue' \in Seq(Vertices)
    <3>1. queue' = <<Source>>
      BY DEF Start
    <3>. QED
      BY <1>3, <3>1, OneIs
  <2>2. parents' \in [Vertices -> Vertices \cup {-1}] /\ visited' \subseteq Vertices
    BY <1>1, <1>3 DEF FlowTypeOK, Start
  <2>. QED
    BY <1>1, <2>1, <2>2, InputTypes, Frame DEF FlowTypeOK, Start
<1>5. SearchInv'
  <2>1. visited' = {Source} /\ Source' = Source /\ Target' = Target /\ Source # Target
    BY <1>1, Frame, VerticesAre DEF Start
  <2>2. ToSet(queue)' \subseteq visited'
    <3>1. queue' = <<Source>>
      BY DEF Start
    <3>. QED
      BY <1>3, <2>1, <3>1, OneIs
  <2>3. node' = <<>>
    BY <1>1 DEF Start
  <2>4. \A v \in visited' : Reached(graph, parents, visited, v)'
    BY <1>1, <2>1, SourceReached, ReachedAfter
  <2>. QED
    BY <2>1, <2>2, <2>3, <2>4 DEF SearchInv
<1>. QED
  BY <1>1, <1>2, <1>4, <1>5 DEF FlowInv

LEMMA PopKeeps ==
  ASSUME FlowInv, Pop
  PROVE  FlowInv'
<1>1. FlowTypeOK /\ City /\ SearchInv /\ UNCHANGED <<input, graph, parents, visited, pc, currentNode, maxflow>>
      /\ UNCHANGED input /\ pc = "bfs" /\ pc' = "bfs"
  BY TypeGivesCity DEF FlowInv, Pop
<1>2. Residual' /\ Conserved'
  BY <1>1, GraphStays
<1>3. /\ Head(queue) \in Vertices /\ Tail(queue) \in Seq(Vertices)
      /\ Head(queue) \in ToSet(queue) /\ ToSet(Tail(queue)) \subseteq ToSet(queue)
  <2>1. queue \in Seq(Vertices) /\ queue # <<>>
    BY <1>1 DEF FlowTypeOK, Pop
  <2>. QED
    BY <2>1, HeadAndTail
<1>4. FlowTypeOK'
  <2>1. graph[Head(queue)] \in Seq(Vertices)
    BY <1>1, <1>3 DEF FlowTypeOK
  <2>. QED
    BY <1>1, <1>3, <2>1, InputTypes, Frame DEF FlowTypeOK, Pop
<1>5. SearchInv'
  <2>1. Source' = Source /\ Target' = Target /\ visited' = visited /\ graph' = graph /\ parents' = parents
    BY <1>1, Frame
  <2>2. ToSet(queue)' \subseteq visited' /\ from' \in visited' /\ ToSet(node)' \subseteq ToSet(graph[from])'
    BY <1>1, <1>3, <2>1 DEF SearchInv, Pop
  <2>3. \A v \in visited' : Reached(graph, parents, visited, v)'
    BY <1>1, <2>1, ReachedAfter DEF SearchInv
  <2>. QED
    BY <1>1, <2>1, <2>2, <2>3 DEF SearchInv
<1>. QED
  BY <1>1, <1>2, <1>4, <1>5 DEF FlowInv

LEMMA LookKeeps ==
  ASSUME FlowInv, Look
  PROVE  FlowInv'
<1> DEFINE to == Head(node)
<1>1. FlowTypeOK /\ City /\ SearchInv /\ UNCHANGED <<input, graph>> /\ UNCHANGED input
      /\ graph' = graph /\ from' = from /\ maxflow' = maxflow
      /\ pc = "bfs" /\ node # <<>> /\ Listed(graph)
  BY TypeGivesCity, GraphListed DEF FlowInv, Look
<1>2. currentNode' \in {currentNode, Target} /\ (pc' = "augment" => currentNode' = Target)
  BY <1>1 DEF Look
<1>3. currentNode' \in Vertices
  BY <1>1, <1>2, VerticesAre DEF FlowTypeOK
<1>4. Residual' /\ Conserved'
  <2>1. \A v \in Inner : ~(pc' = "augment" /\ v = currentNode')
    BY <1>1, <1>2, VerticesAre
  <2>. QED
    BY <1>1, <2>1, GraphStays
<1>5. /\ to \in ToSet(graph[from]) /\ to \in Vertices /\ from \in visited
      /\ Tail(node) \in Seq(Vertices) /\ ToSet(Tail(node)) \subseteq ToSet(graph[from])
  <2>1. node \in Seq(Vertices) /\ node # <<>> /\ ToSet(node) \subseteq ToSet(graph[from]) /\ from \in visited
    BY <1>1 DEF FlowTypeOK, SearchInv
  <2>. QED
    BY <2>1, HeadAndTail
<1>6. Source' = Source /\ Target' = Target /\ Vertices' = Vertices
  BY <1>1, Frame
<1>7. visited \subseteq Vertices /\ parents \in [Vertices -> Vertices \cup {-1}] /\ from \in Vertices
      /\ queue \in Seq(Vertices)
  BY <1>1 DEF FlowTypeOK
<1>8. CASE to \in visited
  <2>1. /\ UNCHANGED <<visited, parents, queue>> /\ visited' = visited /\ parents' = parents /\ queue' = queue
        /\ node' = Tail(node) /\ pc' = "bfs"
    BY <1>1, <1>8 DEF Look, Mark
  <2>2. FlowTypeOK'
    BY <1>1, <1>5, <1>6, <1>3, <2>1, InputTypes, VerticesAre DEF FlowTypeOK
  <2>3. \A v \in visited' : Reached(graph, parents, visited, v)'
    BY <1>1, <2>1, ReachedAfter DEF SearchInv
  <2>4. SearchInv'
    BY <1>1, <1>5, <1>6, <2>1, <2>3 DEF SearchInv
  <2>. QED
    BY <1>4, <2>1, <2>2, <2>4 DEF FlowInv
<1>9. CASE to \notin visited
  <2>1. visited' = visited \cup {to} /\ parents' = [parents EXCEPT ![to] = from]
    BY <1>9 DEF Look, Mark
  <2>2. parents' \in [Vertices -> Vertices \cup {-1}] /\ visited' \subseteq Vertices
    BY <1>5, <1>7, <2>1
  <2>3. ASSUME NEW v \in visited' PROVE Reached(graph, parents', visited', v)
    <3>1. visited \in SUBSET Vertices /\ DOMAIN parents = Vertices
      BY <1>7
    <3>2. \A u \in visited : Reached(graph, parents, visited, u)
      BY <1>1 DEF SearchInv
    <3>3. CASE v \in visited
      BY <1>5, <1>9, <2>1, <3>1, <3>2, <3>3, ReachedStays
    <3>4. CASE v = to
      BY <1>5, <1>9, <2>1, <3>1, <3>2, <3>4, ReachedNext
    <3>. QED
      BY <2>1, <3>3, <3>4
  <2>4. CASE to = Target
    <3>1. queue' = <<>> /\ node' = <<>> /\ pc' = "augment"
      BY <1>9, <2>4 DEF Look
    <3>2. FlowTypeOK'
      BY <1>1, <1>6, <1>3, <2>2, <3>1, InputTypes, VerticesAre, EmptyList DEF FlowTypeOK
    <3>3. Reached(graph, parents', Vertices, Target)
      <4>1. PICK w : Path(w, graph, parents', visited', Target)
        BY <2>1, <2>3, <2>4 DEF Reached
      <4>2. w \in Seq(Vertices)
        BY <2>2, <4>1, SeqInto DEF Path
      <4>3. Path(w, graph, parents', Vertices, Target)
        BY <4>1, <4>2 DEF Path
      <4>. QED
        BY <4>3 DEF Reached
    <3>4. Reached(graph, parents, Vertices, currentNode)'
      BY <1>1, <1>2, <3>1, <3>3, ReachedAfter
    <3>. QED
      BY <1>4, <3>1, <3>2, <3>4 DEF FlowInv
  <2>5. CASE to # Target
    <3>1. queue' = Append(queue, to) /\ node' = Tail(node) /\ pc' = "bfs"
      BY <1>1, <1>9, <2>5 DEF Look
    <3>2. queue' \in Seq(Vertices) /\ ToSet(queue') \subseteq ToSet(queue) \cup {to}
      BY <1>5, <1>7, <3>1, AppendedIs
    <3>3. FlowTypeOK'
      BY <1>1, <1>5, <1>6, <1>3, <2>2, <3>1, <3>2, InputTypes, VerticesAre DEF FlowTypeOK
    <3>4. \A v \in visited' : Reached(graph, parents, visited, v)'
      BY <1>1, <2>3, ReachedAfter
    <3>5. ToSet(queue)' \subseteq visited'
      BY <1>1, <2>1, <3>2 DEF SearchInv
    <3>6. ToSet(node)' \subseteq ToSet(graph[from])' /\ from' \in visited'
      BY <1>1, <1>5, <2>1, <3>1
    <3>7. Source' \in visited' /\ Target' \notin visited'
      BY <1>1, <1>6, <2>1, <2>5 DEF SearchInv
    <3>8. SearchInv'
      BY <3>4, <3>5, <3>6, <3>7 DEF SearchInv
    <3>. QED
      BY <1>4, <3>1, <3>3, <3>8 DEF FlowInv
  <2>. QED
    BY <2>4, <2>5
<1>. QED
  BY <1>8, <1>9

LEMMA GiveUpKeeps ==
  ASSUME FlowInv, GiveUp
  PROVE  FlowInv'
<1>1. FlowTypeOK /\ City /\ UNCHANGED <<input, graph, search, currentNode, maxflow>> /\ UNCHANGED input
      /\ pc = "bfs" /\ pc' = "done" /\ node' = <<>>
  BY TypeGivesCity DEF FlowInv, GiveUp, search
<1>2. Residual' /\ Conserved'
  BY <1>1, GraphStays
<1>3. FlowTypeOK'
  BY <1>1, InputTypes, Frame DEF FlowTypeOK, search
<1>. QED
  BY <1>1, <1>2, <1>3 DEF FlowInv

LEMMA AddFlowKeeps ==
  ASSUME FlowInv, AddFlow
  PROVE  FlowInv'
<1>1. FlowTypeOK /\ City /\ UNCHANGED <<input, graph, search, currentNode>> /\ UNCHANGED input
      /\ pc = "augment" /\ pc' = "search" /\ currentNode = Source /\ node' = <<>>
  BY TypeGivesCity DEF FlowInv, AddFlow, search
<1>2. Residual' /\ Conserved'
  BY <1>1, GraphStays, VerticesAre
<1>3. FlowTypeOK'
  BY <1>1, InputTypes, Frame DEF FlowTypeOK, search, AddFlow
<1>. QED
  BY <1>1, <1>2, <1>3 DEF FlowInv

LEMMA AugmentKeeps ==
  ASSUME FlowInv, Augment
  PROVE  FlowInv'
<1> DEFINE p == parents[currentNode]
           now == Edges(graph)
           start == Edges(InitialGraph)
<1>1. FlowTypeOK /\ Residual /\ Conserved /\ City /\ Listed(graph) /\ UNCHANGED input
      /\ UNCHANGED <<input, search, pc, maxflow>>
      /\ pc = "augment" /\ pc' = "augment" /\ node' = <<>> /\ parents' = parents
      /\ currentNode # Source /\ currentNode' = p
      /\ graph' = ReverseEdge(p, currentNode)
      /\ Reached(graph, parents, Vertices, currentNode)
  BY TypeGivesCity, GraphListed DEF FlowInv, Augment, search
<1>2. OneDirection(now, start)
  BY <1>1, ResidualIs
<1>3. /\ now \in SUBSET (Vertices \X Vertices) /\ start \in SUBSET (Vertices \X Vertices)
      /\ IsFiniteSet(start)
  BY <1>1, EdgesAre, StartListed
<1>4. \A a : \A c \in ToSet(graph[a]) : a \in Vertices => a # c /\ a \notin ToSet(graph[c])
  <2>1. ASSUME NEW a \in Vertices, NEW c \in ToSet(graph[a])
        PROVE  a # c /\ a \notin ToSet(graph[c])
    <3>1. <<a, c>> \in now
      BY <1>1, EdgesAre
    <3> HIDE DEF now, start
    <3>2. a # c /\ c \in Vertices /\ <<c, a>> \notin now
      BY <1>2, <1>3, <3>1, OneDirectionKept
    <3>. QED
      BY <1>1, <3>2, EdgesAre DEF now
  <2>. QED
    BY <2>1
<1>5. p \in Vertices /\ currentNode \in ToSet(graph[p])
      /\ Reached(graph', parents, Vertices, p)
  BY <1>1, <1>4, ReachedBack
<1>6. /\ Listed(graph')
      /\ Edges(graph') = (now \ {<<p, currentNode>>}) \cup {<<currentNode, p>>}
  BY <1>1, <1>4, <1>5, ReverseIs
<1>7. <<p, currentNode>> \in now
  BY <1>1, <1>5, EdgesAre
<1>8. Residual'
  <2>1. OneDirection(Edges(graph'), start)
    <3> HIDE DEF now, start, p
    <3>1. OneDirection((now \ {<<p, currentNode>>}) \cup {<<currentNode, p>>}, start)
      BY <1>2, <1>3, <1>7, OneDirectionKept
    <3>. QED
      BY <1>6, <3>1
  <2>. QED
    BY <1>1, <1>6, <2>1, ResidualAfter
<1>9. Conserved'
  <2>1. Balanced(start \ now, currentNode)
    BY <1>1, ConservedIs DEF Extra
  <2>2. start \cap Reversed(start) = {}
    BY <1>1, StartIsOneWay
  <2>3. Balanced(start \ Edges(graph'), p)
    <3> HIDE DEF now, start
    <3>. QED
      BY <1>1, <1>2, <1>3, <1>6, <1>7, <2>1, <2>2, BalancedKept
  <2>. QED
    BY <1>1, <2>3, ConservedAfter
<1>10. FlowTypeOK'
  <2>1. graph' \in [Vertices -> Seq(Vertices)]
    BY <1>6 DEF Listed
  <2>. QED
    BY <1>1, <1>5, <2>1, InputTypes, Frame DEF FlowTypeOK, search
<1>11. Reached(graph, parents, Vertices, currentNode)'
  BY <1>1, <1>5, ReachedAfter
<1>. QED
  BY <1>1, <1>8, <1>9, <1>10, <1>11 DEF FlowInv

LEMMA InitInv ==
  ASSUME FlowInit
  PROVE  FlowInv
<1>1. City
  BY GridsAssumption DEF FlowInit, City, Places, GridsAssumption
<1>2. Listed(InitialGraph) /\ graph = InitialGraph /\ pc = "search" /\ node = <<>> /\ queue = <<>>
  BY <1>1, StartListed DEF FlowInit
<1>3. FlowTypeOK
  <2>1. graph \in [Vertices -> Seq(Vertices)]
    BY <1>2 DEF Listed
  <2>2. queue \in Seq(Vertices) /\ node \in Seq(Vertices)
    BY <1>2, EmptyList
  <2>3. <<M, N>> \in Grids
    BY GridsAssumption DEF FlowInit, GridsAssumption
  <2>. QED
    BY <1>1, <2>1, <2>2, <2>3, VerticesAre DEF FlowInit, FlowTypeOK
<1>4. Residual
  <2>1. OneDirection(Edges(graph), Edges(InitialGraph))
    BY <1>1, <1>2, StartIsOneWay DEF OneDirection
  <2>. QED
    BY <1>1, <1>2, <2>1, ResidualIs
<1>5. Conserved
  <2>1. Edges(InitialGraph) \ Edges(graph) = {}
    BY <1>2
  <2>2. ASSUME NEW v PROVE Out({}, v) = 0 /\ In({}, v) = 0
    <3>1. {e \in {} : e[1] = v} = {} /\ {e \in {} : e[2] = v} = {}
      OBVIOUS
    <3>. QED
      BY <3>1, FS_EmptySet DEF Out, In
  <2>3. Balanced({}, Extra)
    BY <1>1, <1>2, <2>2, VerticesAre DEF Balanced, Extra
  <2>. QED
    BY <1>1, <2>1, <2>3, ConservedIs
<1>. QED
  BY <1>2, <1>3, <1>4, <1>5 DEF FlowInv

LEMMA StutterKeeps ==
  ASSUME FlowInv, UNCHANGED flowVars
  PROVE  FlowInv'
<1>1. FlowTypeOK /\ City /\ UNCHANGED input /\ UNCHANGED <<input, graph>> /\ UNCHANGED search
      /\ graph' = graph /\ parents' = parents /\ visited' = visited /\ queue' = queue /\ from' = from
      /\ node' = node /\ pc' = pc /\ currentNode' = currentNode /\ maxflow' = maxflow
  BY TypeGivesCity DEF FlowInv, flowVars, search
<1>2. Residual'
  BY <1>1, GraphListed, ResidualIs, ResidualAfter DEF FlowInv
<1>3. Conserved'
  <2>1. Balanced(Edges(InitialGraph) \ Edges(graph'), Extra)
    BY <1>1, ConservedIs DEF FlowInv
  <2>2. \A v \in Inner : v = Extra <=> pc' = "augment" /\ v = currentNode'
    BY <1>1, VerticesAre DEF Extra
  <2>. QED
    BY <1>1, <2>1, <2>2, ConservedAfter
<1>4. FlowTypeOK'
  BY <1>1, InputTypes, Frame DEF FlowTypeOK
<1>5. pc = "bfs" => SearchInv'
  <2>1. Source' = Source /\ Target' = Target
    BY <1>1, Frame
  <2>2. \A v \in visited : Reached(graph, parents, visited, v)' <=> Reached(graph, parents, visited, v)
    BY <1>1, ReachedAfter
  <2>. QED
    BY <1>1, <2>1, <2>2 DEF FlowInv, SearchInv
<1>6. pc = "augment" => Reached(graph, parents, Vertices, currentNode)'
  BY <1>1, ReachedAfter DEF FlowInv
<1>. QED
  BY <1>1, <1>2, <1>3, <1>4, <1>5, <1>6 DEF FlowInv

LEMMA InvGivesFlowSound ==
  ASSUME FlowInv
  PROVE  FlowSound
<1>1. FlowTypeOK /\ Residual /\ Conserved /\ City /\ Listed(graph)
  BY TypeGivesCity, GraphListed DEF FlowInv
<1>2. PathToSource
  <2>1. CASE pc = "augment"
    BY <1>1, <2>1, ReachedIsPath DEF FlowInv, FlowTypeOK
  <2>2. CASE pc # "augment"
    BY <2>2 DEF PathToSource
  <2>. QED
    BY <2>1, <2>2
<1>. QED
  BY <1>1, <1>2 DEF FlowSound

\* Whatever the city and who stands where, at every step of every search and of
\* every reversal: the lists are a residual graph of the city's, the parents of
\* the search are a path to the source along edges of the graph, and what is
\* reversed is a flow.
THEOREM FlowIsSound == FlowSpec => []FlowSound
<1>1. FlowInit => FlowInv
  BY InitInv
<1>2. FlowInv /\ [FlowNext]_flowVars => FlowInv'
  BY StartKeeps, PopKeeps, LookKeeps, GiveUpKeeps, AugmentKeeps, AddFlowKeeps, StutterKeeps DEF FlowNext
<1>3. FlowInv => FlowSound
  BY InvGivesFlowSound
<1>. QED
  BY <1>1, <1>2, <1>3, PTL DEF FlowSpec

-----------------------------------------------------------------------------
\* The graph as the city's: what an edge of the start is.

LEMMA DivUnique ==
  ASSUME NEW m \in Nat \ {0}, NEW q \in Nat, NEW q2 \in Nat, NEW r \in 0 .. m - 1, NEW r2 \in 0 .. m - 1,
         m * q + r = m * q2 + r2
  PROVE  q = q2 /\ r = r2
<1>1. ASSUME NEW a \in Nat, NEW b \in Nat, a < b, NEW x \in 0 .. m - 1, NEW y \in 0 .. m - 1
      PROVE  m * a + x < m * b + y
  <2>1. m * b = m * a + m * (b - a) /\ m * a \in Nat
    BY <1>1
  <2>2. m * (b - a) >= m
    BY <1>1
  <2>. QED
    BY <1>1, <2>1, <2>2
<1>2. ~(q < q2) /\ ~(q2 < q)
  <2>1. m * q + r \in Int /\ m * q2 + r2 \in Int
    OBVIOUS
  <2>2. ~(q < q2)
    <3>1. q < q2 => m * q + r < m * q2 + r2
      BY <1>1
    <3>. QED
      BY <2>1, <3>1
  <2>3. ~(q2 < q)
    <3>1. q2 < q => m * q2 + r2 < m * q + r
      BY <1>1
    <3>. QED
      BY <2>1, <3>1
  <2>. QED
    BY <2>2, <2>3
<1>3. q = q2
  BY <1>2
<1>. QED
  BY <1>3

\* The number of a crossing.
Place(c) == M * (c[2] - 1) + (c[1] - 1)

LEMMA PlaceIs ==
  ASSUME City, NEW c \in Crossings
  PROVE  /\ c = <<c[1], c[2]>> /\ c[1] \in 1 .. M /\ c[2] \in 1 .. N
         /\ Place(c) \in Nat /\ Place(c) < M * N
         /\ Place(c) \div M = c[2] - 1 /\ Place(c) % M = c[1] - 1
         /\ vin(c) = 2 * Place(c) /\ vout(c) = 2 * Place(c) + 1
<1> DEFINE x == c[1]
           y == c[2]
           k == Place(c)
<1>1. c = <<x, y>> /\ x \in 1 .. M /\ y \in 1 .. N /\ M \in Nat \ {0} /\ N \in Nat \ {0}
  BY DEF Crossings, City
<1>2. vin(c) = 2 * ((y - 1) * M + (x - 1)) /\ vout(c) = vin(c) + 1 /\ k = M * (y - 1) + (x - 1)
  BY DEF vin, vout, Place
<1> HIDE DEF x, y, k
<1>3. (y - 1) * M = M * (y - 1) /\ M * (y - 1) \in Nat
  BY <1>1
<1>4. k \in Nat /\ k < M * N
  <2>1. (N - y) * M >= 0 /\ (N - y) * M \in Int
    BY <1>1
  <2>2. M * N = (N - y) * M + (y - 1) * M + M
    BY <1>1
  <2>. QED
    BY <1>1, <1>2, <1>3, <2>1, <2>2
<1>5. vin(c) = 2 * k /\ vout(c) = 2 * k + 1
  BY <1>2, <1>3
<1>6. k \div M \in Nat /\ k % M \in 0 .. M - 1 /\ k = M * (k \div M) + (k % M)
  BY <1>1, <1>4, DivMod
<1> DEFINE q == k \div M
           r == k % M
<1>7. k \div M = y - 1 /\ k % M = x - 1
  <2>1. /\ q \in Nat /\ y - 1 \in Nat /\ r \in 0 .. M - 1 /\ x - 1 \in 0 .. M - 1
        /\ M * q + r = M * (y - 1) + (x - 1)
    BY <1>1, <1>2, <1>6
  <2> HIDE DEF q, r
  <2>2. q = y - 1 /\ r = x - 1
    BY <1>1, <2>1, DivUnique
  <2>. QED
    BY <2>2 DEF q, r
<1>. QED
  BY <1>1, <1>4, <1>5, <1>7 DEF x, y, k

\* Every crossing has an entry and an exit, and every vertex inside is one of these.
LEMMA GatesAre ==
  ASSUME City, NEW c \in Crossings
  PROVE  /\ vin(c) \in Inner /\ vin(c) % 2 = 0 /\ vin(c) \div 2 = Place(c)
         /\ vout(c) \in Inner /\ vout(c) % 2 # 0 /\ vout(c) \div 2 = Place(c)
<1> DEFINE k == Place(c)
           last == M * N
<1>1. k \in Nat /\ k < last /\ vin(c) = 2 * k /\ vout(c) = 2 * k + 1
  BY PlaceIs
<1>2. Inner = 0 .. 2 * last - 1 /\ last \in Nat
  BY CityIs
<1> HIDE DEF k, last
<1>3. /\ 2 * k \in 0 .. 2 * last - 1 /\ (2 * k) % 2 = 0 /\ (2 * k) \div 2 = k
      /\ 2 * k + 1 \in 0 .. 2 * last - 1 /\ (2 * k + 1) % 2 # 0 /\ (2 * k + 1) \div 2 = k
  BY <1>1, <1>2
<1>. QED
  BY <1>1, <1>2, <1>3 DEF k

LEMMA SameGate ==
  ASSUME City, NEW c \in Crossings, NEW d \in Crossings
  PROVE  /\ vin(c) # vout(d)
         /\ vin(c) = vin(d) => c = d
         /\ vout(c) = vout(d) => c = d
<1>1. Place(c) = Place(d) => c = d
  <2>1. ASSUME Place(c) = Place(d) PROVE c[1] = d[1] /\ c[2] = d[2]
    <3>1. /\ Place(c) \div M = c[2] - 1 /\ Place(c) % M = c[1] - 1 /\ c[1] \in Int /\ c[2] \in Int
          /\ Place(d) \div M = d[2] - 1 /\ Place(d) % M = d[1] - 1 /\ d[1] \in Int /\ d[2] \in Int
      BY PlaceIs
    <3>. QED
      BY <2>1, <3>1
  <2>. QED
    BY <2>1, PlaceIs
<1>. QED
  BY <1>1, GatesAre

LEMMA VertexIs ==
  ASSUME City, NEW v \in Inner
  PROVE  \E c \in Crossings : v = vin(c) \/ v = vout(c)
<1> DEFINE k == v \div 2
           last == M * N
           c == <<(k % M) + 1, (k \div M) + 1>>
<1>1. v \in 0 .. 2 * last - 1 /\ last \in Nat \ {0} /\ M \in Nat \ {0} /\ N \in Nat \ {0}
  BY CityIs DEF City
<1>2. k \in Nat /\ k < last /\ (v = 2 * k \/ v = 2 * k + 1)
  <2> HIDE DEF last
  <2>1. v \in Nat /\ k \in Nat /\ (v = 2 * k \/ v = 2 * k + 1)
    BY <1>1, Half
  <2> HIDE DEF k
  <2>. QED
    BY <1>1, <2>1
<1>3. k \div M \in Nat /\ k % M \in 0 .. M - 1 /\ k = M * (k \div M) + (k % M)
  <2> HIDE DEF k
  <2>. QED
    BY <1>1, <1>2, DivMod
<1>4. k \div M < N
  <2> DEFINE q == k \div M
             r == k % M
  <2>1. q \in Nat /\ r \in 0 .. M - 1 /\ M * q + r < M * N
    BY <1>2, <1>3
  <2> HIDE DEF q, r
  <2>2. ASSUME q >= N PROVE FALSE
    <3>1. M * q = M * N + M * (q - N) /\ M * (q - N) \in Nat /\ M * N \in Nat
      BY <1>1, <2>1, <2>2
    <3>. QED
      BY <1>1, <2>1, <3>1
  <2>. QED
    BY <1>1, <2>1, <2>2 DEF q
<1>5. c \in Crossings /\ c[1] = (k % M) + 1 /\ c[2] = (k \div M) + 1
  <2> HIDE DEF k
  <2>1. (k % M) + 1 \in 1 .. M /\ (k \div M) + 1 \in 1 .. N
    BY <1>1, <1>3, <1>4
  <2>. QED
    BY <2>1 DEF Crossings
<1>6. Place(c) = k
  <2> DEFINE q == k \div M
             r == k % M
  <2>1. Place(c) = M * (q + 1 - 1) + (r + 1 - 1) /\ k = M * q + r /\ q \in Nat /\ r \in Nat
    BY <1>3, <1>5 DEF Place
  <2> HIDE DEF k, q, r, c
  <2>2. q + 1 - 1 = q /\ r + 1 - 1 = r
    BY <2>1
  <2>. QED
    BY <2>1, <2>2
<1> HIDE DEF c, k
<1>7. vin(c) = 2 * k /\ vout(c) = 2 * k + 1
  BY <1>5, <1>6, PlaceIs
<1>. QED
  BY <1>2, <1>5, <1>7

\* A street from c leads to d if and only if they are next to each other.
LEMMA StreetIs ==
  ASSUME City, NEW c \in Crossings, NEW v
  PROVE  StreetTo(vout(c), v) <=> \E d \in Crossings : Adjacent(c, d) /\ v = vin(d)
<1> DEFINE x == c[1]
           y == c[2]
           k == Place(c)
<1>1. /\ x \in 1 .. M /\ y \in 1 .. N /\ M \in Nat \ {0} /\ N \in Nat \ {0}
      /\ k \div M = y - 1 /\ k % M = x - 1 /\ k \in Nat
      /\ vout(c) = 2 * k + 1 /\ vout(c) \div 2 = k /\ k = M * (y - 1) + (x - 1)
  BY PlaceIs, GatesAre DEF City, Place
<1>3. \A a, b : <<a, b>> \in Crossings <=> a \in 1 .. M /\ b \in 1 .. N
  BY DEF Crossings
<1>4. ASSUME NEW d \in Crossings
      PROVE  /\ vin(d) = 2 * (M * (d[2] - 1) + (d[1] - 1)) /\ d = <<d[1], d[2]>>
             /\ d[1] \in 1 .. M /\ d[2] \in 1 .. N
             /\ Adjacent(c, d) <=> (x = d[1] /\ y - d[2] \in {-1, 1}) \/ (y = d[2] /\ x - d[1] \in {-1, 1})
  BY PlaceIs DEF Place, Adjacent
<1> HIDE DEF x, y, k
<1>2. StreetTo(vout(c), v) <=>
        \/ y - 1 < N - 1 /\ v = 2 * k + 1 + 2 * M - 1
        \/ y - 1 > 0 /\ v = 2 * k + 1 - 2 * M - 1
        \/ x - 1 > 0 /\ v = 2 * k + 1 - 3
        \/ x - 1 < M - 1 /\ v = 2 * k + 1 + 1
  BY <1>1 DEF StreetTo
<1>5. /\ M * (y + 1 - 1) = M * (y - 1) + M /\ M * (y - 1 - 1) = M * (y - 1) - M
      /\ M * (y - 1) \in Int
  BY <1>1
<1>6. ASSUME y - 1 < N - 1, v = 2 * k + 1 + 2 * M - 1 
      PROVE  \E d \in Crossings : Adjacent(c, d) /\ v = vin(d)
  <2> DEFINE d == <<x, y + 1>>
  <2>1. d \in Crossings /\ d[1] = x /\ d[2] = y + 1
    BY <1>1, <1>3, <1>6
  <2> HIDE DEF d
  <2>2. Adjacent(c, d)
    BY <1>1, <1>4, <2>1
  <2>3. v = vin(d)
    BY <1>1, <1>4, <1>5, <1>6, <2>1
  <2>. QED
    BY <2>1, <2>2, <2>3
<1>7. ASSUME y - 1 > 0, v = 2 * k + 1 - 2 * M - 1 
      PROVE  \E d \in Crossings : Adjacent(c, d) /\ v = vin(d)
  <2> DEFINE d == <<x, y - 1>>
  <2>1. d \in Crossings /\ d[1] = x /\ d[2] = y - 1
    BY <1>1, <1>3, <1>7
  <2> HIDE DEF d
  <2>2. Adjacent(c, d)
    BY <1>1, <1>4, <2>1
  <2>3. v = vin(d)
    BY <1>1, <1>4, <1>5, <1>7, <2>1
  <2>. QED
    BY <2>1, <2>2, <2>3
<1>8. ASSUME x - 1 > 0, v = 2 * k + 1 - 3
      PROVE  \E d \in Crossings : Adjacent(c, d) /\ v = vin(d)
  <2> DEFINE d == <<x - 1, y>>
  <2>1. d \in Crossings /\ d[1] = x - 1 /\ d[2] = y
    BY <1>1, <1>3, <1>8
  <2> HIDE DEF d
  <2>2. Adjacent(c, d)
    BY <1>1, <1>4, <2>1
  <2>3. v = vin(d)
    BY <1>1, <1>4, <1>5, <1>8, <2>1
  <2>. QED
    BY <2>1, <2>2, <2>3
<1>9. ASSUME x - 1 < M - 1, v = 2 * k + 1 + 1
      PROVE  \E d \in Crossings : Adjacent(c, d) /\ v = vin(d)
  <2> DEFINE d == <<x + 1, y>>
  <2>1. d \in Crossings /\ d[1] = x + 1 /\ d[2] = y
    BY <1>1, <1>3, <1>9
  <2> HIDE DEF d
  <2>2. Adjacent(c, d)
    BY <1>1, <1>4, <2>1
  <2>3. v = vin(d)
    BY <1>1, <1>4, <1>5, <1>9, <2>1
  <2>. QED
    BY <2>1, <2>2, <2>3
<1>10. ASSUME NEW d \in Crossings, Adjacent(c, d), v = vin(d)
       PROVE  StreetTo(vout(c), v)
  <2> DEFINE a == d[1]
             b == d[2]
  <2>1. /\ v = 2 * (M * (b - 1) + (a - 1)) /\ a \in 1 .. M /\ b \in 1 .. N
        /\ (x = a /\ (b = y + 1 \/ b = y - 1)) \/ (y = b /\ (a = x + 1 \/ a = x - 1))
    BY <1>1, <1>4, <1>10
  <2> HIDE DEF a, b
  <2>2. CASE x = a /\ b = y + 1
    BY <1>1, <1>2, <1>5, <2>1, <2>2
  <2>3. CASE x = a /\ b = y - 1
    BY <1>1, <1>2, <1>5, <2>1, <2>3
  <2>4. CASE y = b /\ a = x + 1
    BY <1>1, <1>2, <1>5, <2>1, <2>4
  <2>5. CASE y = b /\ a = x - 1
    BY <1>1, <1>2, <1>5, <2>1, <2>5
  <2>. QED
    BY <2>1, <2>2, <2>3, <2>4, <2>5
<1>. QED
  BY <1>2, <1>6, <1>7, <1>8, <1>9, <1>10

\* The edges of the start: from the source to the entries of citizens, from an
\* entry to its exit, and from an exit along the streets and, where a supermarket
\* is, to the target.
LEMMA StartEdges ==
  ASSUME City, markets \subseteq Crossings
  PROVE  /\ \A v : <<Source, v>> \in Edges(InitialGraph) <=> \E c \in citizens : v = vin(c)
         /\ \A v : <<Target, v>> \notin Edges(InitialGraph)
         /\ \A c \in Crossings : \A v : <<vin(c), v>> \in Edges(InitialGraph) <=> v = vout(c)
         /\ \A c \in Crossings : \A v :
              <<vout(c), v>> \in Edges(InitialGraph) <=>
                \/ c \in markets /\ v = Target
                \/ \E d \in Crossings : Adjacent(c, d) /\ v = vin(d)
<1>1. \A u, v : <<u, v>> \in Edges(InitialGraph) <=> u \in Vertices /\ v \in ToSet(InitialGraph[u])
  BY StartListed, EdgesAre
<1>2. /\ \A u \in Inner : \A v :
           v \in ToSet(InitialGraph[u]) <=> (u \in Exits /\ v = Target) \/ v \in ToSet(Streets(u))
      /\ ToSet(InitialGraph[Source]) = Entries /\ ToSet(InitialGraph[Target]) = {}
      /\ Source \in Vertices /\ Target \in Vertices /\ Inner \subseteq Vertices
  BY StartListed, VerticesAre
<1>3. \A v : v \in Entries <=> \E c \in citizens : v = vin(c)
  BY DEF Entries
<1>4. ASSUME NEW c \in Crossings
      PROVE  vin(c) \notin Exits /\ (vout(c) \in Exits <=> c \in markets)
  BY SameGate DEF Exits
<1>5. ASSUME NEW c \in Crossings, NEW v
      PROVE  /\ v \in ToSet(Streets(vin(c))) <=> v = vout(c)
             /\ v \in ToSet(Streets(vout(c))) <=> \E d \in Crossings : Adjacent(c, d) /\ v = vin(d)
  <2>1. vin(c) \in Inner /\ vin(c) % 2 = 0 /\ vout(c) \in Inner /\ vout(c) % 2 # 0 /\ vout(c) = vin(c) + 1
    BY GatesAre DEF vout
  <2>2. /\ v \in ToSet(Streets(vin(c))) <=> v = vin(c) + 1
        /\ v \in ToSet(Streets(vout(c))) <=> StreetTo(vout(c), v)
    BY <2>1, StreetsAre
  <2>. QED
    BY <2>1, <2>2, StreetIs
<1>6. ASSUME NEW c \in Crossings, NEW v
      PROVE  /\ <<vin(c), v>> \in Edges(InitialGraph) <=> v = vout(c)
             /\ <<vout(c), v>> \in Edges(InitialGraph) <=>
                  \/ c \in markets /\ v = Target
                  \/ \E d \in Crossings : Adjacent(c, d) /\ v = vin(d)
  BY <1>1, <1>2, <1>4, <1>5, GatesAre
<1>. QED
  BY <1>1, <1>2, <1>3, <1>6

-----------------------------------------------------------------------------
\* The flow across the border of a set of vertices.

Tails(flow, set) == {e \in flow : e[1] \in set}
Heads(flow, set) == {e \in flow : e[2] \in set}

Leaving(edges, set)  == {e \in edges : e[1] \in set /\ e[2] \notin set}
Entering(edges, set) == {e \in edges : e[1] \notin set /\ e[2] \in set}

LEMMA PartsAre ==
  ASSUME NEW flow, IsFiniteSet(flow), NEW set
  PROVE  /\ IsFiniteSet(Tails(flow, set)) /\ Cardinality(Tails(flow, set)) \in Nat
         /\ IsFiniteSet(Heads(flow, set)) /\ Cardinality(Heads(flow, set)) \in Nat
         /\ IsFiniteSet(Leaving(flow, set)) /\ Cardinality(Leaving(flow, set)) \in Nat
         /\ IsFiniteSet(Entering(flow, set)) /\ Cardinality(Entering(flow, set)) \in Nat
<1>1. /\ Tails(flow, set) \in SUBSET flow /\ Heads(flow, set) \in SUBSET flow
      /\ Leaving(flow, set) \in SUBSET flow /\ Entering(flow, set) \in SUBSET flow
  BY DEF Tails, Heads, Leaving, Entering
<1>. QED
  BY <1>1, FS_Subset, FS_CardinalityType

LEMMA DisjointCount ==
  ASSUME NEW S, NEW T, IsFiniteSet(S), IsFiniteSet(T), S \cap T = {}
  PROVE  IsFiniteSet(S \cup T) /\ Cardinality(S \cup T) = Cardinality(S) + Cardinality(T)
<1>1. Cardinality(S) \in Nat /\ Cardinality(T) \in Nat /\ Cardinality(S \cap T) = 0
  BY FS_CardinalityType, FS_EmptySet
<1>2. /\ IsFiniteSet(S \cup T)
      /\ Cardinality(S \cup T) = Cardinality(S) + Cardinality(T) - Cardinality(S \cap T)
  BY FS_Union, Zenon
<1>. QED
  BY <1>1, <1>2

\* With one more vertex, one more vertex's edges.
LEMMA OneMore ==
  ASSUME NEW flow, IsFiniteSet(flow), NEW set, NEW v, v \notin set
  PROVE  /\ Cardinality(Tails(flow, set \cup {v})) = Cardinality(Tails(flow, set)) + Out(flow, v)
         /\ Cardinality(Heads(flow, set \cup {v})) = Cardinality(Heads(flow, set)) + In(flow, v)
<1> DEFINE out == {e \in flow : e[1] = v}
           in  == {e \in flow : e[2] = v}
<1>1. /\ IsFiniteSet(out) /\ Cardinality(out) = Out(flow, v)
      /\ IsFiniteSet(in) /\ Cardinality(in) = In(flow, v)
  BY FlowsAreNat DEF Out, In
<1>2. /\ Tails(flow, set \cup {v}) = Tails(flow, set) \cup out /\ Tails(flow, set) \cap out = {}
      /\ Heads(flow, set \cup {v}) = Heads(flow, set) \cup in /\ Heads(flow, set) \cap in = {}
  BY DEF Tails, Heads
<1> HIDE DEF out, in
<1>. QED
  BY <1>1, <1>2, PartsAre, DisjointCount

\* What flows out of the source flows across the border of every set that has the
\* source and not the target.
LEMMA NetFlow ==
  ASSUME City, NEW flow, IsFiniteSet(flow), Balanced(flow, Target), In(flow, Source) = 0,
         NEW set \in SUBSET Inner
  PROVE  Cardinality(Tails(flow, set \cup {Source}))
           = Cardinality(Heads(flow, set \cup {Source})) + Out(flow, Source)
<1> DEFINE Right(s) == Cardinality(Tails(flow, s \cup {Source}))
                         = Cardinality(Heads(flow, s \cup {Source})) + Out(flow, Source)
           wrong == {Cardinality(s) : s \in {r \in SUBSET Inner : ~Right(r)}}
<1>1. \A s \in SUBSET Inner : IsFiniteSet(s) /\ Cardinality(s) \in Nat /\ Source \notin s /\ Source \notin Inner
  BY VerticesAre, FS_Subset, FS_CardinalityType
<1>2. Right({})
  <2> DEFINE none == {}
  <2>0. Source \notin none
    OBVIOUS
  <2> HIDE DEF none
  <2>1. /\ Cardinality(Tails(flow, none \cup {Source})) = Cardinality(Tails(flow, none)) + Out(flow, Source)
        /\ Cardinality(Heads(flow, none \cup {Source})) = Cardinality(Heads(flow, none)) + In(flow, Source)
    BY <2>0, OneMore
  <2>2. Tails(flow, none) = {} /\ Heads(flow, none) = {}
    BY DEF Tails, Heads, none
  <2>3. Cardinality({}) = 0
    BY FS_EmptySet
  <2>4. Out(flow, Source) \in Nat
    BY FlowsAreNat
  <2>5. Right(none)
    BY <2>1, <2>2, <2>3, <2>4
  <2>. QED
    BY <2>5 DEF none
<1>3. ASSUME NEW s \in SUBSET Inner, NEW v \in s, Right(s \ {v})
      PROVE  Right(s)
  <2> DEFINE t == (s \ {v}) \cup {Source}
  <2>1. s \cup {Source} = t \cup {v} /\ v \notin t /\ v \in Inner
    BY <1>1
  <2> HIDE DEF t
  <2>2. /\ Cardinality(Tails(flow, t \cup {v})) = Cardinality(Tails(flow, t)) + Out(flow, v)
        /\ Cardinality(Heads(flow, t \cup {v})) = Cardinality(Heads(flow, t)) + In(flow, v)
    BY <2>1, OneMore
  <2>3. Out(flow, v) = In(flow, v) /\ In(flow, v) \in Nat /\ Out(flow, Source) \in Nat
    <3>1. v # Target
      BY <2>1, VerticesAre
    <3>2. In(flow, v) \in Nat /\ Out(flow, Source) \in Nat
      BY FlowsAreNat
    <3>. QED
      BY <2>1, <3>1, <3>2 DEF Balanced
  <2>4. Cardinality(Tails(flow, t)) = Cardinality(Heads(flow, t)) + Out(flow, Source)
    BY <1>3 DEF t
  <2>5. Cardinality(Tails(flow, t)) \in Nat /\ Cardinality(Heads(flow, t)) \in Nat
    BY PartsAre
  <2>6. Cardinality(Tails(flow, s \cup {Source})) = Cardinality(Heads(flow, s \cup {Source})) + Out(flow, Source)
    BY <2>1, <2>2, <2>3, <2>4, <2>5
  <2>. QED
    BY <2>6
<1> HIDE DEF Right
<1>4. ASSUME wrong # {} PROVE FALSE
  <2>1. wrong \in SUBSET Nat
    BY <1>1
  <2>2. PICK k \in wrong : \A j \in wrong : k <= j
    BY <1>4, <2>1, LeastElement
  <2>3. PICK s \in SUBSET Inner : ~Right(s) /\ Cardinality(s) = k
    BY <2>2
  <2>4. PICK v \in s : TRUE
    BY <1>2, <2>3
  <2>5. Cardinality(s \ {v}) = Cardinality(s) - 1 /\ s \ {v} \in SUBSET Inner
    BY <1>1, FS_RemoveElement
  <2>6. ~Right(s \ {v})
    BY <1>3, <2>3
  <2>7. Cardinality(s \ {v}) \in wrong
    BY <2>5, <2>6
  <2>. QED
    BY <1>1, <2>2, <2>3, <2>5, <2>7
<1>5. Right(set)
  BY <1>4
<1>. QED
  BY <1>5 DEF Right

LEMMA Across ==
  ASSUME City, NEW flow, IsFiniteSet(flow), Balanced(flow, Target), In(flow, Source) = 0,
         NEW set \in SUBSET Vertices, Source \in set, Target \notin set
  PROVE  Cardinality(Leaving(flow, set)) = Cardinality(Entering(flow, set)) + Out(flow, Source)
<1> DEFINE inside == {e \in flow : e[1] \in set /\ e[2] \in set}
<1>1. set = (set \ {Source}) \cup {Source} /\ set \ {Source} \in SUBSET Inner
  BY VerticesAre
<1>2. Cardinality(Tails(flow, set)) = Cardinality(Heads(flow, set)) + Out(flow, Source)
  <2> DEFINE s == set \ {Source}
  <2>1. s \in SUBSET Inner /\ set = s \cup {Source}
    BY <1>1
  <2> HIDE DEF s
  <2>. QED
    BY <2>1, NetFlow
<1>3. IsFiniteSet(inside) /\ Cardinality(inside) \in Nat
  <2>1. inside \in SUBSET flow
    OBVIOUS
  <2>. QED
    BY <2>1, FS_Subset, FS_CardinalityType
<1>4. /\ Tails(flow, set) = Leaving(flow, set) \cup inside /\ Leaving(flow, set) \cap inside = {}
      /\ Heads(flow, set) = Entering(flow, set) \cup inside /\ Entering(flow, set) \cap inside = {}
  BY DEF Tails, Heads, Leaving, Entering
<1> HIDE DEF inside
<1>5. /\ IsFiniteSet(Leaving(flow, set)) /\ IsFiniteSet(Entering(flow, set))
      /\ Cardinality(Leaving(flow, set)) \in Nat /\ Cardinality(Entering(flow, set)) \in Nat
      /\ Out(flow, Source) \in Nat
  BY PartsAre, FlowsAreNat
<1>6. /\ Cardinality(Tails(flow, set)) = Cardinality(Leaving(flow, set)) + Cardinality(inside)
      /\ Cardinality(Heads(flow, set)) = Cardinality(Entering(flow, set)) + Cardinality(inside)
  BY <1>3, <1>4, <1>5, DisjointCount
<1>. QED
  BY <1>2, <1>3, <1>5, <1>6

-----------------------------------------------------------------------------
\* Cuts.

Town == City /\ markets \subseteq Crossings

LEMMA StartInto ==
  ASSUME Town, NEW u, NEW v, <<u, v>> \in Edges(InitialGraph)
  PROVE  /\ u # Target /\ v # Source
         /\ \A c \in Crossings : v = vout(c) => u = vin(c)
         /\ \/ \E c \in Crossings : v = vin(c) \/ v = vout(c)
            \/ v = Target /\ \E c \in markets : u = vout(c)
<1>1. City /\ markets \subseteq Crossings /\ citizens \subseteq Crossings
  BY DEF Town, City
<1>2. u \in Vertices /\ u # Target
  <2>1. Edges(InitialGraph) \subseteq Vertices \X Vertices
    BY <1>1, StartListed, EdgesAre
  <2>. QED
    BY <1>1, <2>1, StartEdges
<1>3. \A c \in Crossings : vin(c) # Source /\ vout(c) # Source /\ vin(c) # Target /\ vout(c) # Target
  BY <1>1, GatesAre, VerticesAre
<1>4. CASE u = Source
  <2>1. PICK c \in citizens : v = vin(c)
    BY <1>1, <1>4, StartEdges
  <2>. QED
    BY <1>1, <1>2, <1>3, <2>1, SameGate
<1>5. ASSUME NEW c \in Crossings, u = vin(c)
      PROVE  v = vout(c)
  BY <1>1, <1>5, StartEdges
<1>6. ASSUME NEW c \in Crossings, u = vout(c)
      PROVE  (c \in markets /\ v = Target) \/ \E d \in Crossings : v = vin(d)
  BY <1>1, <1>6, StartEdges
<1>7. CASE u \in Inner
  <2>1. PICK c \in Crossings : u = vin(c) \/ u = vout(c)
    BY <1>1, <1>7, VertexIs
  <2>2. CASE u = vin(c)
    BY <1>1, <1>2, <1>3, <1>5, <2>2, SameGate
  <2>3. CASE u = vout(c)
    <3>1. CASE c \in markets /\ v = Target
      BY <1>1, <1>2, <1>3, <2>3, <3>1, VerticesAre
    <3>2. CASE \E d \in Crossings : v = vin(d)
      BY <1>1, <1>2, <1>3, <3>2, SameGate
    <3>. QED
      BY <1>6, <2>3, <3>1, <3>2
  <2>. QED
    BY <2>1, <2>2, <2>3
<1>. QED
  BY <1>1, <1>2, <1>4, <1>7, VerticesAre

\* A flow along edges of the start.
Flow(flow) == flow \subseteq Edges(InitialGraph) /\ Balanced(flow, Target)

LEMMA FlowIs ==
  ASSUME Town, NEW flow, Flow(flow)
  PROVE  /\ IsFiniteSet(flow) /\ In(flow, Source) = 0
         /\ \A e \in flow : e = <<e[1], e[2]>> /\ e[1] \in Vertices /\ e[2] \in Vertices
<1>1. City /\ flow \in SUBSET Edges(InitialGraph)
  BY DEF Town, Flow
<1>2. IsFiniteSet(flow) /\ \A e \in flow : e = <<e[1], e[2]>> /\ e[1] \in Vertices /\ e[2] \in Vertices
  <2>1. IsFiniteSet(Edges(InitialGraph)) /\ Edges(InitialGraph) \subseteq Vertices \X Vertices
    BY <1>1, StartListed, EdgesAre
  <2>. QED
    BY <1>1, <2>1, FS_Subset
<1>3. {e \in flow : e[2] = Source} = {}
  BY <1>1, <1>2, StartInto
<1>. QED
  BY <1>2, <1>3, FS_EmptySet DEF In

\* One edge at most brings flow to an entry, and what leaves an exit has come from
\* its entry.
LEMMA Through ==
  ASSUME Town, NEW flow, Flow(flow), NEW c \in Crossings
  PROVE  /\ \A u, v : <<u, vin(c)>> \in flow /\ <<v, vin(c)>> \in flow => u = v
         /\ \A u : <<u, vin(c)>> \in flow => <<vin(c), vout(c)>> \in flow
         /\ \A v : <<vout(c), v>> \in flow => <<vin(c), vout(c)>> \in flow
<1> DEFINE i == vin(c)
           o == vout(c)
           outI == {e \in flow : e[1] = i}
           inI  == {e \in flow : e[2] = i}
           outO == {e \in flow : e[1] = o}
           inO  == {e \in flow : e[2] = o}
<1>1. City /\ markets \subseteq Crossings /\ flow \subseteq Edges(InitialGraph) /\ Balanced(flow, Target)
      /\ IsFiniteSet(flow) /\ \A e \in flow : e = <<e[1], e[2]>>
  BY FlowIs DEF Town, Flow
<1>2. i \in Inner /\ o \in Inner /\ i # Target /\ o # Target
  BY <1>1, GatesAre, VerticesAre
<1>3. /\ IsFiniteSet(outI) /\ IsFiniteSet(inI) /\ IsFiniteSet(outO) /\ IsFiniteSet(inO)
      /\ Cardinality(outI) \in Nat /\ Cardinality(inI) \in Nat
      /\ Cardinality(outO) \in Nat /\ Cardinality(inO) \in Nat
  BY <1>1, FlowsAreNat DEF Out, In
<1>4. Cardinality(outI) = Cardinality(inI) /\ Cardinality(outO) = Cardinality(inO)
  <2>1. /\ Out(flow, i) = In(flow, i) + (IF i = Target THEN 1 ELSE 0)
        /\ Out(flow, o) = In(flow, o) + (IF o = Target THEN 1 ELSE 0)
    BY <1>1, <1>2 DEF Balanced
  <2>. QED
    BY <1>2, <1>3, <2>1 DEF Out, In
<1>5. outI \in SUBSET {<<i, o>>}
  <2>1. ASSUME NEW e \in outI PROVE e = <<i, o>>
    <3>1. e = <<i, e[2]>> /\ e \in Edges(InitialGraph)
      BY <1>1
    <3>2. e[2] = o
      BY <1>1, <3>1, StartEdges
    <3>. QED
      BY <3>1, <3>2
  <2>. QED
    BY <2>1
<1>6. \A e \in inO : e = <<i, o>>
  <2>1. ASSUME NEW e \in inO PROVE e = <<i, o>>
    <3>1. e = <<e[1], o>> /\ e \in Edges(InitialGraph)
      BY <1>1
    <3>2. e[1] = i
      BY <3>1, StartInto
    <3>. QED
      BY <3>1, <3>2
  <2>. QED
    BY <2>1
<1>7. Cardinality(inI) <= 1
  <2>1. IsFiniteSet({<<i, o>>}) /\ Cardinality({<<i, o>>}) = 1
    BY FS_Singleton
  <2>2. Cardinality(outI) <= 1
    BY <1>5, <2>1, FS_Subset
  <2>. QED
    BY <1>4, <2>2
<1>8. ASSUME NEW u, <<u, i>> \in flow PROVE inI = {<<u, i>>}
  <2>1. {<<u, i>>} \in SUBSET inI
    BY <1>8
  <2>2. Cardinality({<<u, i>>}) = 1
    BY FS_Singleton
  <2>3. Cardinality({<<u, i>>}) <= Cardinality(inI) /\ (Cardinality(inI) = Cardinality({<<u, i>>}) => inI = {<<u, i>>})
    BY <1>3, <2>1, FS_Subset
  <2>. QED
    BY <1>3, <1>7, <2>2, <2>3
<1>9. ASSUME NEW u, NEW v, <<u, i>> \in flow, <<v, i>> \in flow PROVE u = v
  BY <1>8, <1>9
<1>10. ASSUME NEW u, <<u, i>> \in flow PROVE <<i, o>> \in flow
  <2>1. Cardinality(outI) = 1
    <3>1. inI = {<<u, i>>}
      BY <1>8, <1>10
    <3>2. Cardinality(inI) = 1
      BY <3>1, FS_Singleton
    <3>. QED
      BY <1>4, <3>2
  <2>2. outI # {}
    BY <2>1, FS_EmptySet
  <2>. QED
    BY <1>5, <2>2
<1>11. ASSUME NEW v, <<o, v>> \in flow PROVE <<i, o>> \in flow
  <2>1. outO # {}
    BY <1>11
  <2>2. Cardinality(outO) # 0
    BY <1>3, <2>1, FS_EmptySet
  <2>3. inO # {}
    BY <1>4, <2>2, FS_EmptySet
  <2>. QED
    BY <1>6, <2>3
<1>. QED
  BY <1>9, <1>10, <1>11

\* The crossing at which an edge of the start is cut: the one it leads into, or
\* leaves for the target.
CutAt(e, c) == c \in Crossings /\ (e[2] \in {vin(c), vout(c)} \/ (e[2] = Target /\ e[1] = vout(c)))

LEMMA CutAtOne ==
  ASSUME Town, NEW u, NEW v, <<u, v>> \in Edges(InitialGraph)
  PROVE  /\ \E c : CutAt(<<u, v>>, c)
         /\ \A c, d : CutAt(<<u, v>>, c) /\ CutAt(<<u, v>>, d) => c = d
<1>1. City /\ markets \subseteq Crossings
  BY DEF Town
<1>2. \A c : CutAt(<<u, v>>, c) <=> c \in Crossings /\ (v \in {vin(c), vout(c)} \/ (v = Target /\ u = vout(c)))
  BY DEF CutAt
<1>3. \E c : CutAt(<<u, v>>, c)
  BY <1>1, <1>2, StartInto
<1>4. ASSUME NEW c, NEW d, CutAt(<<u, v>>, c), CutAt(<<u, v>>, d) PROVE c = d
  <2>1. c \in Crossings /\ d \in Crossings /\ vin(c) # Target /\ vout(c) # Target /\ vin(d) # Target /\ vout(d) # Target
    BY <1>1, <1>2, <1>4, GatesAre, VerticesAre
  <2>2. /\ vin(c) # vout(d) /\ vin(d) # vout(c)
        /\ vin(c) = vin(d) => c = d
        /\ vout(c) = vout(d) => c = d
    BY <1>1, <2>1, SameGate
  <2>3. /\ v \in {vin(c), vout(c)} \/ (v = Target /\ u = vout(c))
        /\ v \in {vin(d), vout(d)} \/ (v = Target /\ u = vout(d))
    BY <1>2, <1>4
  <2>. QED
    BY <2>1, <2>2, <2>3
<1>. QED
  BY <1>3, <1>4

\* A set of vertices with the source and not the target, all of whose edges out
\* carry flow, and none of whose edges in.
Saturated(flow, set) ==
  /\ set \subseteq Vertices /\ Source \in set /\ Target \notin set
  /\ Entering(flow, set) = {}
  /\ Leaving(Edges(InitialGraph), set) \subseteq flow

\* No crossing cuts two of the edges that leave it.
LEMMA CutOnce ==
  ASSUME Town, NEW flow, Flow(flow), NEW set, Saturated(flow, set),
         NEW e \in Leaving(flow, set), NEW f \in Leaving(flow, set), NEW c, CutAt(e, c), CutAt(f, c)
  PROVE  e = f
<1> DEFINE i == vin(c)
           o == vout(c)
<1>1. City /\ c \in Crossings /\ i # o /\ i # Target /\ o # Target
  BY GatesAre, VerticesAre, SameGate DEF Town, CutAt
<1>2. /\ e = <<e[1], e[2]>> /\ e \in flow /\ e \in Edges(InitialGraph) /\ e[1] \in set /\ e[2] \notin set
      /\ f = <<f[1], f[2]>> /\ f \in flow /\ f \in Edges(InitialGraph) /\ f[1] \in set /\ f[2] \notin set
  BY FlowIs DEF Leaving, Flow
<1>3. /\ \A u, v : <<u, i>> \in flow /\ <<v, i>> \in flow => u = v
      /\ \A u : <<u, i>> \in flow => <<i, o>> \in flow
      /\ \A v : <<o, v>> \in flow => <<i, o>> \in flow
  BY <1>1, Through
<1>4. ~(i \notin set /\ o \in set /\ <<i, o>> \in flow)
  <2>1. <<i, o>> \notin Entering(flow, set)
    BY DEF Saturated
  <2>. QED
    BY <2>1 DEF Entering
<1>5. /\ e[2] = o => e[1] = i
      /\ f[2] = o => f[1] = i
  BY <1>1, <1>2, StartInto
<1>6. /\ e[2] = i \/ e[2] = o \/ (e[2] = Target /\ e[1] = o)
      /\ f[2] = i \/ f[2] = o \/ (f[2] = Target /\ f[1] = o)
  BY DEF CutAt
<1> HIDE DEF i, o
<1>7. CASE e[2] = i
  <2>1. f[2] # o
    BY <1>2, <1>5, <1>7
  <2>2. ~(f[2] = Target /\ f[1] = o)
    BY <1>2, <1>3, <1>4, <1>7
  <2>. QED
    BY <1>2, <1>3, <1>6, <1>7, <2>1, <2>2
<1>8. CASE e[2] = o
  <2>1. f[2] # i
    BY <1>2, <1>5, <1>8
  <2>2. ~(f[2] = Target /\ f[1] = o)
    BY <1>2, <1>8
  <2>. QED
    BY <1>2, <1>5, <1>6, <1>8, <2>1, <2>2
<1>9. CASE e[2] = Target /\ e[1] = o
  <2>1. f[2] # i
    BY <1>2, <1>3, <1>4, <1>9
  <2>2. f[2] # o
    BY <1>2, <1>9
  <2>. QED
    BY <1>2, <1>6, <1>9, <2>1, <2>2
<1>. QED
  BY <1>6, <1>7, <1>8, <1>9

\* The crossings that cut these edges are as many as the flow, and separate the
\* citizens from the supermarkets.
LEMMA CutOf ==
  ASSUME Town, NEW flow, Flow(flow), NEW set, Saturated(flow, set)
  PROVE  \E closed \in SUBSET Crossings : Cardinality(closed) = Out(flow, Source) /\ Separates(closed)
<1> DEFINE edges  == Leaving(flow, set)
           start  == Edges(InitialGraph)
           closed == {c \in Crossings : \E e \in edges : CutAt(e, c)}
           open   == Crossings \ closed
           part   == {c \in open : vout(c) \in set}
<1>1. City /\ markets \subseteq Crossings /\ citizens \subseteq Crossings
  BY DEF Town, City
<1>2. /\ set \in SUBSET Vertices /\ Source \in set /\ Target \notin set
      /\ Entering(flow, set) = {} /\ Leaving(start, set) \subseteq flow
  BY DEF Saturated
<1>3. IsFiniteSet(flow) /\ In(flow, Source) = 0 /\ Balanced(flow, Target) /\ flow \subseteq start
      /\ \A e \in flow : e = <<e[1], e[2]>>
  BY FlowIs DEF Flow
<1>4. IsFiniteSet(edges) /\ Cardinality(edges) = Out(flow, Source)
  <2>1. Cardinality(edges) = Cardinality(Entering(flow, set)) + Out(flow, Source)
    BY <1>1, <1>2, <1>3, Across
  <2>2. Cardinality(Entering(flow, set)) = 0 /\ Out(flow, Source) \in Nat
    BY <1>2, <1>3, FS_EmptySet, FlowsAreNat
  <2>. QED
    BY <1>3, <2>1, <2>2, PartsAre
<1>5. Cardinality(closed) = Cardinality(edges)
  <2> DEFINE at == [e \in edges |-> CHOOSE c : CutAt(e, c)]
  <2>1. ASSUME NEW e \in edges PROVE CutAt(e, at[e]) /\ at[e] \in closed
    <3>1. e \in start /\ e = <<e[1], e[2]>>
      BY <1>3 DEF Leaving
    <3>2. \E c : CutAt(e, c)
      BY <3>1, CutAtOne
    <3>3. CutAt(e, at[e])
      BY <3>2
    <3>. QED
      BY <3>3 DEF CutAt
  <2>2. ASSUME NEW c \in closed PROVE \E e \in edges : at[e] = c
    <3>1. PICK e \in edges : CutAt(e, c)
      OBVIOUS
    <3>2. e \in start /\ e = <<e[1], e[2]>>
      BY <1>3 DEF Leaving
    <3>3. CutAt(e, at[e])
      BY <2>1
    <3> HIDE DEF at
    <3>4. at[e] = c
      BY <3>1, <3>2, <3>3, CutAtOne
    <3>. QED
      BY <3>4
  <2>3. at \in [edges -> closed]
    BY <2>1
  <2> HIDE DEF at, closed
  <2>4. ASSUME NEW e \in edges, NEW f \in edges, at[e] = at[f] PROVE e = f
    <3>1. CutAt(e, at[e]) /\ CutAt(f, at[e])
      BY <2>1, <2>4
    <3>. QED
      BY <3>1, CutOnce
  <2>5. at \in Surjection(edges, closed)
    BY <2>2, <2>3 DEF Surjection
  <2>6. at \in Injection(edges, closed)
    BY <2>3, <2>4, Zenon DEF Injection, IsInjective
  <2>. QED
    BY <1>4, <2>5, <2>6, FS_Surjection
<1>6. ASSUME NEW c \in open, NEW u \in set, <<u, vin(c)>> \in start PROVE vout(c) \in set
  <2>1. ASSUME NEW a \in set, NEW b, <<a, b>> \in start, b \in {vin(c), vout(c)} PROVE b \in set
    <3>1. ASSUME b \notin set PROVE FALSE
      <4> DEFINE e == <<a, b>>
      <4>1. e \in start /\ e[1] = a /\ e[2] = b
        BY <2>1
      <4> HIDE DEF e, start
      <4>2. e \in edges
        BY <1>2, <2>1, <3>1, <4>1 DEF Leaving
      <4>3. CutAt(e, c)
        BY <2>1, <4>1 DEF CutAt
      <4>. QED
        BY <4>2, <4>3
    <3>. QED
      BY <3>1
  <2>2. vin(c) \in set
    BY <1>6, <2>1
  <2>3. <<vin(c), vout(c)>> \in start
    BY <1>1, StartEdges
  <2>. QED
    BY <2>1, <2>2, <2>3
<1>7. citizens \cap open \subseteq part
  <2>1. ASSUME NEW c \in citizens, c \in open PROVE vout(c) \in set
    <3>1. <<Source, vin(c)>> \in start
      BY <1>1, StartEdges
    <3>. QED
      BY <1>2, <1>6, <2>1, <3>1
  <2>. QED
    BY <2>1
<1>8. ASSUME NEW c \in markets, c \in part PROVE FALSE
  <2> DEFINE e == <<vout(c), Target>>
  <2>1. e \in start /\ e[1] = vout(c) /\ e[2] = Target
    BY <1>1, StartEdges
  <2> HIDE DEF e, start
  <2>2. e \in edges
    BY <1>2, <1>8, <2>1 DEF Leaving
  <2>3. CutAt(e, c)
    BY <1>1, <2>1 DEF CutAt
  <2>. QED
    BY <1>8, <2>2, <2>3
<1>9. ASSUME NEW c \in part, NEW d \in open, Adjacent(c, d) PROVE d \in part
  <2>1. <<vout(c), vin(d)>> \in start
    BY <1>1, <1>9, StartEdges
  <2>. QED
    BY <1>6, <2>1
<1>10. Separates(closed)
  <2> HIDE DEF closed
  <2>1. part \in SUBSET open
    OBVIOUS
  <2> HIDE DEF part
  <2>. QED
    BY <1>7, <1>8, <1>9, <2>1 DEF Separates
<1>. QED
  BY <1>4, <1>5, <1>10

\* No flow is greater than a set of crossings that separates them: all of it goes
\* through these.
LEMMA CutBounds ==
  ASSUME Town, NEW flow, Flow(flow), NEW closed \in SUBSET Crossings, Separates(closed)
  PROVE  Out(flow, Source) <= Cardinality(closed)
<1> DEFINE start == Edges(InitialGraph)
           open  == Crossings \ closed
<1>1. City /\ markets \subseteq Crossings /\ citizens \subseteq Crossings
  BY DEF Town, City
<1>2. PICK part \in SUBSET open :
        /\ citizens \cap open \subseteq part
        /\ markets \cap part = {}
        /\ \A c \in part : \A d \in open : Adjacent(c, d) => d \in part
  BY DEF Separates
<1> DEFINE set == {Source} \cup {vin(c) : c \in part \cup closed} \cup {vout(c) : c \in part}
<1>3. \A c \in Crossings : /\ vin(c) # Source /\ vout(c) # Source /\ vin(c) # Target /\ vout(c) # Target
                           /\ vin(c) \in Vertices /\ vout(c) \in Vertices
  BY <1>1, GatesAre, VerticesAre
<1>4. set \in SUBSET Vertices /\ Source \in set /\ Target \notin set
  BY <1>1, <1>2, <1>3, VerticesAre
<1>5. ASSUME NEW c \in Crossings
      PROVE  /\ vin(c) \in set <=> c \in part \cup closed
             /\ vout(c) \in set <=> c \in part
  BY <1>1, <1>2, <1>3, <1>5, SameGate
<1>6. IsFiniteSet(flow) /\ In(flow, Source) = 0 /\ Balanced(flow, Target) /\ flow \subseteq start
      /\ \A e \in flow : e = <<e[1], e[2]>>
  BY FlowIs DEF Flow
<1> DEFINE edges == Leaving(flow, set)
           gates == {<<vin(c), vout(c)>> : c \in closed}
<1>7. IsFiniteSet(edges) /\ Cardinality(edges) \in Nat
  BY <1>6, PartsAre
<1>8. Out(flow, Source) <= Cardinality(edges)
  <2>1. Cardinality(edges) = Cardinality(Entering(flow, set)) + Out(flow, Source)
    BY <1>1, <1>4, <1>6, Across
  <2>2. Cardinality(Entering(flow, set)) \in Nat /\ Out(flow, Source) \in Nat
    BY <1>6, PartsAre, FlowsAreNat
  <2>. QED
    BY <1>7, <2>1, <2>2
<1>9. ASSUME NEW e \in edges PROVE e \in gates
  <2> DEFINE u == e[1]
             v == e[2]
  <2>1. e = <<u, v>> /\ <<u, v>> \in start /\ u \in set /\ v \notin set
    BY <1>6 DEF Leaving
  <2> HIDE DEF u, v, start
  <2>2. CASE u = Source
    <3>1. PICK c \in citizens : v = vin(c)
      BY <1>1, <2>1, <2>2, StartEdges DEF start
    <3>2. c \in part \cup closed
      BY <1>1, <1>2, <3>1
    <3>. QED
      BY <1>1, <1>5, <2>1, <3>1, <3>2
  <2>3. ASSUME NEW c \in part \cup closed, u = vin(c) PROVE e \in gates
    <3>1. c \in Crossings
      BY <1>2
    <3>2. v = vout(c)
      BY <1>1, <2>1, <2>3, <3>1, StartEdges DEF start
    <3>3. c \notin part
      BY <1>5, <2>1, <3>1, <3>2
    <3>. QED
      BY <2>1, <2>3, <3>2, <3>3
  <2>4. ASSUME NEW c \in part, u = vout(c) PROVE FALSE
    <3>1. c \in Crossings /\ c \notin markets
      BY <1>2
    <3>2. PICK d \in Crossings : Adjacent(c, d) /\ v = vin(d)
      BY <1>1, <2>1, <2>4, <3>1, StartEdges DEF start
    <3>3. d \in part \cup closed
      BY <1>2, <3>2
    <3>. QED
      BY <1>5, <2>1, <3>2, <3>3
  <2>. QED
    BY <2>1, <2>2, <2>3, <2>4
<1>10. IsFiniteSet(closed) /\ Cardinality(closed) \in Nat
  <2>1. IsFiniteSet(Crossings)
    <3>1. IsFiniteSet(1 .. M) /\ IsFiniteSet(1 .. N)
      BY <1>1, FS_Interval DEF City
    <3>. QED
      BY <3>1, FS_Product DEF Crossings
  <2>. QED
    BY <2>1, FS_Subset, FS_CardinalityType
<1>11. Cardinality(edges) <= Cardinality(closed)
  <2> DEFINE at == [e \in edges |-> CHOOSE c \in closed : e = <<vin(c), vout(c)>>]
  <2>1. ASSUME NEW e \in edges PROVE at[e] \in closed /\ e = <<vin(at[e]), vout(at[e])>>
    <3>1. \E c \in closed : e = <<vin(c), vout(c)>>
      BY <1>9
    <3>. QED
      BY <3>1
  <2>2. at \in [edges -> closed]
    BY <2>1
  <2> HIDE DEF at
  <2>3. at \in Injection(edges, closed)
    BY <2>1, <2>2, Zenon DEF Injection, IsInjective
  <2>. QED
    BY <1>10, <2>3, FS_Injection
<1>12. Out(flow, Source) \in Nat
  BY <1>6, FlowsAreNat
<1>. QED
  BY <1>7, <1>8, <1>10, <1>11, <1>12

-----------------------------------------------------------------------------
\* The answer.

\* A path whose reversal is done is not counted yet.
ValueInv ==
  Out(Edges(InitialGraph) \ Edges(graph), Source)
    = maxflow + (IF pc = "augment" /\ currentNode = Source THEN 1 ELSE 0)

\* The neighbours of a vertex that is marked are marked, unless it waits in the
\* queue, or they in what is left of its list.
ClosedInv ==
  /\ pc \in {"bfs", "done"} =>
       /\ Source \in visited /\ Target \notin visited
       /\ \A u \in visited : \A v \in ToSet(graph[u]) :
            v \in visited \/ u \in ToSet(queue) \/ (u = from /\ v \in ToSet(node))
  /\ pc = "done" => queue = <<>> /\ node = <<>>

MaxInv == FlowInv /\ ValueInv /\ ClosedInv

LEMMA HeadOrTail ==
  ASSUME NEW S, NEW w \in Seq(S), w # <<>>, NEW x \in ToSet(w)
  PROVE  x = Head(w) \/ x \in ToSet(Tail(w))
<1> DEFINE t == Tail(w)
<1>1. /\ Len(w) \in Nat /\ Len(w) > 0 /\ Head(w) = w[1]
      /\ t \in Seq(S) /\ Len(t) = Len(w) - 1
      /\ \A i \in 1 .. Len(t) : t[i] = w[i + 1]
  BY HeadTailProperties, LenProperties, EmptySeq
<1> HIDE DEF t
<1>2. PICK i \in 1 .. Len(w) : x = w[i]
  BY SetOf
<1>3. CASE i = 1
  BY <1>1, <1>2, <1>3
<1>4. CASE i # 1
  <2>1. i - 1 \in 1 .. Len(t) /\ x = t[i - 1]
    BY <1>1, <1>2, <1>4
  <2>2. x \in ToSet(t)
    BY <1>1, <2>1, SetOf
  <2>. QED
    BY <2>2 DEF t
<1>. QED
  BY <1>3, <1>4

LEMMA AppendedAll ==
  ASSUME NEW S, NEW w \in Seq(S), NEW x \in S
  PROVE  ToSet(w) \cup {x} \subseteq ToSet(Append(w, x))
<1> DEFINE a == Append(w, x)
<1>1. /\ Len(w) \in Nat /\ a \in Seq(S) /\ Len(a) = Len(w) + 1
      /\ a[Len(w) + 1] = x /\ \A i \in 1 .. Len(w) : a[i] = w[i]
  BY AppendProperties, LenProperties
<1> HIDE DEF a
<1>2. x \in ToSet(a)
  <2>1. Len(w) + 1 \in 1 .. Len(a)
    BY <1>1
  <2>. QED
    BY <1>1, <2>1, SetOf
<1>3. ASSUME NEW y \in ToSet(w) PROVE y \in ToSet(a)
  <2>1. PICK i \in 1 .. Len(w) : y = w[i]
    BY SetOf
  <2>2. i \in 1 .. Len(a) /\ y = a[i]
    BY <1>1, <2>1
  <2>. QED
    BY <1>1, <2>2, SetOf
<1>. QED
  BY <1>2, <1>3 DEF a

LEMMA ValueAfter ==
  ASSUME UNCHANGED input,
         Out(Edges(InitialGraph) \ Edges(graph'), Source)
           = maxflow' + (IF pc' = "augment" /\ currentNode' = Source THEN 1 ELSE 0)
  PROVE  ValueInv'
BY EdgesStay, Frame DEF ValueInv, Out

\* A step that neither reverses an edge nor counts a path.
LEMMA ValueStays ==
  ASSUME ValueInv, UNCHANGED input, graph' = graph, maxflow' = maxflow,
         ~(pc = "augment" /\ currentNode = Source), ~(pc' = "augment" /\ currentNode' = Source)
  PROVE  ValueInv'
<1>1. Out(Edges(InitialGraph) \ Edges(graph'), Source)
        = maxflow' + (IF pc' = "augment" /\ currentNode' = Source THEN 1 ELSE 0)
  BY DEF ValueInv
<1>. QED
  BY <1>1, ValueAfter

LEMMA InitMax ==
  ASSUME FlowInit
  PROVE  MaxInv
<1>1. FlowInv
  BY InitInv
<1>2. ValueInv
  <2>1. Edges(InitialGraph) \ Edges(graph) = {} /\ pc = "search" /\ maxflow = 0
    BY DEF FlowInit
  <2>2. Out({}, Source) = 0
    <3>1. {e \in {} : e[1] = Source} = {}
      OBVIOUS
    <3>. QED
      BY <3>1, FS_EmptySet DEF Out
  <2>. QED
    BY <2>1, <2>2 DEF ValueInv
<1>3. ClosedInv
  BY DEF FlowInit, ClosedInv
<1>. QED
  BY <1>1, <1>2, <1>3 DEF MaxInv

LEMMA StartMax ==
  ASSUME MaxInv, Start
  PROVE  ValueInv' /\ ClosedInv'
<1>1. City /\ UNCHANGED input /\ graph' = graph /\ maxflow' = maxflow /\ pc = "search" /\ pc' = "bfs"
      /\ visited' = {Source} /\ queue' = <<Source>>
  BY TypeGivesCity DEF MaxInv, FlowInv, Start
<1>2. ValueInv'
  BY <1>1, ValueStays DEF MaxInv
<1>3. ClosedInv'
  <2>1. Source' = Source /\ Target' = Target /\ Source # Target /\ Source \in Vertices
    BY <1>1, Frame, VerticesAre
  <2>2. Source \in ToSet(queue')
    BY <1>1, <2>1, OneIs
  <2>. QED
    BY <1>1, <2>1, <2>2 DEF ClosedInv
<1>. QED
  BY <1>2, <1>3

LEMMA PopMax ==
  ASSUME MaxInv, Pop
  PROVE  ValueInv' /\ ClosedInv'
<1>1. /\ City /\ FlowTypeOK /\ SearchInv /\ UNCHANGED input /\ graph' = graph /\ maxflow' = maxflow
      /\ pc = "bfs" /\ pc' = "bfs" /\ visited' = visited
      /\ from' = Head(queue) /\ queue' = Tail(queue) /\ node' = graph[Head(queue)]
      /\ node = <<>> /\ queue # <<>> /\ queue \in Seq(Vertices)
  BY TypeGivesCity DEF MaxInv, FlowInv, Pop, FlowTypeOK
<1>2. ValueInv'
  BY <1>1, ValueStays DEF MaxInv
<1>3. ClosedInv'
  <2>1. Source' = Source /\ Target' = Target
    BY <1>1, Frame
  <2>2. ToSet(node) = {}
    BY <1>1, EmptyList
  <2>3. ASSUME NEW u \in visited, NEW v \in ToSet(graph[u])
        PROVE  v \in visited \/ u \in ToSet(queue') \/ (u = from' /\ v \in ToSet(node'))
    <3>1. v \in visited \/ u \in ToSet(queue)
      BY <1>1, <2>2, <2>3 DEF MaxInv, ClosedInv
    <3>2. u \in ToSet(queue) => u = Head(queue) \/ u \in ToSet(Tail(queue))
      BY <1>1, HeadOrTail
    <3>. QED
      BY <1>1, <2>3, <3>1, <3>2
  <2>. QED
    BY <1>1, <2>1, <2>3 DEF ClosedInv, SearchInv
<1>. QED
  BY <1>2, <1>3

LEMMA LookMax ==
  ASSUME MaxInv, Look
  PROVE  ValueInv' /\ ClosedInv'
<1> DEFINE to == Head(node)
<1>1. /\ City /\ FlowTypeOK /\ SearchInv /\ UNCHANGED input /\ graph' = graph /\ maxflow' = maxflow
      /\ pc = "bfs" /\ pc' \in {"bfs", "augment"} /\ (pc' = "augment" => currentNode' = Target)
      /\ from' = from /\ node # <<>> /\ node \in Seq(Vertices) /\ queue \in Seq(Vertices)
  BY TypeGivesCity DEF MaxInv, FlowInv, Look, FlowTypeOK
<1>2. Source' = Source /\ Target' = Target /\ Source # Target
  BY <1>1, Frame, VerticesAre
<1>3. ValueInv'
  BY <1>1, <1>2, ValueStays DEF MaxInv
<1>4. to \in Vertices /\ \A x \in ToSet(node) : x = to \/ x \in ToSet(Tail(node))
  BY <1>1, HeadAndTail, HeadOrTail
<1>5. \A u \in visited : \A v \in ToSet(graph[u]) :
        v \in visited \/ u \in ToSet(queue) \/ (u = from /\ v \in ToSet(node))
  BY <1>1 DEF MaxInv, ClosedInv
<1>6. CASE to \in visited
  <2>1. visited' = visited /\ queue' = queue /\ node' = Tail(node) /\ pc' = "bfs"
    BY <1>1, <1>6 DEF Look, Mark
  <2>2. ASSUME NEW u \in visited, NEW v \in ToSet(graph[u])
        PROVE  v \in visited \/ u \in ToSet(queue) \/ (u = from /\ v \in ToSet(node'))
    BY <1>4, <1>5, <1>6, <2>1, <2>2
  <2>3. ClosedInv'
    BY <1>1, <1>2, <2>1, <2>2 DEF ClosedInv, SearchInv
  <2>. QED
    BY <1>3, <2>3
<1>7. CASE to \notin visited /\ to = Target
  <2>1. pc' = "augment"
    BY <1>7 DEF Look
  <2>. QED
    BY <1>3, <2>1 DEF ClosedInv
<1>8. CASE to \notin visited /\ to # Target
  <2>1. visited' = visited \cup {to} /\ queue' = Append(queue, to) /\ node' = Tail(node) /\ pc' = "bfs"
    BY <1>1, <1>8 DEF Look, Mark
  <2>2. ToSet(queue) \cup {to} \subseteq ToSet(queue')
    BY <1>1, <1>4, <2>1, AppendedAll
  <2>3. ASSUME NEW u \in visited', NEW v \in ToSet(graph[u])
        PROVE  v \in visited' \/ u \in ToSet(queue') \/ (u = from /\ v \in ToSet(node'))
    <3>1. CASE u = to
      BY <2>2, <3>1
    <3>2. CASE u \in visited
      BY <1>4, <1>5, <2>1, <2>2, <2>3, <3>2
    <3>. QED
      BY <2>1, <3>1, <3>2
  <2>4. ClosedInv'
    BY <1>1, <1>2, <1>8, <2>1, <2>3 DEF ClosedInv, SearchInv
  <2>. QED
    BY <1>3, <2>4
<1>. QED
  BY <1>6, <1>7, <1>8

LEMMA GiveUpMax ==
  ASSUME MaxInv, GiveUp
  PROVE  ValueInv' /\ ClosedInv'
<1>1. /\ UNCHANGED input /\ graph' = graph /\ maxflow' = maxflow /\ pc = "bfs" /\ pc' = "done"
      /\ visited' = visited /\ queue' = queue /\ node' = node /\ from' = from
      /\ queue = <<>> /\ node = <<>>
  BY DEF GiveUp, search
<1>2. ValueInv'
  BY <1>1, ValueStays DEF MaxInv
<1>3. ClosedInv'
  BY <1>1, Frame DEF MaxInv, ClosedInv
<1>. QED
  BY <1>2, <1>3

LEMMA AddFlowMax ==
  ASSUME MaxInv, AddFlow
  PROVE  ValueInv' /\ ClosedInv'
<1>1. /\ UNCHANGED input /\ graph' = graph /\ maxflow' = maxflow + 1 /\ maxflow \in Nat
      /\ pc = "augment" /\ currentNode = Source /\ pc' = "search"
  BY DEF AddFlow, MaxInv, FlowInv, FlowTypeOK
<1>2. ValueInv'
  <2>1. Out(Edges(InitialGraph) \ Edges(graph'), Source)
          = maxflow' + (IF pc' = "augment" /\ currentNode' = Source THEN 1 ELSE 0)
    BY <1>1 DEF MaxInv, ValueInv
  <2>. QED
    BY <1>1, <2>1, ValueAfter
<1>3. ClosedInv'
  BY <1>1 DEF ClosedInv
<1>. QED
  BY <1>2, <1>3

LEMMA TypeGivesTown ==
  ASSUME FlowTypeOK
  PROVE  Town
BY TypeGivesCity DEF Town, FlowTypeOK, Places

\* The source gets an edge when the walk comes to it, and no other step of the
\* walk gives it one or takes one from it.
LEMMA ValueKept ==
  ASSUME Town, NEW now \in SUBSET (Vertices \X Vertices), OneDirection(now, Edges(InitialGraph)),
         NEW p, NEW c, <<p, c>> \in now, c # Source
  PROVE  Out(Edges(InitialGraph) \ ((now \ {<<p, c>>}) \cup {<<c, p>>}), Source)
           = Out(Edges(InitialGraph) \ now, Source) + (IF p = Source THEN 1 ELSE 0)
<1> DEFINE start == Edges(InitialGraph)
           flow  == start \ now
           after == start \ ((now \ {<<p, c>>}) \cup {<<c, p>>})
<1>1. /\ City /\ start \in SUBSET (Vertices \X Vertices) /\ IsFiniteSet(start)
      /\ start \cap Reversed(start) = {}
  BY EdgesAre, StartListed, StartIsOneWay DEF Town
<1>2. p # c /\ <<c, p>> \notin now
  BY OneDirectionKept
<1>3. \A u : <<u, Source>> \notin start
  BY StartInto
<1> HIDE DEF start
<1>4. IsFiniteSet(flow) /\ \A v : Out(flow, v) \in Nat
  BY <1>1, FS_Difference, FlowsAreNat
<1>5. \A u, v : <<u, v>> \in Reversed(start) <=> <<v, u>> \in start
  BY <1>1, ReversedIs
<1>6. CASE <<p, c>> \in start
  <2>1. <<c, p>> \notin start
    BY <1>1, <1>5, <1>6
  <2>2. after = flow \cup {<<p, c>>} /\ <<p, c>> \notin flow
    BY <1>2, <1>6, <2>1
  <2> HIDE DEF flow, after
  <2>3. Out(flow \cup {<<p, c>>}, Source) = Out(flow, Source) + (IF Source = p THEN 1 ELSE 0)
    BY <1>4, <2>2, FlowMore
  <2>4. Out(after, Source) = Out(flow, Source) + (IF p = Source THEN 1 ELSE 0)
    BY <2>2, <2>3
  <2>. QED
    BY <2>4 DEF after, flow, start
<1>7. CASE <<p, c>> \notin start
  <2>1. <<c, p>> \in start
    <3>1. <<p, c>> \in start \cup Reversed(start)
      BY DEF OneDirection, start
    <3>. QED
      BY <1>5, <1>7, <3>1
  <2>2. p # Source
    BY <1>3, <2>1
  <2>3. after = flow \ {<<c, p>>} /\ <<c, p>> \in flow
    BY <1>2, <1>7, <2>1
  <2>4. Out(after, Source) \in Nat
    <3>1. IsFiniteSet(after)
      BY <1>1, FS_Difference
    <3> HIDE DEF after
    <3>. QED
      BY <3>1, FlowsAreNat
  <2> HIDE DEF flow, after
  <2>5. Out(flow, Source) = Out(flow \ {<<c, p>>}, Source) + (IF Source = c THEN 1 ELSE 0)
    BY <1>4, <2>3, FlowLess
  <2>6. Out(after, Source) = Out(flow, Source) + (IF p = Source THEN 1 ELSE 0)
    BY <2>2, <2>3, <2>4, <2>5
  <2>. QED
    BY <2>6 DEF after, flow, start
<1>. QED
  BY <1>6, <1>7

\* What a step of the walk does to the edges.
LEMMA AugmentEdges ==
  ASSUME FlowInv, Augment
  PROVE  LET p == parents[currentNode] IN
         /\ <<p, currentNode>> \in Edges(graph)
         /\ Edges(graph') = (Edges(graph) \ {<<p, currentNode>>}) \cup {<<currentNode, p>>}
<1> DEFINE p == parents[currentNode]
           now == Edges(graph)
<1>1. FlowTypeOK /\ Residual /\ City /\ Listed(graph)
      /\ pc = "augment" /\ currentNode # Source /\ graph' = ReverseEdge(p, currentNode)
      /\ Reached(graph, parents, Vertices, currentNode)
  BY TypeGivesCity, GraphListed DEF FlowInv, Augment
<1>2. OneDirection(now, Edges(InitialGraph))
  BY <1>1, ResidualIs
<1>3. now \in SUBSET (Vertices \X Vertices)
  BY <1>1, EdgesAre
<1>4. \A a : \A c \in ToSet(graph[a]) : a \in Vertices => a # c /\ a \notin ToSet(graph[c])
  <2>1. ASSUME NEW a \in Vertices, NEW c \in ToSet(graph[a])
        PROVE  a # c /\ a \notin ToSet(graph[c])
    <3>1. <<a, c>> \in now
      BY <1>1, EdgesAre
    <3> HIDE DEF now
    <3>2. a # c /\ c \in Vertices /\ <<c, a>> \notin now
      BY <1>2, <1>3, <3>1, OneDirectionKept
    <3>. QED
      BY <1>1, <3>2, EdgesAre DEF now
  <2>. QED
    BY <2>1
<1>5. p \in Vertices /\ currentNode \in ToSet(graph[p])
  BY <1>1, <1>4, ReachedBack
<1>6. Edges(graph') = (now \ {<<p, currentNode>>}) \cup {<<currentNode, p>>}
  BY <1>1, <1>4, <1>5, ReverseIs
<1>7. <<p, currentNode>> \in now
  BY <1>1, <1>5, EdgesAre
<1>. QED
  BY <1>6, <1>7

LEMMA AugmentMax ==
  ASSUME MaxInv, Augment
  PROVE  ValueInv' /\ ClosedInv'
<1> DEFINE p == parents[currentNode]
           now == Edges(graph)
           start == Edges(InitialGraph)
<1>1. FlowTypeOK /\ Residual /\ Town /\ City /\ Listed(graph) /\ UNCHANGED input
      /\ maxflow' = maxflow /\ maxflow \in Nat /\ pc = "augment" /\ pc' = "augment"
      /\ currentNode # Source /\ currentNode' = p
  BY TypeGivesCity, TypeGivesTown, GraphListed DEF MaxInv, FlowInv, Augment, FlowTypeOK
<1>2. OneDirection(now, start) /\ now \in SUBSET (Vertices \X Vertices)
  BY <1>1, ResidualIs, EdgesAre
<1>3. /\ <<p, currentNode>> \in now
      /\ Edges(graph') = (now \ {<<p, currentNode>>}) \cup {<<currentNode, p>>}
  BY AugmentEdges DEF MaxInv
<1>4. Out(start \ now, Source) = maxflow
  BY <1>1 DEF MaxInv, ValueInv
<1>5. Out(start \ Edges(graph'), Source) = Out(start \ now, Source) + (IF p = Source THEN 1 ELSE 0)
  <2> HIDE DEF now, p
  <2>1. Out(start \ ((now \ {<<p, currentNode>>}) \cup {<<currentNode, p>>}), Source)
          = Out(start \ now, Source) + (IF p = Source THEN 1 ELSE 0)
    BY <1>1, <1>2, <1>3, ValueKept
  <2>. QED
    BY <1>3, <2>1
<1>6. ValueInv'
  <2>1. Out(start \ Edges(graph'), Source)
          = maxflow' + (IF pc' = "augment" /\ currentNode' = Source THEN 1 ELSE 0)
    BY <1>1, <1>4, <1>5
  <2>. QED
    BY <1>1, <2>1, ValueAfter
<1>7. ClosedInv'
  BY <1>1 DEF ClosedInv
<1>. QED
  BY <1>6, <1>7

LEMMA StutterMax ==
  ASSUME MaxInv, UNCHANGED flowVars
  PROVE  ValueInv' /\ ClosedInv'
<1>1. /\ UNCHANGED input /\ graph' = graph /\ maxflow' = maxflow /\ pc' = pc /\ currentNode' = currentNode
      /\ visited' = visited /\ queue' = queue /\ node' = node /\ from' = from
  BY DEF flowVars, search
<1>2. Out(Edges(InitialGraph) \ Edges(graph'), Source)
        = maxflow' + (IF pc' = "augment" /\ currentNode' = Source THEN 1 ELSE 0)
  BY <1>1 DEF MaxInv, ValueInv
<1>3. ValueInv'
  BY <1>1, <1>2, ValueAfter
<1>4. ClosedInv'
  BY <1>1, Frame DEF MaxInv, ClosedInv
<1>. QED
  BY <1>3, <1>4

\* When the search has marked all it can, the edges of the start that leave
\* what is marked are reversed, and none that enters it is.
LEMMA DoneSaturates ==
  ASSUME MaxInv, pc = "done"
  PROVE  /\ Town /\ Flow(Edges(InitialGraph) \ Edges(graph))
         /\ Saturated(Edges(InitialGraph) \ Edges(graph), visited)
         /\ Out(Edges(InitialGraph) \ Edges(graph), Source) = maxflow
<1> DEFINE now == Edges(graph)
           start == Edges(InitialGraph)
           flow == start \ now
<1>1. FlowTypeOK /\ Residual /\ Conserved /\ Town /\ City /\ Listed(graph) /\ maxflow \in Nat
      /\ visited \subseteq Vertices
  BY TypeGivesCity, TypeGivesTown, GraphListed DEF MaxInv, FlowInv, FlowTypeOK
<1>2. OneDirection(now, start) /\ now \in SUBSET (Vertices \X Vertices) /\ start \in SUBSET (Vertices \X Vertices)
  BY <1>1, ResidualIs, StartListed, EdgesAre
<1>3. Balanced(flow, Target)
  BY <1>1, ConservedIs DEF Extra
<1>4. Source \in visited /\ Target \notin visited /\ queue = <<>> /\ node = <<>>
  BY DEF MaxInv, ClosedInv
<1>5. ASSUME NEW u \in visited, NEW v, <<u, v>> \in now PROVE v \in visited
  <2>1. v \in ToSet(graph[u])
    BY <1>1, <1>5, EdgesAre
  <2>2. ToSet(queue) = {} /\ ToSet(node) = {}
    BY <1>4, EmptyList
  <2>. QED
    BY <2>1, <2>2 DEF MaxInv, ClosedInv
<1> HIDE DEF now, start
<1>6. ASSUME NEW e \in start, e[1] \in visited, e[2] \notin visited PROVE e \in flow
  <2>1. e = <<e[1], e[2]>>
    BY <1>2
  <2>. QED
    BY <1>5, <1>6, <2>1
<1>7. ASSUME NEW e \in flow, e[1] \notin visited, e[2] \in visited PROVE FALSE
  <2>1. e = <<e[1], e[2]>> /\ e \in start /\ e \notin now
    BY <1>2
  <2>2. e \in now \cup Reversed(now)
    BY <1>2, <2>1 DEF OneDirection
  <2>3. <<e[2], e[1]>> \in now
    <3>1. <<e[1], e[2]>> \in Reversed(now)
      BY <2>1, <2>2
    <3>. QED
      BY <1>2, <3>1, ReversedIs
  <2>. QED
    BY <1>5, <1>7, <2>3
<1>8. Flow(flow)
  BY <1>3 DEF Flow, start
<1>9. Saturated(flow, visited)
  BY <1>1, <1>4, <1>6, <1>7 DEF Saturated, Leaving, Entering, start
<1>10. Out(flow, Source) = maxflow
  BY <1>1 DEF MaxInv, ValueInv, now, start
<1>. QED
  BY <1>1, <1>8, <1>9, <1>10 DEF now, start

LEMMA MaxInvGivesAnswer ==
  ASSUME MaxInv
  PROVE  AnswerIsMaximal
<1> DEFINE flow == Edges(InitialGraph) \ Edges(graph)
<1>1. SUFFICES ASSUME pc = "done"
               PROVE  /\ \E closed \in SUBSET Crossings :
                           Cardinality(closed) = maxflow /\ Separates(closed)
                      /\ \A closed \in SUBSET Crossings :
                           Separates(closed) => Cardinality(closed) >= maxflow
  BY DEF AnswerIsMaximal
<1>2. Town /\ Flow(flow) /\ Saturated(flow, visited) /\ Out(flow, Source) = maxflow /\ maxflow \in Nat
  BY <1>1, DoneSaturates DEF MaxInv, FlowInv, FlowTypeOK
<1> HIDE DEF flow
<1>3. \E closed \in SUBSET Crossings : Cardinality(closed) = maxflow /\ Separates(closed)
  BY <1>2, CutOf
<1>4. ASSUME NEW closed \in SUBSET Crossings, Separates(closed) PROVE Cardinality(closed) >= maxflow
  <2>1. Out(flow, Source) <= Cardinality(closed)
    BY <1>2, <1>4, CutBounds
  <2>2. Cardinality(closed) \in Nat
    <3>1. IsFiniteSet(Crossings)
      <4>1. IsFiniteSet(1 .. M) /\ IsFiniteSet(1 .. N)
        BY <1>2, FS_Interval DEF Town, City
      <4>. QED
        BY <4>1, FS_Product DEF Crossings
    <3>. QED
      BY <3>1, FS_Subset, FS_CardinalityType
  <2>. QED
    BY <1>2, <2>1, <2>2
<1>. QED
  BY <1>3, <1>4

\* Whatever the city and who stands where, the answer printed is the smallest
\* number of crossings that, closed, cut every citizen from every supermarket:
\* the search that gives up has marked a set of vertices that a saturated cut
\* borders, and no set of crossings that separates lets more flow across.
THEOREM AnswerIsRight == FlowSpec => []AnswerIsMaximal
<1>1. FlowInit => MaxInv
  BY InitMax
<1>2. MaxInv /\ [FlowNext]_flowVars => MaxInv'
  <2>1. MaxInv /\ [FlowNext]_flowVars => FlowInv'
    BY StartKeeps, PopKeeps, LookKeeps, GiveUpKeeps, AugmentKeeps, AddFlowKeeps, StutterKeeps
       DEF FlowNext, MaxInv
  <2>2. MaxInv /\ [FlowNext]_flowVars => ValueInv' /\ ClosedInv'
    BY StartMax, PopMax, LookMax, GiveUpMax, AugmentMax, AddFlowMax, StutterMax DEF FlowNext
  <2>. QED
    BY <2>1, <2>2 DEF MaxInv
<1>3. MaxInv => AnswerIsMaximal
  BY MaxInvGivesAnswer
<1>. QED
  BY <1>1, <1>2, <1>3, PTL DEF FlowSpec

-----------------------------------------------------------------------------
\* The contact book.

USE ContactBookAssumption

-----------------------------------------------------------------------------
\* Linked lists.

\* The node at place i of a list, and NULL before its first and after its last.
At(w, i) == IF i \in 1 .. Len(w) THEN w[i] ELSE NULL

\* The nodes of a set, in the order w, linked from start along step and back.
Linear(w, start, step, back, nodes) ==
  /\ w \in Seq(Nodes)
  /\ \A i, j \in 1 .. Len(w) : w[i] = w[j] => i = j
  /\ \A x : x \in nodes <=> \E i \in 1 .. Len(w) : x = w[i]
  /\ start = At(w, 1)
  /\ \A i \in 1 .. Len(w) : step[w[i]] = At(w, i + 1) /\ back[w[i]] = At(w, i - 1)

\* Nodes is finite, so a list without repetitions is no longer than Nodes.
LEMMA NodesFinite == IsFiniteSet(Nodes) /\ Cardinality(Nodes) \in Nat
BY FS_CardinalityType DEF ContactBookAssumption

LEMMA AtPointer ==
  ASSUME NEW w \in Seq(Nodes), NEW i
  PROVE  At(w, i) \in Pointers /\ (At(w, i) # NULL <=> i \in 1 .. Len(w))
BY DEF At, Pointers, ContactBookAssumption

LEMMA ShortList ==
  ASSUME NEW w \in Seq(Nodes), \A i, j \in 1 .. Len(w) : w[i] = w[j] => i = j
  PROVE  Len(w) \in Nat /\ Len(w) <= Cardinality(Nodes)
<1>1. w \in Injection(1 .. Len(w), Nodes)
  <2>1. w \in [1 .. Len(w) -> Nodes]
    BY LenProperties
  <2>. QED
    BY <2>1, Zenon DEF Injection, IsInjective
<1>2. Cardinality(1 .. Len(w)) <= Cardinality(Nodes)
  BY <1>1, NodesFinite, FS_Injection
<1>3. Len(w) \in Nat
  BY LenProperties
<1>4. Cardinality(1 .. Len(w)) = Len(w)
  BY <1>3, FS_Interval
<1>. QED
  BY <1>2, <1>3, <1>4

\* What the function in Turns must satisfy.
Turn(f, start, step) ==
  f = [k \in 0 .. Cardinality(Nodes) |->
         IF k = 0 THEN start
                  ELSE [x \in Pointers |-> IF x = NULL THEN NULL ELSE step[x]][f[k - 1]]]

LEMMA TurnsChosen ==
  ASSUME NEW start, NEW step, NEW f, Turn(f, start, step)
  PROVE  Turn(Turns(start, step), start, step)
<1>1. Turns(start, step) = CHOOSE g : Turn(g, start, step)
  BY DEF Turns, Turn
<1>. QED
  BY <1>1

LEMMA TurnUnique ==
  ASSUME NEW start, NEW step, NEW f, NEW g,
         Turn(f, start, step), Turn(g, start, step)
  PROVE  f = g
<1> DEFINE size == Cardinality(Nodes)
           wrong == {k \in 0 .. size : f[k] # g[k]}
<1>1. size \in Nat
  BY NodesFinite
<1>2. SUFFICES wrong = {}
  <2>1. DOMAIN f = 0 .. size /\ DOMAIN g = 0 .. size
    BY DEF Turn
  <2>2. f = [k \in 0 .. size |-> f[k]] /\ g = [k \in 0 .. size |-> g[k]]
    BY <2>1, Zenon DEF Turn
  <2>. QED
    BY <1>2, <2>2
<1>3. SUFFICES ASSUME wrong # {} PROVE FALSE
  OBVIOUS
<1>4. PICK k \in wrong : \A j \in wrong : k <= j
  <2>1. wrong \in SUBSET Nat
    BY <1>1
  <2> HIDE DEF wrong
  <2>. QED
    BY <1>3, <2>1, LeastElement
<1>5. k # 0
  BY <1>1, <1>4 DEF Turn
<1>6. k - 1 \in 0 .. size /\ k - 1 \notin wrong
  BY <1>1, <1>4, <1>5
<1>7. f[k - 1] = g[k - 1]
  BY <1>6
<1>8. f[k] = g[k]
  BY <1>1, <1>4, <1>5, <1>7 DEF Turn
<1>. QED
  BY <1>4, <1>8

\* A loop along the pointers of a list visits its nodes in order and stops.
LEMMA WalkIs ==
  ASSUME NEW w, NEW start, NEW step, NEW back, NEW nodes,
         Linear(w, start, step, back, nodes)
  PROVE  Walk(start, step) = w
<1> DEFINE size == Cardinality(Nodes)
           F == [k \in 0 .. size |-> At(w, k + 1)]
<1>1. /\ w \in Seq(Nodes) /\ start = At(w, 1)
      /\ \A i \in 1 .. Len(w) : step[w[i]] = At(w, i + 1)
  BY DEF Linear
<1>2. size \in Nat /\ Len(w) \in Nat /\ Len(w) <= size
  <2>1. \A i, j \in 1 .. Len(w) : w[i] = w[j] => i = j
    BY DEF Linear
  <2>. QED
    BY <1>1, <2>1, NodesFinite, ShortList
<1>3. Turn(F, start, step)
  <2> DEFINE after == [x \in Pointers |-> IF x = NULL THEN NULL ELSE step[x]]
  <2>1. ASSUME NEW k \in 0 .. size, k # 0 PROVE after[F[k - 1]] = At(w, k + 1)
    <3>1. F[k - 1] = At(w, k)
      BY <1>2, <2>1
    <3>2. At(w, k) \in Pointers
      BY <1>1, AtPointer
    <3>3. CASE k \in 1 .. Len(w)
      <4>1. At(w, k) = w[k] /\ w[k] # NULL
        BY <1>1, <3>3, AtPointer DEF At
      <4>. QED
        BY <1>1, <3>1, <3>2, <3>3, <4>1
    <3>4. CASE k \notin 1 .. Len(w)
      <4>1. At(w, k) = NULL /\ At(w, k + 1) = NULL
        BY <1>2, <2>1, <3>4 DEF At
      <4>. QED
        BY <3>1, <3>2, <4>1
    <3>. QED
      BY <3>3, <3>4
  <2>2. F = [k \in 0 .. size |-> IF k = 0 THEN start ELSE after[F[k - 1]]]
    <3> HIDE DEF after
    <3>1. ASSUME NEW k \in 0 .. size
          PROVE  At(w, k + 1) = IF k = 0 THEN start ELSE after[F[k - 1]]
      BY <1>1, <2>1
    <3>2. F = [k \in 0 .. size |-> At(w, k + 1)]
      OBVIOUS
    <3> HIDE DEF F
    <3>. QED
      BY <3>1, <3>2
  <2> HIDE DEF F
  <2>. QED
    BY <2>2 DEF Turn
<1>4. Turns(start, step) = F
  <2> HIDE DEF F
  <2>. QED
    BY <1>3, TurnsChosen, TurnUnique
<1>5. {k \in 0 .. size : Turns(start, step)[k] # NULL} = 0 .. Len(w) - 1
  <2>1. ASSUME NEW k \in 0 .. size PROVE F[k] # NULL <=> k \in 0 .. Len(w) - 1
    <3>1. F[k] = At(w, k + 1)
      OBVIOUS
    <3>. QED
      BY <1>1, <1>2, <3>1, AtPointer
  <2>2. \A k \in 0 .. Len(w) - 1 : k \in 0 .. size
    BY <1>2
  <2> HIDE DEF F
  <2>. QED
    BY <1>2, <1>4, <2>1, <2>2
<1>6. Cardinality({k \in 0 .. size : Turns(start, step)[k] # NULL}) = Len(w)
  <2>1. Cardinality(0 .. Len(w) - 1) = Len(w)
    <3>1. 0 \in Int /\ Len(w) - 1 \in Int
      BY <1>2
    <3>2. Cardinality(0 .. Len(w) - 1)
            = IF 0 > Len(w) - 1 THEN 0 ELSE (Len(w) - 1) - 0 + 1
      BY <3>1, FS_Interval, Zenon
    <3>. QED
      BY <1>2, <3>2
  <2>. QED
    BY <1>5, <2>1, Zenon
<1>7. Walk(start, step) = [k \in 1 .. Len(w) |-> F[k - 1]]
  <2> HIDE DEF F
  <2>. QED
    BY <1>4, <1>6, Zenon DEF Walk
<1>8. ASSUME NEW k \in 1 .. Len(w) PROVE F[k - 1] = w[k]
  BY <1>2 DEF At
<1>9. w = [k \in 1 .. Len(w) |-> w[k]]
  <2>1. w \in [1 .. Len(w) -> Nodes]
    BY <1>1, LenProperties
  <2>. QED
    BY <2>1
<1> HIDE DEF F
<1>. QED
  BY <1>7, <1>8, <1>9

-----------------------------------------------------------------------------
\* Changes to linked lists.

\* Nothing is linked from NULL.
LEMMA EmptyLinear ==
  ASSUME NEW step, NEW back
  PROVE  Linear(<<>>, NULL, step, back, {})
BY EmptySeq DEF Linear, At

\* A list does not depend on the pointers of nodes that are not on it.
LEMMA FrameLinear ==
  ASSUME NEW w, NEW start, NEW step, NEW back, NEW nodes, NEW step2, NEW back2,
         Linear(w, start, step, back, nodes),
         \A x \in nodes : step2[x] = step[x] /\ back2[x] = back[x]
  PROVE  Linear(w, start, step2, back2, nodes)
<1>1. \A i \in 1 .. Len(w) : w[i] \in nodes
  BY DEF Linear
<1>. QED
  BY <1>1 DEF Linear

\* The first node of a list.
LEMMA SingleLinear ==
  ASSUME NEW x \in Nodes, NEW step, NEW back, step[x] = NULL, back[x] = NULL
  PROVE  Linear(<<x>>, x, step, back, {x})
<1>1. <<x>> \in Seq(Nodes) /\ Len(<<x>>) = 1 /\ <<x>>[1] = x
  OBVIOUS
<1>2. \A i : i \in 1 .. 1 <=> i = 1
  OBVIOUS
<1>3. At(<<x>>, 1) = x /\ At(<<x>>, 1 + 1) = NULL /\ At(<<x>>, 1 - 1) = NULL
  BY <1>1 DEF At
<1>. QED
  BY <1>1, <1>2, <1>3 DEF Linear

\* One more node behind the last one.
LEMMA AppendLinear ==
  ASSUME NEW w, NEW start, NEW step \in [Nodes -> Pointers],
         NEW back \in [Nodes -> Pointers], NEW nodes,
         Linear(w, start, step, back, nodes), w # <<>>,
         NEW x \in Nodes, x \notin nodes, step[x] = NULL
  PROVE  Linear(Append(w, x), start, [step EXCEPT ![w[Len(w)]] = x],
                [back EXCEPT ![x] = w[Len(w)]], nodes \cup {x})
<1> DEFINE v == Append(w, x)
           s == [step EXCEPT ![w[Len(w)]] = x]
           b == [back EXCEPT ![x] = w[Len(w)]]
<1>1. /\ w \in Seq(Nodes) /\ Len(w) \in Nat \ {0}
      /\ \A i \in 1 .. Len(w) : w[i] \in Nodes
  BY LenProperties, EmptySeq, ElementOfSeq DEF Linear
<1>2. /\ v \in Seq(Nodes) /\ Len(v) = Len(w) + 1 /\ v[Len(w) + 1] = x
      /\ \A i \in 1 .. Len(w) : v[i] = w[i]
  BY <1>1, AppendProperties
<1>3. \A i \in 1 .. Len(w) : w[i] \in nodes /\ w[i] # x
  BY DEF Linear
<1>4. \A i, j \in 1 .. Len(w) : w[i] = w[j] => i = j
  BY DEF Linear
<1> HIDE DEF v
<1>5. \A i, j \in 1 .. Len(v) : v[i] = v[j] => i = j
  <2>1. \A i \in 1 .. Len(v) : i \in 1 .. Len(w) \/ i = Len(w) + 1
    BY <1>1, <1>2
  <2>. QED
    BY <1>2, <1>3, <1>4, <2>1
<1>6. \A y : y \in nodes \cup {x} <=> \E i \in 1 .. Len(v) : y = v[i]
  <2>1. \A i : i \in 1 .. Len(v) <=> i \in 1 .. Len(w) \/ i = Len(w) + 1
    BY <1>1, <1>2
  <2>2. \A y : y \in nodes <=> \E i \in 1 .. Len(w) : y = w[i]
    BY DEF Linear
  <2>. QED
    BY <1>2, <2>1, <2>2
<1>7. start = At(v, 1)
  BY <1>1, <1>2 DEF Linear, At
<1>8. ASSUME NEW i \in 1 .. Len(v) PROVE s[v[i]] = At(v, i + 1) /\ b[v[i]] = At(v, i - 1)
  <2>1. \A j \in 1 .. Len(w) : step[w[j]] = At(w, j + 1) /\ back[w[j]] = At(w, j - 1)
    BY DEF Linear
  <2>2. CASE i = Len(w) + 1
    <3>1. v[i] = x /\ At(v, i + 1) = NULL /\ At(v, i - 1) = w[Len(w)]
      BY <1>1, <1>2, <2>2 DEF At
    <3>2. x # w[Len(w)]
      BY <1>1, <1>3
    <3>. QED
      BY <3>1, <3>2
  <2>3. CASE i = Len(w)
    <3>1. v[i] = w[Len(w)] /\ At(v, i + 1) = x /\ At(v, i - 1) = At(w, i - 1)
      BY <1>1, <1>2, <2>3 DEF At
    <3>2. x # w[Len(w)] /\ w[Len(w)] \in Nodes
      BY <1>1, <1>3
    <3>. QED
      BY <1>1, <2>1, <2>3, <3>1, <3>2
  <2>4. CASE i \in 1 .. Len(w) - 1
    <3>1. v[i] = w[i] /\ At(v, i + 1) = At(w, i + 1) /\ At(v, i - 1) = At(w, i - 1)
      BY <1>1, <1>2, <2>4 DEF At
    <3>2. w[i] \in Nodes /\ w[i] # x /\ w[i] # w[Len(w)]
      BY <1>1, <1>3, <1>4, <2>4
    <3>. QED
      BY <1>1, <2>1, <2>4, <3>1, <3>2
  <2>. QED
    BY <1>1, <1>2, <2>2, <2>3, <2>4
<1>. QED
  BY <1>2, <1>5, <1>6, <1>7, <1>8 DEF Linear, v

\* A sequence without the element at place i.
\* The node at place i is bypassed.
LEMMA RemoveLinear ==
  ASSUME NEW w, NEW start, NEW step \in [Nodes -> Pointers],
         NEW back \in [Nodes -> Pointers], NEW nodes,
         Linear(w, start, step, back, nodes), NEW i \in 1 .. Len(w)
  PROVE  Linear(RemoveAt(w, i), IF back[w[i]] = NULL THEN step[w[i]] ELSE start,
                Bypass(step, back, w[i]), Bypass(back, step, w[i]), nodes \ {w[i]})
<1> DEFINE v == RemoveAt(w, i)
           x == w[i]
           s == Bypass(step, back, x)
           b == Bypass(back, step, x)
<1>1. /\ w \in Seq(Nodes) /\ Len(w) \in Nat /\ i \in Nat \ {0}
      /\ \A j \in 1 .. Len(w) : w[j] \in Nodes
  BY LenProperties, ElementOfSeq DEF Linear
<1>2. \A j, k \in 1 .. Len(w) : w[j] = w[k] => j = k
  BY DEF Linear
<1>3. \A j \in 1 .. Len(w) : step[w[j]] = At(w, j + 1) /\ back[w[j]] = At(w, j - 1)
  BY DEF Linear
<1>4. /\ v \in Seq(Nodes) /\ Len(v) = Len(w) - 1
      /\ \A j \in 1 .. Len(w) - 1 : v[j] = IF j < i THEN w[j] ELSE w[j + 1]
  BY <1>1, RemoveAtIs
<1> HIDE DEF v
<1>5. \A j \in 0 .. Len(w) : At(v, j) = IF j < i THEN At(w, j) ELSE At(w, j + 1)
  BY <1>1, <1>4 DEF At
<1>6. ASSUME NEW j \in 1 .. Len(v), NEW k \in 1 .. Len(v), v[j] = v[k] PROVE j = k
  <2> DEFINE p == IF j < i THEN j ELSE j + 1
             q == IF k < i THEN k ELSE k + 1
  <2>1. p \in 1 .. Len(w) /\ q \in 1 .. Len(w) /\ v[j] = w[p] /\ v[k] = w[q]
    BY <1>1, <1>4
  <2>2. p = q
    BY <1>2, <1>6, <2>1
  <2>. QED
    BY <1>1, <1>4, <2>2
<1>7. ASSUME NEW y PROVE y \in nodes \ {x} <=> \E j \in 1 .. Len(v) : y = v[j]
  <2>1. y \in nodes <=> \E j \in 1 .. Len(w) : y = w[j]
    BY DEF Linear
  <2>2. ASSUME y \in nodes \ {x} PROVE \E j \in 1 .. Len(v) : y = v[j]
    <3>1. PICK k \in 1 .. Len(w) : y = w[k]
      BY <2>1, <2>2
    <3>2. k # i
      BY <2>2, <3>1
    <3>3. CASE k < i
      <4>1. k \in 1 .. Len(v) /\ v[k] = y
        BY <1>1, <1>4, <3>1, <3>3
      <4>. QED
        BY <4>1
    <3>4. CASE k > i
      <4>1. k - 1 \in 1 .. Len(v) /\ v[k - 1] = y
        BY <1>1, <1>4, <3>1, <3>4
      <4>. QED
        BY <4>1
    <3>. QED
      BY <1>1, <3>2, <3>3, <3>4
  <2>3. ASSUME NEW j \in 1 .. Len(v), y = v[j] PROVE y \in nodes \ {x}
    <3>1. CASE j < i
      <4>1. j \in 1 .. Len(w) /\ y = w[j] /\ j # i
        BY <1>1, <1>4, <2>3, <3>1
      <4>. QED
        BY <1>2, <2>1, <4>1
    <3>2. CASE ~(j < i)
      <4>1. j + 1 \in 1 .. Len(w) /\ y = w[j + 1] /\ j + 1 # i
        BY <1>1, <1>4, <2>3, <3>2
      <4>. QED
        BY <1>2, <2>1, <4>1
    <3>. QED
      BY <3>1, <3>2
  <2>. QED
    BY <2>2, <2>3
<1>8. (IF back[x] = NULL THEN step[x] ELSE start) = At(v, 1)
  <2>1. start = At(w, 1)
    BY DEF Linear
  <2>2. back[x] = NULL <=> i = 1
    <3>1. back[x] = At(w, i - 1)
      BY <1>3
    <3>2. At(w, i - 1) # NULL <=> i - 1 \in 1 .. Len(w)
      BY <1>1, AtPointer
    <3>3. i - 1 \in 1 .. Len(w) <=> i # 1
      BY <1>1
    <3>. QED
      BY <3>1, <3>2, <3>3
  <2>3. At(v, 1) = IF 1 < i THEN At(w, 1) ELSE At(w, 1 + 1)
    BY <1>1, <1>5
  <2>. QED
    BY <1>1, <1>3, <2>1, <2>2, <2>3
<1>9. ASSUME NEW j \in 1 .. Len(v) PROVE s[v[j]] = At(v, j + 1) /\ b[v[j]] = At(v, j - 1)
  <2> DEFINE k == IF j < i THEN j ELSE j + 1
  <2>1. k \in 1 .. Len(w) /\ k # i /\ v[j] = w[k] /\ w[k] \in Nodes /\ w[k] # x
    BY <1>1, <1>2, <1>4
  <2>2. /\ s[w[k]] = IF w[k] = back[x] THEN step[x] ELSE step[w[k]]
        /\ b[w[k]] = IF w[k] = step[x] THEN back[x] ELSE back[w[k]]
    BY <2>1 DEF Bypass
  <2>3. step[x] = At(w, i + 1) /\ back[x] = At(w, i - 1)
    BY <1>3
  <2>4. (w[k] = back[x] <=> k = i - 1) /\ (w[k] = step[x] <=> k = i + 1)
    BY <1>1, <1>2, <2>1, <2>3 DEF At, Pointers, ContactBookAssumption
  <2>5. /\ At(v, j + 1) = IF j + 1 < i THEN At(w, j + 1) ELSE At(w, j + 2)
        /\ At(v, j - 1) = IF j - 1 < i THEN At(w, j - 1) ELSE At(w, j)
    <3>1. /\ j + 1 \in 0 .. Len(w) /\ j - 1 \in 0 .. Len(w)
          /\ (j + 1) + 1 = j + 2 /\ (j - 1) + 1 = j
      BY <1>1, <1>4
    <3>. QED
      BY <1>5, <3>1
  <2>6. step[w[k]] = At(w, k + 1) /\ back[w[k]] = At(w, k - 1)
    BY <1>3, <2>1
  <2>7. s[w[k]] = At(v, j + 1)
    <3>1. CASE j < i - 1
      BY <1>1, <2>2, <2>4, <2>5, <2>6, <3>1
    <3>2. CASE j = i - 1
      <4>1. k = j /\ At(v, j + 1) = At(w, i + 1)
        BY <1>1, <2>5, <3>2
      <4>. QED
        BY <2>2, <2>3, <2>4, <3>2, <4>1
    <3>3. CASE j >= i
      <4>1. k = j + 1 /\ k + 1 = j + 2 /\ At(v, j + 1) = At(w, j + 2) /\ k # i - 1
        BY <1>1, <2>5, <3>3
      <4>. QED
        BY <2>2, <2>4, <2>6, <4>1
    <3>. QED
      BY <1>1, <3>1, <3>2, <3>3
  <2>8. b[w[k]] = At(v, j - 1)
    <3>1. CASE j < i
      <4>1. k = j /\ At(v, j - 1) = At(w, k - 1) /\ k # i + 1
        BY <1>1, <2>5, <3>1
      <4>. QED
        BY <2>2, <2>4, <2>6, <4>1
    <3>2. CASE j = i
      <4>1. k = i + 1 /\ At(v, j - 1) = At(w, i - 1)
        BY <1>1, <2>5, <3>2
      <4>. QED
        BY <2>2, <2>3, <2>4, <4>1
    <3>3. CASE j > i
      <4>1. k = j + 1 /\ k - 1 = j /\ At(v, j - 1) = At(w, j) /\ k # i + 1
        BY <1>1, <2>5, <3>3
      <4>. QED
        BY <2>2, <2>4, <2>6, <4>1
    <3>. QED
      BY <1>1, <3>1, <3>2, <3>3
  <2>. QED
    BY <2>1, <2>7, <2>8
<1>10. QED
  BY <1>4, <1>6, <1>7, <1>8, <1>9 DEF Linear, v

-----------------------------------------------------------------------------
\* The list of domains.

DomainEntries == [dominio : Domains, num_oc : Nat]

\* No domain has two entries.
NoDomainTwice(entries) ==
  \A i, j \in DOMAIN entries : entries[i].dominio = entries[j].dominio => i = j

\* What Num_Ocorrencias answers.
CountOf(entries, d) ==
  IF DomainAt(entries, d) = 0 THEN 0 ELSE entries[DomainAt(entries, d)].num_oc

LEMMA DomainAtIs ==
  ASSUME NEW entries \in Seq(DomainEntries), NEW d, NoDomainTwice(entries)
  PROVE  /\ \A i \in 1 .. Len(entries) :
              entries[i].dominio = d => DomainAt(entries, d) = i
         /\ (~\E i \in 1 .. Len(entries) : entries[i].dominio = d)
              => DomainAt(entries, d) = 0
<1> DEFINE I == {i \in 1 .. Len(entries) : entries[i].dominio = d}
<1>1. DomainAt(entries, d) = IF I # {} THEN Min(I) ELSE 0
  BY DEF DomainAt, SelectInSeq
<1>2. DOMAIN entries = 1 .. Len(entries) /\ Len(entries) \in Nat
  BY LenProperties
<1>3. ASSUME NEW i \in 1 .. Len(entries), entries[i].dominio = d
      PROVE  DomainAt(entries, d) = i
  <2>1. I = {i}
    BY <1>2, <1>3 DEF NoDomainTwice
  <2>2. Min({i}) = i
    <3>1. \A y \in {i} : i =< y
      BY <1>2
    <3>. QED
      BY <3>1 DEF Min
  <2>. QED
    BY <1>1, <2>1, <2>2
<1>4. ASSUME ~\E i \in 1 .. Len(entries) : entries[i].dominio = d
      PROVE  DomainAt(entries, d) = 0
  <2>1. I = {}
    BY <1>4
  <2>. QED
    BY <1>1, <2>1
<1>. QED
  BY <1>3, <1>4

LEMMA CountOfIs ==
  ASSUME NEW entries \in Seq(DomainEntries), NEW d, NoDomainTwice(entries)
  PROVE  /\ \A i \in 1 .. Len(entries) :
              entries[i].dominio = d => CountOf(entries, d) = entries[i].num_oc
         /\ (~\E i \in 1 .. Len(entries) : entries[i].dominio = d)
              => CountOf(entries, d) = 0
         /\ CountOf(entries, d) \in Nat
<1>1. Len(entries) \in Nat /\ \A i \in 1 .. Len(entries) : entries[i] \in DomainEntries
  BY LenProperties, ElementOfSeq
<1>2. ASSUME NEW i \in 1 .. Len(entries), entries[i].dominio = d
      PROVE  CountOf(entries, d) = entries[i].num_oc /\ CountOf(entries, d) \in Nat
  <2>1. DomainAt(entries, d) = i /\ i # 0
    BY <1>1, <1>2, DomainAtIs
  <2>2. entries[i].num_oc \in Nat
    BY <1>1 DEF DomainEntries
  <2>. QED
    BY <2>1, <2>2 DEF CountOf
<1>3. ASSUME ~\E i \in 1 .. Len(entries) : entries[i].dominio = d
      PROVE  CountOf(entries, d) = 0
  <2>1. DomainAt(entries, d) = 0
    BY <1>3, DomainAtIs
  <2>. QED
    BY <2>1 DEF CountOf
<1>. QED
  BY <1>2, <1>3

\* An entry whose count is set to n: every other domain keeps its count.
LEMMA RecountedIs ==
  ASSUME NEW entries \in Seq(DomainEntries), NoDomainTwice(entries),
         NEW i \in 1 .. Len(entries), NEW n \in Nat
  PROVE  LET new == [entries EXCEPT ![i].num_oc = n]
         IN  /\ new \in Seq(DomainEntries) /\ NoDomainTwice(new)
             /\ \A c : CountOf(new, c)
                         = IF c = entries[i].dominio THEN n ELSE CountOf(entries, c)
<1> DEFINE e == [entries[i] EXCEPT !.num_oc = n]
           new == [entries EXCEPT ![i] = e]
<1>0. [entries EXCEPT ![i].num_oc = n] = new
  OBVIOUS
<1>1. /\ Len(entries) \in Nat /\ DOMAIN entries = 1 .. Len(entries)
      /\ \A j \in 1 .. Len(entries) : entries[j] \in DomainEntries
  BY LenProperties, ElementOfSeq
<1>2. e \in DomainEntries /\ e.dominio = entries[i].dominio /\ e.num_oc = n
  BY <1>1 DEF DomainEntries
<1> HIDE DEF e
<1>3. /\ new \in Seq(DomainEntries) /\ Len(new) = Len(entries)
      /\ \A j \in 1 .. Len(entries) : new[j] = IF j = i THEN e ELSE entries[j]
  BY <1>2, ExceptSeq
<1> HIDE DEF new
<1>4. \A j \in 1 .. Len(entries) : new[j].dominio = entries[j].dominio
  BY <1>2, <1>3
<1>5. DOMAIN new = 1 .. Len(entries)
  BY <1>3, LenProperties
<1>6. NoDomainTwice(new)
  BY <1>1, <1>4, <1>5 DEF NoDomainTwice
<1>7. ASSUME NEW c
      PROVE  CountOf(new, c) = IF c = entries[i].dominio THEN n ELSE CountOf(entries, c)
  <2>1. CASE c = entries[i].dominio
    <3>1. new[i].dominio = c /\ new[i].num_oc = n
      BY <1>2, <1>3, <2>1
    <3>. QED
      BY <1>3, <1>6, <2>1, <3>1, CountOfIs
  <2>2. CASE c # entries[i].dominio /\ \E j \in 1 .. Len(entries) : entries[j].dominio = c
    <3>1. PICK j \in 1 .. Len(entries) : entries[j].dominio = c
      BY <2>2
    <3>2. j # i /\ new[j] = entries[j] /\ new[j].dominio = c
      BY <1>3, <2>2, <3>1
    <3>3. CountOf(new, c) = new[j].num_oc /\ CountOf(entries, c) = entries[j].num_oc
      BY <1>3, <1>6, <3>1, <3>2, CountOfIs
    <3>. QED
      BY <2>2, <3>2, <3>3
  <2>3. CASE ~\E j \in 1 .. Len(entries) : entries[j].dominio = c
    <3>1. ~\E j \in 1 .. Len(new) : new[j].dominio = c
      BY <1>3, <1>4, <2>3
    <3>2. CountOf(new, c) = 0 /\ CountOf(entries, c) = 0
      BY <1>3, <1>6, <2>3, <3>1, CountOfIs
    <3>. QED
      BY <2>3, <3>2
  <2>. QED
    BY <2>1, <2>2, <2>3
<1>. QED
  BY <1>0, <1>3, <1>6, <1>7

LEMMA CountedIs ==
  ASSUME NEW entries \in Seq(DomainEntries), NoDomainTwice(entries), NEW d \in Domains
  PROVE  /\ Counted(entries, d) \in Seq(DomainEntries)
         /\ NoDomainTwice(Counted(entries, d))
         /\ \A c : CountOf(Counted(entries, d), c)
                     = IF c = d THEN CountOf(entries, c) + 1 ELSE CountOf(entries, c)
<1>1. /\ Len(entries) \in Nat /\ DOMAIN entries = 1 .. Len(entries)
      /\ \A j \in 1 .. Len(entries) : entries[j] \in DomainEntries
  BY LenProperties, ElementOfSeq
<1>2. CASE \E i \in 1 .. Len(entries) : entries[i].dominio = d
  <2>1. PICK i \in 1 .. Len(entries) : entries[i].dominio = d
    BY <1>2
  <2>2. DomainAt(entries, d) = i
    BY <2>1, DomainAtIs
  <2>3. Counted(entries, d) = [entries EXCEPT ![i].num_oc = entries[i].num_oc + 1]
    BY <1>1, <1>2, <2>2 DEF Counted
  <2>4. entries[i].num_oc \in Nat /\ entries[i].num_oc + 1 \in Nat
    BY <1>1 DEF DomainEntries
  <2>5. CountOf(entries, d) = entries[i].num_oc
    BY <2>1, CountOfIs
  <2> DEFINE new == [entries EXCEPT ![i].num_oc = entries[i].num_oc + 1]
  <2>6. /\ new \in Seq(DomainEntries) /\ NoDomainTwice(new)
        /\ \A c : CountOf(new, c) = IF c = entries[i].dominio THEN entries[i].num_oc + 1
                                                              ELSE CountOf(entries, c)
    BY <2>4, RecountedIs
  <2> HIDE DEF new
  <2>7. Counted(entries, d) = new
    BY <2>3 DEF new
  <2>. QED
    BY <2>1, <2>5, <2>6, <2>7
<1>3. CASE ~\E i \in 1 .. Len(entries) : entries[i].dominio = d
  <2> DEFINE e == [dominio |-> d, num_oc |-> 1]
             one == <<e>>
             new == one \o entries
  <2>1. e \in DomainEntries /\ e.dominio = d /\ e.num_oc = 1
    BY DEF DomainEntries
  <2> HIDE DEF e
  <2>2. one \in Seq(DomainEntries) /\ Len(one) = 1 /\ one[1] = e
    BY <2>1
  <2>3. Counted(entries, d) = new
    BY <1>1, <1>3 DEF Counted, e
  <2> HIDE DEF one
  <2>4. /\ new \in Seq(DomainEntries) /\ Len(new) = 1 + Len(entries)
        /\ \A i \in 1 .. 1 + Len(entries) :
             new[i] = IF i <= 1 THEN one[i] ELSE entries[i - 1]
    <3>1. /\ new \in Seq(DomainEntries) /\ Len(new) = Len(one) + Len(entries)
          /\ \A i \in 1 .. Len(one) + Len(entries) :
               new[i] = IF i <= Len(one) THEN one[i] ELSE entries[i - Len(one)]
      BY <2>2, ConcatProperties
    <3> HIDE DEF new
    <3>. QED
      BY <2>2, <3>1
  <2> HIDE DEF new
  <2>5. new[1] = e /\ \A i \in 1 .. Len(entries) : new[i + 1] = entries[i]
    BY <1>1, <2>2, <2>4
  <2>6. \A i \in 1 .. Len(new) : i = 1 \/ \E j \in 1 .. Len(entries) : i = j + 1
    <3>1. \A i \in 1 .. Len(new) : i = 1 \/ (i - 1 \in 1 .. Len(entries) /\ i = (i - 1) + 1)
      BY <1>1, <2>4
    <3>. QED
      BY <3>1
  <2>7. DOMAIN new = 1 .. Len(new)
    BY <2>4, LenProperties
  <2>8. NoDomainTwice(new)
    <3>1. ASSUME NEW i \in 1 .. Len(new), NEW j \in 1 .. Len(new),
                 new[i].dominio = new[j].dominio
          PROVE  i = j
      <4>1. CASE i = 1 \/ j = 1
        BY <1>3, <2>1, <2>5, <2>6, <3>1, <4>1
      <4>2. CASE i # 1 /\ j # 1
        <5>1. PICK a \in 1 .. Len(entries) : i = a + 1
          BY <2>6, <4>2
        <5>2. PICK z \in 1 .. Len(entries) : j = z + 1
          BY <2>6, <4>2
        <5>3. a = z
          BY <1>1, <2>5, <3>1, <5>1, <5>2 DEF NoDomainTwice
        <5>. QED
          BY <5>1, <5>2, <5>3
      <4>. QED
        BY <4>1, <4>2
    <3>. QED
      BY <2>7, <3>1 DEF NoDomainTwice
  <2>9. ASSUME NEW c
        PROVE  CountOf(new, c) = IF c = d THEN CountOf(entries, c) + 1
                                          ELSE CountOf(entries, c)
    <3>1. CASE c = d
      <4>1. CountOf(entries, c) = 0
        BY <1>3, <3>1, CountOfIs
      <4>2. 1 \in 1 .. Len(new) /\ new[1].dominio = c /\ new[1].num_oc = 1
        BY <1>1, <2>1, <2>4, <2>5, <3>1
      <4>3. CountOf(new, c) = 1
        BY <2>4, <2>8, <4>2, CountOfIs
      <4>. QED
        BY <3>1, <4>1, <4>3
    <3>2. CASE c # d /\ \E j \in 1 .. Len(entries) : entries[j].dominio = c
      <4>1. PICK j \in 1 .. Len(entries) : entries[j].dominio = c
        BY <3>2
      <4>2. j + 1 \in 1 .. Len(new) /\ new[j + 1] = entries[j]
        BY <1>1, <2>4, <2>5
      <4>3. CountOf(entries, c) = entries[j].num_oc
        BY <4>1, CountOfIs
      <4>4. CountOf(new, c) = entries[j].num_oc
        <5>1. PICK i \in 1 .. Len(new) : i = j + 1
          BY <4>2
        <5>2. new[i].dominio = c /\ new[i].num_oc = entries[j].num_oc
          BY <4>1, <4>2, <5>1
        <5>3. CountOf(new, c) = new[i].num_oc
          BY <2>4, <2>8, <5>2, CountOfIs
        <5>. QED
          BY <5>2, <5>3
      <4>. QED
        BY <3>2, <4>3, <4>4
    <3>3. CASE c # d /\ ~\E j \in 1 .. Len(entries) : entries[j].dominio = c
      <4>1. ~\E i \in 1 .. Len(new) : new[i].dominio = c
        BY <2>1, <2>5, <2>6, <3>3
      <4>2. CountOf(new, c) = 0 /\ CountOf(entries, c) = 0
        BY <2>4, <2>8, <3>3, <4>1, CountOfIs
      <4>. QED
        BY <3>3, <4>2
    <3>. QED
      BY <3>1, <3>2, <3>3
  <2>. QED
    BY <2>3, <2>4, <2>8, <2>9
<1>. QED
  BY <1>2, <1>3

LEMMA UncountedIs ==
  ASSUME NEW entries \in Seq(DomainEntries), NoDomainTwice(entries), NEW d,
         CountOf(entries, d) # 0
  PROVE  /\ Uncounted(entries, d) \in Seq(DomainEntries)
         /\ NoDomainTwice(Uncounted(entries, d))
         /\ \A c : CountOf(Uncounted(entries, d), c)
                     = IF c = d THEN CountOf(entries, c) - 1 ELSE CountOf(entries, c)
<1>1. /\ Len(entries) \in Nat /\ DOMAIN entries = 1 .. Len(entries)
      /\ \A j \in 1 .. Len(entries) : entries[j] \in DomainEntries
  BY LenProperties, ElementOfSeq
<1>2. PICK i \in 1 .. Len(entries) : entries[i].dominio = d
  BY CountOfIs
<1>3. DomainAt(entries, d) = i /\ CountOf(entries, d) = entries[i].num_oc
  BY <1>2, DomainAtIs, CountOfIs
<1>4. Uncounted(entries, d) = [entries EXCEPT ![i].num_oc = entries[i].num_oc - 1]
  BY <1>1, <1>2, <1>3 DEF Uncounted
<1>5. entries[i].num_oc \in Nat /\ entries[i].num_oc - 1 \in Nat
  BY <1>1, <1>3 DEF DomainEntries
<1> DEFINE new == [entries EXCEPT ![i].num_oc = entries[i].num_oc - 1]
<1>6. /\ new \in Seq(DomainEntries) /\ NoDomainTwice(new)
      /\ \A c : CountOf(new, c) = IF c = entries[i].dominio THEN entries[i].num_oc - 1
                                                            ELSE CountOf(entries, c)
  BY <1>5, RecountedIs
<1> HIDE DEF new
<1>7. Uncounted(entries, d) = new
  BY <1>4 DEF new
<1>. QED
  BY <1>2, <1>3, <1>6, <1>7

-----------------------------------------------------------------------------
\* The inductive invariant.

InKey(k) == {x \in Allocated : calc_key[p_c[x].nome] = k}

\* The contacts of domain d.
Of(d) == {x \in Allocated : p_c[x].dominio = d}

\* The list is linked in both directions, through the contacts that are there.
ListInv ==
  /\ Linear(Walk(head, next), head, next, prev, Allocated)
  /\ tail = At(Walk(head, next), Len(Walk(head, next)))

\* The chain of each key is, through the contacts of that key.
ChainInv ==
  \A k \in Keys : Linear(Walk(heads[k], hnext), heads[k], hnext, hprev, InKey(k))

\* A node that is not allocated points nowhere: it may be put at an end.
FreeInv ==
  \A x \in Nodes \ Allocated :
    next[x] = NULL /\ prev[x] = NULL /\ hnext[x] = NULL /\ hprev[x] = NULL

\* No name has two contacts: there is a node left for a new name.
NameInv == \A x, y \in Allocated : p_c[x].nome = p_c[y].nome => x = y

CountInv ==
  /\ NoDomainTwice(domains)
  /\ \A d \in Domains : Cardinality(Of(d)) = CountOf(domains, d)

IInv == TypeOK /\ ListInv /\ ChainInv /\ FreeInv /\ NameInv /\ CountInv

LEMMA AllocatedAre ==
  ASSUME TypeOK
  PROVE  /\ Allocated \subseteq Nodes
         /\ \A x \in Nodes : x \in Allocated <=> p_c[x] \in Contacto
         /\ \A x \in Allocated : /\ p_c[x] \in Contacto
                                 /\ p_c[x].nome \in Names /\ p_c[x].dominio \in Domains
                                 /\ calc_key[p_c[x].nome] \in Keys
         /\ IsFiniteSet(Allocated)
         /\ \A d : IsFiniteSet(Of(d))
<1>1. Allocated \subseteq Nodes
  BY DEF Allocated
<1>2. \A x \in Nodes : x \in Allocated <=> p_c[x] \in Contacto
  BY DEF TypeOK, Allocated, ContactBookAssumption
<1>3. \A x \in Allocated : /\ p_c[x] \in Contacto
                           /\ p_c[x].nome \in Names /\ p_c[x].dominio \in Domains
                           /\ calc_key[p_c[x].nome] \in Keys
  BY <1>1, <1>2 DEF Contacto, ContactBookAssumption
<1>4. IsFiniteSet(Allocated)
  BY <1>1, NodesFinite, FS_Subset
<1>5. ASSUME NEW d PROVE IsFiniteSet(Of(d))
  <2>1. Of(d) \subseteq Allocated
    BY DEF Of
  <2>. QED
    BY <1>4, <2>1, FS_Subset
<1>. QED
  BY <1>1, <1>2, <1>3, <1>4, <1>5

\* nome_existe finds the contact of that name, if there is one.
LEMMA Found ==
  ASSUME TypeOK, ChainInv, NEW n \in Names
  PROVE  \/ /\ nome_existe(n) = NULL
            /\ ~\E x \in Allocated : p_c[x].nome = n
         \/ /\ nome_existe(n) \in Allocated /\ nome_existe(n) # NULL
            /\ p_c[nome_existe(n)].nome = n
<1> DEFINE k == calc_key[n]
           chain == Walk(heads[k], hnext)
           hits == {i \in DOMAIN chain : p_c[chain[i]] # NULL /\ p_c[chain[i]].nome = n}
<1>1. k \in Keys
  BY DEF ContactBookAssumption
<1>2. Linear(chain, heads[k], hnext, hprev, InKey(k))
  BY <1>1 DEF ChainInv
<1>3. nome_existe(n) = IF hits = {} THEN NULL
                       ELSE chain[CHOOSE i \in hits : \A j \in hits : i <= j]
  BY DEF nome_existe
<1> HIDE DEF chain
<1>4. /\ DOMAIN chain = 1 .. Len(chain) /\ Len(chain) \in Nat
      /\ \A y : y \in InKey(k) <=> \E i \in 1 .. Len(chain) : y = chain[i]
  BY <1>2, LenProperties DEF Linear
<1>5. CASE hits = {}
  <2>1. ASSUME NEW x \in Allocated, p_c[x].nome = n PROVE FALSE
    <3>1. x \in InKey(k)
      BY <2>1 DEF InKey
    <3>2. PICK i \in 1 .. Len(chain) : x = chain[i]
      BY <1>4, <3>1
    <3>3. i \in hits
      BY <1>4, <2>1, <3>2 DEF Allocated
    <3>. QED
      BY <1>5, <3>3
  <2>. QED
    BY <1>3, <1>5, <2>1
<1>6. CASE hits # {}
  <2>1. hits \in SUBSET Nat
    BY <1>4
  <2> DEFINE i == CHOOSE i \in hits : \A j \in hits : i <= j
  <2>2. i \in hits
    <3> HIDE DEF hits
    <3>1. \E h \in hits : \A j \in hits : h <= j
      BY <1>6, <2>1, LeastElement
    <3>. QED
      BY <3>1
  <2>3. nome_existe(n) = chain[i]
    BY <1>3, <1>6
  <2> HIDE DEF i
  <2>4. chain[i] \in InKey(k) /\ p_c[chain[i]].nome = n
    BY <1>4, <2>2
  <2>5. chain[i] \in Allocated /\ chain[i] # NULL
    BY <2>4 DEF InKey, Allocated, ContactBookAssumption
  <2>. QED
    BY <2>3, <2>4, <2>5
<1>. QED
  BY <1>5, <1>6

\* While a name is not in the book, malloc has a node to return.
LEMMA FreeNode ==
  ASSUME TypeOK, NameInv, NEW n \in Names, ~\E x \in Allocated : p_c[x].nome = n
  PROVE  \E y \in Nodes : p_c[y] = NULL
<1>1. SUFFICES ASSUME \A y \in Nodes : p_c[y] # NULL PROVE FALSE
  OBVIOUS
<1>2. Allocated = Nodes
  BY <1>1 DEF Allocated
<1> DEFINE f == [x \in Nodes |-> p_c[x].nome]
<1>3. f \in [Nodes -> Names \ {n}]
  BY <1>2, AllocatedAre
<1>4. \A x, y \in Nodes : f[x] = f[y] => x = y
  BY <1>2 DEF NameInv
<1>5. f \in Injection(Nodes, Names \ {n})
  <2>1. DOMAIN f = Nodes
    OBVIOUS
  <2> HIDE DEF f
  <2>. QED
    BY <1>3, <1>4, <2>1, Zenon DEF Injection, IsInjective
<1>6. IsFiniteSet(Names \ {n}) /\ Cardinality(Names \ {n}) = Cardinality(Names) - 1
  BY FS_RemoveElement DEF ContactBookAssumption
<1>7. Cardinality(Nodes) <= Cardinality(Names \ {n})
  <2> HIDE DEF f
  <2>. QED
    BY <1>5, <1>6, FS_Injection
<1>8. Cardinality(Names) \in Nat /\ Cardinality(Nodes) \in Nat
  BY NodesFinite, FS_CardinalityType DEF ContactBookAssumption
<1>. QED
  BY <1>6, <1>7, <1>8 DEF ContactBookAssumption

\* Walks stay within the nodes.
LEMMA WalksAre ==
  ASSUME TypeOK, ListInv, ChainInv
  PROVE  /\ Walk(head, next) \in Seq(Nodes)
         /\ \A k \in Keys : Walk(heads[k], hnext) \in Seq(Nodes)
         /\ head = NULL <=> Walk(head, next) = <<>>
<1>1. Walk(head, next) \in Seq(Nodes) /\ head = At(Walk(head, next), 1)
  BY DEF ListInv, Linear
<1>2. \A k \in Keys : Walk(heads[k], hnext) \in Seq(Nodes)
  BY DEF ChainInv, Linear
<1>3. head # NULL <=> 1 \in 1 .. Len(Walk(head, next))
  BY <1>1, AtPointer
<1>4. 1 \in 1 .. Len(Walk(head, next)) <=> Walk(head, next) # <<>>
  BY <1>1, EmptySeq
<1>. QED
  BY <1>1, <1>2, <1>3, <1>4

-----------------------------------------------------------------------------
\* Command a: a new contact.

\* What malloc returns.
Fresh == CHOOSE y \in Nodes : p_c[y] = NULL

\* The new contact is the only change to the contacts.
LEMMA CreateContacts ==
  ASSUME IInv, NEW n \in Names, NEW e \in Emails, nome_existe(n) = NULL, cria_contacto(n, e)
  PROVE  /\ Fresh \in Nodes /\ Fresh \notin Allocated /\ p_c[Fresh] = NULL
         /\ p_c' \in [Nodes -> Contacto \cup {NULL}]
         /\ p_c'[Fresh] = [nome |-> n, local |-> e.local, dominio |-> e.dominio]
         /\ \A y \in Nodes \ {Fresh} : p_c'[y] = p_c[y]
         /\ Allocated' = Allocated \cup {Fresh}
         /\ ~\E y \in Allocated : p_c[y].nome = n
<1> DEFINE c == [nome |-> n, local |-> e.local, dominio |-> e.dominio]
<1>1. TypeOK /\ ChainInv /\ NameInv /\ p_c \in [Nodes -> Contacto \cup {NULL}]
  BY DEF IInv, TypeOK
<1>2. ~\E y \in Allocated : p_c[y].nome = n
  BY <1>1, Found
<1>3. Fresh \in Nodes /\ p_c[Fresh] = NULL
  <2>1. \E y \in Nodes : p_c[y] = NULL
    BY <1>1, <1>2, FreeNode
  <2>. QED
    BY <2>1 DEF Fresh
<1>4. c \in Contacto /\ c # NULL
  BY DEF Contacto, Emails, ContactBookAssumption
<1>5. p_c' = [p_c EXCEPT ![Fresh] = c]
  BY Zenon DEF cria_contacto, Fresh
<1> HIDE DEF c
<1>6. /\ p_c' \in [Nodes -> Contacto \cup {NULL}] /\ p_c'[Fresh] = c
      /\ \A y \in Nodes \ {Fresh} : p_c'[y] = p_c[y]
  BY <1>1, <1>3, <1>4, <1>5
<1>7. Allocated' = Allocated \cup {Fresh}
  BY <1>3, <1>4, <1>6 DEF Allocated
<1>8. Fresh \notin Allocated
  BY <1>3 DEF Allocated
<1>. QED
  BY <1>2, <1>3, <1>6, <1>7, <1>8 DEF c

\* The list gets one more node, at its end.
LEMMA CreateList ==
  ASSUME IInv, NEW n \in Names, NEW e \in Emails, nome_existe(n) = NULL, cria_contacto(n, e)
  PROVE  /\ Linear(Append(Walk(head, next), Fresh), head', next', prev', Allocated')
         /\ tail' = Fresh
         /\ head' \in Pointers /\ tail' \in Pointers
         /\ next' \in [Nodes -> Pointers] /\ prev' \in [Nodes -> Pointers]
         /\ \A y \in Nodes \ Allocated' : next'[y] = NULL /\ prev'[y] = NULL
<1> DEFINE w == Walk(head, next)
<1>1. /\ Fresh \in Nodes /\ Fresh \notin Allocated /\ Allocated' = Allocated \cup {Fresh}
      /\ Allocated \subseteq Nodes
  BY CreateContacts, AllocatedAre DEF IInv
<1>2. /\ Linear(w, head, next, prev, Allocated) /\ tail = At(w, Len(w))
      /\ next \in [Nodes -> Pointers] /\ prev \in [Nodes -> Pointers]
      /\ head \in Pointers /\ w \in Seq(Nodes) /\ Len(w) \in Nat
      /\ (head = NULL <=> w = <<>>)
  <2>1. Linear(w, head, next, prev, Allocated) /\ tail = At(w, Len(w))
    BY DEF IInv, ListInv
  <2>2. w \in Seq(Nodes) /\ (head = NULL <=> w = <<>>)
    BY WalksAre DEF IInv
  <2>. QED
    BY <2>1, <2>2, LenProperties DEF IInv, TypeOK
<1>3. \A y \in Nodes \ Allocated : next[y] = NULL /\ prev[y] = NULL
  BY DEF IInv, FreeInv
<1>4. /\ head' = IF head = NULL THEN Fresh ELSE head
      /\ tail' = Fresh
      /\ next' = IF head = NULL THEN next ELSE [next EXCEPT ![tail] = Fresh]
      /\ prev' = IF head = NULL THEN prev ELSE [prev EXCEPT ![Fresh] = tail]
  BY DEF cria_contacto, Fresh
<1>5. Fresh \in Pointers
  BY <1>1 DEF Pointers
<1> HIDE DEF w
<1>6. CASE w = <<>>
  <2>1. head' = Fresh /\ next' = next /\ prev' = prev
    BY <1>2, <1>4, <1>6
  <2>2. Allocated' = {Fresh}
    <3>1. \A y : y \notin Allocated
      BY <1>2, <1>6, EmptySeq DEF Linear
    <3>. QED
      BY <1>1, <3>1
  <2>3. Linear(<<Fresh>>, head', next', prev', Allocated')
    BY <1>1, <1>3, <2>1, <2>2, SingleLinear
  <2>4. Append(w, Fresh) = <<Fresh>>
    BY <1>6
  <2>5. \A y \in Nodes \ Allocated' : next'[y] = NULL /\ prev'[y] = NULL
    BY <1>1, <1>3, <2>1
  <2>. QED
    BY <1>2, <1>4, <1>5, <2>1, <2>3, <2>4, <2>5 DEF w
<1>7. CASE w # <<>>
  <2>1. head' = head /\ tail = w[Len(w)] /\ tail \in Nodes /\ tail \in Allocated
    <3>1. Len(w) \in 1 .. Len(w)
      BY <1>2, <1>7, EmptySeq
    <3>. QED
      BY <1>2, <1>4, <1>7, <3>1, ElementOfSeq DEF At, Linear
  <2>2. /\ next' = [next EXCEPT ![w[Len(w)]] = Fresh]
        /\ prev' = [prev EXCEPT ![Fresh] = w[Len(w)]]
    BY <1>2, <1>4, <1>7, <2>1
  <2>3. next[Fresh] = NULL
    BY <1>1, <1>3
  <2>4. Linear(Append(w, Fresh), head, [next EXCEPT ![w[Len(w)]] = Fresh],
               [prev EXCEPT ![Fresh] = w[Len(w)]], Allocated \cup {Fresh})
    BY <1>1, <1>2, <1>7, <2>3, AppendLinear
  <2>5. Linear(Append(w, Fresh), head', next', prev', Allocated')
    BY <1>1, <2>1, <2>2, <2>4
  <2>6. next' \in [Nodes -> Pointers] /\ prev' \in [Nodes -> Pointers]
    BY <1>1, <1>2, <1>5, <2>1, <2>2 DEF Pointers
  <2>7. \A y \in Nodes \ Allocated' : next'[y] = NULL /\ prev'[y] = NULL
    BY <1>1, <1>2, <1>3, <2>1, <2>2
  <2>. QED
    BY <1>2, <1>4, <1>5, <2>1, <2>5, <2>6, <2>7 DEF w
<1>. QED
  BY <1>6, <1>7

\* So does the chain of its key; the other chains are as they were.
LEMMA CreateChain ==
  ASSUME IInv, NEW n \in Names, NEW e \in Emails, nome_existe(n) = NULL, cria_contacto(n, e)
  PROVE  /\ ChainInv'
         /\ heads' \in [Keys -> Pointers]
         /\ hnext' \in [Nodes -> Pointers] /\ hprev' \in [Nodes -> Pointers]
         /\ \A y \in Nodes \ Allocated' : hnext'[y] = NULL /\ hprev'[y] = NULL
<1> DEFINE key == calc_key[n]
           w == Walk(heads[key], hnext)
<1>1. /\ Fresh \in Nodes /\ Fresh \notin Allocated /\ Allocated' = Allocated \cup {Fresh}
      /\ Allocated \subseteq Nodes /\ Fresh \in Pointers
      /\ p_c'[Fresh].nome = n /\ \A y \in Allocated : p_c'[y] = p_c[y]
  <2>1. Fresh \in Nodes /\ Fresh \notin Allocated /\ Allocated' = Allocated \cup {Fresh}
    BY CreateContacts
  <2>2. p_c'[Fresh] = [nome |-> n, local |-> e.local, dominio |-> e.dominio]
    BY CreateContacts
  <2>3. \A y \in Nodes \ {Fresh} : p_c'[y] = p_c[y]
    BY CreateContacts
  <2>4. Allocated \subseteq Nodes
    BY DEF Allocated
  <2>. QED
    BY <2>1, <2>2, <2>3, <2>4 DEF Pointers
<1>2. \A k : InKey(k)' = IF k = key THEN InKey(k) \cup {Fresh} ELSE InKey(k)
  BY <1>1 DEF InKey
<1>3. /\ key \in Keys /\ heads \in [Keys -> Pointers]
      /\ hnext \in [Nodes -> Pointers] /\ hprev \in [Nodes -> Pointers]
      /\ \A k \in Keys : Linear(Walk(heads[k], hnext), heads[k], hnext, hprev, InKey(k))
      /\ \A y \in Nodes \ Allocated : hnext[y] = NULL /\ hprev[y] = NULL
  BY DEF IInv, TypeOK, ChainInv, FreeInv, ContactBookAssumption
<1>4. IF w = <<>>
      THEN heads' = [heads EXCEPT ![key] = Fresh] /\ hnext' = hnext /\ hprev' = hprev
      ELSE /\ hnext' = [hnext EXCEPT ![Last(w)] = Fresh]
           /\ hprev' = [hprev EXCEPT ![Fresh] = Last(w)]
           /\ heads' = heads
  BY DEF cria_contacto, Fresh
<1>5. Linear(w, heads[key], hnext, hprev, InKey(key)) /\ w \in Seq(Nodes)
  BY <1>3 DEF Linear
<1>6. \A k : InKey(k) \subseteq Allocated
  BY DEF InKey
<1>7. \A k : k # key => InKey(k) \cap InKey(key) = {}
  BY DEF InKey
<1> HIDE DEF w
<1>8. CASE w = <<>>
  <2>1. heads' = [heads EXCEPT ![key] = Fresh] /\ hnext' = hnext /\ hprev' = hprev
    BY <1>4, <1>8
  <2>2. ASSUME NEW k \in Keys
        PROVE  \E v : Linear(v, heads'[k], hnext', hprev', InKey(k)')
    <3>1. CASE k = key
      <4>1. InKey(key) = {}
        BY <1>5, <1>8, EmptySeq DEF Linear
      <4>2. InKey(k)' = {Fresh} /\ heads'[k] = Fresh
        BY <1>2, <1>3, <2>1, <3>1, <4>1
      <4>3. Linear(<<Fresh>>, Fresh, hnext, hprev, {Fresh})
        BY <1>1, <1>3, SingleLinear
      <4>. QED
        BY <2>1, <4>2, <4>3
    <3>2. CASE k # key
      <4>1. InKey(k)' = InKey(k) /\ heads'[k] = heads[k]
        BY <1>2, <1>3, <2>1, <3>2
      <4>. QED
        BY <1>3, <2>1, <4>1
    <3>. QED
      BY <3>1, <3>2
  <2>3. ChainInv'
    BY <2>2, WalkIs DEF ChainInv
  <2>. QED
    BY <1>1, <1>3, <2>1, <2>3
<1>9. CASE w # <<>>
  <2> DEFINE l == w[Len(w)]
  <2>1. /\ hnext' = [hnext EXCEPT ![l] = Fresh]
        /\ hprev' = [hprev EXCEPT ![Fresh] = l]
        /\ heads' = heads
    BY <1>4, <1>9 DEF Last
  <2>2. l \in Nodes /\ l \in InKey(key) /\ l \in Allocated
    <3>1. Len(w) \in 1 .. Len(w)
      BY <1>5, <1>9, EmptySeq
    <3>. QED
      BY <1>1, <1>5, <1>6, <3>1 DEF Linear
  <2>3. Linear(Append(w, Fresh), heads[key], [hnext EXCEPT ![l] = Fresh],
               [hprev EXCEPT ![Fresh] = l], InKey(key) \cup {Fresh})
    <3>1. Fresh \notin InKey(key) /\ hnext[Fresh] = NULL
      BY <1>1, <1>3, <1>6
    <3>. QED
      BY <1>1, <1>3, <1>5, <1>9, <3>1, AppendLinear
  <2> HIDE DEF l
  <2>4. ASSUME NEW k \in Keys
        PROVE  \E v : Linear(v, heads'[k], hnext', hprev', InKey(k)')
    <3>1. CASE k = key
      <4>1. InKey(k)' = InKey(key) \cup {Fresh}
        BY <1>2, <3>1
      <4>. QED
        BY <2>1, <2>3, <3>1, <4>1
    <3>2. CASE k # key
      <4>1. InKey(k)' = InKey(k)
        BY <1>2, <3>2
      <4>2. \A y \in InKey(k) : y \in Nodes /\ y # l /\ y # Fresh
        BY <1>1, <1>6, <1>7, <2>2, <3>2
      <4>3. \A y \in InKey(k) : hnext'[y] = hnext[y] /\ hprev'[y] = hprev[y]
        BY <1>3, <2>1, <4>2
      <4>4. Linear(Walk(heads[k], hnext), heads[k], hnext', hprev', InKey(k))
        BY <1>3, <4>3, FrameLinear
      <4>. QED
        BY <2>1, <4>1, <4>4
    <3>. QED
      BY <3>1, <3>2
  <2>5. ChainInv'
    BY <2>4, WalkIs DEF ChainInv
  <2>6. hnext' \in [Nodes -> Pointers] /\ hprev' \in [Nodes -> Pointers]
    BY <1>1, <1>3, <2>1, <2>2 DEF Pointers
  <2>7. \A y \in Nodes \ Allocated' : hnext'[y] = NULL /\ hprev'[y] = NULL
    BY <1>1, <1>3, <2>1, <2>2
  <2>. QED
    BY <1>3, <2>1, <2>5, <2>6, <2>7
<1>. QED
  BY <1>8, <1>9

LEMMA CreateCounts ==
  ASSUME IInv, NEW n \in Names, NEW e \in Emails, nome_existe(n) = NULL, cria_contacto(n, e)
  PROVE  CountInv' /\ domains' \in Seq(DomainEntries)
<1>1. domains' = Counted(domains, e.dominio)
  BY DEF cria_contacto
<1>2. /\ domains \in Seq(DomainEntries) /\ NoDomainTwice(domains) /\ e.dominio \in Domains
      /\ \A d \in Domains : Cardinality(Of(d)) = CountOf(domains, d)
  BY DEF IInv, TypeOK, CountInv, DomainEntries, Emails
<1>3. /\ domains' \in Seq(DomainEntries) /\ NoDomainTwice(domains')
      /\ \A d : CountOf(domains', d) = IF d = e.dominio THEN CountOf(domains, d) + 1
                                                        ELSE CountOf(domains, d)
  BY <1>1, <1>2, CountedIs
<1>4. ASSUME NEW d \in Domains PROVE Cardinality(Of(d)') = CountOf(domains', d)
  <2>1. Fresh \notin Allocated /\ Allocated' = Allocated \cup {Fresh}
    BY CreateContacts
  <2>2. p_c'[Fresh].dominio = e.dominio
    <3>1. p_c'[Fresh] = [nome |-> n, local |-> e.local, dominio |-> e.dominio]
      BY CreateContacts
    <3>. QED
      BY <3>1
  <2>3. \A y \in Allocated : p_c'[y] = p_c[y]
    BY CreateContacts, <2>1 DEF Allocated
  <2>4. Of(d)' = IF d = e.dominio THEN Of(d) \cup {Fresh} ELSE Of(d)
    BY <2>1, <2>2, <2>3 DEF Of
  <2>5. Fresh \notin Of(d) /\ IsFiniteSet(Of(d))
    BY <2>1, AllocatedAre DEF Of, IInv
  <2>6. Cardinality(Of(d) \cup {Fresh}) = Cardinality(Of(d)) + 1
    BY <2>5, FS_AddElement
  <2>. QED
    BY <1>2, <1>3, <2>4, <2>6
<1>. QED
  BY <1>3, <1>4 DEF CountInv

LEMMA AddStep ==
  ASSUME IInv, NEW n \in Names, NEW e \in Emails, Adiciona_Contacto(n, e)
  PROVE  IInv'
<1>1. running' = running /\ running \in BOOLEAN
  BY DEF Adiciona_Contacto, IInv, TypeOK
<1>2. CASE nome_existe(n) = NULL /\ cria_contacto(n, e)
  <2>1. NameInv'
    <3>1. Allocated' = Allocated \cup {Fresh}
      BY <1>2, CreateContacts
    <3>2. p_c'[Fresh].nome = n
      <4>1. p_c'[Fresh] = [nome |-> n, local |-> e.local, dominio |-> e.dominio]
        BY <1>2, CreateContacts
      <4>. QED
        BY <4>1
    <3>3. \A y \in Allocated : p_c'[y] = p_c[y] /\ p_c[y].nome # n
      BY <1>2, CreateContacts DEF Allocated
    <3>. QED
      BY <3>1, <3>2, <3>3 DEF IInv, NameInv
  <2>2. ListInv'
    <3> DEFINE v == Append(Walk(head, next), Fresh)
    <3>1. Linear(v, head', next', prev', Allocated') /\ tail' = Fresh
      BY <1>2, CreateList
    <3>2. Walk(head', next') = v
      BY <3>1, WalkIs
    <3>3. /\ Walk(head, next) \in Seq(Nodes) /\ Fresh \in Nodes
          /\ Len(Walk(head, next)) \in Nat
      BY <1>2, WalksAre, CreateContacts, LenProperties DEF IInv
    <3>4. At(v, Len(v)) = Fresh
      BY <3>3, AppendProperties DEF At
    <3>. QED
      BY <3>1, <3>2, <3>4 DEF ListInv
  <2>3. FreeInv'
    <3>1. \A y \in Nodes \ Allocated' : next'[y] = NULL /\ prev'[y] = NULL
      BY <1>2, CreateList
    <3>2. \A y \in Nodes \ Allocated' : hnext'[y] = NULL /\ hprev'[y] = NULL
      BY <1>2, CreateChain
    <3>. QED
      BY <3>1, <3>2 DEF FreeInv
  <2>4. TypeOK'
    <3>1. p_c' \in [Nodes -> Contacto \cup {NULL}]
      BY <1>2, CreateContacts
    <3>2. /\ head' \in Pointers /\ tail' \in Pointers
          /\ next' \in [Nodes -> Pointers] /\ prev' \in [Nodes -> Pointers]
      BY <1>2, CreateList
    <3>3. /\ heads' \in [Keys -> Pointers]
          /\ hnext' \in [Nodes -> Pointers] /\ hprev' \in [Nodes -> Pointers]
      BY <1>2, CreateChain
    <3>4. domains' \in Seq(DomainEntries)
      BY <1>2, CreateCounts
    <3>. QED
      BY <1>1, <3>1, <3>2, <3>3, <3>4 DEF TypeOK, DomainEntries
  <2>. QED
    BY <1>2, <2>1, <2>2, <2>3, <2>4, CreateChain, CreateCounts DEF IInv
<1>3. CASE UNCHANGED <<p_c, list, chains, domains>>
  BY <1>1, <1>3 DEF IInv, TypeOK, ListInv, ChainInv, FreeInv, NameInv, CountInv,
                    Allocated, InKey, Of, list, chains
<1>. QED
  BY <1>2, <1>3 DEF Adiciona_Contacto

-----------------------------------------------------------------------------
\* Commands r and e: a contact leaves the book, or changes its domain.

\* Without a contact x, the counts are those of the list of domains in which
\* its domain counts one contact less.
LEMMA RestCounted ==
  ASSUME IInv, NEW x \in Allocated
  PROVE  LET rest == Uncounted(domains, p_c[x].dominio)
         IN  /\ rest \in Seq(DomainEntries) /\ NoDomainTwice(rest)
             /\ \A d \in Domains : Cardinality(Of(d) \ {x}) = CountOf(rest, d)
<1> DEFINE d0 == p_c[x].dominio
           rest == Uncounted(domains, d0)
<1>1. /\ domains \in Seq(DomainEntries) /\ NoDomainTwice(domains) /\ d0 \in Domains
      /\ \A d \in Domains : Cardinality(Of(d)) = CountOf(domains, d)
      /\ \A d : IsFiniteSet(Of(d))
  BY AllocatedAre DEF IInv, TypeOK, CountInv, DomainEntries
<1>2. \A d : x \in Of(d) <=> d = d0
  BY DEF Of
<1>3. CountOf(domains, d0) # 0
  <2>1. Cardinality(Of(d0)) # 0
    BY <1>1, <1>2, FS_EmptySet
  <2>. QED
    BY <1>1, <2>1
<1>4. /\ rest \in Seq(DomainEntries) /\ NoDomainTwice(rest)
      /\ \A d : CountOf(rest, d) = IF d = d0 THEN CountOf(domains, d) - 1
                                             ELSE CountOf(domains, d)
  BY <1>1, <1>3, UncountedIs
<1>5. ASSUME NEW d \in Domains PROVE Cardinality(Of(d) \ {x}) = CountOf(rest, d)
  <2>1. Cardinality(Of(d) \ {x})
          = IF x \in Of(d) THEN Cardinality(Of(d)) - 1 ELSE Cardinality(Of(d))
    BY <1>1, FS_RemoveElement
  <2>. QED
    BY <1>1, <1>2, <1>4, <2>1
<1>. QED
  BY <1>4, <1>5

\* The contact of a name, when the command finds it.
Gone(n, x) == x = nome_existe(n) /\ x # NULL /\ x \in Allocated /\ x \in Nodes /\ p_c[x].nome = n

LEMMA FoundIs ==
  ASSUME IInv, NEW n \in Names, nome_existe(n) # NULL
  PROVE  Gone(n, nome_existe(n))
BY Found, AllocatedAre DEF IInv, Gone

LEMMA BypassType ==
  ASSUME NEW step \in [Nodes -> Pointers], NEW back \in [Nodes -> Pointers], NEW x \in Nodes
  PROVE  Bypass(step, back, x) \in [Nodes -> Pointers]
BY DEF Bypass, Pointers

LEMMA UnlinkList ==
  ASSUME IInv, NEW x \in Allocated, Unlink(x), Allocated' = Allocated \ {x},
         NEW i \in 1 .. Len(Walk(head, next)), Walk(head, next)[i] = x
  PROVE  /\ Linear(RemoveAt(Walk(head, next), i), head', next', prev', Allocated')
         /\ ListInv'
         /\ head' \in Pointers /\ tail' \in Pointers
         /\ next' \in [Nodes -> Pointers] /\ prev' \in [Nodes -> Pointers]
         /\ \A y \in Nodes \ Allocated' : next'[y] = NULL /\ prev'[y] = NULL
<1> DEFINE w == Walk(head, next)
           v == RemoveAt(w, i)
<1>1. /\ Linear(w, head, next, prev, Allocated) /\ tail = At(w, Len(w))
      /\ next \in [Nodes -> Pointers] /\ prev \in [Nodes -> Pointers]
      /\ head \in Pointers /\ tail \in Pointers /\ x \in Nodes
  BY DEF IInv, ListInv, TypeOK, Allocated
<1>2. /\ next' = Bypass(next, prev, x) /\ prev' = Bypass(prev, next, x)
      /\ head' = IF prev[x] = NULL THEN next[x] ELSE head
      /\ tail' = IF next[x] = NULL THEN prev[x] ELSE tail
  BY DEF Unlink
<1>3. w \in Seq(Nodes) /\ Len(w) \in Nat /\ i \in 1 .. Len(w) /\ w[i] = x
  BY <1>1, LenProperties DEF Linear
<1>4. next[x] = At(w, i + 1) /\ prev[x] = At(w, i - 1)
  BY <1>1, <1>3 DEF Linear
<1> HIDE DEF w
<1>5. Linear(v, head', next', prev', Allocated')
  <2>1. Linear(v, IF prev[w[i]] = NULL THEN next[w[i]] ELSE head,
               Bypass(next, prev, w[i]), Bypass(prev, next, w[i]), Allocated \ {w[i]})
    BY <1>1, <1>3, RemoveLinear
  <2> HIDE DEF v
  <2>. QED
    BY <1>2, <1>3, <2>1
<1>6. /\ v \in Seq(Nodes) /\ Len(v) = Len(w) - 1
      /\ \A j \in 1 .. Len(w) - 1 : v[j] = IF j < i THEN w[j] ELSE w[j + 1]
  BY <1>3, RemoveAtIs
<1> HIDE DEF v
<1>7. tail' = At(v, Len(v))
  <2>1. CASE i = Len(w)
    <3>1. At(w, i + 1) = NULL /\ At(v, Len(v)) = At(w, i - 1)
      BY <1>3, <1>6, <2>1 DEF At
    <3>. QED
      BY <1>2, <1>4, <3>1
  <2>2. CASE i < Len(w)
    <3>1. At(w, i + 1) # NULL
      BY <1>3, <2>2, AtPointer
    <3>2. At(v, Len(v)) = At(w, Len(w))
      BY <1>3, <1>6, <2>2 DEF At
    <3>. QED
      BY <1>1, <1>2, <1>4, <3>1, <3>2
  <2>. QED
    BY <1>3, <2>1, <2>2
<1>8. Walk(head', next') = v
  BY <1>5, WalkIs
<1>9. ListInv'
  BY <1>5, <1>7, <1>8 DEF ListInv
<1>10. next' \in [Nodes -> Pointers] /\ prev' \in [Nodes -> Pointers]
  BY <1>1, <1>2, BypassType
<1>11. ASSUME NEW y \in Nodes \ Allocated' PROVE next'[y] = NULL /\ prev'[y] = NULL
  <2>1. CASE y = x
    BY <1>2, <2>1 DEF Bypass
  <2>2. CASE y # x
    <3>1. y \notin Allocated /\ next[y] = NULL /\ prev[y] = NULL
      BY <2>2 DEF IInv, FreeInv
    <3>2. \A j : At(w, j) \in Allocated \cup {NULL}
      BY <1>1 DEF Linear, At
    <3>3. y # NULL
      BY DEF ContactBookAssumption
    <3>4. y # next[x] /\ y # prev[x]
      BY <1>4, <3>1, <3>2, <3>3
    <3>. QED
      BY <1>2, <2>2, <3>1, <3>4 DEF Bypass
  <2>. QED
    BY <2>1, <2>2
<1>12. head' \in Pointers /\ tail' \in Pointers
  BY <1>1, <1>2
<1>. QED
  BY <1>5, <1>9, <1>10, <1>11, <1>12 DEF v, w

LEMMA UnlinkChain ==
  ASSUME IInv, NEW x \in Allocated, UnlinkFromChain(x, calc_key[p_c[x].nome]),
         \A k : InKey(k)' = InKey(k) \ {x}, Allocated' = Allocated \ {x}
  PROVE  /\ ChainInv'
         /\ heads' \in [Keys -> Pointers]
         /\ hnext' \in [Nodes -> Pointers] /\ hprev' \in [Nodes -> Pointers]
         /\ \A y \in Nodes \ Allocated' : hnext'[y] = NULL /\ hprev'[y] = NULL
<1> DEFINE key == calc_key[p_c[x].nome]
           w == Walk(heads[key], hnext)
<1>1. /\ key \in Keys /\ x \in InKey(key) /\ x \in Nodes
      /\ \A k : InKey(k) \subseteq Allocated
      /\ \A k : k # key => InKey(k) \cap InKey(key) = {}
  BY AllocatedAre DEF IInv, InKey
<1>2. /\ heads \in [Keys -> Pointers]
      /\ hnext \in [Nodes -> Pointers] /\ hprev \in [Nodes -> Pointers]
      /\ \A k \in Keys : Linear(Walk(heads[k], hnext), heads[k], hnext, hprev, InKey(k))
      /\ \A y \in Nodes \ Allocated : hnext[y] = NULL /\ hprev[y] = NULL
  BY DEF IInv, TypeOK, ChainInv, FreeInv
<1> HIDE DEF key
<1>3. /\ hnext' = Bypass(hnext, hprev, x) /\ hprev' = Bypass(hprev, hnext, x)
      /\ heads' = IF hprev[x] = NULL THEN [heads EXCEPT ![key] = hnext[x]] ELSE heads
  BY DEF UnlinkFromChain, key
<1>4. Linear(w, heads[key], hnext, hprev, InKey(key))
  BY <1>1, <1>2
<1> HIDE DEF w
<1>5. PICK i \in 1 .. Len(w) : w[i] = x
  BY <1>1, <1>4 DEF Linear
<1>6. hnext[x] = At(w, i + 1) /\ hprev[x] = At(w, i - 1)
  BY <1>4, <1>5 DEF Linear
<1>7. \A j : At(w, j) \in InKey(key) \cup {NULL}
  BY <1>4 DEF Linear, At
<1>8. \A y \in Nodes : y # NULL
  BY DEF ContactBookAssumption
<1>9. ASSUME NEW k \in Keys
      PROVE  \E v : Linear(v, heads'[k], hnext', hprev', InKey(k)')
  <2>1. CASE k = key
    <3>1. Linear(RemoveAt(w, i), IF hprev[w[i]] = NULL THEN hnext[w[i]] ELSE heads[key],
                 Bypass(hnext, hprev, w[i]), Bypass(hprev, hnext, w[i]), InKey(key) \ {w[i]})
      BY <1>2, <1>4, RemoveLinear
    <3>2. heads'[key] = IF hprev[x] = NULL THEN hnext[x] ELSE heads[key]
      BY <1>1, <1>2, <1>3
    <3>3. InKey(k)' = InKey(key) \ {x}
      BY <2>1
    <3>. QED
      BY <1>3, <1>5, <2>1, <3>1, <3>2, <3>3
  <2>2. CASE k # key
    <3>1. InKey(k)' = InKey(k) /\ heads'[k] = heads[k]
      BY <1>1, <1>2, <1>3, <2>2
    <3>2. ASSUME NEW y \in InKey(k) PROVE hnext'[y] = hnext[y] /\ hprev'[y] = hprev[y]
      <4>1. y \in Nodes /\ y \notin InKey(key) /\ y # x
        BY <1>1, <2>2 DEF InKey, Allocated
      <4>2. y # hnext[x] /\ y # hprev[x]
        BY <1>6, <1>7, <1>8, <4>1
      <4>. QED
        BY <1>3, <4>1, <4>2 DEF Bypass
    <3>3. Linear(Walk(heads[k], hnext), heads[k], hnext', hprev', InKey(k))
      BY <1>2, <3>2, FrameLinear
    <3>. QED
      BY <3>1, <3>3
  <2>. QED
    BY <2>1, <2>2
<1>10. ChainInv'
  BY <1>9, WalkIs DEF ChainInv
<1>11. hnext' \in [Nodes -> Pointers] /\ hprev' \in [Nodes -> Pointers]
  BY <1>1, <1>2, <1>3, BypassType
<1>12. heads' \in [Keys -> Pointers]
  BY <1>1, <1>2, <1>3
<1>13. ASSUME NEW y \in Nodes \ Allocated' PROVE hnext'[y] = NULL /\ hprev'[y] = NULL
  <2>1. CASE y = x
    BY <1>3, <2>1 DEF Bypass
  <2>2. CASE y # x
    <3>1. y \notin Allocated /\ hnext[y] = NULL /\ hprev[y] = NULL
      BY <1>2, <2>2
    <3>2. y # hnext[x] /\ y # hprev[x]
      BY <1>1, <1>6, <1>7, <1>8, <3>1
    <3>. QED
      BY <1>3, <2>2, <3>1, <3>2 DEF Bypass
  <2>. QED
    BY <2>1, <2>2
<1>. QED
  BY <1>10, <1>11, <1>12, <1>13

\* What the deletion of contact x leaves of the contacts.
LEMMA DeleteContacts ==
  ASSUME IInv, NEW x \in Allocated, p_c' = [p_c EXCEPT ![x] = NULL]
  PROVE  /\ p_c' \in [Nodes -> Contacto \cup {NULL}]
         /\ Allocated' = Allocated \ {x}
         /\ \A y \in Allocated' : p_c'[y] = p_c[y]
         /\ \A k : InKey(k)' = InKey(k) \ {x}
         /\ \A d : Of(d)' = Of(d) \ {x}
<1>1. p_c \in [Nodes -> Contacto \cup {NULL}] /\ x \in Nodes
  BY DEF IInv, TypeOK, Allocated
<1>2. Allocated' = Allocated \ {x} /\ \A y \in Allocated \ {x} : p_c'[y] = p_c[y]
  BY <1>1 DEF Allocated
<1>3. ASSUME NEW k PROVE InKey(k)' = InKey(k) \ {x}
  BY <1>2 DEF InKey
<1>4. ASSUME NEW d PROVE Of(d)' = Of(d) \ {x}
  BY <1>2 DEF Of
<1>. QED
  BY <1>1, <1>2, <1>3, <1>4

LEMMA DeleteStep ==
  ASSUME IInv, NEW n \in Names, Apaga_Contacto(n)
  PROVE  IInv'
<1> DEFINE x == nome_existe(n)
<1>1. running' = running /\ running \in BOOLEAN
  BY DEF Apaga_Contacto, IInv, TypeOK
<1>2. CASE UNCHANGED <<p_c, list, chains, domains>>
  BY <1>1, <1>2 DEF IInv, TypeOK, ListInv, ChainInv, FreeInv, NameInv, CountInv,
                    Allocated, InKey, Of, list, chains
<1>3. CASE x # NULL /\ ~UNCHANGED <<p_c, list, chains, domains>>
  <2>1. Gone(n, x)
    BY <1>3, FoundIs
  <2>2. /\ domains' = Uncounted(domains, p_c[x].dominio)
        /\ p_c' = [p_c EXCEPT ![x] = NULL]
        /\ Unlink(x)
        /\ UnlinkFromChain(x, calc_key[p_c[x].nome])
    BY <1>3, <2>1 DEF Apaga_Contacto, Gone
  <2>3. x \in Allocated /\ x \in Nodes
    BY <2>1 DEF Gone
  <2> HIDE DEF x
  <2>4. /\ p_c' \in [Nodes -> Contacto \cup {NULL}]
        /\ Allocated' = Allocated \ {x}
        /\ \A y \in Allocated' : p_c'[y] = p_c[y]
        /\ \A k : InKey(k)' = InKey(k) \ {x}
        /\ \A d : Of(d)' = Of(d) \ {x}
    BY <2>2, <2>3, DeleteContacts
  <2>5. PICK i \in 1 .. Len(Walk(head, next)) : Walk(head, next)[i] = x
    BY <2>3 DEF IInv, ListInv, Linear
  <2>6. /\ ListInv' /\ head' \in Pointers /\ tail' \in Pointers
        /\ next' \in [Nodes -> Pointers] /\ prev' \in [Nodes -> Pointers]
        /\ \A y \in Nodes \ Allocated' : next'[y] = NULL /\ prev'[y] = NULL
    BY <2>2, <2>3, <2>4, <2>5, UnlinkList
  <2>7. /\ ChainInv' /\ heads' \in [Keys -> Pointers]
        /\ hnext' \in [Nodes -> Pointers] /\ hprev' \in [Nodes -> Pointers]
        /\ \A y \in Nodes \ Allocated' : hnext'[y] = NULL /\ hprev'[y] = NULL
    BY <2>2, <2>3, <2>4, UnlinkChain
  <2>8. FreeInv'
    BY <2>6, <2>7 DEF FreeInv
  <2>9. NameInv'
    BY <2>4 DEF IInv, NameInv
  <2>10. CountInv' /\ domains' \in Seq(DomainEntries)
    <3>1. /\ domains' \in Seq(DomainEntries) /\ NoDomainTwice(domains')
          /\ \A d \in Domains : Cardinality(Of(d) \ {x}) = CountOf(domains', d)
      BY <2>2, <2>3, RestCounted
    <3>. QED
      BY <2>4, <3>1 DEF CountInv
  <2>11. TypeOK'
    BY <1>1, <2>4, <2>6, <2>7, <2>10 DEF TypeOK, DomainEntries
  <2>. QED
    BY <2>6, <2>7, <2>8, <2>9, <2>10, <2>11 DEF IInv
<1>. QED
  BY <1>2, <1>3 DEF Apaga_Contacto

LEMMA RecordOf ==
  ASSUME NEW r \in Contacto, NEW l, NEW d
  PROVE  [[r EXCEPT !.local = l] EXCEPT !.dominio = d]
           = [nome |-> r.nome, local |-> l, dominio |-> d]
<1> DEFINE s == [r EXCEPT !.local = l]
           t == [s EXCEPT !.dominio = d]
<1>1. DOMAIN r = {"nome", "local", "dominio"}
  BY DEF Contacto
<1>2. DOMAIN s = {"nome", "local", "dominio"} /\ s.nome = r.nome /\ s.local = l
  BY <1>1
<1> HIDE DEF s
<1>3. DOMAIN t = {"nome", "local", "dominio"} /\ t.nome = s.nome /\ t.local = s.local
      /\ t.dominio = d /\ t = [f \in DOMAIN t |-> t[f]]
  BY <1>2
<1> HIDE DEF t
<1>4. t = [nome |-> r.nome, local |-> l, dominio |-> d]
  BY <1>2, <1>3
<1>. QED
  BY <1>4 DEF s, t

\* What a change of e-mail changes.
LEMMA ChangeContacts ==
  ASSUME IInv, NEW x \in Allocated, NEW e \in Emails,
         p_c' = [p_c EXCEPT ![x].local = e.local, ![x].dominio = e.dominio]
  PROVE  /\ p_c' \in [Nodes -> Contacto \cup {NULL}]
         /\ Allocated' = Allocated
         /\ \A y \in Nodes : y # x => p_c'[y] = p_c[y]
         /\ p_c'[x] = [nome |-> p_c[x].nome, local |-> e.local, dominio |-> e.dominio]
<1>1. /\ p_c \in [Nodes -> Contacto \cup {NULL}] /\ x \in Nodes
      /\ p_c[x] \in Contacto
  BY AllocatedAre DEF IInv, TypeOK, Allocated
<1> DEFINE c == [nome |-> p_c[x].nome, local |-> e.local, dominio |-> e.dominio]
<1>2. c \in Contacto /\ c # NULL
  BY <1>1 DEF Contacto, Emails, ContactBookAssumption
<1>3. [[p_c[x] EXCEPT !.local = e.local] EXCEPT !.dominio = e.dominio] = c
  BY <1>1, RecordOf
<1>4. p_c' = [p_c EXCEPT ![x] = c]
  BY <1>1, <1>3
<1> HIDE DEF c
<1>5. /\ p_c' \in [Nodes -> Contacto \cup {NULL}] /\ p_c'[x] = c
      /\ \A y \in Nodes : y # x => p_c'[y] = p_c[y]
  BY <1>1, <1>2, <1>4
<1>6. Allocated' = Allocated
  BY <1>1, <1>2, <1>5 DEF Allocated
<1>. QED
  BY <1>5, <1>6 DEF c

LEMMA ChangeStep ==
  ASSUME IInv, NEW n \in Names, NEW e \in Emails, Altera_email(n, e)
  PROVE  IInv'
<1> DEFINE x == nome_existe(n)
<1>1. /\ running' = running /\ running \in BOOLEAN
      /\ head' = head /\ tail' = tail /\ next' = next /\ prev' = prev
      /\ heads' = heads /\ hnext' = hnext /\ hprev' = hprev
  BY DEF Altera_email, IInv, TypeOK, list, chains
<1>2. CASE UNCHANGED <<p_c, domains>>
  BY <1>1, <1>2 DEF IInv, TypeOK, ListInv, ChainInv, FreeInv, NameInv, CountInv,
                    Allocated, InKey, Of
<1>3. CASE x # NULL /\ ~UNCHANGED <<p_c, domains>>
  <2>1. Gone(n, x)
    BY <1>3, FoundIs
  <2>2. /\ domains' = Counted(Uncounted(domains, p_c[x].dominio), e.dominio)
        /\ p_c' = [p_c EXCEPT ![x].local = e.local, ![x].dominio = e.dominio]
    BY <1>3 DEF Altera_email
  <2>3. x \in Allocated /\ x \in Nodes
    BY <2>1 DEF Gone
  <2> HIDE DEF x
  <2>4. /\ p_c' \in [Nodes -> Contacto \cup {NULL}]
        /\ Allocated' = Allocated
        /\ \A y \in Nodes : y # x => p_c'[y] = p_c[y]
        /\ p_c'[x] = [nome |-> p_c[x].nome, local |-> e.local, dominio |-> e.dominio]
    BY <2>2, <2>3, ChangeContacts
  <2>5. \A y \in Allocated : p_c'[y].nome = p_c[y].nome
    BY <2>4 DEF Allocated
  <2>6. \A k : InKey(k)' = InKey(k)
    BY <2>4, <2>5 DEF InKey
  <2>7. ListInv'
    BY <1>1, <2>4 DEF IInv, ListInv
  <2>8. ChainInv'
    BY <1>1, <2>6 DEF IInv, ChainInv
  <2>9. FreeInv' /\ NameInv'
    BY <1>1, <2>4, <2>5 DEF IInv, FreeInv, NameInv
  <2>10. CountInv' /\ domains' \in Seq(DomainEntries)
    <3> DEFINE rest == Uncounted(domains, p_c[x].dominio)
    <3>1. /\ rest \in Seq(DomainEntries) /\ NoDomainTwice(rest)
          /\ \A d \in Domains : Cardinality(Of(d) \ {x}) = CountOf(rest, d)
      BY <2>3, RestCounted
    <3>2. domains' = Counted(rest, e.dominio) /\ e.dominio \in Domains
      BY <2>2 DEF Emails
    <3> HIDE DEF rest
    <3>3. /\ domains' \in Seq(DomainEntries) /\ NoDomainTwice(domains')
          /\ \A d : CountOf(domains', d) = IF d = e.dominio THEN CountOf(rest, d) + 1
                                                            ELSE CountOf(rest, d)
      BY <3>1, <3>2, CountedIs
    <3>4. ASSUME NEW d \in Domains PROVE Cardinality(Of(d)') = CountOf(domains', d)
      <4>1. Of(d)' = IF d = e.dominio THEN (Of(d) \ {x}) \cup {x} ELSE Of(d) \ {x}
        <5>1. \A y \in Allocated : y \in Nodes
          BY DEF Allocated
        <5>2. p_c'[x].dominio = e.dominio
          BY <2>4
        <5>3. \A y \in Allocated \ {x} : p_c'[y] = p_c[y]
          BY <2>4, <5>1
        <5>. QED
          BY <2>3, <2>4, <5>2, <5>3 DEF Of
      <4>2. IsFiniteSet(Of(d) \ {x}) /\ x \notin Of(d) \ {x}
        <5>1. IsFiniteSet(Of(d))
          BY AllocatedAre DEF IInv
        <5>. QED
          BY <5>1, FS_RemoveElement
      <4>3. Cardinality((Of(d) \ {x}) \cup {x}) = Cardinality(Of(d) \ {x}) + 1
        BY <4>2, FS_AddElement
      <4>. QED
        BY <3>1, <3>3, <4>1, <4>3
    <3>. QED
      BY <3>3, <3>4 DEF CountInv
  <2>11. TypeOK'
    BY <1>1, <2>4, <2>10 DEF TypeOK, DomainEntries, IInv
  <2>. QED
    BY <2>7, <2>8, <2>9, <2>10, <2>11 DEF IInv
<1>. QED
  BY <1>2, <1>3 DEF Altera_email

-----------------------------------------------------------------------------
\* The empty book, at the start and after command x.

Bare ==
  /\ running \in BOOLEAN
  /\ p_c = Nowhere
  /\ head = NULL /\ tail = NULL /\ next = Nowhere /\ prev = Nowhere
  /\ heads = [k \in Keys |-> NULL] /\ hnext = Nowhere /\ hprev = Nowhere
  /\ domains = <<>>

LEMMA BareInv == Bare => IInv /\ Walk(head, next) = <<>>
<1> SUFFICES ASSUME Bare PROVE IInv /\ Walk(head, next) = <<>>
  OBVIOUS
<1>1. Nowhere \in [Nodes -> Pointers] /\ Nowhere \in [Nodes -> Contacto \cup {NULL}]
      /\ \A x \in Nodes : Nowhere[x] = NULL
  BY DEF Nowhere, Pointers
<1>2. domains \in Seq(DomainEntries) /\ Len(domains) = 0 /\ DOMAIN domains = {}
  BY EmptySeq DEF Bare
<1>3. TypeOK
  BY <1>1, <1>2 DEF Bare, TypeOK, Pointers, DomainEntries
<1>4. Allocated = {} /\ \A k : InKey(k) = {} /\ \A d : Of(d) = {}
  BY <1>1 DEF Bare, Allocated, InKey, Of
<1>5. Linear(<<>>, head, next, prev, Allocated)
  BY <1>4, EmptyLinear DEF Bare
<1>6. Walk(head, next) = <<>>
  BY <1>5, WalkIs
<1>7. ListInv
  <2>1. At(<<>>, Len(<<>>)) = NULL
    BY EmptySeq DEF At
  <2>. QED
    BY <1>5, <1>6, <2>1 DEF ListInv, Bare
<1>8. ChainInv
  <2>1. ASSUME NEW k \in Keys
        PROVE  Linear(Walk(heads[k], hnext), heads[k], hnext, hprev, InKey(k))
    <3>1. Linear(<<>>, heads[k], hnext, hprev, InKey(k))
      BY <1>4, EmptyLinear DEF Bare
    <3>. QED
      BY <3>1, WalkIs
  <2>. QED
    BY <2>1 DEF ChainInv
<1>9. FreeInv /\ NameInv
  BY <1>1, <1>4 DEF Bare, FreeInv, NameInv
<1>10. CountInv
  <2>1. NoDomainTwice(domains)
    BY <1>2 DEF NoDomainTwice
  <2>2. ASSUME NEW d \in Domains PROVE Cardinality(Of(d)) = CountOf(domains, d)
    <3>1. CountOf(domains, d) = 0
      <4>1. ~\E i \in 1 .. Len(domains) : domains[i].dominio = d
        BY <1>2
      <4>. QED
        BY <1>2, <2>1, <4>1, CountOfIs
    <3>. QED
      BY <1>4, <3>1, FS_EmptySet
  <2>. QED
    BY <2>1, <2>2 DEF CountInv
<1>. QED
  BY <1>3, <1>6, <1>7, <1>8, <1>9, <1>10 DEF IInv

\* The list leads to every contact: none is left allocated.
LEMMA ExitBare ==
  ASSUME IInv, Liberta_mem
  PROVE  Bare'
<1>1. p_c' = [x \in Nodes |-> IF x \in ToSet(Walk(head, next)) THEN NULL ELSE p_c[x]]
  BY DEF Liberta_mem
<1>2. ToSet(Walk(head, next)) = Allocated
  <2>1. /\ DOMAIN Walk(head, next) = 1 .. Len(Walk(head, next))
        /\ \A y : y \in Allocated <=> \E i \in 1 .. Len(Walk(head, next)) :
                                        y = Walk(head, next)[i]
    BY LenProperties DEF IInv, ListInv, Linear
  <2>. QED
    BY <2>1 DEF ToSet
<1>3. p_c' = Nowhere
  BY <1>1, <1>2 DEF Nowhere, Allocated
<1>. QED
  BY <1>3 DEF Liberta_mem, Bare

LEMMA Initially == Init => Bare
BY DEF Init, Bare

LEMMA Inductive == IInv /\ [Next]_vars => IInv'
<1> SUFFICES ASSUME IInv, [Next]_vars PROVE IInv'
  OBVIOUS
<1>1. CASE UNCHANGED <<running, p_c, list, chains, domains>>
  BY <1>1 DEF IInv, TypeOK, ListInv, ChainInv, FreeInv, NameInv, CountInv,
              Allocated, InKey, Of, list, chains
<1>2. CASE \E n \in Names, e \in Emails : Adiciona_Contacto(n, e) \/ Altera_email(n, e)
  BY <1>2, AddStep, ChangeStep
<1>3. CASE \E n \in Names : Procura_Contacto(n) \/ Apaga_Contacto(n)
  <2>1. PICK n \in Names : Procura_Contacto(n) \/ Apaga_Contacto(n)
    BY <1>3
  <2>2. CASE Procura_Contacto(n)
    BY <1>1, <2>2 DEF Procura_Contacto
  <2>3. CASE Apaga_Contacto(n)
    BY <2>3, DeleteStep
  <2>. QED
    BY <2>1, <2>2, <2>3
<1>4. CASE \E d \in Domains : Num_Ocorrencias(d)
  BY <1>1, <1>4 DEF Num_Ocorrencias
<1>5. CASE Lista_Contactos
  BY <1>1, <1>5 DEF Lista_Contactos
<1>6. CASE Liberta_mem
  <2>1. Bare'
    BY <1>6, ExitBare
  <2>2. (Bare => IInv)'
    BY BareInv, PTL
  <2>. QED
    BY <2>1, <2>2
<1>7. CASE UNCHANGED vars
  BY <1>1, <1>7 DEF vars
<1>. QED
  BY <1>2, <1>3, <1>4, <1>5, <1>6, <1>7 DEF Next

LEMMA Always == Spec => []IInv
<1>1. Init => IInv
  BY Initially, BareInv
<1>. QED
  BY <1>1, Inductive, PTL DEF Spec

-----------------------------------------------------------------------------
\* The theorems.

\* A linked list as the property states it.
LEMMA LinkedList ==
  ASSUME NEW w, NEW start, NEW step, NEW back, NEW nodes,
         Linear(w, start, step, back, nodes)
  PROVE  Linked(w, back, nodes) /\ w \in Seq(Nodes)
<1>1. w \in Seq(Nodes) /\ DOMAIN w = 1 .. Len(w) /\ Len(w) \in Nat
  BY LenProperties DEF Linear
<1>2. ToSet(w) = nodes
  BY <1>1 DEF Linear, ToSet
<1>3. IsInjective(w)
  BY <1>1 DEF Linear, IsInjective
<1>4. ASSUME NEW i \in 1 .. Len(w)
      PROVE  back[w[i]] = IF i = 1 THEN NULL ELSE w[i - 1]
  <2>1. back[w[i]] = At(w, i - 1)
    BY DEF Linear
  <2>. QED
    BY <1>1, <2>1 DEF At
<1>. QED
  BY <1>1, <1>2, <1>3, <1>4 DEF Linked

LEMMA Intact == IInv => StructuresIntact
<1> SUFFICES ASSUME IInv PROVE StructuresIntact
  OBVIOUS
<1>1. ListIntact
  <2> DEFINE w == Walk(head, next)
  <2>1. Linear(w, head, next, prev, Allocated) /\ tail = At(w, Len(w))
    BY DEF IInv, ListInv
  <2>2. Linked(w, prev, Allocated) /\ w \in Seq(Nodes)
    BY <2>1, LinkedList
  <2> HIDE DEF w
  <2>3. tail = IF w = <<>> THEN NULL ELSE Last(w)
    <3>1. Len(w) \in Nat /\ (w # <<>> => Len(w) # 0) /\ (w = <<>> => Len(w) = 0)
      BY <2>2, EmptySeq, LenProperties
    <3>. QED
      BY <2>1, <3>1 DEF At, Last
  <2>. QED
    BY <2>2, <2>3 DEF ListIntact, w
<1>2. ChainsIntact
  <2>1. ASSUME NEW k \in Keys PROVE Linked(Walk(heads[k], hnext), hprev, InKey(k))
    BY LinkedList DEF IInv, ChainInv
  <2>. QED
    BY <2>1 DEF ChainsIntact, InKey
<1>3. DomainCounts
  BY DEF IInv, CountInv, NoDomainTwice, CountOf, Of, DomainCounts
<1>. QED
  BY <1>1, <1>2, <1>3 DEF StructuresIntact, IInv

\* After any sequence of commands the list, the chains of the hash table and
\* the counts of the domains are whole and agree on which contacts there are.
THEOREM StructuresStayIntact == Spec => []StructuresIntact
BY Always, Intact, PTL

-----------------------------------------------------------------------------
\* The program is an address book.

LEMMA ContactsAre ==
  ASSUME IInv
  PROVE  /\ Contacts \in Seq(Contacto) /\ Len(Contacts) = Len(Walk(head, next))
         /\ DOMAIN Contacts = 1 .. Len(Walk(head, next))
         /\ \A i \in 1 .. Len(Walk(head, next)) : Contacts[i] = p_c[Walk(head, next)[i]]
         /\ Contacts = [i \in DOMAIN Contacts |-> Contacts[i]]
<1> DEFINE w == Walk(head, next)
<1>1. /\ w \in Seq(Nodes) /\ DOMAIN w = 1 .. Len(w) /\ Len(w) \in Nat
      /\ \A x : x \in Allocated <=> \E i \in 1 .. Len(w) : x = w[i]
  BY LenProperties DEF IInv, ListInv, Linear
<1>2. \A i \in 1 .. Len(w) : p_c[w[i]] \in Contacto
  BY <1>1, AllocatedAre DEF IInv
<1>3. Contacts = [i \in 1 .. Len(w) |-> p_c[w[i]]]
  BY <1>1 DEF Contacts
<1> HIDE DEF w
<1>4. Contacts \in [1 .. Len(w) -> Contacto]
  BY <1>2, <1>3
<1>5. Contacts \in Seq(Contacto) /\ Len(Contacts) = Len(w)
  BY <1>1, <1>4
<1>. QED
  BY <1>1, <1>3, <1>4, <1>5 DEF w

\* The book has a contact of that name exactly when one is allocated.
LEMMA ExistsIs ==
  ASSUME IInv, NEW n
  PROVE  (\E i \in DOMAIN Contacts : Contacts[i].nome = n)
           <=> \E x \in Allocated : p_c[x].nome = n
<1>1. \A x : x \in Allocated <=> \E i \in 1 .. Len(Walk(head, next)) : x = Walk(head, next)[i]
  BY DEF IInv, ListInv, Linear
<1>. QED
  BY <1>1, ContactsAre

\* Where a contact that nome_existe finds is in the book.
LEMMA PlaceOf ==
  ASSUME IInv, NEW n \in Names, nome_existe(n) # NULL
  PROVE  \E i \in 1 .. Len(Walk(head, next)) :
           Walk(head, next)[i] = nome_existe(n) /\ Contacts[i] = p_c[nome_existe(n)]
<1>1. nome_existe(n) \in Allocated
  BY FoundIs DEF Gone
<1>2. PICK i \in 1 .. Len(Walk(head, next)) : Walk(head, next)[i] = nome_existe(n)
  BY <1>1 DEF IInv, ListInv, Linear
<1>. QED
  BY <1>2, ContactsAre

LEMMA NotThere ==
  ASSUME IInv, NEW n \in Names
  PROVE  nome_existe(n) = NULL <=> ~\E i \in DOMAIN Contacts : Contacts[i].nome = n
BY Found, ExistsIs DEF IInv

\* The same of the book after a step.
LEMMA ContactsNext ==
  ASSUME IInv', NEW v, Walk(head', next') = v
  PROVE  /\ Contacts' \in Seq(Contacto) /\ Len(Contacts') = Len(v)
         /\ DOMAIN Contacts' = 1 .. Len(v)
         /\ \A i \in 1 .. Len(v) : Contacts'[i] = p_c'[v[i]]
         /\ Contacts' = [i \in DOMAIN Contacts' |-> Contacts'[i]]
<1>1. (IInv => (/\ Contacts \in Seq(Contacto) /\ Len(Contacts) = Len(Walk(head, next))
                /\ DOMAIN Contacts = 1 .. Len(Walk(head, next))
                /\ \A i \in 1 .. Len(Walk(head, next)) : Contacts[i] = p_c[Walk(head, next)[i]]
                /\ Contacts = [i \in DOMAIN Contacts |-> Contacts[i]]))'
  BY ContactsAre, PTL
<1>. QED
  BY <1>1

\* Command a appends the contact.
LEMMA AddAppends ==
  ASSUME IInv, IInv', NEW n \in Names, NEW e \in Emails,
         nome_existe(n) = NULL, cria_contacto(n, e)
  PROVE  Contacts' = Append(Contacts, [nome |-> n, local |-> e.local, dominio |-> e.dominio])
<1> DEFINE w == Walk(head, next)
           v == Append(w, Fresh)
           c == [nome |-> n, local |-> e.local, dominio |-> e.dominio]
<1>1. /\ w \in Seq(Nodes) /\ Len(w) \in Nat /\ Fresh \in Nodes
      /\ \A i \in 1 .. Len(w) : w[i] \in Nodes /\ w[i] # Fresh
  <2>1. Fresh \in Nodes /\ Fresh \notin Allocated
    BY CreateContacts
  <2>2. /\ w \in Seq(Nodes)
        /\ \A x : x \in Allocated <=> \E i \in 1 .. Len(w) : x = w[i]
    BY DEF IInv, ListInv, Linear
  <2>. QED
    BY <2>1, <2>2, LenProperties, ElementOfSeq
<1>2. Walk(head', next') = v
  <2>1. Linear(v, head', next', prev', Allocated')
    BY CreateList
  <2>. QED
    BY <2>1, WalkIs
<1>3. /\ v \in Seq(Nodes) /\ Len(v) = Len(w) + 1 /\ v[Len(w) + 1] = Fresh
      /\ \A i \in 1 .. Len(w) : v[i] = w[i]
  BY <1>1, AppendProperties
<1>4. /\ Contacts \in Seq(Contacto) /\ Len(Contacts) = Len(w)
      /\ \A i \in 1 .. Len(w) : Contacts[i] = p_c[w[i]]
  BY ContactsAre
<1>5. /\ Contacts' \in Seq(Contacto) /\ Len(Contacts') = Len(v)
      /\ \A i \in 1 .. Len(v) : Contacts'[i] = p_c'[v[i]]
  BY <1>2, ContactsNext
<1>6. c \in Contacto
  BY DEF Contacto, Emails
<1>7. p_c'[Fresh] = c /\ \A y \in Nodes \ {Fresh} : p_c'[y] = p_c[y]
  BY CreateContacts
<1> HIDE DEF w, v, c
<1>8. /\ Append(Contacts, c) \in Seq(Contacto) /\ Len(Append(Contacts, c)) = Len(w) + 1
      /\ \A i \in 1 .. Len(w) : Append(Contacts, c)[i] = Contacts[i]
      /\ Append(Contacts, c)[Len(w) + 1] = c
  BY <1>4, <1>6, AppendProperties
<1>9. ASSUME NEW i \in 1 .. Len(Contacts') PROVE Contacts'[i] = Append(Contacts, c)[i]
  <2>1. CASE i \in 1 .. Len(w)
    <3>1. v[i] = w[i] /\ w[i] \in Nodes \ {Fresh}
      BY <1>1, <1>3, <2>1
    <3>2. i \in 1 .. Len(v)
      BY <1>1, <1>3, <2>1
    <3>3. Contacts'[i] = p_c'[v[i]]
      BY <1>5, <3>2
    <3>4. p_c'[v[i]] = p_c[w[i]]
      BY <1>7, <3>1
    <3>5. Append(Contacts, c)[i] = p_c[w[i]]
      BY <1>4, <1>8, <2>1
    <3>. QED
      BY <3>3, <3>4, <3>5
  <2>2. CASE i = Len(w) + 1
    <3>1. v[i] = Fresh /\ i \in 1 .. Len(v)
      BY <1>1, <1>3, <2>2
    <3>2. Contacts'[i] = p_c'[Fresh]
      BY <1>5, <3>1
    <3>3. Append(Contacts, c)[i] = c
      BY <1>8, <2>2
    <3>. QED
      BY <1>7, <3>2, <3>3
  <2>3. i \in 1 .. Len(w) \/ i = Len(w) + 1
    <3>1. Len(Contacts') = Len(w) + 1 /\ Len(w) \in Nat
      BY <1>1, <1>3, <1>5
    <3>. QED
      BY <3>1
  <2>. QED
    BY <2>1, <2>2, <2>3
<1>10. Contacts' = Append(Contacts, c)
  BY <1>3, <1>5, <1>8, <1>9, SeqEqual
<1>. QED
  BY <1>10 DEF c

LEMMA AddIsAdd ==
  ASSUME IInv, IInv', NEW n \in Names, NEW e \in Emails, Adiciona_Contacto(n, e)
  PROVE  Book!Add(n, e)
<1>1. CASE nome_existe(n) = NULL /\ cria_contacto(n, e) /\ reply' = <<>>
  <2>1. Contacts' = Append(Contacts, [nome |-> n, local |-> e.local, dominio |-> e.dominio])
    BY <1>1, AddAppends
  <2>2. ~\E i \in DOMAIN Contacts : Contacts[i].nome = n
    BY <1>1, NotThere
  <2>. QED
    BY <1>1, <2>1, <2>2 DEF Book!Add, Book!Exists, Book!ContactOf
<1>2. CASE /\ nome_existe(n) # NULL /\ reply' = Error("Nome existente.")
           /\ UNCHANGED <<p_c, list, chains, domains>>
  <2>1. \E i \in DOMAIN Contacts : Contacts[i].nome = n
    BY <1>2, NotThere
  <2>2. Contacts' = Contacts
    BY <1>2 DEF Contacts, list
  <2>. QED
    BY <1>2, <2>1, <2>2 DEF Book!Add, Book!Exists, Book!Error, Error
<1>. QED
  BY <1>1, <1>2 DEF Adiciona_Contacto

\* Command r takes the contact out.
LEMMA DeleteIsDelete ==
  ASSUME IInv, IInv', NEW n \in Names, Apaga_Contacto(n)
  PROVE  Book!Delete(n)
<1> DEFINE x == nome_existe(n)
           w == Walk(head, next)
<1>1. CASE x = NULL /\ reply' = Error("Nome inexistente.") /\ UNCHANGED <<p_c, list>>
  <2>1. ~\E i \in DOMAIN Contacts : Contacts[i].nome = n
    BY <1>1, NotThere
  <2>2. Contacts' = Contacts
    BY <1>1 DEF Contacts, list
  <2>. QED
    BY <1>1, <2>1, <2>2 DEF Book!Delete, Book!Exists, Book!Error, Error
<1>2. CASE x # NULL /\ p_c' = [p_c EXCEPT ![x] = NULL] /\ Unlink(x) /\ reply' = <<>>
  <2>1. x \in Allocated /\ p_c[x].nome = n
    BY <1>2, FoundIs DEF Gone
  <2>2. PICK i \in 1 .. Len(w) : w[i] = x /\ Contacts[i] = p_c[x]
    BY <1>2, PlaceOf
  <2> HIDE DEF x
  <2>3. Allocated' = Allocated \ {x} /\ \A y \in Allocated' : p_c'[y] = p_c[y]
    BY <1>2, <2>1, DeleteContacts
  <2> DEFINE v == RemoveAt(w, i)
             c == RemoveAt(Contacts, i)
  <2>4. Linear(v, head', next', prev', Allocated')
    BY <1>2, <2>1, <2>2, <2>3, UnlinkList
  <2>5. Walk(head', next') = v
    BY <2>4, WalkIs
  <2>6. /\ Contacts' \in Seq(Contacto) /\ Len(Contacts') = Len(v)
        /\ \A j \in 1 .. Len(v) : Contacts'[j] = p_c'[v[j]]
    BY <2>5, ContactsNext
  <2>7. /\ w \in Seq(Nodes) /\ Len(w) \in Nat
        /\ Contacts \in Seq(Contacto) /\ Len(Contacts) = Len(w)
        /\ \A j \in 1 .. Len(w) : Contacts[j] = p_c[w[j]]
    BY ContactsAre, WalksAre, LenProperties DEF IInv
  <2> HIDE DEF w
  <2>8. /\ Len(v) = Len(w) - 1
        /\ \A j \in 1 .. Len(w) - 1 : v[j] = IF j < i THEN w[j] ELSE w[j + 1]
    BY <2>7, RemoveAtIs
  <2>9. /\ c \in Seq(Contacto) /\ Len(c) = Len(w) - 1
        /\ \A j \in 1 .. Len(w) - 1 : c[j] = IF j < i THEN Contacts[j] ELSE Contacts[j + 1]
    <3>1. i \in 1 .. Len(Contacts)
      BY <2>7
    <3>2. /\ c \in Seq(Contacto) /\ Len(c) = Len(Contacts) - 1
          /\ \A j \in 1 .. Len(Contacts) - 1 :
               c[j] = IF j < i THEN Contacts[j] ELSE Contacts[j + 1]
      BY <2>7, <3>1, RemoveAtIs
    <3> HIDE DEF c
    <3>. QED
      BY <2>7, <3>2
  <2>10. ASSUME NEW j \in 1 .. Len(Contacts') PROVE Contacts'[j] = c[j]
    <3>1. j \in 1 .. Len(v) /\ j \in 1 .. Len(w) - 1
      BY <2>6, <2>8
    <3>2. v[j] \in Allocated'
      BY <2>4, <3>1 DEF Linear
    <3>3. Contacts'[j] = p_c[v[j]]
      BY <2>3, <2>6, <3>1, <3>2
    <3>4. c[j] = p_c[v[j]]
      <4> HIDE DEF v, c
      <4>1. CASE j < i
        <5>1. v[j] = w[j] /\ c[j] = Contacts[j] /\ j \in 1 .. Len(w)
          BY <2>7, <2>8, <2>9, <3>1, <4>1
        <5>. QED
          BY <2>7, <5>1
      <4>2. CASE ~(j < i)
        <5>1. v[j] = w[j + 1] /\ c[j] = Contacts[j + 1] /\ j + 1 \in 1 .. Len(w)
          BY <2>7, <2>8, <2>9, <3>1, <4>2
        <5>. QED
          BY <2>7, <5>1
      <4>. QED
        BY <4>1, <4>2
    <3>. QED
      BY <3>3, <3>4
  <2> HIDE DEF v, c
  <2>11. Contacts' = c
    <3>1. Len(Contacts') = Len(c)
      BY <2>6, <2>8, <2>9
    <3>. QED
      BY <2>6, <2>9, <2>10, <3>1, SeqEqual
  <2>12. i \in DOMAIN Contacts /\ Contacts[i].nome = n
    <3>1. i \in DOMAIN Contacts
      BY ContactsAre DEF w
    <3>. QED
      BY <2>1, <2>2, <3>1
  <2>13. c = Book!RemoveAt(Contacts, i)
    BY DEF c, RemoveAt, Book!RemoveAt
  <2>. QED
    BY <1>2, <2>11, <2>12, <2>13 DEF Book!Delete
<1>. QED
  BY <1>1, <1>2 DEF Apaga_Contacto

\* Command e changes the one contact of that name, if there is one.
LEMMA ChangeIsChange ==
  ASSUME IInv, IInv', NEW n \in Names, NEW e \in Emails, Altera_email(n, e)
  PROVE  Book!Change(n, e)
<1> DEFINE x == nome_existe(n)
           w == Walk(head, next)
           c == [nome |-> n, local |-> e.local, dominio |-> e.dominio]
           new == [i \in DOMAIN Contacts |-> IF Contacts[i].nome = n THEN c ELSE Contacts[i]]
<1>1. Walk(head', next') = w
  BY DEF Altera_email, list
<1>2. /\ DOMAIN Contacts = 1 .. Len(w)
      /\ \A i \in 1 .. Len(w) : Contacts[i] = p_c[w[i]]
      /\ Contacts = [i \in DOMAIN Contacts |-> Contacts[i]]
  BY ContactsAre
<1>3. /\ DOMAIN Contacts' = 1 .. Len(w)
      /\ \A i \in 1 .. Len(w) : Contacts'[i] = p_c'[w[i]]
      /\ Contacts' = [i \in DOMAIN Contacts' |-> Contacts'[i]]
  BY <1>1, ContactsNext
<1>4. \A i \in 1 .. Len(w) : w[i] \in Allocated
  BY DEF IInv, ListInv, Linear
<1>5. CASE x = NULL /\ reply' = Error("Nome inexistente.") /\ UNCHANGED p_c
  <2>1. ~\E i \in DOMAIN Contacts : Contacts[i].nome = n
    BY <1>5, NotThere
  <2>2. \A i \in 1 .. Len(w) : Contacts'[i] = Contacts[i]
    BY <1>2, <1>3, <1>5
  <2>3. Contacts' = new
    BY <1>2, <1>3, <2>1, <2>2
  <2>. QED
    BY <1>5, <2>1, <2>3 DEF Book!Change, Book!Exists, Book!ContactOf, Book!Error, Error
<1>6. CASE /\ x # NULL /\ reply' = <<>>
           /\ p_c' = [p_c EXCEPT ![x].local = e.local, ![x].dominio = e.dominio]
  <2>1. x \in Allocated /\ p_c[x].nome = n
    BY <1>6, FoundIs DEF Gone
  <2>2. \E i \in DOMAIN Contacts : Contacts[i].nome = n
    BY <1>6, NotThere
  <2> HIDE DEF x
  <2>3. p_c'[x] = c
    <3>1. p_c'[x] = [nome |-> p_c[x].nome, local |-> e.local, dominio |-> e.dominio]
      BY <1>6, <2>1, ChangeContacts
    <3>. QED
      BY <2>1, <3>1
  <2>4. \A y \in Allocated : y # x => p_c'[y] = p_c[y]
    <3>1. \A y \in Nodes : y # x => p_c'[y] = p_c[y]
      BY <1>6, <2>1, ChangeContacts
    <3>. QED
      BY <3>1 DEF Allocated
  <2>5. \A y \in Allocated : p_c[y].nome = n <=> y = x
    BY <2>1 DEF IInv, NameInv
  <2> HIDE DEF c, w
  <2>6. ASSUME NEW i \in 1 .. Len(w)
        PROVE  Contacts'[i] = IF Contacts[i].nome = n THEN c ELSE Contacts[i]
    <3>1. Contacts[i] = p_c[w[i]] /\ Contacts'[i] = p_c'[w[i]] /\ w[i] \in Allocated
      BY <1>2, <1>3, <1>4
    <3>. QED
      BY <2>3, <2>4, <2>5, <3>1
  <2>7. Contacts' = new
    BY <1>2, <1>3, <2>6
  <2>. QED
    BY <1>6, <2>2, <2>7 DEF Book!Change, Book!Exists, Book!ContactOf, c
<1>. QED
  BY <1>5, <1>6 DEF Altera_email

\* Command p answers with that contact.
LEMMA FindIsFind ==
  ASSUME IInv, NEW n \in Names, Procura_Contacto(n)
  PROVE  Book!Find(n)
<1>1. Contacts' = Contacts
  BY DEF Procura_Contacto, Contacts, list
<1>2. CASE nome_existe(n) = NULL
  <2>1. reply' = Error("Nome inexistente.")
    BY <1>2 DEF Procura_Contacto
  <2>2. ~\E i \in DOMAIN Contacts : Contacts[i].nome = n
    BY <1>2, NotThere
  <2>. QED
    BY <1>1, <2>1, <2>2 DEF Book!Find, Book!Exists, Book!Error, Error
<1>3. CASE nome_existe(n) # NULL
  <2>1. reply' = <<p_c[nome_existe(n)]>>
    BY <1>3 DEF Procura_Contacto
  <2>2. p_c[nome_existe(n)].nome = n
    BY <1>3, FoundIs DEF Gone
  <2>3. PICK i \in DOMAIN Contacts : Contacts[i] = p_c[nome_existe(n)]
    BY <1>3, PlaceOf, ContactsAre
  <2>. QED
    BY <1>1, <2>1, <2>2, <2>3 DEF Book!Find
<1>. QED
  BY <1>2, <1>3

\* Command c answers from the list of domains what the book would.
LEMMA CountIsCount ==
  ASSUME IInv, NEW d \in Domains, Num_Ocorrencias(d)
  PROVE  Book!Count(d)
<1> DEFINE w == Walk(head, next)
           places == {i \in DOMAIN Contacts : Contacts[i].dominio = d}
           f == [i \in places |-> w[i]]
<1>1. Contacts' = Contacts
  BY DEF Num_Ocorrencias, Contacts, list
<1>2. reply' = <<[num_oc |-> CountOf(domains, d)]>>
  BY DEF Num_Ocorrencias, CountOf
<1>3. CountOf(domains, d) = Cardinality(Of(d))
  BY DEF IInv, CountInv
<1>4. /\ DOMAIN Contacts = 1 .. Len(w) /\ Len(w) \in Nat
      /\ \A i \in 1 .. Len(w) : Contacts[i] = p_c[w[i]]
  BY ContactsAre, WalksAre, LenProperties DEF IInv
<1>5. /\ \A i, j \in 1 .. Len(w) : w[i] = w[j] => i = j
      /\ \A x : x \in Allocated <=> \E i \in 1 .. Len(w) : x = w[i]
  BY DEF IInv, ListInv, Linear
<1>6. IsFiniteSet(places)
  <2>1. places \subseteq 1 .. Len(w)
    BY <1>4
  <2>2. IsFiniteSet(1 .. Len(w))
    <3>1. 1 \in Int /\ Len(w) \in Int
      BY <1>4
    <3>. QED
      BY <3>1, FS_Interval
  <2> HIDE DEF places
  <2>. QED
    BY <2>1, <2>2, FS_Subset
<1> HIDE DEF w
<1>7. /\ \A i \in places : w[i] \in Of(d)
      /\ \A i, j \in places : w[i] = w[j] => i = j
      /\ \A x \in Of(d) : \E i \in places : w[i] = x
  BY <1>4, <1>5 DEF Of
<1>8. ExistsBijection(places, Of(d))
  <2> HIDE DEF places
  <2>1. /\ f \in [places -> Of(d)] /\ DOMAIN f = places
        /\ \A i, j \in places : f[i] = f[j] => i = j
        /\ \A x \in Of(d) : \E i \in places : f[i] = x
    BY <1>7
  <2> HIDE DEF f
  <2>2. f \in Injection(places, Of(d))
    BY <2>1, Zenon DEF Injection, IsInjective
  <2>3. f \in Surjection(places, Of(d))
    BY <2>1 DEF Surjection
  <2>. QED
    BY <2>2, <2>3 DEF Bijection, ExistsBijection
<1>9. Cardinality(places) = Cardinality(Of(d))
  <2> HIDE DEF places
  <2>. QED
    BY <1>6, <1>8, FS_Bijection
<1>10. CountOf(domains, d) = Cardinality({i \in DOMAIN Contacts : Contacts[i].dominio = d})
  BY <1>3, <1>9, Zenon
<1>11. \A S : Book!Cardinality(S) = Cardinality(S)
  BY Zenon DEF Cardinality, Book!Cardinality
<1>. QED
  BY <1>1, <1>2, <1>10, <1>11, Zenon DEF Book!Count

LEMMA StepMaps ==
  ASSUME IInv, IInv', [Next]_vars
  PROVE  [Book!Next]_(Book!vars)
<1>1. CASE \E n \in Names, e \in Emails : Adiciona_Contacto(n, e) \/ Altera_email(n, e)
  <2>1. PICK n \in Names, e \in Emails : Adiciona_Contacto(n, e) \/ Altera_email(n, e)
    BY <1>1
  <2>2. running /\ running' = running /\ n \in Names /\ e \in Book!Emails
    BY <2>1 DEF Adiciona_Contacto, Altera_email, Emails, Book!Emails
  <2>3. Book!Add(n, e) \/ Book!Change(n, e)
    BY <2>1, AddIsAdd, ChangeIsChange
  <2>. QED
    BY <2>2, <2>3 DEF Book!Next, Book!Command
<1>2. CASE \E n \in Names : Procura_Contacto(n) \/ Apaga_Contacto(n)
  <2>1. PICK n \in Names : Procura_Contacto(n) \/ Apaga_Contacto(n)
    BY <1>2
  <2>2. running /\ running' = running
    BY <2>1 DEF Procura_Contacto, Apaga_Contacto
  <2>3. Book!Delete(n) \/ Book!Find(n)
    BY <2>1, DeleteIsDelete, FindIsFind
  <2>. QED
    BY <2>2, <2>3 DEF Book!Next, Book!Command
<1>3. CASE \E d \in Domains : Num_Ocorrencias(d)
  <2>1. PICK d \in Domains : Num_Ocorrencias(d)
    BY <1>3
  <2>2. running /\ running' = running
    BY <2>1 DEF Num_Ocorrencias
  <2>3. Book!Count(d)
    BY <2>1, CountIsCount
  <2>. QED
    BY <2>2, <2>3 DEF Book!Next, Book!Command
<1>4. CASE Lista_Contactos
  <2>1. /\ running /\ running' = running /\ reply' = Contacts /\ Contacts' = Contacts
    BY <1>4 DEF Lista_Contactos, Contacts, list
  <2>. QED
    BY <2>1 DEF Book!Next, Book!Command, Book!List
<1>5. CASE Liberta_mem
  <2>1. running /\ running' = FALSE /\ reply' = <<>>
    BY <1>5 DEF Liberta_mem
  <2>2. Walk(head', next') = <<>>
    <3>1. Bare'
      BY <1>5, ExitBare
    <3>2. (Bare => Walk(head, next) = <<>>)'
      BY BareInv, PTL
    <3>. QED
      BY <3>1, <3>2
  <2>3. Contacts' = <<>>
    <3>1. Contacts' \in Seq(Contacto) /\ Len(Contacts') = 0
      BY <2>2, ContactsNext, EmptySeq
    <3>. QED
      BY <3>1, EmptySeq
  <2>. QED
    BY <2>1, <2>3 DEF Book!Next, Book!Exit
<1>6. CASE UNCHANGED vars
  BY <1>6 DEF vars, list, Book!vars, Contacts
<1>. QED
  BY <1>1, <1>2, <1>3, <1>4, <1>5, <1>6 DEF Next

\* Every command is answered as the book of contacts promises: the list, the
\* hash table and the list of domains never tell on each other.
THEOREM ImplementsBook == Spec => ImplementsAddressBook
<1>1. Init => Book!Init
  <2>1. Init => IInv /\ Walk(head, next) = <<>>
    BY Initially, BareInv
  <2>2. Init => Contacts = <<>>
    <3>1. SUFFICES ASSUME Init PROVE Contacts = <<>>
      OBVIOUS
    <3>2. Contacts \in Seq(Contacto) /\ Len(Contacts) = 0
      BY <2>1, <3>1, ContactsAre, EmptySeq
    <3>. QED
      BY <3>2, EmptySeq
  <2>. QED
    BY <2>2 DEF Init, Book!Init
<1>2. IInv /\ IInv' /\ [Next]_vars => [Book!Next]_(Book!vars)
  BY StepMaps
<1>. QED
  BY <1>1, <1>2, Always, PTL DEF Spec, ImplementsAddressBook, Book!Spec
=============================================================================
