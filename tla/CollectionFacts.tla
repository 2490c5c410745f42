-------------------------- MODULE CollectionFacts --------------------------
(***************************************************************************)
(* Facts about the two kinds of collections that the models of the runtime  *)
(* are built from: lists without duplicates (linked lists, queues), and     *)
(* finite sets of things that have a size in bytes.                         *)
(***************************************************************************)
EXTENDS Integers, FiniteSets, SequencesExt, SequenceTheorems, FiniteSetTheorems, TLAPS

(* The elements of a list are the values at its positions.                  *)
LEMMA ElementsOf ==
  ASSUME NEW S, NEW s \in Seq(S)
  PROVE  /\ ToSet(s) \subseteq S
         /\ \A x : x \in ToSet(s) <=> \E i \in 1 .. Len(s) : s[i] = x
  BY LenProperties, ElementOfSeq DEF ToSet

(* Appending adds one element, and no duplicate if it is a new one.         *)
LEMMA AppendSet ==
  ASSUME NEW S, NEW s \in Seq(S), NEW x \in S
  PROVE  /\ Append(s, x) \in Seq(S)
         /\ ToSet(Append(s, x)) = ToSet(s) \cup {x}
         /\ IsInjective(s) /\ x \notin ToSet(s) => IsInjective(Append(s, x))
  <1> DEFINE t == Append(s, x)
  <1>1. t \in Seq(S) /\ Len(t) = Len(s) + 1 /\ Len(s) \in Nat
        /\ DOMAIN t = 1 .. Len(s) + 1 /\ DOMAIN s = 1 .. Len(s)
        /\ (\A i \in 1 .. Len(s) : t[i] = s[i]) /\ t[Len(s) + 1] = x
    BY AppendProperties, LenProperties
  <1> HIDE DEF t
  <1>2. ToSet(t) = ToSet(s) \cup {x}
    BY <1>1 DEF ToSet
  <1>3. IsInjective(s) /\ x \notin ToSet(s) => IsInjective(t)
    BY <1>1 DEF ToSet, IsInjective
  <1> QED BY <1>1, <1>2, <1>3 DEF t

(* Leaving out position n of a list, by positions only: the shape shared by   *)
(* erasing in the middle and popping the front.                              *)
LEMMA SkipSet ==
  ASSUME NEW s, NEW t, NEW m \in Nat, NEW n \in 1 .. m,
         DOMAIN s = 1 .. m, DOMAIN t = 1 .. m - 1,
         \A i \in 1 .. m - 1 : t[i] = s[IF i < n THEN i ELSE i + 1]
  PROVE  /\ ToSet(t) \subseteq ToSet(s) /\ ToSet(s) \subseteq ToSet(t) \cup {s[n]}
         /\ s[n] \in ToSet(s)
         /\ IsInjective(s) => ToSet(t) = ToSet(s) \ {s[n]} /\ IsInjective(t)
  <1> DEFINE up(i) == IF i < n THEN i ELSE i + 1
  <1>1. \A i \in 1 .. m - 1 : up(i) \in 1 .. m /\ up(i) # n
    OBVIOUS
  <1>2. \A i, j \in 1 .. m - 1 : up(i) = up(j) => i = j
    OBVIOUS
  <1>3. \A i \in 1 .. m : i # n => \E j \in 1 .. m - 1 : up(j) = i
    <2> SUFFICES ASSUME NEW i \in 1 .. m, i # n
                 PROVE  \E j \in 1 .. m - 1 : up(j) = i
      OBVIOUS
    <2>1. CASE i < n
      <3>1. i \in 1 .. m - 1 /\ up(i) = i
        BY <2>1
      <3> QED BY <3>1
    <2>2. CASE i > n
      <3>1. i - 1 \in 1 .. m - 1 /\ up(i - 1) = i
        BY <2>2
      <3> QED BY <3>1
    <2> QED BY <2>1, <2>2
  <1>4. \A i \in 1 .. m - 1 : t[i] = s[up(i)]
    OBVIOUS
  <1> HIDE DEF up
  <1>5. ToSet(t) \subseteq ToSet(s) /\ s[n] \in ToSet(s)
    <2>1. ASSUME NEW i \in 1 .. m - 1
          PROVE  t[i] \in ToSet(s)
      <3>1. up(i) \in DOMAIN s /\ t[i] = s[up(i)]
        BY <1>1, <1>4
      <3> QED BY <3>1 DEF ToSet
    <2> QED BY <2>1 DEF ToSet
  <1>6. ToSet(s) \subseteq ToSet(t) \cup {s[n]}
    <2>1. ASSUME NEW i \in 1 .. m, i # n
          PROVE  s[i] \in ToSet(t)
      <3>1. PICK j \in 1 .. m - 1 : up(j) = i
        BY <1>3, <2>1
      <3>2. t[j] = s[i]
        BY <3>1, <1>4
      <3> QED BY <3>2 DEF ToSet
    <2> QED BY <2>1 DEF ToSet
  <1>7. ASSUME IsInjective(s)
        PROVE  ToSet(t) = ToSet(s) \ {s[n]} /\ IsInjective(t)
    <2>1. ASSUME NEW i \in 1 .. m - 1, NEW j \in 1 .. m - 1, t[i] = t[j]
          PROVE  i = j
      <3>1. s[up(i)] = s[up(j)] /\ up(i) \in DOMAIN s /\ up(j) \in DOMAIN s
        BY <1>1, <1>4, <2>1
      <3>2. up(i) = up(j)
        BY <1>7, <3>1 DEF IsInjective
      <3> QED BY <3>2, <1>2
    <2>2. s[n] \notin ToSet(t)
      <3> SUFFICES ASSUME NEW i \in 1 .. m - 1, t[i] = s[n] PROVE FALSE
        BY DEF ToSet
      <3>1. s[up(i)] = s[n] /\ up(i) \in DOMAIN s /\ n \in DOMAIN s /\ up(i) # n
        BY <1>1, <1>4
      <3> QED BY <1>7, <3>1 DEF IsInjective
    <2>3. IsInjective(t)
      BY <2>1 DEF IsInjective
    <2> QED BY <2>2, <2>3, <1>5, <1>6
  <1> QED BY <1>5, <1>6, <1>7

(* Erasing an element of a list without duplicates removes that element and  *)
(* nothing else.                                                             *)
LEMMA RemoveAtSet ==
  ASSUME NEW S, NEW s \in Seq(S), NEW n \in 1 .. Len(s)
  PROVE  /\ RemoveAt(s, n) \in Seq(S)
         /\ Len(RemoveAt(s, n)) = Len(s) - 1
         /\ ToSet(RemoveAt(s, n)) \subseteq ToSet(s)
         /\ ToSet(s) \subseteq ToSet(RemoveAt(s, n)) \cup {s[n]}
         /\ s[n] \in ToSet(s)
         /\ IsInjective(s) => /\ ToSet(RemoveAt(s, n)) = ToSet(s) \ {s[n]}
                              /\ IsInjective(RemoveAt(s, n))
  <1> DEFINE a == SubSeq(s, 1, n - 1)
             b == SubSeq(s, n + 1, Len(s))
             t == RemoveAt(s, n)
  <1>1. /\ Len(s) \in Nat /\ n \in Nat /\ 1 <= n /\ n <= Len(s)
        /\ DOMAIN s = 1 .. Len(s)
        /\ \A i \in 1 .. Len(s) : s[i] \in S
    BY LenProperties, ElementOfSeq
  <1>2. /\ a \in Seq(S) /\ Len(a) = n - 1
        /\ \A i \in 1 .. n - 1 : a[i] = s[i]
    <2>1. \A i \in 1 .. n - 1 : s[i] \in S
      BY <1>1
    <2>2. /\ a \in Seq(S) /\ Len(a) = IF 1 <= n - 1 THEN (n - 1) - 1 + 1 ELSE 0
          /\ \A i \in 1 .. (n - 1) - 1 + 1 : a[i] = s[1 + i - 1]
      BY <2>1, <1>1, SubSeqProperties, n - 1 \in Int, 1 \in Int
    <2> HIDE DEF a
    <2>3. ASSUME NEW i \in 1 .. n - 1
          PROVE  a[i] = s[i]
      <3>1. i \in 1 .. (n - 1) - 1 + 1 /\ 1 + i - 1 = i
        BY <1>1
      <3> QED BY <3>1, <2>2
    <2> QED BY <2>2, <2>3, <1>1
  <1>3. /\ b \in Seq(S) /\ Len(b) = Len(s) - n
        /\ \A i \in 1 .. Len(s) - n : b[i] = s[n + i]
    <2>1. \A i \in n + 1 .. Len(s) : s[i] \in S
      BY <1>1
    <2>2. /\ b \in Seq(S)
          /\ Len(b) = IF n + 1 <= Len(s) THEN Len(s) - (n + 1) + 1 ELSE 0
          /\ \A i \in 1 .. Len(s) - (n + 1) + 1 : b[i] = s[n + 1 + i - 1]
      BY <2>1, <1>1, SubSeqProperties, n + 1 \in Int, Len(s) \in Int
    <2> HIDE DEF b
    <2>3. ASSUME NEW i \in 1 .. Len(s) - n
          PROVE  b[i] = s[n + i]
      <3>1. i \in 1 .. Len(s) - (n + 1) + 1 /\ n + 1 + i - 1 = n + i
        BY <1>1
      <3> QED BY <3>1, <2>2
    <2>4. Len(b) = Len(s) - n
      <3>1. /\ Len(b) = IF n + 1 <= Len(s) THEN Len(s) - (n + 1) + 1 ELSE 0
            /\ Len(s) \in Nat /\ n \in Nat /\ n <= Len(s)
        BY <2>2, <1>1
      <3> QED BY <3>1
    <2> QED BY <2>2, <2>3, <2>4
  <1>4. t = a \o b
    BY DEF RemoveAt
  <1> HIDE DEF a, b, t
  <1>5. /\ t \in Seq(S) /\ Len(t) = Len(s) - 1 /\ DOMAIN t = 1 .. Len(s) - 1
        /\ \A i \in 1 .. Len(s) - 1 : t[i] = s[IF i < n THEN i ELSE i + 1]
    <2>1. /\ t \in Seq(S) /\ Len(t) = Len(a) + Len(b)
          /\ \A i \in 1 .. Len(a) + Len(b) :
                t[i] = IF i <= Len(a) THEN a[i] ELSE b[i - Len(a)]
      BY <1>2, <1>3, <1>4, ConcatProperties
    <2>2. DOMAIN t = 1 .. Len(t)
      BY <2>1, LenProperties
    <2>3. Len(a) + Len(b) = Len(s) - 1
      BY <1>1, <1>2, <1>3
    <2>4. ASSUME NEW i \in 1 .. Len(s) - 1
          PROVE  t[i] = s[IF i < n THEN i ELSE i + 1]
      <3>1. t[i] = IF i <= n - 1 THEN a[i] ELSE b[i - (n - 1)]
        BY <2>1, <2>3, <1>2
      <3>2. CASE i < n
        <4>1. i \in 1 .. n - 1 /\ i <= n - 1
          BY <3>2, <1>1
        <4> QED BY <4>1, <3>1, <3>2, <1>2
      <3>3. CASE ~(i < n)
        <4>1. i - (n - 1) \in 1 .. Len(s) - n /\ ~(i <= n - 1) /\ n + (i - (n - 1)) = i + 1
          BY <3>3, <1>1
        <4>2. b[i - (n - 1)] = s[n + (i - (n - 1))]
          BY <4>1, <1>3
        <4> QED BY <4>1, <4>2, <3>1, <3>3
      <3> QED BY <3>2, <3>3
    <2> QED BY <2>1, <2>2, <2>3, <2>4
  <1>6. /\ ToSet(t) \subseteq ToSet(s) /\ ToSet(s) \subseteq ToSet(t) \cup {s[n]}
        /\ s[n] \in ToSet(s)
        /\ IsInjective(s) => ToSet(t) = ToSet(s) \ {s[n]} /\ IsInjective(t)
    BY <1>1, <1>5, SkipSet
  <1> QED BY <1>5, <1>6 DEF t

(* Dropping the first element of a list without duplicates.                  *)
LEMMA TailSet ==
  ASSUME NEW S, NEW s \in Seq(S), s # << >>
  PROVE  /\ Head(s) \in ToSet(s)
         /\ Tail(s) \in Seq(S)
         /\ Len(Tail(s)) = Len(s) - 1
         /\ ToSet(Tail(s)) \subseteq ToSet(s)
         /\ IsInjective(s) => /\ ToSet(Tail(s)) = ToSet(s) \ {Head(s)}
                              /\ IsInjective(Tail(s))
  <1> DEFINE t == Tail(s)
             m == Len(s)
  <1>1. m \in Nat \ {0} /\ DOMAIN s = 1 .. m
    BY EmptySeq, LenProperties
  <1>2. /\ t \in Seq(S) /\ Len(t) = m - 1
        /\ \A i \in 1 .. Len(t) : t[i] = s[i + 1]
    BY HeadTailProperties
  <1>3. Head(s) = s[1]
    OBVIOUS
  <1> HIDE DEF t, m
  <1>4. DOMAIN t = 1 .. m - 1
    BY <1>2, LenProperties
  <1>5. 1 \in 1 .. m /\ \A i \in 1 .. m - 1 : t[i] = s[IF i < 1 THEN i ELSE i + 1]
    BY <1>1, <1>2
  <1>6. /\ ToSet(t) \subseteq ToSet(s) /\ ToSet(s) \subseteq ToSet(t) \cup {s[1]}
        /\ s[1] \in ToSet(s)
        /\ IsInjective(s) => ToSet(t) = ToSet(s) \ {s[1]} /\ IsInjective(t)
    BY <1>1, <1>4, <1>5, SkipSet
  <1> QED BY <1>2, <1>3, <1>6 DEF t, m
-----------------------------------------------------------------------------
(* A non-empty set of natural numbers has a least element.                   *)
LEMMA LeastNumber ==
  ASSUME NEW T, T \subseteq Nat, T # {}
  PROVE  \E m \in T : \A n \in T : m <= n
  <1> DEFINE R == StrictSubsetOrdering(Nat)
             F == {1 .. k : k \in T}
  <1>1. F \subseteq FiniteSubsetsOf(Nat)
    BY FS_Interval DEF FiniteSubsetsOf
  <1>2. IsWellFoundedOn(R, FiniteSubsetsOf(Nat)) /\ F # {}
    BY FS_StrictSubsetOrderingWellFounded
  <1> HIDE DEF R, F
  <1>3. PICK I \in F : \A J \in F : ~ (<<J, I>> \in R)
    BY <1>1, <1>2, WFMin
  <1> USE DEF R, F
  <1>4. PICK m \in T : I = 1 .. m
    BY <1>3
  <1>5. ASSUME NEW n \in T, n < m
        PROVE  FALSE
    <2>1. 1 .. n \subseteq 1 .. m /\ m \in 1 .. m /\ m \notin 1 .. n
      BY <1>5
    <2>2. <<1 .. n, 1 .. m>> \in R
      <3>1. 1 .. n \in SUBSET Nat /\ 1 .. m \in SUBSET Nat /\ 1 .. n # 1 .. m
        BY <2>1
      <3> QED BY <2>1, <3>1 DEF StrictSubsetOrdering
    <2> QED BY <1>3, <1>4, <2>2
  <1> QED BY <1>5

(* What holds of 0, and of n + 1 when it holds of n < L, holds up to L:     *)
(* induction over the set of the numbers that it holds of.                  *)
LEMMA UpTo ==
  ASSUME NEW L \in Nat, NEW G, 0 \in G, \A n \in 0..L : n \in G /\ n < L => n + 1 \in G
  PROVE  \A n \in 0..L : n \in G
<1> SUFFICES ASSUME {n \in 0..L : n \notin G} # {}
             PROVE  FALSE
  OBVIOUS
<1>1. PICK m \in {n \in 0..L : n \notin G} : \A n \in {k \in 0..L : k \notin G} : m <= n
  <2>1. {n \in 0..L : n \notin G} \subseteq Nat
    OBVIOUS
  <2> QED
    BY <2>1, LeastNumber
<1>2. m # 0 /\ m - 1 \in 0..L /\ m - 1 < L
  BY <1>1
<1>3. m - 1 \in G
  BY <1>1, <1>2
<1> QED
  BY <1>1, <1>2, <1>3

-----------------------------------------------------------------------------
(* The size in bytes of a finite set, in the form the models count it: adding *)
(* or removing one element changes it by the size of that element.            *)
Weight(S, cap, w) == Cardinality({p \in S \X (1 .. cap) : p[2] <= w[p[1]]})

(* A total weight is a natural number.                                      *)
LEMMA WeightIsNat ==
  ASSUME NEW S, IsFiniteSet(S), NEW cap \in Nat, NEW w
  PROVE  /\ IsFiniteSet({p \in S \X (1 .. cap) : p[2] <= w[p[1]]})
         /\ Weight(S, cap, w) \in Nat
  <1> DEFINE P == {p \in S \X (1 .. cap) : p[2] <= w[p[1]]}
  <1>0. IsFiniteSet(1 .. cap)
    BY FS_Interval, 1 \in Int, cap \in Int
  <1>1. IsFiniteSet(S \X (1 .. cap))
    BY <1>0, FS_Product
  <1>2. P \in SUBSET (S \X (1 .. cap))
    OBVIOUS
  <1>3. IsFiniteSet(P)
    BY <1>1, <1>2, FS_Subset
  <1> QED BY <1>3, FS_CardinalityType DEF Weight

(* No thing weighs nothing.                                                 *)
LEMMA WeightOfEmpty ==
  ASSUME NEW cap, NEW w
  PROVE  Weight({}, cap, w) = 0
  <1>1. {p \in {} \X (1 .. cap) : p[2] <= w[p[1]]} = {}
    OBVIOUS
  <1> QED BY <1>1, FS_EmptySet DEF Weight

(* One thing alone weighs its own weight.                                   *)
LEMMA WeightOfOne ==
  ASSUME NEW cap \in Nat, NEW w, NEW x, w[x] \in 0 .. cap
  PROVE  Weight({x}, cap, w) = w[x]
  <1> DEFINE P == {p \in {x} \X (1 .. cap) : p[2] <= w[p[1]]}
             f == [n \in 1 .. w[x] |-> <<x, n>>]
  <1>1. f \in Bijection(1 .. w[x], P)
    <2>1. f \in [1 .. w[x] -> P]
      OBVIOUS
    <2>2. \A a, b \in 1 .. w[x] : f[a] = f[b] => a = b
      OBVIOUS
    <2>3. \A p \in P : p[2] \in 1 .. w[x] /\ f[p[2]] = p
      OBVIOUS
    <2> HIDE DEF P, f
    <2>4. DOMAIN f = 1 .. w[x]
      BY <2>1
    <2> QED BY <2>1, <2>2, <2>3, <2>4 DEF Bijection, Injection, Surjection, IsInjective
  <1>2. ExistsBijection(1 .. w[x], P)
    BY <1>1 DEF ExistsBijection
  <1>3. IsFiniteSet(1 .. w[x]) /\ Cardinality(1 .. w[x]) = w[x]
    <2>1. w[x] \in Nat
      OBVIOUS
    <2>2. Cardinality(1 .. w[x]) = IF 1 > w[x] THEN 0 ELSE w[x] - 1 + 1
      BY <2>1, FS_Interval, 1 \in Int, w[x] \in Int
    <2>3. IsFiniteSet(1 .. w[x])
      BY <2>1, FS_Interval, 1 \in Int, w[x] \in Int
    <2> QED BY <2>1, <2>2, <2>3
  <1>4. Cardinality(P) = w[x]
    BY <1>2, <1>3, FS_Bijection
  <1> QED BY <1>4 DEF Weight

(* T is S and one thing more, of a weight that can be counted.              *)
OneMore(S, T, cap, w, x) ==
    /\ IsFiniteSet(S) /\ cap \in Nat
    /\ x \notin S /\ T = S \cup {x}
    /\ w[x] \in 0 .. cap

(* One thing more adds its weight, one thing less takes it away.            *)
LEMMA WeightOneMore ==
  ASSUME NEW S, NEW T, NEW cap, NEW w, NEW x, OneMore(S, T, cap, w, x)
  PROVE  /\ Weight(T, cap, w) = Weight(S, cap, w) + w[x]
         /\ Weight(S, cap, w) = Weight(T, cap, w) - w[x]
         /\ Weight(S, cap, w) \in Nat /\ w[x] \in Nat
  <1> USE DEF OneMore
  <1> DEFINE P(U) == {p \in U \X (1 .. cap) : p[2] <= w[p[1]]}
             A == P(S)
             B == P({x})
  <1>1. P(T) = A \cup B /\ A \cap B = {}
    OBVIOUS
  <1>2. IsFiniteSet(A)
    BY WeightIsNat
  <1>3. IsFiniteSet(B)
    <2>1. IsFiniteSet({x})
      BY FS_Singleton
    <2> QED BY <2>1, WeightIsNat
  <1>4. Cardinality(B) = w[x]
    BY WeightOfOne DEF Weight
  <1>5. Weight(T, cap, w) = Cardinality(A \cup B) /\ Weight(S, cap, w) = Cardinality(A)
    BY <1>1 DEF Weight
  <1>6. w[x] \in Nat
    OBVIOUS
  <1> HIDE DEF A, B, P, OneMore
  <1>7. Cardinality(A) \in Nat
    BY <1>2, FS_CardinalityType
  <1>8. Cardinality(A \cup B) = Cardinality(A) + Cardinality(B) - Cardinality(A \cap B)
    BY <1>2, <1>3, FS_Union
  <1>9. Cardinality(A \cap B) = 0
    BY <1>1, FS_EmptySet
  <1> QED BY <1>4, <1>5, <1>6, <1>7, <1>8, <1>9

(* Nothing weighs nothing.                                                  *)
LEMMA WeightOfZeros ==
  ASSUME NEW S, NEW cap \in Nat, NEW w, \A x \in S : w[x] = 0
  PROVE  Weight(S, cap, w) = 0
  <1>1. {p \in S \X (1 .. cap) : p[2] <= w[p[1]]} = {}
    OBVIOUS
  <1> QED BY <1>1, FS_EmptySet DEF Weight

(* What weighs nothing consists of weightless things.                       *)
LEMMA NoWeight ==
  ASSUME NEW S, IsFiniteSet(S), NEW cap \in Nat, NEW w, Weight(S, cap, w) = 0,
         NEW x \in S, w[x] \in 0 .. cap
  PROVE  w[x] = 0
  <1> DEFINE P == {p \in S \X (1 .. cap) : p[2] <= w[p[1]]}
  <1>1. P = {}
    <2>1. IsFiniteSet(P) /\ Cardinality(P) = 0
      BY WeightIsNat DEF Weight
    <2> HIDE DEF P
    <2> QED BY <2>1, FS_EmptySet
  <1>2. <<x, 1>> \notin P
    BY <1>1
  <1> QED BY <1>2

(* A part weighs no more than the whole.                                    *)
LEMMA WeightOfPart ==
  ASSUME NEW S, IsFiniteSet(S), NEW T \in SUBSET S, NEW cap \in Nat, NEW w
  PROVE  Weight(T, cap, w) <= Weight(S, cap, w)
  <1> DEFINE P(U) == {p \in U \X (1 .. cap) : p[2] <= w[p[1]]}
  <1>1. IsFiniteSet(P(S))
    BY WeightIsNat
  <1>2. P(T) \in SUBSET P(S)
    OBVIOUS
  <1> HIDE DEF P
  <1>3. Cardinality(P(T)) <= Cardinality(P(S))
    BY <1>1, <1>2, FS_Subset
  <1> QED BY <1>3 DEF Weight, P
=============================================================================
