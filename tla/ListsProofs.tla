---------------------------- MODULE ListsProofs ----------------------------
(***************************************************************************)
(* What sorting and filtering return: sequences of the elements they are   *)
(* given.  Induction is by the least number that a set of numbers lacks.   *)
(***************************************************************************)
EXTENDS Lists, FiniteSetTheorems, WellFoundedInduction, TLAPS

-----------------------------------------------------------------------------
(* Sorting *)

\* In a finite set with a strict total order, each place is taken: as many elements are
\* below distinct elements as there are places.
LEMMA PlacesTaken ==
    ASSUME NEW S, IsFiniteSet(S), NEW R,
           \A a \in S : <<a, a>> \notin R,
           \A a, b, c \in S : <<a, b>> \in R /\ <<b, c>> \in R => <<a, c>> \in R,
           \A a, b \in S : a = b \/ <<a, b>> \in R \/ <<b, a>> \in R
    PROVE  \A i \in 1 .. Cardinality(S) :
              \E a \in S : Cardinality({b \in S : <<b, a>> \in R}) = i - 1
<1> DEFINE n == Cardinality(S)
           below(a) == {b \in S : <<b, a>> \in R}
           f == [a \in S |-> Cardinality(below(a))]
<1>1. n \in Nat
  BY FS_CardinalityType
<1>2. ASSUME NEW a \in S
      PROVE  IsFiniteSet(below(a)) /\ Cardinality(below(a)) \in 0 .. (n - 1)
  <2>1. below(a) \in SUBSET (S \ {a})
    OBVIOUS
  <2>2. IsFiniteSet(S \ {a}) /\ Cardinality(S \ {a}) = n - 1
    BY FS_RemoveElement
  <2> HIDE DEF below
  <2>3. IsFiniteSet(below(a)) /\ Cardinality(below(a)) <= n - 1
    BY <2>1, <2>2, FS_Subset
  <2>4. Cardinality(below(a)) \in Nat
    BY <2>3, FS_CardinalityType
  <2> QED
    BY <1>1, <2>3, <2>4
<1>3. ASSUME NEW a \in S, NEW b \in S, <<a, b>> \in R
      PROVE  Cardinality(below(a)) < Cardinality(below(b))
  <2>1. below(a) \in SUBSET below(b) /\ a \in below(b) /\ a \notin below(a)
    BY <1>3
  <2> HIDE DEF below
  <2>2. Cardinality(below(a)) <= Cardinality(below(b))
        /\ (Cardinality(below(b)) = Cardinality(below(a)) => below(b) = below(a))
    BY <1>2, <2>1, FS_Subset
  <2> QED
    BY <1>1, <1>2, <2>1, <2>2
<1>4. f \in [S -> 0 .. (n - 1)]
  BY <1>2
<1>5. ASSUME NEW a \in S, NEW b \in S, f[a] = f[b]
      PROVE  a = b
  <2> HIDE DEF below, n
  <2>1. f[a] = Cardinality(below(a)) /\ f[b] = Cardinality(below(b))
    OBVIOUS
  <2>2. f[a] \in Int /\ f[b] \in Int
    BY <1>1, <1>2, <2>1
  <2> HIDE DEF f
  <2>3. ~(f[a] < f[b]) /\ ~(f[b] < f[a])
    BY <1>5, <2>2
  <2>4. ASSUME <<a, b>> \in R PROVE FALSE
    <3>1. Cardinality(below(a)) < Cardinality(below(b))
      BY <1>3, <2>4
    <3> QED
      BY <2>1, <2>3, <3>1
  <2>5. ASSUME <<b, a>> \in R PROVE FALSE
    <3>1. Cardinality(below(b)) < Cardinality(below(a))
      BY <1>3, <2>5
    <3> QED
      BY <2>1, <2>3, <3>1
  <2> QED
    BY <2>4, <2>5
<1> HIDE DEF f
<1>6. f \in Injection(S, 0 .. (n - 1))
  <2>1. DOMAIN f = S
    BY <1>4
  <2>2. IsInjective(f)
    BY <1>5, <2>1 DEF IsInjective
  <2> QED
    BY <1>4, <2>2, Zenon DEF Injection
<1>7. IsFiniteSet(0 .. (n - 1)) /\ Cardinality(0 .. (n - 1)) = n
  <2> HIDE DEF n
  <2>1. 0 \in Int /\ n - 1 \in Int
    BY <1>1
  <2>2. /\ IsFiniteSet(0 .. (n - 1))
        /\ Cardinality(0 .. (n - 1)) = IF 0 > n - 1 THEN 0 ELSE (n - 1) - 0 + 1
    BY <2>1, FS_Interval, Zenon
  <2> QED
    BY <1>1, <2>2
<1>8. f \in Surjection(S, 0 .. (n - 1))
  BY <1>6, <1>7, FS_Injection
<1>9. SUFFICES ASSUME NEW i \in 1 .. n
               PROVE  \E a \in S : Cardinality(below(a)) = i - 1
  OBVIOUS
<1>10. i - 1 \in 0 .. (n - 1)
  BY <1>1
<1>11. \E a \in S : f[a] = i - 1
  BY <1>8, <1>10 DEF Surjection
<1> QED
  BY <1>11 DEF f

\* A set sorted by a strict total order is a sequence of its elements, each once.
LEMMA SortedOnce ==
    ASSUME NEW S, IsFiniteSet(S), NEW R,
           \A a \in S : <<a, a>> \notin R,
           \A a, b, c \in S : <<a, b>> \in R /\ <<b, c>> \in R => <<a, c>> \in R,
           \A a, b \in S : a = b \/ <<a, b>> \in R \/ <<b, a>> \in R
    PROVE  Sorted(S, R) \in Seq(S) /\ IsInjective(Sorted(S, R))
<1> DEFINE n == Cardinality(S)
           place == [a \in S |-> Cardinality({b \in S : <<b, a>> \in R}) + 1]
           s == Sorted(S, R)
<1>1. n \in Nat
  BY FS_CardinalityType
<1>2. \A i \in 1 .. n : \E a \in S : place[a] = i
  <2>1. \A i \in 1 .. n : \E a \in S : Cardinality({b \in S : <<b, a>> \in R}) = i - 1
    BY PlacesTaken
  <2>2. ASSUME NEW i \in 1 .. n
        PROVE  \E a \in S : place[a] = i
    <3>1. PICK a \in S : Cardinality({b \in S : <<b, a>> \in R}) = i - 1
      BY <2>1, <2>2
    <3>2. place[a] = i
      BY <1>1, <2>2, <3>1
    <3> QED
      BY <3>2
  <2> QED
    BY <2>2
<1>3. s = [i \in 1 .. n |-> CHOOSE a \in S : place[a] = i]
  BY DEF Sorted
<1> HIDE DEF place, n, s
<1>4. \A i \in 1 .. n : s[i] \in S /\ place[s[i]] = i
  BY <1>2, <1>3
<1>5. s \in [1 .. n -> S]
  BY <1>3, <1>4
<1>6. s \in Seq(S)
  BY <1>1, <1>5
<1>7. IsInjective(s)
  BY <1>4, <1>5 DEF IsInjective
<1> QED
  BY <1>6, <1>7 DEF s

\* Keys of four numbers, compared from the first on, are in a strict total order.
Keys == Int \X Int \X Int \X Int

LEMMA AboveUnfolded ==
    ASSUME NEW x \in Keys, NEW y \in Keys
    PROVE  Above(x, y) <=> \/ x[1] > y[1]
                           \/ x[1] = y[1] /\ x[2] > y[2]
                           \/ x[1] = y[1] /\ x[2] = y[2] /\ x[3] > y[3]
                           \/ x[1] = y[1] /\ x[2] = y[2] /\ x[3] = y[3] /\ x[4] > y[4]
<1> DEFINE E(i) == x[i] > y[i] /\ \A j \in 1 .. (i - 1) : x[j] = y[j]
<1>1. Above(x, y) <=> E(1) \/ E(2) \/ E(3) \/ E(4)
  <2> HIDE DEF E
  <2>1. 1 .. 4 = {1, 2, 3, 4}
    OBVIOUS
  <2>2. Above(x, y) <=> \E i \in 1 .. 4 : E(i)
    BY DEF Above, E
  <2> QED
    BY <2>1, <2>2
<1>2. 1 .. (1 - 1) = {} /\ 1 .. (2 - 1) = {1} /\ 1 .. (3 - 1) = {1, 2} /\ 1 .. (4 - 1) = {1, 2, 3}
  OBVIOUS
<1>3. E(1) <=> x[1] > y[1]
  BY <1>2
<1>4. E(2) <=> x[1] = y[1] /\ x[2] > y[2]
  BY <1>2
<1>5. E(3) <=> x[1] = y[1] /\ x[2] = y[2] /\ x[3] > y[3]
  BY <1>2
<1>6. E(4) <=> x[1] = y[1] /\ x[2] = y[2] /\ x[3] = y[3] /\ x[4] > y[4]
  BY <1>2
<1> HIDE DEF E
<1> QED
  BY <1>1, <1>3, <1>4, <1>5, <1>6

LEMMA AboveIsOrder ==
    ASSUME NEW x \in Keys, NEW y \in Keys, NEW z \in Keys
    PROVE  /\ ~Above(x, x)
           /\ Above(x, y) /\ Above(y, z) => Above(x, z)
           /\ x = y \/ Above(x, y) \/ Above(y, x)
<1>1. /\ x[1] \in Int /\ x[2] \in Int /\ x[3] \in Int /\ x[4] \in Int
      /\ y[1] \in Int /\ y[2] \in Int /\ y[3] \in Int /\ y[4] \in Int
      /\ z[1] \in Int /\ z[2] \in Int /\ z[3] \in Int /\ z[4] \in Int
  BY DEF Keys
<1>2. ~Above(x, x)
  BY <1>1, AboveUnfolded
<1>3. Above(x, y) /\ Above(y, z) => Above(x, z)
  BY <1>1, AboveUnfolded
<1>4. x = y \/ Above(x, y) \/ Above(y, x)
  <2>1. x[1] = y[1] /\ x[2] = y[2] /\ x[3] = y[3] /\ x[4] = y[4] => x = y
    BY DEF Keys
  <2> QED
    BY <1>1, <2>1, AboveUnfolded
<1> QED
  BY <1>2, <1>3, <1>4

-----------------------------------------------------------------------------
(* Flattening and filtering *)

\* Induction from 1 to n: a set that has 1, and with a number the next, has them all.
LEMMA Upward ==
    ASSUME NEW n \in Nat, NEW Q, 1 \in Q, \A m \in 1 .. (n - 1) : m \in Q => m + 1 \in Q
    PROVE  \A m \in 1 .. n : m \in Q
<1> DEFINE below == {ss \in Nat \X Nat : ss[1] < ss[2]}
           out == {m \in 1 .. n : m \notin Q}
<1>1. IsWellFoundedOn(below, Nat)
  BY NatLessThanWellFounded, Zenon DEF OpToRel
<1>2. \A j, k \in Nat : j < k => <<j, k>> \in below
  OBVIOUS
<1>3. out \in SUBSET Nat
  OBVIOUS
<1> HIDE DEF below
<1>4. SUFFICES ASSUME out # {}
               PROVE  FALSE
  OBVIOUS
<1>5. PICK x \in out : \A y \in out : ~ (<<y, x>> \in below)
  BY <1>1, <1>3, <1>4, WFMin, Zenon
<1>6. x \in 1 .. n /\ x \notin Q /\ x # 1
  BY <1>5
<1>7. x - 1 \in 1 .. (n - 1) /\ (x - 1) + 1 = x
  BY <1>6
<1>8. x - 1 \notin Q
  BY <1>6, <1>7
<1>9. x - 1 \in out
  BY <1>7, <1>8
<1>10. <<x - 1, x>> \in below
  BY <1>2, <1>3, <1>6, <1>7
<1> QED
  BY <1>5, <1>9, <1>10

\* Sequences of elements of T put one after the other are a sequence of elements of T.
LEMMA FlattenTyped ==
    ASSUME NEW T, NEW groups \in Seq(Seq(T))
    PROVE  FlattenSeq(groups) \in Seq(T)
<1> DEFINE n == Len(groups)
           Step(f, i) == IF i = 1 THEN groups[i] ELSE f[i - 1] \o groups[i]
           Unfolds(f, m) == f = [i \in 1 .. m |-> Step(f, i)]
<1>1. n \in Nat /\ \A i \in 1 .. n : groups[i] \in Seq(T)
  OBVIOUS
<1>2. CASE n = 0
  BY <1>2 DEF FlattenSeq
<1>3. CASE n # 0
  <2> DEFINE g == CHOOSE f : Unfolds(f, n)
             Q == {m \in 1 .. n : \E f : Unfolds(f, m)}
             P == {m \in 1 .. n : g[m] \in Seq(T)}
  <2>1. FlattenSeq(groups) = g[n]
    BY <1>3 DEF FlattenSeq
  <2>2. 1 \in 1 .. n /\ n \in 1 .. n
    BY <1>1, <1>3
  <2>3. 1 \in Q
    <3> DEFINE f == [i \in 1 .. 1 |-> groups[i]]
    <3>1. Unfolds(f, 1)
      OBVIOUS
    <3> QED
      BY <2>2, <3>1
  <2>4. ASSUME NEW m \in 1 .. (n - 1), m \in Q
        PROVE  m + 1 \in Q
    <3>1. PICK f : Unfolds(f, m)
      BY <2>4
    <3> DEFINE h == [i \in 1 .. (m + 1) |-> IF i = m + 1 THEN f[m] \o groups[m + 1] ELSE f[i]]
    <3>2. m \in Nat /\ m >= 1 /\ m + 1 \in 1 .. n
      BY <1>1, <2>4
    <3>3. \A i \in 1 .. m : f[i] = Step(f, i)
      BY <3>1
    <3>4. \A i \in 1 .. (m + 1) : h[i] = Step(h, i)
      BY <3>2, <3>3
    <3>5. h = [i \in 1 .. (m + 1) |-> h[i]]
      OBVIOUS
    <3> HIDE DEF h
    <3>6. Unfolds(h, m + 1)
      BY <3>4, <3>5
    <3> QED
      BY <3>2, <3>6
  <2> HIDE DEF Q
  <2>5. n \in Q
    BY <1>1, <2>2, <2>3, <2>4, Upward
  <2>6. Unfolds(g, n)
    <3>1. \E f : Unfolds(f, n)
      BY <2>5 DEF Q
    <3> HIDE DEF Unfolds
    <3> QED
      BY <3>1
  <2> HIDE DEF g
  <2>7. \A i \in 1 .. n : g[i] = Step(g, i)
    BY <2>6
  <2>8. 1 \in P
    BY <1>1, <2>2, <2>7
  <2>9. ASSUME NEW m \in 1 .. (n - 1), m \in P
        PROVE  m + 1 \in P
    <3>1. m + 1 \in 1 .. n /\ m + 1 # 1 /\ (m + 1) - 1 = m
      BY <1>1, <2>9
    <3>2. g[m + 1] = g[m] \o groups[m + 1]
      BY <2>7, <3>1
    <3>3. g[m] \in Seq(T) /\ groups[m + 1] \in Seq(T)
      BY <1>1, <2>9, <3>1
    <3>4. g[m + 1] \in Seq(T)
      BY <3>2, <3>3
    <3> QED
      BY <3>1, <3>4
  <2> HIDE DEF P
  <2>10. n \in P
    BY <1>1, <2>2, <2>8, <2>9, Upward
  <2> QED
    BY <2>1, <2>10 DEF P
<1> QED
  BY <1>2, <1>3

\* Filtering keeps elements of the sequence that are in the set.
LEMMA KeptTyped ==
    ASSUME NEW T, NEW s \in Seq(T), NEW S
    PROVE  Kept(s, S) \in Seq(T \cap S)
<1> DEFINE groups == [i \in DOMAIN s |-> IF s[i] \in S THEN <<s[i]>> ELSE <<>>]
<1>1. ASSUME NEW i \in DOMAIN s
      PROVE  groups[i] \in Seq(T \cap S)
  <2>1. s[i] \in T
    OBVIOUS
  <2>2. s[i] \in S => <<s[i]>> \in Seq(T \cap S)
    BY <2>1
  <2>3. groups[i] = IF s[i] \in S THEN <<s[i]>> ELSE <<>>
    OBVIOUS
  <2>4. <<>> \in Seq(T \cap S)
    OBVIOUS
  <2> HIDE DEF groups
  <2> QED
    BY <2>2, <2>3, <2>4
<1>2. groups \in Seq(Seq(T \cap S))
  <2>1. DOMAIN s = 1 .. Len(s) /\ Len(s) \in Nat
    OBVIOUS
  <2>2. groups \in [1 .. Len(s) -> Seq(T \cap S)]
    BY <1>1, <2>1
  <2> HIDE DEF groups
  <2> QED
    BY <2>1, <2>2
<1> HIDE DEF groups
<1>3. FlattenSeq(groups) \in Seq(T \cap S)
  BY <1>2, FlattenTyped
<1> QED
  BY <1>3 DEF Kept, groups

=============================================================================
