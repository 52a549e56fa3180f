---------------------------- MODULE ListsProofs -----------------------------
(***************************************************************************)
(* What the proofs need to know of lists, of sets of numbers and of the    *)
(* scores in Ranking: ORDER BY gives every element once, in order; filters *)
(* and limits keep the order; a finite set of candidates has a best one.   *)
(***************************************************************************)
EXTENDS Ranking, FiniteSetTheorems, NaturalsInduction, WellFoundedInduction, TLAPS

(* A strict order of all elements of S, as a set of pairs. *)
StrictOrder(S, before) ==
    /\ \A x \in S : <<x, x>> \notin before
    /\ \A x, y, z \in S : <<x, y>> \in before /\ <<y, z>> \in before => <<x, z>> \in before
    /\ \A x, y \in S : x # y => <<x, y>> \in before \/ <<y, x>> \in before

(* A set of natural numbers that is not empty has a least element. *)
LEMMA Smallest ==
    ASSUME NEW S \in SUBSET Nat, S # {}
    PROVE  \E x \in S : \A y \in S : x <= y
<1>1. PICK x \in S : \A y \in S : <<y, x>> \notin OpToRel(<, Nat)
    BY NatLessThanWellFounded, WFMin
<1>2. \A y \in S : ~(y < x)
    BY <1>1 DEF OpToRel
<1> QED
    BY <1>2

(* The rank of an element is less than the size of the set, and grows      *)
(* along the order.                                                        *)
LEMMA RanksGrow ==
    ASSUME NEW S, IsFiniteSet(S), NEW before, StrictOrder(S, before)
    PROVE  /\ \A x \in S : Cardinality(Preceding(S, before, x)) \in 0..(Cardinality(S) - 1)
           /\ \A x, y \in S : <<x, y>> \in before =>
                  Cardinality(Preceding(S, before, x)) < Cardinality(Preceding(S, before, y))
<1>1. Cardinality(S) \in Nat
    BY FS_CardinalityType
<1>2. ASSUME NEW x \in S
      PROVE  /\ IsFiniteSet(Preceding(S, before, x))
             /\ Cardinality(Preceding(S, before, x)) \in 0..(Cardinality(S) - 1)
    <2> DEFINE P == Preceding(S, before, x)
    <2>1. P \in SUBSET S /\ P # S
        BY DEF Preceding, StrictOrder
    <2> HIDE DEF P
    <2>2. IsFiniteSet(P) /\ Cardinality(P) <= Cardinality(S) /\ Cardinality(P) # Cardinality(S)
        BY <2>1, FS_Subset
    <2>3. Cardinality(P) \in Nat
        BY <2>2, FS_CardinalityType
    <2>4. Cardinality(P) \in 0..(Cardinality(S) - 1)
        BY <2>2, <2>3, <1>1
    <2> QED
        BY <2>2, <2>4 DEF P
<1>3. ASSUME NEW x \in S, NEW y \in S, <<x, y>> \in before
      PROVE  Cardinality(Preceding(S, before, x)) < Cardinality(Preceding(S, before, y))
    <2> DEFINE P == Preceding(S, before, x)
               Q == Preceding(S, before, y)
    <2>1. P \in SUBSET Q
        BY <1>3 DEF Preceding, StrictOrder
    <2>2. x \in Q /\ x \notin P
        BY <1>3 DEF Preceding, StrictOrder
    <2>3. IsFiniteSet(Q) /\ Cardinality(P) \in Int /\ Cardinality(Q) \in Int
        BY <1>2
    <2> HIDE DEF P, Q
    <2>4. Cardinality(P) <= Cardinality(Q) /\ Cardinality(P) # Cardinality(Q)
        BY <2>1, <2>2, <2>3, FS_Subset
    <2> QED
        BY <2>3, <2>4 DEF P, Q
<1> QED
    BY <1>2, <1>3

(* A listing has every element of the set once, in the order.              *)
LEMMA ListingSound ==
    ASSUME NEW S, IsFiniteSet(S), NEW before, StrictOrder(S, before),
           NEW l, l = Listing(S, before)
    PROVE  /\ Cardinality(S) \in Nat
           /\ l \in Seq(S) /\ Len(l) = Cardinality(S)
           /\ \A x \in S : \E k \in 1..Len(l) : l[k] = x
           /\ \A i, j \in 1..Len(l) : i < j => <<l[i], l[j]>> \in before
           /\ \A i, j \in 1..Len(l) : l[i] = l[j] => i = j
<1> DEFINE n == Cardinality(S)
           rank == [x \in S |-> Cardinality(Preceding(S, before, x)) + 1]
<1>1. n \in Nat
    BY FS_CardinalityType
<1>2. /\ \A x \in S : Cardinality(Preceding(S, before, x)) \in 0..(n - 1)
      /\ \A x, y \in S : <<x, y>> \in before =>
             Cardinality(Preceding(S, before, x)) < Cardinality(Preceding(S, before, y))
    BY RanksGrow
<1>3. /\ rank \in [S -> 1..n]
      /\ \A x, y \in S : <<x, y>> \in before => rank[x] < rank[y]
    BY <1>1, <1>2
<1>l. l = [k \in 1..n |-> CHOOSE x \in S : rank[x] = k]
    <2>1. \A x \in S, k \in 1..n :
              Cardinality(Preceding(S, before, x)) = k - 1 <=> rank[x] = k
        BY <1>1, <1>2
    <2>2. \A k \in 1..n : (CHOOSE x \in S : Cardinality(Preceding(S, before, x)) = k - 1)
                        = (CHOOSE x \in S : rank[x] = k)
        BY <2>1
    <2> QED
        BY <2>2 DEF Listing
<1>4. ASSUME NEW x \in S, NEW y \in S, rank[x] = rank[y]
      PROVE  x = y
    <2> HIDE DEF rank
    <2>1. rank[x] \in Int /\ rank[y] \in Int
        BY <1>1, <1>3
    <2>2. <<x, y>> \notin before /\ <<y, x>> \notin before
        BY <2>1, <1>3, <1>4
    <2> QED
        BY <2>2 DEF StrictOrder
<1> HIDE DEF rank
<1>5. rank \in Injection(S, 1..n)
    BY <1>3, <1>4 DEF Injection, IsInjective
<1>6. IsFiniteSet(1..n) /\ Cardinality(1..n) = n
    BY <1>1, FS_Interval
<1>7. rank \in Surjection(S, 1..n)
    BY <1>5, <1>6, FS_Injection
<1>8. \A k \in 1..n : \E x \in S : rank[x] = k
    BY <1>7 DEF Surjection
<1>9. \A k \in 1..n : l[k] \in S /\ rank[l[k]] = k
    BY <1>8, <1>l
<1>10. l \in [1..n -> S]
    BY <1>9, <1>l
<1>11. l \in Seq(S) /\ Len(l) = n
    BY <1>10, <1>1
<1>12. \A x \in S : \E k \in 1..n : l[k] = x
    BY <1>3, <1>4, <1>9
<1>13. \A i, j \in 1..n : l[i] = l[j] => i = j
    BY <1>9
<1>14. ASSUME NEW i \in 1..n, NEW j \in 1..n, i < j
       PROVE  <<l[i], l[j]>> \in before
    <2>1. l[i] \in S /\ l[j] \in S /\ l[i] # l[j]
        BY <1>9, <1>14, <1>1
    <2>2. CASE <<l[j], l[i]>> \in before
        BY <2>1, <2>2, <1>3, <1>9, <1>14
    <2> QED
        BY <2>1, <2>2 DEF StrictOrder
<1> QED
    BY <1>1, <1>11, <1>12, <1>13, <1>14

(* What is in a list is of its type. *)
LEMMA Elements ==
    ASSUME NEW T
    PROVE  /\ <<>> \in Seq(T) /\ \A x \in T : <<x>> \in Seq(T)
           /\ \A s \in Seq(T) : Len(s) \in Nat /\ \A k \in 1..Len(s) : s[k] \in T
OBVIOUS

(* A list over a set is one over every larger set. *)
LEMMA Widen ==
    ASSUME NEW S, NEW T, S \subseteq T, NEW s \in Seq(S)
    PROVE  s \in Seq(T)
OBVIOUS

(* ToSet is the image of the list's places. *)
LEMMA Image ==
    ASSUME NEW T, NEW s \in Seq(T)
    PROVE  ToSet(s) = {s[i] : i \in 1..Len(s)} /\ ToSet(s) \subseteq T
BY DEF ToSet

(* Concatenation: length, elements and their set. *)
LEMMA Joined ==
    ASSUME NEW T, NEW s \in Seq(T), NEW t \in Seq(T)
    PROVE  /\ s \o t \in Seq(T) /\ Len(s \o t) = Len(s) + Len(t)
           /\ \A i \in 1..Len(s) : (s \o t)[i] = s[i]
           /\ \A i \in (Len(s) + 1)..(Len(s) + Len(t)) :
                  i - Len(s) \in 1..Len(t) /\ (s \o t)[i] = t[i - Len(s)]
           /\ ToSet(s \o t) = ToSet(s) \cup ToSet(t)
<1> DEFINE l == s \o t
<1>1. /\ l \in Seq(T) /\ Len(l) = Len(s) + Len(t)
      /\ \A i \in 1..Len(s) : l[i] = s[i]
      /\ \A i \in (Len(s) + 1)..(Len(s) + Len(t)) :
             i - Len(s) \in 1..Len(t) /\ l[i] = t[i - Len(s)]
    OBVIOUS
<1>2. \A i \in 1..Len(t) : Len(s) + i \in 1..Len(l) /\ l[Len(s) + i] = t[i]
    OBVIOUS
<1> HIDE DEF l
<1>3. \A i \in 1..Len(s) : i \in 1..Len(l)
    BY <1>1
<1>4. \A i \in 1..Len(l) : i \in 1..Len(s) \/ i \in (Len(s) + 1)..(Len(s) + Len(t))
    BY <1>1
<1>5. ToSet(l) = ToSet(s) \cup ToSet(t)
    <2>1. ToSet(l) = {l[i] : i \in 1..Len(l)} /\ ToSet(s) = {s[i] : i \in 1..Len(s)}
          /\ ToSet(t) = {t[i] : i \in 1..Len(t)}
        BY <1>1, Image
    <2>2. ASSUME NEW i \in 1..Len(l) PROVE l[i] \in ToSet(s) \cup ToSet(t)
        BY <1>1, <1>4, <2>1
    <2>3. ASSUME NEW i \in 1..Len(s) PROVE s[i] \in ToSet(l)
        BY <1>1, <1>3, <2>1
    <2>4. ASSUME NEW i \in 1..Len(t) PROVE t[i] \in ToSet(l)
        BY <1>2, <2>1
    <2> QED
        BY <2>1, <2>2, <2>3, <2>4
<1> QED
    BY <1>1, <1>5 DEF l

(* There are n numbers from 1 to n. *)
LEMMA Counted ==
    ASSUME NEW n \in Nat
    PROVE  IsFiniteSet(1..n) /\ Cardinality(1..n) = n
BY FS_Interval

(* The orders of numbers are strict. *)
LEMMA Orderly ==
    ASSUME NEW S \in SUBSET Int
    PROVE  StrictOrder(S, Ascending) /\ StrictOrder(S, Descending)
BY DEF StrictOrder, Ascending, Descending

(* List l has the elements of s at the places P, in their order: l[k] is    *)
(* the one at place o[k].                                                  *)
Retained(T, s, P, l, o) ==
    /\ o \in Seq(P)
    /\ l \in Seq(T) /\ Len(l) = Cardinality(P) /\ Len(l) = Len(o)
    /\ \A k \in 1..Len(l) : o[k] \in P /\ l[k] = s[o[k]]
    /\ \A i, j \in 1..Len(l) : i < j => o[i] < o[j]
    /\ \A p \in P : \E k \in 1..Len(l) : o[k] = p

(* What Retain keeps: every place of the set once, in the order of the list. *)
LEMMA RetainSound ==
    ASSUME NEW T, NEW s \in Seq(T), NEW P \in SUBSET (1..Len(s)), NEW l, l = Retain(s, P)
    PROVE  \E o : Retained(T, s, P, l, o)
<1> DEFINE o == Listing(P, Ascending)
<1>1. IsFiniteSet(P)
    <2>1. IsFiniteSet(1..Len(s))
        BY FS_Interval
    <2> QED
        BY <2>1, FS_Subset
<1>2. StrictOrder(P, Ascending)
    BY Orderly
<1> HIDE DEF o
<1>3. /\ Cardinality(P) \in Nat
      /\ o \in Seq(P) /\ Len(o) = Cardinality(P)
      /\ \A x \in P : \E k \in 1..Len(o) : o[k] = x
      /\ \A i, j \in 1..Len(o) : i < j => <<o[i], o[j]>> \in Ascending
    BY <1>1, <1>2, ListingSound DEF o
<1>4. l = [k \in 1..Cardinality(P) |-> s[o[k]]]
    BY DEF Retain, o
<1>5. ASSUME NEW k \in 1..Cardinality(P)
      PROVE  o[k] \in P /\ l[k] = s[o[k]] /\ s[o[k]] \in T
    <2>1. o[k] \in P
        BY <1>3
    <2> DEFINE q == o[k]
    <2> HIDE DEF q
    <2>0. q \in 1..Len(s)
        BY <2>1 DEF q
    <2>2. s[q] \in T
        BY <2>0
    <2> QED
        BY <2>1, <2>2, <1>4 DEF q
<1>6. l \in [1..Cardinality(P) -> T]
    BY <1>4, <1>5
<1>7. l \in Seq(T) /\ Len(l) = Cardinality(P)
    BY <1>3, <1>6
<1>8. \A i, j \in 1..Len(o) : i < j => o[i] < o[j]
    BY <1>3 DEF Ascending
<1>9. Retained(T, s, P, l, o)
    BY <1>3, <1>5, <1>7, <1>8 DEF Retained
<1> QED
    BY <1>9

(* LIMIT keeps the beginning of a list. *)
LEMMA TruncateSound ==
    ASSUME NEW T, NEW s \in Seq(T), NEW n \in Nat, NEW l, l = Truncate(s, n)
    PROVE  /\ l \in Seq(T) /\ Len(l) <= n /\ Len(l) <= Len(s)
           /\ Len(l) = n \/ Len(l) = Len(s)
           /\ \A k \in 1..Len(l) : l[k] = s[k]
BY DEF Truncate

(* SetToSeq lists each element of a finite set once. *)
LEMMA SetToSeqSound ==
    ASSUME NEW S, IsFiniteSet(S), NEW l, l = SetToSeq(S)
    PROVE  /\ l \in Seq(S) /\ Len(l) = Cardinality(S) /\ Cardinality(S) \in Nat
           /\ ToSet(l) = S
           /\ \A i, j \in 1..Len(l) : l[i] = l[j] => i = j
<1> DEFINE n == Cardinality(S)
<1>1. n \in Nat /\ ExistsBijection(1..n, S)
    BY FS_CardinalityType
<1>2. \E f \in [1..n -> S] : IsInjective(f)
    BY <1>1 DEF ExistsBijection, Bijection, Injection, IsInjective
<1>3. l \in [1..n -> S] /\ IsInjective(l)
    BY <1>2 DEF SetToSeq
<1> HIDE DEF n
<1>4. l \in Injection(1..n, S)
    BY <1>3 DEF Injection
<1>5. IsFiniteSet(1..n) /\ Cardinality(1..n) = n
    BY <1>1, FS_Interval
<1>6. l \in Surjection(1..n, S)
    BY <1>4, <1>5, FS_Injection DEF n
<1>7. ToSet(l) = S
    BY <1>3, <1>6 DEF Surjection, ToSet
<1> QED
    BY <1>1, <1>3, <1>7 DEF n, IsInjective

-----------------------------------------------------------------------------
(* Numbers, images and candidates. *)

(* Induction from 0 to n: a set that has 0, and of each number up to n the *)
(* next, has them all.                                                     *)
LEMMA UpTo ==
    ASSUME NEW n \in Nat, NEW P, 0 \in P, \A i \in 1..n : i - 1 \in P => i \in P
    PROVE  \A i \in 0..n : i \in P
<1> DEFINE Missing == {i \in 0..n : i \notin P}
<1> SUFFICES ASSUME Missing # {}
             PROVE  FALSE
    OBVIOUS
<1>1. Missing \in SUBSET Nat
    OBVIOUS
<1>2. PICK m \in Missing : \A i \in Missing : m <= i
    <2> HIDE DEF Missing
    <2> QED
        BY <1>1, Smallest
<1>3. m # 0 /\ m \in 1..n /\ m - 1 \in 0..n
    BY <1>2
<1>4. m - 1 \notin Missing
    BY <1>1, <1>2, <1>3
<1> QED
    BY <1>2, <1>3, <1>4

(* The image of a finite set is finite, not larger, and as large if the    *)
(* function is one to one.                                                 *)
LEMMA Imaged ==
    ASSUME NEW S, IsFiniteSet(S), NEW f, DOMAIN f = S
    PROVE  /\ IsFiniteSet({f[x] : x \in S}) /\ Cardinality({f[x] : x \in S}) <= Cardinality(S)
           /\ Cardinality({f[x] : x \in S}) \in Nat
           /\ (\A x, y \in S : f[x] = f[y] => x = y)
                  => Cardinality({f[x] : x \in S}) = Cardinality(S)
<1> DEFINE T == {f[x] : x \in S}
           g == [x \in S |-> f[x]]
<1>1. g \in Surjection(S, T)
    BY DEF Surjection
<1>2. (\A x, y \in S : f[x] = f[y] => x = y) => g \in Injection(S, T)
    BY DEF Injection, IsInjective
<1> HIDE DEF g, T
<1>3. /\ IsFiniteSet(T) /\ Cardinality(T) <= Cardinality(S)
      /\ Cardinality(T) = Cardinality(S) <=> g \in Injection(S, T)
    BY <1>1, FS_Surjection
<1>4. Cardinality(T) \in Nat
    BY <1>3, FS_CardinalityType
<1> QED
    BY <1>2, <1>3, <1>4 DEF T

(* The same for a set that is the image of a function that is one to one. *)
LEMMA ImagedOnce ==
    ASSUME NEW S, IsFiniteSet(S), NEW f, DOMAIN f = S, \A x, y \in S : f[x] = f[y] => x = y,
           NEW T, T = {f[x] : x \in S}
    PROVE  IsFiniteSet(T) /\ Cardinality(T) = Cardinality(S)
BY Imaged

(* The ends of a finite set of numbers. *)
LEMMA Extremes ==
    ASSUME NEW S \in SUBSET Int, IsFiniteSet(S), S # {}
    PROVE  /\ \E x \in S : \A y \in S : x <= y
           /\ \E x \in S : \A y \in S : y <= x
<1> DEFINE l == Listing(S, Ascending)
<1>0. StrictOrder(S, Ascending) /\ l = Listing(S, Ascending)
    BY Orderly
<1> HIDE DEF l
<1>1. /\ l \in Seq(S) /\ \A x \in S : \E k \in 1..Len(l) : l[k] = x
      /\ \A i, j \in 1..Len(l) : i < j => <<l[i], l[j]>> \in Ascending
    BY <1>0, ListingSound
<1>2. \A i, j \in 1..Len(l) : i <= j => l[i] <= l[j]
    <2>1. \A i \in 1..Len(l) : l[i] \in S /\ l[i] \in Int
        BY <1>1, Elements
    <2>2. \A i, j \in 1..Len(l) : i < j => l[i] < l[j]
        BY <1>1 DEF Ascending
    <2> QED
        BY <2>1, <2>2
<1>3. Len(l) \in Nat /\ Len(l) # 0
    <2>1. Len(l) \in Nat
        BY <1>1, Elements
    <2>2. PICK x \in S : TRUE
        OBVIOUS
    <2>3. PICK k \in 1..Len(l) : l[k] = x
        BY <1>1
    <2> QED
        BY <2>1, <2>3
<1>4. l[1] \in S /\ l[Len(l)] \in S
    <2>1. 1 \in 1..Len(l) /\ Len(l) \in 1..Len(l)
        BY <1>3
    <2> QED
        BY <1>1, <2>1, Elements
<1>5. \A y \in S : l[1] <= y /\ y <= l[Len(l)]
    <2> SUFFICES ASSUME NEW y \in S
                 PROVE  l[1] <= y /\ y <= l[Len(l)]
        OBVIOUS
    <2>1. PICK k \in 1..Len(l) : l[k] = y
        BY <1>1
    <2> QED
        BY <2>1, <1>2, <1>3
<1> QED
    BY <1>4, <1>5

(* The best of a finite set of numbered candidates. *)
LEMMA BestOf ==
    ASSUME NEW S \in SUBSET Int, IsFiniteSet(S), S # {}, NEW v \in [S -> Int]
    PROVE  \E i \in S : \A j \in S \ {i} : v[i] > v[j] \/ (v[i] = v[j] /\ i < j)
<1> DEFINE V == {v[x] : x \in S}
<1>1. IsFiniteSet(V) /\ V \in SUBSET Int /\ V # {}
    <2>1. DOMAIN v = S
        OBVIOUS
    <2> QED
        BY <2>1, Imaged
<1>2. PICK m \in V : \A y \in V : y <= m
    <2> HIDE DEF V
    <2> QED
        BY <1>1, Extremes
<1> DEFINE B == {x \in S : v[x] = m}
<1>3. IsFiniteSet(B) /\ B \in SUBSET Int /\ B # {}
    <2>1. B \in SUBSET S
        OBVIOUS
    <2> QED
        BY <2>1, <1>2, FS_Subset
<1>4. PICK i \in B : \A j \in B : i <= j
    <2> HIDE DEF B
    <2> QED
        BY <1>3, Extremes
<1>5. i \in S /\ v[i] = m
    OBVIOUS
<1>6. ASSUME NEW j \in S \ {i}
      PROVE  v[i] > v[j] \/ (v[i] = v[j] /\ i < j)
    <2>1. v[j] \in V /\ v[j] \in Int /\ v[i] \in Int
        OBVIOUS
    <2>2. v[j] <= m
        BY <2>1, <1>2
    <2>3. CASE v[j] = m
        <3>1. j \in B /\ i <= j /\ i # j
            BY <2>3, <1>4
        <3>2. i \in Int /\ j \in Int
            OBVIOUS
        <3> QED
            BY <3>1, <3>2, <2>3, <1>5
    <2>4. CASE v[j] # m
        BY <2>1, <2>2, <2>4, <1>5
    <2> QED
        BY <2>3, <2>4
<1> QED
    BY <1>5, <1>6

(* A list shorter than n misses one of the numbers from 1 to n. *)
LEMMA Pigeon ==
    ASSUME NEW n \in Nat, NEW c \in Seq(1..n), Len(c) < n
    PROVE  \E i \in 1..n : i \notin ToSet(c)
<1> DEFINE D == 1..Len(c)
<1>0. Len(c) \in Nat /\ DOMAIN c = D
    OBVIOUS
<1>1. IsFiniteSet(D) /\ Cardinality(D) = Len(c)
    BY <1>0, Counted
<1>2. ToSet(c) = {c[i] : i \in D} /\ ToSet(c) \subseteq 1..n
    BY Image
<1>3. Cardinality({c[i] : i \in D}) <= Cardinality(D)
    <2> HIDE DEF D
    <2> QED
        BY <1>0, <1>1, Imaged
<1>4. Cardinality(1..n) = n
    BY Counted
<1> SUFFICES ASSUME \A i \in 1..n : i \in ToSet(c)
             PROVE  FALSE
    OBVIOUS
<1>5. ToSet(c) = 1..n
    BY <1>2
<1>6. Cardinality({c[i] : i \in D}) = n
    BY <1>2, <1>4, <1>5
<1> HIDE DEF D
<1> QED
    BY <1>0, <1>1, <1>3, <1>6

(* The cosine of two directions is in the table. *)
LEMMA CosineIsNumber ==
    ASSUME NEW d \in Directions, NEW e \in Directions
    PROVE  cosine(d, e) \in Int
<1> DEFINE a == IF d > e THEN d - e ELSE e - d
           k == 1 + IF a > 6 THEN 12 - a ELSE a
<1>1. a \in 0..12
    BY DEF Directions, Zero
<1>2. k \in 1..7
    BY <1>1
<1> HIDE DEF a
<1>3. \A i \in 1..7 : Cosines[i] \in Int
    BY DEF Cosines
<1>4. Cosines[k] \in Int
    BY <1>2, <1>3
<1> QED
    BY <1>4 DEF cosine, a, k

(* The lesser of two numbers is one of them. *)
LEMMA Smaller ==
    ASSUME NEW a \in Nat, NEW b \in Nat
    PROVE  /\ Lesser(a, b) \in Nat /\ Lesser(a, b) <= a /\ Lesser(a, b) <= b
           /\ Lesser(a, b) = a \/ Lesser(a, b) = b
           /\ Greater(a, b) \in Nat
BY DEF Lesser, Greater

-----------------------------------------------------------------------------
(* A list of all elements of a set in the order is its listing. *)
LEMMA ListingOnly ==
    ASSUME NEW S, IsFiniteSet(S), NEW before, StrictOrder(S, before), NEW l \in Seq(S),
           \A x \in S : \E k \in 1..Len(l) : l[k] = x,
           \A i, j \in 1..Len(l) : i < j => <<l[i], l[j]>> \in before
    PROVE  l = Listing(S, before)
<1> DEFINE n == Len(l)
<1>1. n \in Nat /\ \A k \in 1..n : l[k] \in S
    BY Elements
<1>2. \A i, j \in 1..n : <<l[i], l[j]>> \in before => i < j
    <2> SUFFICES ASSUME NEW i \in 1..n, NEW j \in 1..n, <<l[i], l[j]>> \in before, ~(i < j)
                 PROVE  FALSE
        OBVIOUS
    <2>1. l[i] \in S /\ l[j] \in S
        BY <1>1
    <2>2. i = j \/ j < i
        BY <1>1
    <2>3. CASE i = j
        BY <2>1, <2>3 DEF StrictOrder
    <2>4. CASE j < i
        <3>1. <<l[j], l[i]>> \in before
            BY <2>4
        <3>2. <<l[i], l[i]>> \in before
            BY <3>1, <2>1 DEF StrictOrder
        <3> QED
            BY <3>2, <2>1 DEF StrictOrder
    <2> QED
        BY <2>2, <2>3, <2>4
<1>3. \A i, j \in 1..n : l[i] = l[j] => i = j
    <2> SUFFICES ASSUME NEW i \in 1..n, NEW j \in 1..n, l[i] = l[j], i # j
                 PROVE  FALSE
        OBVIOUS
    <2>1. i < j \/ j < i
        BY <1>1
    <2>2. <<l[i], l[i]>> \in before /\ l[i] \in S
        BY <2>1, <1>1
    <2> QED
        BY <2>2 DEF StrictOrder
<1>4. Cardinality(S) = n
    <2> DEFINE D == 1..n
    <2>1. IsFiniteSet(D) /\ Cardinality(D) = n
        BY <1>1, Counted
    <2>2. DOMAIN l = D /\ \A i, j \in D : l[i] = l[j] => i = j
        BY <1>3
    <2>3. S = {l[i] : i \in D}
        BY <1>1
    <2> HIDE DEF D
    <2> QED
        BY <2>1, <2>2, <2>3, ImagedOnce
<1>5. ASSUME NEW k \in 1..n
      PROVE  Cardinality(Preceding(S, before, l[k])) = k - 1
    <2> DEFINE D == 1..(k - 1)
               h == [i \in D |-> l[i]]
               P == Preceding(S, before, l[k])
    <2>1. IsFiniteSet(D) /\ Cardinality(D) = k - 1
        BY Counted
    <2>2. \A i \in D : i \in 1..n /\ i < k
        BY <1>1
    <2>3. DOMAIN h = D /\ \A i, j \in D : h[i] = h[j] => i = j
        BY <1>3, <2>2
    <2>4. \A i \in 1..n : i < k => i \in D
        BY <1>1
    <2>5. P = {h[i] : i \in D}
        <3>1. ASSUME NEW y \in P PROVE \E i \in D : y = h[i]
            <4>1. y \in S /\ <<y, l[k]>> \in before
                BY DEF Preceding
            <4>2. PICK i \in 1..n : l[i] = y
                BY <4>1
            <4>3. i \in D
                BY <4>1, <4>2, <1>2, <2>4
            <4> QED
                BY <4>2, <4>3
        <3>2. ASSUME NEW i \in D PROVE h[i] \in P
            BY <1>1, <2>2 DEF Preceding
        <3> QED
            BY <3>1, <3>2
    <2> HIDE DEF D, h, P
    <2>6. Cardinality(P) = Cardinality(D)
        BY ONLY <2>1, <2>3, <2>5, ImagedOnce
    <2> QED
        BY <2>1, <2>6 DEF P
<1>r. /\ Cardinality(S) \in Nat
      /\ \A x \in S : Cardinality(Preceding(S, before, x)) \in 0..(Cardinality(S) - 1)
      /\ \A x, y \in S : <<x, y>> \in before =>
             Cardinality(Preceding(S, before, x)) < Cardinality(Preceding(S, before, y))
    BY RanksGrow, FS_CardinalityType
<1>6. ASSUME NEW x \in S, NEW y \in S,
             Cardinality(Preceding(S, before, x)) = Cardinality(Preceding(S, before, y))
      PROVE  x = y
    <2> PICK a, b : /\ a = Cardinality(Preceding(S, before, x))
                    /\ b = Cardinality(Preceding(S, before, y))
        OBVIOUS
    <2>1. a \in Int /\ (<<x, y>> \in before => a < b) /\ (<<y, x>> \in before => b < a)
        <3> DEFINE rank(z) == Cardinality(Preceding(S, before, z))
        <3>1. a = rank(x) /\ b = rank(y) /\ \A z \in S : rank(z) \in Int
            BY <1>r
        <3>2. \A z, w \in S : <<z, w>> \in before => rank(z) < rank(w)
            BY <1>r
        <3> HIDE DEF rank
        <3> QED
            BY ONLY <3>1, <3>2
    <2>2. <<x, y>> \notin before /\ <<y, x>> \notin before
        BY <2>1, <1>6
    <2> QED
        BY <2>2 DEF StrictOrder
<1>7. ASSUME NEW k \in 1..n
      PROVE  (CHOOSE x \in S : Cardinality(Preceding(S, before, x)) = k - 1) = l[k]
    BY <1>1, <1>5, <1>6
<1>8. l = [k \in 1..n |-> l[k]]
    OBVIOUS
<1> HIDE DEF n
<1>9. Listing(S, before) =
          [k \in 1..n |-> CHOOSE x \in S : Cardinality(Preceding(S, before, x)) = k - 1]
    BY <1>4 DEF Listing
<1>10. Listing(S, before) = [k \in 1..n |-> l[k]]
    BY ONLY <1>7, <1>9, Zenon
<1> QED
    BY <1>8, <1>10

(* A recursive function on 0..n: step[i][x] is what step i makes of x, and  *)
(* S[i] the type of what step i makes.                                     *)
Typed(n, S, a, step) ==
    a \in S[0] /\ \A i \in 1..n : \A x \in S[i - 1] : step[i][x] \in S[i]

(* There is such a function, of these types. *)
LEMMA Unrolled ==
    ASSUME NEW n \in Nat, NEW S, NEW a, NEW step, Typed(n, S, a, step)
    PROVE  \E f : /\ f = [i \in 0..n |-> IF i = 0 THEN a ELSE step[i][f[i - 1]]]
                  /\ \A i \in 0..n : f[i] \in S[i]
<1> DEFINE Made(m, f) == /\ f = [i \in 0..m |-> IF i = 0 THEN a ELSE step[i][f[i - 1]]]
                         /\ \A i \in 0..m : f[i] \in S[i]
           P == {m \in 0..n : \E f : Made(m, f)}
<1>0. a \in S[0] /\ \A i \in 1..n : \A x \in S[i - 1] : step[i][x] \in S[i]
    BY DEF Typed
<1>1. 0 \in P
    <2> DEFINE f == [i \in 0..0 |-> a]
    <2>1. \A i \in 0..0 : i = 0
        OBVIOUS
    <2>2. f = [i \in 0..0 |-> IF i = 0 THEN a ELSE step[i][f[i - 1]]]
        BY <2>1, Zenon
    <2>3. \A i \in 0..0 : f[i] \in S[i]
        BY <1>0, <2>1
    <2>4. Made(0, f)
        BY <2>2, <2>3
    <2>5. 0 \in 0..n
        OBVIOUS
    <2> HIDE DEF Made, f
    <2> QED
        BY <2>4, <2>5
<1>2. ASSUME NEW m \in 1..n, m - 1 \in P
      PROVE  m \in P
    <2>1. PICK f : Made(m - 1, f)
        BY <1>2
    <2> DEFINE g == [i \in 0..m |-> IF i = m THEN step[m][f[m - 1]] ELSE f[i]]
    <2>2. /\ f = [i \in 0..(m - 1) |-> IF i = 0 THEN a ELSE step[i][f[i - 1]]]
          /\ \A i \in 0..(m - 1) : f[i] \in S[i]
        BY <2>1
    <2>3. m - 1 \in 0..(m - 1) /\ m - 1 \in 0..m /\ m - 1 # m /\ m # 0 /\ m \in 0..n
        OBVIOUS
    <2>4. ASSUME NEW i \in 0..m
          PROVE  g[i] = (IF i = 0 THEN a ELSE step[i][g[i - 1]]) /\ g[i] \in S[i]
        <3>0. i # m => i \in 0..(m - 1)
            OBVIOUS
        <3>1. CASE i = m
            <4>1. g[m - 1] = f[m - 1] /\ g[m] = step[m][f[m - 1]]
                BY <2>3
            <4>2. step[m][f[m - 1]] \in S[m]
                BY <1>0, <2>2, <2>3
            <4> HIDE DEF g
            <4> QED
                BY <3>1, <4>1, <4>2, <2>3
        <3>2. CASE i # m
            <4>1. g[i] = f[i] /\ f[i] \in S[i]
                BY <3>2, <3>0, <2>2
            <4>2. i # 0 => i - 1 \in 0..m /\ i - 1 # m
                BY <3>0, <3>2
            <4>3. i # 0 => g[i - 1] = f[i - 1]
                BY <4>2
            <4>4. f[i] = IF i = 0 THEN a ELSE step[i][f[i - 1]]
                BY <2>2, <3>0, <3>2
            <4> HIDE DEF g
            <4> QED
                BY <4>1, <4>3, <4>4
        <3> QED
            BY <3>1, <3>2
    <2>5. g = [i \in 0..m |-> g[i]]
        OBVIOUS
    <2> HIDE DEF g
    <2>6. g = [i \in 0..m |-> IF i = 0 THEN a ELSE step[i][g[i - 1]]]
        BY ONLY <2>4, <2>5, Zenon
    <2>7. Made(m, g)
        BY <2>4, <2>6
    <2> HIDE DEF Made
    <2> QED
        BY <2>3, <2>7
<1>3. n \in P
    <2> HIDE DEF P
    <2>1. n \in 0..n
        OBVIOUS
    <2> QED
        BY <1>1, <1>2, <2>1, UpTo
<1> QED
    BY <1>3

(* Whatever makes these steps keeps to the types. *)
LEMMA Reached ==
    ASSUME NEW n \in Nat, NEW S, NEW a, NEW step, Typed(n, S, a, step),
           NEW s, s[0] = a, \A i \in 1..n : s[i - 1] \in S[i - 1] => s[i] = step[i][s[i - 1]]
    PROVE  \A i \in 0..n : s[i] \in S[i]
<1> DEFINE P == {i \in 0..n : s[i] \in S[i]}
<1>0. a \in S[0] /\ \A i \in 1..n : \A x \in S[i - 1] : step[i][x] \in S[i]
    BY DEF Typed
<1>1. 0 \in P
    BY <1>0
<1>2. ASSUME NEW i \in 1..n, i - 1 \in P
      PROVE  i \in P
    <2>1. s[i - 1] \in S[i - 1] /\ i \in 0..n
        BY <1>2
    <2>2. s[i] \in S[i]
        BY <1>0, <2>1
    <2> QED
        BY <2>1, <2>2
<1>3. \A i \in 0..n : i \in P
    <2> HIDE DEF P
    <2> QED
        BY <1>1, <1>2, UpTo
<1> QED
    BY <1>3
=============================================================================
