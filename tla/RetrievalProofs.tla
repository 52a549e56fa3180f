-------------------------- MODULE RetrievalProofs ---------------------------
(***************************************************************************)
(* Theorems about retrieval: about Query, for any library, requests and    *)
(* parameters, and any deletions by other threads between the reads of a   *)
(* query, and about AnnIndex, for any corpus and order of insertions.      *)
(***************************************************************************)
EXTENDS Query, AnnIndex, ListsProofs

(* The steps of a query. *)
QuerySteps == {"idle", "summary", "dense", "lexical", "entity", "rows", "select", "provenance", "done"}

(* What a statement found was there: since then it was at most deleted.    *)
Seen(S) == \A c \in S : c \in DOMAIN library /\ Doc(c) \in documents \cup deleted

Begun ==
    /\ library \in Libraries /\ step \in QuerySteps
    /\ step # "done" => answer = "none"
    /\ IF step = "idle"
       THEN deleted = {} /\ dense = <<>> /\ lexical = <<>> /\ fused = <<>> /\ hits = <<>>
       ELSE req \in Requests
    /\ step = "summary" => Intent(req) = "summary"

(* What the channels hold bears on the query in the way of the channel. *)
ChannelsBear ==
    /\ dense \in Seq(DOMAIN library) /\ lexical \in Seq(DOMAIN library)
    /\ Seen(ToSet(dense) \ FromIndex) /\ Seen(ToSet(lexical))
    /\ \A c \in ToSet(dense) : Similar(c) /\ Mode(req) \in {"vector", "hybrid"}
    /\ \A c \in ToSet(lexical) : HasTerms(c) /\ Mode(req) \in {"lexical", "hybrid"}

(* Once the lexical channel is read it has all that match, or is full. *)
LexicalWhole ==
    (step \in {"entity", "rows", "select", "provenance"} \/ Answered)
            /\ Mode(req) \in {"lexical", "hybrid"} /\ Len(lexical) < Fetch(req) =>
        {c \in candidate_ids(req) : HasTerms(c)} \subseteq ToSet(lexical)

FusedBears ==
    /\ DOMAIN fused \subseteq DOMAIN library /\ Seen(DOMAIN fused \ FromIndex)
    /\ \A c \in DOMAIN fused : Finds(c) /\ fused[c] \in Int
    /\ step \in {"idle", "summary", "dense", "lexical", "entity"} => DOMAIN fused = {}
    /\ step \in {"rows", "select", "provenance"} \/ Answered =>
           ToSet(lexical) \subseteq DOMAIN fused

(* Hits among the chunks F. *)
HitsOf(F) == [id : F, score : Int, rank : Nat]

(* What Select leaves of the chunks F. *)
Chosen(list, F) ==
    /\ list \in Seq(HitsOf(F))
    /\ \A i, j \in 1..Len(list) : list[i].id = list[j].id => i = j
    /\ \A i \in 2..Len(list) : list[i - 1].rank < list[i].rank
    /\ F # {} /\ req.top_k > 0 => list # <<>>
    /\ Constraint(req) # "years" => Len(list) = Lesser(req.top_k, Cardinality(F))
    /\ Constraint(req) = "years" =>
           \/ \A i \in 1..Len(list) : matches_constraint(req, list[i].id)
           \/ \A i \in 1..Len(list) : ~matches_constraint(req, list[i].id)
    /\ Constraint(req) = "latest" =>
           \A i \in 1..Len(list) :
               /\ list[i].rank = i
               /\ i > 1 => list[i].score <= list[i - 1].score

QueryInv ==
    /\ Begun /\ ChannelsBear /\ LexicalWhole /\ FusedBears
    /\ step = "provenance" \/ Answered => Chosen(hits, DOMAIN fused)
    /\ FailsForCause

(* sort_by on scores: all of a finite set of scored chunks, once, the best *)
(* first.                                                                  *)
LEMMA SortedSound ==
    ASSUME NEW S, IsFiniteSet(S), \A x \in S : x.id \in Int /\ x.score \in Int,
           \A x, y \in S : x.id = y.id => x = y, NEW l, l = Sorted(S)
    PROVE  /\ l \in Seq(S) /\ Len(l) = Cardinality(S) /\ Cardinality(S) \in Nat
           /\ \A x \in S : \E k \in 1..Len(l) : l[k] = x
           /\ \A i, j \in 1..Len(l) : i < j => l[j].score <= l[i].score
           /\ \A i, j \in 1..Len(l) : l[i].id = l[j].id => i = j
<1> DEFINE B == {p \in S \X S : \/ p[1].score > p[2].score
                                \/ p[1].score = p[2].score /\ p[1].id < p[2].id}
<1>1. \A x, y \in S : <<x, y>> \in B <=> \/ x.score > y.score
                                         \/ x.score = y.score /\ x.id < y.id
    OBVIOUS
<1>2. l = Listing(S, B)
    BY DEF Sorted
<1> HIDE DEF B
<1>3. StrictOrder(S, B)
    <2>1. \A x \in S : <<x, x>> \notin B
        BY <1>1
    <2>2. ASSUME NEW x \in S, NEW y \in S, NEW z \in S, <<x, y>> \in B, <<y, z>> \in B
          PROVE  <<x, z>> \in B
        BY <1>1, <2>2
    <2>3. ASSUME NEW x \in S, NEW y \in S, x # y
          PROVE  <<x, y>> \in B \/ <<y, x>> \in B
        <3>1. x.id # y.id /\ x.id \in Int /\ y.id \in Int /\ x.score \in Int /\ y.score \in Int
            BY <2>3
        <3> QED
            BY <3>1, <1>1
    <2> QED
        BY <2>1, <2>2, <2>3 DEF StrictOrder
<1>4. /\ Cardinality(S) \in Nat /\ l \in Seq(S) /\ Len(l) = Cardinality(S)
      /\ \A x \in S : \E k \in 1..Len(l) : l[k] = x
      /\ \A i, j \in 1..Len(l) : i < j => <<l[i], l[j]>> \in B
      /\ \A i, j \in 1..Len(l) : l[i] = l[j] => i = j
    BY <1>2, <1>3, ListingSound
<1>5. \A i \in 1..Len(l) : l[i] \in S
    BY <1>4, Elements
<1>6. ASSUME NEW i \in 1..Len(l), NEW j \in 1..Len(l), i < j
      PROVE  l[j].score <= l[i].score
    <2> DEFINE x == l[i]
               y == l[j]
    <2>1. x \in S /\ y \in S /\ <<x, y>> \in B
        BY <1>4, <1>5, <1>6
    <2> HIDE DEF x, y
    <2>2. y.score <= x.score
        BY <2>1, <1>1
    <2> QED
        BY <2>2 DEF x, y
<1>7. ASSUME NEW i \in 1..Len(l), NEW j \in 1..Len(l), l[i].id = l[j].id
      PROVE  i = j
    <2>1. l[i] = l[j]
        BY <1>5, <1>7
    <2> QED
        BY <2>1, <1>4
<1> QED
    BY <1>4, <1>6, <1>7

(* A list of n candidates, each a different element of F. *)
Candidates(l, F, n) ==
    /\ l \in Seq([id : F, score : Int]) /\ Len(l) = n
    /\ \A i, j \in 1..n : l[i].id = l[j].id => i = j

(* The fused chunks, sorted, are as many candidates. *)
LEMMA FusedSorted ==
    ASSUME NEW F, F \subseteq Nat, IsFiniteSet(F), NEW f \in [F -> Int],
           NEW l, l = Sorted({[id |-> c, score |-> f[c]] : c \in F})
    PROVE  Candidates(l, F, Cardinality(F))
<1> DEFINE g == [c \in F |-> [id |-> c, score |-> f[c]]]
           S == {g[c] : c \in F}
<1>1. DOMAIN g = F /\ \A x, y \in F : g[x] = g[y] => x = y
    OBVIOUS
<1>2. S \subseteq [id : F, score : Int] /\ \A x, y \in S : x.id = y.id => x = y
    OBVIOUS
<1>3. l = Sorted(S)
    <2>1. S = {[id |-> c, score |-> f[c]] : c \in F}
        OBVIOUS
    <2> QED
        BY <2>1
<1>4. IsFiniteSet(S) /\ Cardinality(S) = Cardinality(F)
    <2>1. DOMAIN g = F /\ S = {g[c] : c \in F}
        BY <1>1
    <2> HIDE DEF g, S
    <2> QED
        BY ONLY IsFiniteSet(F), <1>1, <2>1, ImagedOnce
<1>5. \A x \in S : x.id \in Int /\ x.score \in Int
    BY <1>2
<1> HIDE DEF S
<1>6. /\ l \in Seq(S) /\ Len(l) = Cardinality(S)
      /\ \A i, j \in 1..Len(l) : l[i].id = l[j].id => i = j
    BY <1>2, <1>3, <1>4, <1>5, SortedSound
<1>7. l \in Seq([id : F, score : Int])
    <2> DEFINE T == [id : F, score : Int]
    <2>1. S \subseteq T
        BY <1>2
    <2> HIDE DEF T
    <2>2. l \in Seq(T)
        BY <1>6, <2>1, Widen
    <2> QED
        BY <2>2 DEF T
<1> QED
    BY <1>4, <1>6, <1>7 DEF Candidates

(* What the assumptions say of the library and the request. *)
Known == library \in Libraries /\ req \in Requests

(* The normalised coverage is a number: the window's span is not divided   *)
(* by when it is zero.                                                     *)
LEMMA PartIsNumber ==
    ASSUME NEW S \in SUBSET Int, IsFiniteSet(S), NEW x \in S
    PROVE  Part(S, x) \in Int
<1> DEFINE low == CHOOSE y \in S : \A z \in S : y <= z
           high == CHOOSE y \in S : \A z \in S : z <= y
<1>1. low \in S /\ high \in S /\ low <= high /\ low \in Int /\ high \in Int
    BY Extremes
<1> HIDE DEF low, high
<1>2. ASSUME high # low
      PROVE  (100000 * (x - low)) \div (high - low) \in Int
    <2>1. high - low \in Nat \ {0} /\ 100000 * (x - low) \in Int
        BY <1>1, <1>2
    <2> QED
        BY <2>1
<1> QED
    BY <1>2 DEF Part, low, high

(* The term coverage is a number: there are terms to divide by. *)
LEMMA CoverageIsNumber ==
    ASSUME Known, NEW c \in DOMAIN library, req.terms # {}
    PROVE  Coverage(c) \in Int
<1> DEFINE S == library[c].terms \cap req.terms
           a == Cardinality(S)
           n == Cardinality(req.terms)
           d == library[c].damp
<1>1. IsFiniteSet(req.terms) /\ d \in Nat \ {0}
    BY QueryAssumption DEF Known
<1>2. IsFiniteSet(S) /\ a \in Nat
    <2>1. S \in SUBSET req.terms
        OBVIOUS
    <2> HIDE DEF S
    <2> QED
        BY <1>1, <2>1, FS_Subset, FS_CardinalityType
<1>3. n \in Nat \ {0}
    BY <1>1, FS_CardinalityType, FS_EmptySet
<1>4. Coverage(c) = (10000 * a) \div (n * d)
    BY DEF Coverage
<1> HIDE DEF a, n, d
<1>5. n * d \in Nat \ {0}
    BY <1>1, <1>3
<1> QED
    BY <1>2, <1>4, <1>5

(* rerank_lexical_overlap neither loses nor repeats a candidate: the       *)
(* window is sorted among itself and put before the rest.                  *)
LEMMA RerankKeeps ==
    ASSUME Known, NEW F \in SUBSET (DOMAIN library), NEW n \in Nat,
           NEW list, Candidates(list, F, n), NEW l, l = rerank_lexical_overlap(list)
    PROVE  Candidates(l, F, n)
<1> DEFINE T == [id : F, score : Int]
           m == Lesser(rerank_top_n, Len(list))
           window == {list[i] : i \in 1..m}
           raws == {Coverage(s.id) : s \in window}
           again == {[id |-> s.id, score |-> (s.score + Part(raws, Coverage(s.id))) \div 2] : s \in window}
           first == Sorted(again)
           rest == SubSeq(list, m + 1, Len(list))
<1>1. /\ list \in Seq(T) /\ Len(list) = n
      /\ \A i, j \in 1..n : list[i].id = list[j].id => i = j
    BY DEF Candidates
<1>2. m \in Nat /\ m <= n /\ F \subseteq Nat
    BY <1>1, QueryAssumption, Smaller DEF Known
<1>3. CASE list = <<>> \/ rerank_top_n = 0 \/ req.terms = {}
    BY <1>3 DEF rerank_lexical_overlap
<1>4. CASE ~(list = <<>> \/ rerank_top_n = 0 \/ req.terms = {})
    <2>1. \A i \in 1..m : /\ i \in 1..n /\ list[i] \in T
                          /\ list[i].id \in F /\ list[i].score \in Int
        <3>1. \A i \in 1..m : i \in 1..n
            BY <1>2
        <3>2. \A x \in T : x.id \in F /\ x.score \in Int
            OBVIOUS
        <3> HIDE DEF T, m
        <3>3. \A i \in 1..n : list[i] \in T
            BY <1>1, Elements
        <3> QED
            BY <3>1, <3>2, <3>3
    <2>2. IsFiniteSet(1..m) /\ Cardinality(1..m) = m
        BY <1>2, Counted
    <2>3. IsFiniteSet(window) /\ Cardinality(window) = m
        <3> DEFINE h == [i \in 1..m |-> list[i]]
        <3>1. DOMAIN h = 1..m /\ \A i, j \in 1..m : h[i] = h[j] => i = j
            BY <1>1, <2>1
        <3>2. window = {h[i] : i \in 1..m}
            OBVIOUS
        <3> HIDE DEF h, window
        <3> DEFINE D == 1..m
        <3> HIDE DEF D
        <3>3. IsFiniteSet(window) /\ Cardinality(window) = Cardinality(D)
            <4>1. IsFiniteSet(D) /\ DOMAIN h = D /\ (\A i, j \in D : h[i] = h[j] => i = j)
                  /\ window = {h[i] : i \in D}
                BY <2>2, <3>1, <3>2 DEF D
            <4> QED
                BY <4>1, ImagedOnce
        <3> QED
            BY <2>2, <3>3 DEF D
    <2>4. \A s \in window : Coverage(s.id) \in Int /\ s.id \in F /\ s.score \in Int
        <3>1. \A c \in F : Coverage(c) \in Int
            BY <1>4, CoverageIsNumber
        <3> QED
            BY <2>1, <3>1
    <2>5. \A s, t \in window : s.id = t.id => s = t
        BY <1>1, <2>1
    <2>6. l = first \o SubSeq(list, Cardinality(window) + 1, Len(list))
        BY <1>4 DEF rerank_lexical_overlap
    <2>7. l = first \o rest
        BY <2>3, <2>6
    <2> HIDE DEF window
    <2>8. IsFiniteSet(raws) /\ raws \in SUBSET Int
        <3> DEFINE h == [s \in window |-> Coverage(s.id)]
        <3>1. DOMAIN h = window /\ raws = {h[s] : s \in window}
            OBVIOUS
        <3> HIDE DEF h, raws
        <3>2. IsFiniteSet({h[s] : s \in window})
            BY <2>3, <3>1, Imaged
        <3>3. raws \in SUBSET Int
            BY <2>4 DEF raws
        <3> QED
            BY <3>1, <3>2, <3>3
    <2>9. \A s \in window : Part(raws, Coverage(s.id)) \in Int
        <3>1. \A s \in window : Coverage(s.id) \in raws
            OBVIOUS
        <3> HIDE DEF raws
        <3> QED
            BY <2>8, <3>1, PartIsNumber
    <2> HIDE DEF raws
    <2>10. \A s \in window : (s.score + Part(raws, Coverage(s.id))) \div 2 \in Int
        BY <2>4, <2>9
    <2>11. /\ IsFiniteSet(again) /\ Cardinality(again) = m
           /\ again \subseteq T
           /\ \A x \in again : \E s \in window : x.id = s.id
           /\ \A x, y \in again : x.id = y.id => x = y
        <3> DEFINE h == [s \in window |->
                            [id |-> s.id, score |-> (s.score + Part(raws, Coverage(s.id))) \div 2]]
        <3>1. DOMAIN h = window /\ again = {h[s] : s \in window}
            OBVIOUS
        <3>2. \A s \in window : h[s] \in T /\ h[s].id = s.id
            BY <2>4, <2>10
        <3> HIDE DEF h, again
        <3>3. \A s, t \in window : h[s] = h[t] => s = t
            BY <3>2, <2>5
        <3>4. IsFiniteSet(again) /\ Cardinality(again) = m
            BY <2>3, <3>1, <3>3, ImagedOnce
        <3>5. \A x \in again : \E s \in window : x = h[s]
            BY <3>1
        <3> QED
            BY <3>1, <3>2, <3>4, <3>5, <2>5
    <2>12. first = Sorted(again)
        OBVIOUS
    <2> HIDE DEF again, first
    <2>13. \A x \in again : x.id \in Int /\ x.score \in Int
        BY <2>11, <1>2
    <2>14. /\ first \in Seq(again) /\ Len(first) = m
           /\ \A i, j \in 1..m : first[i].id = first[j].id => i = j
        <3> HIDE DEF T, m, rest
        <3>1. IsFiniteSet(again) /\ \A x, y \in again : x.id = y.id => x = y
            BY ONLY <2>11
        <3>2. /\ first \in Seq(again) /\ Len(first) = Cardinality(again)
              /\ \A i, j \in 1..Len(first) : first[i].id = first[j].id => i = j
            BY ONLY <3>1, <2>12, <2>13, SortedSound
        <3> QED
            BY ONLY <3>2, <2>11
    <2>15. first \in Seq(T)
        <3> HIDE DEF T
        <3> QED
            BY <2>11, <2>14, Widen
    <2>16. \A i \in 1..m : \E k \in 1..m : first[i].id = list[k].id
        <3>1. \A i \in 1..m : first[i] \in again
            BY <2>14, Elements
        <3> QED
            BY <3>1, <2>11 DEF window
    <2>17. /\ rest \in Seq(T) /\ Len(rest) = n - m
           /\ \A i \in 1..(n - m) : rest[i] = list[m + i] /\ m + i \in 1..n
        <3> HIDE DEF T, m
        <3> QED
            BY <1>1, <1>2
    <2> HIDE DEF T, m, rest
    <2>18. /\ l \in Seq(T) /\ Len(l) = m + (n - m)
           /\ \A i \in 1..m : l[i] = first[i]
           /\ \A i \in (m + 1)..n : i - m \in 1..(n - m) /\ l[i] = rest[i - m]
        <3>1. m + (n - m) = n
            BY <1>2
        <3>2. /\ first \o rest \in Seq(T) /\ Len(first \o rest) = Len(first) + Len(rest)
              /\ \A i \in 1..Len(first) : (first \o rest)[i] = first[i]
              /\ \A i \in (Len(first) + 1)..(Len(first) + Len(rest)) :
                     i - Len(first) \in 1..Len(rest) /\ (first \o rest)[i] = rest[i - Len(first)]
            BY <2>15, <2>17, Joined
        <3> QED
            BY <2>7, <2>14, <2>17, <3>1, <3>2
    <2>19. \A i \in (m + 1)..n : l[i] = list[i]
        <3> SUFFICES ASSUME NEW i \in (m + 1)..n
                     PROVE  l[i] = list[i]
            OBVIOUS
        <3>1. m + (i - m) = i /\ i - m \in 1..(n - m)
            BY <1>2
        <3> QED
            BY <3>1, <2>17, <2>18
    <2>20. ASSUME NEW i \in 1..n, NEW j \in 1..n, l[i].id = l[j].id
           PROVE  i = j
        <3>1. (i \in 1..m \/ i \in (m + 1)..n) /\ (j \in 1..m \/ j \in (m + 1)..n)
            BY <1>2
        <3>2. \A k \in 1..m : k \in 1..n
            BY <1>2
        <3>3. CASE i \in 1..m /\ j \in 1..m
            BY <3>3, <2>14, <2>18, <2>20
        <3>4. CASE i \in (m + 1)..n /\ j \in (m + 1)..n
            BY <3>4, <2>19, <2>20, <1>1
        <3>5. CASE i \in 1..m /\ j \in (m + 1)..n
            <4>1. PICK k \in 1..m : first[i].id = list[k].id
                BY <3>5, <2>16
            <4>2. list[k].id = list[j].id
                BY <4>1, <3>5, <2>18, <2>19, <2>20
            <4>3. k = j
                BY <4>2, <3>2, <1>1
            <4> QED
                BY <4>3, <3>5, <1>2
        <3>6. CASE j \in 1..m /\ i \in (m + 1)..n
            <4>1. PICK k \in 1..m : first[j].id = list[k].id
                BY <3>6, <2>16
            <4>2. list[k].id = list[i].id
                BY <4>1, <3>6, <2>18, <2>19, <2>20
            <4>3. k = i
                BY <4>2, <3>2, <1>1
            <4> QED
                BY <4>3, <3>6, <1>2
        <3> QED
            BY <3>1, <3>3, <3>4, <3>5, <3>6
    <2> QED
        BY <2>18, <2>20, <1>2 DEF Candidates, T
<1> QED
    BY <1>3, <1>4

(* The marginal relevance of a candidate is a number, whatever is chosen   *)
(* already.                                                                *)
LEMMA MarginalIsNumber ==
    ASSUME Known, NEW F, F \subseteq DOMAIN library, NEW n \in Nat,
           NEW list, Candidates(list, F, n), NEW c \in Seq(1..n), NEW i \in 1..n
    PROVE  Marginal(list, c, i) \in Int
<1> DEFINE T == [id : F, score : Int]
<1>1. list \in Seq(T) /\ Len(list) = n
    BY DEF Candidates
<1>2. \A j \in 1..n : list[j].id \in F /\ list[j].score \in Int
    <2>1. \A x \in T : x.id \in F /\ x.score \in Int
        OBVIOUS
    <2> HIDE DEF T
    <2>2. \A j \in 1..n : list[j] \in T
        BY <1>1, Elements
    <2> QED
        BY <2>1, <2>2
<1>3. \A j \in 1..n : Direction(list, j) \in Directions
    BY <1>2, QueryAssumption DEF Known, Direction, Directions, Zero
<1> DEFINE C == {cosine(Direction(list, i), Direction(list, j)) : j \in ToSet(c)}
           sims == {0} \cup C
<1>4. ToSet(c) \subseteq 1..n /\ IsFiniteSet(ToSet(c))
    <2>1. ToSet(c) \subseteq 1..n
        BY Image
    <2> QED
        BY <2>1, Counted, FS_Subset
<1>5. IsFiniteSet(C) /\ C \subseteq Int
    <2> DEFINE h == [j \in ToSet(c) |-> cosine(Direction(list, i), Direction(list, j))]
    <2>1. DOMAIN h = ToSet(c) /\ C = {h[j] : j \in ToSet(c)}
        OBVIOUS
    <2>2. C \subseteq Int
        BY <1>3, <1>4, CosineIsNumber
    <2> HIDE DEF h, C
    <2>3. IsFiniteSet({h[j] : j \in ToSet(c)})
        BY ONLY <1>4, <2>1, Imaged
    <2> QED
        BY <2>1, <2>2, <2>3
<1> HIDE DEF C
<1>6. IsFiniteSet(sims) /\ sims \in SUBSET Int /\ sims # {}
    <2>1. IsFiniteSet(C \cup {0})
        BY <1>5, FS_AddElement
    <2> DEFINE D == C \cup {0}
    <2>2. sims = D /\ D \subseteq Int /\ D # {}
        BY <1>5
    <2>3. IsFiniteSet(D)
        BY <2>1
    <2> HIDE DEF sims, D
    <2> QED
        BY <2>2, <2>3
<1>7. Likeness(list, c, i) \in Int
    <2>1. Likeness(list, c, i) = CHOOSE x \in sims : \A y \in sims : y <= x
        BY DEF Likeness, C
    <2> HIDE DEF sims
    <2> QED
        BY <1>6, <2>1, Extremes
<1>8. list[i].score \in Int /\ mmr_lambda \in Int /\ 100 - mmr_lambda \in Int
    BY <1>2, QueryAssumption
<1> QED
    BY <1>7, <1>8 DEF Marginal

(* Each pick of mmr_select is a candidate that is not chosen yet. *)
LEMMA PickNextSound ==
    ASSUME Known, NEW F, F \subseteq DOMAIN library, NEW n \in Nat,
           NEW list, Candidates(list, F, n), NEW c \in Seq(1..n), Len(c) < n
    PROVE  PickNext(list, c) \in 1..n /\ PickNext(list, c) \notin ToSet(c)
<1> DEFINE left == 1..Len(list) \ ToSet(c)
           v == [i \in left |-> Marginal(list, c, i)]
<1>1. Len(list) = n
    BY DEF Candidates
<1>2. left \subseteq 1..n /\ left # {}
    BY <1>1, Pigeon
<1>3. v \in [left -> Int] /\ \A i \in left : v[i] = Marginal(list, c, i)
    BY <1>2, MarginalIsNumber
<1>4. IsFiniteSet(left) /\ left \in SUBSET Int
    BY <1>2, Counted, FS_Subset
<1>5. PickNext(list, c) = CHOOSE i \in left : \A j \in left \ {i} :
                              \/ Marginal(list, c, i) > Marginal(list, c, j)
                              \/ Marginal(list, c, i) = Marginal(list, c, j) /\ i < j
    BY DEF PickNext
<1> HIDE DEF left, v
<1>6. \E i \in left : \A j \in left \ {i} : v[i] > v[j] \/ (v[i] = v[j] /\ i < j)
    BY <1>2, <1>3, <1>4, BestOf
<1>7. \E i \in left : \A j \in left \ {i} :
          \/ Marginal(list, c, i) > Marginal(list, c, j)
          \/ Marginal(list, c, i) = Marginal(list, c, j) /\ i < j
    BY <1>3, <1>6
<1>8. PickNext(list, c) \in left
    BY <1>5, <1>7
<1> QED
    BY <1>1, <1>8 DEF left

(* The picks of mmr_select, one after the other. *)
LEMMA Picks ==
    ASSUME NEW list, NEW k \in Nat,
           NEW s, s = CHOOSE f : f = [i \in 0..k |-> IF i = 0 THEN <<>>
                                                    ELSE Append(f[i - 1], PickNext(list, f[i - 1]))]
    PROVE  s[0] = <<>> /\ \A i \in 1..k : s[i] = Append(s[i - 1], PickNext(list, s[i - 1]))
<1> DEFINE Made(m) == \E f : f = [i \in 0..m |-> IF i = 0 THEN <<>>
                                                ELSE Append(f[i - 1], PickNext(list, f[i - 1]))]
           P == {m \in 0..k : Made(m)}
<1>1. 0 \in P
    <2> DEFINE f == [i \in 0..0 |-> <<>>]
    <2>1. \A i \in 0..0 : i = 0
        OBVIOUS
    <2>2. f = [i \in 0..0 |-> IF i = 0 THEN <<>> ELSE Append(f[i - 1], PickNext(list, f[i - 1]))]
        BY <2>1, Zenon
    <2>3. Made(0)
        BY <2>2, Zenon
    <2>4. 0 \in 0..k
        OBVIOUS
    <2> HIDE DEF Made
    <2> QED
        BY <2>3, <2>4
<1>2. ASSUME NEW m \in 1..k, m - 1 \in P
      PROVE  m \in P
    <2>1. PICK f : f = [i \in 0..(m - 1) |-> IF i = 0 THEN <<>>
                                            ELSE Append(f[i - 1], PickNext(list, f[i - 1]))]
        BY <1>2
    <2> DEFINE g == [i \in 0..m |-> IF i = m THEN Append(f[m - 1], PickNext(list, f[m - 1]))
                                    ELSE f[i]]
    <2>2. g = [i \in 0..m |-> IF i = 0 THEN <<>> ELSE Append(g[i - 1], PickNext(list, g[i - 1]))]
        <3>1. ASSUME NEW i \in 0..m
              PROVE  g[i] = IF i = 0 THEN <<>> ELSE Append(g[i - 1], PickNext(list, g[i - 1]))
            <4>0. i # m => i \in 0..(m - 1)
                OBVIOUS
            <4>1. CASE i = m
                <5>1. m - 1 \in 0..m /\ m - 1 # m /\ m # 0
                    OBVIOUS
                <5>2. g[m - 1] = f[m - 1]
                    BY <5>1
                <5>3. g[m] = Append(f[m - 1], PickNext(list, f[m - 1]))
                    OBVIOUS
                <5> HIDE DEF g
                <5> QED
                    BY <4>1, <5>1, <5>2, <5>3
            <4>2. CASE i # m
                <5>1. g[i] = f[i]
                    BY <4>2
                <5>2. i # 0 => i - 1 \in 0..m /\ i - 1 # m
                    BY <4>0, <4>2
                <5>3. i # 0 => g[i - 1] = f[i - 1]
                    BY <5>2
                <5>4. f[i] = IF i = 0 THEN <<>> ELSE Append(f[i - 1], PickNext(list, f[i - 1]))
                    BY <2>1, <4>0, <4>2
                <5> HIDE DEF g
                <5> QED
                    BY <5>1, <5>3, <5>4
            <4> QED
                BY <4>1, <4>2
        <3> QED
            BY <3>1
    <2>3. Made(m)
        <3> HIDE DEF g
        <3> QED
            BY <2>2, Zenon
    <2>4. m \in 0..k
        OBVIOUS
    <2> HIDE DEF Made
    <2> QED
        BY <2>3, <2>4
<1>3. Made(k)
    <2> HIDE DEF P
    <2>1. k \in P
        BY <1>1, <1>2, UpTo
    <2> QED
        BY <2>1 DEF P
<1>4. s = [i \in 0..k |-> IF i = 0 THEN <<>> ELSE Append(s[i - 1], PickNext(list, s[i - 1]))]
    BY <1>3, Zenon
<1>5. ASSUME NEW i \in 0..k
      PROVE  s[i] = IF i = 0 THEN <<>> ELSE Append(s[i - 1], PickNext(list, s[i - 1]))
    BY <1>4, Zenon
<1>6. 0 \in 0..k /\ \A i \in 1..k : i \in 0..k /\ i # 0
    OBVIOUS
<1> QED
    BY <1>5, <1>6

(* mmr_select takes as many candidates as asked for, or all, and none      *)
(* twice.                                                                  *)
LEMMA MmrKeeps ==
    ASSUME Known, NEW F, F \subseteq DOMAIN library, NEW n \in Nat,
           NEW list, Candidates(list, F, n), NEW k \in Nat, NEW l, l = mmr_select(list, k)
    PROVE  Candidates(l, F, Lesser(k, n))
<1> DEFINE T == [id : F, score : Int]
<1>1. /\ list \in Seq(T) /\ Len(list) = n
      /\ \A i, j \in 1..n : list[i].id = list[j].id => i = j
    BY DEF Candidates
<1>2. CASE k >= n \/ mmr_lambda = 100
    <2>1. l = Truncate(list, k)
        BY <1>1, <1>2 DEF mmr_select
    <2> HIDE DEF T
    <2>2. /\ l \in Seq(T) /\ Len(l) <= k /\ Len(l) <= Len(list)
          /\ Len(l) = k \/ Len(l) = Len(list)
          /\ \A i \in 1..Len(l) : l[i] = list[i]
        BY <1>1, <2>1, TruncateSound
    <2>3. Len(l) = Lesser(k, n) /\ \A i \in 1..Len(l) : i \in 1..n
        BY <2>2, <1>1 DEF Lesser
    <2> QED
        BY <2>2, <2>3, <1>1 DEF Candidates, T
<1>3. CASE ~(k >= n \/ mmr_lambda = 100)
    <2> DEFINE s == CHOOSE f : f = [i \in 0..k |-> IF i = 0 THEN <<>>
                                        ELSE Append(f[i - 1], PickNext(list, f[i - 1]))]
    <2>1. l = [i \in 1..k |-> list[s[k][i]]]
        BY <1>1, <1>3 DEF mmr_select
    <2>2. s[0] = <<>> /\ \A i \in 1..k : s[i] = Append(s[i - 1], PickNext(list, s[i - 1]))
        BY Picks
    <2> HIDE DEF s
    <2> DEFINE Once(c) == \A i, j \in 1..Len(c) : c[i] = c[j] => i = j
               P == {m \in 0..k : s[m] \in Seq(1..n) /\ Len(s[m]) = m /\ Once(s[m])}
    <2>3. 0 \in P
        <3>1. 0 \in 0..k /\ <<>> \in Seq(1..n) /\ Len(<<>>) = 0
            OBVIOUS
        <3>2. s[0] \in Seq(1..n) /\ Len(s[0]) = 0
            BY <2>2, <3>1
        <3>3. Once(s[0])
            BY <3>2
        <3> QED
            BY <3>1, <3>2, <3>3
    <2>4. ASSUME NEW m \in 1..k, m - 1 \in P
          PROVE  m \in P
        <3>1. PICK c : c = s[m - 1]
            OBVIOUS
        <3>2. c \in Seq(1..n) /\ Len(c) = m - 1 /\ Once(c)
            BY <2>4, <3>1
        <3>3. PICK p : p = PickNext(list, c)
            OBVIOUS
        <3>4. p \in 1..n /\ p \notin ToSet(c)
            <4>1. Len(c) < n
                BY <3>2, <1>3
            <4> QED
                BY <3>2, <3>3, <4>1, PickNextSound
        <3>5. s[m] = Append(c, p)
            BY <2>2, <3>1, <3>3
        <3>6. \A i \in 1..(m - 1) : c[i] # p
            <4>1. ToSet(c) = {c[i] : i \in 1..Len(c)}
                BY <3>2, Image
            <4> QED
                BY <4>1, <3>2, <3>4
        <3>7. /\ s[m] \in Seq(1..n) /\ Len(s[m]) = m /\ s[m][m] = p
              /\ \A i \in 1..(m - 1) : s[m][i] = c[i]
            BY <3>2, <3>4, <3>5
        <3>8. Once(s[m])
            <4> SUFFICES ASSUME NEW i \in 1..m, NEW j \in 1..m, s[m][i] = s[m][j]
                         PROVE  i = j
                BY <3>7
            <4>1. (i = m \/ i \in 1..(m - 1)) /\ (j = m \/ j \in 1..(m - 1))
                OBVIOUS
            <4> QED
                BY <4>1, <3>2, <3>6, <3>7
        <3>9. m \in 0..k
            OBVIOUS
        <3> QED
            BY <3>7, <3>8, <3>9
    <2>5. k \in P
        <3> HIDE DEF P
        <3> QED
            BY <2>3, <2>4, UpTo
    <2>6. PICK c : c = s[k]
        OBVIOUS
    <2>7. c \in Seq(1..n) /\ Len(c) = k /\ Once(c) /\ \A i \in 1..k : c[i] \in 1..n
        BY <2>5, <2>6
    <2>8. l = [i \in 1..k |-> list[c[i]]]
        BY <2>1, <2>6
    <2>9. \A i \in 1..n : list[i] \in T
        BY <1>1, Elements
    <2> HIDE DEF T
    <2>10. l \in Seq(T) /\ Len(l) = k
        BY <2>7, <2>8, <2>9
    <2>11. ASSUME NEW i \in 1..k, NEW j \in 1..k, l[i].id = l[j].id
           PROVE  i = j
        <3>1. PICK p, q : p = c[i] /\ q = c[j]
            OBVIOUS
        <3>2. p \in 1..n /\ q \in 1..n /\ list[p].id = list[q].id
            BY <2>7, <2>8, <2>11, <3>1
        <3>3. p = q
            BY <3>2, <1>1
        <3> QED
            BY <3>1, <3>3, <2>7
    <2>12. Lesser(k, n) = k
        BY <1>3 DEF Lesser
    <2> QED
        BY <2>10, <2>11, <2>12 DEF Candidates, T
<1> QED
    BY <1>2, <1>3

(* The hits r number the n elements of the list, which are of F. *)
Numbered(r, list, F, n) ==
    /\ r \in Seq(HitsOf(F)) /\ Len(r) = n
    /\ \A i \in 1..n : /\ r[i].rank = i /\ r[i].id = list[i].id
                       /\ r[i].score = list[i].score
    /\ \A i, j \in 1..n : r[i].id = r[j].id => i = j

(* Ranks numbers a list without changing it. *)
LEMMA RanksSound ==
    ASSUME NEW F, NEW n \in Nat, NEW list, Len(list) = n,
           \A i \in 1..n : list[i].id \in F /\ list[i].score \in Int,
           \A i, j \in 1..n : list[i].id = list[j].id => i = j
    PROVE  Numbered(Ranks(list), list, F, n)
<1> DEFINE r == Ranks(list)
<1>1. r = [i \in 1..n |-> [id |-> list[i].id, score |-> list[i].score, rank |-> i]]
    BY DEF Ranks
<1>2. \A i \in 1..n : /\ r[i] \in [id : F, score : Int, rank : Nat]
                      /\ r[i].rank = i /\ r[i].id = list[i].id /\ r[i].score = list[i].score
    BY <1>1
<1>3. \A i \in 1..n : r[i] \in HitsOf(F)
    BY <1>2 DEF HitsOf
<1>4. r \in [1..n -> HitsOf(F)]
    BY <1>1, <1>3
<1> HIDE DEF r
<1>5. r \in Seq(HitsOf(F)) /\ Len(r) = n
    BY <1>4
<1> QED
    BY <1>2, <1>5 DEF Numbered, r

(* What apply_temporal leaves of as many candidates as asked for. *)
LEMMA TemporalSound ==
    ASSUME Known, NEW F, F \subseteq DOMAIN library, IsFiniteSet(F),
           NEW list, Candidates(list, F, Lesser(req.top_k, Cardinality(F))),
           NEW l, l = temporal(Ranks(list))
    PROVE  Chosen(l, F)
<1> DEFINE n == Lesser(req.top_k, Cardinality(F))
           T == HitsOf(F)
           r == Ranks(list)
<1>1. /\ req.top_k \in Nat /\ Cardinality(F) \in Nat /\ n \in Nat
      /\ F # {} /\ req.top_k > 0 => n > 0
    BY QueryAssumption, FS_CardinalityType, FS_EmptySet DEF Known, Lesser
<1>t. r = Ranks(list)
    OBVIOUS
<1>2. /\ r \in Seq(T) /\ Len(r) = n
      /\ \A i \in 1..n : r[i].rank = i /\ r[i].id \in F /\ r[i].score \in Int
      /\ \A i, j \in 1..n : r[i].id = r[j].id => i = j
    <2> DEFINE C == [id : F, score : Int]
    <2>1. /\ list \in Seq(C) /\ Len(list) = n
          /\ \A i, j \in 1..n : list[i].id = list[j].id => i = j
        BY DEF Candidates
    <2>2. \A x \in C : x.id \in F /\ x.score \in Int
        OBVIOUS
    <2> HIDE DEF C, n, r
    <2>3. \A i \in 1..n : list[i].id \in F /\ list[i].score \in Int
        BY <2>1, <2>2, Elements
    <2>4. Numbered(Ranks(list), list, F, n)
        BY <1>1, <2>1, <2>3, RanksSound
    <2> QED
        BY <1>t, <2>3, <2>4 DEF Numbered
<1>3. F # {} /\ req.top_k > 0 => r # <<>>
    BY <1>1, <1>2
<1>4. l = temporal(r)
    OBVIOUS
<1> HIDE DEF r
<1>5. CASE Constraint(req) = "none"
    <2>1. l = r
        BY <1>4, <1>5 DEF temporal
    <2>2. \A i \in 2..n : r[i - 1].rank < r[i].rank
        <3>1. \A i \in 2..n : i - 1 \in 1..n /\ i \in 1..n /\ i - 1 < i
            BY <1>1
        <3> QED
            BY <3>1, <1>2
    <2> QED
        BY <2>1, <2>2, <1>2, <1>3, <1>5 DEF Chosen
<1>6. CASE Constraint(req) = "latest"
    <2> DEFINE S == {Fresher(h) : h \in ToSet(r)}
               q == Sorted(S)
    <2>1. l = Ranks(q)
        BY <1>4, <1>6 DEF temporal
    <2>2. ToSet(r) = {r[i] : i \in 1..n}
        <3> HIDE DEF T, n
        <3> QED
            BY <1>2, Image
    <2>3. \A c : temporal_score(c) \in Int
        <3>1. \A c : temporal_score(c) \in {0, 3, 6, 10}
            BY DEF temporal_score
        <3> QED
            BY <3>1
    <2>4. \A i \in 1..n : /\ Fresher(r[i]).id = r[i].id
                          /\ Fresher(r[i]).score \in Int
        BY <1>2, <2>3 DEF Fresher
    <2> DEFINE h == [i \in 1..n |-> Fresher(r[i])]
               D == 1..n
    <2>5. /\ DOMAIN h = D /\ S = {h[i] : i \in D}
          /\ \A i \in D : h[i].id = r[i].id /\ h[i].score \in Int
        BY <2>2, <2>4
    <2>6. IsFiniteSet(D) /\ Cardinality(D) = n
        BY <1>1, Counted
    <2>7. \A i, j \in D : h[i].id = h[j].id => i = j
        BY <1>2, <2>5
    <2> HIDE DEF h, S, q
    <2>8. IsFiniteSet(S) /\ Cardinality(S) = n
        <3>1. \A i, j \in D : h[i] = h[j] => i = j
            BY <2>7
        <3> HIDE DEF D
        <3> QED
            BY <2>5, <2>6, <3>1, ImagedOnce
    <2>9. \A x \in S : x.id \in F /\ x.id \in Int /\ x.score \in Int
        <3>1. \A c \in F : c \in Int
            BY QueryAssumption DEF Known
        <3> QED
            BY <3>1, <1>2, <2>5
    <2>10. \A x, y \in S : x.id = y.id => x = y
        BY <2>5, <2>7
    <2>11. q = Sorted(S)
        BY DEF q
    <2>12. /\ q \in Seq(S) /\ Len(q) = n
           /\ \A i, j \in 1..Len(q) : i < j => q[j].score <= q[i].score
           /\ \A i, j \in 1..Len(q) : q[i].id = q[j].id => i = j
        BY <2>8, <2>9, <2>10, <2>11, SortedSound
    <2>13. \A i \in 1..n : q[i].id \in F /\ q[i].score \in Int
        <3>1. \A i \in 1..Len(q) : q[i] \in S
            BY <2>12, Elements
        <3> QED
            BY <3>1, <2>9, <2>12
    <2>14. /\ l \in Seq(T) /\ Len(l) = n
           /\ \A i \in 1..n : l[i].rank = i /\ l[i].id = q[i].id /\ l[i].score = q[i].score
           /\ \A i, j \in 1..n : l[i].id = l[j].id => i = j
        <3>1. Len(q) = n /\ (\A i, j \in 1..n : q[i].id = q[j].id => i = j)
            BY <2>8, <2>12
        <3> HIDE DEF n
        <3>2. Numbered(Ranks(q), q, F, n)
            BY <1>1, <2>13, <3>1, RanksSound
        <3> QED
            BY <2>1, <3>2 DEF Numbered
    <2>15. \A i \in 2..n : i \in 1..n /\ i - 1 \in 1..n /\ i - 1 < i
        BY <1>1
    <2>16. \A i \in 2..n : l[i - 1].rank < l[i].rank /\ l[i].score <= l[i - 1].score
        BY <2>12, <2>14, <2>15
    <2>17. \A i \in 1..n : i > 1 => i \in 2..n
        BY <1>1
    <2>18. F # {} /\ req.top_k > 0 => l # <<>>
        BY <1>1, <2>14
    <2> QED
        BY <2>14, <2>16, <2>17, <2>18, <1>6 DEF Chosen
<1>7. CASE Constraint(req) = "years"
    <2> DEFINE P == {i \in 1..Len(r) : matches_constraint(req, r[i].id)}
               kept == Retain(r, P)
    <2>1. l = IF kept = <<>> THEN r ELSE kept
        BY <1>4, <1>7 DEF temporal, Meeting
    <2>2. PICK o : Retained(T, r, P, kept, o)
        <3>1. P \in SUBSET (1..Len(r)) /\ r \in Seq(T)
            BY <1>2
        <3> HIDE DEF P, T
        <3> QED
            BY <3>1, RetainSound
    <2>3. \A i \in P : i \in 1..n /\ matches_constraint(req, r[i].id)
        BY <1>2
    <2> HIDE DEF P, kept
    <2>4. /\ kept \in Seq(T) /\ Len(kept) \in Nat
          /\ \A k \in 1..Len(kept) : o[k] \in P /\ kept[k] = r[o[k]]
          /\ \A i, j \in 1..Len(kept) : i < j => o[i] < o[j]
          /\ \A p \in P : \E k \in 1..Len(kept) : o[k] = p
        BY <2>2 DEF Retained
    <2>5. CASE kept = <<>>
        <3>1. l = r
            BY <2>1, <2>5
        <3>2. \A i \in 1..n : ~matches_constraint(req, r[i].id)
            BY <2>4, <2>5, <1>2 DEF P
        <3>3. \A i \in 2..n : r[i - 1].rank < r[i].rank
            <4>1. \A i \in 2..n : i - 1 \in 1..n /\ i \in 1..n /\ i - 1 < i
                BY <1>1
            <4> QED
                BY <4>1, <1>2
        <3> QED
            BY <3>1, <3>2, <3>3, <1>2, <1>3, <1>7 DEF Chosen
    <2>6. CASE kept # <<>>
        <3>1. l = kept
            BY <2>1, <2>6
        <3>2. \A k \in 1..Len(l) : /\ o[k] \in 1..n /\ l[k] = r[o[k]] /\ l[k].rank = o[k]
                                   /\ matches_constraint(req, l[k].id)
            <4> SUFFICES ASSUME NEW k \in 1..Len(l)
                         PROVE  /\ o[k] \in 1..n /\ l[k] = r[o[k]] /\ l[k].rank = o[k]
                                /\ matches_constraint(req, l[k].id)
                OBVIOUS
            <4>1. PICK p : p = o[k]
                OBVIOUS
            <4>2. p \in P /\ l[k] = r[p]
                BY <2>4, <3>1, <4>1
            <4> QED
                BY <4>1, <4>2, <2>3, <1>2
        <3>3. \A i \in 2..Len(l) : l[i - 1].rank < l[i].rank
            <4>1. \A i \in 2..Len(l) : i - 1 \in 1..Len(l) /\ i \in 1..Len(l) /\ i - 1 < i
                BY <2>4, <3>1
            <4> QED
                BY <4>1, <3>1, <3>2, <2>4
        <3>4. ASSUME NEW i \in 1..Len(l), NEW j \in 1..Len(l), l[i].id = l[j].id
              PROVE  i = j
            <4>1. PICK p, q : p = o[i] /\ q = o[j]
                OBVIOUS
            <4>2. /\ p \in 1..n /\ q \in 1..n /\ r[p].id = r[q].id
                  /\ i < j => p < q
                  /\ j < i => q < p
                BY <4>1, <3>1, <3>2, <3>4, <2>4
            <4>3. p = q
                BY <4>2, <1>2
            <4> QED
                BY <4>2, <4>3, <2>4, <3>1
        <3> QED
            BY <3>1, <3>2, <3>3, <3>4, <2>4, <2>6, <1>7 DEF Chosen
    <2> QED
        BY <2>5, <2>6
<1>8. Constraint(req) \in {"none", "latest", "years"}
    BY DEF Constraint
<1> QED
    BY <1>5, <1>6, <1>7, <1>8

(* The chunks are finitely many, and their ids numbers. *)
LEMMA LibraryIsFinite ==
    ASSUME library \in Libraries
    PROVE  /\ IsFiniteSet(DOMAIN library) /\ \A c \in DOMAIN library : c \in Nat
           /\ \A S : S \subseteq DOMAIN library => IsFiniteSet(S)
           /\ Stored \subseteq DOMAIN library
<1>1. IsFiniteSet(DOMAIN library) /\ \A c \in DOMAIN library : c \in Nat
    BY QueryAssumption
<1>2. \A S : S \subseteq DOMAIN library => IsFiniteSet(S)
    BY <1>1, FS_Subset
<1> QED
    BY <1>1, <1>2 DEF Stored

(* The dense channel returns chunks of what was found that are similar to  *)
(* the query, whether a scan or the index found them.                      *)
LEMMA DenseSound ==
    ASSUME Known, NEW found, found \subseteq DOMAIN library,
           NEW l, l = rank_dense(req, found)
    PROVE  /\ l \in Seq(DOMAIN library)
           /\ \A c \in ToSet(l) : c \in found /\ Similar(c)
<1> DEFINE S == {c \in found : cosine(req.dir, library[c].dir) > 0}
           score == [c \in S |-> cosine(req.dir, library[c].dir)]
           B == {p \in S \X S : \/ score[p[1]] > score[p[2]]
                                \/ score[p[1]] = score[p[2]] /\ p[1] < p[2]}
           q == Listing(S, B)
<1>1. /\ S \subseteq found /\ S \subseteq DOMAIN library
      /\ \A c \in S : Similar(c)
    BY DEF Known, Similar
<1>2. \A c \in S : c \in Int /\ score[c] \in Int
    <2>1. \A c \in S : c \in Int /\ library[c].dir \in Directions
        BY <1>1, QueryAssumption DEF Known
    <2>2. req.dir \in Directions
        BY QueryAssumption DEF Known
    <2> QED
        BY <2>1, <2>2, CosineIsNumber
<1>3. l = Truncate(q, Fetch(req))
    <2>1. DOMAIN score = S
        OBVIOUS
    <2>2. ByScore(score) = q
        BY <2>1 DEF ByScore
    <2> QED
        BY <2>2 DEF rank_dense
<1>4. StrictOrder(S, B)
    <2>1. \A x, y \in S : <<x, y>> \in B <=> \/ score[x] > score[y]
                                             \/ score[x] = score[y] /\ x < y
        OBVIOUS
    <2> HIDE DEF S, B, score
    <2> QED
        BY <2>1, <1>2 DEF StrictOrder
<1>5. IsFiniteSet(S)
    BY <1>1, LibraryIsFinite DEF Known
<1>6. Fetch(req) \in Nat
    <2>1. req.top_k \in Nat /\ MinFetch \in Nat /\ MaxFetch \in Nat
        BY QueryAssumption DEF Known
    <2>2. 6 * req.top_k \in Nat
        BY <2>1
    <2> QED
        BY <2>1, <2>2, Smaller DEF Fetch
<1> HIDE DEF S, B
<1>7. q \in Seq(S)
    BY <1>4, <1>5, ListingSound
<1> HIDE DEF q
<1>8. l \in Seq(S)
    BY <1>3, <1>6, <1>7, TruncateSound
<1>9. l \in Seq(DOMAIN library) /\ ToSet(l) \subseteq S
    BY <1>1, <1>8, Widen, Image
<1> QED
    BY <1>1, <1>9

(* The lexical channel returns candidates with all the terms, and all of   *)
(* them unless it is full.                                                 *)
LEMMA LexicalSound ==
    ASSUME Known, NEW l \in lexical_search(req)
    PROVE  /\ l \in Seq(DOMAIN library)
           /\ \A c \in ToSet(l) : c \in Stored /\ HasTerms(c)
           /\ Len(l) < Fetch(req) => {c \in candidate_ids(req) : HasTerms(c)} \subseteq ToSet(l)
<1> DEFINE S == {c \in candidate_ids(req) : HasTerms(c)}
           n == Cardinality(S)
<1>1. PICK s \in SetToSeqs(S) : l = Truncate(s, Fetch(req))
    BY DEF lexical_search, HasTerms
<1>2. S \subseteq Stored /\ S \subseteq DOMAIN library /\ IsFiniteSet(S)
    BY LibraryIsFinite DEF candidate_ids, Known
<1>3. \A c \in S : HasTerms(c)
    OBVIOUS
<1> HIDE DEF S
<1>4. n \in Nat
    BY <1>2, FS_CardinalityType
<1>5. s \in [1..n -> S] /\ \A i, j \in 1..n : i # j => s[i] # s[j]
    BY DEF SetToSeqs
<1>6. s \in Seq(S) /\ Len(s) = n
    BY <1>4, <1>5
<1>7. \A x \in S : \E i \in 1..n : s[i] = x
    <2>1. s \in Injection(1..n, S)
        BY <1>5 DEF Injection, IsInjective
    <2>2. Cardinality(1..n) = n
        BY <1>4, Counted
    <2>3. s \in Surjection(1..n, S)
        BY <2>1, <2>2, <1>2, FS_Injection
    <2> QED
        BY <2>3 DEF Surjection
<1>8. Fetch(req) \in Nat
    <2>1. req.top_k \in Nat /\ MinFetch \in Nat /\ MaxFetch \in Nat
        BY QueryAssumption DEF Known
    <2>2. 6 * req.top_k \in Nat
        BY <2>1
    <2> QED
        BY <2>1, <2>2, Smaller DEF Fetch
<1> HIDE DEF n
<1>9. /\ l \in Seq(S) /\ Len(l) <= Fetch(req) /\ Len(l) <= Len(s)
      /\ Len(l) = Fetch(req) \/ Len(l) = Len(s)
      /\ \A k \in 1..Len(l) : l[k] = s[k]
    BY <1>1, <1>6, <1>8, TruncateSound
<1>10. l \in Seq(DOMAIN library) /\ ToSet(l) \subseteq S /\ ToSet(l) = {l[i] : i \in 1..Len(l)}
    BY <1>2, <1>9, Widen, Image
<1>11. Len(l) < Fetch(req) => S \subseteq ToSet(l)
    BY <1>6, <1>7, <1>8, <1>9, <1>10
<1> QED
    BY <1>2, <1>3, <1>10, <1>11 DEF S

(* The entity channel, of the entity mode only, returns stored chunks that *)
(* name an entity of the query.                                            *)
LEMMA EntitiesSound ==
    ASSUME Known
    PROVE  /\ EntityChannel \in Seq(DOMAIN library)
           /\ \A c \in ToSet(EntityChannel) : c \in Stored /\ NamesAny(c) /\ Mode(req) = "entity"
<1> DEFINE S == {c \in Stored : library[c].names \cap req.names # {}}
           l == Listing(S, Ascending)
<1>1. S \subseteq Stored /\ S \subseteq DOMAIN library /\ IsFiniteSet(S)
      /\ \A c \in S : NamesAny(c)
    BY LibraryIsFinite DEF Known, NamesAny
<1>2. StrictOrder(S, Ascending)
    <2>1. S \in SUBSET Int
        BY <1>1, LibraryIsFinite DEF Known
    <2> QED
        BY <2>1, Orderly
<1>3. CASE Mode(req) = "entity"
    <2>1. EntityChannel = l
        BY <1>3 DEF EntityChannel, chunks_for_entity
    <2> HIDE DEF S
    <2>2. l \in Seq(S)
        BY <1>1, <1>2, ListingSound
    <2> HIDE DEF l
    <2>3. l \in Seq(DOMAIN library) /\ ToSet(l) \subseteq S
        BY <1>1, <2>2, Widen, Image
    <2> QED
        BY <1>1, <1>3, <2>1, <2>3
<1>4. CASE Mode(req) # "entity"
    <2>1. EntityChannel = <<>>
        BY <1>4 DEF EntityChannel
    <2>2. EntityChannel \in Seq(DOMAIN library) /\ ToSet(EntityChannel) = {}
        BY <2>1, Elements DEF ToSet
    <2> QED
        BY <2>2
<1> QED
    BY <1>3, <1>4

(* What a channel contributes to a chunk's score is a number. *)
LEMMA ContributionIsNumber ==
    ASSUME NEW T, NEW list \in Seq(T), NEW weight \in Int, NEW c
    PROVE  Contribution(list, weight, c) \in Int
<1>1. CASE c \in ToSet(list)
    <2>1. \E i \in 1..Len(list) : list[i] = c
        BY <1>1, Image
    <2> DEFINE k == CHOOSE i \in 1..Len(list) : list[i] = c
    <2>2. k \in 1..Len(list)
        BY <2>1
    <2> HIDE DEF k
    <2>3. rrf_k + k \in Nat \ {0} /\ 1000 * weight \in Int
        BY <2>2 DEF rrf_k
    <2>4. Contribution(list, weight, c) = (1000 * weight) \div (rrf_k + k)
        BY <1>1 DEF Contribution, k
    <2> QED
        BY <2>3, <2>4
<1>2. CASE c \notin ToSet(list)
    BY <1>2 DEF Contribution
<1> QED
    BY <1>1, <1>2

(* So is the fused score, ... *)
LEMMA RrfIsNumber ==
    ASSUME ChannelsBear, NEW entity \in Seq(DOMAIN library), NEW c
    PROVE  Rrf(c, entity) \in Int
<1>1. WeightVector(req) \in Int /\ WeightFts(req) \in Int
    BY DEF WeightVector, WeightFts
<1>2. /\ Contribution(dense, WeightVector(req), c) \in Int
      /\ Contribution(lexical, WeightFts(req), c) \in Int
      /\ Contribution(entity, 80, c) \in Int
    <2>1. dense \in Seq(DOMAIN library) /\ lexical \in Seq(DOMAIN library)
        BY DEF ChannelsBear
    <2> QED
        BY <1>1, <2>1, ContributionIsNumber
<1> QED
    BY <1>2 DEF Rrf

(* ... and the boosted one. *)
LEMMA BoostedIsNumber ==
    ASSUME Known, NEW c \in DOMAIN library, NEW score \in Int
    PROVE  Boosted(c, score) \in Int
<1> DEFINE S == library[c].section \cap req.terms
<1>1. IsFiniteSet(req.terms) /\ library[c].authority \in Nat
    BY QueryAssumption DEF Known
<1>2. S \in SUBSET req.terms
    OBVIOUS
<1> HIDE DEF S
<1>3. Cardinality(S) \in Nat
    BY <1>1, <1>2, FS_Subset, FS_CardinalityType
<1>4. (score * library[c].authority) \div 10 \in Int
    <2>1. score * library[c].authority \in Int
        BY <1>1
    <2> QED
        BY <2>1
<1> QED
    BY <1>3, <1>4 DEF Boosted, S

(* What a step that keeps library and request keeps. *)
LEMMA SameRequest ==
    ASSUME library' = library, req' = req
    PROVE  /\ \A c : /\ Similar(c)' = Similar(c) /\ HasTerms(c)' = HasTerms(c)
                     /\ Finds(c)' = Finds(c)
           /\ Mode(req)' = Mode(req) /\ Fetch(req)' = Fetch(req)
           /\ \A l, F : Chosen(l, F)' = Chosen(l, F)
<1>1. \A c : Similar(c)' = Similar(c) /\ HasTerms(c)' = HasTerms(c) /\ NamesAny(c)' = NamesAny(c)
    BY DEF Similar, HasTerms, NamesAny
<1>2. \A c : Finds(c)' = Finds(c)
    BY <1>1 DEF Finds
<1>3. Mode(req)' = Mode(req) /\ Fetch(req)' = Fetch(req) /\ Constraint(req)' = Constraint(req)
    OBVIOUS
<1>4. \A c : matches_constraint(req, c)' = matches_constraint(req, c)
    BY DEF matches_constraint
<1>5. \A l, F : Chosen(l, F)' = Chosen(l, F)
    BY <1>3, <1>4 DEF Chosen
<1> QED
    BY <1>1, <1>2, <1>3, <1>5

(* ... and one that also keeps the documents. *)
LEMMA SameDocuments ==
    ASSUME library' = library, req' = req, documents' = documents
    PROVE  Stored' = Stored /\ candidate_ids(req)' = candidate_ids(req)
<1>1. Stored' = Stored
    BY DEF Stored
<1>2. \A d, names : Mentions(d, names)' = Mentions(d, names)
    BY <1>1 DEF Mentions
<1> QED
    BY <1>1, <1>2 DEF candidate_ids, PassesParts

(* What was seen stays seen while no document goes unnoticed. *)
LEMMA SameSeen ==
    ASSUME library' = library, documents' \cup deleted' = documents \cup deleted
    PROVE  \A S : Seen(S)' = Seen(S)
BY DEF Seen

(* What the index found is fixed once the dense channel is done. *)
LEMMA SameIndex ==
    ASSUME req' = req, dense' = dense
    PROVE  FromIndex' = FromIndex
BY DEF FromIndex, UsesIndex, NoFilter

(* The plan: a blank request fails, any other begins. *)
LEMMA QueryKeeps ==
    ASSUME QueryInv, NEW r \in Requests, query(r)
    PROVE  QueryInv'
<1>1. /\ library \in Libraries /\ answer = "none" /\ deleted = {} /\ dense = <<>> /\ lexical = <<>>
      /\ fused = <<>> /\ hits = <<>>
    BY DEF QueryInv, Begun, query
<1>2. /\ library' = library /\ documents' = documents /\ deleted' = deleted /\ dense' = dense
      /\ lexical' = lexical /\ fused' = fused /\ hits' = hits /\ req' = r
    BY DEF query
<1>3. \/ step' = "summary" /\ answer' = answer /\ Intent(r) = "summary"
      \/ step' = "dense" /\ answer' = answer
      \/ r.blank /\ step' = "done" /\ answer' = "empty query"
    BY DEF query, Fail
<1>4. Begun'
    BY <1>1, <1>2, <1>3 DEF Begun, QuerySteps
<1>5. ToSet(<<>>) = {} /\ DOMAIN <<>> = {}
    BY DEF ToSet
<1>6. ChannelsBear'
    <2>1. <<>> \in Seq(DOMAIN library)
        OBVIOUS
    <2> QED
        BY <1>1, <1>2, <1>5, <2>1 DEF ChannelsBear, Seen
<1>7. ~Answered' /\ step' \notin {"entity", "rows", "select", "provenance"}
    BY <1>3 DEF Answered
<1>8. LexicalWhole'
    BY <1>7 DEF LexicalWhole
<1>9. FusedBears'
    BY <1>1, <1>2, <1>5, <1>7 DEF FusedBears, Seen
<1>10. FailsForCause'
    BY <1>2, <1>3 DEF FailsForCause
<1> QED
    BY <1>4, <1>6, <1>7, <1>8, <1>9, <1>10 DEF QueryInv

(* What a step after the request keeps, whatever it finds. *)
LEMMA Onward ==
    ASSUME QueryInv, step # "idle", library' = library, req' = req, documents' = documents,
           deleted' = deleted
    PROVE  /\ Known /\ (step' \in QuerySteps \ {"idle", "summary", "done"} /\ answer' = answer /\ step # "done"
                            => Begun')
           /\ (step' = "done" => Begun')
           /\ (step' \in QuerySteps \ {"done"} => FailsForCause')
           /\ (step = "summary" => Intent(req) = "summary")
           /\ \A S : Seen(S)' = Seen(S)
BY SameSeen DEF QueryInv, Begun, Known, FailsForCause, QuerySteps

(* The fast path of a summary fails only for a document that does not      *)
(* exist.                                                                  *)
LEMMA FastPathKeeps ==
    ASSUME QueryInv, FastPath
    PROVE  QueryInv'
<1>1. /\ step = "summary" /\ library' = library /\ documents' = documents /\ deleted' = deleted
      /\ dense' = dense /\ lexical' = lexical /\ fused' = fused /\ hits' = hits /\ req' = req
    BY DEF FastPath
<1>2. \/ step' = "dense" /\ answer' = answer
      \/ step' = "done" /\ answer' = "summary"
      \/ step' = "done" /\ answer' = "no such document" /\ ~(req.docs \subseteq documents)
    BY DEF FastPath, Fail
<1>3. /\ Begun' /\ \A S : Seen(S)' = Seen(S)
      /\ step' = "dense" => FailsForCause'
      /\ Intent(req) = "summary"
    BY <1>1, <1>2, Onward DEF QuerySteps
<1>4. ~Answered' /\ step' \notin {"entity", "rows", "select", "provenance"}
    BY <1>2 DEF Answered
<1>5. ChannelsBear' /\ LexicalWhole' /\ FusedBears'
    BY <1>1, <1>3, <1>4, SameRequest, SameIndex
       DEF QueryInv, ChannelsBear, LexicalWhole, FusedBears
<1>6. FailsForCause'
    <2>1. CASE answer' \in {"summary", "no such document"}
        BY <2>1, <1>1, <1>2, <1>3 DEF FailsForCause
    <2>2. CASE step' = "dense"
        BY <2>2, <1>3
    <2> QED
        BY <2>1, <2>2, <1>2
<1> QED
    BY <1>3, <1>4, <1>5, <1>6 DEF QueryInv

(* The dense channel; a scan is refused only if the conditions leave too   *)
(* many chunks.                                                            *)
LEMMA SearchDenseKeeps ==
    ASSUME QueryInv, SearchDense
    PROVE  QueryInv'
<1>1. /\ step = "dense" /\ library' = library /\ documents' = documents /\ deleted' = deleted
      /\ lexical' = lexical /\ fused' = fused /\ hits' = hits /\ req' = req
    BY DEF SearchDense
<1>2. \/ step' = "lexical" /\ answer' = answer /\ dense' = dense
      \/ step' = "done" /\ answer' = "too many chunks" /\ dense' = dense /\ Refuses(req)
      \/ /\ step' = "lexical" /\ answer' = answer /\ dense' \in vector_search(req)
         /\ Mode(req) \notin {"lexical", "entity"}
    BY DEF SearchDense, Fail
<1>3. /\ Begun' /\ \A S : Seen(S)' = Seen(S)
      /\ step' = "lexical" => FailsForCause'
      /\ Known
    BY <1>1, <1>2, Onward DEF QuerySteps
<1>4. ~Answered' /\ step' \notin {"entity", "rows", "select", "provenance"}
    BY <1>2 DEF Answered
<1>5. LexicalWhole' /\ FusedBears'
    <2>1. LexicalWhole'
        BY <1>4 DEF LexicalWhole
    <2>2. DOMAIN fused = {}
        BY <1>1 DEF QueryInv, FusedBears
    <2>3. FusedBears'
        BY <1>1, <1>4, <2>2 DEF FusedBears, Seen
    <2> QED
        BY <2>1, <2>3
<1>6. Mode(req) \in {"lexical", "vector", "hybrid", "entity"}
    BY <1>3, QueryAssumption DEF Known, Mode, Modes
<1>7. CASE dense' = dense
    <2>1. ChannelsBear'
        BY <1>1, <1>3, <1>7, SameRequest, SameIndex DEF QueryInv, ChannelsBear
    <2>2. FailsForCause'
        <3>1. CASE step' = "lexical"
            BY <3>1, <1>3
        <3>2. CASE step' = "done" /\ answer' = "too many chunks" /\ Refuses(req)
            <4> DEFINE S == {c \in DOMAIN library : PassesParts(req, c)}
            <4>1. /\ all_embeddings(req) \in SUBSET S
                  /\ Cardinality(all_embeddings(req)) > max_dense_scan
                BY <3>2 DEF all_embeddings, Stored, Refuses
            <4>2. IsFiniteSet(S)
                BY <1>3, LibraryIsFinite DEF Known
            <4>3. S' = S
                BY <1>1 DEF PassesParts
            <4> HIDE DEF S
            <4>4. Cardinality(all_embeddings(req)) <= Cardinality(S)
                  /\ Cardinality(all_embeddings(req)) \in Nat /\ Cardinality(S) \in Nat
                BY <4>1, <4>2, FS_Subset, FS_CardinalityType
            <4>5. Cardinality(S) > max_dense_scan
                BY <4>1, <4>4, QueryAssumption
            <4>6. Cardinality({c \in DOMAIN library : PassesParts(req, c)})' > max_dense_scan
                BY <4>3, <4>5 DEF S
            <4> QED
                BY <3>2, <4>6 DEF FailsForCause
        <3> QED
            BY <3>1, <3>2, <1>2, <1>3
    <2> QED
        BY <1>3, <1>4, <1>5, <2>1, <2>2 DEF QueryInv
<1>8. CASE dense' \in vector_search(req) /\ step' = "lexical" /\ Mode(req) \notin {"lexical", "entity"}
    <2>1. PICK found : /\ found \subseteq DOMAIN library /\ dense' = rank_dense(req, found)
                       /\ UsesIndex(req) \/ found \subseteq Stored
        BY <1>8, LibraryIsFinite, <1>3 DEF vector_search, all_embeddings, IndexedOnce, Known
    <2>2. PICK l : l = rank_dense(req, found) /\ dense' = l
        BY <2>1
    <2>3. /\ l \in Seq(DOMAIN library)
          /\ \A c \in ToSet(l) : c \in found /\ Similar(c)
        BY <1>3, <2>1, <2>2, DenseSound
    <2>4. Seen(ToSet(l) \ (IF UsesIndex(req) THEN ToSet(l) ELSE {}))
        BY <2>1, <2>3 DEF Seen, Stored
    <2>5. FromIndex' = (IF UsesIndex(req) THEN ToSet(l) ELSE {})
        BY <1>1, <2>2 DEF FromIndex, UsesIndex, NoFilter
    <2>6. Seen(ToSet(dense) \ FromIndex)'
        BY <1>3, <2>2, <2>4, <2>5
    <2>7. ChannelsBear'
        BY <1>1, <1>3, <1>6, <1>8, <2>2, <2>3, <2>6, SameRequest DEF QueryInv, ChannelsBear
    <2> QED
        BY <1>3, <1>4, <1>5, <1>8, <2>7 DEF QueryInv
<1> QED
    BY <1>2, <1>7, <1>8

(* The lexical channel. *)
LEMMA SearchLexicalKeeps ==
    ASSUME QueryInv, SearchLexical
    PROVE  QueryInv'
<1>1. /\ step = "lexical" /\ library' = library /\ documents' = documents /\ deleted' = deleted
      /\ dense' = dense /\ fused' = fused /\ hits' = hits /\ req' = req
      /\ step' = "entity" /\ answer' = answer
    BY DEF SearchLexical
<1>2. \/ lexical' = lexical /\ Mode(req) \in {"vector", "entity"}
      \/ lexical' \in lexical_search(req) /\ Mode(req) \notin {"vector", "entity"}
    BY DEF SearchLexical
<1>3. Begun' /\ FailsForCause' /\ (\A S : Seen(S)' = Seen(S)) /\ Known
    BY <1>1, Onward DEF QuerySteps
<1>4. ~Answered' /\ step' # "provenance"
    BY <1>1 DEF Answered
<1>5. FusedBears'
    BY <1>1, <1>3, <1>4, SameRequest, SameIndex DEF QueryInv, FusedBears
<1>6. Mode(req) \in {"lexical", "vector", "hybrid", "entity"}
    BY <1>3, QueryAssumption DEF Known, Mode, Modes
<1>7. CASE lexical' = lexical /\ Mode(req) \in {"vector", "entity"}
    <2>1. ChannelsBear'
        BY <1>1, <1>3, <1>7, SameRequest, SameIndex DEF QueryInv, ChannelsBear
    <2>2. LexicalWhole'
        BY <1>7, <1>1, SameRequest DEF LexicalWhole
    <2> QED
        BY <1>3, <1>4, <1>5, <2>1, <2>2 DEF QueryInv
<1>8. CASE lexical' \in lexical_search(req) /\ Mode(req) \notin {"vector", "entity"}
    <2>1. PICK l : l \in lexical_search(req) /\ lexical' = l
        BY <1>8
    <2>2. /\ l \in Seq(DOMAIN library)
          /\ \A c \in ToSet(l) : c \in Stored /\ HasTerms(c)
          /\ Len(l) < Fetch(req) => {c \in candidate_ids(req) : HasTerms(c)} \subseteq ToSet(l)
        BY <1>3, <2>1, LexicalSound
    <2>3. Seen(ToSet(l))
        BY <2>2 DEF Seen, Stored
    <2>4. ChannelsBear'
        BY <1>1, <1>3, <1>6, <1>8, <2>1, <2>2, <2>3, SameRequest, SameIndex DEF QueryInv, ChannelsBear
    <2>5. LexicalWhole'
        BY <1>1, <2>1, <2>2, SameRequest, SameDocuments DEF LexicalWhole
    <2> QED
        BY <1>3, <1>4, <1>5, <2>4, <2>5 DEF QueryInv
<1> QED
    BY <1>2, <1>7, <1>8

(* The entity channel, and the fusion of the three. *)
LEMMA SearchEntitiesKeeps ==
    ASSUME QueryInv, SearchEntities
    PROVE  QueryInv'
<1>1. /\ step = "entity" /\ library' = library /\ documents' = documents /\ deleted' = deleted
      /\ dense' = dense /\ lexical' = lexical /\ hits' = hits /\ req' = req
      /\ step' = "rows" /\ answer' = answer
    BY DEF SearchEntities
<1>2. Begun' /\ FailsForCause' /\ (\A S : Seen(S)' = Seen(S)) /\ Known
    BY <1>1, Onward DEF QuerySteps
<1>3. ~Answered' /\ step' # "provenance"
    BY <1>1 DEF Answered
<1>4. ChannelsBear'
    BY <1>1, <1>2, SameRequest, SameIndex DEF QueryInv, ChannelsBear
<1>5. LexicalWhole'
    BY <1>1, SameRequest, SameDocuments DEF QueryInv, LexicalWhole
<1> DEFINE F == ToSet(dense \o lexical \o EntityChannel)
<1>6. F = (ToSet(dense) \cup ToSet(lexical)) \cup ToSet(EntityChannel)
    <2> DEFINE T == DOMAIN library
               e == EntityChannel
    <2>1. dense \in Seq(T) /\ lexical \in Seq(T) /\ e \in Seq(T)
        BY <1>2, EntitiesSound DEF QueryInv, ChannelsBear
    <2> HIDE DEF T, e
    <2>2. dense \o lexical \in Seq(T) /\ ToSet(dense \o lexical) = ToSet(dense) \cup ToSet(lexical)
        BY <2>1, Joined
    <2> DEFINE d == dense \o lexical
    <2> HIDE DEF d
    <2>3. d \in Seq(T) /\ ToSet(d) = ToSet(dense) \cup ToSet(lexical)
        BY <2>2 DEF d
    <2>4. ToSet(d \o e) = ToSet(d) \cup ToSet(e)
        BY <2>1, <2>3, Joined
    <2>5. dense \o lexical \o EntityChannel = d \o e
        BY DEF d, e
    <2> QED
        BY <2>3, <2>4, <2>5 DEF e
<1>7. fused' = [c \in F |-> Rrf(c, EntityChannel)]
    BY DEF SearchEntities
<1> HIDE DEF F
<1>8. DOMAIN fused' = F /\ \A c \in F : fused'[c] = Rrf(c, EntityChannel)
    BY <1>7
<1>9. \A c \in F : fused'[c] \in Int
    BY <1>2, <1>8, EntitiesSound, RrfIsNumber DEF QueryInv
<1>10. F \subseteq DOMAIN library /\ Seen(F \ FromIndex)
    <2>1. Seen(ToSet(dense) \ FromIndex) /\ Seen(ToSet(lexical))
        BY DEF QueryInv, ChannelsBear
    <2>2. Seen(ToSet(EntityChannel))
        BY <1>2, EntitiesSound DEF Seen, Stored
    <2>3. ToSet(dense) \subseteq DOMAIN library
        BY Image DEF QueryInv, ChannelsBear
    <2> QED
        BY <1>6, <2>1, <2>2, <2>3 DEF Seen
<1>11. \A c \in F : Finds(c)
    BY <1>2, <1>6, EntitiesSound DEF QueryInv, ChannelsBear, Finds
<1>12. FusedBears'
    BY <1>1, <1>2, <1>6, <1>8, <1>9, <1>10, <1>11, SameRequest, SameIndex DEF FusedBears
<1> QED
    BY <1>2, <1>3, <1>4, <1>5, <1>12 DEF QueryInv

(* get_hit_row: if a row is gone its document was deleted during the       *)
(* query, or the index found it; otherwise the scores change and the       *)
(* chunks stay.                                                            *)
LEMMA LoadRowsKeeps ==
    ASSUME QueryInv, LoadRows
    PROVE  QueryInv'
<1>1. /\ step = "rows" /\ library' = library /\ documents' = documents /\ deleted' = deleted
      /\ dense' = dense /\ lexical' = lexical /\ hits' = hits /\ req' = req
    BY DEF LoadRows
<1>2. \/ /\ fused' = [c \in DOMAIN fused |-> Boosted(c, fused[c])]
         /\ step' = "select" /\ answer' = answer
      \/ /\ step' = "done" /\ answer' = "chunk vanished" /\ fused' = fused
         /\ ~(DOMAIN fused \subseteq Stored)
    BY DEF LoadRows, Fail
<1>3. Begun' /\ (\A S : Seen(S)' = Seen(S)) /\ Known /\ (step' = "select" => FailsForCause')
    BY <1>1, <1>2, Onward DEF QuerySteps
<1>4. ~Answered' /\ step' \in {"select", "done"}
    BY <1>2 DEF Answered
<1>5. ChannelsBear'
    BY <1>1, <1>3, SameRequest, SameIndex DEF QueryInv, ChannelsBear
<1>6. LexicalWhole'
    BY <1>1, SameRequest, SameDocuments DEF QueryInv, LexicalWhole
<1>7. /\ DOMAIN fused \subseteq DOMAIN library /\ Seen(DOMAIN fused \ FromIndex)
      /\ \A c \in DOMAIN fused : Finds(c) /\ fused[c] \in Int
      /\ ToSet(lexical) \subseteq DOMAIN fused
    BY <1>1 DEF QueryInv, FusedBears
<1>8. DOMAIN fused' = DOMAIN fused /\ \A c \in DOMAIN fused : fused'[c] \in Int
    <2>1. \A c \in DOMAIN fused : Boosted(c, fused[c]) \in Int
        BY <1>3, <1>7, BoostedIsNumber
    <2> QED
        BY <2>1, <1>2, <1>7
<1>9. FusedBears'
    BY <1>1, <1>3, <1>4, <1>7, <1>8, SameRequest, SameIndex DEF FusedBears
<1>10. FailsForCause'
    <2>1. CASE step' = "select"
        BY <2>1, <1>3
    <2>2. CASE ~(DOMAIN fused \subseteq Stored)
        <3>1. PICK c \in DOMAIN fused : c \notin Stored
            BY <2>2
        <3>2. Doc(c) \notin documents /\ (Doc(c) \in deleted \/ c \in FromIndex)
            BY <3>1, <1>7 DEF Seen, Stored
        <3>3. /\ c \in DOMAIN fused' /\ Doc(c) \notin documents'
              /\ Doc(c) \in deleted' \/ c \in FromIndex'
            BY <3>1, <3>2, <1>1, <1>8, SameIndex
        <3> QED
            BY <3>3 DEF FailsForCause
    <2> QED
        BY <2>1, <2>2, <1>2
<1> QED
    BY <1>3, <1>4, <1>5, <1>6, <1>9, <1>10 DEF QueryInv

(* What Select makes of the fused chunks. *)
LEMMA SelectSound ==
    ASSUME Known, NEW f, DOMAIN f \subseteq DOMAIN library, \A c \in DOMAIN f : f[c] \in Int,
           NEW sorted, sorted = Sorted({[id |-> c, score |-> f[c]] : c \in DOMAIN f}),
           NEW ranked, ranked = (IF Mode(req) = "entity" THEN sorted
                                 ELSE rerank_lexical_overlap(sorted)),
           NEW l, l = temporal(Ranks(mmr_select(ranked, req.top_k)))
    PROVE  Chosen(l, DOMAIN f)
<1> DEFINE F == DOMAIN f
           n == Cardinality(F)
           v == [c \in F |-> f[c]]
<1>1. IsFiniteSet(F) /\ F \subseteq Nat /\ n \in Nat /\ F \subseteq DOMAIN library
    BY LibraryIsFinite, FS_CardinalityType DEF Known
<1>2. v \in [F -> Int] /\ sorted = Sorted({[id |-> c, score |-> v[c]] : c \in F})
    BY Zenon
<1> HIDE DEF F, v
<1>3. Candidates(sorted, F, Cardinality(F))
    BY ONLY <1>1, <1>2, FusedSorted
<1>4. Candidates(ranked, F, n)
    <2>1. CASE Mode(req) = "entity"
        BY <2>1, <1>3
    <2>2. CASE Mode(req) # "entity"
        <3>1. ranked = rerank_lexical_overlap(sorted)
            BY <2>2
        <3>2. F \in SUBSET (DOMAIN library)
            BY <1>1
        <3> HIDE DEF n
        <3>3. Candidates(sorted, F, n)
            BY <1>3 DEF n
        <3> QED
            BY ONLY Known, <1>1, <3>1, <3>2, <3>3, RerankKeeps
    <2> QED
        BY <2>1, <2>2
<1>5. PICK m : m = mmr_select(ranked, req.top_k)
    OBVIOUS
<1>6. req.top_k \in Nat
    BY QueryAssumption DEF Known
<1>7. Candidates(m, F, Lesser(req.top_k, n))
    <2> DEFINE k == req.top_k
    <2>1. k \in Nat /\ m = mmr_select(ranked, k)
        BY <1>5, <1>6
    <2> HIDE DEF k, n
    <2>2. Candidates(m, F, Lesser(k, n))
        BY ONLY Known, <1>1, <1>4, <2>1, MmrKeeps
    <2> QED
        BY <2>2 DEF k
<1>8. l = temporal(Ranks(m))
    BY <1>5
<1>9. Chosen(l, F)
    BY ONLY Known, <1>1, <1>7, <1>8, TemporalSound
<1> QED
    BY <1>9 DEF F

(* The selection leaves hits as Chosen describes them. *)
LEMMA SelectKeeps ==
    ASSUME QueryInv, Select
    PROVE  QueryInv'
<1>1. /\ step = "select" /\ library' = library /\ documents' = documents /\ deleted' = deleted
      /\ dense' = dense /\ lexical' = lexical /\ fused' = fused /\ req' = req
      /\ step' = "provenance" /\ answer' = answer
    BY DEF Select
<1>2. Begun' /\ (\A S : Seen(S)' = Seen(S)) /\ Known /\ FailsForCause'
    BY <1>1, Onward DEF QuerySteps
<1>3. ChannelsBear'
    BY <1>1, <1>2, SameRequest, SameIndex DEF QueryInv, ChannelsBear
<1>4. LexicalWhole'
    BY <1>1, SameRequest, SameDocuments DEF QueryInv, LexicalWhole
<1>5. FusedBears'
    BY <1>1, <1>2, SameRequest, SameIndex DEF QueryInv, FusedBears
<1>6. PICK sorted, ranked :
          /\ sorted = Sorted({[id |-> c, score |-> fused[c]] : c \in DOMAIN fused})
          /\ ranked = IF Mode(req) = "entity" THEN sorted ELSE rerank_lexical_overlap(sorted)
          /\ hits' = temporal(Ranks(mmr_select(ranked, req.top_k)))
    BY DEF Select
<1>7. PICK l : l = temporal(Ranks(mmr_select(ranked, req.top_k))) /\ hits' = l
    BY <1>6
<1>8. DOMAIN fused \subseteq DOMAIN library /\ \A c \in DOMAIN fused : fused[c] \in Int
    BY DEF QueryInv, FusedBears, Seen
<1>a. Known
    BY <1>2
<1>9. Chosen(l, DOMAIN fused)
    BY ONLY <1>a, <1>6, <1>7, <1>8, SelectSound
<1>10. Chosen(hits, DOMAIN fused)'
    BY <1>1, <1>7, <1>9, SameRequest DEF Chosen
<1> QED
    BY <1>2, <1>3, <1>4, <1>5, <1>10 DEF QueryInv

(* The documents of the hits are read again: one that is missing was       *)
(* deleted during the query.                                               *)
LEMMA RespondKeeps ==
    ASSUME QueryInv, Respond
    PROVE  QueryInv'
<1>1. /\ step = "provenance" /\ library' = library /\ documents' = documents /\ deleted' = deleted
      /\ dense' = dense /\ lexical' = lexical /\ fused' = fused /\ hits' = hits /\ req' = req
      /\ step' = "done"
    BY DEF Respond, Fail
<1>2. \/ answer' = "no such document" /\ \E h \in ToSet(hits) : Doc(h.id) \notin documents
      \/ answer' = "hits"
    BY DEF Respond, Fail
<1>3. Begun' /\ (\A S : Seen(S)' = Seen(S)) /\ Known
    BY <1>1, Onward DEF QuerySteps
<1>4. ChannelsBear'
    BY <1>1, <1>3, SameRequest, SameIndex DEF QueryInv, ChannelsBear
<1>5. LexicalWhole'
    BY <1>1, SameRequest, SameDocuments DEF QueryInv, LexicalWhole
<1>6. FusedBears'
    BY <1>1, <1>3, SameRequest, SameIndex DEF QueryInv, FusedBears
<1>7. Chosen(hits, DOMAIN fused)
    BY <1>1 DEF QueryInv
<1>8. Chosen(hits, DOMAIN fused)'
    BY <1>1, <1>7, SameRequest DEF Chosen
<1>9. FailsForCause'
    <2>1. CASE answer' = "hits"
        BY <2>1 DEF FailsForCause
    <2>2. CASE \E h \in ToSet(hits) : Doc(h.id) \notin documents
        <3>1. PICK h \in ToSet(hits) : Doc(h.id) \notin documents
            BY <2>2
        <3>2. h.id \in DOMAIN fused
            <4>1. hits \in Seq(HitsOf(DOMAIN fused))
                BY <1>7 DEF Chosen
            <4>2. h \in HitsOf(DOMAIN fused)
                BY <3>1, <4>1, Image
            <4> QED
                BY <4>2 DEF HitsOf
        <3>3. Doc(h.id) \in deleted \/ h.id \in FromIndex
            BY <3>1, <3>2 DEF QueryInv, FusedBears, Seen
        <3>4. /\ h.id \in DOMAIN fused' /\ Doc(h.id) \notin documents'
              /\ Doc(h.id) \in deleted' \/ h.id \in FromIndex'
            BY <3>1, <3>2, <3>3, <1>1, SameIndex
        <3> QED
            BY <3>4 DEF FailsForCause
    <2> QED
        BY <2>1, <2>2, <1>2
<1> QED
    BY <1>3, <1>4, <1>5, <1>6, <1>8, <1>9 DEF QueryInv

(* A deletion by another thread moves a document from those stored to      *)
(* those deleted: what was seen stays seen, and what the lexical channel   *)
(* ought to have only shrinks.                                             *)
LEMMA DeleteDocumentKeeps ==
    ASSUME QueryInv, DeleteDocument
    PROVE  QueryInv'
<1>1. /\ step # "done" /\ library' = library /\ dense' = dense /\ lexical' = lexical
      /\ fused' = fused /\ hits' = hits /\ req' = req /\ step' = step /\ answer' = answer
    BY DEF DeleteDocument
<1>2. PICK d \in documents :
          /\ documents' = documents \ {d}
          /\ deleted' = IF step = "idle" THEN {} ELSE deleted \cup {d}
    BY DEF DeleteDocument
<1>3. Begun'
    BY <1>1, <1>2 DEF QueryInv, Begun
<1>4. FailsForCause' /\ ~Answered'
    BY <1>1 DEF FailsForCause, Answered
<1>5. CASE step = "idle"
    <2>1. dense = <<>> /\ lexical = <<>> /\ fused = <<>> /\ hits = <<>>
        BY <1>5 DEF QueryInv, Begun
    <2>2. ToSet(<<>>) = {} /\ DOMAIN <<>> = {} /\ <<>> \in Seq(DOMAIN library)
        BY DEF ToSet
    <2>3. ChannelsBear'
        BY <1>1, <2>1, <2>2 DEF ChannelsBear, Seen
    <2>4. LexicalWhole'
        BY <1>1, <1>4, <1>5 DEF LexicalWhole
    <2>5. FusedBears'
        BY <1>1, <1>4, <1>5, <2>1, <2>2 DEF FusedBears, Seen
    <2> QED
        BY <1>1, <1>3, <1>4, <1>5, <2>3, <2>4, <2>5 DEF QueryInv
<1>6. CASE step # "idle"
    <2>1. \A S : Seen(S)' = Seen(S)
        BY <1>1, <1>2, <1>6, SameSeen
    <2>2. ChannelsBear'
        BY <1>1, <2>1, SameRequest, SameIndex DEF QueryInv, ChannelsBear
    <2>3. candidate_ids(req)' \subseteq candidate_ids(req)
        <3>1. Stored' \subseteq Stored
            BY <1>1, <1>2 DEF Stored
        <3>2. \A e, names : Mentions(e, names)' => Mentions(e, names)
            BY <1>1, <3>1 DEF Mentions
        <3> QED
            BY <1>1, <3>1, <3>2 DEF candidate_ids, PassesParts
    <2>4. LexicalWhole'
        BY <1>1, <1>4, <2>3, SameRequest DEF QueryInv, LexicalWhole
    <2>5. FusedBears'
        BY <1>1, <1>4, <2>1, SameRequest, SameIndex DEF QueryInv, FusedBears
    <2>6. Chosen(hits, DOMAIN fused)' = Chosen(hits, DOMAIN fused)
        BY <1>1, SameRequest DEF Chosen
    <2> QED
        BY <1>1, <1>3, <1>4, <2>2, <2>4, <2>5, <2>6 DEF QueryInv
<1> QED
    BY <1>5, <1>6

(* A step that changes nothing keeps the invariant. *)
LEMMA QueryStutters ==
    ASSUME QueryInv, UNCHANGED queryVars
    PROVE  QueryInv'
<1>1. /\ step' = step /\ library' = library /\ documents' = documents /\ deleted' = deleted
      /\ dense' = dense /\ lexical' = lexical /\ fused' = fused /\ hits' = hits /\ req' = req
      /\ answer' = answer
    BY DEF queryVars
<1> HIDE DEF queryVars
<1>2. \A S : Seen(S)' = Seen(S)
    BY <1>1, SameSeen
<1>3. Begun'
    BY <1>1 DEF QueryInv, Begun
<1>4. Answered' = Answered
    BY <1>1 DEF Answered
<1>5. ChannelsBear' /\ FusedBears'
    BY <1>1, <1>2, <1>4, SameRequest, SameIndex DEF QueryInv, ChannelsBear, FusedBears
<1>6. LexicalWhole'
    BY <1>1, <1>4, SameRequest, SameDocuments DEF QueryInv, LexicalWhole
<1>7. Chosen(hits, DOMAIN fused)' = Chosen(hits, DOMAIN fused)
    BY <1>1, SameRequest DEF Chosen
<1>8. FailsForCause'
    BY <1>1, SameIndex DEF QueryInv, FailsForCause, PassesParts
<1> QED
    BY <1>1, <1>3, <1>4, <1>5, <1>6, <1>7, <1>8 DEF QueryInv

(* Before a query there is nothing to be wrong. *)
LEMMA QueryInitially ==
    ASSUME QueryInit
    PROVE  QueryInv
<1>1. /\ library \in Libraries /\ step = "idle" /\ dense = <<>> /\ lexical = <<>>
      /\ fused = <<>> /\ hits = <<>> /\ answer = "none" /\ deleted = {}
    BY DEF QueryInit
<1>2. ToSet(<<>>) = {} /\ DOMAIN <<>> = {} /\ <<>> \in Seq(DOMAIN library)
    BY DEF ToSet
<1>3. ChannelsBear /\ FusedBears
    BY <1>1, <1>2 DEF ChannelsBear, FusedBears, Seen, Answered
<1>4. LexicalWhole /\ FailsForCause /\ ~Answered
    BY <1>1 DEF LexicalWhole, FailsForCause, Answered
<1> QED
    BY <1>1, <1>3, <1>4 DEF QueryInv, Begun, QuerySteps

(* The inductive invariant of a query, over all its steps and the          *)
(* deletions between them.                                                 *)
THEOREM QueryInvariant == QuerySpec => []QueryInv
<1>1. QueryInit => QueryInv
    BY QueryInitially
<1>2. QueryInv /\ [QueryNext]_queryVars => QueryInv'
    <2> SUFFICES ASSUME QueryInv, [QueryNext]_queryVars
                 PROVE  QueryInv'
        OBVIOUS
    <2> QED
        BY QueryKeeps, FastPathKeeps, SearchDenseKeeps, SearchLexicalKeeps, SearchEntitiesKeeps,
           LoadRowsKeeps, SelectKeeps, RespondKeeps, DeleteDocumentKeeps, QueryStutters
           DEF QueryNext
<1> QED
    BY <1>1, <1>2, PTL DEF QuerySpec

(* Engine::query fails for what was asked or because the document of a     *)
(* chunk it had found was deleted: during the query, or before it if the   *)
(* index found the chunk.  A document deleted before never fails a query   *)
(* that scans, and one that was not found never fails any.                 *)
THEOREM QueriesFailForCause == QuerySpec => []FailsForCause
<1>1. QueryInv => FailsForCause
    BY DEF QueryInv
<1> QED
    BY <1>1, QueryInvariant, PTL

(* Engine::query returns top_k different chunks or all it found, each      *)
(* found by a channel of the mode and bearing on the query in the way of   *)
(* that mode; the lexical channel misses nothing unless it is full.        *)
THEOREM HitsAreSound == QuerySpec => []HitsSound
<1>1. QueryInv => HitsSound
    <2> SUFFICES ASSUME QueryInv, Answered
                 PROVE  HitsSound
        BY DEF HitsSound
    <2> DEFINE F == DOMAIN fused
               n == Len(hits)
               D == 1..n
               h == [i \in D |-> hits[i].id]
    <2>1. /\ hits \in Seq(HitsOf(F)) /\ n \in Nat
          /\ \A i, j \in 1..n : hits[i].id = hits[j].id => i = j
          /\ Constraint(req) # "years" => n = Lesser(req.top_k, Cardinality(F))
        BY DEF QueryInv, Chosen
    <2>2. ToSet(hits) = {hits[i] : i \in D} /\ \A x \in ToSet(hits) : x.id \in F
        <3>1. ToSet(hits) = {hits[i] : i \in D} /\ ToSet(hits) \subseteq HitsOf(F)
            BY <2>1, Image
        <3>2. \A x \in HitsOf(F) : x.id \in F
            BY DEF HitsOf
        <3> QED
            BY <3>1, <3>2
    <2>3. Cardinality({x.id : x \in ToSet(hits)}) = n
        <3>1. /\ DOMAIN h = D /\ {x.id : x \in ToSet(hits)} = {h[i] : i \in D}
              /\ \A i, j \in D : h[i] = h[j] => i = j
            BY <2>1, <2>2
        <3>2. IsFiniteSet(D) /\ Cardinality(D) = n
            BY <2>1, Counted
        <3> HIDE DEF D, h
        <3>3. Cardinality({h[i] : i \in D}) = Cardinality(D)
            BY ONLY <3>1, <3>2, ImagedOnce
        <3> QED
            BY <3>1, <3>2, <3>3
    <2>4. \A x \in ToSet(hits) : Finds(x.id)
        BY <2>2 DEF QueryInv, FusedBears
    <2>5. Mode(req) \in {"lexical", "hybrid"} /\ Len(lexical) < Fetch(req) =>
              {c \in candidate_ids(req) : HasTerms(c)} \subseteq DOMAIN fused
        BY DEF QueryInv, FusedBears, LexicalWhole
    <2> QED
        BY <2>1, <2>3, <2>4, <2>5 DEF HitsSound
<1> QED
    BY <1>1, QueryInvariant, PTL

(* apply_temporal never empties an answer: with years all the hits meet    *)
(* the constraint or none does, with "latest" all are kept in the order of *)
(* the raised scores and ranked anew, and ranks always grow.               *)
THEOREM TemporalIsGraceful == QuerySpec => []TemporalGraceful
<1>1. QueryInv => TemporalGraceful
    <2> SUFFICES ASSUME QueryInv, Answered
                 PROVE  TemporalGraceful
        BY DEF TemporalGraceful
    <2>1. Chosen(hits, DOMAIN fused)
        BY DEF QueryInv
    <2>2. Constraint(req) = "years" =>
              {x \in ToSet(hits) : matches_constraint(req, x.id)} \in {{}, ToSet(hits)}
        <3>1. ToSet(hits) = {hits[i] : i \in 1..Len(hits)}
            BY <2>1, Image DEF Chosen
        <3> QED
            BY <2>1, <3>1 DEF Chosen
    <2> QED
        BY <2>1, <2>2 DEF Chosen, TemporalGraceful
<1> QED
    BY <1>1, QueryInvariant, PTL

-----------------------------------------------------------------------------
(* The context. *)

(* The states of assemble_context, one after each of the first k hits. *)
Assembles(list, k, s) ==
    s = [i \in 0..k |-> IF i = 0 THEN NoBlocks ELSE AddSnippet(s[i - 1], list[i].id, i)]

(* assemble_context passes through such states, however many hits there    *)
(* are.                                                                    *)
LEMMA Assembly ==
    ASSUME NEW list, NEW k \in Nat
    PROVE  \E s : Assembles(list, k, s)
<1> DEFINE Made(m) == \E f : f = [i \in 0..m |-> IF i = 0 THEN NoBlocks
                                                ELSE AddSnippet(f[i - 1], list[i].id, i)]
           P == {m \in 0..k : Made(m)}
<1>1. 0 \in P
    <2> DEFINE f == [i \in 0..0 |-> NoBlocks]
    <2>1. \A i \in 0..0 : i = 0
        OBVIOUS
    <2>2. f = [i \in 0..0 |-> IF i = 0 THEN NoBlocks ELSE AddSnippet(f[i - 1], list[i].id, i)]
        BY <2>1, Zenon
    <2>3. Made(0)
        BY <2>2, Zenon
    <2>4. 0 \in 0..k
        OBVIOUS
    <2> HIDE DEF Made
    <2> QED
        BY <2>3, <2>4
<1>2. ASSUME NEW m \in 1..k, m - 1 \in P
      PROVE  m \in P
    <2>1. PICK f : f = [i \in 0..(m - 1) |-> IF i = 0 THEN NoBlocks
                                            ELSE AddSnippet(f[i - 1], list[i].id, i)]
        BY <1>2
    <2> DEFINE g == [i \in 0..m |-> IF i = m THEN AddSnippet(f[m - 1], list[m].id, m) ELSE f[i]]
    <2>2. g = [i \in 0..m |-> IF i = 0 THEN NoBlocks ELSE AddSnippet(g[i - 1], list[i].id, i)]
        <3>1. ASSUME NEW i \in 0..m
              PROVE  g[i] = IF i = 0 THEN NoBlocks ELSE AddSnippet(g[i - 1], list[i].id, i)
            <4>0. i # m => i \in 0..(m - 1)
                OBVIOUS
            <4>1. CASE i = m
                <5>1. m - 1 \in 0..m /\ m - 1 # m /\ m # 0
                    OBVIOUS
                <5>2. g[m - 1] = f[m - 1]
                    BY <5>1
                <5>3. g[m] = AddSnippet(f[m - 1], list[m].id, m)
                    OBVIOUS
                <5> HIDE DEF g
                <5> QED
                    BY <4>1, <5>1, <5>2, <5>3
            <4>2. CASE i # m
                <5>1. g[i] = f[i]
                    BY <4>2
                <5>2. i # 0 => i - 1 \in 0..m /\ i - 1 # m
                    BY <4>0, <4>2
                <5>3. i # 0 => g[i - 1] = f[i - 1]
                    BY <5>2
                <5>4. f[i] = IF i = 0 THEN NoBlocks ELSE AddSnippet(f[i - 1], list[i].id, i)
                    BY <2>1, <4>0, <4>2
                <5> HIDE DEF g
                <5> QED
                    BY <5>1, <5>3, <5>4
            <4> QED
                BY <4>1, <4>2
        <3> QED
            BY <3>1
    <2>3. Made(m)
        <3> HIDE DEF g
        <3> QED
            BY <2>2, Zenon
    <2>4. m \in 0..k
        OBVIOUS
    <2> HIDE DEF Made
    <2> QED
        BY <2>3, <2>4
<1>3. Made(k)
    <2> HIDE DEF P
    <2>1. k \in P
        BY <1>1, <1>2, UpTo
    <2> QED
        BY <2>1 DEF P
<1> QED
    BY <1>3, Zenon DEF Assembles

(* Each of them is the one before with one hit more. *)
LEMMA AssemblySteps ==
    ASSUME NEW list, NEW k \in Nat, NEW s, Assembles(list, k, s)
    PROVE  s[0] = NoBlocks /\ \A i \in 1..k : s[i] = AddSnippet(s[i - 1], list[i].id, i)
<1>1. ASSUME NEW i \in 0..k
      PROVE  s[i] = IF i = 0 THEN NoBlocks ELSE AddSnippet(s[i - 1], list[i].id, i)
    BY Zenon DEF Assembles
<1>2. 0 \in 0..k /\ \A i \in 1..k : i \in 0..k /\ i # 0
    OBVIOUS
<1> QED
    BY <1>1, <1>2

(* Blocks for hits among the first i, of the chunks F. *)
BlocksOf(i, F) == [cite : 1..i, id : F]

(* The running totals of the sizes. *)
Totals(blocks, t) ==
    t = [n \in 0..Len(blocks) |-> IF n = 0 THEN 0 ELSE t[n - 1] + BlockSize(blocks[n].id)]

Places(blocks, d) == {k \in 1..Len(blocks) : Doc(blocks[k].id) = d}

CitedAt(blocks, j) == \E k \in 1..Len(blocks) : blocks[k].cite = j

(* The blocks are right for the first i hits of the list. *)
Packed(list, F, i, blocks, used, full) ==
    /\ blocks \in Seq(BlocksOf(i, F)) /\ used \in Nat /\ full \in BOOLEAN
    /\ \A k \in 1..Len(blocks) : list[blocks[k].cite].id = blocks[k].id
    /\ \A k, m \in 1..Len(blocks) : k < m => blocks[k].cite < blocks[m].cite
    /\ \E t : Totals(blocks, t) /\ t[Len(blocks)] = used
    /\ used <= req.context_budget
    /\ \A d : Cardinality(Places(blocks, d)) <= req.max_per_document
    /\ \A j \in 1..i :
           full => \/ CitedAt(blocks, j)
                   \/ Cardinality(Places(blocks, Doc(list[j].id))) = req.max_per_document
                   \/ \A k \in 1..Len(blocks) : blocks[k].cite < j
    /\ \A j \in 1..i :
           ~full => \/ CitedAt(blocks, j)
                    \/ Cardinality(Places(blocks, Doc(list[j].id))) = req.max_per_document

(* A context has finitely many blocks of a document. *)
LEMMA PlacesAreFinite ==
    ASSUME NEW T, NEW blocks \in Seq(T), NEW d
    PROVE  IsFiniteSet(Places(blocks, d)) /\ Cardinality(Places(blocks, d)) \in Nat
<1>1. Places(blocks, d) \in SUBSET (1..Len(blocks)) /\ IsFiniteSet(1..Len(blocks))
    <2>1. Len(blocks) \in Nat
        OBVIOUS
    <2> QED
        BY <2>1, Counted DEF Places
<1> QED
    BY <1>1, FS_Subset, FS_CardinalityType

(* List l has one block more, b, which counts for its document only. *)
Longer(blocks, b, l) ==
    \A d : /\ Cardinality(Places(blocks, d)) \in Nat
           /\ Doc(b.id) = d => Cardinality(Places(l, d)) = Cardinality(Places(blocks, d)) + 1
           /\ Doc(b.id) # d => Cardinality(Places(l, d)) = Cardinality(Places(blocks, d))

(* A block more counts for its own document. *)
LEMMA PlacesGrow ==
    ASSUME NEW T, NEW blocks \in Seq(T), NEW b \in T, NEW l, l = Append(blocks, b)
    PROVE  Longer(blocks, b, l)
<1> SUFFICES ASSUME NEW d
             PROVE  /\ Cardinality(Places(blocks, d)) \in Nat
                    /\ Doc(b.id) = d =>
                           Cardinality(Places(l, d)) = Cardinality(Places(blocks, d)) + 1
                    /\ Doc(b.id) # d =>
                           Cardinality(Places(l, d)) = Cardinality(Places(blocks, d))
    BY DEF Longer
<1> DEFINE n == Len(blocks)
           P == Places(blocks, d)
           Q == Places(l, d)
<1>1. /\ n \in Nat /\ Len(l) = n + 1 /\ l[n + 1] = b
      /\ \A k \in 1..n : l[k] = blocks[k]
    OBVIOUS
<1>2. IsFiniteSet(P) /\ Cardinality(P) \in Nat
    BY PlacesAreFinite
<1>3. n + 1 \notin P
    BY <1>1 DEF Places
<1>4. \A k : k \in 1..(n + 1) <=> k \in 1..n \/ k = n + 1
    BY <1>1
<1>5. CASE Doc(b.id) = d
    <2>1. Q = P \cup {n + 1}
        BY <1>1, <1>4, <1>5 DEF Places
    <2> HIDE DEF P, Q, n
    <2>2. Cardinality(Q) = Cardinality(P) + 1
        BY <1>2, <1>3, <2>1, FS_AddElement
    <2> QED
        BY <1>2, <1>5, <2>2 DEF P, Q
<1>6. CASE Doc(b.id) # d
    <2>1. Q = P
        BY <1>1, <1>4, <1>6 DEF Places
    <2> QED
        BY <1>2, <1>6, <2>1
<1> QED
    BY <1>5, <1>6

(* The size of a snippet is a number. *)
LEMMA BlockSizeIsNumber ==
    ASSUME Known, NEW c \in DOMAIN library
    PROVE  BlockSize(c) \in Nat
BY QueryAssumption, Smaller DEF Known, BlockSize

(* A hit passed over. *)
LEMMA PassedOver ==
    ASSUME Known, NEW F, NEW list, NEW i \in Nat \ {0}, NEW blocks, NEW used, NEW full, NEW now,
           Packed(list, F, i - 1, blocks, used, full),
           now \in BOOLEAN, full => now,
           ~now => Cardinality(Places(blocks, Doc(list[i].id))) = req.max_per_document
    PROVE  Packed(list, F, i, blocks, used, now)
<1>1. /\ blocks \in Seq(BlocksOf(i - 1, F))
      /\ \A k \in 1..Len(blocks) : blocks[k] \in BlocksOf(i - 1, F)
    BY Elements DEF Packed
<1>2. BlocksOf(i - 1, F) \subseteq BlocksOf(i, F)
    BY DEF BlocksOf
<1>3. blocks \in Seq(BlocksOf(i, F))
    BY <1>1, <1>2, Widen
<1>4. \A k \in 1..Len(blocks) : blocks[k].cite \in 1..(i - 1)
    BY <1>1 DEF BlocksOf
<1>5. \A j \in 1..i : j = i \/ j \in 1..(i - 1)
    OBVIOUS
<1>6. \A k \in 1..Len(blocks) : blocks[k].cite < i
    BY <1>4
<1> QED
    BY <1>3, <1>5, <1>6 DEF Packed

(* A hit that becomes a block. *)
LEMMA Appended ==
    ASSUME Known, NEW F, F \subseteq DOMAIN library, NEW list, NEW i \in Nat \ {0},
           list[i].id \in F, NEW blocks, NEW used,
           Packed(list, F, i - 1, blocks, used, FALSE),
           Cardinality(Places(blocks, Doc(list[i].id))) < req.max_per_document,
           used + BlockSize(list[i].id) <= req.context_budget,
           NEW l, l = Append(blocks, [cite |-> i, id |-> list[i].id])
    PROVE  Packed(list, F, i, l, used + BlockSize(list[i].id), FALSE)
<1> DEFINE b == [cite |-> i, id |-> list[i].id]
           n == Len(blocks)
           size == BlockSize(list[i].id)
           max == req.max_per_document
<1>1. /\ blocks \in Seq(BlocksOf(i - 1, F)) /\ used \in Nat /\ n \in Nat
      /\ \A k \in 1..n : blocks[k] \in BlocksOf(i - 1, F)
    BY Elements DEF Packed
<1>2. BlocksOf(i - 1, F) \subseteq BlocksOf(i, F) /\ b \in BlocksOf(i, F)
    BY DEF BlocksOf
<1>3. blocks \in Seq(BlocksOf(i, F))
    BY <1>1, <1>2, Widen
<1>4. \A k \in 1..n : blocks[k].cite \in 1..(i - 1)
    BY <1>1 DEF BlocksOf
<1>5. size \in Nat /\ max \in Nat
    BY BlockSizeIsNumber, QueryAssumption DEF Known
<1>6. b.cite = i /\ b.id = list[i].id /\ l = Append(blocks, b)
    OBVIOUS
<1> HIDE DEF b, size
<1>7. /\ l \in Seq(BlocksOf(i, F)) /\ Len(l) = n + 1 /\ l[n + 1] = b
      /\ \A k \in 1..n : l[k] = blocks[k]
    BY <1>2, <1>3, <1>6
<1>8. \A k : k \in 1..(n + 1) <=> k \in 1..n \/ k = n + 1
    BY <1>1
<1>9. \A k \in 1..Len(l) : list[l[k].cite].id = l[k].id
    BY <1>6, <1>7, <1>8 DEF Packed
<1>10. ASSUME NEW k \in 1..Len(l), NEW m \in 1..Len(l), k < m
       PROVE  l[k].cite < l[m].cite
    <2>1. k \in 1..n
        BY <1>1, <1>7, <1>10
    <2>2. CASE m \in 1..n
        BY <2>1, <2>2, <1>7, <1>10 DEF Packed
    <2>3. CASE m = n + 1
        <3>1. l[k].cite \in 1..(i - 1) /\ l[m].cite = i
            BY <2>1, <2>3, <1>4, <1>6, <1>7
        <3> QED
            BY <3>1
    <2> QED
        BY <2>2, <2>3, <1>7, <1>8
<1>11. \E t : Totals(l, t) /\ t[Len(l)] = used + size
    <2>1. PICK t : Totals(blocks, t) /\ t[n] = used
        BY DEF Packed
    <2>2. t = [k \in 0..n |-> IF k = 0 THEN 0 ELSE t[k - 1] + BlockSize(blocks[k].id)]
        BY <2>1 DEF Totals
    <2> DEFINE g == [k \in 0..(n + 1) |-> IF k = n + 1 THEN used + size ELSE t[k]]
    <2>3. ASSUME NEW k \in 0..(n + 1)
          PROVE  g[k] = IF k = 0 THEN 0 ELSE g[k - 1] + BlockSize(l[k].id)
        <3>1. CASE k = n + 1
            <4>1. n \in 0..(n + 1) /\ n # n + 1 /\ k - 1 = n /\ k # 0
                BY <3>1, <1>1
            <4>2. g[k] = used + size /\ g[k - 1] = used
                BY <3>1, <4>1, <2>1
            <4>3. BlockSize(l[k].id) = size
                BY <3>1, <1>6, <1>7 DEF size
            <4> HIDE DEF g
            <4> QED
                BY <4>1, <4>2, <4>3
        <3>2. CASE k # n + 1
            <4>1. k \in 0..n /\ (k # 0 => k \in 1..n /\ k - 1 \in 0..(n + 1) /\ k - 1 # n + 1)
                BY <3>2, <1>1
            <4>2. g[k] = t[k] /\ (k # 0 => g[k - 1] = t[k - 1])
                BY <3>2, <4>1
            <4>3. t[k] = IF k = 0 THEN 0 ELSE t[k - 1] + BlockSize(blocks[k].id)
                BY <2>2, <4>1
            <4>4. k # 0 => l[k] = blocks[k]
                BY <4>1, <1>7
            <4> HIDE DEF g
            <4> QED
                BY <4>2, <4>3, <4>4
        <3> QED
            BY <3>1, <3>2
    <2>4. g = [k \in 0..(n + 1) |-> IF k = 0 THEN 0 ELSE g[k - 1] + BlockSize(l[k].id)]
        BY <2>3
    <2>5. g[n + 1] = used + size
        BY <1>1
    <2> HIDE DEF g
    <2>6. Totals(l, g)
        BY <2>4, <1>7 DEF Totals
    <2> QED
        BY <2>5, <2>6, <1>7
<1>12. ASSUME NEW d
       PROVE  /\ Cardinality(Places(blocks, d)) \in Nat
              /\ Doc(list[i].id) = d =>
                     Cardinality(Places(l, d)) = Cardinality(Places(blocks, d)) + 1
              /\ Doc(list[i].id) # d =>
                     Cardinality(Places(l, d)) = Cardinality(Places(blocks, d))
    <2>1. Longer(blocks, b, l)
        BY <1>2, <1>3, <1>6, PlacesGrow
    <2> QED
        BY <2>1, <1>6 DEF Longer
<1>13. \A d : Cardinality(Places(l, d)) <= max
    <2> SUFFICES ASSUME NEW d
                 PROVE  Cardinality(Places(l, d)) <= max
        OBVIOUS
    <2>1. Cardinality(Places(blocks, d)) <= max
        BY DEF Packed
    <2> QED
        BY <2>1, <1>5, <1>12
<1>14. ASSUME NEW j \in 1..i
       PROVE  CitedAt(l, j) \/ Cardinality(Places(l, Doc(list[j].id))) = max
    <2>1. CASE j = i
        <3>1. n + 1 \in 1..Len(l) /\ l[n + 1].cite = i
            BY <1>1, <1>6, <1>7
        <3> QED
            BY <3>1, <2>1 DEF CitedAt
    <2>2. CASE j \in 1..(i - 1)
        <3>1. CitedAt(blocks, j) \/ Cardinality(Places(blocks, Doc(list[j].id))) = max
            BY <2>2 DEF Packed
        <3>2. CASE CitedAt(blocks, j)
            <4>1. PICK k \in 1..n : blocks[k].cite = j
                BY <3>2 DEF CitedAt
            <4>2. k \in 1..Len(l) /\ l[k].cite = j
                BY <4>1, <1>7, <1>8
            <4> QED
                BY <4>2 DEF CitedAt
        <3>3. CASE Cardinality(Places(blocks, Doc(list[j].id))) = max
            <4>1. Doc(list[i].id) # Doc(list[j].id)
                BY <3>3, <1>5
            <4> QED
                BY <4>1, <3>3, <1>5, <1>12
        <3> QED
            BY <3>1, <3>2, <3>3
    <2>3. j = i \/ j \in 1..(i - 1)
        OBVIOUS
    <2> QED
        BY <2>1, <2>2, <2>3
<1>15. used + size \in Nat /\ used + size <= req.context_budget
    BY <1>1, <1>5 DEF size
<1>16. Packed(list, F, i, l, used + size, FALSE)
    BY <1>7, <1>9, <1>10, <1>11, <1>13, <1>14, <1>15 DEF Packed
<1> QED
    BY <1>16 DEF size

(* assemble_context leaves the blocks right for the whole list of hits. *)
LEMMA AssembledSound ==
    ASSUME Known, NEW F, F \subseteq DOMAIN library, NEW n \in Nat,
           NEW list, Len(list) = n, \A i \in 1..n : list[i].id \in F,
           NEW l, l = assemble_context(list)
    PROVE  \E used, full : Packed(list, F, n, l, used, full)
<1>0. PICK s : s = CHOOSE f : f = [i \in 0..n |-> IF i = 0 THEN NoBlocks
                                                  ELSE AddSnippet(f[i - 1], list[i].id, i)]
    OBVIOUS
<1> DEFINE P == {i \in 0..n : /\ s[i] = [blocks |-> s[i].blocks, used |-> s[i].used,
                                         full |-> s[i].full]
                              /\ Packed(list, F, i, s[i].blocks, s[i].used, s[i].full)}
<1>1. l = s[n].blocks
    BY <1>0 DEF assemble_context
<1>2. s[0] = NoBlocks /\ \A i \in 1..n : s[i] = AddSnippet(s[i - 1], list[i].id, i)
    <2>1. \E f : Assembles(list, n, f)
        BY Assembly
    <2>2. Assembles(list, n, s)
        BY <1>0, <2>1, Zenon DEF Assembles
    <2> QED
        BY <2>2, AssemblySteps
<1>3. 0 \in P
    <2>1. s[0] = [blocks |-> <<>>, used |-> 0, full |-> FALSE]
        BY <1>2 DEF NoBlocks
    <2>2. Packed(list, F, 0, <<>>, 0, FALSE)
        <3>0. PICK e : e = <<>>
            OBVIOUS
        <3>1. e \in Seq(BlocksOf(0, F)) /\ Len(e) = 0 /\ \A k \in 1..0 : FALSE
            BY <3>0
        <3>2. \A d : Places(e, d) = {}
            BY <3>1 DEF Places
        <3>3. Cardinality({}) = 0
            BY FS_EmptySet
        <3>4. \E t : Totals(e, t) /\ t[0] = 0
            <4> DEFINE t == [k \in 0..0 |-> 0]
            <4>1. \A k \in 0..0 : k = 0
                OBVIOUS
            <4>2. t = [k \in 0..0 |-> IF k = 0 THEN 0 ELSE t[k - 1] + BlockSize(e[k].id)]
                BY <4>1, Zenon
            <4>3. t[0] = 0
                OBVIOUS
            <4> HIDE DEF t
            <4>4. Totals(e, t)
                BY <4>2, <3>1 DEF Totals
            <4> QED
                BY <4>3, <4>4
        <3>5. req.context_budget \in Nat /\ req.max_per_document \in Nat
            BY QueryAssumption DEF Known
        <3>6. Packed(list, F, 0, e, 0, FALSE)
            <4>1. \A d : Cardinality(Places(e, d)) <= req.max_per_document
                BY <3>2, <3>3, <3>5
            <4>2. \E t : Totals(e, t) /\ t[Len(e)] = 0
                BY <3>1, <3>4
            <4>3. 0 <= req.context_budget /\ 0 \in Nat
                BY <3>5
            <4>4. Len(e) = 0 /\ 1..Len(e) = {} /\ 1..0 = {}
                BY <3>1
            <4> QED
                BY <3>1, <4>1, <4>2, <4>3, <4>4 DEF Packed
        <3> QED
            BY <3>0, <3>6
    <2>3. s[0].blocks = <<>> /\ s[0].used = 0 /\ s[0].full = FALSE /\ 0 \in 0..n
        BY <2>1
    <2>4. Packed(list, F, 0, s[0].blocks, s[0].used, s[0].full)
        BY <2>2, <2>3
    <2>5. s[0] = [blocks |-> s[0].blocks, used |-> s[0].used, full |-> s[0].full]
        BY <2>1, <2>3
    <2> QED
        BY <2>3, <2>4, <2>5
<1>4. ASSUME NEW i \in 1..n, i - 1 \in P
      PROVE  i \in P
    <2>1. PICK blocks, used, full :
              /\ s[i - 1] = [blocks |-> blocks, used |-> used, full |-> full]
              /\ Packed(list, F, i - 1, blocks, used, full)
        BY <1>4
    <2>2. PICK st : st = s[i - 1]
        OBVIOUS
    <2>3. st.blocks = blocks /\ st.used = used /\ st.full = full
        BY <2>1, <2>2
    <2>4. PICK c : c = list[i].id
        OBVIOUS
    <2>5. c \in F /\ s[i] = AddSnippet(st, c, i)
        BY <1>2, <2>2, <2>4
    <2>6. Blocks(st, c) = Cardinality(Places(blocks, Doc(c)))
        BY <2>3 DEF Blocks, Places
    <2>7. /\ Cardinality(Places(blocks, Doc(c))) <= req.max_per_document
          /\ Cardinality(Places(blocks, Doc(c))) \in Nat
          /\ req.max_per_document \in Nat /\ req.context_budget \in Nat
          /\ used \in Nat /\ BlockSize(c) \in Nat /\ full \in BOOLEAN
        <3>1. blocks \in Seq(BlocksOf(i - 1, F))
            BY <2>1 DEF Packed
        <3> QED
            BY <3>1, <2>1, <2>5, PlacesAreFinite, BlockSizeIsNumber, QueryAssumption
               DEF Packed, Known
    <2>8. i \in Nat \ {0} /\ i \in 0..n
        OBVIOUS
    <2> SUFFICES \E b, u, f : /\ s[i] = [blocks |-> b, used |-> u, full |-> f]
                              /\ Packed(list, F, i, b, u, f)
        BY <2>8
    <2>9. CASE full \/ Blocks(st, c) >= req.max_per_document
        <3>1. s[i] = [blocks |-> blocks, used |-> used, full |-> full]
            BY <2>1, <2>2, <2>3, <2>5, <2>9 DEF AddSnippet
        <3>2. ~full => Cardinality(Places(blocks, Doc(list[i].id))) = req.max_per_document
            BY <2>4, <2>6, <2>7, <2>9
        <3>3. Packed(list, F, i, blocks, used, full)
            BY <2>1, <2>7, <2>8, <3>2, PassedOver
        <3> QED
            BY <3>1, <3>3
    <2>10. CASE /\ ~(full \/ Blocks(st, c) >= req.max_per_document)
                /\ st.used + BlockSize(c) > req.context_budget
        <3>1. s[i] = [st EXCEPT !.full = TRUE]
            BY <2>3, <2>5, <2>10 DEF AddSnippet
        <3>2. st = [blocks |-> blocks, used |-> used, full |-> full]
            BY <2>1, <2>2
        <3>3. s[i] = [blocks |-> blocks, used |-> used, full |-> TRUE]
            BY <3>1, <3>2
        <3>4. Packed(list, F, i, blocks, used, TRUE)
            BY <2>1, <2>8, PassedOver
        <3> QED
            BY <3>3, <3>4
    <2>11. CASE /\ ~(full \/ Blocks(st, c) >= req.max_per_document)
                /\ ~(st.used + BlockSize(c) > req.context_budget)
        <3> DEFINE b == Append(blocks, [cite |-> i, id |-> c])
        <3>1. s[i] = [blocks |-> b, used |-> used + BlockSize(c), full |-> FALSE]
            BY <2>3, <2>5, <2>11 DEF AddSnippet
        <3>2. /\ Cardinality(Places(blocks, Doc(list[i].id))) < req.max_per_document
              /\ used + BlockSize(list[i].id) <= req.context_budget
              /\ full = FALSE
            BY <2>3, <2>4, <2>6, <2>7, <2>11
        <3>3. b = Append(blocks, [cite |-> i, id |-> list[i].id])
            BY <2>4
        <3> HIDE DEF b
        <3>4. Packed(list, F, i, b, used + BlockSize(list[i].id), FALSE)
            BY <2>1, <2>4, <2>5, <2>8, <3>2, <3>3, Appended
        <3> QED
            BY <3>1, <3>4, <2>4
    <2> QED
        BY <2>9, <2>10, <2>11
<1>5. n \in P
    <2> HIDE DEF P
    <2> QED
        BY <1>3, <1>4, UpTo
<1> QED
    BY <1>1, <1>5

(* The context the model is given cites each hit by its place in the       *)
(* answer, keeps to the budget and to the share of each document, and      *)
(* before its last block leaves out a hit only if the hit's document has   *)
(* its share.                                                              *)
THEOREM ContextIsFaithful == QuerySpec => []ContextFaithful
<1>1. QueryInv => ContextFaithful
    <2> SUFFICES ASSUME QueryInv, Answered
                 PROVE  ContextFaithful
        BY DEF ContextFaithful
    <2> DEFINE F == DOMAIN fused
               n == Len(hits)
               max == req.max_per_document
    <2>1. /\ hits \in Seq(HitsOf(F)) /\ n \in Nat /\ F \subseteq DOMAIN library
          /\ Known
        BY DEF QueryInv, Begun, Known, Answered, Chosen, FusedBears, Seen
    <2>2. \A i \in 1..n : hits[i].id \in F
        <3>1. \A i \in 1..n : hits[i] \in HitsOf(F)
            BY <2>1, Elements
        <3> QED
            BY <3>1 DEF HitsOf
    <2>3. PICK l : l = assemble_context(hits)
        OBVIOUS
    <2>4. PICK used, full : Packed(hits, F, n, l, used, full)
        <3> HIDE DEF F, n
        <3>1. Len(hits) = n
            BY DEF n
        <3> QED
            BY ONLY <2>1, <2>2, <2>3, <3>1, AssembledSound
    <2> HIDE DEF F
    <2> DEFINE m == Len(l)
               total == CHOOSE f : f = [k \in 0..m |->
                            IF k = 0 THEN 0 ELSE f[k - 1] + BlockSize(l[k].id)]
               Cited == {b.cite : b \in ToSet(l)}
               Share(d) == Cardinality({b \in ToSet(l) : Doc(b.id) = d})
    <2>5. /\ l \in Seq(BlocksOf(n, F)) /\ m \in Nat
          /\ ToSet(l) = {l[k] : k \in 1..m}
          /\ \A k \in 1..m : l[k].cite \in 1..n
        <3>1. l \in Seq(BlocksOf(n, F)) /\ m \in Nat
            BY <2>4 DEF Packed
        <3>2. ToSet(l) = {l[k] : k \in 1..m} /\ \A k \in 1..m : l[k] \in BlocksOf(n, F)
            BY <3>1, Image, Elements
        <3>3. \A x \in BlocksOf(n, F) : x.cite \in 1..n
            BY DEF BlocksOf
        <3> QED
            BY <3>1, <3>2, <3>3
    <2>6. \A b \in ToSet(l) : b.cite \in 1..n /\ hits[b.cite].id = b.id
        BY <2>4, <2>5 DEF Packed
    <2>7. total[m] <= req.context_budget
        <3>1. PICK t : Totals(l, t) /\ t[m] = used
            BY <2>4 DEF Packed
        <3>2. t = [k \in 0..m |-> IF k = 0 THEN 0 ELSE t[k - 1] + BlockSize(l[k].id)]
            BY <3>1 DEF Totals
        <3>3. total = [k \in 0..m |-> IF k = 0 THEN 0 ELSE total[k - 1] + BlockSize(l[k].id)]
            BY <3>2, Zenon
        <3> HIDE DEF total
        <3> DEFINE P == {k \in 0..m : total[k] = t[k]}
        <3>4. 0 \in P
            <4>1. 0 \in 0..m
                BY <2>5
            <4> QED
                BY <3>2, <3>3, <4>1
        <3>5. ASSUME NEW k \in 1..m, k - 1 \in P
              PROVE  k \in P
            <4>1. k \in 0..m /\ k # 0 /\ total[k - 1] = t[k - 1]
                BY <2>5, <3>5
            <4>2. total[k] = total[k - 1] + BlockSize(l[k].id) /\ t[k] = t[k - 1] + BlockSize(l[k].id)
                BY <3>2, <3>3, <4>1
            <4> QED
                BY <4>1, <4>2
        <3>6. m \in P
            <4>1. m \in Nat
                BY <2>5
            <4> HIDE DEF P, m
            <4>2. \A k \in 1..m : k - 1 \in P => k \in P
                BY <3>5
            <4>3. \A k \in 0..m : k \in P
                BY ONLY <4>1, <4>2, <3>4, UpTo
            <4> QED
                BY <4>1, <4>3
        <3> QED
            BY <3>1, <3>6, <2>4 DEF Packed
    <2>8. \A d : Share(d) = Cardinality(Places(l, d))
        <3> SUFFICES ASSUME NEW d
                     PROVE  Share(d) = Cardinality(Places(l, d))
            OBVIOUS
        <3> DEFINE Q == Places(l, d)
                   h == [k \in Q |-> l[k]]
                   T == {b \in ToSet(l) : Doc(b.id) = d}
        <3>1. IsFiniteSet(Q)
            BY <2>5, PlacesAreFinite
        <3>2. DOMAIN h = Q /\ T = {h[k] : k \in Q}
            BY <2>5 DEF Places
        <3>3. \A k \in Q : k \in 1..m /\ h[k] = l[k]
            BY DEF Places
        <3> HIDE DEF Q, h
        <3>4. \A j, k \in Q : h[j] = h[k] => j = k
            <4> SUFFICES ASSUME NEW j \in Q, NEW k \in Q, h[j] = h[k]
                         PROVE  j = k
                OBVIOUS
            <4>1. j \in 1..m /\ k \in 1..m /\ l[j].cite = l[k].cite
                BY <3>3
            <4>2. /\ j < k => l[j].cite < l[k].cite
                  /\ k < j => l[k].cite < l[j].cite
                BY <4>1, <2>4 DEF Packed
            <4>3. l[j].cite \in Nat /\ l[k].cite \in Nat
                BY <4>1, <2>5
            <4> QED
                BY <4>1, <4>2, <4>3, <2>5
        <3> HIDE DEF T
        <3>5. Cardinality(T) = Cardinality(Q)
            BY ONLY <3>1, <3>2, <3>4, ImagedOnce
        <3> QED
            BY <3>5 DEF T, Q
    <2>9. \A d : Share(d) <= max
        BY <2>4, <2>8 DEF Packed
    <2>10. ASSUME NEW b \in ToSet(l), NEW i \in 1..b.cite
           PROVE  i \in Cited \/ Share(Doc(hits[i].id)) = max
        <3>1. PICK k \in 1..m : b = l[k]
            BY <2>5
        <3>2. i \in 1..n /\ ~(l[k].cite < i)
            BY <2>5, <3>1
        <3>3. \/ CitedAt(l, i)
              \/ Cardinality(Places(l, Doc(hits[i].id))) = max
            BY <2>4, <3>2 DEF Packed
        <3>4. CASE CitedAt(l, i)
            <4>1. PICK j \in 1..m : l[j].cite = i
                BY <3>4 DEF CitedAt
            <4> QED
                BY <4>1, <2>5
        <3>5. CASE Cardinality(Places(l, Doc(hits[i].id))) = max
            BY <3>5, <2>8
        <3> QED
            BY <3>3, <3>4, <3>5
    <2> HIDE DEF total, Cited, Share
    <2> QED
        BY <2>3, <2>6, <2>7, <2>9, <2>10 DEF ContextFaithful, total, Cited, Share
<1> QED
    BY <1>1, QueryInvariant, PTL

-----------------------------------------------------------------------------
(* The HNSW index (AnnIndex), for every corpus, level, degree and order of  *)
(* insertion.                                                              *)

Laid == layout \in Layouts

(* The order of a beam: by distance, and by id among equals. *)
Order(q, S) == {p \in S \X S : Closer(q, p[1], p[2])}

(* Distances are numbers. *)
LEMMA DistIsNumber ==
    ASSUME Laid, NEW q \in Directions, NEW x \in Nodes
    PROVE  At(x) \in Directions /\ dist(q, At(x)) \in Int
<1>1. At(x) \in Directions
    BY AnnAssumption DEF Laid, At
<1>2. cosine(q, At(x)) \in Int
    BY <1>1, CosineIsNumber
<1> QED
    BY <1>1, <1>2 DEF dist

(* Nodes are ordered strictly, whatever their distances. *)
LEMMA CloserOrders ==
    ASSUME Laid, NEW q \in Directions, NEW S \in SUBSET Nodes
    PROVE  /\ IsFiniteSet(S) /\ StrictOrder(S, Order(q, S))
           /\ \A x, y \in S : <<x, y>> \in Order(q, S) <=> Closer(q, x, y)
<1> DEFINE d == [x \in S |-> dist(q, At(x))]
<1>1. \A x \in S : d[x] \in Int /\ d[x] = dist(q, At(x)) /\ x \in Int
    BY AnnAssumption, DistIsNumber
<1> HIDE DEF d
<1>2. \A x, y \in S : Closer(q, x, y) <=> d[x] < d[y] \/ (d[x] = d[y] /\ x < y)
    BY <1>1 DEF Closer
<1>3. \A x, y \in S : <<x, y>> \in Order(q, S) <=> Closer(q, x, y)
    BY DEF Order
<1> DEFINE B == Order(q, S)
<1>4. \A x, y \in S : <<x, y>> \in B <=> d[x] < d[y] \/ (d[x] = d[y] /\ x < y)
    BY <1>2, <1>3
<1> HIDE DEF B
<1>5. StrictOrder(S, B)
    <2>1. \A x \in S : <<x, x>> \notin B
        BY <1>1, <1>4
    <2>2. \A x, y, z \in S : <<x, y>> \in B /\ <<y, z>> \in B => <<x, z>> \in B
        BY <1>1, <1>4
    <2>3. \A x, y \in S : x # y => <<x, y>> \in B \/ <<y, x>> \in B
        BY <1>1, <1>4
    <2> QED
        BY <2>1, <2>2, <2>3 DEF StrictOrder
<1>6. IsFiniteSet(S)
    BY AnnAssumption, FS_Subset
<1> QED
    BY <1>3, <1>5, <1>6 DEF B

(* A sorted beam has its nodes once, nearest first. *)
LEMMA RankedSound ==
    ASSUME Laid, NEW q \in Directions, NEW S \in SUBSET Nodes, NEW l, l = Ranked(q, S)
    PROVE  /\ l \in Seq(S) /\ Len(l) = Cardinality(S) /\ Cardinality(S) \in Nat
           /\ ToSet(l) = S /\ \A x \in S : \E k \in 1..Len(l) : l[k] = x
           /\ \A i, j \in 1..Len(l) : i < j => Closer(q, l[i], l[j])
           /\ \A i, j \in 1..Len(l) : l[i] = l[j] => i = j
<1> DEFINE B == Order(q, S)
<1>1. /\ IsFiniteSet(S) /\ StrictOrder(S, B)
      /\ \A x, y \in S : <<x, y>> \in B <=> Closer(q, x, y)
    BY CloserOrders
<1>2. l = Listing(S, B)
    BY DEF Ranked, Order
<1> HIDE DEF B
<1>3. /\ Cardinality(S) \in Nat
      /\ l \in Seq(S) /\ Len(l) = Cardinality(S)
      /\ \A x \in S : \E k \in 1..Len(l) : l[k] = x
      /\ \A i, j \in 1..Len(l) : i < j => <<l[i], l[j]>> \in B
      /\ \A i, j \in 1..Len(l) : l[i] = l[j] => i = j
    BY ONLY <1>1, <1>2, ListingSound
<1>4. \A k \in 1..Len(l) : l[k] \in S
    BY <1>3, Elements
<1>5. \A i, j \in 1..Len(l) : i < j => Closer(q, l[i], l[j])
    BY <1>1, <1>3, <1>4
<1>6. ToSet(l) = S
    <2>1. ToSet(l) = {l[i] : i \in 1..Len(l)} /\ ToSet(l) \subseteq S
        BY <1>3, Image
    <2> QED
        BY <1>3, <2>1
<1> QED
    BY <1>3, <1>5, <1>6

(* A list that has all of S, nearest first, is the sorted beam. *)
LEMMA RankedOnly ==
    ASSUME Laid, NEW q \in Directions, NEW S \in SUBSET Nodes, NEW l \in Seq(S),
           \A x \in S : \E k \in 1..Len(l) : l[k] = x,
           \A i, j \in 1..Len(l) : i < j => Closer(q, l[i], l[j])
    PROVE  l = Ranked(q, S)
<1> DEFINE B == Order(q, S)
<1>1. /\ IsFiniteSet(S) /\ StrictOrder(S, B)
      /\ \A x, y \in S : <<x, y>> \in B <=> Closer(q, x, y)
    BY CloserOrders
<1>2. Ranked(q, S) = Listing(S, B)
    BY DEF Ranked, Order
<1> HIDE DEF B
<1>3. \A k \in 1..Len(l) : l[k] \in S
    BY Elements
<1>4. \A i, j \in 1..Len(l) : i < j => <<l[i], l[j]>> \in B
    BY <1>1, <1>3
<1>5. l \in Seq(S) /\ \A x \in S : \E k \in 1..Len(l) : l[k] = x
    OBVIOUS
<1>6. l = Listing(S, B)
    BY ONLY <1>1, <1>4, <1>5, ListingOnly
<1> QED
    BY <1>2, <1>6

(* A beam that is not empty has a nearest and a farthest node. *)
LEMMA EndsOf ==
    ASSUME Laid, NEW q \in Directions, NEW S \in SUBSET Nodes, S # {}
    PROVE  /\ Nearest(q, S) \in S /\ Farthest(q, S) \in S
           /\ \A y \in S : dist(q, At(y)) <= dist(q, At(Farthest(q, S)))
<1> PICK l : l = Ranked(q, S)
    OBVIOUS
<1>1. /\ l \in Seq(S) /\ \A x \in S : \E k \in 1..Len(l) : l[k] = x
      /\ \A i, j \in 1..Len(l) : i < j => Closer(q, l[i], l[j])
    BY RankedSound
<1>2. Len(l) \in Nat /\ \A k \in 1..Len(l) : l[k] \in S
    BY <1>1, Elements
<1>3. 1 \in 1..Len(l) /\ Len(l) \in 1..Len(l)
    BY <1>1, <1>2
<1>4. \A y \in S \ {l[1]} : Closer(q, l[1], y)
    <2> SUFFICES ASSUME NEW y \in S \ {l[1]} PROVE Closer(q, l[1], y)
        OBVIOUS
    <2>1. PICK k \in 1..Len(l) : l[k] = y
        BY <1>1
    <2>2. 1 < k
        BY <2>1
    <2> QED
        BY <1>1, <1>3, <2>1, <2>2
<1>5. \A y \in S \ {l[Len(l)]} : Closer(q, y, l[Len(l)])
    <2> SUFFICES ASSUME NEW y \in S \ {l[Len(l)]} PROVE Closer(q, y, l[Len(l)])
        OBVIOUS
    <2>1. PICK k \in 1..Len(l) : l[k] = y
        BY <1>1
    <2>2. k < Len(l)
        BY <1>2, <2>1
    <2> QED
        BY <1>1, <1>3, <2>1, <2>2
<1>6. Nearest(q, S) \in S
    BY <1>2, <1>3, <1>4 DEF Nearest
<1>7. PICK f : f = Farthest(q, S)
    OBVIOUS
<1>8. f \in S /\ \A y \in S \ {f} : Closer(q, y, f)
    BY <1>2, <1>3, <1>5, <1>7 DEF Farthest
<1>9. ASSUME NEW y \in S
      PROVE  dist(q, At(y)) <= dist(q, At(f))
    <2>1. y \in Nodes /\ f \in Nodes
        BY <1>8
    <2>2. PICK a, b : a = dist(q, At(y)) /\ b = dist(q, At(f))
        OBVIOUS
    <2>3. a \in Int /\ b \in Int
        BY <2>1, <2>2, DistIsNumber
    <2>4. y = f \/ Closer(q, y, f)
        BY <1>8
    <2>5. y = f \/ a < b \/ a = b
        BY <2>2, <2>4 DEF Closer
    <2> QED
        BY <2>2, <2>3, <2>5
<1> QED
    BY <1>6, <1>7, <1>8, <1>9

-----------------------------------------------------------------------------
(* The graph. *)

Capacity(l) == IF l = 0 THEN M0 ELSE M

(* The nodes of I that have layer l. *)
On(I, l) == {y \in I : Level[y] >= l}

(* The links of node x at layer l lead to other nodes of I that have the   *)
(* layer, none twice, and keep to the capacity.                            *)
LinkList(s, x, l, I) ==
    /\ s \in Seq(On(I, l) \ {x}) /\ Len(s) <= Capacity(l)
    /\ \A i, j \in 1..Len(s) : s[i] = s[j] => i = j

Graph(g, I) ==
    /\ g = [x \in Nodes |-> g[x]]
    /\ \A x \in Nodes : g[x] = [l \in 0..Level[x] |-> g[x][l]]
    /\ \A x \in Nodes : \A l \in 0..Level[x] : LinkList(g[x][l], x, l, I)

AnnTyped ==
    /\ Laid /\ inserted \subseteq Nodes /\ max_level \in Nat
    /\ entry # 0 <=> inserted # {}
    /\ Graph(links, inserted)

AnnInv == AnnTyped /\ EntryOnTop

(* Fewer nodes have a higher layer. *)
LEMMA OnLess ==
    ASSUME NEW I \in SUBSET Nodes, NEW l \in Nat, NEW k \in Nat, l <= k
    PROVE  /\ On(I, k) \subseteq On(I, l) /\ On(I, k) \in SUBSET I /\ On(I, k) \in SUBSET Nodes
           /\ On(I, 0) = I
<1>1. \A y \in Nodes : Level[y] \in Nat
    BY AnnAssumption
<1>2. \A y \in I : y \in Nodes
    OBVIOUS
<1>3. \A y \in I : (Level[y] >= k => Level[y] >= l) /\ Level[y] >= 0
    BY <1>1, <1>2
<1> QED
    BY <1>3 DEF On

(* Links lead to nodes that have the layer. *)
LEMMA LinksOn ==
    ASSUME AnnTyped, NEW x \in Nodes, NEW l \in Nat
    PROVE  Links(x, l) \in Seq(On(inserted, l))
<1>1. CASE l <= Level[x]
    <2>1. l \in 0..Level[x]
        BY <1>1, AnnAssumption
    <2>2. LinkList(links[x][l], x, l, inserted)
        BY <2>1 DEF AnnTyped, Graph
    <2> DEFINE N == On(inserted, l)
               s == links[x][l]
    <2>3. s \in Seq(N \ {x})
        BY <2>2 DEF LinkList
    <2> HIDE DEF N, s
    <2>4. s \in Seq(N)
        BY <2>3, Widen
    <2> QED
        BY <2>4, <1>1 DEF Links, N, s
<1>2. CASE ~(l <= Level[x])
    BY <1>2, Elements DEF Links
<1> QED
    BY <1>1, <1>2

(* A greedy move stays among the nodes N that have the layer. *)
LEMMA NearerKeeps ==
    ASSUME AnnTyped, NEW q \in Directions, NEW l \in Nat,
           NEW N \in SUBSET Nodes, On(inserted, l) \subseteq N, NEW ep \in N
    PROVE  Nearer(ep, q, l) \in N
<1> DEFINE to == Links(ep, l)
           near == {i \in 1..Len(to) : dist(q, At(to[i])) < dist(q, At(ep))}
           v == [i \in near |-> 0 - dist(q, At(to[i]))]
           First(i) == \A j \in near \ {i} :
                           \/ dist(q, At(to[i])) < dist(q, At(to[j]))
                           \/ dist(q, At(to[i])) = dist(q, At(to[j])) /\ i < j
           first == CHOOSE i \in near : First(i)
<1>1. to \in Seq(On(inserted, l))
    BY LinksOn
<1>2. Len(to) \in Nat /\ \A i \in 1..Len(to) : to[i] \in N
    BY <1>1, Elements
<1>3. Nearer(ep, q, l) = IF near = {} THEN ep ELSE to[first]
    BY DEF Nearer
<1> HIDE DEF to
<1>4. CASE near # {}
    <2>1. near \in SUBSET (1..Len(to)) /\ near \in SUBSET Int
        BY <1>2
    <2>2. IsFiniteSet(near)
        BY <2>1, <1>2, Counted, FS_Subset
    <2>3. \A i \in near : dist(q, At(to[i])) \in Int
        BY <1>2, <2>1, DistIsNumber DEF AnnTyped
    <2>4. v \in [near -> Int] /\ \A i \in near : v[i] = 0 - dist(q, At(to[i]))
        BY <2>3
    <2> HIDE DEF near, v
    <2>5. PICK i \in near : \A j \in near \ {i} : v[i] > v[j] \/ (v[i] = v[j] /\ i < j)
        BY <2>1, <2>2, <2>4, <1>4, BestOf
    <2>6. First(i)
        <3> SUFFICES ASSUME NEW j \in near \ {i}
                     PROVE  \/ dist(q, At(to[i])) < dist(q, At(to[j]))
                            \/ dist(q, At(to[i])) = dist(q, At(to[j])) /\ i < j
            OBVIOUS
        <3>1. PICK a, b : a = dist(q, At(to[i])) /\ b = dist(q, At(to[j]))
            OBVIOUS
        <3>2. a \in Int /\ b \in Int /\ v[i] = 0 - a /\ v[j] = 0 - b
            BY <3>1, <2>3, <2>4
        <3>3. v[i] > v[j] \/ (v[i] = v[j] /\ i < j)
            BY <2>5
        <3>4. a < b \/ (a = b /\ i < j)
            BY <3>2, <3>3
        <3> QED
            BY <3>1, <3>4
    <2>7. first \in near
        <3> HIDE DEF First
        <3> QED
            BY <2>6
    <2> HIDE DEF first
    <2> QED
        BY <2>1, <2>7, <1>2, <1>3, <1>4
<1>5. CASE near = {}
    BY <1>3, <1>5
<1> QED
    BY <1>4, <1>5

(* So do all of them. *)
LEMMA GreedyKeeps ==
    ASSUME AnnTyped, NEW q \in Directions, NEW l \in Nat,
           NEW N \in SUBSET Nodes, On(inserted, l) \subseteq N, NEW ep \in N
    PROVE  greedy_step(ep, q, l) \in N
<1> DEFINE n == Cardinality(Nodes)
           S == [i \in 0..n |-> N]
           move == [i \in 1..n |-> [x \in N |-> Nearer(x, q, l)]]
           node == CHOOSE f : f = [i \in 0..n |-> IF i = 0 THEN ep ELSE Nearer(f[i - 1], q, l)]
<1>1. n \in Nat
    BY AnnAssumption, FS_CardinalityType
<1>2. greedy_step(ep, q, l) = node[n]
    BY DEF greedy_step
<1> HIDE DEF n
<1>3. \A x \in N : Nearer(x, q, l) \in N
    BY NearerKeeps
<1>4. /\ ep \in S[0] /\ \A i \in 0..n : S[i] = N
      /\ \A i \in 1..n : i \in 0..n /\ i - 1 \in 0..n
      /\ \A i \in 1..n : \A x \in N : move[i][x] = Nearer(x, q, l)
    BY <1>1
<1> HIDE DEF S, move
<1>5. Typed(n, S, ep, move)
    BY <1>3, <1>4 DEF Typed
<1>6. PICK f : /\ f = [i \in 0..n |-> IF i = 0 THEN ep ELSE move[i][f[i - 1]]]
               /\ \A i \in 0..n : f[i] \in S[i]
    BY ONLY <1>1, <1>5, Unrolled
<1>7. \A i \in 0..n : (IF i = 0 THEN ep ELSE move[i][f[i - 1]])
                    = (IF i = 0 THEN ep ELSE Nearer(f[i - 1], q, l))
    <2>1. \A i \in 0..n : i # 0 => i \in 1..n
        BY <1>1
    <2> QED
        BY <2>1, <1>4, <1>6
<1>8. f = [i \in 0..n |-> IF i = 0 THEN ep ELSE Nearer(f[i - 1], q, l)]
    BY ONLY <1>6, <1>7, Zenon
<1>9. node = [i \in 0..n |-> IF i = 0 THEN ep ELSE Nearer(node[i - 1], q, l)]
    BY <1>8, Zenon
<1> HIDE DEF node
<1>10. \A i \in 0..n : node[i] = IF i = 0 THEN ep ELSE Nearer(node[i - 1], q, l)
    BY ONLY <1>9, Zenon
<1>11. node[0] = ep /\ \A i \in 1..n : node[i - 1] \in S[i - 1] => node[i] = move[i][node[i - 1]]
    BY <1>1, <1>4, <1>10
<1>12. \A i \in 0..n : node[i] \in S[i]
    BY ONLY <1>1, <1>5, <1>11, Reached
<1> QED
    BY <1>1, <1>2, <1>4, <1>12

(* The descent ends at a node of the layer it goes to, or, if that is above *)
(* where it begins, at the node it begins at.                              *)
LEMMA DescendKeeps ==
    ASSUME AnnTyped, NEW q \in Directions, NEW from \in Nat, NEW to \in Nat,
           NEW ep \in On(inserted, from)
    PROVE  Descend(ep, q, from, to) \in On(inserted, Lesser(from, to))
<1> DEFINE n == IF from < to THEN 0 ELSE from + 1 - to
           S == [i \in 0..n |-> IF i = 0 THEN On(inserted, from) ELSE On(inserted, from + 1 - i)]
           move == [i \in 1..n |-> [x \in S[i - 1] |-> greedy_step(x, q, from + 1 - i)]]
           node == CHOOSE f : f = [i \in 0..n |-> IF i = 0 THEN ep
                                                  ELSE greedy_step(f[i - 1], q, from + 1 - i)]
<1>1. n \in Nat /\ \A i \in 1..n : from + 1 - i \in Nat
    OBVIOUS
<1>2. Descend(ep, q, from, to) = node[n]
    BY DEF Descend
<1>3. n = 0 \/ (n # 0 /\ from + 1 - n = to)
    OBVIOUS
<1>0. n = 0 => Lesser(from, to) = from
    BY DEF Lesser
<1>00. n # 0 => Lesser(from, to) = to
    BY DEF Lesser
<1> HIDE DEF n
<1>4. /\ S[0] = On(inserted, from)
      /\ \A i \in 1..n : i \in 0..n /\ i - 1 \in 0..n /\ S[i] = On(inserted, from + 1 - i)
    BY <1>1
<1>5. \A i \in 1..n : \A x \in S[i - 1] : move[i][x] = greedy_step(x, q, from + 1 - i)
    OBVIOUS
<1> HIDE DEF S, move
<1>6. ASSUME NEW i \in 1..n
      PROVE  S[i - 1] \in SUBSET On(inserted, from + 1 - i) /\ On(inserted, from + 1 - i) \in SUBSET Nodes
    <2>1. from + 1 - i \in Nat /\ inserted \in SUBSET Nodes
        BY <1>1 DEF AnnTyped
    <2>2. CASE i = 1
        <3>1. from + 1 - i = from /\ i - 1 = 0
            BY <2>2
        <3> QED
            BY <3>1, <2>1, <1>4, OnLess
    <2>3. CASE i # 1
        <3>1. i - 1 \in 1..n /\ from + 1 - (i - 1) \in Nat /\ from + 1 - i <= from + 1 - (i - 1)
            BY <2>3, <1>1
        <3> QED
            BY <3>1, <2>1, <1>4, OnLess
    <2> QED
        BY <2>2, <2>3
<1>7. ASSUME NEW i \in 1..n, NEW x \in S[i - 1]
      PROVE  move[i][x] \in S[i]
    <2> DEFINE N == On(inserted, from + 1 - i)
    <2>1. x \in N /\ N \in SUBSET Nodes /\ from + 1 - i \in Nat /\ On(inserted, from + 1 - i) \subseteq N
        BY <1>1, <1>6
    <2>2. move[i][x] = greedy_step(x, q, from + 1 - i) /\ S[i] = N
        BY <1>4, <1>5
    <2> HIDE DEF N
    <2>3. greedy_step(x, q, from + 1 - i) \in N
        BY <2>1, GreedyKeeps
    <2> QED
        BY <2>2, <2>3
<1>8. Typed(n, S, ep, move)
    BY <1>4, <1>7 DEF Typed
<1>9. PICK f : /\ f = [i \in 0..n |-> IF i = 0 THEN ep ELSE move[i][f[i - 1]]]
               /\ \A i \in 0..n : f[i] \in S[i]
    BY ONLY <1>1, <1>8, Unrolled
<1>10. \A i \in 0..n : (IF i = 0 THEN ep ELSE move[i][f[i - 1]])
                     = (IF i = 0 THEN ep ELSE greedy_step(f[i - 1], q, from + 1 - i))
    <2>1. \A i \in 0..n : i # 0 => i \in 1..n
        BY <1>1
    <2> QED
        BY <2>1, <1>4, <1>5, <1>9
<1>11. f = [i \in 0..n |-> IF i = 0 THEN ep ELSE greedy_step(f[i - 1], q, from + 1 - i)]
    BY ONLY <1>9, <1>10, Zenon
<1>12. node = [i \in 0..n |-> IF i = 0 THEN ep ELSE greedy_step(node[i - 1], q, from + 1 - i)]
    BY <1>11, Zenon
<1> HIDE DEF node
<1>13. \A i \in 0..n : node[i] = IF i = 0 THEN ep ELSE greedy_step(node[i - 1], q, from + 1 - i)
    BY ONLY <1>12, Zenon
<1>14. node[0] = ep /\ \A i \in 1..n : node[i - 1] \in S[i - 1] => node[i] = move[i][node[i - 1]]
    BY <1>1, <1>4, <1>5, <1>13
<1>15. \A i \in 0..n : node[i] \in S[i]
    BY ONLY <1>1, <1>8, <1>14, Reached
<1>16. node[n] \in S[n] /\ (n # 0 => n \in 1..n)
    BY <1>1, <1>15
<1> QED
    BY <1>0, <1>00, <1>2, <1>3, <1>4, <1>16

-----------------------------------------------------------------------------
(* The beam. *)

(* Searches among the nodes N. *)
Beams(N) == [visited : SUBSET N, cand : SUBSET N, best : SUBSET N]

(* At layer l, links of nodes N lead to nodes N. *)
Inside(N, l) == \A y \in N : Links(y, l) \in Seq(N)

(* The nodes of list `to` are offered to search a, one by one. *)
Offers(N, q, ef, a, to, seen) ==
    /\ seen[0] = a
    /\ \A i \in 1..Len(to) : seen[i] = Offer(q, ef, seen[i - 1], to[i])
    /\ \A i \in 0..Len(to) : seen[i] \in Beams(N)

(* Search a makes n visits. *)
Visits(N, q, ef, l, a, n, s) ==
    /\ n \in Nat /\ s[0] = a
    /\ \A i \in 1..n : s[i] = Visit(q, ef, l, s[i - 1])
    /\ \A i \in 0..n : s[i] \in Beams(N)

(* An offered node joins the search or is refused. *)
LEMMA OfferKeeps ==
    ASSUME NEW N, NEW q, NEW ef, NEW s \in Beams(N), NEW x \in N
    PROVE  Offer(q, ef, s, x) \in Beams(N)
<1> DEFINE kept == s.best \cup {x}
           some == IF Cardinality(kept) > ef THEN kept \ {Farthest(q, kept)} ELSE kept
           far == /\ Cardinality(s.best) >= ef
                  /\ dist(q, At(x)) >= dist(q, At(Farthest(q, s.best)))
           seen == [s EXCEPT !.visited = @ \cup {x}]
           new == [seen EXCEPT !.cand = @ \cup {x}, !.best = some]
<1>1. Offer(q, ef, s, x) = IF x \in s.visited THEN s ELSE IF far THEN seen ELSE new
    BY DEF Offer
<1>2. some \in SUBSET N
    BY DEF Beams
<1> HIDE DEF some, far
<1>3. seen \in Beams(N)
    BY DEF Beams
<1>4. new \in Beams(N)
    BY <1>2, <1>3 DEF Beams
<1> HIDE DEF seen, new
<1> QED
    BY <1>1, <1>3, <1>4

(* One node's neighbours: a fold of offers over its links. *)
LEMMA VisitIs ==
    ASSUME NEW N \in SUBSET Nodes, NEW q, NEW ef, NEW l, Inside(N, l),
           NEW s \in Beams(N), ~Ended(q, ef, s), NEW c \in N, c = Nearest(q, s.cand),
           NEW to, to = Links(c, l), NEW a, a = [s EXCEPT !.cand = @ \ {c}]
    PROVE  \E seen : Visit(q, ef, l, s) = seen[Len(to)] /\ Offers(N, q, ef, a, to, seen)
<1> PICK n, B : n = Len(to) /\ B = Beams(N)
    OBVIOUS
<1> DEFINE S == [i \in 0..n |-> B]
           move == [i \in 1..n |-> [x \in B |-> Offer(q, ef, x, to[i])]]
           seen == CHOOSE f : f = [i \in 0..n |-> IF i = 0 THEN a
                                                  ELSE Offer(q, ef, f[i - 1], to[i])]
<1>1. to \in Seq(N)
    BY DEF Inside
<1>2. n \in Nat /\ \A i \in 1..n : to[i] \in N
    BY <1>1, Elements
<1>3. Visit(q, ef, l, s) = seen[n]
    BY DEF Visit
<1>4. a \in B
    BY DEF Beams
<1>5. \A i \in 1..n : \A x \in B : Offer(q, ef, x, to[i]) \in B
    BY <1>2, OfferKeeps
<1>6. /\ a \in S[0] /\ \A i \in 0..n : S[i] = B
      /\ \A i \in 1..n : i \in 0..n /\ i - 1 \in 0..n
      /\ \A i \in 1..n : \A x \in B : move[i][x] = Offer(q, ef, x, to[i])
    BY <1>2, <1>4
<1> HIDE DEF S, move
<1>7. Typed(n, S, a, move)
    BY ONLY <1>5, <1>6 DEF Typed
<1>8. PICK f : /\ f = [i \in 0..n |-> IF i = 0 THEN a ELSE move[i][f[i - 1]]]
               /\ \A i \in 0..n : f[i] \in S[i]
    BY ONLY <1>2, <1>7, Unrolled
<1>9. \A i \in 0..n : (IF i = 0 THEN a ELSE move[i][f[i - 1]])
                    = (IF i = 0 THEN a ELSE Offer(q, ef, f[i - 1], to[i]))
    <2>1. \A i \in 0..n : i # 0 => i \in 1..n
        BY <1>2
    <2> QED
        BY ONLY <2>1, <1>6, <1>8
<1>10. f = [i \in 0..n |-> IF i = 0 THEN a ELSE Offer(q, ef, f[i - 1], to[i])]
    BY ONLY <1>8, <1>9, Zenon
<1>11. seen = [i \in 0..n |-> IF i = 0 THEN a ELSE Offer(q, ef, seen[i - 1], to[i])]
    BY <1>10, Zenon
<1> HIDE DEF seen
<1>12. \A i \in 0..n : seen[i] = IF i = 0 THEN a ELSE Offer(q, ef, seen[i - 1], to[i])
    BY ONLY <1>11, Zenon
<1>13. seen[0] = a /\ \A i \in 1..n : seen[i] = Offer(q, ef, seen[i - 1], to[i])
    BY ONLY <1>2, <1>6, <1>12
<1>14. \A i \in 1..n : seen[i - 1] \in S[i - 1] => seen[i] = move[i][seen[i - 1]]
    BY ONLY <1>6, <1>13
<1>15. \A i \in 0..n : seen[i] \in S[i]
    BY ONLY <1>2, <1>7, <1>13, <1>14, Reached
<1>16. \A i \in 0..n : seen[i] \in Beams(N)
    BY <1>6, <1>15
<1> HIDE DEF seen
<1>17. Offers(N, q, ef, a, to, seen)
    BY <1>13, <1>16 DEF Offers
<1> QED
    BY <1>3, <1>17

(* A visit keeps to the nodes. *)
LEMMA VisitKeeps ==
    ASSUME Laid, NEW N \in SUBSET Nodes, NEW q \in Directions, NEW ef, NEW l, Inside(N, l),
           NEW s \in Beams(N)
    PROVE  Visit(q, ef, l, s) \in Beams(N)
<1>1. CASE Ended(q, ef, s)
    BY <1>1 DEF Visit
<1>2. CASE ~Ended(q, ef, s)
    <2>1. s.cand # {} /\ s.cand \in SUBSET N
        BY <1>2 DEF Ended, Beams
    <2>2. PICK c, to, a : c = Nearest(q, s.cand) /\ to = Links(c, l) /\ a = [s EXCEPT !.cand = @ \ {c}]
        OBVIOUS
    <2>3. s.cand \in SUBSET Nodes
        BY <2>1
    <2>4. c \in N
        BY <2>1, <2>2, <2>3, EndsOf
    <2>5. PICK seen : Visit(q, ef, l, s) = seen[Len(to)] /\ Offers(N, q, ef, a, to, seen)
        BY <1>2, <2>2, <2>4, VisitIs
    <2>6. to \in Seq(N)
        BY <2>2, <2>4 DEF Inside
    <2>7. Len(to) \in 0..Len(to)
        BY <2>6
    <2> QED
        BY <2>5, <2>7 DEF Offers
<1> QED
    BY <1>1, <1>2

(* A search is a sequence of visits. *)
LEMMA WalkIs ==
    ASSUME Laid, NEW N \in SUBSET Nodes, NEW q \in Directions, NEW ef, NEW l, Inside(N, l),
           NEW a \in Beams(N),
           NEW n, n = Cardinality(Nodes)
    PROVE  \E s : Walk(q, ef, l, a) = s[n].best /\ Visits(N, q, ef, l, a, n, s)
<1> PICK B : B = Beams(N)
    OBVIOUS
<1> DEFINE S == [i \in 0..n |-> B]
           move == [i \in 1..n |-> [x \in B |-> Visit(q, ef, l, x)]]
           s == CHOOSE f : f = [i \in 0..n |-> IF i = 0 THEN a ELSE Visit(q, ef, l, f[i - 1])]
<1>1. n \in Nat
    BY AnnAssumption, FS_CardinalityType
<1>2. Walk(q, ef, l, a) = s[n].best
    BY DEF Walk
<1>3. \A x \in B : Visit(q, ef, l, x) \in B
    BY VisitKeeps
<1>4. /\ a \in S[0] /\ \A i \in 0..n : S[i] = B
      /\ \A i \in 1..n : i \in 0..n /\ i - 1 \in 0..n
      /\ \A i \in 1..n : \A x \in B : move[i][x] = Visit(q, ef, l, x)
    BY <1>1
<1> HIDE DEF S, move
<1>5. Typed(n, S, a, move)
    BY ONLY <1>3, <1>4 DEF Typed
<1>6. PICK f : /\ f = [i \in 0..n |-> IF i = 0 THEN a ELSE move[i][f[i - 1]]]
               /\ \A i \in 0..n : f[i] \in S[i]
    BY ONLY <1>1, <1>5, Unrolled
<1>7. \A i \in 0..n : (IF i = 0 THEN a ELSE move[i][f[i - 1]])
                    = (IF i = 0 THEN a ELSE Visit(q, ef, l, f[i - 1]))
    <2>1. \A i \in 0..n : i # 0 => i \in 1..n
        BY <1>1
    <2> QED
        BY ONLY <2>1, <1>4, <1>6
<1>8. f = [i \in 0..n |-> IF i = 0 THEN a ELSE Visit(q, ef, l, f[i - 1])]
    BY ONLY <1>6, <1>7, Zenon
<1>9. s = [i \in 0..n |-> IF i = 0 THEN a ELSE Visit(q, ef, l, s[i - 1])]
    BY <1>8, Zenon
<1> HIDE DEF s
<1>10. \A i \in 0..n : s[i] = IF i = 0 THEN a ELSE Visit(q, ef, l, s[i - 1])
    BY ONLY <1>9, Zenon
<1>11. s[0] = a /\ \A i \in 1..n : s[i] = Visit(q, ef, l, s[i - 1])
    BY ONLY <1>1, <1>4, <1>10
<1>12. \A i \in 1..n : s[i - 1] \in S[i - 1] => s[i] = move[i][s[i - 1]]
    BY ONLY <1>4, <1>11
<1>13. \A i \in 0..n : s[i] \in S[i]
    BY ONLY <1>1, <1>5, <1>11, <1>12, Reached
<1>14. \A i \in 0..n : s[i] \in Beams(N)
    BY <1>4, <1>13
<1>15. Visits(N, q, ef, l, a, n, s)
    BY <1>1, <1>11, <1>14 DEF Visits
<1> QED
    BY <1>2, <1>15

(* What a truncated list has. *)
LEMMA Fewer ==
    ASSUME NEW T, NEW s \in Seq(T), NEW n \in Nat, NEW l, l = Truncate(s, n)
    PROVE  ToSet(l) \subseteq ToSet(s) /\ ToSet(l) \subseteq T
<1>1. /\ l \in Seq(T) /\ Len(l) <= Len(s) /\ \A k \in 1..Len(l) : l[k] = s[k]
    BY TruncateSound
<1>2. Len(l) \in Nat /\ Len(s) \in Nat
    BY <1>1, Elements
<1>3. \A k \in 1..Len(l) : k \in 1..Len(s)
    BY <1>1, <1>2
<1>4. /\ ToSet(l) = {l[i] : i \in 1..Len(l)} /\ ToSet(l) \subseteq T
      /\ ToSet(s) = {s[i] : i \in 1..Len(s)}
    BY <1>1, Image
<1> QED
    BY <1>1, <1>3, <1>4

(* The start of a search from the nodes eps. *)
Start(q, eps, ef) ==
    [visited |-> eps, cand |-> eps, best |-> ToSet(Truncate(Ranked(q, eps), ef))]

(* A search from nodes N begins among them. *)
LEMMA StartKeeps ==
    ASSUME Laid, NEW N \in SUBSET Nodes, NEW q \in Directions, NEW ef \in Nat, NEW eps \in SUBSET N
    PROVE  Start(q, eps, ef) \in Beams(N)
<1>1. PICK r, t : r = Ranked(q, eps) /\ t = Truncate(r, ef)
    OBVIOUS
<1>2. eps \in SUBSET Nodes
    OBVIOUS
<1>3. r \in Seq(eps)
    BY <1>1, <1>2, RankedSound
<1>4. ToSet(t) \subseteq eps
    BY <1>1, <1>3, Fewer
<1>5. ToSet(t) \in SUBSET N
    BY <1>4
<1> QED
    BY <1>1, <1>5 DEF Start, Beams

(* A beam search returns nodes of its layer, nearest first. *)
LEMMA SearchLayerSound ==
    ASSUME AnnTyped, NEW q \in Directions, NEW l \in Nat, NEW ef \in Nat,
           NEW eps \in SUBSET On(inserted, l)
    PROVE  \E B \in SUBSET On(inserted, l) : search_layer(q, eps, ef, l) = Ranked(q, B)
<1> PICK N : N = On(inserted, l)
    OBVIOUS
<1>1. N \in SUBSET Nodes /\ Laid
    BY OnLess DEF AnnTyped
<1>2. Inside(N, l)
    BY <1>1, LinksOn DEF Inside
<1>3. PICK a, n : a = Start(q, eps, ef) /\ n = Cardinality(Nodes)
    OBVIOUS
<1>4. a \in Beams(N)
    BY <1>1, <1>3, StartKeeps
<1>5. PICK s : Walk(q, ef, l, a) = s[n].best /\ Visits(N, q, ef, l, a, n, s)
    BY <1>1, <1>2, <1>3, <1>4, WalkIs
<1>6. s[n].best \in SUBSET N
    BY <1>5 DEF Visits, Beams
<1>7. search_layer(q, eps, ef, l) = Ranked(q, s[n].best)
    BY <1>3, <1>5 DEF search_layer, Start
<1> QED
    BY <1>6, <1>7

-----------------------------------------------------------------------------
(* Linking. *)

(* A list without repetition. *)
Once(c) == \A i, j \in 1..Len(c) : c[i] = c[j] => i = j

(* At most m of the first k candidates, each once. *)
Selections(T, cands, m, k) ==
    {c \in Seq(T) : /\ Len(c) <= m /\ Once(c)
                    /\ \A j \in 1..Len(c) : \E i \in 1..k : c[j] = cands[i]}

(* One candidate more is taken or left. *)
LEMMA TakeDiverseKeeps ==
    ASSUME NEW T, NEW q, NEW cands \in Seq(T), Once(cands), NEW m \in Nat,
           NEW k \in 1..Len(cands), NEW c \in Selections(T, cands, m, k - 1)
    PROVE  TakeDiverse(q, c, cands[k], m) \in Selections(T, cands, m, k)
<1> DEFINE t == Append(c, cands[k])
<1>0. /\ c \in Seq(T) /\ Len(c) <= m /\ Once(c)
      /\ \A j \in 1..Len(c) : \E i \in 1..(k - 1) : c[j] = cands[i]
    BY DEF Selections
<1>1. Len(c) \in Nat /\ Len(cands) \in Nat /\ cands[k] \in T
    BY <1>0, Elements
<1>2. \A j \in 1..Len(c) : \E i \in 1..k : c[j] = cands[i]
    BY <1>0, <1>1
<1>3. c \in Selections(T, cands, m, k)
    BY <1>0, <1>2 DEF Selections
<1>4. CASE Len(c) < m
    <2>1. /\ t \in Seq(T) /\ Len(t) = Len(c) + 1 /\ t[Len(c) + 1] = cands[k]
          /\ \A j \in 1..Len(c) : t[j] = c[j]
        BY <1>0, <1>1
    <2> HIDE DEF t
    <2>2. \A j \in 1..Len(t) : j \in 1..Len(c) \/ j = Len(c) + 1
        BY <1>1, <2>1
    <2>3. \A j \in 1..Len(t) : \E i \in 1..k : t[j] = cands[i]
        BY <1>1, <1>2, <2>1, <2>2
    <2>4. \A j \in 1..Len(c) : c[j] # cands[k]
        <3> SUFFICES ASSUME NEW j \in 1..Len(c), c[j] = cands[k] PROVE FALSE
            OBVIOUS
        <3>1. PICK i \in 1..(k - 1) : c[j] = cands[i]
            BY <1>0
        <3>2. i \in 1..Len(cands) /\ i # k
            BY <1>1
        <3> QED
            BY <3>1, <3>2 DEF Once
    <2>5. Once(t)
        <3> SUFFICES ASSUME NEW i \in 1..Len(t), NEW j \in 1..Len(t), t[i] = t[j] PROVE i = j
            BY DEF Once
        <3>1. CASE i \in 1..Len(c) /\ j \in 1..Len(c)
            BY <3>1, <1>0, <2>1 DEF Once
        <3>2. CASE i \in 1..Len(c) /\ j = Len(c) + 1
            BY <3>2, <2>1, <2>4
        <3>3. CASE i = Len(c) + 1 /\ j \in 1..Len(c)
            BY <3>3, <2>1, <2>4
        <3> QED
            BY <2>2, <3>1, <3>2, <3>3
    <2>6. t \in Selections(T, cands, m, k)
        BY <1>1, <1>4, <2>1, <2>3, <2>5 DEF Selections
    <2> QED
        BY <1>3, <2>6 DEF TakeDiverse, t
<1>5. CASE ~(Len(c) < m)
    BY <1>3, <1>5 DEF TakeDiverse
<1> QED
    BY <1>4, <1>5

(* The diverse candidates are candidates, each once, and few enough. *)
LEMMA PickDiverseSound ==
    ASSUME NEW T, NEW q, NEW cands \in Seq(T), Once(cands), NEW m \in Nat,
           NEW c, c = PickDiverse(q, cands, m)
    PROVE  c \in Seq(T) /\ Len(c) <= m /\ Once(c)
<1> PICK n : n = Len(cands)
    OBVIOUS
<1> DEFINE a == <<>>
           S == [i \in 0..n |-> Selections(T, cands, m, i)]
           move == [i \in 1..n |-> [x \in S[i - 1] |-> TakeDiverse(q, x, cands[i], m)]]
           s == CHOOSE f : f = [i \in 0..n |-> IF i = 0 THEN a
                                               ELSE TakeDiverse(q, f[i - 1], cands[i], m)]
<1>1. n \in Nat
    BY Elements
<1>2. c = s[n]
    BY DEF PickDiverse
<1>3. a \in Selections(T, cands, m, 0)
    <2>1. a \in Seq(T) /\ Len(a) = 0 /\ \A i \in 1..Len(a) : FALSE
        BY Elements
    <2> HIDE DEF a
    <2> QED
        BY <2>1 DEF Selections, Once
<1> HIDE DEF a
<1>4. /\ a \in S[0] /\ \A i \in 0..n : S[i] = Selections(T, cands, m, i)
      /\ \A i \in 1..n : i \in 0..n /\ i - 1 \in 0..n
    BY <1>1, <1>3
<1>5. \A i \in 1..n : \A x \in S[i - 1] : move[i][x] = TakeDiverse(q, x, cands[i], m)
    OBVIOUS
<1> HIDE DEF S, move
<1>6. ASSUME NEW i \in 1..n, NEW x \in S[i - 1]
      PROVE  move[i][x] \in S[i]
    <2>1. x \in Selections(T, cands, m, i - 1) /\ i \in 1..Len(cands)
        BY <1>4
    <2>2. TakeDiverse(q, x, cands[i], m) \in Selections(T, cands, m, i)
        BY <2>1, TakeDiverseKeeps
    <2> QED
        BY <2>2, <1>4, <1>5
<1>7. Typed(n, S, a, move)
    BY ONLY <1>4, <1>6 DEF Typed
<1>8. PICK f : /\ f = [i \in 0..n |-> IF i = 0 THEN a ELSE move[i][f[i - 1]]]
               /\ \A i \in 0..n : f[i] \in S[i]
    BY ONLY <1>1, <1>7, Unrolled
<1>9. \A i \in 0..n : (IF i = 0 THEN a ELSE move[i][f[i - 1]])
                    = (IF i = 0 THEN a ELSE TakeDiverse(q, f[i - 1], cands[i], m))
    <2>1. \A i \in 0..n : i # 0 => i \in 1..n
        BY <1>1
    <2> QED
        BY ONLY <2>1, <1>4, <1>5, <1>8
<1>10. f = [i \in 0..n |-> IF i = 0 THEN a ELSE TakeDiverse(q, f[i - 1], cands[i], m)]
    BY ONLY <1>8, <1>9, Zenon
<1>11. s = [i \in 0..n |-> IF i = 0 THEN a ELSE TakeDiverse(q, s[i - 1], cands[i], m)]
    BY <1>10, Zenon
<1> HIDE DEF s
<1>12. \A i \in 0..n : s[i] = IF i = 0 THEN a ELSE TakeDiverse(q, s[i - 1], cands[i], m)
    BY ONLY <1>11, Zenon
<1>13. s[0] = a /\ \A i \in 1..n : s[i - 1] \in S[i - 1] => s[i] = move[i][s[i - 1]]
    BY ONLY <1>1, <1>4, <1>5, <1>12
<1>14. \A i \in 0..n : s[i] \in S[i]
    BY ONLY <1>1, <1>7, <1>13, Reached
<1>15. c \in Selections(T, cands, m, n)
    BY <1>1, <1>2, <1>4, <1>14
<1> QED
    BY <1>15 DEF Selections

(* What is selected are candidates. *)
LEMMA NeighborsSound ==
    ASSUME NEW T, NEW q, NEW cands \in Seq(T), Once(cands), NEW m \in Nat
    PROVE  select_neighbors(q, cands, m) \in Seq(T)
<1> DEFINE P == {i \in 1..Len(cands) : cands[i] \notin ToSet(PickDiverse(q, cands, m))}
<1>1. PICK c, p : c = PickDiverse(q, cands, m) /\ p = Retain(cands, P)
    OBVIOUS
<1>2. select_neighbors(q, cands, m) = IF Len(cands) <= m THEN cands ELSE Truncate(c \o p, m)
    BY <1>1 DEF select_neighbors
<1>3. c \in Seq(T)
    BY <1>1, PickDiverseSound
<1>4. P \in SUBSET (1..Len(cands))
    OBVIOUS
<1> HIDE DEF P
<1>5. PICK o : Retained(T, cands, P, p, o)
    BY <1>1, <1>4, RetainSound
<1>6. p \in Seq(T)
    BY <1>5 DEF Retained
<1>7. c \o p \in Seq(T)
    BY <1>3, <1>6, Joined
<1>8. Truncate(c \o p, m) \in Seq(T)
    BY <1>7, TruncateSound
<1> QED
    BY <1>2, <1>8

(* Graphs over I, as a set. *)
Graphs(I) == {g \in [Nodes -> UNION {[0..Level[x] -> Seq(I)] : x \in Nodes}] : Graph(g, I)}

(* Every graph is in the set. *)
LEMMA GraphsAre ==
    ASSUME NEW I \in SUBSET Nodes, NEW g, Graph(g, I)
    PROVE  g \in Graphs(I)
<1> DEFINE F(x) == [0..Level[x] -> Seq(I)]
<1>1. ASSUME NEW x \in Nodes
      PROVE  g[x] \in F(x)
    <2>1. ASSUME NEW l \in 0..Level[x]
          PROVE  g[x][l] \in Seq(I)
        <3>1. LinkList(g[x][l], x, l, I)
            BY DEF Graph
        <3> DEFINE D == On(I, l) \ {x}
        <3>2. g[x][l] \in Seq(D)
            BY <3>1 DEF LinkList
        <3>3. D \subseteq I
            BY DEF On
        <3> HIDE DEF D
        <3> QED
            BY <3>2, <3>3, Widen
    <2>2. g[x] = [l \in 0..Level[x] |-> g[x][l]]
        BY DEF Graph
    <2> QED
        BY <2>1, <2>2
<1>2. g = [x \in Nodes |-> g[x]]
    BY DEF Graph
<1>3. \A x \in Nodes : g[x] \in UNION {F(x1) : x1 \in Nodes}
    BY <1>1
<1>4. g \in [Nodes -> UNION {F(x) : x \in Nodes}]
    BY <1>2, <1>3
<1> QED
    BY <1>4 DEF Graphs

(* A graph over I is one over more. *)
LEMMA GraphGrows ==
    ASSUME NEW I, NEW J, I \subseteq J, NEW g, Graph(g, I)
    PROVE  Graph(g, J)
<1>1. ASSUME NEW x \in Nodes, NEW l \in 0..Level[x]
      PROVE  LinkList(g[x][l], x, l, J)
    <2> DEFINE A == On(I, l) \ {x}
               B == On(J, l) \ {x}
    <2>1. LinkList(g[x][l], x, l, I)
        BY DEF Graph
    <2>2. g[x][l] \in Seq(A)
        BY <2>1 DEF LinkList
    <2>3. A \subseteq B
        BY DEF On
    <2>4. g[x][l] \in Seq(B)
        <3> HIDE DEF A, B
        <3> QED
            BY <2>2, <2>3, Widen
    <2> QED
        BY <2>1, <2>4 DEF LinkList
<1> QED
    BY <1>1 DEF Graph

(* A new link leaves a graph, whether it is appended or pruned for. *)
LEMMA LinkKeeps ==
    ASSUME Laid, NEW I \in SUBSET Nodes, NEW g, Graph(g, I), NEW l \in Nat,
           NEW from \in On(I, l), NEW to \in On(I, l), from # to
    PROVE  Graph(link(g, from, to, l), I)
<1> PICK cap, list, ranked, pruned, T :
        /\ cap = Capacity(l) /\ list = Append(g[from][l], to)
        /\ ranked = Ranked(At(from), ToSet(list))
        /\ pruned = PickDiverse(At(from), ranked, cap)
        /\ T = On(I, l) \ {from}
    OBVIOUS
<1> DEFINE h == [g EXCEPT ![from][l] = IF Len(list) <= cap THEN list ELSE pruned]
<1>1. link(g, from, to, l) = IF to \in ToSet(g[from][l]) THEN g ELSE h
    BY DEF link, Capacity
<1>2. cap \in Nat
    BY AnnAssumption DEF Capacity, M0
<1>3. from \in Nodes /\ to \in T /\ l \in 0..Level[from] /\ T \in SUBSET Nodes
    <2>1. from \in Nodes /\ Level[from] >= l /\ Level[from] \in Nat
        BY AnnAssumption DEF On
    <2>2. On(I, l) \in SUBSET Nodes
        BY DEF On
    <2> QED
        BY <2>1, <2>2
<1>4. LinkList(g[from][l], from, l, I)
    BY <1>3 DEF Graph
<1>5. PICK s : s = g[from][l]
    OBVIOUS
<1>6. s \in Seq(T) /\ Len(s) <= cap /\ Once(s)
    BY <1>4, <1>5 DEF LinkList, Once
<1>7. CASE to \notin ToSet(s)
    <2>1. /\ list \in Seq(T) /\ Len(list) = Len(s) + 1 /\ list[Len(s) + 1] = to
          /\ \A j \in 1..Len(s) : list[j] = s[j]
        BY <1>3, <1>5, <1>6
    <2>2. Len(s) \in Nat /\ \A j \in 1..Len(s) : s[j] # to
        <3>1. ToSet(s) = {s[j] : j \in 1..Len(s)}
            BY <1>6, Image
        <3> QED
            BY <3>1, <1>6, <1>7, Elements
    <2>3. Once(list)
        <3> SUFFICES ASSUME NEW i \in 1..Len(list), NEW j \in 1..Len(list), list[i] = list[j]
                     PROVE  i = j
            BY DEF Once
        <3>0. (i \in 1..Len(s) \/ i = Len(s) + 1) /\ (j \in 1..Len(s) \/ j = Len(s) + 1)
            BY <2>1, <2>2
        <3>1. CASE i \in 1..Len(s) /\ j \in 1..Len(s)
            BY <3>1, <1>6, <2>1 DEF Once
        <3>2. CASE i \in 1..Len(s) /\ j = Len(s) + 1
            BY <3>2, <2>1, <2>2
        <3>3. CASE i = Len(s) + 1 /\ j \in 1..Len(s)
            BY <3>3, <2>1, <2>2
        <3> QED
            BY <3>0, <3>1, <3>2, <3>3
    <2>4. ToSet(list) \subseteq T
        BY <2>1, Image
    <2>5. pruned \in Seq(T) /\ Len(pruned) <= cap /\ Once(pruned)
        <3>1. PICK L, q : L = ToSet(list) /\ q = At(from)
            OBVIOUS
        <3>2. L \in SUBSET Nodes /\ q \in Directions
            <4>1. L \in SUBSET Nodes
                BY <3>1, <2>4, <1>3
            <4>2. q \in Directions
                BY <3>1, <1>3, AnnAssumption DEF Laid, At
            <4> QED
                BY <4>1, <4>2
        <3>0. ranked = Ranked(q, L)
            BY <3>1
        <3>3. ranked \in Seq(L) /\ Once(ranked)
            BY <3>0, <3>2, RankedSound DEF Once
        <3>4. pruned \in Seq(L) /\ Len(pruned) <= cap /\ Once(pruned)
            BY <3>1, <3>3, <1>2, PickDiverseSound
        <3>5. L \subseteq T
            BY <3>1, <2>4
        <3> QED
            BY <3>4, <3>5, Widen
    <2>6. PICK new : new = IF Len(list) <= cap THEN list ELSE pruned
        OBVIOUS
    <2>7. LinkList(new, from, l, I)
        BY <2>1, <2>3, <2>5, <2>6 DEF LinkList, Once
    <2>8. h = [g EXCEPT ![from][l] = new]
        BY <2>6
    <2> HIDE DEF h
    <2>9. ASSUME NEW x \in Nodes, NEW k \in 0..Level[x]
          PROVE  h[x][k] = IF x = from /\ k = l THEN new ELSE g[x][k]
        BY <2>8 DEF Graph
    <2>10. h = [x \in Nodes |-> h[x]]
        BY <2>8 DEF Graph
    <2>11. \A x \in Nodes : h[x] = [k \in 0..Level[x] |-> h[x][k]]
        BY <2>8 DEF Graph
    <2>12. \A x \in Nodes : \A k \in 0..Level[x] : LinkList(h[x][k], x, k, I)
        BY <2>7, <2>9 DEF Graph
    <2>13. Graph(h, I)
        BY <2>10, <2>11, <2>12 DEF Graph
    <2> QED
        BY <1>1, <1>5, <1>7, <2>13
<1>8. CASE to \in ToSet(s)
    BY <1>1, <1>5, <1>8
<1> QED
    BY <1>7, <1>8

(* Linking the new node with those chosen leaves a graph. *)
LEMMA LinkAllKeeps ==
    ASSUME Laid, NEW I \in SUBSET Nodes, NEW g, Graph(g, I), NEW l \in Nat,
           NEW x \in On(I, l), NEW chosen \in Seq(On(I, l) \ {x})
    PROVE  Graph(LinkAll(g, x, chosen, l), I)
<1> PICK n, B : n = Len(chosen) /\ B = Graphs(I)
    OBVIOUS
<1> DEFINE Both(h, i) == link(link(h, chosen[i], x, l), x, chosen[i], l)
           S == [i \in 0..n |-> B]
           move == [i \in 1..n |-> [h \in B |-> Both(h, i)]]
           s == CHOOSE f : f = [i \in 0..n |-> IF i = 0 THEN g ELSE Both(f[i - 1], i)]
<1>1. n \in Nat /\ \A i \in 1..n : chosen[i] \in On(I, l) \ {x}
    <2> PICK T : T = On(I, l) \ {x}
        OBVIOUS
    <2> QED
        BY Elements
<1>2. LinkAll(g, x, chosen, l) = s[n]
    BY DEF LinkAll
<1>3. ASSUME NEW h \in B, NEW i \in 1..n
      PROVE  Both(h, i) \in B
    <2>1. PICK h1, y : h1 = link(h, chosen[i], x, l) /\ y = chosen[i]
        OBVIOUS
    <2>2. y \in On(I, l) /\ y # x /\ Graph(h, I)
        BY <1>1, <2>1 DEF Graphs
    <2>3. Graph(h1, I)
        BY <2>1, <2>2, LinkKeeps
    <2>4. Graph(link(h1, x, y, l), I)
        BY <2>2, <2>3, LinkKeeps
    <2> QED
        BY <2>1, <2>4, GraphsAre
<1>0. g \in B
    BY GraphsAre
<1> HIDE DEF Both
<1>4. /\ g \in S[0] /\ \A i \in 0..n : S[i] = B
      /\ \A i \in 1..n : i \in 0..n /\ i - 1 \in 0..n
      /\ \A i \in 1..n : \A h \in B : move[i][h] = Both(h, i)
    BY <1>0, <1>1
<1> HIDE DEF S, move
<1>5. Typed(n, S, g, move)
    BY ONLY <1>3, <1>4 DEF Typed
<1>6. PICK f : /\ f = [i \in 0..n |-> IF i = 0 THEN g ELSE move[i][f[i - 1]]]
               /\ \A i \in 0..n : f[i] \in S[i]
    BY ONLY <1>1, <1>5, Unrolled
<1>7. \A i \in 0..n : (IF i = 0 THEN g ELSE move[i][f[i - 1]])
                    = (IF i = 0 THEN g ELSE Both(f[i - 1], i))
    <2>1. \A i \in 0..n : i # 0 => i \in 1..n
        BY <1>1
    <2> QED
        BY ONLY <2>1, <1>4, <1>6
<1>8. f = [i \in 0..n |-> IF i = 0 THEN g ELSE Both(f[i - 1], i)]
    BY ONLY <1>6, <1>7, Zenon
<1>9. s = [i \in 0..n |-> IF i = 0 THEN g ELSE Both(s[i - 1], i)]
    BY <1>8, Zenon
<1> HIDE DEF s
<1>10. \A i \in 0..n : s[i] = IF i = 0 THEN g ELSE Both(s[i - 1], i)
    BY ONLY <1>9, Zenon
<1>11. s[0] = g /\ \A i \in 1..n : s[i - 1] \in S[i - 1] => s[i] = move[i][s[i - 1]]
    BY ONLY <1>1, <1>4, <1>10
<1>12. \A i \in 0..n : s[i] \in S[i]
    BY ONLY <1>1, <1>5, <1>11, Reached
<1>13. s[n] \in B
    BY <1>1, <1>4, <1>12
<1> QED
    BY <1>2, <1>13 DEF Graphs

(* What an insertion has done when the search is about to leave layer l. *)
Linked(I, l) == [eps : SUBSET On(inserted, l), g : Graphs(I)]

(* One layer: found there, linked there. *)
LEMMA LinkLayerKeeps ==
    ASSUME AnnTyped, NEW x \in Nodes \ inserted, NEW l \in Nat, l <= Level[x],
           NEW I, I = inserted \cup {x}, NEW k \in Nat, l <= k, NEW s \in Linked(I, k)
    PROVE  LinkLayer(x, s, l) \in Linked(I, l)
<1> PICK q, N : q = At(x) /\ N = On(inserted, l)
    OBVIOUS
<1>1. /\ q \in Directions /\ Laid /\ inserted \in SUBSET Nodes /\ I \in SUBSET Nodes
      /\ Beam \in Nat /\ M \in Nat
    BY AnnAssumption DEF AnnTyped, Laid, At
<1>2. s.eps \in SUBSET On(inserted, k) /\ s.g \in Graphs(I)
    BY DEF Linked
<1>3. On(inserted, k) \subseteq N /\ N \in SUBSET Nodes
    BY <1>1, OnLess
<1>4. s.eps \in SUBSET N
    BY <1>2, <1>3
<1>5. PICK found : found = search_layer(q, s.eps, Beam, l)
    OBVIOUS
<1>6. PICK B \in SUBSET N : found = Ranked(q, B)
    BY <1>1, <1>4, <1>5, SearchLayerSound
<1>7. B \in SUBSET Nodes
    BY <1>3
<1>8. found \in Seq(B) /\ ToSet(found) = B /\ Once(found)
    BY <1>1, <1>6, <1>7, RankedSound DEF Once
<1>9. PICK chosen : chosen = select_neighbors(q, found, M)
    OBVIOUS
<1>10. chosen \in Seq(B)
    BY <1>1, <1>8, <1>9, NeighborsSound
<1>11. PICK T : T = On(I, l) \ {x}
    OBVIOUS
<1>12. x \in On(I, l) /\ B \subseteq T
    <2>1. \A y \in Nodes : Level[y] \in Nat
        BY AnnAssumption
    <2>2. x \in On(I, l)
        BY <2>1 DEF On
    <2>3. \A y \in B : y \in inserted /\ Level[y] >= l /\ y # x
        BY DEF On
    <2>4. \A y \in B : y \in On(I, l)
        BY <2>3 DEF On
    <2> QED
        BY <2>2, <2>3, <2>4, <1>11
<1>13. chosen \in Seq(T)
    BY <1>10, <1>12, Widen
<1>14. Graph(s.g, I)
    BY <1>2 DEF Graphs
<1>15. PICK h : h = LinkAll(s.g, x, chosen, l)
    OBVIOUS
<1>16. Graph(h, I)
    BY <1>1, <1>11, <1>12, <1>13, <1>14, <1>15, LinkAllKeeps
<1>17. h \in Graphs(I)
    BY <1>1, <1>16, GraphsAre
<1>18. LinkLayer(x, s, l) = [eps |-> ToSet(found), g |-> h]
    BY <1>1, <1>5, <1>9, <1>15 DEF LinkLayer
<1> QED
    BY <1>6, <1>8, <1>17, <1>18 DEF Linked

(* All the layers the new node shares with the graph. *)
LEMMA LinkLayersKeeps ==
    ASSUME AnnTyped, NEW x \in Nodes \ inserted, NEW I, I = inserted \cup {x},
           NEW ep \in On(inserted, Lesser(Level[x], max_level))
    PROVE  Graph(LinkLayers(x, ep), I)
<1> DEFINE top == Lesser(Level[x], max_level)
           n == top + 1
           a == [eps |-> {ep}, g |-> links]
           S == [i \in 0..n |-> IF i = 0 THEN Linked(I, top) ELSE Linked(I, n - i)]
           move == [i \in 1..n |-> [r \in S[i - 1] |-> LinkLayer(x, r, n - i)]]
           s == CHOOSE f : f = [i \in 0..n |-> IF i = 0 THEN a ELSE LinkLayer(x, f[i - 1], n - i)]
<1>0. /\ inserted \in SUBSET Nodes /\ I \in SUBSET Nodes /\ max_level \in Nat /\ Level[x] \in Nat
      /\ Graph(links, inserted)
    BY AnnAssumption DEF AnnTyped
<1>2. LinkLayers(x, ep) = s[n].g
    BY DEF LinkLayers
<1> HIDE DEF s
<1>1. /\ top \in Nat /\ n \in Nat /\ n >= 1 /\ top <= Level[x]
      /\ \A i \in 1..n : n - i \in Nat /\ n - i <= Level[x] /\ n - i <= top
    <2>1. top \in Nat /\ top <= Level[x]
        BY <1>0, Smaller
    <2> QED
        <3> HIDE DEF top
        <3> QED
            BY <2>1, <1>0
<1>3. a \in Linked(I, top)
    <2>1. Graph(links, I)
        BY <1>0, GraphGrows
    <2>2. links \in Graphs(I)
        BY <2>1, <1>0, GraphsAre
    <2> QED
        BY <2>2 DEF Linked
<1> HIDE DEF top, n, a
<1>4. /\ a \in S[0] /\ \A i \in 1..n : S[i] = Linked(I, n - i)
      /\ \A i \in 1..n : i \in 0..n /\ i - 1 \in 0..n
      /\ S[0] = Linked(I, top)
    BY <1>1, <1>3
<1>5. \A i \in 1..n : \A r \in S[i - 1] : move[i][r] = LinkLayer(x, r, n - i)
    OBVIOUS
<1> HIDE DEF S, move
<1>6. ASSUME NEW i \in 1..n, NEW r \in S[i - 1]
      PROVE  move[i][r] \in S[i]
    <2>1. PICK l : l = n - i
        OBVIOUS
    <2>2. l \in Nat /\ l <= Level[x] /\ l <= top
        BY <1>1, <2>1
    <2>3. CASE i = 1
        <3>1. r \in Linked(I, top)
            BY <2>3, <1>4
        <3>2. LinkLayer(x, r, l) \in Linked(I, l)
            BY <3>1, <2>2, <1>1, LinkLayerKeeps
        <3> QED
            BY <3>2, <2>1, <1>4, <1>5
    <2>4. CASE i # 1
        <3>1. i - 1 \in 1..n /\ n - (i - 1) = l + 1 /\ l + 1 \in Nat /\ l <= l + 1
            BY <2>4, <2>1, <2>2, <1>1
        <3>2. r \in Linked(I, l + 1)
            BY <3>1, <1>4
        <3>3. LinkLayer(x, r, l) \in Linked(I, l)
            BY <3>1, <3>2, <2>2, LinkLayerKeeps
        <3> QED
            BY <3>3, <2>1, <1>4, <1>5
    <2> QED
        BY <2>3, <2>4
<1>7. Typed(n, S, a, move)
    BY ONLY <1>4, <1>6 DEF Typed
<1>8. PICK f : /\ f = [i \in 0..n |-> IF i = 0 THEN a ELSE move[i][f[i - 1]]]
               /\ \A i \in 0..n : f[i] \in S[i]
    BY ONLY <1>1, <1>7, Unrolled
<1>9. \A i \in 0..n : (IF i = 0 THEN a ELSE move[i][f[i - 1]])
                    = (IF i = 0 THEN a ELSE LinkLayer(x, f[i - 1], n - i))
    <2>1. \A i \in 0..n : i # 0 => i \in 1..n
        BY <1>1
    <2> QED
        BY ONLY <2>1, <1>4, <1>5, <1>8
<1>10. f = [i \in 0..n |-> IF i = 0 THEN a ELSE LinkLayer(x, f[i - 1], n - i)]
    BY ONLY <1>8, <1>9, Zenon
<1>11. s = [i \in 0..n |-> IF i = 0 THEN a ELSE LinkLayer(x, s[i - 1], n - i)]
    BY <1>10, Zenon DEF s
<1>12. \A i \in 0..n : s[i] = IF i = 0 THEN a ELSE LinkLayer(x, s[i - 1], n - i)
    BY ONLY <1>11, Zenon
<1>13. s[0] = a /\ \A i \in 1..n : s[i - 1] \in S[i - 1] => s[i] = move[i][s[i - 1]]
    BY ONLY <1>1, <1>4, <1>5, <1>12
<1>14. \A i \in 0..n : s[i] \in S[i]
    BY ONLY <1>1, <1>7, <1>13, Reached
<1>15. s[n] \in Linked(I, n - n)
    <2>1. n \in 1..n
        BY <1>1
    <2> QED
        BY <2>1, <1>4, <1>14
<1>16. s[n].g \in Graphs(I)
    BY <1>15 DEF Linked
<1> QED
    BY <1>2, <1>16 DEF Graphs

-----------------------------------------------------------------------------
(* The invariant. *)

(* An empty graph is one. *)
LEMMA AnnInitKeeps ==
    ASSUME AnnInit
    PROVE  AnnInv
<1>1. Laid /\ inserted \subseteq Nodes /\ max_level \in Nat /\ entry = 0 /\ inserted = {}
    BY DEF AnnInit, Laid
<1>2. Graph(links, inserted)
    <2>1. links = [x \in Nodes |-> [l \in 0..Level[x] |-> <<>>]]
        BY DEF AnnInit
    <2>2. \A x \in Nodes : \A l \in 0..Level[x] : LinkList(<<>>, x, l, inserted)
        <3>1. \A l : Capacity(l) \in Nat
            BY AnnAssumption DEF Capacity, M0
        <3> QED
            BY <3>1 DEF LinkList
    <2> QED
        BY <2>1, <2>2 DEF Graph
<1> QED
    BY <1>1, <1>2 DEF AnnInv, AnnTyped, EntryOnTop

(* An insertion (ann.rs, insert_node) leaves a graph whose entry has the    *)
(* highest layer, whatever layers the new node has.                        *)
LEMMA InsertKeeps ==
    ASSUME AnnInv, NEW x \in Nodes, insert_node(x)
    PROVE  AnnInv'
<1>0. /\ AnnTyped /\ EntryOnTop /\ inserted \in SUBSET Nodes /\ max_level \in Nat
      /\ (entry # 0 <=> inserted # {}) /\ Graph(links, inserted) /\ Laid
    BY DEF AnnInv, AnnTyped
<1>1. /\ x \in Nodes \ inserted /\ layout' = layout /\ inserted' = inserted \cup {x}
      /\ x # 0 /\ Level[x] \in Nat /\ \A y \in Nodes : Level[y] \in Nat
    BY AnnAssumption DEF insert_node
<1>2. Laid'
    BY <1>0, <1>1 DEF Laid
<1>3. CASE entry = 0
    <2>1. entry' = x /\ max_level' = Level[x] /\ links' = links /\ inserted = {}
        BY <1>0, <1>3 DEF insert_node
    <2>2. Graph(links', inserted')
        BY <1>0, <1>1, <2>1, GraphGrows
    <2>3. EntryOnTop'
        BY <1>1, <2>1 DEF EntryOnTop
    <2> QED
        BY <1>1, <1>2, <2>1, <2>2, <2>3 DEF AnnInv, AnnTyped, Graph, LinkList, On
<1>4. CASE entry # 0
    <2>1. /\ links' = LinkLayers(x, Descend(entry, At(x), max_level, Level[x] + 1))
          /\ entry' = IF Level[x] > max_level THEN x ELSE entry
          /\ max_level' = IF Level[x] > max_level THEN Level[x] ELSE max_level
        BY <1>4 DEF insert_node
    <2>2. /\ entry \in inserted /\ Level[entry] = max_level
          /\ \A y \in inserted : Level[y] <= max_level
        BY <1>0, <1>4 DEF EntryOnTop
    <2>3. entry \in On(inserted, max_level)
        BY <1>0, <2>2 DEF On
    <2>4. At(x) \in Directions
        BY <1>0, AnnAssumption DEF Laid, At
    <2>5. PICK ep, to, q : ep = Descend(entry, q, max_level, to) /\ to = Level[x] + 1 /\ q = At(x)
        OBVIOUS
    <2>6. ep \in On(inserted, Lesser(max_level, to))
        <3>1. q \in Directions /\ to \in Nat
            BY <1>1, <2>4, <2>5
        <3> QED
            BY <3>1, <1>0, <2>3, <2>5, DescendKeeps
    <2>7. On(inserted, Lesser(max_level, to)) \subseteq On(inserted, Lesser(Level[x], max_level))
        <3>1. PICK a, b : a = Lesser(max_level, to) /\ b = Lesser(Level[x], max_level)
            OBVIOUS
        <3>2. a \in Nat /\ b \in Nat /\ b <= a
            BY <3>1, <1>0, <1>1, <2>5 DEF Lesser
        <3> QED
            BY <3>1, <3>2, <1>0, OnLess
    <2>8. PICK I : I = inserted \cup {x}
        OBVIOUS
    <2>9. Graph(LinkLayers(x, ep), I)
        BY <1>0, <1>1, <2>6, <2>7, <2>8, LinkLayersKeeps
    <2>10. Graph(links', inserted')
        BY <1>1, <2>1, <2>5, <2>8, <2>9
    <2>11. EntryOnTop'
        BY <1>0, <1>1, <2>1, <2>2 DEF EntryOnTop
    <2> QED
        BY <1>0, <1>1, <1>2, <2>1, <2>2, <2>10, <2>11 DEF AnnInv, AnnTyped, Graph, LinkList, On
<1> QED
    BY <1>3, <1>4

-----------------------------------------------------------------------------
(* Beams as wide as the graph. *)

(* A link leads from what is reached to what is reached. *)
LEMMA ReachGrows ==
    ASSUME NEW d, NEW y \in Reach({d}), NEW x \in inserted, x \in LinkSet(y, 0)
    PROVE  x \in Reach({d})
<1> SUFFICES ASSUME NEW T \in SUBSET inserted, {d} \subseteq T,
                    \A z \in T : LinkSet(z, 0) \subseteq T
             PROVE  x \in T
    BY DEF Reach
<1>1. y \in T
    BY DEF Reach
<1> QED
    BY <1>1

(* Search s is offered x, which it has not seen, and has room for N. *)
Roomy(N, q, ef, s, x, r) ==
    /\ N \in SUBSET Nodes /\ ef \in Nat /\ Cardinality(N) <= ef
    /\ s \in Beams(N) /\ s.best = s.visited /\ x \in N /\ x \notin s.visited
    /\ r = Offer(q, ef, s, x)

(* An offer to a beam that has room for every node is taken. *)
LEMMA OfferTaken ==
    ASSUME NEW N, NEW q, NEW ef, NEW s, NEW x, NEW r, Roomy(N, q, ef, s, x, r)
    PROVE  /\ r.visited = s.visited \cup {x} /\ r.cand = s.cand \cup {x}
           /\ r.best = s.visited \cup {x}
<1> PICK kept : kept = s.best \cup {x}
    OBVIOUS
<1>0. /\ N \in SUBSET Nodes /\ ef \in Nat /\ Cardinality(N) <= ef
      /\ s \in Beams(N) /\ s.best = s.visited /\ x \in N /\ x \notin s.visited
      /\ r = Offer(q, ef, s, x)
    BY DEF Roomy
<1>1. /\ s = [visited |-> s.visited, cand |-> s.cand, best |-> s.best]
      /\ s.best \in SUBSET N /\ kept \in SUBSET N
    BY <1>0 DEF Beams
<1>2. IsFiniteSet(N)
    BY <1>0, AnnAssumption, FS_Subset
<1>3. /\ IsFiniteSet(s.best) /\ IsFiniteSet(kept) /\ Cardinality(kept) <= Cardinality(N)
      /\ Cardinality(N) \in Nat /\ Cardinality(kept) \in Nat
    BY <1>1, <1>2, FS_Subset, FS_CardinalityType
<1>4. Cardinality(kept) = Cardinality(s.best) + 1 /\ Cardinality(s.best) \in Nat
    BY <1>0, <1>3, FS_AddElement, FS_CardinalityType
<1>5. ~(Cardinality(kept) > ef) /\ ~(Cardinality(s.best) >= ef)
    BY <1>0, <1>3, <1>4
<1>6. r = [[s EXCEPT !.visited = @ \cup {x}] EXCEPT !.cand = @ \cup {x}, !.best = kept]
    BY <1>0, <1>5 DEF Offer
<1>7. r = [visited |-> s.visited \cup {x}, cand |-> s.cand \cup {x}, best |-> kept]
    BY <1>1, <1>6
<1> QED
    BY <1>0, <1>7

(* While a node's links are offered, from a on: what was kept stays, what   *)
(* was visited before has been, and all of it can be reached.              *)
Taken(d, a, to, j, s) ==
    /\ s.best = s.visited /\ s.cand \subseteq s.visited /\ a.visited \subseteq s.visited
    /\ s.visited \ s.cand = a.visited \ a.cand
    /\ \A i \in 1..j : to[i] \in s.visited
    /\ s.visited \subseteq Reach({d})

(* A wide beam takes all the links of a node, one by one. *)
LEMMA OffersTaken ==
    ASSUME NEW N \in SUBSET Nodes, NEW q, NEW ef \in Nat, Cardinality(N) <= ef,
           NEW d, NEW a, NEW to \in Seq(N), NEW seen, Offers(N, q, ef, a, to, seen),
           Taken(d, a, to, 0, a), \A i \in 1..Len(to) : to[i] \in Reach({d})
    PROVE  Taken(d, a, to, Len(to), seen[Len(to)])
<1> PICK n : n = Len(to)
    OBVIOUS
<1> DEFINE P == {i \in 0..n : Taken(d, a, to, i, seen[i])}
<1>1. n \in Nat /\ \A i \in 1..n : to[i] \in N
    BY Elements
<1>2. 0 \in P
    BY <1>1 DEF Offers
<1>3. ASSUME NEW i \in 1..n, i - 1 \in P
      PROVE  i \in P
    <2>1. PICK s, x, r : s = seen[i - 1] /\ x = to[i] /\ r = seen[i]
        OBVIOUS
    <2>2. Taken(d, a, to, i - 1, s) /\ x \in N /\ x \in Reach({d}) /\ i \in 0..n
        <3>1. Taken(d, a, to, i - 1, seen[i - 1])
            BY <1>3
        <3>2. i \in 1..Len(to) /\ i \in 0..n
            BY <1>1
        <3>3. Taken(d, a, to, i - 1, s)
            BY ONLY <3>1, <2>1
        <3> QED
            BY <1>1, <2>1, <3>2, <3>3
    <2>3. s \in Beams(N) /\ r = Offer(q, ef, s, x)
        BY <1>1, <2>1 DEF Offers
    <2>4. \A k \in 1..i : k \in 1..(i - 1) \/ k = i
        OBVIOUS
    <2>5. CASE x \in s.visited
        <3>1. r = s
            BY <2>3, <2>5 DEF Offer
        <3>2. \A k \in 1..i : to[k] \in s.visited
            BY <2>1, <2>2, <2>4, <2>5 DEF Taken
        <3>3. Taken(d, a, to, i, s)
            BY <2>2, <3>2 DEF Taken
        <3> QED
            BY <3>1, <3>3, <2>1, <2>2
    <2>6. CASE x \notin s.visited
        <3>0. s.best = s.visited
            BY <2>2 DEF Taken
        <3>1. /\ r.visited = s.visited \cup {x} /\ r.cand = s.cand \cup {x}
              /\ r.best = s.visited \cup {x}
            <4>1. Roomy(N, q, ef, s, x, r)
                BY <2>2, <2>3, <2>6, <3>0 DEF Roomy
            <4> QED
                BY ONLY <4>1, OfferTaken
        <3>2. \A k \in 1..i : to[k] \in r.visited
            BY <2>1, <2>2, <2>4, <3>1 DEF Taken
        <3>3. r.visited \ r.cand = s.visited \ s.cand
            BY <2>6, <3>1
        <3>4. Taken(d, a, to, i, r)
            BY <2>2, <3>1, <3>2, <3>3 DEF Taken
        <3> QED
            BY <3>4, <2>1, <2>2
    <2> QED
        BY <2>5, <2>6
<1>4. \A i \in 0..n : i \in P
    <2> HIDE DEF P
    <2> QED
        BY <1>1, <1>2, <1>3, UpTo
<1> QED
    BY <1>1, <1>4

(* A wide search from d after i visits: nothing was evicted or refused, and *)
(* the links of what is no candidate any more were followed.               *)
Wide(d, s, i) ==
    /\ s.best = s.visited /\ s.cand \subseteq s.visited /\ d \in s.visited
    /\ \A y \in s.visited \ s.cand : LinkSet(y, 0) \subseteq s.visited
    /\ s.visited \subseteq Reach({d})
    /\ s.cand = {} \/ Cardinality(s.visited \ s.cand) >= i

(* A visit of a wide search leaves it one, with one more node whose links   *)
(* were followed, if any is left.                                          *)
LEMMA VisitWide ==
    ASSUME AnnTyped, NEW N, N = inserted, NEW q \in Directions, NEW ef \in Nat,
           Cardinality(N) <= ef, NEW d, NEW i \in Nat, NEW s \in Beams(N), Wide(d, s, i)
    PROVE  Wide(d, Visit(q, ef, 0, s), i + 1)
<1>1. Laid /\ N \in SUBSET Nodes
    BY DEF AnnTyped
<1>2. s.cand \in SUBSET N /\ s.visited \in SUBSET N
    BY DEF Beams
<1>3. CASE s.cand = {}
    <2>1. Visit(q, ef, 0, s) = s
        BY <1>3 DEF Visit, Ended
    <2> QED
        BY <2>1, <1>3 DEF Wide
<1>4. CASE s.cand # {}
    <2>1. PICK c, to, a : /\ c = Nearest(q, s.cand) /\ to = Links(c, 0)
                          /\ a = [s EXCEPT !.cand = @ \ {c}]
        OBVIOUS
    <2>2. s.cand \in SUBSET Nodes /\ s.visited \in SUBSET Nodes /\ s.visited # {}
        BY <1>1, <1>2, <1>4 DEF Wide
    <2>3. c \in s.cand
        BY <1>1, <1>4, <2>1, <2>2, EndsOf
    <2>4. c \in N /\ c \in s.visited /\ c \in Nodes
        BY <1>1, <1>2, <2>3 DEF Wide
    <2>5. ~Ended(q, ef, s)
        <3>1. PICK u, v : u = dist(q, At(c)) /\ v = dist(q, At(Farthest(q, s.visited)))
            OBVIOUS
        <3>2. u <= v
            BY <1>1, <2>2, <2>4, <3>1, EndsOf
        <3>3. Farthest(q, s.visited) \in Nodes
            BY <1>1, <2>2, EndsOf
        <3>4. u \in Int /\ v \in Int
            BY <1>1, <2>4, <3>1, <3>3, DistIsNumber
        <3>5. ~(u > v)
            BY <3>2, <3>4
        <3>6. s.best = s.visited
            BY DEF Wide
        <3> QED
            BY <1>4, <2>1, <3>1, <3>5, <3>6 DEF Ended
    <2>6. Inside(N, 0) /\ to \in Seq(N)
        <3>1. On(inserted, 0) = N
            BY <1>1, OnLess
        <3>2. \A y \in N : Links(y, 0) \in Seq(On(inserted, 0))
            BY <1>1, LinksOn
        <3> QED
            BY <3>1, <3>2, <2>1, <2>4 DEF Inside
    <2>7. PICK seen : Visit(q, ef, 0, s) = seen[Len(to)] /\ Offers(N, q, ef, a, to, seen)
        BY <1>1, <2>1, <2>4, <2>5, <2>6, VisitIs
    <2>8. LinkSet(c, 0) = ToSet(to) /\ ToSet(to) = {to[k] : k \in 1..Len(to)} /\ ToSet(to) \subseteq N
        <3>1. 0 <= Level[c]
            BY <2>4, AnnAssumption
        <3> QED
            BY <2>1, <2>6, <3>1, Image DEF LinkSet, Links
    <2>9. \A k \in 1..Len(to) : to[k] \in Reach({d})
        <3>1. c \in Reach({d})
            BY <2>4 DEF Wide
        <3> QED
            BY <2>8, <3>1, ReachGrows
    <2>10. a.visited = s.visited /\ a.cand = s.cand \ {c} /\ a.best = s.best
        BY <2>1 DEF Beams
    <2>11. Taken(d, a, to, 0, a)
        BY <2>10 DEF Wide, Taken
    <2>12. PICK r : r = Visit(q, ef, 0, s)
        OBVIOUS
    <2>13. Taken(d, a, to, Len(to), r)
        BY <1>1, <2>6, <2>7, <2>9, <2>11, <2>12, OffersTaken
    <2>14. r.visited \ r.cand = (s.visited \ s.cand) \cup {c}
        BY <2>3, <2>4, <2>10, <2>13 DEF Taken
    <2>15. s.visited \subseteq r.visited
        BY <2>10, <2>13 DEF Taken
    <2>16. \A y \in r.visited \ r.cand : LinkSet(y, 0) \subseteq r.visited
        <3>1. LinkSet(c, 0) \subseteq r.visited
            BY <2>8, <2>13 DEF Taken
        <3>2. \A y \in s.visited \ s.cand : LinkSet(y, 0) \subseteq s.visited
            BY DEF Wide
        <3> QED
            BY <2>14, <2>15, <3>1, <3>2
    <2>17. Cardinality(r.visited \ r.cand) >= i + 1
        <3>1. PICK D : D = s.visited \ s.cand
            OBVIOUS
        <3>2. IsFiniteSet(D) /\ c \notin D
            <4>1. D \in SUBSET Nodes
                BY <2>2, <3>1
            <4> QED
                BY <4>1, <2>3, <3>1, AnnAssumption, FS_Subset
        <3>3. Cardinality(D \cup {c}) = Cardinality(D) + 1 /\ Cardinality(D) \in Nat
            BY <3>2, FS_AddElement, FS_CardinalityType
        <3>4. Cardinality(D) >= i
            BY <1>4, <3>1 DEF Wide
        <3> QED
            BY <2>14, <3>1, <3>3, <3>4
    <2>18. Wide(d, r, i + 1)
        BY <2>13, <2>15, <2>16, <2>17 DEF Wide, Taken
    <2> QED
        BY <2>12, <2>18
<1> QED
    BY <1>3, <1>4

(* A wide search from d keeps what can be reached from it. *)
LEMMA WideFinds ==
    ASSUME AnnTyped, NEW q \in Directions, NEW ef \in Nat, Cardinality(inserted) <= ef, ef >= 1,
           NEW d \in inserted
    PROVE  search_layer(q, {d}, ef, 0) = Ranked(q, Reach({d}))
<1> PICK N, n, a : N = inserted /\ n = Cardinality(Nodes) /\ a = Start(q, {d}, ef)
    OBVIOUS
<1>1. Laid /\ N \in SUBSET Nodes /\ IsFiniteSet(Nodes) /\ d \in N
    BY AnnAssumption DEF AnnTyped
<1>2. Inside(N, 0)
    <2>1. On(inserted, 0) = N
        BY <1>1, OnLess
    <2> QED
        BY <1>1, <2>1, LinksOn DEF Inside
<1>3. a \in Beams(N)
    BY <1>1, StartKeeps
<1>4. a.visited = {d} /\ a.cand = {d} /\ a.best = {d}
    <2>1. PICK D, r, t : D = {d} /\ r = Ranked(q, D) /\ t = Truncate(r, ef)
        OBVIOUS
    <2>2. D \in SUBSET Nodes /\ Cardinality(D) = 1
        BY <1>1, <2>1, FS_Singleton
    <2>3. r \in Seq(D) /\ Len(r) = 1 /\ ToSet(r) = D
        <3>1. Laid /\ q \in Directions /\ D \in SUBSET Nodes /\ r = Ranked(q, D)
            BY <1>1, <2>1, <2>2
        <3>2. r \in Seq(D) /\ Len(r) = Cardinality(D) /\ ToSet(r) = D
            BY ONLY <3>1, RankedSound
        <3> QED
            BY <3>2, <2>2
    <2>4. /\ t \in Seq(D) /\ (Len(t) = ef \/ Len(t) = 1) /\ Len(t) <= 1
          /\ \A k \in 1..Len(t) : t[k] = r[k]
        <3>1. r \in Seq(D) /\ ef \in Nat /\ t = Truncate(r, ef)
            BY <2>1, <2>3
        <3>2. /\ t \in Seq(D) /\ Len(t) <= ef /\ Len(t) <= Len(r)
              /\ Len(t) = ef \/ Len(t) = Len(r)
              /\ \A k \in 1..Len(t) : t[k] = r[k]
            BY ONLY <3>1, TruncateSound
        <3> QED
            BY <3>2, <2>3
    <2>5. Len(t) = 1
        <3>1. PICK m : m = Len(t)
            OBVIOUS
        <3>2. m \in Nat /\ ef \in Nat /\ ef >= 1
            BY <2>4, <3>1, Elements
        <3>3. (m = ef \/ m = 1) /\ m <= 1
            BY ONLY <2>4, <3>1
        <3>4. m = 1
            BY ONLY <3>2, <3>3
        <3> QED
            BY ONLY <3>1, <3>4
    <2>6. 1 \in 1..Len(t) /\ \A k \in 1..Len(t) : t[k] = d
        <3>1. \A k \in 1..Len(t) : t[k] \in D
            BY ONLY <2>4, Elements
        <3>2. 1 \in 1..1
            OBVIOUS
        <3>3. \A k \in 1..Len(t) : t[k] = d
            BY ONLY <2>1, <3>1
        <3> QED
            BY ONLY <2>5, <3>2, <3>3
    <2>7. ToSet(t) = {t[k] : k \in 1..Len(t)}
        BY <2>4, Image
    <2>8. ToSet(t) = {d}
        BY <2>6, <2>7
    <2> QED
        BY <2>1, <2>8 DEF Start
<1>5. PICK s : Walk(q, ef, 0, a) = s[n].best /\ Visits(N, q, ef, 0, a, n, s)
    BY <1>1, <1>2, <1>3, WalkIs
<1> DEFINE P == {i \in 0..n : Wide(d, s[i], i)}
<1>6. n \in Nat /\ s[0] = a
    BY <1>5 DEF Visits
<1>7. 0 \in P
    <2>1. d \in Reach({d})
        BY DEF Reach
    <2>2. Wide(d, a, 0)
        <3>1. a.visited \ a.cand = {}
            BY <1>4
        <3> QED
            BY <1>4, <2>1, <3>1, FS_EmptySet DEF Wide
    <2> QED
        BY <1>6, <2>2
<1>8. ASSUME NEW i \in 1..n, i - 1 \in P
      PROVE  i \in P
    <2>1. PICK r, j : r = s[i - 1] /\ j = i - 1
        OBVIOUS
    <2>2. j \in Nat /\ j \in 0..n /\ i = j + 1 /\ i \in 0..n
        BY <2>1, <1>6
    <2>3. Wide(d, r, j)
        BY <1>8, <2>1
    <2>4. r \in Beams(N) /\ s[i] = Visit(q, ef, 0, r)
        BY <1>5, <2>1, <2>2 DEF Visits
    <2>5. Cardinality(N) <= ef
        OBVIOUS
    <2>6. Wide(d, Visit(q, ef, 0, r), j + 1)
        BY <2>2, <2>3, <2>4, <2>5, VisitWide
    <2> QED
        BY <2>2, <2>4, <2>6
<1>9. \A i \in 0..n : i \in P
    <2> HIDE DEF P
    <2> QED
        BY <1>6, <1>7, <1>8, UpTo
<1>10. PICK r : r = s[n]
    OBVIOUS
<1>11. Wide(d, r, n) /\ r \in Beams(N)
    BY <1>5, <1>6, <1>9, <1>10 DEF Visits
<1>12. r.cand = {}
    <2> SUFFICES ASSUME r.cand # {} PROVE FALSE
        OBVIOUS
    <2>1. PICK D : D = r.visited \ r.cand
        OBVIOUS
    <2>2. Cardinality(D) >= n /\ r.cand \subseteq r.visited
        BY <1>11, <2>1 DEF Wide
    <2>3. r.visited \in SUBSET N
        BY <1>11 DEF Beams
    <2>4. D \in SUBSET Nodes
        BY <1>1, <2>1, <2>3
    <2>5. Cardinality(D) \in Nat /\ Cardinality(D) <= n
        BY <1>1, <2>4, FS_Subset, FS_CardinalityType
    <2>6. D = Nodes
        BY <1>1, <1>6, <2>2, <2>4, <2>5, FS_Subset
    <2> QED
        BY <1>1, <2>1, <2>2, <2>3, <2>6
<1>13. r.visited = Reach({d})
    <2>1. r.visited \in SUBSET inserted
        BY <1>11 DEF Beams
    <2>2. {d} \subseteq r.visited /\ \A y \in r.visited : LinkSet(y, 0) \subseteq r.visited
        BY <1>11, <1>12 DEF Wide
    <2>3. Reach({d}) \subseteq r.visited
        BY <2>1, <2>2 DEF Reach
    <2> QED
        BY <1>11, <2>3 DEF Wide
<1>14. s[n].best = Reach({d})
    BY <1>10, <1>11, <1>13 DEF Wide
<1>15. search_layer(q, {d}, ef, 0) = Ranked(q, s[n].best)
    BY <1>5 DEF search_layer, Start
<1> QED
    BY <1>14, <1>15

-----------------------------------------------------------------------------
(* Results. *)

(* The similar ones of a sorted beam are the sorted beam of the similar.   *)
LEMMA FilterRanked ==
    ASSUME Laid, NEW q \in Directions, NEW B \in SUBSET Nodes, NEW r, r = Ranked(q, B),
           NEW P, P = {i \in 1..Len(r) : Sim(q, r[i]) > 0}
    PROVE  Retain(r, P) = Ranked(q, {x \in B : Sim(q, x) > 0})
<1> PICK l, A : l = Retain(r, P) /\ A = {x \in B : Sim(q, x) > 0}
    OBVIOUS
<1>1. /\ r \in Seq(B) /\ \A x \in B : \E k \in 1..Len(r) : r[k] = x
      /\ \A i, j \in 1..Len(r) : i < j => Closer(q, r[i], r[j])
    BY RankedSound
<1>2. P \in SUBSET (1..Len(r))
    OBVIOUS
<1>3. PICK o : Retained(B, r, P, l, o)
    BY <1>1, <1>2, RetainSound
<1>4. /\ l \in Seq(B)
      /\ \A k \in 1..Len(l) : o[k] \in P /\ l[k] = r[o[k]]
      /\ \A i, j \in 1..Len(l) : i < j => o[i] < o[j]
      /\ \A p \in P : \E k \in 1..Len(l) : o[k] = p
    BY <1>3 DEF Retained
<1>5. Len(l) \in Nat /\ \A k \in 1..Len(l) : l[k] \in B
    BY <1>4, Elements
<1>6. \A k \in 1..Len(l) : l[k] \in A
    <2> SUFFICES ASSUME NEW k \in 1..Len(l) PROVE l[k] \in A
        OBVIOUS
    <2>1. o[k] \in P /\ l[k] = r[o[k]]
        BY <1>4
    <2>2. Sim(q, r[o[k]]) > 0
        BY <2>1
    <2> QED
        BY <1>5, <2>1, <2>2
<1>7. l \in Seq(A)
    <2>1. l \in Seq(B)
        BY <1>4
    <2>2. l = [k \in 1..Len(l) |-> l[k]]
        BY ONLY <2>1
    <2> QED
        BY <1>5, <1>6, <2>2
<1>8. ASSUME NEW x \in A
      PROVE  \E k \in 1..Len(l) : l[k] = x
    <2>1. PICK k \in 1..Len(r) : r[k] = x
        BY <1>1
    <2>2. k \in P
        BY <2>1
    <2>3. PICK j \in 1..Len(l) : o[j] = k
        BY <1>4, <2>2
    <2>4. l[j] = r[o[j]]
        BY <1>4
    <2> QED
        BY <2>1, <2>3, <2>4
<1>9. ASSUME NEW i \in 1..Len(l), NEW j \in 1..Len(l), i < j
      PROVE  Closer(q, l[i], l[j])
    <2>1. o[i] \in 1..Len(r) /\ o[j] \in 1..Len(r) /\ o[i] < o[j]
        BY <1>2, <1>4, <1>9
    <2>2. l[i] = r[o[i]] /\ l[j] = r[o[j]]
        BY <1>4
    <2> QED
        BY <1>1, <2>1, <2>2
<1>10. A \in SUBSET Nodes
    OBVIOUS
<1>11. l = Ranked(q, A)
    BY <1>7, <1>8, <1>9, <1>10, RankedOnly
<1> QED
    BY <1>11

(* The first of a sorted beam are a sorted beam. *)
LEMMA TruncateRanked ==
    ASSUME Laid, NEW q \in Directions, NEW B \in SUBSET Nodes, NEW r, r = Ranked(q, B),
           NEW n \in Nat, NEW l, l = Truncate(r, n)
    PROVE  Len(l) <= n /\ l = Ranked(q, ToSet(l)) /\ ToSet(l) \subseteq B
<1>1. r \in Seq(B) /\ \A i, j \in 1..Len(r) : i < j => Closer(q, r[i], r[j])
    BY RankedSound
<1>2. /\ l \in Seq(B) /\ Len(l) <= n /\ Len(l) <= Len(r)
      /\ \A k \in 1..Len(l) : l[k] = r[k]
    BY <1>1, TruncateSound
<1>3. Len(l) \in Nat /\ Len(r) \in Nat /\ \A k \in 1..Len(l) : k \in 1..Len(r)
    BY <1>1, <1>2, Elements
<1>4. PICK A : A = ToSet(l)
    OBVIOUS
<1>5. A = {l[k] : k \in 1..Len(l)} /\ A \subseteq B
    BY <1>2, <1>4, Image
<1>6. l \in Seq(A)
    <2>1. l = [k \in 1..Len(l) |-> l[k]]
        BY <1>2
    <2> QED
        BY <1>3, <1>5, <2>1
<1>7. \A i, j \in 1..Len(l) : i < j => Closer(q, l[i], l[j])
    BY <1>1, <1>2, <1>3
<1>8. A \in SUBSET Nodes /\ \A x \in A : \E k \in 1..Len(l) : l[k] = x
    BY <1>5
<1>9. l = Ranked(q, A)
    BY <1>6, <1>7, <1>8, RankedOnly
<1> QED
    BY <1>2, <1>4, <1>5, <1>9

(* From d a beam at least as wide as asked finds B: the first similar ones  *)
(* of B are returned.                                                      *)
Finding(q, k, ef, d, w, B) ==
    /\ w >= ef /\ w >= 1 /\ search_layer(q, {d}, w, 0) = Ranked(q, B)
    /\ search(q, k, ef) = Truncate(Ranked(q, {x \in B : Sim(q, x) > 0}), k)

(* So does every search. *)
LEMMA SearchIs ==
    ASSUME AnnInv, entry # 0, NEW q \in Directions, NEW k \in Nat, k # 0, NEW ef \in Nat,
           NEW d, d = Descend(entry, q, max_level, 1)
    PROVE  /\ d \in inserted
           /\ \E w \in Nat, B \in SUBSET inserted : Finding(q, k, ef, d, w, B)
<1>1. /\ AnnTyped /\ Laid /\ inserted \in SUBSET Nodes /\ max_level \in Nat
      /\ Level[entry] = max_level /\ entry \in inserted
    BY DEF AnnInv, AnnTyped, EntryOnTop
<1>2. On(inserted, 0) = inserted
    BY <1>1, OnLess
<1>3. d \in inserted
    <2>1. entry \in On(inserted, max_level)
        BY <1>1 DEF On
    <2>2. 1 \in Nat
        OBVIOUS
    <2>3. d \in On(inserted, Lesser(max_level, 1))
        BY <1>1, <2>1, <2>2, DescendKeeps
    <2> QED
        BY <2>3 DEF On
<1>4. PICK W, w : W = {ef, k, Beam} /\ w = CHOOSE v \in W : \A u \in W : u <= v
    OBVIOUS
<1>5. w \in W /\ \A u \in W : u <= w
    <2>1. ef \in Nat /\ k \in Nat /\ Beam \in Nat
        BY AnnAssumption
    <2>2. \E v \in W : \A u \in W : u <= v
        BY <1>4, <2>1
    <2> QED
        BY <1>4, <2>2
<1>6. w \in Nat /\ w >= ef /\ w >= 1
    BY <1>4, <1>5, AnnAssumption
<1>7. PICK r : r = search_layer(q, {d}, w, 0)
    OBVIOUS
<1>8. PICK B \in SUBSET inserted : r = Ranked(q, B)
    <2>1. {d} \in SUBSET On(inserted, 0) /\ 0 \in Nat
        BY <1>2, <1>3
    <2>2. \E B \in SUBSET On(inserted, 0) : search_layer(q, {d}, w, 0) = Ranked(q, B)
        BY <1>1, <1>6, <2>1, SearchLayerSound
    <2> QED
        BY <1>2, <1>7, <2>2
<1>9. PICK P : P = {i \in 1..Len(r) : Sim(q, r[i]) > 0}
    OBVIOUS
<1>10. search(q, k, ef) = Truncate(Retain(r, P), k)
    BY <1>4, <1>7, <1>9 DEF search
<1>11. B \in SUBSET Nodes
    BY <1>1
<1>12. Retain(r, P) = Ranked(q, {x \in B : Sim(q, x) > 0})
    BY <1>1, <1>8, <1>9, <1>11, FilterRanked
<1>13. Finding(q, k, ef, d, w, B)
    BY <1>6, <1>7, <1>8, <1>10, <1>12 DEF Finding
<1> QED
    BY <1>3, <1>6, <1>8, <1>13

(* A graph is well formed: a list that repeats no node has as many as its set. *)
LEMMA GraphWellFormed ==
    ASSUME AnnTyped
    PROVE  LinksWellFormed
<1> SUFFICES ASSUME NEW x \in inserted, NEW l \in 0..Level[x]
             PROVE  /\ \A y \in LinkSet(x, l) : y \in inserted \ {x} /\ Level[y] >= l
                    /\ Len(links[x][l]) = Cardinality(LinkSet(x, l))
                    /\ Len(links[x][l]) <= IF l = 0 THEN M0 ELSE M
    BY DEF LinksWellFormed
<1> PICK s, T : s = links[x][l] /\ T = On(inserted, l) \ {x}
    OBVIOUS
<1>1. x \in Nodes
    BY DEF AnnTyped
<1>2. LinkList(s, x, l, inserted)
    BY <1>1 DEF AnnTyped, Graph
<1>3. s \in Seq(T) /\ Len(s) <= Capacity(l) /\ \A i, j \in 1..Len(s) : s[i] = s[j] => i = j
    BY <1>2 DEF LinkList
<1>4. ToSet(s) = {s[i] : i \in 1..Len(s)} /\ ToSet(s) \subseteq T
    BY <1>3, Image
<1>5. \A y \in T : y \in inserted \ {x} /\ Level[y] >= l
    BY DEF On
<1>6. Cardinality(ToSet(s)) = Len(s)
    <2> PICK D : D = 1..Len(s)
        OBVIOUS
    <2>1. IsFiniteSet(D) /\ Cardinality(D) = Len(s) /\ DOMAIN s = D
        BY <1>3, Elements, Counted
    <2>2. ToSet(s) = {s[i] : i \in D} /\ \A i, j \in D : s[i] = s[j] => i = j
        BY <1>3, <1>4
    <2>3. Cardinality(ToSet(s)) = Cardinality(D)
        BY ONLY <2>1, <2>2, ImagedOnce
    <2> QED
        BY <2>1, <2>3
<1> QED
    BY <1>3, <1>4, <1>5, <1>6 DEF LinkSet, Capacity

(* A beam as wide as the graph finds the best of what can be reached, and   *)
(* search returns them.                                                    *)
LEMMA WideSound ==
    ASSUME AnnInv
    PROVE  WideBeamFindsReachable
<1> SUFFICES ASSUME inserted # {}, NEW q \in Queries
             PROVE  search(q, 2, Cardinality(inserted))
                      = Truncate(Ranked(q, SimilarTo(q) \cap
                                            Reach({Descend(entry, q, max_level, 1)})), 2)
    BY DEF WideBeamFindsReachable
<1> PICK d, ef, R : /\ d = Descend(entry, q, max_level, 1) /\ ef = Cardinality(inserted)
                    /\ R = Reach({d})
    OBVIOUS
<1>1. /\ AnnTyped /\ Laid /\ inserted \in SUBSET Nodes /\ entry # 0 /\ q \in Directions
      /\ IsFiniteSet(inserted)
    BY AnnAssumption, FS_Subset DEF AnnInv, AnnTyped
<1>2. ef \in Nat
    BY <1>1, FS_CardinalityType
<1>3. d \in inserted /\ \E w \in Nat, B \in SUBSET inserted : Finding(q, 2, ef, d, w, B)
    <2>1. PICK k \in Nat : k = 2
        OBVIOUS
    <2>2. k # 0
        BY <2>1
    <2>3. d \in inserted /\ \E w \in Nat, B \in SUBSET inserted : Finding(q, k, ef, d, w, B)
        BY <1>1, <1>2, <2>2, SearchIs
    <2> QED
        BY <2>1, <2>3
<1>4. PICK w \in Nat, B \in SUBSET inserted : Finding(q, 2, ef, d, w, B)
    BY <1>3
<1>40. /\ w >= ef /\ w >= 1 /\ search_layer(q, {d}, w, 0) = Ranked(q, B)
       /\ search(q, 2, ef) = Truncate(Ranked(q, {x \in B : Sim(q, x) > 0}), 2)
    BY <1>4 DEF Finding
<1>5. search_layer(q, {d}, w, 0) = Ranked(q, R)
    BY <1>1, <1>3, <1>40, WideFinds
<1>6. R \in SUBSET inserted
    BY DEF Reach
<1>7. B = R
    <2>1. B \in SUBSET Nodes /\ R \in SUBSET Nodes
        BY <1>1, <1>6
    <2>2. ToSet(Ranked(q, B)) = B /\ ToSet(Ranked(q, R)) = R
        BY <1>1, <2>1, RankedSound
    <2> QED
        BY <1>40, <1>5, <2>2
<1>8. {x \in B : Sim(q, x) > 0} = SimilarTo(q) \cap R
    BY <1>6, <1>7 DEF SimilarTo
<1> QED
    BY <1>40, <1>8

(* The narrowest beam returns similar nodes, nearest first. *)
LEMMA NarrowSound ==
    ASSUME AnnInv
    PROVE  NarrowBeamRanked
<1> SUFFICES ASSUME NEW q \in Queries, NEW found, found = search(q, 2, 1)
             PROVE  /\ Len(found) <= 2 /\ found = Ranked(q, ToSet(found))
                    /\ ToSet(found) \subseteq SimilarTo(q)
    BY DEF NarrowBeamRanked
<1>1. Laid /\ inserted \in SUBSET Nodes /\ q \in Directions
    BY AnnAssumption DEF AnnInv, AnnTyped
<1>2. CASE entry = 0
    <2>1. found = <<>>
        BY <1>2 DEF search
    <2>2. found \in Seq({}) /\ Len(found) = 0
        BY <2>1, Elements
    <2>3. ToSet(found) = {}
        BY <2>2, Image
    <2>4. found = Ranked(q, {})
        BY <1>1, <2>2, RankedOnly
    <2> QED
        BY <2>2, <2>3, <2>4
<1>3. CASE entry # 0
    <2>0. PICK k, ef, d : /\ k \in Nat /\ ef \in Nat /\ k = 2 /\ ef = 1
                              /\ d = Descend(entry, q, max_level, 1)
        OBVIOUS
    <2>1. PICK w \in Nat, B \in SUBSET inserted : Finding(q, k, ef, d, w, B)
        <3>1. k # 0
            BY <2>0
        <3> QED
            BY <1>1, <1>3, <2>0, <3>1, SearchIs
    <2>2. PICK A, r : A = {x \in B : Sim(q, x) > 0} /\ r = Ranked(q, A)
        OBVIOUS
    <2>3. A \in SUBSET Nodes /\ A \subseteq SimilarTo(q)
        BY <1>1, <2>2 DEF SimilarTo
    <2>4. found = Truncate(r, k)
        BY <2>0, <2>1, <2>2 DEF Finding
    <2>5. Len(found) <= k /\ found = Ranked(q, ToSet(found)) /\ ToSet(found) \subseteq A
        <3>1. Laid /\ q \in Directions /\ A \in SUBSET Nodes /\ r = Ranked(q, A)
            BY <1>1, <2>2, <2>3
        <3>2. k \in Nat /\ found = Truncate(r, k)
            BY <2>0, <2>4
        <3> QED
            BY ONLY <3>1, <3>2, TruncateRanked
    <2> QED
        BY <2>0, <2>3, <2>5
<1> QED
    BY <1>2, <1>3

(* After any insertions in any order the links make a graph: each leads to  *)
(* another node that has the layer, lists keep to their capacity, and the  *)
(* entry is at the top (ann.rs, insert_node and link).                     *)
THEOREM AnnInvariant == AnnSpec => []AnnInv
<1>1. AnnInit => AnnInv
    BY AnnInitKeeps
<1>2. AnnInv /\ [AnnNext]_annVars => AnnInv'
    <2> SUFFICES ASSUME AnnInv, [AnnNext]_annVars PROVE AnnInv'
        OBVIOUS
    <2>1. CASE AnnNext
        BY <2>1, InsertKeeps DEF AnnNext
    <2>2. CASE UNCHANGED annVars
        BY <2>2 DEF annVars, AnnInv, AnnTyped, Laid, EntryOnTop, Graph, LinkList, On
    <2> QED
        BY <2>1, <2>2
<1> QED
    BY <1>1, <1>2, PTL DEF AnnSpec

(* And what ann.rs searches is what its links lead to: a wide beam returns  *)
(* the best nodes that can be reached, the narrowest similar ones in order.*)
THEOREM IndexIsSound == AnnSpec => []AnnSound
<1>1. AnnInv => AnnSound
    BY GraphWellFormed, WideSound, NarrowSound DEF AnnInv, AnnSound
<1> QED
    BY <1>1, AnnInvariant, PTL
=============================================================================
