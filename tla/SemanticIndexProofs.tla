------------------------- MODULE SemanticIndexProofs -------------------------
(* Theorems about SemanticIndex, for any number of chunks, any batch and   *)
(* any minimum, when one thread does everything but deleting and querying. *)
EXTENDS SemanticIndex, FiniteSetTheorems, WellFoundedInduction, TLAPS

-----------------------------------------------------------------------------
(* Finite sets of numbers, and the LIMIT of a query. *)

(* A set of naturals has a least element, a bounded one a greatest. *)
LEMMA Least ==
    ASSUME NEW S \in SUBSET Nat, S # {}
    PROVE  \E x \in S : \A y \in S : x <= y
<1>1. PICK x \in S : \A y \in S : ~(<<y, x>> \in OpToRel(<, Nat))
    BY NatLessThanWellFounded, WFMin
<1>2. \A y \in S : ~(y < x)
    BY <1>1 DEF OpToRel
<1> QED BY <1>2

(* A nonempty set of numbers up to n has a greatest one. *)
LEMMA Greatest ==
    ASSUME NEW n \in Nat, NEW S \in SUBSET (1..n), S # {}
    PROVE  \E x \in S : \A y \in S : y <= x
<1> DEFINE U == {u \in 0..n : \A y \in S : y <= u}
<1>1. n \in U /\ U \in SUBSET Nat
    OBVIOUS
<1>2. PICK u \in U : \A v \in U : u <= v
    <2> HIDE DEF U
    <2> QED BY <1>1, Least
<1>3. CASE u \in S
    BY <1>3
<1>4. CASE u \notin S
    <2>1. PICK s \in S : TRUE
        OBVIOUS
    <2>2. u >= 1 /\ \A y \in S : y <= u - 1
        BY <1>4, <2>1
    <2>3. u - 1 \in U
        BY <2>2
    <2> QED BY <1>2, <2>3
<1> QED BY <1>3, <1>4

(* Max of a set of ids is one of them. *)
LEMMA MaxIn ==
    ASSUME NEW n \in Nat, NEW S \in SUBSET (1..n), S # {}
    PROVE  Max(S) \in S
<1>1. \E x \in S : \A y \in S : x >= y
    BY Greatest
<1> QED BY <1>1 DEF Max

(* FirstOf(S, n), the LIMIT n of reembed_stale_chunks, leaves nothing out  *)
(* unless it is full.                                                      *)
LEMMA FirstOfIsAll ==
    ASSUME NEW m \in Nat, NEW S \in SUBSET (1..m), NEW n \in Nat \ {0},
           Cardinality(FirstOf(S, n)) # n
    PROVE  FirstOf(S, n) = S
<1> DEFINE Below(x) == {d \in S : d < x}
           F == FirstOf(S, n)
<1>1. IsFiniteSet(S) /\ \A T \in SUBSET S : IsFiniteSet(T) /\ Cardinality(T) \in Nat
    <2>1. IsFiniteSet(1..m)
        BY FS_Interval
    <2> QED BY <2>1, FS_Subset, FS_CardinalityType
<1>2. F = {c \in S : Cardinality(Below(c)) < n}
    BY DEF FirstOf
<1> HIDE DEF F
<1> SUFFICES ASSUME F # S PROVE FALSE
    BY DEF F
<1>3. PICK c \in S \ F : \A d \in S \ F : c <= d
    <2>1. F \subseteq S /\ S \subseteq Nat
        BY <1>2
    <2>2. S \ F # {} /\ S \ F \in SUBSET Nat
        BY <2>1
    <2> QED BY <2>2, Least
<1>4. Cardinality(Below(c)) >= n
    BY <1>1, <1>2
<1>5. F = Below(c)
    <2>1. ASSUME NEW d \in S, d < c PROVE d \in F
        BY <1>3, <2>1
    <2>2. ASSUME NEW d \in F PROVE d < c
        <3>1. d \in S /\ d # c /\ Cardinality(Below(d)) < n
            BY <1>2
        <3>2. CASE d > c
            <4>1. Below(c) \in SUBSET Below(d) /\ Below(d) \in SUBSET S
                <5>1. \A x \in S : x < c => x < d
                    BY <3>1, <3>2
                <5> QED BY <5>1
            <4>2. Cardinality(Below(c)) <= Cardinality(Below(d))
                BY <1>1, <4>1, FS_Subset
            <4> QED BY <1>1, <1>4, <3>1, <4>1, <4>2
        <3> QED BY <3>1, <3>2
    <2> QED BY <1>2, <2>1, <2>2
<1>6. Cardinality(F) >= n /\ F \in SUBSET S
    BY <1>2, <1>4, <1>5
<1>7. F # {}
    BY <1>6, FS_EmptySet
<1>8. PICK g \in F : \A d \in F : d <= g
    BY <1>6, <1>7, Greatest
<1>9. F \ {g} \in SUBSET Below(g) /\ Below(g) \in SUBSET S
    BY <1>6, <1>8
<1>10. Cardinality(F \ {g}) <= Cardinality(Below(g))
    BY <1>1, <1>9, FS_Subset
<1>11. Cardinality(F \ {g}) = Cardinality(F) - 1
    BY <1>1, <1>6, FS_RemoveElement
<1>12. Cardinality(Below(g)) < n
    BY <1>2, <1>8
<1>13. Cardinality(F) \in Nat /\ Cardinality(Below(g)) \in Nat
    BY <1>1, <1>6, <1>9
<1>14. Cardinality(F) = n
    BY <1>6, <1>10, <1>11, <1>12, <1>13
<1> QED BY <1>14 DEF F

(* So an empty batch means that nothing is left. *)
LEMMA FirstOfEmpty ==
    ASSUME NEW m \in Nat, NEW S \in SUBSET (1..m), NEW n \in Nat \ {0},
           FirstOf(S, n) = {}
    PROVE  S = {}
<1>1. Cardinality(FirstOf(S, n)) # n
    BY FS_EmptySet
<1> QED BY <1>1, FirstOfIsAll

-----------------------------------------------------------------------------
(* Types, for any threads and calls. *)

Callable ==
    [at : Steps \cup {"idle", "ok", "err"}, chunk : 0..MaxChunks, vec : Spaces,
     target : Models \cup {"none"}, todo : SUBSET Ids, full : BOOLEAN,
     seen : Fingerprints, index : SUBSET Vectors]

Installing == SavingSteps \cup {"clear_terms", "install_name", "install_model"}

(* The steps a call of each kind goes through. *)
StepsOf(what) ==
    CASE what = "ingest" -> IngestSteps
      [] what = "delete" -> {"delete"}
      [] what = "train" -> TrainSteps
      [] what = "reembed" -> ReembedSteps
      [] what = "query" -> QuerySteps

SemTypeOK ==
    /\ rows \subseteq Ids /\ lastId \in 0..MaxChunks
    /\ label \in [Ids -> Models \cup {"none"}]
    /\ space \in [Ids -> Spaces]
    /\ trained \in 0..MaxTrainings /\ terms \in Spaces /\ model \in Spaces
    /\ meta \in [model : Models \cup {"none"}, dim : Models \cup {"none"},
                lsaDim : BOOLEAN]
    /\ up \in BOOLEAN /\ torn \in BOOLEAN /\ name \in Models
    /\ cache \in [of : Fingerprints, index : SUBSET Vectors]
    /\ call \in [Actors -> Callable]

(* A thread makes its own calls only; only an open engine has calls. *)
CallOK(a) ==
    /\ call[a].at # "idle" => up
    /\ call[a].at \in Steps => \E what \in Calls[a] : call[a].at \in StepsOf(what)
    /\ call[a].at \in Installing => call[a].vec \in 1..MaxTrainings
    /\ call[a].at \in {"texts", "update"} => call[a].todo # {}
    /\ call[a].target # "none" =>
          call[a].at \in ReembedSteps \cup {"ok", "err"} /\ "reembed" \in Calls[a]

CallsOK == \A a \in Actors : CallOK(a)

-----------------------------------------------------------------------------
(* The inductive invariant: thread w makes every call that changes more    *)
(* than the rows a deletion removes.                                       *)

SoleWriter(w) == \A a \in Actors \ {w} : Calls[a] \subseteq {"delete", "query"}

(* The name is that of the model in memory but for the moment between the  *)
(* two installs; a chunk gets its label from the name under which its      *)
(* vector was made.                                                        *)
NameFits(w) ==
    up => /\ IF call[w].at = "install_model" THEN name = "lsa"
             ELSE name = "lsa" <=> model # 0
          /\ call[w].at \in {"insert", "label", "update"} =>
                (name = "lsa" <=> call[w].vec # 0)

(* A batch that is not full holds every chunk that is not migrated yet. *)
BatchCovers(w) ==
    call[w].target = name =>
        /\ call[w].at \in {"texts", "update"} /\ ~call[w].full =>
              \A c \in rows : label[c] = name \/ c \in call[w].todo
        /\ call[w].at = "ok" => \A c \in rows : label[c] = name

(* What the writes of a training have put on disk, one after the other;    *)
(* between trainings that were not cut short the library can be opened.    *)
DiskFollows(w) ==
    /\ up => meta.model # "none"
    /\ meta.model = "none" => terms = 0
    /\ call[w].at \in {"save_dim", "meta_model", "meta_dim"} => terms # 0
    /\ call[w].at \in {"meta_model", "meta_dim"} => meta.lsaDim
    /\ call[w].at = "meta_dim" => meta.model = "lsa"
    /\ torn \/ Saving(w) \/ Openable

InStep(w) == NameFits(w) /\ LabelsTruthful /\ BatchCovers(w) /\ DiskFollows(w)

WriterInv(w) == SemTypeOK /\ CallsOK /\ InStep(w)

-----------------------------------------------------------------------------
(* What the steps do to the record of a call. *)

Places == Steps \cup {"idle", "ok", "err"}

(* The call of thread a becomes r; the others stay. *)
Becomes(a, r) ==
    /\ r \in Callable
    /\ call' = [call EXCEPT ![a] = r]
    /\ call' \in [Actors -> Callable] /\ call'[a] = r
    /\ \A b \in Actors \ {a} : call'[b] = call[b]

(* An assignment to one call leaves the others alone. *)
LEMMA Becoming ==
    ASSUME call \in [Actors -> Callable], NEW a \in Actors, NEW r \in Callable,
           call' = [call EXCEPT ![a] = r]
    PROVE  Becomes(a, r)
BY DEF Becomes

(* A call that is over keeps its target and forgets the rest. *)
LEMMA Ending ==
    ASSUME call \in [Actors -> Callable], NEW a \in Actors, NEW s \in Places, End(a, s)
    PROVE  /\ Becomes(a, Call(s, 0, call[a].target))
           /\ call'[a].at = s /\ call'[a].target = call[a].target
<1>1. NoFingerprint \in Fingerprints
    BY SemanticAssumption DEF NoFingerprint, Fingerprints
<1>2. /\ Call(s, 0, call[a].target) \in Callable
      /\ Call(s, 0, call[a].target).at = s
      /\ Call(s, 0, call[a].target).target = call[a].target
    BY <1>1, SemanticAssumption DEF Call, Callable, Places, Spaces
<1>3. call' = [call EXCEPT ![a] = Call(s, 0, call[a].target)]
    BY DEF End
<1> HIDE DEF Call
<1> QED BY <1>2, <1>3, Becoming DEF Becomes

(* A record of a call by its fields (the chunk aside). *)
IsCall(r, at, vec, target, todo, full, seen, index) ==
    /\ r \in Callable
    /\ r.at = at /\ r.vec = vec /\ r.target = target /\ r.todo = todo
    /\ r.full = full /\ r.seen = seen /\ r.index = index

(* Setting one field of a call. *)
LEMMA SetField ==
    ASSUME NEW r \in Callable
    PROVE  /\ \A x \in Places :
                IsCall([r EXCEPT !.at = x],
                       x, r.vec, r.target, r.todo, r.full, r.seen, r.index)
           /\ \A x \in Spaces :
                IsCall([r EXCEPT !.vec = x],
                       r.at, x, r.target, r.todo, r.full, r.seen, r.index)
           /\ \A x \in 0..MaxChunks :
                IsCall([r EXCEPT !.chunk = x],
                       r.at, r.vec, r.target, r.todo, r.full, r.seen, r.index)
           /\ \A x \in SUBSET Ids :
                IsCall([r EXCEPT !.todo = x],
                       r.at, r.vec, r.target, x, r.full, r.seen, r.index)
           /\ \A x \in BOOLEAN :
                IsCall([r EXCEPT !.full = x],
                       r.at, r.vec, r.target, r.todo, x, r.seen, r.index)
           /\ \A x \in Fingerprints :
                IsCall([r EXCEPT !.seen = x],
                       r.at, r.vec, r.target, r.todo, r.full, x, r.index)
           /\ \A x \in SUBSET Vectors :
                IsCall([r EXCEPT !.index = x],
                       r.at, r.vec, r.target, r.todo, r.full, r.seen, x)
<1> USE DEF Callable, Places, IsCall
<1>1. ASSUME NEW x \in Places
      PROVE  IsCall([r EXCEPT !.at = x],
                    x, r.vec, r.target, r.todo, r.full, r.seen, r.index)
    OBVIOUS
<1>2. ASSUME NEW x \in Spaces
      PROVE  IsCall([r EXCEPT !.vec = x],
                    r.at, x, r.target, r.todo, r.full, r.seen, r.index)
    OBVIOUS
<1>3. ASSUME NEW x \in 0..MaxChunks
      PROVE  IsCall([r EXCEPT !.chunk = x],
                    r.at, r.vec, r.target, r.todo, r.full, r.seen, r.index)
    OBVIOUS
<1>4. ASSUME NEW x \in SUBSET Ids
      PROVE  IsCall([r EXCEPT !.todo = x],
                    r.at, r.vec, r.target, x, r.full, r.seen, r.index)
    OBVIOUS
<1>5. ASSUME NEW x \in BOOLEAN
      PROVE  IsCall([r EXCEPT !.full = x],
                    r.at, r.vec, r.target, r.todo, x, r.seen, r.index)
    OBVIOUS
<1>6. ASSUME NEW x \in Fingerprints
      PROVE  IsCall([r EXCEPT !.seen = x],
                    r.at, r.vec, r.target, r.todo, r.full, x, r.index)
    OBVIOUS
<1>7. ASSUME NEW x \in SUBSET Vectors
      PROVE  IsCall([r EXCEPT !.index = x],
                    r.at, r.vec, r.target, r.todo, r.full, r.seen, x)
    OBVIOUS
<1> HIDE DEF IsCall, Callable, Places
<1> QED BY <1>1, <1>2, <1>3, <1>4, <1>5, <1>6, <1>7

(* The call of thread a becomes one with these fields. *)
Turns(a, at, vec, target, todo, full, seen, index) ==
    /\ call' \in [Actors -> Callable]
    /\ IsCall(call'[a], at, vec, target, todo, full, seen, index)
    /\ \A b \in Actors \ {a} : call'[b] = call[b]

(* A step that only goes on. *)
LEMMA Going ==
    ASSUME call \in [Actors -> Callable], NEW a \in Actors, NEW s \in Places, Goto(a, s)
    PROVE  Turns(a, s, call[a].vec, call[a].target, call[a].todo, call[a].full,
                 call[a].seen, call[a].index)
<1> DEFINE r == [call[a] EXCEPT !.at = s]
<1>1. call' = [call EXCEPT ![a] = r]
    BY DEF Goto
<1>2. IsCall(r, s, call[a].vec, call[a].target, call[a].todo, call[a].full,
             call[a].seen, call[a].index)
    BY SetField
<1> HIDE DEF r
<1> QED BY <1>1, <1>2, Becoming DEF Turns, Becomes, IsCall

(* A step that reads the model into the call. *)
LEMMA GoingWith ==
    ASSUME call \in [Actors -> Callable], NEW a \in Actors, NEW s \in Places,
           NEW v \in Spaces,
           \/ call' = [call EXCEPT ![a].at = s, ![a].vec = v]
           \/ call' = [call EXCEPT ![a].vec = v, ![a].at = s]
    PROVE  Turns(a, s, v, call[a].target, call[a].todo, call[a].full,
                 call[a].seen, call[a].index)
<1> DEFINE p == [call[a] EXCEPT !.at = s]
           q == [p EXCEPT !.vec = v]
           t == [call[a] EXCEPT !.vec = v]
           u == [t EXCEPT !.at = s]
<1>1. call' = [call EXCEPT ![a] = q] \/ call' = [call EXCEPT ![a] = u]
    OBVIOUS
<1>2. IsCall(p, s, call[a].vec, call[a].target, call[a].todo, call[a].full,
             call[a].seen, call[a].index)
    BY SetField
<1>3. IsCall(t, call[a].at, v, call[a].target, call[a].todo, call[a].full,
             call[a].seen, call[a].index)
    BY SetField
<1> HIDE DEF p, t
<1>4. IsCall(q, s, v, call[a].target, call[a].todo, call[a].full,
             call[a].seen, call[a].index)
    <2>1. p \in Callable
        BY <1>2 DEF IsCall
    <2>2. IsCall(q, p.at, v, p.target, p.todo, p.full, p.seen, p.index)
        BY <2>1, SetField
    <2> QED BY <1>2, <2>2 DEF IsCall
<1>5. IsCall(u, s, v, call[a].target, call[a].todo, call[a].full,
             call[a].seen, call[a].index)
    <2>1. t \in Callable
        BY <1>3 DEF IsCall
    <2>2. IsCall(u, s, t.vec, t.target, t.todo, t.full, t.seen, t.index)
        BY <2>1, SetField
    <2> QED BY <1>3, <2>2 DEF IsCall
<1> HIDE DEF q, u
<1> QED BY <1>1, <1>4, <1>5, Becoming DEF Turns, Becomes, IsCall

(* Setting a second field, whichever comes first. *)
LEMMA SetFields ==
    ASSUME call \in [Actors -> Callable], NEW a \in Actors, NEW s \in Places
    PROVE  LET r == call[a] IN
           /\ \A x \in 0..MaxChunks :
                IsCall([[r EXCEPT !.at = s] EXCEPT !.chunk = x],
                       s, r.vec, r.target, r.todo, r.full, r.seen, r.index)
           /\ \A x \in SUBSET Ids :
                IsCall([[r EXCEPT !.todo = x] EXCEPT !.at = s],
                       s, r.vec, r.target, x, r.full, r.seen, r.index)
           /\ \A x \in SUBSET Ids, y \in BOOLEAN :
                IsCall([[[r EXCEPT !.at = s] EXCEPT !.todo = x] EXCEPT !.full = y],
                       s, r.vec, r.target, x, y, r.seen, r.index)
           /\ \A x \in Fingerprints :
                IsCall([[r EXCEPT !.at = s] EXCEPT !.seen = x],
                       s, r.vec, r.target, r.todo, r.full, x, r.index)
           /\ \A x \in SUBSET Vectors :
                IsCall([[r EXCEPT !.at = s] EXCEPT !.index = x],
                       s, r.vec, r.target, r.todo, r.full, r.seen, x)
<1> DEFINE r == call[a]
           p == [r EXCEPT !.at = s]
<1>1. IsCall(p, s, r.vec, r.target, r.todo, r.full, r.seen, r.index)
    BY SetField
<1> HIDE DEF p
<1>2. p \in Callable /\ r \in Callable
    BY <1>1 DEF IsCall
<1>3. ASSUME NEW x \in 0..MaxChunks
      PROVE  IsCall([p EXCEPT !.chunk = x],
                    s, r.vec, r.target, r.todo, r.full, r.seen, r.index)
    <2>1. IsCall([p EXCEPT !.chunk = x],
                 p.at, p.vec, p.target, p.todo, p.full, p.seen, p.index)
        BY <1>2, SetField
    <2> QED BY <1>1, <2>1 DEF IsCall
<1>4. ASSUME NEW x \in SUBSET Ids
      PROVE  IsCall([[r EXCEPT !.todo = x] EXCEPT !.at = s],
                    s, r.vec, r.target, x, r.full, r.seen, r.index)
    <2> DEFINE q == [r EXCEPT !.todo = x]
    <2>1. IsCall(q, r.at, r.vec, r.target, x, r.full, r.seen, r.index)
        BY <1>2, SetField
    <2> HIDE DEF q
    <2>2. q \in Callable
        BY <2>1 DEF IsCall
    <2>3. IsCall([q EXCEPT !.at = s],
                 s, q.vec, q.target, q.todo, q.full, q.seen, q.index)
        BY <2>2, SetField
    <2>4. IsCall([q EXCEPT !.at = s],
                 s, r.vec, r.target, x, r.full, r.seen, r.index)
        BY <2>1, <2>3 DEF IsCall
    <2> QED BY <2>4 DEF q
<1>5. ASSUME NEW x \in SUBSET Ids, NEW y \in BOOLEAN
      PROVE  IsCall([[p EXCEPT !.todo = x] EXCEPT !.full = y],
                    s, r.vec, r.target, x, y, r.seen, r.index)
    <2> DEFINE q == [p EXCEPT !.todo = x]
    <2>1. IsCall(q, p.at, p.vec, p.target, x, p.full, p.seen, p.index)
        BY <1>2, SetField
    <2> HIDE DEF q
    <2>2. q \in Callable
        BY <2>1 DEF IsCall
    <2>3. IsCall([q EXCEPT !.full = y],
                 q.at, q.vec, q.target, q.todo, y, q.seen, q.index)
        BY <2>2, SetField
    <2>4. IsCall([q EXCEPT !.full = y],
                 s, r.vec, r.target, x, y, r.seen, r.index)
        BY <1>1, <2>1, <2>3 DEF IsCall
    <2> QED BY <2>4 DEF q
<1>6. ASSUME NEW x \in Fingerprints
      PROVE  IsCall([p EXCEPT !.seen = x],
                    s, r.vec, r.target, r.todo, r.full, x, r.index)
    <2>1. IsCall([p EXCEPT !.seen = x],
                 p.at, p.vec, p.target, p.todo, p.full, x, p.index)
        BY <1>2, SetField
    <2> QED BY <1>1, <2>1 DEF IsCall
<1>7. ASSUME NEW x \in SUBSET Vectors
      PROVE  IsCall([p EXCEPT !.index = x],
                    s, r.vec, r.target, r.todo, r.full, r.seen, x)
    <2>1. IsCall([p EXCEPT !.index = x],
                 p.at, p.vec, p.target, p.todo, p.full, p.seen, x)
        BY <1>2, SetField
    <2> QED BY <1>1, <2>1 DEF IsCall
<1> QED BY <1>3, <1>4, <1>5, <1>6, <1>7, Zenon DEF p, r

-----------------------------------------------------------------------------
(* What each step of a call does to the call, and to the types. *)

(* A fingerprint and the vectors under it are values of their types. *)
LEMMA Corpora ==
    ASSUME SemTypeOK, NEW m \in Models
    PROVE  Fingerprint(m) \in Fingerprints /\ Corpus(m) \in SUBSET Vectors
<1>1. Labelled(m) \in SUBSET (1..MaxChunks) /\ MaxChunks \in Nat
    BY SemanticAssumption DEF SemTypeOK, Labelled, Ids
<1>2. Cardinality(Labelled(m)) \in 0..MaxChunks
    <2>1. IsFiniteSet(1..MaxChunks) /\ Cardinality(1..MaxChunks) = MaxChunks
        BY <1>1, FS_Interval
    <2> QED BY <1>1, <2>1, FS_Subset, FS_CardinalityType
<1>3. Labelled(m) # {} => Max(Labelled(m)) \in 1..MaxChunks
    BY <1>1, MaxIn
<1>4. Fingerprint(m) \in Fingerprints
    <2> DEFINE x == IF Labelled(m) = {} THEN 0 ELSE Max(Labelled(m))
    <2>1. x \in 0..MaxChunks
        BY <1>1, <1>3
    <2> HIDE DEF x
    <2>2. [model |-> m, count |-> Cardinality(Labelled(m)), max |-> x] \in Fingerprints
        BY <1>2, <2>1 DEF Fingerprints
    <2> QED BY <2>2 DEF Fingerprint, x
<1> QED BY <1>4 DEF SemTypeOK, Corpus, Labelled, Vectors

(* The steps that set more than the place. *)
LEMMA InsertTurns ==
    ASSUME SemTypeOK, NEW a \in Actors, InsertChunk(a)
    PROVE  Turns(a, "label", call[a].vec, call[a].target, call[a].todo, call[a].full,
                 call[a].seen, call[a].index)
<1>1. lastId + 1 \in 0..MaxChunks /\ "label" \in Places /\ call \in [Actors -> Callable]
    BY SemanticAssumption DEF SemTypeOK, InsertChunk, Places, Steps, IngestSteps
<1> DEFINE r == [[call[a] EXCEPT !.at = "label"] EXCEPT !.chunk = lastId + 1]
<1>2. IsCall(r, "label", call[a].vec, call[a].target, call[a].todo, call[a].full,
             call[a].seen, call[a].index)
    BY <1>1, SetFields
<1>3. call' = [call EXCEPT ![a] = r]
    BY DEF InsertChunk
<1> HIDE DEF r
<1> QED BY <1>1, <1>2, <1>3, Becoming DEF Turns, Becomes, IsCall

(* The list of a batch is empty, and the call over, or holds what it is.   *)
LEMMA ListTurns ==
    ASSUME SemTypeOK, NEW a \in Actors, ListStale(a)
    PROVE  LET batch == FirstOf(Stale(call[a].target), Batch) IN
           \/ batch = {} /\ End(a, "ok")
           \/ /\ batch # {}
              /\ Turns(a, "texts", call[a].vec, call[a].target, batch,
                       Cardinality(batch) = Batch, call[a].seen, call[a].index)
<1> DEFINE batch == FirstOf(Stale(call[a].target), Batch)
           full == (Cardinality(batch) = Batch)
           r == [[[call[a] EXCEPT !.at = "texts"] EXCEPT !.todo = batch]
                    EXCEPT !.full = full]
<1>1. batch \in SUBSET Ids /\ full \in BOOLEAN
    BY DEF FirstOf, Stale, SemTypeOK
<1>2. "texts" \in Places /\ call \in [Actors -> Callable]
    BY DEF SemTypeOK, Places, Steps, ReembedSteps
<1>3. \/ batch = {} /\ End(a, "ok")
      \/ batch # {} /\ call' = [call EXCEPT ![a] = r]
    BY DEF ListStale
<1> HIDE DEF batch, full
<1>4. IsCall(r, "texts", call[a].vec, call[a].target, batch, full,
             call[a].seen, call[a].index)
    BY <1>1, <1>2, SetFields
<1> HIDE DEF r
<1>5. ASSUME call' = [call EXCEPT ![a] = r]
      PROVE  Turns(a, "texts", call[a].vec, call[a].target, batch, full,
                   call[a].seen, call[a].index)
    BY <1>2, <1>4, <1>5, Becoming DEF Turns, Becomes, IsCall
<1> QED BY <1>3, <1>5 DEF batch, full

(* After the last chunk of a short batch the call is over. *)
LEMMA UpdateTurns ==
    ASSUME SemTypeOK, NEW a \in Actors, UpdateChunk(a)
    PROVE  LET c == Min(call[a].todo)
               rest == call[a].todo \ {c}
           IN
           \/ rest = {} /\ ~call[a].full /\ End(a, "ok")
           \/ /\ rest # {} \/ call[a].full
              /\ Turns(a, IF rest # {} THEN "update" ELSE "list", call[a].vec,
                       call[a].target, rest, call[a].full, call[a].seen, call[a].index)
<1> DEFINE rest == call[a].todo \ {Min(call[a].todo)}
           s == IF rest # {} THEN "update" ELSE "list"
           r == [[call[a] EXCEPT !.todo = rest] EXCEPT !.at = s]
<1>1. rest \in SUBSET Ids
    BY DEF SemTypeOK, Callable
<1>2. s \in Places /\ call \in [Actors -> Callable]
    BY DEF SemTypeOK, Places, Steps, ReembedSteps
<1>3. \/ rest = {} /\ ~call[a].full /\ End(a, "ok")
      \/ (rest # {} \/ call[a].full) /\ call' = [call EXCEPT ![a] = r]
    BY DEF UpdateChunk
<1> HIDE DEF rest, s
<1>4. IsCall(r, s, call[a].vec, call[a].target, rest, call[a].full,
             call[a].seen, call[a].index)
    BY <1>1, <1>2, SetFields
<1> HIDE DEF r
<1>5. ASSUME call' = [call EXCEPT ![a] = r]
      PROVE  Turns(a, s, call[a].vec, call[a].target, rest, call[a].full,
                   call[a].seen, call[a].index)
    BY <1>2, <1>4, <1>5, Becoming DEF Turns, Becomes, IsCall
<1> QED BY <1>3, <1>5 DEF rest, s

(* A query either scans or reads the name and the fingerprint. *)
LEMMA ResolveTurns ==
    ASSUME SemTypeOK, NEW a \in Actors, Resolve(a)
    PROVE  \/ Turns(a, "cache", call[a].vec, call[a].target, call[a].todo,
                    call[a].full, Fingerprint(name), call[a].index)
           \/ Turns(a, "brute_embed", call[a].vec, call[a].target, call[a].todo,
                    call[a].full, call[a].seen, call[a].index)
<1> DEFINE n == Fingerprint(name)
           r == [[call[a] EXCEPT !.at = "cache"] EXCEPT !.seen = n]
<1>1. n \in Fingerprints
    BY Corpora DEF SemTypeOK
<1>2. {"cache", "brute_embed"} \subseteq Places /\ call \in [Actors -> Callable]
    BY DEF SemTypeOK, Places, Steps, QuerySteps
<1>3. call' = [call EXCEPT ![a] = r] \/ Goto(a, "brute_embed")
    BY DEF Resolve
<1> HIDE DEF n
<1>4. IsCall(r, "cache", call[a].vec, call[a].target, call[a].todo, call[a].full,
             n, call[a].index)
    BY <1>1, <1>2, SetFields
<1> HIDE DEF r
<1>5. ASSUME call' = [call EXCEPT ![a] = r]
      PROVE  Turns(a, "cache", call[a].vec, call[a].target, call[a].todo,
                   call[a].full, n, call[a].index)
    BY <1>2, <1>4, <1>5, Becoming DEF Turns, Becomes, IsCall
<1> QED BY <1>2, <1>3, <1>5, Going DEF n

(* It takes the index of the cache, whichever that is afterwards. *)
LEMMA CacheTurns ==
    ASSUME SemTypeOK, NEW a \in Actors, UseCache(a), cache'.index \in SUBSET Vectors
    PROVE  Turns(a, IF cache'.index = {} THEN "brute_embed" ELSE "ann_embed",
                 call[a].vec, call[a].target, call[a].todo, call[a].full,
                 call[a].seen, cache'.index)
<1> DEFINE i == cache'.index
           s == IF i = {} THEN "brute_embed" ELSE "ann_embed"
           r == [[call[a] EXCEPT !.at = s] EXCEPT !.index = i]
<1>1. s \in Places /\ call \in [Actors -> Callable]
    BY DEF SemTypeOK, Places, Steps, QuerySteps
<1>2. call' = [call EXCEPT ![a] = r]
    BY DEF UseCache
<1>3. i \in SUBSET Vectors
    OBVIOUS
<1> HIDE DEF i, s
<1>4. IsCall(r, s, call[a].vec, call[a].target, call[a].todo, call[a].full,
             call[a].seen, i)
    BY <1>1, <1>3, SetFields
<1> HIDE DEF r
<1>5. Turns(a, s, call[a].vec, call[a].target, call[a].todo, call[a].full,
            call[a].seen, i)
    BY <1>1, <1>2, <1>4, Becoming DEF Turns, Becomes, IsCall
<1> QED BY <1>5 DEF i, s

(* A scan takes the vectors of the table under the name of now. *)
LEMMA ScanTurns ==
    ASSUME SemTypeOK, NEW a \in Actors, Scan(a)
    PROVE  Turns(a, "search", call[a].vec, call[a].target, call[a].todo, call[a].full,
                 call[a].seen, Corpus(name))
<1> DEFINE i == Corpus(name)
           r == [[call[a] EXCEPT !.at = "search"] EXCEPT !.index = i]
<1>1. i \in SUBSET Vectors
    BY Corpora DEF SemTypeOK
<1>2. "search" \in Places /\ call \in [Actors -> Callable]
    BY DEF SemTypeOK, Places, Steps, QuerySteps
<1>3. call' = [call EXCEPT ![a] = r]
    BY DEF Scan
<1> HIDE DEF i
<1>4. IsCall(r, "search", call[a].vec, call[a].target, call[a].todo, call[a].full,
             call[a].seen, i)
    BY <1>1, <1>2, SetFields
<1> HIDE DEF r
<1>5. Turns(a, "search", call[a].vec, call[a].target, call[a].todo, call[a].full,
            call[a].seen, i)
    BY <1>2, <1>3, <1>4, Becoming DEF Turns, Becomes, IsCall
<1> QED BY <1>5 DEF i

(* A call that starts, and one that a thread comes back from. *)
LEMMA Starting ==
    ASSUME SemTypeOK, NEW a \in Actors, NEW what, NEW s \in Steps,
           NEW c \in 0..MaxChunks, NEW m \in Models \cup {"none"},
           Start(a, what, s, c, m)
    PROVE  Turns(a, s, 0, m, {}, FALSE, NoFingerprint, {})
<1> DEFINE r == Call(s, c, m)
<1>1. NoFingerprint \in Fingerprints /\ call \in [Actors -> Callable]
    BY SemanticAssumption DEF NoFingerprint, Fingerprints, SemTypeOK
<1>2. IsCall(r, s, 0, m, {}, FALSE, NoFingerprint, {})
    BY <1>1, SemanticAssumption DEF Call, Callable, Spaces, IsCall
<1>3. call' = [call EXCEPT ![a] = r]
    BY DEF Start
<1> HIDE DEF r
<1> QED BY <1>1, <1>2, <1>3, Becoming DEF Turns, Becomes, IsCall

(* What a thread is in when it is in no call. *)
LEMMA Idle ==
    /\ NoCall \in Callable
    /\ NoCall.at = "idle" /\ NoCall.target = "none"
<1>1. NoFingerprint \in Fingerprints
    BY SemanticAssumption DEF NoFingerprint, Fingerprints
<1> QED BY <1>1, SemanticAssumption DEF NoCall, Call, Callable, Spaces

(* A call that returned is idle. *)
LEMMA Returning ==
    ASSUME SemTypeOK, NEW a \in Actors, Return(a)
    PROVE  Becomes(a, NoCall)
BY Idle, Becoming DEF SemTypeOK, Return

(* t is a step of every call that s is a step of. *)
SameCall(s, t) == \A what \in CallNames : s \in StepsOf(what) => t \in StepsOf(what)

(* A call that goes on with one of its own steps, or ends, stays in order. *)
LEMMA StaysOK ==
    ASSUME CallsOK, NEW a \in Actors, up' = up,
           \A b \in Actors \ {a} : call'[b] = call[b],
           call[a].at \in Steps, call'[a].target = call[a].target,
           \/ call'[a].at \in {"ok", "err"}
           \/ /\ call'[a].at \in Steps /\ SameCall(call[a].at, call'[a].at)
              /\ call'[a].at \in Installing => call'[a].vec \in 1..MaxTrainings
              /\ call'[a].at \in {"texts", "update"} => call'[a].todo # {}
    PROVE  CallsOK'
<1>1. "idle" \notin Steps /\ {"ok", "err"} \cap (Steps \cup Installing) = {}
      /\ {"ok", "err"} \cap {"idle", "texts", "update"} = {}
      /\ {"ok", "err"} \cap ReembedSteps = {}
    BY DEF Steps, IngestSteps, TrainSteps, ReembedSteps, QuerySteps, Installing,
           SavingSteps
<1>2. CallOK(a)
    BY DEF CallsOK
<1>3. CallOK(a)'
    <2>1. Calls[a] \subseteq CallNames
        BY SemanticAssumption
    <2>2. call[a].target # "none" /\ call'[a].at \in Steps => call'[a].at \in ReembedSteps
        <3>1. call[a].target # "none" => call[a].at \in StepsOf("reembed")
            BY <1>1, <1>2 DEF CallOK, StepsOf
        <3>2. StepsOf("reembed") = ReembedSteps /\ "reembed" \in CallNames
            BY DEF StepsOf, CallNames
        <3> HIDE DEF StepsOf
        <3> QED BY <1>1, <3>1, <3>2 DEF SameCall
    <2>3. CASE call'[a].at \in {"ok", "err"}
        BY <1>1, <1>2, <2>3 DEF CallOK
    <2>4. CASE call'[a].at \notin {"ok", "err"}
        <3>1. \E what \in Calls[a] : call'[a].at \in StepsOf(what)
            BY <1>2, <2>1, <2>4 DEF CallOK, SameCall
        <3> HIDE DEF StepsOf, SameCall
        <3> QED BY <1>1, <1>2, <2>2, <2>4, <3>1 DEF CallOK
    <2> QED BY <2>3, <2>4
<1>4. ASSUME NEW b \in Actors \ {a} PROVE CallOK(b)'
    BY <1>4 DEF CallsOK, CallOK
<1> QED BY <1>3, <1>4 DEF CallsOK

(* The places of the calls, and which follow which in one call. *)
LEMMA Stages ==
    /\ SameCall("embed", "insert") /\ SameCall("insert", "label")
    /\ SameCall("count", "clear_terms") /\ SameCall("clear_terms", "save_terms")
    /\ SameCall("save_terms", "save_rest") /\ SameCall("save_rest", "save_dim")
    /\ SameCall("save_dim", "meta_model") /\ SameCall("meta_model", "meta_dim")
    /\ SameCall("meta_dim", "install_name")
    /\ SameCall("install_name", "install_model")
    /\ SameCall("list", "texts") /\ SameCall("texts", "update")
    /\ SameCall("update", "update") /\ SameCall("update", "list")
    /\ SameCall("resolve", "cache") /\ SameCall("resolve", "brute_embed")
    /\ SameCall("cache", "brute_embed") /\ SameCall("cache", "ann_embed")
    /\ SameCall("ann_embed", "search") /\ SameCall("brute_embed", "scan")
    /\ SameCall("scan", "search")
BY DEF SameCall, CallNames, StepsOf, IngestSteps, TrainSteps, ReembedSteps, QuerySteps

(* What is done to the call when one of its steps ends it. *)
LEMMA EndsOK ==
    ASSUME SemTypeOK, CallsOK, NEW a \in Actors, call[a].at \in Steps, up' = up,
           End(a, "ok") \/ End(a, "err")
    PROVE  call' \in [Actors -> Callable] /\ CallsOK'
<1>1. call \in [Actors -> Callable] /\ {"ok", "err"} \subseteq Places
    BY DEF SemTypeOK, Places
<1>2. PICK s \in {"ok", "err"} :
         Becomes(a, Call(s, 0, call[a].target)) /\ call'[a].at = s
         /\ call'[a].target = call[a].target
    BY <1>1, Ending
<1> QED BY <1>2, StaysOK DEF Becomes

(* ... and when it goes on. *)
LEMMA TurnsOK ==
    ASSUME SemTypeOK, CallsOK, NEW a \in Actors, up' = up,
           NEW STATE s, NEW STATE v, NEW STATE d, NEW STATE f, NEW STATE n, NEW STATE i,
           call[a].at \in Steps, s \in Steps, SameCall(call[a].at, s),
           Turns(a, s, v, call[a].target, d, f, n, i),
           s \in Installing => v \in 1..MaxTrainings,
           s \in {"texts", "update"} => d # {}
    PROVE  call' \in [Actors -> Callable] /\ CallsOK'
<1>1. /\ call' \in [Actors -> Callable] /\ \A b \in Actors \ {a} : call'[b] = call[b]
      /\ call'[a].at = s /\ call'[a].vec = v /\ call'[a].target = call[a].target
      /\ call'[a].todo = d
    BY DEF Turns, IsCall
<1>2. SameCall(call[a].at, call'[a].at)
    BY <1>1
<1> QED BY <1>1, <1>2, StaysOK

(* The steps of the ingestion and of the deletion. *)
LEMMA StoreTyping ==
    ASSUME SemTypeOK, CallsOK, NEW a \in Actors,
           Embed(a) \/ InsertChunk(a) \/ LabelChunk(a) \/ DeleteChunk(a)
    PROVE  SemTypeOK' /\ CallsOK'
<1> USE DEF Steps, IngestSteps
<1>0. call \in [Actors -> Callable]
    BY DEF SemTypeOK
<1>1. CASE Embed(a)
    <2>1. Turns(a, "insert", model, call[a].target, call[a].todo, call[a].full,
                call[a].seen, call[a].index)
        BY <1>0, <1>1, GoingWith DEF Embed, SemTypeOK, Places
    <2>2. call' \in [Actors -> Callable] /\ CallsOK'
        BY <1>1, <2>1, TurnsOK, Stages
           DEF Embed, At, memVars, Installing, SavingSteps, TrainSteps
    <2> QED BY <1>1, <2>2 DEF Embed, SemTypeOK, chunkVars, diskVars, memVars
<1>2. CASE InsertChunk(a)
    <2>1. Turns(a, "label", call[a].vec, call[a].target, call[a].todo, call[a].full,
                call[a].seen, call[a].index)
        BY <1>2, InsertTurns
    <2>2. call' \in [Actors -> Callable] /\ CallsOK'
        BY <1>2, <2>1, TurnsOK, Stages
           DEF InsertChunk, At, memVars, Installing, SavingSteps, TrainSteps
    <2>3. lastId + 1 \in Ids /\ call[a].vec \in Spaces
        BY <1>0, <1>2, SemanticAssumption DEF InsertChunk, SemTypeOK, Ids, Callable
    <2>4. /\ rows' \subseteq Ids /\ lastId' \in 0..MaxChunks
          /\ label' \in [Ids -> Models \cup {"none"}]
          /\ space' \in [Ids -> Spaces]
        BY <1>2, <2>3, SemanticAssumption DEF InsertChunk, SemTypeOK, Ids
    <2> QED BY <1>2, <2>2, <2>4 DEF InsertChunk, SemTypeOK, diskVars, memVars
<1>3. CASE LabelChunk(a)
    <2>1. call' \in [Actors -> Callable] /\ CallsOK'
        BY <1>3, EndsOK DEF LabelChunk, At, memVars
    <2>2. call[a].vec \in Spaces
        BY <1>0 DEF Callable
    <2>3. /\ label' \in [Ids -> Models \cup {"none"}]
          /\ space' \in [Ids -> Spaces]
        BY <1>3, <2>2 DEF LabelChunk, WriteVector, SemTypeOK
    <2> QED BY <1>3, <2>1, <2>3 DEF LabelChunk, SemTypeOK, diskVars, memVars
<1>4. CASE DeleteChunk(a)
    <2>1. call' \in [Actors -> Callable] /\ CallsOK'
        BY <1>4, EndsOK DEF DeleteChunk, At, memVars
    <2>2. /\ rows' \subseteq Ids
          /\ label' \in [Ids -> Models \cup {"none"}]
          /\ space' \in [Ids -> Spaces]
        <3>1. 0 \in Spaces
            BY SemanticAssumption DEF Spaces
        <3>2. label' \in [Ids -> Models \cup {"none"}]
            BY <1>4 DEF DeleteChunk, SemTypeOK
        <3>3. space' \in [Ids -> Spaces]
            BY <1>4, <3>1 DEF DeleteChunk, SemTypeOK
        <3>4. rows' \subseteq Ids
            BY <1>4 DEF DeleteChunk, SemTypeOK
        <3> QED BY <3>2, <3>3, <3>4
    <2> QED BY <1>4, <2>1, <2>2 DEF DeleteChunk, SemTypeOK, diskVars, memVars
<1> QED BY <1>1, <1>2, <1>3, <1>4

(* The steps of a training. *)
LEMMA TrainTyping ==
    ASSUME SemTypeOK, CallsOK, NEW a \in Actors,
           \/ CountAndTrain(a) \/ ClearTerms(a) \/ SaveTerms(a) \/ SaveRest(a)
           \/ SaveDim(a) \/ RecordModel(a) \/ RecordDim(a)
           \/ InstallName(a) \/ InstallModel(a)
    PROVE  SemTypeOK' /\ CallsOK'
<1> USE DEF Steps, TrainSteps
<1>0. call \in [Actors -> Callable] /\ CallOK(a)
    BY DEF SemTypeOK, CallsOK
<1>1. CASE CountAndTrain(a)
    <2>1. CASE End(a, "ok") /\ UNCHANGED trained
        <3>1. call' \in [Actors -> Callable] /\ CallsOK'
            BY <1>1, <2>1, EndsOK DEF CountAndTrain, At, memVars
        <3> QED BY <1>1, <2>1, <3>1 DEF CountAndTrain, SemTypeOK, chunkVars, memVars
    <2>2. CASE /\ trained < MaxTrainings /\ trained' = trained + 1
               /\ call' = [call EXCEPT ![a].at = "clear_terms", ![a].vec = trained + 1]
        <3>1. trained + 1 \in 1..MaxTrainings /\ trained + 1 \in Spaces
              /\ "clear_terms" \in Places
            BY <2>2, SemanticAssumption DEF SemTypeOK, Spaces, Places
        <3>2. PICK v \in Spaces : v = trained + 1
            BY <3>1
        <3>3. Turns(a, "clear_terms", v, call[a].target, call[a].todo, call[a].full,
                    call[a].seen, call[a].index)
            BY <1>0, <2>2, <3>1, <3>2, GoingWith
        <3>4. call' \in [Actors -> Callable] /\ CallsOK'
            BY <1>1, <3>1, <3>2, <3>3, TurnsOK, Stages DEF CountAndTrain, At, memVars
        <3>5. trained' \in 0..MaxTrainings
            BY <2>2, <3>1
        <3> QED BY <1>1, <3>4, <3>5 DEF CountAndTrain, SemTypeOK, chunkVars, memVars
    <2> QED BY <1>1, <2>1, <2>2 DEF CountAndTrain
<1>2. ASSUME NEW s \in Installing, NEW t \in Installing, TrainStep(a, s, t),
             SameCall(s, t)
      PROVE  call' \in [Actors -> Callable] /\ CallsOK'
    <2>1. call[a].at = s /\ call[a].vec \in 1..MaxTrainings /\ up' = up
          /\ s \in Steps /\ t \in Steps /\ t \in Places /\ Goto(a, t)
          /\ t \notin {"texts", "update"}
        BY <1>0, <1>2 DEF TrainStep, At, CallOK, Installing, SavingSteps, Places
    <2>2. Turns(a, t, call[a].vec, call[a].target, call[a].todo, call[a].full,
                call[a].seen, call[a].index)
        BY <1>0, <2>1, Going
    <2> HIDE DEF Steps
    <2> QED BY <1>2, <2>1, <2>2, TurnsOK
<1>3. {"clear_terms", "save_terms", "save_rest", "save_dim", "meta_model", "meta_dim",
       "install_name", "install_model"} \subseteq Installing
    BY DEF Installing, SavingSteps
<1>4. call[a].at \in Installing => Truncated(call[a].vec) \in Spaces /\ call[a].vec \in Spaces
    BY <1>0, SemanticAssumption DEF CallOK, Truncated, Spaces
<1>5. CASE ClearTerms(a)
    <2>1. call' \in [Actors -> Callable] /\ CallsOK'
        BY <1>2, <1>3, <1>5, Stages DEF ClearTerms
    <2> QED BY <1>5, <2>1, SemanticAssumption
            DEF ClearTerms, TrainStep, SemTypeOK, chunkVars, Spaces
<1>6. CASE SaveTerms(a)
    <2>1. call' \in [Actors -> Callable] /\ CallsOK'
        BY <1>2, <1>3, <1>6, Stages DEF SaveTerms
    <2> QED BY <1>3, <1>4, <1>6, <2>1 DEF SaveTerms, TrainStep, At, SemTypeOK, chunkVars
<1>7. CASE SaveRest(a)
    <2>1. call' \in [Actors -> Callable] /\ CallsOK'
        BY <1>2, <1>3, <1>7, Stages DEF SaveRest
    <2> QED BY <1>3, <1>4, <1>7, <2>1 DEF SaveRest, TrainStep, At, SemTypeOK, chunkVars
<1>8. CASE SaveDim(a)
    <2>1. call' \in [Actors -> Callable] /\ CallsOK'
        BY <1>2, <1>3, <1>8, Stages DEF SaveDim
    <2> QED BY <1>8, <2>1 DEF SaveDim, TrainStep, SemTypeOK, chunkVars
<1>9. CASE RecordModel(a)
    <2>1. call' \in [Actors -> Callable] /\ CallsOK'
        BY <1>2, <1>3, <1>9, Stages DEF RecordModel
    <2> QED BY <1>9, <2>1 DEF RecordModel, TrainStep, SemTypeOK, chunkVars, Models
<1>10. CASE RecordDim(a)
    <2>1. call' \in [Actors -> Callable] /\ CallsOK'
        BY <1>2, <1>3, <1>10, Stages DEF RecordDim
    <2> QED BY <1>10, <2>1 DEF RecordDim, TrainStep, SemTypeOK, chunkVars, Models
<1>11. CASE InstallName(a)
    <2>1. call' \in [Actors -> Callable] /\ CallsOK'
        BY <1>2, <1>3, <1>11, Stages DEF InstallName
    <2> QED BY <1>11, <2>1 DEF InstallName, TrainStep, SemTypeOK, chunkVars, diskVars, Models
<1>12. CASE InstallModel(a)
    <2>1. call' \in [Actors -> Callable] /\ CallsOK'
        BY <1>12, EndsOK DEF InstallModel, At
    <2> QED BY <1>3, <1>4, <1>12, <2>1
            DEF InstallModel, At, SemTypeOK, chunkVars, diskVars
<1> QED BY <1>1, <1>5, <1>6, <1>7, <1>8, <1>9, <1>10, <1>11, <1>12

(* The steps of a re-embedding. *)
LEMMA ReembedTyping ==
    ASSUME SemTypeOK, CallsOK, NEW a \in Actors, ReembedStep(a)
    PROVE  SemTypeOK' /\ CallsOK'
<1> USE DEF Steps, ReembedSteps
<1>0. call \in [Actors -> Callable] /\ CallOK(a)
    BY DEF SemTypeOK, CallsOK
<1>1. {"list", "texts", "update"} \cap Installing = {}
    BY DEF Installing, SavingSteps, TrainSteps
<1>2. CASE ListStale(a)
    <2> DEFINE batch == FirstOf(Stale(call[a].target), Batch)
    <2>1. call[a].at = "list" /\ up' = up
        BY <1>2 DEF ListStale, At, memVars
    <2>2. CASE End(a, "ok")
        <3>1. call' \in [Actors -> Callable] /\ CallsOK'
            BY <2>1, <2>2, EndsOK
        <3> QED BY <1>2, <3>1 DEF ListStale, SemTypeOK, chunkVars, diskVars, memVars
    <2>3. CASE /\ batch # {}
               /\ Turns(a, "texts", call[a].vec, call[a].target, batch,
                        Cardinality(batch) = Batch, call[a].seen, call[a].index)
        <3> HIDE DEF batch
        <3>1. call' \in [Actors -> Callable] /\ CallsOK'
            BY <1>1, <2>1, <2>3, TurnsOK, Stages
        <3> QED BY <1>2, <3>1 DEF ListStale, SemTypeOK, chunkVars, diskVars, memVars
    <2> QED BY <1>2, <2>2, <2>3, ListTurns
<1>3. CASE ReadTexts(a)
    <2>1. call[a].at = "texts" /\ up' = up /\ call[a].todo # {}
        BY <1>0, <1>3 DEF ReadTexts, At, memVars, CallOK
    <2>2. CASE End(a, "err")
        <3>1. call' \in [Actors -> Callable] /\ CallsOK'
            BY <2>1, <2>2, EndsOK
        <3> QED BY <1>3, <3>1 DEF ReadTexts, SemTypeOK, chunkVars, diskVars, memVars
    <2>3. CASE call' = [call EXCEPT ![a].at = "update", ![a].vec = model]
        <3>1. Turns(a, "update", model, call[a].target, call[a].todo, call[a].full,
                    call[a].seen, call[a].index)
            BY <1>0, <2>3, GoingWith DEF SemTypeOK, Places
        <3>2. call' \in [Actors -> Callable] /\ CallsOK'
            BY <1>1, <2>1, <3>1, TurnsOK, Stages
        <3> QED BY <1>3, <3>2 DEF ReadTexts, SemTypeOK, chunkVars, diskVars, memVars
    <2> QED BY <1>3, <2>2, <2>3 DEF ReadTexts
<1>4. CASE UpdateChunk(a)
    <2> DEFINE rest == call[a].todo \ {Min(call[a].todo)}
               s == IF rest # {} THEN "update" ELSE "list"
    <2>1. call[a].at = "update" /\ up' = up
        BY <1>4 DEF UpdateChunk, At, memVars
    <2>2. call' \in [Actors -> Callable] /\ CallsOK'
        <3>1. CASE End(a, "ok")
            BY <2>1, <3>1, EndsOK
        <3>2. CASE Turns(a, s, call[a].vec, call[a].target, rest, call[a].full,
                         call[a].seen, call[a].index)
            <4>1. s \in Steps /\ SameCall(call[a].at, s) /\ s \notin Installing
                  /\ (s \in {"texts", "update"} => rest # {})
                BY <1>1, <2>1, Stages
            <4> HIDE DEF rest, s, Steps
            <4>2. call[a].at \in Steps
                BY <2>1 DEF Steps
            <4> QED BY <2>1, <3>2, <4>1, <4>2, TurnsOK
        <3> QED BY <1>4, <3>1, <3>2, UpdateTurns
    <2>3. call[a].vec \in Spaces
        BY <1>0 DEF Callable
    <2>4. label' \in [Ids -> Models \cup {"none"}] /\ space' \in [Ids -> Spaces]
        BY <1>4, <2>3 DEF UpdateChunk, WriteVector, SemTypeOK
    <2> QED BY <1>4, <2>2, <2>4 DEF UpdateChunk, SemTypeOK, diskVars, memVars
<1> QED BY <1>2, <1>3, <1>4 DEF ReembedStep

(* The steps of a query. *)
LEMMA QueryTyping ==
    ASSUME SemTypeOK, CallsOK, NEW a \in Actors,
           Resolve(a) \/ UseCache(a) \/ EmbedQuery(a) \/ Scan(a) \/ Search(a)
    PROVE  SemTypeOK' /\ CallsOK'
<1> USE DEF Steps, QuerySteps
<1>0. call \in [Actors -> Callable]
    BY DEF SemTypeOK
<1>1. QuerySteps \cap (Installing \cup {"texts", "update"}) = {}
    BY DEF Installing, SavingSteps, TrainSteps
<1>2. CASE Resolve(a)
    <2>1. call[a].at = "resolve" /\ up' = up
        BY <1>2 DEF Resolve, At, memVars
    <2>2. call' \in [Actors -> Callable] /\ CallsOK'
        BY <1>1, <1>2, <2>1, ResolveTurns, TurnsOK, Stages
    <2> QED BY <1>2, <2>2 DEF Resolve, SemTypeOK, chunkVars, diskVars, memVars
<1>3. CASE UseCache(a)
    <2>1. call[a].at = "cache" /\ up' = up
        BY <1>3 DEF UseCache, At
    <2>2. call[a].seen \in Fingerprints
        BY <1>0 DEF Callable
    <2>3. Corpus(call[a].seen.model) \in SUBSET Vectors
        BY DEF Corpus, Labelled, Vectors, SemTypeOK
    <2>4. cache' \in [of : Fingerprints, index : SUBSET Vectors]
        BY <1>3, <2>2, <2>3 DEF UseCache, SemTypeOK
    <2>5. cache'.index \in SUBSET Vectors
        BY <2>4
    <2>6. call' \in [Actors -> Callable] /\ CallsOK'
        BY <1>1, <1>3, <2>1, <2>5, CacheTurns, TurnsOK, Stages
    <2> QED BY <1>3, <2>4, <2>6 DEF UseCache, SemTypeOK, chunkVars, diskVars
<1>4. CASE EmbedQuery(a)
    <2> DEFINE s == IF call[a].at = "ann_embed" THEN "search" ELSE "scan"
    <2>1. call[a].at \in {"ann_embed", "brute_embed"} /\ up' = up
        BY <1>4 DEF EmbedQuery, memVars
    <2>2. s \in Steps /\ s \in Places /\ SameCall(call[a].at, s)
          /\ s \notin Installing /\ s \notin {"texts", "update"}
        BY <1>1, <2>1, Stages DEF Places
    <2>3. call' = [call EXCEPT ![a].vec = model, ![a].at = s]
        BY <1>4 DEF EmbedQuery
    <2>4. model \in Spaces
        BY DEF SemTypeOK
    <2> HIDE DEF s, Steps
    <2>5. PICK p \in Places, v \in Spaces : p = s /\ v = model
        BY <2>2, <2>4
    <2>6. Turns(a, p, v, call[a].target, call[a].todo, call[a].full,
                call[a].seen, call[a].index)
        BY <1>0, <2>3, <2>5, GoingWith
    <2>7. call[a].at \in Steps
        BY <2>1 DEF Steps
    <2>8. call' \in [Actors -> Callable] /\ CallsOK'
        BY <2>1, <2>2, <2>5, <2>6, <2>7, TurnsOK
    <2> QED BY <1>4, <2>8 DEF EmbedQuery, SemTypeOK, chunkVars, diskVars, memVars
<1>5. CASE Scan(a)
    <2>1. call[a].at = "scan" /\ up' = up
        BY <1>5 DEF Scan, At, memVars
    <2>2. call' \in [Actors -> Callable] /\ CallsOK'
        BY <1>1, <1>5, <2>1, ScanTurns, TurnsOK, Stages
    <2> QED BY <1>5, <2>2 DEF Scan, SemTypeOK, chunkVars, diskVars, memVars
<1>6. CASE Search(a)
    <2>1. call' \in [Actors -> Callable] /\ CallsOK'
        BY <1>6, EndsOK DEF Search, At, memVars
    <2> QED BY <1>6, <2>1 DEF Search, SemTypeOK, chunkVars, diskVars, memVars
<1> QED BY <1>2, <1>3, <1>4, <1>5, <1>6

(* The start of a call: what StartCall does in each of its cases. *)
LEMMA Starts ==
    ASSUME SemTypeOK, NEW a \in Actors, StartCall(a)
    PROVE  \E what \in Calls[a], s \in Steps, m \in Models \cup {"none"} :
              /\ s \in StepsOf(what) /\ s \in {"embed", "delete", "count", "list", "resolve"}
              /\ m # "none" => what = "reembed"
              /\ up /\ call[a].at = "idle"
              /\ Turns(a, s, 0, m, {}, FALSE, NoFingerprint, {})
              /\ UNCHANGED <<chunkVars, diskVars, memVars, torn>>
<1> USE DEF Steps, IngestSteps, TrainSteps, ReembedSteps, QuerySteps
<1>1. 0 \in 0..MaxChunks /\ \A c \in rows : c \in 0..MaxChunks
    BY SemanticAssumption DEF SemTypeOK, Ids
<1>2. ASSUME NEW what \in CallNames, NEW s \in Steps, NEW c \in 0..MaxChunks,
             NEW m \in Models \cup {"none"}, Start(a, what, s, c, m)
      PROVE  /\ Turns(a, s, 0, m, {}, FALSE, NoFingerprint, {})
             /\ what \in Calls[a] /\ up /\ call[a].at = "idle"
             /\ UNCHANGED <<chunkVars, diskVars, memVars, torn>>
    BY <1>2, Starting DEF Start, At
<1>3. {"embed", "delete", "count", "list", "resolve"} \subseteq Steps
    OBVIOUS
<1>4. CASE Start(a, "ingest", "embed", 0, "none")
    BY <1>1, <1>2, <1>3, <1>4 DEF CallNames, StepsOf
<1>5. CASE \E c \in rows : Start(a, "delete", "delete", c, "none")
    BY <1>1, <1>2, <1>3, <1>5 DEF CallNames, StepsOf
<1>6. CASE Start(a, "train", "count", 0, "none")
    BY <1>1, <1>2, <1>3, <1>6 DEF CallNames, StepsOf
<1>7. CASE \E m \in Models : Start(a, "reembed", "list", 0, m)
    BY <1>1, <1>2, <1>3, <1>7 DEF CallNames, StepsOf
<1>8. CASE Start(a, "query", "resolve", 0, "none")
    BY <1>1, <1>2, <1>3, <1>8 DEF CallNames, StepsOf
<1> QED BY <1>4, <1>5, <1>6, <1>7, <1>8 DEF StartCall

(* A call that starts is well typed. *)
LEMMA StartTyping ==
    ASSUME SemTypeOK, CallsOK, NEW a \in Actors, StartCall(a)
    PROVE  SemTypeOK' /\ CallsOK'
<1>1. PICK what \in Calls[a], s \in Steps, m \in Models \cup {"none"} :
         /\ s \in StepsOf(what) /\ s \in {"embed", "delete", "count", "list", "resolve"}
         /\ m # "none" => what = "reembed"
         /\ up /\ call[a].at = "idle"
         /\ Turns(a, s, 0, m, {}, FALSE, NoFingerprint, {})
         /\ UNCHANGED <<chunkVars, diskVars, memVars, torn>>
    BY Starts
<1>2. /\ call' \in [Actors -> Callable] /\ \A b \in Actors \ {a} : call'[b] = call[b]
      /\ call'[a].at = s /\ call'[a].target = m
    BY <1>1 DEF Turns, IsCall
<1>3. CallOK(a)'
    <2>1. s \notin Installing /\ s \notin {"texts", "update"}
        BY <1>1 DEF Installing, SavingSteps, TrainSteps
    <2>2. what = "reembed" => s \in ReembedSteps
        BY <1>1 DEF StepsOf
    <2>3. up' = up
        BY <1>1 DEF memVars
    <2> HIDE DEF StepsOf
    <2> QED BY <1>1, <1>2, <2>1, <2>2, <2>3 DEF CallOK
<1>4. ASSUME NEW b \in Actors \ {a} PROVE CallOK(b)'
    BY <1>1, <1>2, <1>4 DEF CallsOK, CallOK, memVars
<1> QED BY <1>1, <1>2, <1>3, <1>4 DEF SemTypeOK, CallsOK, chunkVars, diskVars, memVars

(* The end of a call, with or without a result. *)
LEMMA EndTyping ==
    ASSUME SemTypeOK, CallsOK, NEW a \in Actors, Fault(a) \/ Return(a)
    PROVE  SemTypeOK' /\ CallsOK'
<1>1. CASE Fault(a)
    <2>1. call' \in [Actors -> Callable] /\ CallsOK'
        BY <1>1, EndsOK DEF Fault, memVars
    <2>2. torn' \in BOOLEAN
        BY <1>1 DEF Fault, Saving, SemTypeOK
    <2> QED BY <1>1, <2>1, <2>2 DEF Fault, SemTypeOK, chunkVars, diskVars, memVars
<1>2. CASE Return(a)
    <2>1. /\ call' \in [Actors -> Callable] /\ \A b \in Actors \ {a} : call'[b] = call[b]
          /\ call'[a].at = "idle" /\ call'[a].target = "none"
        BY <1>2, Returning, Idle DEF Becomes
    <2>2. "idle" \notin Steps \cup Installing \cup {"texts", "update"}
        BY DEF Steps, IngestSteps, TrainSteps, ReembedSteps, QuerySteps, Installing,
               SavingSteps
    <2>3. CallsOK'
        BY <1>2, <2>1, <2>2 DEF Return, CallsOK, CallOK, memVars
    <2> QED BY <1>2, <2>1, <2>3 DEF Return, SemTypeOK, chunkVars, diskVars, memVars
<1> QED BY <1>1, <1>2

(* The life of the engine. *)
LEMMA LifeTyping ==
    ASSUME SemTypeOK, CallsOK, Open \/ Stop
    PROVE  SemTypeOK' /\ CallsOK'
<1>1. NoCache \in [of : Fingerprints, index : SUBSET Vectors] /\ 0 \in Spaces
    BY SemanticAssumption DEF NoCache, NoFingerprint, Fingerprints, Spaces
<1>2. CASE Open
    <2>1. /\ meta' \in [model : Models \cup {"none"}, dim : Models \cup {"none"},
                       lsaDim : BOOLEAN]
          /\ name' \in Models /\ model' \in Spaces
        <3>1. ActiveModel \in Models /\ Loaded \in Spaces
            BY <1>1 DEF ActiveModel, Loaded, Models, SemTypeOK
        <3>2. {"hash", "lsa"} = Models
            BY DEF Models
        <3>3. CASE meta.model = "none"
            <4> DEFINE M == [model : Models \cup {"none"}, dim : Models \cup {"none"},
                            lsaDim : BOOLEAN]
                       p == [meta EXCEPT !.model = "hash"]
            <4>1. p \in M
                BY <3>2 DEF SemTypeOK
            <4>2. meta' = [p EXCEPT !.dim = "hash"] /\ name' = "hash" /\ model' = 0
                BY <1>2, <3>3 DEF Open
            <4> HIDE DEF p
            <4>3. meta' \in M
                BY <3>2, <4>1, <4>2
            <4> QED BY <1>1, <3>2, <4>2, <4>3
        <3>4. CASE meta.model # "none"
            BY <1>2, <3>1, <3>4 DEF Open, SemTypeOK
        <3> QED BY <3>3, <3>4
    <2>2. CallsOK'
        BY <1>2 DEF Open, CallsOK, CallOK
    <2> QED BY <1>1, <1>2, <2>1, <2>2 DEF Open, SemTypeOK, chunkVars
<1>3. CASE Stop
    <2>1. call' \in [Actors -> Callable] /\ \A a \in Actors : call'[a] = NoCall
        BY <1>3, Idle DEF Stop
    <2>2. "idle" \notin Steps \cup Installing \cup {"texts", "update"}
        BY DEF Steps, IngestSteps, TrainSteps, ReembedSteps, QuerySteps, Installing,
               SavingSteps
    <2>3. CallsOK'
        BY <2>1, <2>2, Idle DEF CallsOK, CallOK
    <2>4. torn' \in BOOLEAN
        BY <1>3 DEF Stop, SemTypeOK
    <2> QED BY <1>3, <2>1, <2>3, <2>4 DEF Stop, SemTypeOK, chunkVars, diskVars
<1> QED BY <1>2, <1>3

(* Every thread's steps, and a step that changes nothing. *)
LEMMA StepTyping ==
    ASSUME SemTypeOK, CallsOK, [SemNext]_mvars
    PROVE  SemTypeOK' /\ CallsOK'
<1>1. CASE UNCHANGED mvars
    BY <1>1 DEF mvars, chunkVars, diskVars, memVars, SemTypeOK, CallsOK, CallOK
<1>2. ASSUME NEW a \in Actors, CallStep(a) PROVE SemTypeOK' /\ CallsOK'
    BY <1>2, StoreTyping, TrainTyping, ReembedTyping, QueryTyping DEF CallStep
<1> QED BY <1>1, <1>2, LifeTyping, StartTyping, EndTyping DEF SemNext

(* The first state is well typed. *)
LEMMA TypedInitially ==
    ASSUME SemInit
    PROVE  SemTypeOK /\ CallsOK
<1>1. NoCache \in [of : Fingerprints, index : SUBSET Vectors] /\ 0 \in Spaces
    BY SemanticAssumption DEF NoCache, NoFingerprint, Fingerprints, Spaces
<1>2. call \in [Actors -> Callable] /\ \A a \in Actors : call[a] = NoCall
    BY Idle DEF SemInit
<1>3. "idle" \notin Steps \cup Installing \cup {"texts", "update"}
    BY DEF Steps, IngestSteps, TrainSteps, ReembedSteps, QuerySteps, Installing,
           SavingSteps
<1>4. CallsOK
    BY <1>2, <1>3, Idle DEF CallsOK, CallOK
<1>5. label \in [Ids -> Models \cup {"none"}] /\ space \in [Ids -> Spaces]
    BY <1>1 DEF SemInit
<1>6. meta \in [model : Models \cup {"none"}, dim : Models \cup {"none"}, lsaDim : BOOLEAN]
    BY DEF SemInit
<1>7. 0 \in 0..MaxChunks /\ 0 \in 0..MaxTrainings
    BY SemanticAssumption
<1>8. "hash" \in Models
    BY DEF Models
<1> QED BY <1>1, <1>2, <1>4, <1>5, <1>6, <1>7, <1>8 DEF SemInit, SemTypeOK

(* Types, and the order of every call, whatever the threads call. *)
THEOREM SemanticTyping == SemSpec => [](SemTypeOK /\ CallsOK)
<1>1. SemTypeOK /\ CallsOK /\ [SemNext]_mvars => (SemTypeOK /\ CallsOK)'
    BY StepTyping
<1> QED BY <1>1, TypedInitially, PTL DEF SemSpec

-----------------------------------------------------------------------------
(* The steps that leave the model alone and at most remove chunks. *)

Quiet ==
    /\ rows' \subseteq rows
    /\ \A c \in rows' : label'[c] = label[c] /\ space'[c] = space[c]
    /\ UNCHANGED <<terms, meta, up, name, model>>

(* They keep the invariant if the writer is where it was, or where nothing *)
(* is asked of it but the vector and the batch it holds.                   *)
LEMMA QuietKeeps ==
    ASSUME NEW w \in Actors, WriterInv(w), Quiet, torn => torn',
           \/ call'[w] = call[w]
           \/ /\ call[w].at # "install_model" /\ call'[w].at # "install_model"
              /\ call'[w].at \notin SavingSteps /\ (Saving(w) => torn')
              /\ call'[w].at \in {"insert", "label", "update"} =>
                    (name = "lsa" <=> call'[w].vec # 0)
              /\ BatchCovers(w)'
    PROVE  InStep(w)'
<1>1. NameFits(w)'
    BY DEF WriterInv, InStep, NameFits, Quiet
<1>2. LabelsTruthful'
    BY DEF WriterInv, InStep, LabelsTruthful, Quiet
<1>3. BatchCovers(w)'
    BY DEF WriterInv, InStep, BatchCovers, Quiet
<1>4. DiskFollows(w)'
    <2>1. {"save_dim", "meta_model", "meta_dim"} \subseteq SavingSteps
        BY DEF SavingSteps, TrainSteps
    <2>2. Openable' <=> Openable
        BY DEF Openable, ActiveModel, Loaded, Quiet
    <2> HIDE DEF SavingSteps
    <2> QED BY <2>1, <2>2 DEF WriterInv, InStep, DiskFollows, Saving, Quiet
<1> QED BY <1>1, <1>2, <1>3, <1>4 DEF InStep

(* The steps a deletion, a query, a start or an end of a call consists of. *)
LEMMA QuietSteps ==
    ASSUME SemTypeOK, NEW a \in Actors,
           \/ StartCall(a) \/ Fault(a) \/ Return(a) \/ DeleteChunk(a)
           \/ Resolve(a) \/ UseCache(a) \/ EmbedQuery(a) \/ Scan(a) \/ Search(a)
    PROVE  /\ Quiet /\ (torn \/ Saving(a) => torn')
           /\ \A b \in Actors \ {a} : call'[b] = call[b]
<1>1. CASE StartCall(a)
    <2>1. /\ UNCHANGED <<chunkVars, diskVars, memVars, torn>> /\ call[a].at = "idle"
          /\ \A b \in Actors \ {a} : call'[b] = call[b]
        BY <1>1, Starts DEF Turns
    <2>2. ~Saving(a)
        BY <2>1 DEF Saving, SavingSteps, TrainSteps
    <2> QED BY <2>1, <2>2 DEF Quiet, chunkVars, diskVars, memVars
<1>2. CASE Fault(a)
    BY <1>2 DEF Fault, Quiet, End, SemTypeOK, chunkVars, diskVars, memVars
<1>3. CASE Return(a)
    <2>1. ~Saving(a)
        BY <1>3 DEF Return, Saving, SavingSteps, TrainSteps
    <2> QED BY <1>3, <2>1 DEF Return, Quiet, SemTypeOK, chunkVars, diskVars, memVars
<1>4. CASE DeleteChunk(a)
    <2>1. ~Saving(a)
        BY <1>4 DEF DeleteChunk, At, Saving, SavingSteps, TrainSteps
    <2>2. \A c \in rows' : c # call[a].chunk /\ c \in Ids
        BY <1>4 DEF DeleteChunk, SemTypeOK
    <2> QED BY <1>4, <2>1, <2>2
            DEF DeleteChunk, End, Quiet, SemTypeOK, diskVars, memVars
<1>5. CASE Resolve(a)
    <2>1. ~Saving(a)
        BY <1>5 DEF Resolve, At, Saving, SavingSteps, TrainSteps
    <2>2. \A b \in Actors \ {a} : call'[b] = call[b]
        BY <1>5, ResolveTurns DEF Turns
    <2> QED BY <1>5, <2>1, <2>2 DEF Resolve, Quiet, chunkVars, diskVars, memVars
<1>6. CASE UseCache(a)
    <2>1. ~Saving(a)
        BY <1>6 DEF UseCache, At, Saving, SavingSteps, TrainSteps
    <2>2. \A b \in Actors \ {a} : call'[b] = call[b]
        BY <1>6 DEF UseCache, SemTypeOK
    <2> QED BY <1>6, <2>1, <2>2 DEF UseCache, Quiet, chunkVars, diskVars
<1>7. CASE EmbedQuery(a)
    <2>1. ~Saving(a)
        BY <1>7 DEF EmbedQuery, Saving, SavingSteps, TrainSteps
    <2>2. \A b \in Actors \ {a} : call'[b] = call[b]
        BY <1>7 DEF EmbedQuery, SemTypeOK
    <2> QED BY <1>7, <2>1, <2>2 DEF EmbedQuery, Quiet, chunkVars, diskVars, memVars
<1>8. CASE Scan(a)
    <2>1. ~Saving(a)
        BY <1>8 DEF Scan, At, Saving, SavingSteps, TrainSteps
    <2>2. \A b \in Actors \ {a} : call'[b] = call[b]
        BY <1>8, ScanTurns DEF Turns
    <2> QED BY <1>8, <2>1, <2>2 DEF Scan, Quiet, chunkVars, diskVars, memVars
<1>9. CASE Search(a)
    <2>1. ~Saving(a)
        BY <1>9 DEF Search, At, Saving, SavingSteps, TrainSteps
    <2> QED BY <1>9, <2>1 DEF Search, End, Quiet, SemTypeOK, chunkVars, diskVars, memVars
<1> QED BY <1>1, <1>2, <1>3, <1>4, <1>5, <1>6, <1>7, <1>8, <1>9

(* The steps of a thread that is not the writer are of that kind. *)
LEMMA OtherStep ==
    ASSUME NEW w \in Actors, SoleWriter(w), WriterInv(w), NEW a \in Actors \ {w},
           StartCall(a) \/ CallStep(a) \/ Fault(a) \/ Return(a)
    PROVE  InStep(w)'
<1>1. call[a].at \in Steps => call[a].at \in {"delete"} \cup QuerySteps
    BY DEF WriterInv, CallsOK, CallOK, SoleWriter, StepsOf
<1>2. ASSUME CallStep(a)
      PROVE  DeleteChunk(a) \/ Resolve(a) \/ UseCache(a) \/ EmbedQuery(a)
             \/ Scan(a) \/ Search(a)
    BY <1>1, <1>2
       DEF CallStep, Embed, InsertChunk, LabelChunk, CountAndTrain, ClearTerms,
           SaveTerms, SaveRest, SaveDim, RecordModel, RecordDim, InstallName,
           InstallModel, ReembedStep, ListStale, ReadTexts, UpdateChunk, TrainStep,
           At, Steps, IngestSteps, TrainSteps, ReembedSteps, QuerySteps
<1>3. Quiet /\ (torn => torn') /\ call'[w] = call[w]
    BY <1>2, QuietSteps DEF WriterInv
<1> QED BY <1>3, QuietKeeps

-----------------------------------------------------------------------------
(* The steps of the writer. *)

(* Only a re-embedding has a target. *)
LEMMA NoTarget ==
    ASSUME NEW a \in Actors, SemTypeOK, CallsOK,
           call[a].at \in Steps \ ReembedSteps \/ call[a].at = "idle"
    PROVE  call[a].target = "none" /\ name # "none"
<1>1. "ok" \notin Steps /\ "err" \notin Steps /\ "idle" \notin ReembedSteps
    BY DEF Steps, IngestSteps, TrainSteps, ReembedSteps, QuerySteps
<1> QED BY <1>1 DEF CallsOK, CallOK, SemTypeOK, Models

(* Starting, failing and returning. *)
LEMMA WriterEnds ==
    ASSUME NEW w \in Actors, WriterInv(w), StartCall(w) \/ Fault(w) \/ Return(w)
    PROVE  InStep(w)'
<1>1. Quiet /\ (torn \/ Saving(w) => torn')
    BY QuietSteps DEF WriterInv
<1>2. CASE StartCall(w)
    <2>1. /\ call'[w].at \in {"embed", "delete", "count", "list", "resolve"}
          /\ call[w].at = "idle"
        <3>1. PICK s \in Steps, m \in Models \cup {"none"} :
                 /\ s \in {"embed", "delete", "count", "list", "resolve"}
                 /\ call[w].at = "idle"
                 /\ Turns(w, s, 0, m, {}, FALSE, NoFingerprint, {})
            BY <1>2, Starts DEF WriterInv
        <3> QED BY <3>1 DEF Turns, IsCall
    <2>2. BatchCovers(w)' /\ call'[w].at \notin SavingSteps
        BY <2>1 DEF BatchCovers, SavingSteps, TrainSteps
    <2> QED BY <1>1, <2>1, <2>2, QuietKeeps
<1>3. CASE Fault(w)
    <2>1. call'[w].at = "err" /\ call[w].at # "install_model"
        BY <1>3, Ending DEF Fault, WriterInv, SemTypeOK, Places
    <2>2. BatchCovers(w)' /\ call'[w].at \notin SavingSteps
        BY <2>1 DEF BatchCovers, SavingSteps, TrainSteps
    <2> QED BY <1>1, <2>1, <2>2, QuietKeeps
<1>4. CASE Return(w)
    <2>1. call'[w].at = "idle" /\ call[w].at # "install_model"
        BY <1>4, Returning, Idle DEF Return, WriterInv, Becomes
    <2>2. BatchCovers(w)' /\ call'[w].at \notin SavingSteps
        BY <2>1 DEF BatchCovers, SavingSteps, TrainSteps
    <2> QED BY <1>1, <2>1, <2>2, QuietKeeps
<1> QED BY <1>2, <1>3, <1>4

(* Deleting and querying. *)
LEMMA WriterReads ==
    ASSUME NEW w \in Actors, WriterInv(w),
           \/ DeleteChunk(w)
           \/ Resolve(w) \/ UseCache(w) \/ EmbedQuery(w) \/ Scan(w) \/ Search(w)
    PROVE  InStep(w)'
<1> USE DEF QuerySteps
<1>1. Quiet /\ (torn \/ Saving(w) => torn')
    BY QuietSteps DEF WriterInv
<1>2. call[w].at \in QuerySteps \cup {"delete"}
    BY DEF DeleteChunk, Resolve, UseCache, EmbedQuery, Scan, Search, At
<1>3. SemTypeOK' /\ CallsOK'
    BY StoreTyping, QueryTyping DEF WriterInv
<1>4. call'[w].at \in QuerySteps \cup {"ok", "err"} /\ call'[w].target = call[w].target
    <2>1. call \in [Actors -> Callable] /\ {"ok", "err"} \subseteq Places
          /\ {"search", "scan"} \subseteq Places
        BY DEF WriterInv, SemTypeOK, Places, Steps
    <2>2. CASE DeleteChunk(w)
        BY <2>1, <2>2, Ending DEF DeleteChunk
    <2>3. CASE Resolve(w)
        BY <2>3, ResolveTurns DEF WriterInv, Turns, IsCall
    <2>4. CASE UseCache(w)
        <3>1. cache'.index \in SUBSET Vectors
            BY <1>3 DEF SemTypeOK
        <3> QED BY <2>4, <3>1, CacheTurns DEF WriterInv, Turns, IsCall
    <2>5. CASE EmbedQuery(w)
        <3>1. PICK s \in {"search", "scan"} :
                 call' = [call EXCEPT ![w].vec = model, ![w].at = s]
            BY <2>5 DEF EmbedQuery
        <3>2. PICK v \in Spaces : v = model
            BY DEF WriterInv, SemTypeOK
        <3>3. Turns(w, s, v, call[w].target, call[w].todo, call[w].full,
                    call[w].seen, call[w].index)
            BY <2>1, <3>1, <3>2, GoingWith
        <3> QED BY <3>3 DEF Turns, IsCall
    <2>6. CASE Scan(w)
        BY <2>6, ScanTurns DEF WriterInv, Turns, IsCall
    <2>7. CASE Search(w)
        BY <2>1, <2>7, Ending DEF Search
    <2> QED BY <2>2, <2>3, <2>4, <2>5, <2>6, <2>7
<1>5. call[w].target = "none" /\ name # "none" /\ name' = name
    BY <1>1, <1>2, NoTarget DEF WriterInv, Steps, ReembedSteps, Quiet
<1>6. BatchCovers(w)'
    BY <1>4, <1>5 DEF BatchCovers
<1>7. /\ call[w].at # "install_model" /\ call'[w].at # "install_model"
      /\ call'[w].at \notin SavingSteps \cup {"insert", "label", "update"}
      /\ ~Saving(w)
    BY <1>2, <1>4 DEF SavingSteps, TrainSteps, Saving
<1> HIDE DEF QuerySteps
<1> QED BY <1>1, <1>6, <1>7, QuietKeeps

(* Embedding a chunk and storing it. *)
LEMMA WriterStores ==
    ASSUME NEW w \in Actors, WriterInv(w), Embed(w) \/ InsertChunk(w) \/ LabelChunk(w)
    PROVE  InStep(w)'
<1>0. call \in [Actors -> Callable] /\ up
    BY DEF WriterInv, SemTypeOK, CallsOK, CallOK, Embed, InsertChunk, LabelChunk, At
<1>1. {"embed", "insert", "label", "ok", "install_model"} \cap SavingSteps
         = {} /\ {"embed", "insert", "label"} \subseteq Steps \ ReembedSteps
      /\ {"insert", "label", "ok"} \subseteq Places
    BY DEF SavingSteps, TrainSteps, Steps, IngestSteps, ReembedSteps, Places
<1>2. call[w].target = "none" /\ name # "none"
    BY <1>1, NoTarget DEF WriterInv, Embed, InsertChunk, LabelChunk, At
<1>3. CASE Embed(w)
    <2>1. PICK v \in Spaces : v = model
        BY DEF WriterInv, SemTypeOK
    <2>2. Turns(w, "insert", v, call[w].target, call[w].todo, call[w].full,
                call[w].seen, call[w].index)
        BY <1>0, <1>1, <1>3, <2>1, GoingWith DEF Embed
    <2>3. call[w].at = "embed" /\ call'[w].at = "insert" /\ call'[w].vec = model
          /\ call'[w].target = "none"
        BY <1>2, <1>3, <2>1, <2>2 DEF Embed, At, Turns, IsCall
    <2>4. name = "lsa" <=> call'[w].vec # 0
        BY <1>0, <2>3 DEF WriterInv, InStep, NameFits
    <2>5. Quiet /\ torn' = torn
        BY <1>3 DEF Embed, Quiet, chunkVars, diskVars, memVars
    <2>6. BatchCovers(w)'
        BY <1>2, <2>3, <2>5 DEF BatchCovers, Quiet
    <2>7. ~Saving(w)
        BY <1>1, <2>3 DEF Saving
    <2> QED BY <1>1, <2>3, <2>4, <2>5, <2>6, <2>7, QuietKeeps
<1>4. CASE InsertChunk(w)
    <2>1. /\ call[w].at = "insert" /\ call'[w].at = "label"
          /\ call'[w].vec = call[w].vec /\ call'[w].target = "none"
        BY <1>2, <1>4, InsertTurns DEF WriterInv, InsertChunk, At, Turns, IsCall
    <2>2. UNCHANGED <<terms, meta, up, name, model, torn>>
        BY <1>4 DEF InsertChunk, diskVars, memVars
    <2>3. NameFits(w)'
        BY <1>0, <2>1, <2>2 DEF WriterInv, InStep, NameFits
    <2>4. LabelsTruthful'
        <3>1. lastId + 1 \in Ids
            BY <1>4, SemanticAssumption DEF WriterInv, InsertChunk, SemTypeOK, Ids
        <3> QED BY <1>4, <3>1
                DEF WriterInv, InStep, LabelsTruthful, InsertChunk, SemTypeOK
    <2>5. BatchCovers(w)'
        BY <1>2, <2>1, <2>2 DEF BatchCovers
    <2>6. DiskFollows(w)'
        BY <1>1, <2>1, <2>2
           DEF WriterInv, InStep, DiskFollows, Saving, Openable, ActiveModel, Loaded
    <2> QED BY <2>3, <2>4, <2>5, <2>6 DEF InStep
<1>5. CASE LabelChunk(w)
    <2>1. call[w].at = "label" /\ call'[w].at = "ok" /\ call'[w].target = "none"
        BY <1>0, <1>1, <1>2, <1>5, Ending DEF LabelChunk, At
    <2>2. UNCHANGED <<terms, meta, up, name, model, torn, rows>>
        BY <1>5 DEF LabelChunk, diskVars, memVars
    <2>3. NameFits(w)'
        BY <1>0, <2>1, <2>2 DEF WriterInv, InStep, NameFits
    <2>4. LabelsTruthful'
        <3>1. (name = "lsa" <=> call[w].vec # 0) /\ name \in Models
            BY <1>0, <2>1 DEF WriterInv, InStep, NameFits, SemTypeOK
        <3> QED BY <1>5, <2>2, <3>1
                DEF WriterInv, InStep, LabelsTruthful, LabelChunk, WriteVector, SemTypeOK,
                    Models
    <2>5. BatchCovers(w)'
        BY <1>2, <2>1, <2>2 DEF BatchCovers
    <2>6. DiskFollows(w)'
        BY <1>1, <2>1, <2>2
           DEF WriterInv, InStep, DiskFollows, Saving, Openable, ActiveModel, Loaded
    <2> QED BY <2>3, <2>4, <2>5, <2>6 DEF InStep
<1> QED BY <1>3, <1>4, <1>5

(* The writes of a training, one after the other, and its installation. *)
LEMMA WriterTrains ==
    ASSUME NEW w \in Actors, WriterInv(w),
           \/ CountAndTrain(w) \/ ClearTerms(w) \/ SaveTerms(w) \/ SaveRest(w)
           \/ SaveDim(w) \/ RecordModel(w) \/ RecordDim(w)
           \/ InstallName(w) \/ InstallModel(w)
    PROVE  InStep(w)'
<1>0. call \in [Actors -> Callable] /\ TrainSteps \subseteq Steps \ ReembedSteps
      /\ call[w].at \in TrainSteps
    BY DEF WriterInv, SemTypeOK, Steps, TrainSteps, ReembedSteps, CountAndTrain,
           ClearTerms, SaveTerms, SaveRest, SaveDim, RecordModel, RecordDim,
           InstallName, InstallModel, TrainStep, At
<1>1. up /\ call[w].target = "none" /\ Models = {"hash", "lsa"} /\ name \in Models
      /\ name # "none" /\ (call[w].at \in Installing => call[w].vec \in 1..MaxTrainings)
    <2>1. "idle" \notin Steps
        BY DEF Steps, IngestSteps, TrainSteps, ReembedSteps, QuerySteps
    <2> QED BY <1>0, <2>1, NoTarget DEF WriterInv, CallsOK, CallOK, SemTypeOK, Models
<1>2. CASE CountAndTrain(w)
    <2>1. call[w].at = "count" /\ Quiet /\ torn' = torn
        BY <1>2 DEF CountAndTrain, At, Quiet, chunkVars, memVars
    <2>2. call'[w].at \in {"ok", "clear_terms"} /\ call'[w].target = "none"
        <3>1. CASE End(w, "ok")
            BY <1>0, <1>1, <3>1, Ending DEF Places
        <3>2. CASE /\ trained < MaxTrainings
                   /\ call' = [call EXCEPT ![w].at = "clear_terms", ![w].vec = trained + 1]
            <4>1. PICK v \in Spaces : v = trained + 1
                BY <3>2, SemanticAssumption DEF WriterInv, SemTypeOK, Spaces
            <4>2. Turns(w, "clear_terms", v, call[w].target, call[w].todo, call[w].full,
                        call[w].seen, call[w].index)
                BY <1>0, <3>2, <4>1, GoingWith DEF Places, Steps, TrainSteps
            <4> QED BY <1>1, <4>2 DEF Turns, IsCall
        <3> QED BY <1>2, <3>1, <3>2 DEF CountAndTrain
    <2>3. BatchCovers(w)'
        BY <1>1, <2>1, <2>2 DEF BatchCovers, Quiet
    <2>4. ~Saving(w) /\ call'[w].at \notin SavingSteps
        BY <2>1, <2>2 DEF Saving, SavingSteps, TrainSteps
    <2> QED BY <2>1, <2>2, <2>3, <2>4, QuietKeeps
<1>3. ASSUME NEW s \in TrainSteps, NEW t \in TrainSteps, TrainStep(w, s, t)
      PROVE  /\ call[w].at = s /\ call'[w].at = t /\ call'[w].vec = call[w].vec
             /\ call'[w].target = "none" /\ UNCHANGED <<rows, label, space, up>>
    <2>1. t \in Places /\ Goto(w, t) /\ call[w].at = s
        BY <1>0, <1>3 DEF TrainStep, Places, At
    <2>2. Turns(w, t, call[w].vec, call[w].target, call[w].todo, call[w].full,
                call[w].seen, call[w].index)
        BY <1>0, <2>1, Going
    <2> QED BY <1>1, <1>3, <2>1, <2>2 DEF Turns, IsCall, TrainStep, chunkVars
<1> USE DEF TrainSteps
<1>4. ASSUME NEW s \in TrainSteps, NEW t \in TrainSteps, TrainStep(w, s, t),
             t # "install_model", UNCHANGED <<name, model>>, s # "install_model"
      PROVE  NameFits(w)' /\ LabelsTruthful' /\ BatchCovers(w)'
    <2>1. call[w].at = s /\ call'[w].at = t
          /\ call'[w].target = "none" /\ UNCHANGED <<rows, label, space, up>>
        BY <1>3, <1>4
    <2>2. NameFits(w)'
        BY <1>1, <1>4, <2>1 DEF WriterInv, InStep, NameFits
    <2>3. LabelsTruthful'
        BY <2>1 DEF WriterInv, InStep, LabelsTruthful
    <2>4. BatchCovers(w)'
        BY <1>1, <1>4, <2>1 DEF BatchCovers
    <2> QED BY <2>2, <2>3, <2>4
<1>5. CASE ClearTerms(w)
    <2>1. call[w].at = "clear_terms" /\ call'[w].at = "save_terms" /\ up' = up
        BY <1>3, <1>5 DEF ClearTerms
    <2>2. DiskFollows(w)'
        BY <1>1, <1>5, <2>1
           DEF ClearTerms, WriterInv, InStep, DiskFollows, Saving, SavingSteps
    <2> QED BY <1>4, <1>5, <2>2 DEF ClearTerms, InStep
<1>6. CASE SaveTerms(w)
    <2>1. call[w].at = "save_terms" /\ call'[w].at = "save_rest" /\ up' = up
        BY <1>3, <1>6 DEF SaveTerms
    <2>2. DiskFollows(w)'
        BY <1>1, <1>6, <2>1
           DEF SaveTerms, WriterInv, InStep, DiskFollows, Saving, SavingSteps
    <2> QED BY <1>4, <1>6, <2>2 DEF SaveTerms, InStep
<1>7. CASE SaveRest(w)
    <2>1. call[w].at = "save_rest" /\ call'[w].at = "save_dim" /\ up' = up
        BY <1>3, <1>7 DEF SaveRest
    <2>2. call[w].vec # 0
        BY <1>1, <2>1 DEF Installing, SavingSteps
    <2>3. DiskFollows(w)'
        BY <1>1, <1>7, <2>1, <2>2
           DEF SaveRest, WriterInv, InStep, DiskFollows, Saving, SavingSteps
    <2> QED BY <1>4, <1>7, <2>3 DEF SaveRest, InStep
<1>8. CASE SaveDim(w)
    <2>1. call[w].at = "save_dim" /\ call'[w].at = "meta_model" /\ up' = up
        BY <1>3, <1>8 DEF SaveDim
    <2>2. meta'.lsaDim /\ meta'.model = meta.model /\ terms' = terms
        BY <1>8 DEF SaveDim, WriterInv, SemTypeOK
    <2>3. DiskFollows(w)'
        BY <1>1, <2>1, <2>2
           DEF WriterInv, InStep, DiskFollows, Saving, SavingSteps
    <2> QED BY <1>4, <1>8, <2>3 DEF SaveDim, InStep
<1>9. CASE RecordModel(w)
    <2>1. call[w].at = "meta_model" /\ call'[w].at = "meta_dim" /\ up' = up
        BY <1>3, <1>9 DEF RecordModel
    <2>2. meta'.lsaDim = meta.lsaDim /\ meta'.model = "lsa" /\ terms' = terms
        BY <1>9 DEF RecordModel, WriterInv, SemTypeOK
    <2>3. DiskFollows(w)'
        BY <1>1, <2>1, <2>2
           DEF WriterInv, InStep, DiskFollows, Saving, SavingSteps
    <2> QED BY <1>4, <1>9, <2>3 DEF RecordModel, InStep
<1>10. CASE RecordDim(w)
    <2>1. call[w].at = "meta_dim" /\ call'[w].at = "install_name" /\ up' = up
        BY <1>3, <1>10 DEF RecordDim
    <2>2. /\ meta'.lsaDim = meta.lsaDim /\ meta'.model = meta.model
          /\ meta'.dim = "lsa" /\ terms' = terms
        BY <1>10 DEF RecordDim, WriterInv, SemTypeOK
    <2>3. meta.lsaDim /\ meta.model = "lsa" /\ terms # 0
        BY <2>1 DEF WriterInv, InStep, DiskFollows
    <2>4. Openable'
        BY <2>2, <2>3 DEF Openable, ActiveModel, Loaded
    <2>5. DiskFollows(w)'
        BY <1>1, <2>1, <2>2, <2>3, <2>4 DEF DiskFollows
    <2> QED BY <1>4, <1>10, <2>5 DEF RecordDim, InStep
<1>11. CASE InstallName(w)
    <2>1. /\ call[w].at = "install_name" /\ call'[w].at = "install_model"
          /\ call'[w].target = "none" /\ UNCHANGED <<rows, label, space, up>>
        BY <1>3, <1>11 DEF InstallName
    <2>2. name' = "lsa" /\ UNCHANGED <<terms, meta, model, torn>>
        BY <1>11 DEF InstallName, diskVars
    <2>3. NameFits(w)' /\ BatchCovers(w)'
        BY <2>1, <2>2 DEF NameFits, BatchCovers
    <2>4. LabelsTruthful'
        BY <2>1 DEF WriterInv, InStep, LabelsTruthful
    <2>5. DiskFollows(w)'
        BY <1>1, <2>1, <2>2
           DEF WriterInv, InStep, DiskFollows, Saving, SavingSteps, Openable, ActiveModel,
               Loaded
    <2> QED BY <2>3, <2>4, <2>5 DEF InStep
<1>12. CASE InstallModel(w)
    <2>1. /\ call[w].at = "install_model" /\ call'[w].at = "ok"
          /\ call'[w].target = "none"
        BY <1>0, <1>1, <1>12, Ending DEF InstallModel, At, Places
    <2>2. model' = call[w].vec
          /\ UNCHANGED <<rows, label, space, terms, meta, up, name, torn>>
        BY <1>12 DEF InstallModel, chunkVars, diskVars
    <2>3. name = "lsa" /\ call[w].vec # 0
        BY <1>1, <2>1 DEF WriterInv, InStep, NameFits, Installing
    <2>4. NameFits(w)' /\ BatchCovers(w)'
        BY <1>1, <2>1, <2>2, <2>3 DEF NameFits, BatchCovers
    <2>5. LabelsTruthful'
        BY <2>2 DEF WriterInv, InStep, LabelsTruthful
    <2>6. DiskFollows(w)'
        BY <1>1, <2>1, <2>2
           DEF WriterInv, InStep, DiskFollows, Saving, SavingSteps, Openable, ActiveModel,
               Loaded
    <2> QED BY <2>4, <2>5, <2>6 DEF InStep
<1> QED BY <1>2, <1>5, <1>6, <1>7, <1>8, <1>9, <1>10, <1>11, <1>12

(* A batch of a re-embedding. *)
LEMMA WriterReembeds ==
    ASSUME NEW w \in Actors, WriterInv(w), ReembedStep(w)
    PROVE  InStep(w)'
<1>0. call \in [Actors -> Callable] /\ {"ok", "err", "update", "list"} \subseteq Places
    BY DEF WriterInv, SemTypeOK, Places, Steps, ReembedSteps
<1>1. up /\ (call[w].at \in {"texts", "update"} => call[w].todo # {})
    BY DEF WriterInv, CallsOK, CallOK, ReembedStep, ListStale, ReadTexts, UpdateChunk, At
<1>2. call[w].at \in {"list", "texts", "update"} /\ ~Saving(w)
      /\ {"list", "texts", "update", "ok", "err"} \cap SavingSteps = {}
    BY DEF ReembedStep, ListStale, ReadTexts, UpdateChunk, At, Saving, SavingSteps, TrainSteps
<1>3. CASE ListStale(w)
    <2> DEFINE stale == Stale(call[w].target)
               batch == FirstOf(stale, Batch)
    <2>1. call[w].at = "list" /\ Quiet /\ torn' = torn /\ rows' = rows
        BY <1>3 DEF ListStale, At, Quiet, chunkVars, diskVars, memVars
    <2>2. stale \in SUBSET (1..MaxChunks)
        BY DEF WriterInv, SemTypeOK, Stale, Ids
    <2>3. CASE batch = {} /\ End(w, "ok")
        <3>1. call'[w].at = "ok" /\ call'[w].target = call[w].target
            BY <1>0, <2>3, Ending
        <3>2. stale = {}
            BY <2>2, <2>3, SemanticAssumption, FirstOfEmpty
        <3>3. BatchCovers(w)'
            BY <2>1, <3>1, <3>2 DEF BatchCovers, Quiet, Stale
        <3> QED BY <1>2, <2>1, <3>1, <3>3, QuietKeeps
    <2>4. CASE Turns(w, "texts", call[w].vec, call[w].target, batch,
                     Cardinality(batch) = Batch, call[w].seen, call[w].index)
        <3>1. /\ call'[w].at = "texts" /\ call'[w].target = call[w].target
              /\ call'[w].todo = batch /\ (call'[w].full <=> Cardinality(batch) = Batch)
            <4> HIDE DEF batch
            <4> QED BY <2>4 DEF Turns, IsCall
        <3>2. ~call'[w].full => batch = stale
            <4>1. Cardinality(batch) # Batch => batch = stale
                BY <2>2, SemanticAssumption, FirstOfIsAll
            <4> HIDE DEF batch, stale
            <4> QED BY <3>1, <4>1
        <3>3. BatchCovers(w)'
            <4>1. ~call'[w].full =>
                     \A c \in rows : label[c] = call[w].target \/ c \in call'[w].todo
                BY <3>1, <3>2 DEF Stale
            <4> QED BY <2>1, <3>1, <4>1 DEF BatchCovers, Quiet
        <3> QED BY <1>2, <2>1, <3>1, <3>3, QuietKeeps
    <2> QED BY <1>3, <2>3, <2>4, ListTurns DEF WriterInv
<1>4. CASE ReadTexts(w)
    <2>1. call[w].at = "texts" /\ Quiet /\ torn' = torn
        BY <1>4 DEF ReadTexts, At, Quiet, chunkVars, diskVars, memVars
    <2>2. CASE End(w, "err")
        <3>1. call'[w].at = "err"
            BY <1>0, <2>2, Ending
        <3>2. BatchCovers(w)'
            BY <3>1 DEF BatchCovers
        <3> QED BY <1>2, <2>1, <3>1, <3>2, QuietKeeps
    <2>3. CASE call' = [call EXCEPT ![w].at = "update", ![w].vec = model]
        <3>1. PICK v \in Spaces : v = model
            BY DEF WriterInv, SemTypeOK
        <3>2. Turns(w, "update", v, call[w].target, call[w].todo, call[w].full,
                    call[w].seen, call[w].index)
            BY <1>0, <2>3, <3>1, GoingWith
        <3>3. /\ call'[w].at = "update" /\ call'[w].vec = model
              /\ call'[w].target = call[w].target /\ call'[w].todo = call[w].todo
              /\ call'[w].full = call[w].full
            BY <3>1, <3>2 DEF Turns, IsCall
        <3>4. name = "lsa" <=> call'[w].vec # 0
            BY <1>1, <2>1, <3>3 DEF WriterInv, InStep, NameFits
        <3>5. BatchCovers(w)'
            BY <2>1, <3>3 DEF WriterInv, InStep, BatchCovers, Quiet
        <3> QED BY <1>2, <2>1, <3>3, <3>4, <3>5, QuietKeeps
    <2> QED BY <1>4, <2>2, <2>3 DEF ReadTexts
<1>5. CASE UpdateChunk(w)
    <2> DEFINE c == Min(call[w].todo)
               rest == call[w].todo \ {c}
    <2>1. /\ call[w].at = "update"
          /\ UNCHANGED <<rows, terms, meta, up, name, model, torn>>
          /\ WriteVector(c, call[w].vec)
        BY <1>5 DEF UpdateChunk, At, diskVars, memVars
    <2>2. (name = "lsa" <=> call[w].vec # 0) /\ name \in Models
        BY <1>1, <2>1 DEF WriterInv, InStep, NameFits, SemTypeOK
    <2>3. \/ /\ rest = {} /\ ~call[w].full
             /\ call'[w].at = "ok" /\ call'[w].target = call[w].target
          \/ /\ call'[w].at \in {"update", "list"} /\ call'[w].vec = call[w].vec
             /\ call'[w].target = call[w].target /\ call'[w].todo = rest
             /\ call'[w].full = call[w].full
        <3>1. CASE rest = {} /\ ~call[w].full /\ End(w, "ok")
            BY <1>0, <3>1, Ending
        <3>2. CASE Turns(w, IF rest # {} THEN "update" ELSE "list", call[w].vec,
                         call[w].target, rest, call[w].full, call[w].seen, call[w].index)
            <4> HIDE DEF rest
            <4> QED BY <3>2 DEF Turns, IsCall
        <3> QED BY <1>5, <3>1, <3>2, UpdateTurns DEF WriterInv
    <2>4. /\ \A d \in rows : label'[d] = IF d = c THEN name ELSE label[d]
          /\ \A d \in rows : space'[d] = IF d = c THEN call[w].vec ELSE space[d]
        BY <2>1 DEF WriteVector, WriterInv, SemTypeOK
    <2>5. call[w].target = name /\ ~call[w].full =>
             \A d \in rows : label'[d] = name \/ d \in rest
        BY <2>1, <2>4 DEF WriterInv, InStep, BatchCovers
    <2> HIDE DEF c, rest
    <2>6. NameFits(w)'
        BY <1>1, <2>1, <2>2, <2>3 DEF WriterInv, InStep, NameFits
    <2>7. LabelsTruthful'
        BY <2>1, <2>2, <2>4 DEF WriterInv, InStep, LabelsTruthful, Models
    <2>8. BatchCovers(w)'
        BY <2>1, <2>3, <2>5 DEF BatchCovers
    <2>9. DiskFollows(w)'
        BY <1>2, <2>1, <2>3
           DEF WriterInv, InStep, DiskFollows, Saving, Openable, ActiveModel, Loaded
    <2> QED BY <2>6, <2>7, <2>8, <2>9 DEF InStep
<1> QED BY <1>3, <1>4, <1>5 DEF ReembedStep

(* Closing and opening: what is read back is what was written. *)
LEMMA LifeStep ==
    ASSUME NEW w \in Actors, WriterInv(w), Open \/ Stop
    PROVE  InStep(w)'
<1>1. CASE Open
    <2>1. call[w].at = "idle" /\ call' = call /\ torn' = torn /\ terms' = terms
        BY <1>1 DEF Open, WriterInv, CallsOK, CallOK
    <2>2. UNCHANGED <<rows, label, space>>
        BY <1>1 DEF Open, chunkVars
    <2>3. CASE meta.model = "none"
        <3>1. /\ meta'.model = "hash" /\ meta'.dim = "hash" /\ meta'.lsaDim = meta.lsaDim
              /\ name' = "hash" /\ model' = 0 /\ terms = 0
            BY <1>1, <2>3 DEF Open, WriterInv, InStep, DiskFollows, SemTypeOK
        <3>2. NameFits(w)' /\ BatchCovers(w)' /\ LabelsTruthful'
            BY <2>1, <2>2, <3>1
               DEF NameFits, BatchCovers, LabelsTruthful, WriterInv, InStep
        <3>3. DiskFollows(w)'
            BY <2>1, <3>1 DEF DiskFollows, Openable, ActiveModel, Loaded
        <3> QED BY <3>2, <3>3 DEF InStep
    <2>4. CASE meta.model # "none"
        <3>1. meta' = meta /\ name' = ActiveModel /\ model' = Loaded /\ Openable
            BY <1>1, <2>4 DEF Open
        <3>2. NameFits(w)' /\ BatchCovers(w)' /\ LabelsTruthful'
            BY <2>1, <2>2, <3>1
               DEF NameFits, BatchCovers, LabelsTruthful, WriterInv, InStep, ActiveModel
        <3>3. DiskFollows(w)'
            BY <2>1, <2>4, <3>1 DEF DiskFollows, Openable, ActiveModel, Loaded
        <3> QED BY <3>2, <3>3 DEF InStep
    <2> QED BY <2>3, <2>4
<1>2. CASE Stop
    <2>1. ~up' /\ call'[w].at = "idle" /\ UNCHANGED <<rows, label, space, terms, meta>>
        BY <1>2, Idle DEF Stop, chunkVars, diskVars
    <2>2. torn \/ Saving(w) => torn'
        BY <1>2 DEF Stop
    <2>3. Openable' <=> Openable
        BY <2>1 DEF Openable, ActiveModel, Loaded
    <2>4. DiskFollows(w)'
        BY <2>1, <2>2, <2>3 DEF WriterInv, InStep, DiskFollows
    <2> QED BY <2>1, <2>4 DEF NameFits, BatchCovers, LabelsTruthful, WriterInv, InStep
<1> QED BY <1>1, <1>2

(* Every step keeps the invariant, and it holds to begin with. *)
LEMMA WriterStep ==
    ASSUME NEW w \in Actors, SoleWriter(w), WriterInv(w), [SemNext]_mvars
    PROVE  WriterInv(w)'
<1>1. SemTypeOK' /\ CallsOK'
    BY StepTyping DEF WriterInv
<1>2. CASE UNCHANGED mvars
    BY <1>1, <1>2
       DEF mvars, chunkVars, diskVars, memVars, WriterInv, InStep, NameFits, LabelsTruthful,
           BatchCovers, DiskFollows, Saving, Openable, ActiveModel, Loaded
<1>3. CASE Open \/ Stop
    BY <1>1, <1>3, LifeStep DEF WriterInv
<1>4. ASSUME NEW a \in Actors, StartCall(a) \/ CallStep(a) \/ Fault(a) \/ Return(a)
      PROVE  InStep(w)'
    <2>1. CASE a # w
        BY <1>4, <2>1, OtherStep
    <2>2. CASE a = w
        BY <1>4, <2>2, WriterEnds, WriterReads, WriterStores, WriterTrains, WriterReembeds
           DEF CallStep
    <2> QED BY <2>1, <2>2
<1> QED BY <1>1, <1>2, <1>3, <1>4 DEF WriterInv, SemNext

(* No model and no vector: the writer's invariant holds at first. *)
LEMMA WriterInitially ==
    ASSUME NEW w \in Actors, SemInit
    PROVE  WriterInv(w)
<1>1. call[w].at = "idle"
    BY Idle DEF SemInit
<1>2. NameFits(w) /\ LabelsTruthful /\ BatchCovers(w) /\ DiskFollows(w)
    BY <1>1 DEF SemInit, NameFits, LabelsTruthful, BatchCovers, DiskFollows, Openable
<1> QED BY <1>2, TypedInitially DEF WriterInv, InStep

-----------------------------------------------------------------------------
(* When one thread writes: three of the four invariants of the runs, for   *)
(* any number of chunks, trainings, readers, crashes and failures.         *)

THEOREM WriterInvariant ==
    ASSUME NEW w \in Actors, SoleWriter(w)
    PROVE  SemSpec => []WriterInv(w)
<1>1. WriterInv(w) /\ [SemNext]_mvars => WriterInv(w)'
    BY WriterStep
<1> QED BY <1>1, WriterInitially, PTL DEF SemSpec

(* The label of a chunk names the model its vector was made with. *)
THEOREM LabelsAreTruthful ==
    ASSUME NEW w \in Actors, SoleWriter(w)
    PROVE  SemSpec => []LabelsTruthful
<1>1. WriterInv(w) => LabelsTruthful
    BY DEF WriterInv, InStep
<1> QED BY <1>1, WriterInvariant, PTL

(* A re-embedding for the active model that returns left no chunk behind. *)
THEOREM ReembeddingMigrates ==
    ASSUME NEW w \in Actors, SoleWriter(w)
    PROVE  SemSpec => []ReembedMigrates
<1>1. WriterInv(w) => ReembedMigrates
    <2>1. ASSUME WriterInv(w), NEW a \in Actors, At(a, "ok"), call[a].target = name
          PROVE  \A c \in rows : label[c] = name
        <3>1. call[a].target # "none"
            BY <2>1 DEF WriterInv, SemTypeOK, Models
        <3>2. a = w
            BY <2>1, <3>1 DEF WriterInv, CallsOK, CallOK, SoleWriter
        <3> QED BY <2>1, <3>2 DEF WriterInv, InStep, BatchCovers, At
    <2> QED BY <2>1 DEF ReembedMigrates
<1> QED BY <1>1, WriterInvariant, PTL

(* A library whose trainings were not cut short opens after every crash. *)
THEOREM OpensAgain ==
    ASSUME NEW w \in Actors, SoleWriter(w)
    PROVE  SemSpec => []OpensUnlessTorn
<1>1. WriterInv(w) => OpensUnlessTorn
    <2>1. ASSUME WriterInv(w), ~up PROVE ~Saving(w)
        <3>1. call[w].at = "idle"
            BY <2>1 DEF WriterInv, CallsOK, CallOK
        <3> QED BY <3>1 DEF Saving, SavingSteps, TrainSteps
    <2> QED BY <2>1 DEF OpensUnlessTorn, WriterInv, InStep, DiskFollows
<1> QED BY <1>1, WriterInvariant, PTL

-----------------------------------------------------------------------------
(* The index a query uses, whatever the threads call.                      *)

(* A query asks for the index of a model; the index it is given, and the   *)
(* cached one, hold vectors made by the model they are filed under.        *)
QueryPlaces == {"cache", "ann_embed", "search"}

IndexOK(a) ==
    /\ At(a, "cache") => call[a].seen.model \in Models
    /\ At(a, "ann_embed") => MadeBy(call[a].seen.model, call[a].index)
    /\ At(a, "search") => \E m \in Models : MadeBy(m, call[a].index)

IndexesOK ==
    /\ MadeBy(cache.of.model, cache.index)
    /\ \A a \in Actors : IndexOK(a)

(* The vectors of a corpus were made by the model it is read for.          *)
LEMMA CorpusMade ==
    ASSUME LabelsTruthful, NEW m \in Models
    PROVE  MadeBy(m, Corpus(m))
<1>1. ASSUME NEW p \in Corpus(m)
      PROVE  p[2] = 0 <=> m = "hash"
    <2>1. PICK c \in rows : p[2] = space[c] /\ label[c] = m
        BY DEF Corpus, Labelled
    <2> QED BY <2>1 DEF LabelsTruthful, Models
<1> QED BY <1>1 DEF MadeBy

(* A step elsewhere than in a query keeps them. *)
LEMMA IndexesKept ==
    ASSUME IndexesOK, cache' = cache, NEW a \in Actors,
           call'[a].at \notin QueryPlaces, \A b \in Actors \ {a} : call'[b] = call[b]
    PROVE  IndexesOK'
<1>1. ASSUME NEW b \in Actors
      PROVE  IndexOK(b)'
    <2>1. CASE b = a
        BY <2>1 DEF IndexOK, QueryPlaces, At
    <2>2. CASE b # a
        BY <2>2 DEF IndexesOK, IndexOK, At
    <2> QED BY <2>1, <2>2
<1> QED BY <1>1 DEF IndexesOK

(* Where a step that does not query leaves its call. *)
LEMMA OutOfQueries ==
    ASSUME SemTypeOK, NEW a \in Actors,
           \/ StartCall(a) \/ Fault(a) \/ Return(a)
           \/ Embed(a) \/ InsertChunk(a) \/ LabelChunk(a) \/ DeleteChunk(a)
           \/ CountAndTrain(a) \/ ClearTerms(a) \/ SaveTerms(a) \/ SaveRest(a)
           \/ SaveDim(a) \/ RecordModel(a) \/ RecordDim(a)
           \/ InstallName(a) \/ InstallModel(a) \/ ReembedStep(a) \/ Search(a)
    PROVE  /\ call'[a].at \notin QueryPlaces /\ cache' = cache
           /\ \A b \in Actors \ {a} : call'[b] = call[b]
<1> DEFINE Out == /\ call'[a].at \notin QueryPlaces
                  /\ \A b \in Actors \ {a} : call'[b] = call[b]
<1>0. /\ call \in [Actors -> Callable] /\ TrainSteps \subseteq Places
      /\ {"insert", "update", "texts", "list", "label", "ok", "err", "clear_terms"}
            \subseteq Places
    BY DEF SemTypeOK, Places, Steps, TrainSteps, IngestSteps, ReembedSteps
<1>1. TrainSteps \cap QueryPlaces = {}
    BY DEF TrainSteps, QueryPlaces
<1>2. ASSUME End(a, "ok") \/ End(a, "err") PROVE Out
    BY <1>0, <1>2, Ending DEF Becomes, QueryPlaces
<1>3. ASSUME NEW s \in Places \ QueryPlaces, NEW v, NEW t, NEW todo, NEW full, NEW seen,
             NEW index, Turns(a, s, v, t, todo, full, seen, index)
      PROVE  Out
    BY <1>3 DEF Turns, IsCall
<1>4. ASSUME NEW s \in Places \ QueryPlaces, NEW v \in Spaces,
             \/ call' = [call EXCEPT ![a].at = s, ![a].vec = v]
      PROVE  Out
    BY <1>0, <1>3, <1>4, GoingWith
<1>5. CASE StartCall(a)
    <2>1. PICK s \in Steps, m \in Models \cup {"none"} :
             /\ s \in {"embed", "delete", "count", "list", "resolve"}
             /\ Turns(a, s, 0, m, {}, FALSE, NoFingerprint, {})
             /\ UNCHANGED <<chunkVars, diskVars, memVars, torn>>
        BY <1>5, Starts
    <2>2. s \in Places \ QueryPlaces
        BY <2>1 DEF Places, QueryPlaces
    <2> QED BY <1>3, <2>1, <2>2 DEF memVars
<1>6. CASE Fault(a) \/ DeleteChunk(a) \/ LabelChunk(a) \/ InstallModel(a) \/ Search(a)
    BY <1>2, <1>6
       DEF Fault, DeleteChunk, LabelChunk, InstallModel, Search, memVars
<1>7. CASE Return(a)
    BY <1>7, Returning, Idle DEF Return, Becomes, QueryPlaces, memVars
<1>8. CASE Embed(a)
    <2>1. model \in Spaces /\ "insert" \in Places \ QueryPlaces /\ cache' = cache
        BY <1>0, <1>8 DEF Embed, SemTypeOK, QueryPlaces, memVars
    <2> QED BY <1>4, <1>8, <2>1 DEF Embed
<1>9. CASE InsertChunk(a)
    <2>1. "label" \in Places \ QueryPlaces /\ cache' = cache
        BY <1>0, <1>9 DEF InsertChunk, QueryPlaces, memVars
    <2> QED BY <1>3, <1>9, <2>1, InsertTurns
<1>10. CASE CountAndTrain(a)
    <2>1. cache' = cache /\ "clear_terms" \in Places \ QueryPlaces
        BY <1>0, <1>10 DEF CountAndTrain, QueryPlaces, memVars
    <2>2. CASE End(a, "ok")
        BY <1>2, <2>1, <2>2
    <2>3. CASE /\ trained < MaxTrainings
               /\ call' = [call EXCEPT ![a].at = "clear_terms", ![a].vec = trained + 1]
        <3>1. trained + 1 \in Spaces
            BY <2>3, SemanticAssumption DEF SemTypeOK, Spaces
        <3> QED BY <1>4, <2>1, <2>3, <3>1
    <2> QED BY <1>10, <2>2, <2>3 DEF CountAndTrain
<1>11. ASSUME NEW s \in TrainSteps, NEW t \in TrainSteps, TrainStep(a, s, t)
       PROVE  Out /\ cache' = cache
    <2>1. t \in Places \ QueryPlaces /\ Goto(a, t) /\ cache' = cache
        BY <1>0, <1>1, <1>11 DEF TrainStep
    <2> QED BY <1>0, <1>3, <2>1, Going
<1>12. CASE \/ ClearTerms(a) \/ SaveTerms(a) \/ SaveRest(a)
            \/ SaveDim(a) \/ RecordModel(a) \/ RecordDim(a) \/ InstallName(a)
    <2>1. \E s, t \in TrainSteps : TrainStep(a, s, t)
        BY <1>12 DEF ClearTerms, SaveTerms, SaveRest, SaveDim, RecordModel, RecordDim,
                     InstallName, TrainSteps
    <2> QED BY <1>11, <2>1
<1>13. CASE ListStale(a)
    <2> DEFINE batch == FirstOf(Stale(call[a].target), Batch)
    <2>1. cache' = cache /\ "texts" \in Places \ QueryPlaces
        BY <1>0, <1>13 DEF ListStale, memVars, QueryPlaces
    <2>2. CASE End(a, "ok")
        BY <1>2, <2>1, <2>2
    <2>3. CASE Turns(a, "texts", call[a].vec, call[a].target, batch,
                     Cardinality(batch) = Batch, call[a].seen, call[a].index)
        <3> HIDE DEF batch
        <3> QED BY <1>3, <2>1, <2>3
    <2> QED BY <1>13, <2>2, <2>3, ListTurns
<1>14. CASE ReadTexts(a)
    <2>1. model \in Spaces /\ "update" \in Places \ QueryPlaces /\ cache' = cache
        BY <1>0, <1>14 DEF ReadTexts, SemTypeOK, QueryPlaces, memVars
    <2> QED BY <1>2, <1>4, <1>14, <2>1 DEF ReadTexts
<1>15. CASE UpdateChunk(a)
    <2> DEFINE rest == call[a].todo \ {Min(call[a].todo)}
               s == IF rest # {} THEN "update" ELSE "list"
    <2>1. cache' = cache /\ s \in Places \ QueryPlaces
        BY <1>0, <1>15 DEF UpdateChunk, memVars, QueryPlaces
    <2>2. CASE End(a, "ok")
        BY <1>2, <2>1, <2>2
    <2>3. CASE Turns(a, s, call[a].vec, call[a].target, rest, call[a].full,
                     call[a].seen, call[a].index)
        <3> HIDE DEF rest, s
        <3> QED BY <1>3, <2>1, <2>3
    <2> QED BY <1>15, <2>2, <2>3, UpdateTurns
<1> QED BY <1>5, <1>6, <1>7, <1>8, <1>9, <1>10, <1>12, <1>13, <1>14, <1>15
        DEF ReembedStep

(* Resolving, taking the index, embedding and scanning. *)
LEMMA QueriesKeepIndexes ==
    ASSUME SemTypeOK, CallsOK, LabelsTruthful, IndexesOK, NEW a \in Actors,
           Resolve(a) \/ UseCache(a) \/ EmbedQuery(a) \/ Scan(a)
    PROVE  IndexesOK'
<1>0. name \in Models /\ call \in [Actors -> Callable] /\ model \in Spaces
      /\ {"search", "scan", "cache", "brute_embed", "ann_embed"} \subseteq Places
    BY DEF SemTypeOK, Places, Steps, QuerySteps
<1>1. ASSUME MadeBy(cache'.of.model, cache'.index), IndexOK(a)',
             \A b \in Actors \ {a} : call'[b] = call[b]
      PROVE  IndexesOK'
    <2>1. ASSUME NEW b \in Actors, b # a PROVE IndexOK(b)'
        BY <1>1, <2>1 DEF IndexesOK, IndexOK, At
    <2> QED BY <1>1, <2>1 DEF IndexesOK
<1>2. MadeBy(cache.of.model, cache.index) /\ IndexOK(a)
    BY DEF IndexesOK
<1>3. CASE Resolve(a)
    <2>1. cache' = cache
        BY <1>3 DEF Resolve, memVars
    <2>2. /\ \A b \in Actors \ {a} : call'[b] = call[b]
          /\ \/ call'[a].at = "cache" /\ call'[a].seen = Fingerprint(name)
             \/ call'[a].at = "brute_embed"
        BY <1>3, ResolveTurns DEF Turns, IsCall
    <2>3. IndexOK(a)'
        <3>1. Fingerprint(name).model = name
            BY DEF Fingerprint
        <3> QED BY <1>0, <2>2, <3>1 DEF IndexOK, At
    <2> QED BY <1>1, <1>2, <2>1, <2>2, <2>3
<1>4. CASE UseCache(a)
    <2>1. call[a].seen.model \in Models
        BY <1>2, <1>4 DEF UseCache, IndexOK
    <2>2. /\ cache'.of.model = call[a].seen.model
          /\ MadeBy(cache'.of.model, cache'.index)
        <3>1. CASE cache.of = call[a].seen
            BY <1>2, <1>4, <3>1 DEF UseCache
        <3>2. CASE cache.of # call[a].seen
            <4>1. /\ cache'.of.model = call[a].seen.model
                  /\ cache'.index = Corpus(call[a].seen.model)
                BY <1>4, <3>2 DEF UseCache
            <4> QED BY <2>1, <4>1, CorpusMade
        <3> QED BY <3>1, <3>2
    <2>3. cache'.index \in SUBSET Vectors
        BY <1>4, QueryTyping DEF SemTypeOK
    <2>4. /\ \A b \in Actors \ {a} : call'[b] = call[b]
          /\ call'[a].at \in {"brute_embed", "ann_embed"}
          /\ call'[a].seen = call[a].seen /\ call'[a].index = cache'.index
        BY <1>4, <2>3, CacheTurns DEF Turns, IsCall
    <2>5. IndexOK(a)'
        BY <2>2, <2>4 DEF IndexOK, At
    <2> QED BY <1>1, <2>2, <2>4, <2>5
<1>5. CASE EmbedQuery(a)
    <2> DEFINE s == IF call[a].at = "ann_embed" THEN "search" ELSE "scan"
    <2>1. cache' = cache /\ s \in Places /\ call[a].at \in {"ann_embed", "brute_embed"}
        BY <1>0, <1>5 DEF EmbedQuery, memVars
    <2>2. /\ \A b \in Actors \ {a} : call'[b] = call[b]
          /\ call'[a].at = s /\ call'[a].index = call[a].index
        <3>1. call' = [call EXCEPT ![a].vec = model, ![a].at = s]
            BY <1>5 DEF EmbedQuery
        <3> HIDE DEF s
        <3>2. PICK q \in Places, v \in Spaces : q = s /\ v = model
            BY <1>0, <2>1
        <3>3. Turns(a, q, v, call[a].target, call[a].todo, call[a].full,
                    call[a].seen, call[a].index)
            BY <1>0, <3>1, <3>2, GoingWith
        <3> QED BY <3>2, <3>3 DEF Turns, IsCall
    <2>3. IndexOK(a)'
        <3>1. CASE call[a].at = "ann_embed"
            <4>1. MadeBy(call[a].seen.model, call[a].index)
                BY <1>2, <3>1 DEF IndexOK, At
            <4>2. \E m \in Models : MadeBy(m, call[a].index)
                BY <4>1 DEF MadeBy, Models
            <4> QED BY <2>2, <3>1, <4>2 DEF IndexOK, At
        <3>2. CASE call[a].at # "ann_embed"
            BY <2>2, <3>2 DEF IndexOK, At
        <3> QED BY <3>1, <3>2
    <2> QED BY <1>1, <1>2, <2>1, <2>2, <2>3
<1>6. CASE Scan(a)
    <2>1. cache' = cache
        BY <1>6 DEF Scan, memVars
    <2>2. /\ \A b \in Actors \ {a} : call'[b] = call[b]
          /\ call'[a].at = "search" /\ call'[a].index = Corpus(name)
        BY <1>6, ScanTurns DEF Turns, IsCall
    <2>3. IndexOK(a)'
        BY <1>0, <2>2, CorpusMade DEF IndexOK, At
    <2> QED BY <1>1, <1>2, <2>1, <2>2, <2>3
<1> QED BY <1>3, <1>4, <1>5, <1>6

(* Every step keeps them while the labels are truthful. *)
LEMMA IndexesStep ==
    ASSUME SemTypeOK, CallsOK, LabelsTruthful, IndexesOK, [SemNext]_mvars
    PROVE  IndexesOK'
<1>1. CASE UNCHANGED mvars
    BY <1>1 DEF mvars, memVars, IndexesOK, IndexOK, At
<1>2. CASE Open \/ Stop
    <2>1. \A a \in Actors : call'[a].at = "idle"
        BY <1>2, Idle DEF Open, Stop, CallsOK, CallOK
    <2>2. MadeBy(cache'.of.model, cache'.index)
        BY <1>2 DEF Open, Stop, NoCache, MadeBy, IndexesOK
    <2> QED BY <2>1, <2>2 DEF IndexesOK, IndexOK, At
<1>3. ASSUME NEW a \in Actors, StartCall(a) \/ CallStep(a) \/ Fault(a) \/ Return(a)
      PROVE  IndexesOK'
    BY <1>3, OutOfQueries, IndexesKept, QueriesKeepIndexes DEF CallStep
<1> QED BY <1>1, <1>2, <1>3 DEF SemNext

(* Every index a dense search uses, from the cache or from a scan, holds   *)
(* vectors made by one model, however many trainings, replacements of the  *)
(* cached index, deletions, failures and crashes come between the steps of *)
(* any number of queries, when one thread does everything but deleting and *)
(* querying.                                                               *)
THEOREM IndexesHoldOneModel ==
    ASSUME NEW w \in Actors, SoleWriter(w)
    PROVE  SemSpec => []IndexOfOneModel
<1>1. SemInit => IndexesOK
    <2>1. SemInit => \A a \in Actors : call[a].at = "idle"
        BY Idle DEF SemInit
    <2> QED BY <2>1 DEF SemInit, NoCache, MadeBy, IndexesOK, IndexOK, At
<1>2. SemTypeOK /\ CallsOK /\ LabelsTruthful /\ IndexesOK /\ [SemNext]_mvars => IndexesOK'
    BY IndexesStep
<1>3. IndexesOK => IndexOfOneModel
    BY DEF IndexesOK, IndexOK, IndexOfOneModel
<1> QED BY <1>1, <1>2, <1>3, SemanticTyping, LabelsAreTruthful, PTL DEF SemSpec
=============================================================================
