-------------------------------- MODULE Query --------------------------------
(***************************************************************************)
(* Engine::query: plan, search the channels, fuse, boost, re-rank,         *)
(* diversify, apply the temporal constraint, assemble the context.  Every  *)
(* read is a transaction of its own, so a document may be deleted between  *)
(* two of them.                                                            *)
(*                                                                         *)
(* Of a text only what the code looks for counts: its terms, the words     *)
(* that give its intent away (cues), the years and the entities it names.  *)
(* Scores are hundred-thousandths, weights and cosines hundredths.         *)
(***************************************************************************)
EXTENDS Ranking

CONSTANTS
    Libraries,     \* what may be stored: functions from chunk ids to chunks
    DocumentOf,    \* the document of each chunk
    Summarized,    \* the documents that have a summary
    Requests,      \* the requests
    MinFetch, MaxFetch,   \* candidates per channel: 6 top_k between the two (24, 200)
    Prefetch,      \* embeddings mmr_select looks at (64)
    rerank_top_n, max_dense_scan, mmr_lambda,
    SnippetChars   \* characters of a hit in the context (700)

Modes == {"auto", "lexical", "vector", "hybrid", "entity"}

ASSUME QueryAssumption ==
    /\ \A s \in Libraries :
           /\ IsFiniteSet(DOMAIN s) /\ DOMAIN s \subseteq Nat
           /\ \A c \in DOMAIN s :
                  /\ s[c].dir \in Directions
                  /\ IsFiniteSet(s[c].years) /\ s[c].years \subseteq Nat
                  /\ s[c].authority \in Nat /\ s[c].len \in Nat /\ s[c].damp \in Nat \ {0}
    /\ \A r \in Requests :
           /\ r.mode \in Modes /\ r.dir \in Directions
           /\ IsFiniteSet(r.terms) /\ r.top_k \in Nat
           /\ r.context_budget \in Nat /\ r.max_per_document \in Nat
    /\ MinFetch \in Nat /\ MaxFetch \in Nat /\ Prefetch \in Nat
    /\ rerank_top_n \in Nat /\ max_dense_scan \in Nat /\ mmr_lambda \in 0..100
    /\ SnippetChars \in Nat

VARIABLES
    library,    \* the chunks
    documents,  \* the documents that exist
    req,        \* the request
    step,       \* what the query does next; "idle", and "done" at the end
    dense,      \* vec_res: chunk ids, best first
    lexical,    \* fts_res
    fused,      \* the chunks the channels surfaced, with their scores
    hits,       \* [id, score, rank]
    answer,     \* "none", "summary", "hits" or the error
    deleted     \* history: the documents deleted while the query ran

queryVars == <<library, documents, req, step, dense, lexical, fused, hits, answer, deleted>>

NoRequest == [top_k |-> 0, ann |-> FALSE]

QueryInit ==
    /\ library \in Libraries
    /\ documents = {DocumentOf[c] : c \in DOMAIN library}
    /\ req = NoRequest /\ step = "idle"
    /\ dense = <<>> /\ lexical = <<>> /\ fused = <<>> /\ hits = <<>>
    /\ answer = "none" /\ deleted = {}

-----------------------------------------------------------------------------
(* The plan. *)

(* The first intent whose cue occurs. *)
classify_intent(r) ==
    IF "summarize" \in r.cues THEN "summary"
    ELSE IF "compare" \in r.cues THEN "comparative"
    ELSE IF {"latest", "when"} \cap r.cues # {} \/ r.years # {} THEN "temporal"
    ELSE IF "quoted" \in r.cues THEN "exact"
    ELSE IF "who is" \in r.cues THEN "entity"
    ELSE "semantic"

Intent(r) == IF r.mode = "auto" THEN classify_intent(r) ELSE "semantic"

Mode(r) ==
    IF r.mode # "auto" THEN r.mode
    ELSE IF Intent(r) = "exact" THEN "lexical" ELSE "hybrid"

WeightVector(r) == CASE Intent(r) = "exact" -> 25 [] Intent(r) = "temporal" -> 35
                     [] OTHER -> 50
WeightFts(r) == 100 - WeightVector(r)

(* detect_temporal: "current" counts here, though it gives no intent. *)
Constraint(r) ==
    IF r.cues \cap {"latest", "current"} # {} THEN "latest"
    ELSE IF r.years = {} THEN "none" ELSE "years"

(* One year, or from the first to the last. *)
InRange(r, y) == \E a, b \in r.years : a <= y /\ y <= b

matches_constraint(r, c) == \E y \in library[c].years : InRange(r, y)

-----------------------------------------------------------------------------
(* The channels. *)

Doc(c) == DocumentOf[c]
Stored == {c \in DOMAIN library : Doc(c) \in documents}

(* filter_sql_parts: the conditions on a chunk and its document. *)
PassesParts(r, c) == r.docs = {} \/ Doc(c) \in r.docs

Mentions(d, names) == \E c \in Stored : Doc(c) = d /\ library[c].names \cap names # {}

(* candidate_ids: also that the document mentions an entity of the list. *)
candidate_ids(r) ==
    {c \in Stored : PassesParts(r, c) /\ (r.entities = {} \/ Mentions(Doc(c), r.entities))}

NoFilter(r) == r.docs = {} /\ r.entities = {}

Fetch(r) == Lesser(Greater(6 * r.top_k, MinFetch), MaxFetch)

(* lexical_search: every term must occur; how FTS5 ranks is not modelled.  *)
lexical_search(r) ==
    LET matching == {c \in candidate_ids(r) :
                        r.terms # {} /\ r.terms \subseteq library[c].terms}
    IN  {Truncate(s, Fetch(r)) : s \in SetToSeqs(matching)}

(* Mutant: dissimilar chunks are kept. *)
rank_dense_all(r, found) ==
    Truncate(ByScore([c \in found |-> cosine(r.dir, library[c].dir)]), Fetch(r))

rank_dense(r, found) ==
    LET similar == {c \in found : cosine(r.dir, library[c].dir) > 0}
    IN  Truncate(ByScore([c \in similar |-> cosine(r.dir, library[c].dir)]), Fetch(r))

(* all_embeddings: the filter on entities is not among the conditions. *)
all_embeddings(r) == {c \in Stored : library[c].dir # Zero /\ PassesParts(r, c)}

(* A request without filters may go to the index ... *)
UsesIndex(r) == r.ann /\ NoFilter(r)

(* ... which may miss some chunks (AnnIndex), and which the cache may take *)
(* for current although chunks it holds were deleted since (FingerprintExact *)
(* of SemanticIndex): it may find whatever was ever embedded.              *)
IndexedOnce == {c \in DOMAIN library : library[c].dir # Zero}

(* The index or a scan. *)
vector_search(r) ==
    IF UsesIndex(r)
    THEN {rank_dense(r, found) : found \in SUBSET IndexedOnce}
    ELSE {rank_dense(r, all_embeddings(r))}

Refuses(r) ==
    /\ ~UsesIndex(r)
    /\ Cardinality(all_embeddings(r)) > max_dense_scan

(* Mutant: the mentions of a deleted document stay. *)
chunks_for_any_entity(names) ==
    Listing({c \in DOMAIN library : library[c].names \cap names # {}}, Ascending)

(* The chunks that mention an entity of the query, by id; no filter. *)
chunks_for_entity(names) ==
    Listing({c \in Stored : library[c].names \cap names # {}}, Ascending)

-----------------------------------------------------------------------------
(* Fusion and boosts. *)

rrf_k == 60

Contribution(list, weight, c) ==
    IF c \in ToSet(list)
    THEN (1000 * weight) \div (rrf_k + CHOOSE i \in 1..Len(list) : list[i] = c)
    ELSE 0

EntityChannel == IF Mode(req) = "entity" THEN chunks_for_entity(req.names) ELSE <<>>

Rrf(c, entity) ==
    Contribution(dense, WeightVector(req), c) + Contribution(lexical, WeightFts(req), c)
        + Contribution(entity, 80, c)

Boosted(c, score) ==
    LET row == library[c] IN
    (score * row.authority) \div 10
        + (IF req.name \in row.phrases THEN 8000 ELSE 0)
        + (IF Mode(req) # "entity" /\ row.names \cap req.names # {} THEN 3000 ELSE 0)
        + 2000 * Cardinality(row.section \cap req.terms)

(* A list of [id, score], best first. *)
Sorted(scored) ==
    Listing(scored, {p \in scored \X scored :
                        \/ p[1].score > p[2].score
                        \/ p[1].score = p[2].score /\ p[1].id < p[2].id})

(* Term coverage, less for long texts: `damp` is sqrt(ln(length + 32)). *)
Coverage(c) ==
    LET row == library[c] IN
    (10000 * Cardinality(row.terms \cap req.terms))
        \div (Cardinality(req.terms) * row.damp)

(* The share of the window's span the coverage makes up. *)
Part(raws, raw) ==
    LET low == CHOOSE x \in raws : \A y \in raws : x <= y
        high == CHOOSE x \in raws : \A y \in raws : y <= x
    IN  IF high = low THEN 0 ELSE (100000 * (raw - low)) \div (high - low)

(* The first rerank_top_n are scored anew, half and half, and sorted among *)
(* themselves; the rest keep their scores and places.                      *)
rerank_lexical_overlap(list) ==
    LET window == {list[i] : i \in 1..Lesser(rerank_top_n, Len(list))}
        raws == {Coverage(s.id) : s \in window}
        Blend(s) == [id |-> s.id, score |-> (s.score + Part(raws, Coverage(s.id))) \div 2]
    IN  IF list = <<>> \/ rerank_top_n = 0 \/ req.terms = {} THEN list
        ELSE Sorted({Blend(s) : s \in window})
             \o SubSeq(list, Cardinality(window) + 1, Len(list))

-----------------------------------------------------------------------------
(* Diversity. *)

(* Of the candidates after the first Prefetch, and of chunks that are gone *)
(* by now, no embedding is known; an unknown one is similar to nothing.    *)
Direction(list, i) ==
    IF i <= Prefetch /\ list[i].id \in Stored THEN library[list[i].id].dir ELSE Zero

(* The greatest likeness of candidate i to a chosen one. *)
Likeness(list, chosen, i) ==
    LET sims == {0} \cup {cosine(Direction(list, i), Direction(list, j)) : j \in ToSet(chosen)}
    IN  CHOOSE x \in sims : \A y \in sims : y <= x

Marginal(list, chosen, i) ==
    mmr_lambda * list[i].score - (100 - mmr_lambda) * 1000 * Likeness(list, chosen, i)

(* The candidate whose relevance, less its likeness to a chosen one, is    *)
(* highest; the first of several.                                          *)
PickNext(list, chosen) ==
    LET left == 1..Len(list) \ ToSet(chosen)
    IN  CHOOSE i \in left : \A j \in left \ {i} :
            \/ Marginal(list, chosen, i) > Marginal(list, chosen, j)
            \/ Marginal(list, chosen, i) = Marginal(list, chosen, j) /\ i < j

mmr_select(list, k) ==
    IF k >= Len(list) \/ mmr_lambda = 100 THEN Truncate(list, k)
    ELSE LET chosen[n \in 0..k] ==
                 IF n = 0 THEN <<>>
                 ELSE Append(chosen[n - 1], PickNext(list, chosen[n - 1]))
         IN  [n \in 1..k |-> list[chosen[k][n]]]

Ranks(list) == [i \in 1..Len(list) |->
                   [id |-> list[i].id, score |-> list[i].score, rank |-> i]]

-----------------------------------------------------------------------------
(* Time. *)

ThisYear == 2026

temporal_score(c) ==      \* for "latest", in tenths
    LET years == library[c].years IN
    IF years = {} THEN 0
    ELSE LET age == ThisYear - CHOOSE y \in years : \A z \in years : z <= y
         IN  IF age <= 2 THEN 10 ELSE IF age <= 6 THEN 6 ELSE 3

Fresher(h) ==
    [id |-> h.id, score |-> h.score + 500 * temporal_score(h.id), rank |-> h.rank]

Meeting(list) == Retain(list, {i \in 1..Len(list) : matches_constraint(req, list[i].id)})

(* Mutant: a constraint no hit meets empties the answer. *)
temporal_strict(list) ==
    CASE Constraint(req) = "none" -> list
      [] Constraint(req) = "latest" -> Ranks(Sorted({Fresher(h) : h \in ToSet(list)}))
      [] OTHER -> Meeting(list)

(* "latest" lifts the recent hits (by 0.05 at most); years filter, unless  *)
(* nothing would be left, and the hits keep the ranks they had.            *)
temporal(list) ==
    CASE Constraint(req) = "none" -> list
      [] Constraint(req) = "latest" -> Ranks(Sorted({Fresher(h) : h \in ToSet(list)}))
      [] OTHER -> IF Meeting(list) = <<>> THEN list ELSE Meeting(list)

-----------------------------------------------------------------------------
(* Context: blocks [cite, id, size]. *)

BlockSize(c) == Lesser(library[c].len, SnippetChars)

Blocks(s, c) == Cardinality({i \in 1..Len(s.blocks) : Doc(s.blocks[i].id) = Doc(c)})

NoBlocks == [blocks |-> <<>>, used |-> 0, full |-> FALSE]

(* A document that has its share is passed over; a block that exceeds the  *)
(* budget ends the context.                                                *)
AddSnippet(s, c, cite) ==
    IF s.full \/ Blocks(s, c) >= req.max_per_document THEN s
    ELSE IF s.used + BlockSize(c) > req.context_budget THEN [s EXCEPT !.full = TRUE]
    ELSE [blocks |-> Append(s.blocks, [cite |-> cite, id |-> c]),
          used |-> s.used + BlockSize(c), full |-> FALSE]

(* Mutant: the citation is the number of the block, not of the hit. *)
assemble_renumbered(list) ==
    LET s[i \in 0..Len(list)] ==
            IF i = 0 THEN NoBlocks
            ELSE AddSnippet(s[i - 1], list[i].id, Len(s[i - 1].blocks) + 1)
    IN  s[Len(list)].blocks

assemble_context(list) ==
    LET s[i \in 0..Len(list)] ==
            IF i = 0 THEN NoBlocks ELSE AddSnippet(s[i - 1], list[i].id, i)
    IN  s[Len(list)].blocks

-----------------------------------------------------------------------------
(* The steps of a query. *)

Fail(error) == step' = "done" /\ answer' = error

query(r) ==
    /\ step = "idle"
    /\ req' = r
    /\ IF r.blank THEN Fail("empty query")
       ELSE /\ step' = IF Intent(r) = "summary" /\ Cardinality(r.docs) = 1
                       THEN "summary" ELSE "dense"
            /\ UNCHANGED answer
    /\ UNCHANGED <<library, documents, dense, lexical, fused, hits, deleted>>

(* The summary of the one document asked about, if it has one. *)
FastPath ==
    /\ step = "summary"
    /\ \E d \in req.docs :
          IF d \notin documents THEN Fail("no such document")
          ELSE IF d \in Summarized THEN step' = "done" /\ answer' = "summary"
          ELSE step' = "dense" /\ UNCHANGED answer
    /\ UNCHANGED <<library, documents, req, dense, lexical, fused, hits, deleted>>

SearchDense ==
    /\ step = "dense"
    /\ IF Mode(req) \in {"lexical", "entity"}
       THEN step' = "lexical" /\ UNCHANGED <<dense, answer>>
       ELSE IF Refuses(req) THEN Fail("too many chunks") /\ UNCHANGED dense
       ELSE /\ dense' \in vector_search(req)
            /\ step' = "lexical" /\ UNCHANGED answer
    /\ UNCHANGED <<library, documents, req, lexical, fused, hits, deleted>>

SearchLexical ==
    /\ step = "lexical"
    /\ IF Mode(req) \in {"vector", "entity"} THEN UNCHANGED lexical
       ELSE lexical' \in lexical_search(req)
    /\ step' = "entity"
    /\ UNCHANGED <<library, documents, req, dense, fused, hits, answer, deleted>>

SearchEntities ==
    /\ step = "entity"
    /\ fused' = [c \in ToSet(dense \o lexical \o EntityChannel) |-> Rrf(c, EntityChannel)]
    /\ step' = "rows"
    /\ UNCHANGED <<library, documents, req, dense, lexical, hits, answer, deleted>>

(* get_hit_row, one read per chunk: a row that is gone fails the query.    *)
LoadRows ==
    /\ step = "rows"
    /\ IF DOMAIN fused \subseteq Stored
       THEN /\ fused' = [c \in DOMAIN fused |-> Boosted(c, fused[c])]
            /\ step' = "select" /\ UNCHANGED answer
       ELSE Fail("chunk vanished") /\ UNCHANGED fused
    /\ UNCHANGED <<library, documents, req, dense, lexical, hits, deleted>>

(* Sort, re-rank, mmr_select and the temporal constraint.  The rows are in *)
(* memory; only the embeddings are read again.                             *)
Select ==
    /\ step = "select"
    /\ LET sorted == Sorted({[id |-> c, score |-> fused[c]] : c \in DOMAIN fused})
           ranked == IF Mode(req) = "entity" THEN sorted ELSE rerank_lexical_overlap(sorted)
       IN  hits' = temporal(Ranks(mmr_select(ranked, req.top_k)))
    /\ step' = "provenance"
    /\ UNCHANGED <<library, documents, req, dense, lexical, fused, answer, deleted>>

(* With provenance the document of each hit is read once more. *)
Respond ==
    /\ step = "provenance"
    /\ IF req.include_provenance /\ \E h \in ToSet(hits) : Doc(h.id) \notin documents
       THEN Fail("no such document")
       ELSE step' = "done" /\ answer' = "hits"
    /\ UNCHANGED <<library, documents, req, dense, lexical, fused, hits, deleted>>

(* delete_document by another thread. *)
DeleteDocument ==
    /\ step # "done"
    /\ \E d \in documents :
          /\ documents' = documents \ {d}
          /\ deleted' = IF step = "idle" THEN {} ELSE deleted \cup {d}
    /\ UNCHANGED <<library, req, step, dense, lexical, fused, hits, answer>>

QueryNext ==
    \/ \E r \in Requests : query(r)
    \/ FastPath \/ SearchDense \/ SearchLexical \/ SearchEntities
    \/ LoadRows \/ Select \/ Respond \/ DeleteDocument

QuerySpec == QueryInit /\ [][QueryNext]_queryVars

-----------------------------------------------------------------------------
(* Properties. *)

Answered == step = "done" /\ answer = "hits"

(* What the index found, and no statement of this query.                   *)
FromIndex == IF UsesIndex(req) THEN ToSet(dense) ELSE {}

(* A query fails for what it asks, or because the document of a chunk it   *)
(* found is gone: deleted under it, or, for a chunk from the index alone,  *)
(* before it.  A statement never finds what was deleted before, and what   *)
(* is deleted without being found fails nothing.                           *)
FailsForCause ==
    step = "done" /\ answer \notin {"hits", "summary"} =>
        \/ req.blank
        \/ answer = "no such document" /\ Intent(req) = "summary"
               /\ ~(req.docs \subseteq documents)
        \/ /\ answer = "too many chunks"
           /\ Cardinality({c \in DOMAIN library : PassesParts(req, c)}) > max_dense_scan
        \/ \E c \in DOMAIN fused :
               Doc(c) \notin documents /\ (Doc(c) \in deleted \/ c \in FromIndex)

Similar(c) == cosine(req.dir, library[c].dir) > 0
HasTerms(c) == req.terms # {} /\ req.terms \subseteq library[c].terms
NamesAny(c) == library[c].names \cap req.names # {}

(* The channels a mode searches. *)
Finds(c) ==
    CASE Mode(req) = "lexical" -> HasTerms(c)
      [] Mode(req) = "vector" -> Similar(c)
      [] Mode(req) = "hybrid" -> HasTerms(c) \/ Similar(c)
      [] Mode(req) = "entity" -> NamesAny(c)

(* The hits are top_k different chunks, or all that were found; each bears *)
(* on the query in the way of its mode; and what the terms match is among  *)
(* the candidates unless the channel is full.                              *)
HitsSound ==
    Answered =>
        /\ Cardinality({h.id : h \in ToSet(hits)}) = Len(hits)
        /\ \A h \in ToSet(hits) : Finds(h.id)
        /\ Constraint(req) # "years" =>
               Len(hits) = Lesser(req.top_k, Cardinality(DOMAIN fused))
        /\ Mode(req) \in {"lexical", "hybrid"} /\ Len(lexical) < Fetch(req) =>
               {c \in candidate_ids(req) : HasTerms(c)} \subseteq DOMAIN fused

(* A constraint in time never empties the answer; with years either every  *)
(* hit meets them or none does; "latest" keeps every hit, in the order of  *)
(* the raised scores; ranks grow from hit to hit.                          *)
TemporalGraceful ==
    Answered =>
        /\ DOMAIN fused # {} /\ req.top_k > 0 => hits # <<>>
        /\ Constraint(req) = "years" =>
               LET met == {h \in ToSet(hits) : matches_constraint(req, h.id)}
               IN  met \in {{}, ToSet(hits)}
        /\ Constraint(req) = "latest" =>
               \A i \in 1..Len(hits) :
                   /\ hits[i].rank = i
                   /\ i > 1 => hits[i].score <= hits[i - 1].score
        /\ \A i \in 2..Len(hits) : hits[i - 1].rank < hits[i].rank

(* A citation in the context is the place of its hit in the answer; blocks *)
(* keep to the budget and to each document's share; and a hit before the   *)
(* last block is left out only if its document has its share.              *)
ContextFaithful ==
    Answered =>
        LET blocks == assemble_context(hits)
            total[n \in 0..Len(blocks)] ==
                IF n = 0 THEN 0 ELSE total[n - 1] + BlockSize(blocks[n].id)
            Cited == {b.cite : b \in ToSet(blocks)}
            Share(d) == Cardinality({b \in ToSet(blocks) : Doc(b.id) = d})
        IN
        /\ \A b \in ToSet(blocks) : b.cite \in 1..Len(hits) /\ hits[b.cite].id = b.id
        /\ total[Len(blocks)] <= req.context_budget
        /\ \A d \in {Doc(b.id) : b \in ToSet(blocks)} : Share(d) <= req.max_per_document
        /\ \A b \in ToSet(blocks) : \A i \in 1..b.cite :
               i \in Cited \/ Share(Doc(hits[i].id)) = req.max_per_document

(* types.rs: "Filters restricting the candidate set."  Every hit satisfies *)
(* the filters of the request.                                             *)
FiltersHold ==
    Answered =>
        \A h \in ToSet(hits) :
            /\ PassesParts(req, h.id)
            /\ req.entities # {} =>
                   \E c \in DOMAIN library :
                       Doc(c) = Doc(h.id) /\ library[c].names \cap req.entities # {}
=============================================================================
