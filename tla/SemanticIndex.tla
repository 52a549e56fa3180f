---------------------------- MODULE SemanticIndex ----------------------------
(***************************************************************************)
(* The dense side of the engine: which embedding model is active, which    *)
(* model each chunk's vector came from and which one its label names, and  *)
(* the cache of the approximate-nearest-neighbour index.  Calls interleave *)
(* between SQL statements, and between the two locks of the LSA provider.  *)
(*                                                                         *)
(* A vector is abstracted to the space it lives in: 0 is the space of the  *)
(* hashing fallback, g that of the g-th trained model, and Truncated(g)    *)
(* that of the model read back from a save that was cut short.  A document *)
(* is one chunk.                                                           *)
(***************************************************************************)
EXTENDS Naturals, FiniteSets, FiniteSetsExt

CONSTANTS
    Actors,        \* the threads that make calls
    Calls,         \* Calls[a]: which calls thread a makes
    MaxChunks,     \* bound: chunk rows ever inserted
    MaxTrainings,  \* bound: models ever trained
    MinChunks,     \* semantic_min_chunks
    Batch,         \* BATCH, 256 in the code
    Faults         \* may a statement fail?

CallNames == {"ingest", "delete", "train", "reembed", "query"}

ASSUME SemanticAssumption ==
    /\ Calls \in [Actors -> SUBSET CallNames]
    /\ MaxChunks \in Nat
    /\ MaxTrainings \in Nat
    /\ MinChunks \in Nat
    /\ Batch \in Nat \ {0}
    /\ Faults \in BOOLEAN

VARIABLES
    rows,      \* the ids with a row in `chunks`
    label,     \* label[c]: column `embedding_model`
    space,     \* space[c]: the space of column `embedding`
    lastId,    \* the AUTOINCREMENT counter of `chunks`
    terms,     \* the space of the model in `lsa_terms`, 0 if it is empty
    meta,      \* the keys of `engine_meta` that describe the model
    trained,   \* the number of models trained so far
    up,        \* is the engine open?
    name,      \* LsaEmbedder.name_cache
    model,     \* LsaEmbedder.model: the space embed_batch maps into
    cache,     \* Inner.ann
    torn,      \* history: did a training stop between two of its writes?
    call       \* call[a]: the call thread a is in

chunkVars == <<rows, label, space, lastId>>
diskVars == <<terms, meta, trained>>
memVars == <<up, name, model, cache>>
mvars == <<chunkVars, diskVars, memVars, torn, call>>

Ids == 1..MaxChunks
Models == {"hash", "lsa"}              \* hashing-lex-v1 and lsa-pmi-svd-v1
Truncated(g) == MaxTrainings + g
Spaces == 0..(2 * MaxTrainings)
Vectors == Ids \X Spaces               \* (chunk id, vector) pairs

IngestSteps  == {"embed", "insert", "label"}
TrainSteps   == {"count", "clear_terms", "save_terms", "save_rest", "save_dim",
                 "meta_model", "meta_dim", "install_name", "install_model"}
ReembedSteps == {"list", "texts", "update"}
QuerySteps   == {"resolve", "cache", "ann_embed", "brute_embed", "scan", "search"}
Steps == {"delete"} \cup IngestSteps \cup TrainSteps \cup ReembedSteps \cup QuerySteps

(* The writes of a training that has begun and is not over. *)
SavingSteps == TrainSteps \ {"count", "clear_terms", "install_name", "install_model"}

(* What identifies a state of the corpus to the cache. *)
Fingerprints == [model : Models \cup {"none"}, count : 0..MaxChunks, max : 0..MaxChunks]
NoFingerprint == [model |-> "none", count |-> 0, max |-> 0]
NoCache == [of |-> NoFingerprint, index |-> {}]

Call(step, c, target) ==
    [at |-> step, chunk |-> c, vec |-> 0, target |-> target, todo |-> {},
     full |-> FALSE, seen |-> NoFingerprint, index |-> {}]
NoCall == Call("idle", 0, "none")
SemInit ==
    /\ rows = {}
    /\ label = [c \in Ids |-> "none"]
    /\ space = [c \in Ids |-> 0]
    /\ lastId = 0
    /\ terms = 0
    /\ meta = [model |-> "none", dim |-> "none", lsaDim |-> FALSE]
    /\ trained = 0
    /\ up = FALSE
    /\ name = "hash"
    /\ model = 0
    /\ cache = NoCache
    /\ torn = FALSE
    /\ call = [a \in Actors |-> NoCall]

-----------------------------------------------------------------------------
At(a, step) == call[a].at = step

Goto(a, step) == call' = [call EXCEPT ![a].at = step]

(* The call is over; what it had read or computed is dropped. *)
End(a, result) == call' = [call EXCEPT ![a] = Call(result, 0, @.target)]

Start(a, what, step, c, target) ==
    /\ up
    /\ what \in Calls[a]
    /\ At(a, "idle")
    /\ call' = [call EXCEPT ![a] = Call(step, c, target)]
    /\ UNCHANGED <<chunkVars, diskVars, memVars, torn>>

Return(a) ==
    /\ call[a].at \in {"ok", "err"}
    /\ call' = [call EXCEPT ![a] = NoCall]
    /\ UNCHANGED <<chunkVars, diskVars, memVars, torn>>

Saving(a) == call[a].at \in SavingSteps

(* A statement fails and `?` ends the call; the two installs are not SQL. *)
Fault(a) ==
    /\ Faults
    /\ call[a].at \in Steps \ {"install_name", "install_model"}
    /\ End(a, "err")
    /\ torn' = (torn \/ Saving(a))
    /\ UNCHANGED <<chunkVars, diskVars, memVars>>

-----------------------------------------------------------------------------
(* The life of the engine. *)

(* load_model: nothing without `lsa_dim` or with an empty `lsa_terms`. *)
Loaded == IF meta.lsaDim THEN terms ELSE 0
ActiveModel == IF Loaded = 0 THEN "hash" ELSE "lsa"

(* Lkos::open records the model of a new library and otherwise refuses one *)
(* whose recorded model or dimension is not that of the provider.          *)
Openable ==
    \/ meta.model = "none"
    \/ meta.model = ActiveModel /\ meta.dim = ActiveModel

Open ==
    /\ ~up
    /\ Openable
    /\ up' = TRUE
    /\ IF meta.model = "none"
       THEN /\ meta' = [meta EXCEPT !.model = "hash", !.dim = "hash"]
            /\ name' = "hash"
            /\ model' = 0
       ELSE /\ name' = ActiveModel
            /\ model' = Loaded
            /\ UNCHANGED meta
    /\ cache' = NoCache
    /\ UNCHANGED <<chunkVars, terms, trained, torn, call>>

(* The process ends, by a crash or because the last handle is dropped. *)
Stop ==
    /\ up
    /\ up' = FALSE
    /\ torn' = (torn \/ \E a \in Actors : Saving(a))
    /\ call' = [a \in Actors |-> NoCall]
    /\ UNCHANGED <<chunkVars, diskVars, name, model, cache>>

-----------------------------------------------------------------------------
(* The part of process_document that embeds and stores a chunk. *)

Embed(a) ==
    /\ At(a, "embed")
    /\ call' = [call EXCEPT ![a].at = "insert", ![a].vec = model]
    /\ UNCHANGED <<chunkVars, diskVars, memVars, torn>>

(* insert_chunk leaves `embedding_model` NULL ... *)
InsertChunk(a) ==
    /\ At(a, "insert")
    /\ lastId < MaxChunks
    /\ lastId' = lastId + 1
    /\ rows' = rows \cup {lastId + 1}
    /\ space' = [space EXCEPT ![lastId + 1] = call[a].vec]
    /\ label' = [label EXCEPT ![lastId + 1] = "none"]
    /\ call' = [call EXCEPT ![a].at = "label", ![a].chunk = lastId + 1]
    /\ UNCHANGED <<diskVars, memVars, torn>>

(* Mutant: the vector is replaced but its label is not. *)
KeepLabel(c, v) ==
    /\ space' = IF c \in rows THEN [space EXCEPT ![c] = v] ELSE space
    /\ UNCHANGED label

(* An UPDATE of the vector and its label, by id: name() is asked now. *)
WriteVector(c, v) ==
    /\ label' = IF c \in rows THEN [label EXCEPT ![c] = name] ELSE label
    /\ space' = IF c \in rows THEN [space EXCEPT ![c] = v] ELSE space

(* ... and update_chunk_artifacts sets it. *)
LabelChunk(a) ==
    /\ At(a, "label")
    /\ WriteVector(call[a].chunk, call[a].vec)
    /\ End(a, "ok")
    /\ UNCHANGED <<rows, lastId, diskVars, memVars, torn>>

(* delete_document; the chunks cascade. *)
DeleteChunk(a) ==
    /\ At(a, "delete")
    /\ rows' = rows \ {call[a].chunk}
    /\ label' = [label EXCEPT ![call[a].chunk] = "none"]
    /\ space' = [space EXCEPT ![call[a].chunk] = 0]
    /\ End(a, "ok")
    /\ UNCHANGED <<lastId, diskVars, memVars, torn>>

-----------------------------------------------------------------------------
(* train_semantic_index: count and read, train, save_model, two keys of    *)
(* engine_meta, install_model.  No transaction holds the writes together.  *)

TrainStep(a, from, to) ==
    /\ At(a, from)
    /\ Goto(a, to)
    /\ UNCHANGED <<chunkVars, up, cache>>

CountAndTrain(a) ==
    /\ At(a, "count")
    /\ \/ /\ Cardinality(rows) >= MinChunks
          /\ trained < MaxTrainings
          /\ trained' = trained + 1
          /\ call' = [call EXCEPT ![a].at = "clear_terms", ![a].vec = trained + 1]
       \/ /\ End(a, "ok")        \* below the minimum, or too small to factor
          /\ UNCHANGED trained
    /\ UNCHANGED <<chunkVars, terms, meta, memVars, torn>>

ClearTerms(a) ==
    /\ TrainStep(a, "clear_terms", "save_terms")
    /\ terms' = 0
    /\ UNCHANGED <<meta, trained, name, model, torn>>

SaveTerms(a) ==
    /\ TrainStep(a, "save_terms", "save_rest")
    /\ terms' = Truncated(call[a].vec)
    /\ UNCHANGED <<meta, trained, name, model, torn>>

SaveRest(a) ==
    /\ TrainStep(a, "save_rest", "save_dim")
    /\ terms' = call[a].vec
    /\ UNCHANGED <<meta, trained, name, model, torn>>

SaveDim(a) ==
    /\ TrainStep(a, "save_dim", "meta_model")
    /\ meta' = [meta EXCEPT !.lsaDim = TRUE]
    /\ UNCHANGED <<terms, trained, name, model, torn>>

RecordModel(a) ==
    /\ TrainStep(a, "meta_model", "meta_dim")
    /\ meta' = [meta EXCEPT !.model = "lsa"]
    /\ UNCHANGED <<terms, trained, name, model, torn>>

(* Mutant: the dimension keeps the value of the hashing model. *)
DimForgotten(a) ==
    /\ TrainStep(a, "meta_dim", "install_name")
    /\ UNCHANGED <<diskVars, name, model, torn>>

RecordDim(a) ==
    /\ TrainStep(a, "meta_dim", "install_name")
    /\ meta' = [meta EXCEPT !.dim = "lsa"]
    /\ UNCHANGED <<terms, trained, name, model, torn>>

(* Mutant: only the name is installed. *)
NameOnly(a) ==
    /\ At(a, "install_model")
    /\ End(a, "ok")
    /\ UNCHANGED <<chunkVars, diskVars, memVars, torn>>

InstallName(a) ==
    /\ TrainStep(a, "install_name", "install_model")
    /\ name' = "lsa"
    /\ UNCHANGED <<diskVars, model, torn>>

InstallModel(a) ==
    /\ At(a, "install_model")
    /\ End(a, "ok")
    /\ model' = call[a].vec
    /\ UNCHANGED <<chunkVars, diskVars, up, name, cache, torn>>

-----------------------------------------------------------------------------
(* reembed_stale_chunks(target). *)

(* Mutant: `!=`, which is not true of a NULL. *)
StaleLabelled(target) == {c \in rows : label[c] \notin {target, "none"}}

(* `embedding_model IS NOT ?1` also selects the rows without a label. *)
Stale(target) == {c \in rows : label[c] # target}

FirstOf(S, n) == {c \in S : Cardinality({d \in S : d < c}) < n}

ListStale(a) ==
    LET batch == FirstOf(Stale(call[a].target), Batch) IN
    /\ At(a, "list")
    /\ IF batch = {}
       THEN End(a, "ok")
       ELSE call' = [call EXCEPT ![a].at = "texts", ![a].todo = batch,
                                 ![a].full = (Cardinality(batch) = Batch)]
    /\ UNCHANGED <<chunkVars, diskVars, memVars, torn>>

(* Read the texts, which fails if a chunk is gone by now, and embed them. *)
ReadTexts(a) ==
    /\ At(a, "texts")
    /\ IF call[a].todo \subseteq rows
       THEN call' = [call EXCEPT ![a].at = "update", ![a].vec = model]
       ELSE End(a, "err")
    /\ UNCHANGED <<chunkVars, diskVars, memVars, torn>>

(* One chunk of the batch; a short batch is the last one. *)
UpdateChunk(a) ==
    LET c == Min(call[a].todo)
        rest == call[a].todo \ {c}
    IN
    /\ At(a, "update")
    /\ WriteVector(c, call[a].vec)
    /\ IF rest = {} /\ ~call[a].full
       THEN End(a, "ok")
       ELSE call' = [call EXCEPT ![a].todo = rest,
                                 ![a].at = IF rest # {} THEN "update" ELSE "list"]
    /\ UNCHANGED <<rows, lastId, diskVars, memVars, torn>>

-----------------------------------------------------------------------------
(* query, up to the rows of its hits. *)

Labelled(m) == {c \in rows : label[c] = m}
Corpus(m) == {<<c, space[c]>> : c \in Labelled(m)}                \* all_embeddings
Fingerprint(m) ==
    [model |-> m, count |-> Cardinality(Labelled(m)),
     max |-> IF Labelled(m) = {} THEN 0 ELSE Max(Labelled(m))]

(* resolve_ann_index reads the name and the fingerprint; a filtered query  *)
(* and one over an empty corpus scan the table.                            *)
Resolve(a) ==
    /\ At(a, "resolve")
    /\ \/ /\ Labelled(name) # {}
          /\ call' = [call EXCEPT ![a].at = "cache", ![a].seen = Fingerprint(name)]
       \/ Goto(a, "brute_embed")
    /\ UNCHANGED <<chunkVars, diskVars, memVars, torn>>

(* Mutant: the index is built for the model that is active now. *)
CacheOfNow(a) ==
    /\ At(a, "cache")
    /\ cache' = IF cache.of = call[a].seen THEN cache
                ELSE [of |-> call[a].seen, index |-> Corpus(name)]
    /\ call' = [call EXCEPT
                   ![a].at = IF cache'.index = {} THEN "brute_embed" ELSE "ann_embed",
                   ![a].index = cache'.index]
    /\ UNCHANGED <<chunkVars, diskVars, up, name, model, torn>>

(* Under the lock: the cached index if its fingerprint is the one read,    *)
(* else one built from the vectors of now, filed under that fingerprint.   *)
UseCache(a) ==
    /\ At(a, "cache")
    /\ cache' = IF cache.of = call[a].seen THEN cache
                ELSE [of |-> call[a].seen, index |-> Corpus(call[a].seen.model)]
    /\ call' = [call EXCEPT
                   ![a].at = IF cache'.index = {} THEN "brute_embed" ELSE "ann_embed",
                   ![a].index = cache'.index]
    /\ UNCHANGED <<chunkVars, diskVars, up, name, model, torn>>

EmbedQuery(a) ==
    /\ call[a].at \in {"ann_embed", "brute_embed"}
    /\ call' = [call EXCEPT ![a].vec = model,
                   ![a].at = IF call[a].at = "ann_embed" THEN "search" ELSE "scan"]
    /\ UNCHANGED <<chunkVars, diskVars, memVars, torn>>

Scan(a) ==
    /\ At(a, "scan")
    /\ call' = [call EXCEPT ![a].at = "search", ![a].index = Corpus(name)]
    /\ UNCHANGED <<chunkVars, diskVars, memVars, torn>>

(* The hits are some of the index; get_hit_row fails for one that is gone. *)
Search(a) ==
    /\ At(a, "search")
    /\ \/ End(a, "ok")
       \/ (\E p \in call[a].index : p[1] \notin rows) /\ End(a, "err")
    /\ UNCHANGED <<chunkVars, diskVars, memVars, torn>>

-----------------------------------------------------------------------------
StartCall(a) ==
    \/ lastId < MaxChunks /\ Start(a, "ingest", "embed", 0, "none")
    \/ \E c \in rows : Start(a, "delete", "delete", c, "none")
    \/ Start(a, "train", "count", 0, "none")
    \/ \E m \in Models : Start(a, "reembed", "list", 0, m)
    \/ Start(a, "query", "resolve", 0, "none")

ReembedStep(a) == ListStale(a) \/ ReadTexts(a) \/ UpdateChunk(a)

CallStep(a) ==
    \/ Embed(a) \/ InsertChunk(a) \/ LabelChunk(a) \/ DeleteChunk(a)
    \/ CountAndTrain(a) \/ ClearTerms(a) \/ SaveTerms(a) \/ SaveRest(a)
    \/ SaveDim(a) \/ RecordModel(a) \/ RecordDim(a)
    \/ InstallName(a) \/ InstallModel(a)
    \/ ReembedStep(a)
    \/ Resolve(a) \/ UseCache(a) \/ EmbedQuery(a) \/ Scan(a) \/ Search(a)

SemNext ==
    \/ Open \/ Stop
    \/ \E a \in Actors : StartCall(a) \/ CallStep(a) \/ Fault(a) \/ Return(a)

SemSpec == SemInit /\ [][SemNext]_mvars

(* A thread that is in a call goes on with it. *)
SemFairSpec == SemSpec /\ \A a \in Actors : WF_mvars(CallStep(a))

-----------------------------------------------------------------------------
(* Properties. *)

(* The lineage of a chunk is truthful: its label names the model its       *)
(* vector was made with.                                                   *)
LabelsTruthful ==
    \A c \in rows :
        /\ label[c] = "hash" => space[c] = 0
        /\ label[c] = "lsa" => space[c] # 0

(* The vectors of a list of (chunk, vector) pairs were made by model m. *)
MadeBy(m, pairs) == \A p \in pairs : p[2] = 0 <=> m = "hash"

(* The cached index holds vectors of the model it is filed under and of no *)
(* other, and so does the one a query took out, although the query asked   *)
(* for the model and for the index in two steps, and a training may end,   *)
(* an ingestion label its chunk and another query replace the index        *)
(* between them; a scan too reads vectors of one model.                    *)
IndexOfOneModel ==
    /\ MadeBy(cache.of.model, cache.index)
    /\ \A a \in Actors :
           /\ At(a, "ann_embed") => MadeBy(call[a].seen.model, call[a].index)
           /\ At(a, "search") => \E m \in Models : MadeBy(m, call[a].index)

(* dao.rs: "so the dense channel never compares vectors across embedding   *)
(* spaces".  A dense search compares the vector of the query with vectors  *)
(* of the same space, whether it scans the table or uses the index.        *)
OneSpacePerQuery ==
    \A a \in Actors : At(a, "search") => \A p \in call[a].index : p[2] = call[a].vec

(* A re-embedding for the active model that returns has migrated every     *)
(* chunk, those whose ingestion stopped before their label included.       *)
ReembedMigrates ==
    \A a \in Actors :
        At(a, "ok") /\ call[a].target = name => \A c \in rows : label[c] = name

(* A library that is closed can be opened again, after any crash and any   *)
(* failure that did not cut a training short.                              *)
OpensUnlessTorn == ~up /\ ~torn => Openable

(* The fingerprint of the cache is exact: an index it declares current     *)
(* holds the chunks and the vectors of the table.                          *)
FingerprintExact ==
    cache # NoCache /\ cache.of = Fingerprint(cache.of.model)
        => cache.index = Corpus(cache.of.model)

(* A re-embedding for the active model ends: the last batch is a short one.*)
ReembedReturns ==
    \A a \in Actors :
        call[a].at \in ReembedSteps /\ call[a].target = name
            ~> call[a].at \notin ReembedSteps
=============================================================================
