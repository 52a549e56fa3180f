# A TLA+ model of LKOS

LKOS (`src/README.md`) is an embedded knowledge engine: a Rust library over one
SQLite file that ingests documents, splits them into chunks, derives entities,
claims and a graph from them, embeds the chunks, and answers queries from all of
it. This directory holds TLA+ specifications of its components, the TLC
configurations that check them on small instances, and TLAPS proofs for all
instances: of the queue, the retry clock, the documents, background ingestion, the
semantic index, the migrations, the knowledge graph, claims, traversal and queries.

Paths below are relative to `src/`, the repository; the crate's own sources are
therefore `src/...` within it.

## 1. The system

### 1.1 Components

| component | state it keeps | operations | modelled in |
|---|---|---|---|
| Job queue and workers (`src/jobs`, `src/engine.rs` `start_workers`, `open`, `close`) | rows of `jobs`: status, attempts, `run_at`; worker threads; the shutdown flag | enqueue, claim, complete, fail/retry/dead-letter, cancel, recover, close | `JobQueue`, `JobLifecycle` |
| Retry timing (`src/jobs/mod.rs`) | `run_at` as text, the clock | backoff, text comparison in the claim | `RetryClock` |
| Document lifecycle (`src/engine.rs` `ingest_*`, `process_document`, `delete_document`) | `documents` (hash, readiness, pending text), `chunks`, rows derived from them | ingest, process, summarise, delete | `DocumentStore` |
| Background ingestion | the two above | a worker makes the call its job names | `Ingestion` |
| Embedding provider, semantic index (`src/embeddings`, `train_semantic_index`, `reembed_stale_chunks`) | the active model and its name, `lsa_terms`, `engine_meta`, the vector and label of each chunk | embed, train, install, persist, reload, re-embed | `SemanticIndex` |
| ANN index and its cache (`src/ann.rs`, `resolve_ann_index`) | the HNSW graph; one cached index and its fingerprint | insert, prune, search; build, reuse, fall back to a scan | `AnnIndex` (graph), `SemanticIndex` (cache) |
| Storage and migrations (`src/storage/mod.rs`) | the schema, `user_version`, open connections | open, migrate, heal, stamp | `Migrations` |
| Entities and relationships (`src/entities`, `src/graph`) | entities, aliases, mentions, counters, edges | resolve, persist, merge, delete, recompute, traverse | `KnowledgeGraph`, `GraphTraversal` |
| Claims (`src/claims`) | claims, conflicts | persist, compare, delete | `Claims` |
| Chunking (`src/chunking`) | none | blocks, aggregate, split, merge | `Chunking` |
| Retrieval (`src/retrieval`), query, context, time (`src/query`, `src/temporal`) | none between queries | plan, channels, fusion, boosts, re-ranking, MMR, temporal constraint, context | `Query`, `Ranking` |
| Extraction (`src/knowledge`), format parsing (`src/ingestion`) | none | regular expressions, parsers | no |
| Events, LLM providers, configuration, CLI, benchmarks | subscriber list; none | emit; generate; — | no, or as an outcome |

### 1.2 How they interact

* There is no shared in-memory model of the library. Every call opens its own
  SQLite connection (`Store::open`), and, except for the claim of a job and the
  DDL batches of a migration, **every statement is a transaction of its own**.
  Threads meet in the database only, and at any statement boundary. This is the
  grain of the actions below.
* In-memory state shared between threads: the shutdown flag, the list of worker
  handles, the embedding provider (one lock for the model, one for its name), the
  ANN cache (a lock) and the event bus.
* With `synchronous_ingestion` the caller runs the pipeline itself; otherwise
  the ingesting call enqueues a `process_document` job and a worker runs it.
  Delete, train and re-embed can also be made jobs.
* Several engines (handles, or processes) may open one file.
* A query reads the same tables while other threads write and delete.

### 1.3 What is hard, and what makes each component correct

| component | hard behaviour | correct means |
|---|---|---|
| queue | claims racing, crashes with rows running, attempts read and written by two statements, lost reports, close racing a claim, a second engine recovering live jobs | a job runs once at a time; is settled once and for good; attempts are counted; none is stranded; close leaves nothing running |
| retry clock | seconds and milliseconds compared as text | never early, never more than a second late |
| documents | deletion beside processing, two processings, failure or crash between commits | ready means complete; deleted means gone; unfinished can still be finished |
| ingestion | all of the above under retries | `done` is true; a stored text has a job; every document becomes ready |
| semantic index | training installs a model while vectors exist; restart with half-written model; re-embedding in batches beside deletion | labels name the model of their vector; the vectors a query compares are of one model; a library reopens |
| ANN | pruning when a node links back; a cache keyed by count and maximum only | the graph stays searchable, a wide search is exact on what its links reach; a cached index declared current is the table |
| migrations | crash, failing statement or second opener between a batch and its stamp; stale stamps | the stamp claims only what is there; an open library has the whole schema; no file becomes unopenable |
| entities, edges | documents with the same new name side by side; counters raised and lowered by different rules; wipe-and-rebuild of edges; merges cut short | edges are what the mentions show; counters cover the documents; names resolve to what they resolved to |
| claims | window, cap and two kinds of conflict | each conflict is a disagreement, once per pair, and the caps hide none within the window |
| chunking | passes that split and join what earlier passes made | no text lost or repeated, sizes bounded, section and offsets right |
| queries | a document deleted between two reads; channels cut at different lengths; filters written in several places | a query fails only for its cause; hits are relevant, distinct, within the filters; citations name their hits |

`PROJECT.json` lists the hazards, each at the line where it bites, with the
properties that cover it or the reason none does.

## 2. The modules

    JobLifecycle  <----implements----  JobQueue
                                          ^
                                          |implements
                      Ingestion = JobQueue + DocumentStore
    SemanticIndex      KnowledgeGraph
    MCFailures = Ingestion, with failures or live, one at a time
    MCStores = DocumentStore, KnowledgeGraph, one at a time
    MCParts = RetryClock, Chunking, Claims, GraphTraversal, AnnIndex, Query, Migrations
              (AnnIndex, Query use Ranking; Ranking, Claims, GraphTraversal use Lists)

The theorems about a module `M` and their proofs are in `MProofs`: `JobQueueProofs`,
`DocumentStoreProofs`, `IngestionProofs` (which extends the first and the third),
`SemanticIndexProofs`, `KnowledgeGraphProofs`. `PartsProofs` has those about `RetryClock`,
`Migrations`, `Claims` and `GraphTraversal`, `RetrievalProofs` those about `Query` and
`AnnIndex`. Both extend `ListsProofs`, the lemmas about `Lists` and `Ranking`.
`MCJobQueue`, `MCIngestion`, `MCFailures` (background ingestion, with
failures, and without), `MCSemanticIndex`, `MCStores` (documents and the knowledge graph) and `MCParts` give
the constants their values. `PROJECT.json`
("map") gives the lines each definition translates. Definitions marked *Mutant* in
a comment are plausible bugs; they are used by no specification and show that each
property can fail.

### 2.1 `JobQueue`

One row of `jobs` per `j \in Jobs`, one program counter per worker thread.
Columns are functions (`status`, `kind`, `attempts`); `run_at` is reduced to "in
the future" (`hidden`), and `RetryClock` has the clock. The history variable
`lost` appears in no guard. Of a payload only what decides how long a job can run is kept: a
`reembed_stale` job for another target than the active model (`engine.rs:1069`, `""` without a
payload) has the kind `reembed_other`.

| action | code |
|---|---|
| `Enqueue`, `CancelJob` | `enqueue_job`, `cancel_job` (an UPDATE of pending rows only) |
| `Open` | `Lkos::open`: `recover_running_jobs`, then the workers are spawned; also a handle that was closed and is opened again |
| `BeginClose`, `FinishClose` | `Lkos::close`: the flag; then the join and `cancel_pending`, which changes nothing if the store cannot be opened or the UPDATE fails |
| `Crash` | the process ends: threads vanish, rows stay |
| `LoopHead`, `Claim`, `Idle` | the worker loop; `claim_next_atomic` is one IMMEDIATE transaction, ordered by priority and id |
| `Work`, `Trained` | `process_job`, by its outcome |
| `StopCancelled`, `StartBatch`, `NextBatch`, `LastBatch` | `reembed_stale_chunks`, which polls the row's status before each batch |
| `ReadAttempts`, `Settle` | `complete` and `fail_and_maybe_retry`: a SELECT, then an UPDATE by id that does not look at the status |
| `LoseReport` | the worker ignores the error of either statement |

`JobLifecycle` is the promise: a job is taken by one executor, reports count as
attempts, `MaxTries` failures dead-letter it, final states are final.
`ImplementsLifecycle` instantiates it with `executors` computed from the threads.

### 2.2 `RetryClock`

One job and a clock of seconds and milliseconds. `run_at` of a retry is printed
without a fraction and compared as text, where `'Z'` sorts after `'.'`; the model
gives a text without a fraction a millisecond value past the last. `due` is the
moment the backoff really ends (history). The clock does not go backwards.

### 2.3 `DocumentStore`

A call is a record: the step it is at, its document, its content, the number
of chunks it has gone through. `ingest` is find, insert, set text, dispatch;
`process_document` is get, take text (SELECT and UPDATE), indexing, per chunk
insert and provenance, per chunk entities and claims, ready, and the optional
summary; `delete_document` is one step per table, then the edges. Tables that reference
`documents` cascade with its row (`chunkRows`); mentions, claims and provenance
do not (`derived`), and `insert_chunk` is refused by its foreign key once the
row is gone, while the inserts into `derived` are not. `Fault` lets the statement of
a step in `FaultSteps` fail and ends the call with the error.

Abstractions: a content is a model value (the SHA-256 of the bytes); the `path`
column and its update are left out; every document has `Chunks` chunks, at least
one; which rows a table holds is reduced to whether it has any that name the
document, so a chunk of the code with no entity or claim is not told apart.

### 2.4 `Ingestion`

Conjunction of the two: `Dispatch` ends a call with an `Enqueue` in the same
step as the job's payload, `ClaimCall` begins the call a job names,
`CallReturned` turns the result of the call into the outcome of the job,
`ProcessDies` ends every call with the process. `ImplementsQueue == Spec` states
that every step of the composition is a step of `JobQueue`, which is what
makes the queue's theorems apply to it: the composition assumes `OneEngine`.

### 2.5 `SemanticIndex`

A vector is reduced to the space it lives in: 0 for the hashing model, `t` for the
`t`-th training, a truncated space for a model whose terms were saved in part.
A chunk has a space and a label (`embedding_model`). `terms` and `meta` are on
disk; `name` and `model` are the two locks of the provider; `cache` is the ANN
cache. Ingestion is three steps (embed, insert with a NULL label, label with
the name the provider has *then*), training is nine (each commit and each lock on
its own), re-embedding is list, read and embed, update one by one, and a query
is fingerprint, cache, embed, search or scan. `Open` loads the model and refuses
a library whose recorded model or dimension is not the loaded one. `torn`
remembers that a training was cut short between its commits. Two properties speak of the
vectors a query compares: `IndexOfOneModel`, that they were made by one model, the one
whose index was asked for, is kept; `OneSpacePerQuery`, that they are of the space of the query's
own vector, is not (3.3).

### 2.6 `Migrations`

The file is its tables, the columns `ALTER TABLE` added and its `user_version`; a
connection is a record with its place in the loop of `migrate`, the stamp it
read before the loop and the state of its transaction (`clean`, `behind`: its
snapshot is stale, `writing`: it holds the lock). `ReadVersion`,
`ProbeSignature`, `ExecBatch`, `Heal`, `Stamp` are the loop; `StampInside` is the stamp
of a connection whose failed batch left its transaction open, which commits
nothing and is refused from a stale snapshot; `Busy` is `busy_timeout` running out;
`Disconnect` is a drop or a death. `MigInit` is every file with the first `k` batches
and a stamp of at most `k`, and one of a newer build. The five batches are those of
`src/storage/schema.rs` by table and column.

### 2.7 `KnowledgeGraph`

`entities`, `entity_aliases`, `entity_mentions` and `relationships` as sets and functions. A
call of `process_document` resolves and records one surface at a time
(`Resolve`, `RecordKnown`, `RecordNew`), then counts and links the chunk;
`delete_document` lowers the counters, deletes mentions and row, and recomputes;
`merge_entities` is `MoveAliases` ... `DropEntity`, each a commit of
`merge_entity_rows`, and a recomputation. `WipeEdges` and `RebuildEdges` are
`recompute_relationships_for_entities`. Foreign keys and their cascades are in the actions.
`canonical_key` and Jaro-Winkler are constants (`Key`, `Alike`). A document is the chunks in
which a surface was found; the others do nothing to these tables. Two constants
say which calls may overlap and which may be cut short; section 3.3 says why.

### 2.8 The parts of `MCParts`

Seven parts of the engine, `RetryClock` and `Migrations` among them, share no state with
one another in these models. `MCParts` puts them into one instance: `part` chooses which
of them moves, the others stay as they begin, so that the state space is the sum of
the seven, not their product.

* `Chunking`: a document grows line by line; `chunk_document` is an operator on it.
  A line has a kind, a length and whether it ends a sentence; a text is a
  sequence of line references with separators, so that lost or repeated text shows.
* `Lists` and `Ranking` are what the parts use of SQL and of Rust's vectors: ORDER BY
  (`Listing` puts an element at the place of its rank), LIMIT and `truncate`, filter and
  `collect` (`Retain`), the cosine. None of them is a fold or recursive.
* `Claims`: claims arrive and documents are deleted in any order;
  `persist_claim` compares, `parse_first_number` reads amounts as the code does.
* `GraphTraversal`: `traverse` on any weighted graph, one SELECT per step, any order
  among equal weights.
* `AnnIndex`: `insert_node`, `link`, `select_neighbors`, `search_layer`, `search` on
  vectors that are directions in the plane (`Ranking!cosine`). Levels are a constant and the
  order of insertion is any, where the code hashes both. The loops are functions of the
  number of steps: a descent moves to nearer nodes only and a node is a candidate once, so
  as many steps as there are nodes are enough. A step after the loop has ended changes nothing.
* `Query`: a query is `query`, `FastPath`, `SearchDense`, `SearchLexical`, `SearchEntities`,
  `LoadRows`, `Select`, `Respond`; `DeleteDocument` may happen between any two. The order of
  FTS5's matches is any; scores are integers. A chunk is the words, years, names and
  phrases the code looks for in it. A search of the ANN index (`UsesIndex`) finds any of the
  chunks that were ever embedded, deleted ones included: the cache may take an old index for
  current (`FingerprintExact` fails), and the index may miss what it has (`AnnSound`).

## 3. What TLC checks

Twelve runs. "Violation" runs check one statement of the repository's docs or comments
that the code does not keep; `PROJECT.json` ("findings") quotes them.

| run | instance | shows |
|---|---|---|
| `job_queue` | 1 engine, 2 workers, 2 jobs, 3 kinds, 2 attempts | `TypeOK`, `ExclusiveRun`, `NoStrandedJob`, `ClosedMeansIdle`, `AttemptsAccounted`, `SettledIsFinal`, the refinement of `JobLifecycle`, and the liveness property `PendingSettles` |
| `job_queue_closes` | 2 engines, 1 worker each, one bulk job, for the active model or another, 2 attempts | `CloseReturns`, also for a bulk job that was requeued under its worker and cancelled |
| `job_queue_double_claim` (violation) | 2 engines, 1 worker each | `ExclusiveRun` fails: opening the second engine requeues the job the first one is executing |
| `stores`, documents | 2 callers (symmetric), 1 content, 2 rows, 2 chunks, a summary that may fail, statements that fail where a call can fail without consequences (`HarmlessFaults`) | `ReadyIsComplete`, `UnfinishedHasText` |
| `stores`, graph | 2 callers (symmetric), 2 documents with 3 chunks, 5 surfaces of 4 keys, 4 entity rows, 1 merge that may be cut short | `EdgesExact`, `CountCoversDocuments`, `ResolutionStable`, `MergeKeepsMentions` |
| `ingestion`, failures | 1 worker, 1 client, 2 rows, 2 jobs, 2 attempts, every event, any statement may fail | `DoneIsTrue`, `ChunksStoredOnce`, `DeletionIsReal` (deletion as a job), `ImplementsQueue` |
| `ingestion`, live | 1 worker, 1 client that deletes and processes, 2 rows, lost reports | `LiveTextHasJob`, `LiveIngestedBecomesReady` (`TextHasJob` and `IngestedBecomesReady` of this instance) |
| `ingestion_crash` (violation) | one document and a crash | `UnfinishedHasText` fails: the text is cleared before any chunk exists |
| `semantic_index` | a thread that ingests, trains and re-embeds and one that deletes and queries; 2 chunks, 2 trainings, batches of 2, faults and restarts | `LabelsTruthful`, `IndexOfOneModel`, `ReembedMigrates`, `OpensUnlessTorn`, `ReembedReturns` |
| `semantic_retraining` (violation) | one thread, 2 trainings, no faults or restarts | `OneSpacePerQuery` fails: the second model has the name of the first, and so its vectors |
| `semantic_cache` (violation) | one thread, 4 chunks, no faults | `FingerprintExact` fails: same count and maximum, different chunks |
| `parts` | the seven parts of 2.8; for `Migrations` 2 connections, all five batches, files of every version and stamp, faults, drops | `NeverEarly`, `AtMostASecondLate`; `ChunksSound`; `ConflictsJustified`; `TraversalSound`; `AnnSound`; `FailsForCause`, `HitsSound`, `TemporalGraceful`, `ContextFaithful`; `StampTrue`, `OpenedIsCurrent`, `NeverUnopenable`, `OpenReturns` |
| `query_filters` (violation) | the query part alone | `FiltersHold` fails: the entities filter reaches the lexical channel only |
| `chunking_leading` (violation) | the chunking part alone | `LeadingLinesAttach` fails: code before the first line that opens a block is in no block |

### 3.1 The bounds and why they are enough

* *Jobs and workers.* Two workers are enough for a race on a claim, two jobs for
  an order between them and for one to be pending while the other runs. Two
  attempts give a retry, a retry after a recovery and a dead letter. The proofs
  in section 5 remove these bounds for the safety properties.
* *Retry clock.* Five ticks have a first, a last and middle moments of a
  second; the delay reaches its cap at the third failure. The proofs remove these.
* *Documents.* Two rows let a content be ingested, deleted and ingested again;
  two chunks make the loops go round and enable the summary, which asks for two.
  `MaxDocs` acts as a full disk: `InsertDocument` fails at it.
* *Ingestion.* One worker and one client are already two threads on one
  document; two attempts give a failure, a retry and a dead letter.
* *Semantic index.* Two chunks with batches of two give a full batch, a short one, and an
  empty one after a full one. Two trainings give all three models a query can meet: hashing, the
  first and the second, whose install can come between any two steps of a query.
* *Migrations.* Two connections race on every statement, and each may drop and come
  back any number of times; the batches and stamps are all of the code's, not a sample.
* *Knowledge graph.* The surfaces are two of one key, one that is similar only, one that
  an alias alone resolves and one unrelated, so every stage of resolution is used; one
  document mentions an entity in two chunks, which is where counters and mentions part. One merge
  has a time before it, every place it can be cut at and a time after it, with deletions and
  processings in each; the proofs of 5.7 are for any number.
* *Chunking.* Five lines with a limit of eight characters make sections that are merged,
  split, and split pieces that are merged again; limit and minimum are close so that
  both passes meet in five lines.
* *Claims.* Four claims with a window of three (itself and two) and a cap of one
  overflow both; the amounts agree, differ, are written with a comma, and are absent.
* *Traversal.* Every graph on four entities with two weights, so that a walk can have
  three levels; depth is clamped from below and above; a limit of one cuts, one of
  three cuts nothing. `LevelsAreDistances` measures distance by the paths of the graph.
* *ANN.* `M = 2` makes lists overflow at the fifth neighbour; the corpora are a spread
  one, one of duplicates with an opposite, and one with a zero vector; three levels.
* *Query.* Four chunks of three documents, top-k from 1 to 3, a prefetch and a re-ranking
  window smaller than the hits, a dense limit of three, and nine requests that between
  them use every mode, both temporal constraints, the summary path and both filters.

### 3.2 Deadlock

Runs with bounded counters stop when the bounds are reached, and a library may
stay closed or a thread idle for good; where the system may really stop, the
configuration says `CHECK_DEADLOCK FALSE`.

### 3.3 Conditions under which the properties hold

The properties above hold under conditions that are part of the result. Without
them the models show the following, none of which is a run of its own.

Queue and documents:

* A running bulk job cannot be cancelled: `cancel_job` updates pending rows only, and the
  status that `reembed_stale_chunks` polls becomes `cancelled` only if a second engine
  requeued the row first
  (`src/jobs/mod.rs:11-12` and `docs/INCREMENTAL_INDEXING.md:24-25` say it is honoured).
* `close` cancels pending jobs, `process_document` included, for good
  (`docs/THREAT_MODEL.md:32` says so); `TextHasJob` and `IngestedBecomesReady`
  are checked without `close`.
* `ChunksStoredOnce` is checked with processing by one worker. Two callers of
  `process_document` for one document can both read the pending text before
  either clears it (`dao.rs:1114`), and its chunks are then stored twice.
* `DeletionIsReal` is checked with deletions that run as jobs beside one worker. A
  deletion beside a running enrichment leaves the mentions, claims and provenance that
  are written after the DELETE of their table (`docs/SECURITY_PRIVACY.md:26`).
* After a `delete_document` that failed half-way, a document is ready and has
  lost rows; after a `process_document` that failed between taking the text and
  marking the document ready, or an ingestion that failed to store the text,
  an unfinished document has no text. `HarmlessFaults` is what remains: the
  steps of which the run shows that a failure there breaks neither
  `ReadyIsComplete` nor `UnfinishedHasText`.

Semantic index and ANN:

* `LabelsTruthful` is checked with one thread that ingests and trains. A training
  beside an ingestion can install its model between the embedding of a chunk and
  the question for the model's name (`engine.rs:361`): the vector is mislabelled.
* A second training keeps the name of the first one's model, so its predecessor's vectors
  count as current, queries compare theirs with them, and `reembed_stale_chunks` finds nothing to
  do (run `semantic_retraining`). `IndexOfOneModel` is what is kept: vectors of hashing and of a
  training never meet in one index. With a training beside a query the query's own vector can
  be of the model installed since its index was resolved.
* `ReembedReturns` speaks of the active model. With any other target (`""` for a job without
  a model, `engine.rs:1069`) and at least a full batch of chunks the loop writes the active model's
  label and never sees a short batch: its job never settles, its worker does nothing else, and
  `close` waits for it for ever. `PendingSettles` and `CloseReturns` except that case by name
  (`NoEndlessSweep`, kind `reembed_other`) and hold when such a sweep does end.
* A cached index that is taken for current may hold deleted chunks. A query that finds one
  fails ("vanished mid-query", `dao.rs:310`) although the document was deleted before the query
  began, and so does every query like it until the fingerprint moves. `FailsForCause` names
  this cause beside the deletion under the query.
* `AnnSound` compares a search as wide as the corpus with the nodes its links reach.
  It is not the whole corpus: five duplicates with one opposite node fill
  the lists, pruning does not refill them, and a node can lose all links to it.
  The tests of `src/ann.rs` (line 621) expect the brute-force ranking.

Storage:

* Two connections that open a file at the same time can meet in one batch. The one
  that fails on a duplicate column and is healed has a transaction open, so its stamp
  commits nothing, or its open fails with "busy" (`storage/mod.rs:74-77` promises
  tolerance). `NeverUnopenable` therefore speaks of an open that nobody disturbs, and
  `OpenedIsCurrent` of whoever gets through.
* `user_version` can move back when a slow opener stamps late; `StampTrue` shows that it
  then understates and never overstates.

Knowledge graph:

* Deletions and merges run alone in the run (`Overlapping`). A deletion beside a
  processing or a merge leaves edges without evidence or counts them twice; two
  deletions of one document, or one that failed and is repeated, lower the counters twice.
* A deletion cut short after the mentions are gone never recomputes the edges
  (`FaultCalls` has merges only).
* `mention_count` is not "chunks mentioning the entity" (`entities/mod.rs:246`) after a
  deletion or a merge: it goes up per chunk, down per document, and up by mention
  rows in a merge. `CountCoversDocuments` is what is kept.
* `ResolutionStable` speaks of the time before the first merge: a merge forgets the
  canonical key of the entity it removes, so a variant of its name starts a new entity.
* A surface that was linked to an entity of another key (by an alias or by similarity) can
  lose its name to an entity that got it while both were processed: one document asks
  for "Acme", finds "Acmee" similar and is about to record the alias, while another has
  asked before "Acmee" was there and inserts "Acme". `ResolutionStable` allows that case and no other.
* Of two documents that add one entity at once the second does not record its surface
  as an alias.

Parts:

* Code before the first line that opens a block is in no chunk, although the comment of
  `code_blocks` (`chunking/mod.rs:189-190`) attaches comments to the unit that follows (run
  `chunking_leading`; `KeepsText` says nothing of those lines). Comments between two units are kept,
  but in the block of the unit before them.
* A merge of tiny chunks may exceed `chunk_max_chars` by the minimum, and a tiny chunk without a
  section takes that of the next one (`SizesHold`, `SectionInEffect` say how far).
* `ChunksSound` is checked with headings below `chunk_max_chars`. A line of `#` may be any
  length: more than twice the limit in one heading is a chunk that no sentence ends, and its
  pieces are measured in "## title", not in the document, so the span of the last one may
  end a few characters behind it. No text is lost and the section stays right.
* A negated claim conflicts with the assertions stored before it, but an assertion
  does not conflict with a negation stored before it, and numeric claims that are
  negated are compared as if they were not. `sentence_is_negative` also finds "not" inside words.
  The window of 40 includes the new claim (`claims/mod.rs:117`).
* "10,000" parses as 10, since a comma separates tokens (`dao.rs:1383`); the doc comment
  above it and `docs/CLAIMS.md:13` say 10,000. `ConflictsJustified` compares what is parsed.
* `traverse` limits the neighbours of each entity, not each level (`graph/mod.rs:99-101`).
* `Filters::entities` asks for all names by its comment (`types.rs:287`); `candidate_ids`
  takes a chunk whose document has any of them. `FiltersHold` asks for the weaker.
* The years of a question filter the hits and leave their ranks with gaps; the scores
  of the re-ranked window may be below those of the hits after it, and a request for no
  hit at all (`top_k` 0) is answered with none. `TemporalGraceful` and
  `HitsSound` state what is kept.
* The line of citations is not counted in the budget of the context; a first hit
  that exceeds the budget leaves the context empty.
* "current" asks for the latest hits but is not a cue of the temporal intent
  (`temporal/mod.rs:35`, `query/mod.rs:48`), so the weights stay those of other questions.

## 4. Fairness

Liveness is checked under what the code's scheduling gives, and no more:

* `FairSpec`, `IngestionFairSpec`: a live worker thread keeps running (`WF` on each group
  of its steps), time passes (`WF` on `Elapse`), and a call that began goes on;
  strong fairness of a claim, because opening the store and claiming do not fail
  every time (an error of either sends the worker to sleep, `Idle`); a close
  that has begun joins its threads and returns; and strong fairness of `LastBatchOfActive`: a
  bulk job for the active model does not re-embed full batches for ever. The code's loop shrinks
  the set of stale chunks then, which `SemanticIndex!ReembedReturns` checks. Nothing obliges a
  sweep for another model (`reembed_other`) to end.
* `SemFairSpec`: a thread that is in a call goes on with it (`WF` on its steps).
* `MigFairSpec`, and `MCParts!Spec` for that part: a connection that is opening the file goes on (`WF` on its steps); a
  wait for the write lock ends with the lock or with `busy_timeout` (`Busy`).

Clients are never obliged to call, nor processes to crash, to open or to close.
`PendingSettles` therefore assumes that the engines come to rest, one of them open, and that
no worker sweeps for another model without end (`NoEndlessSweep`), `CloseReturns` the latter for
the workers of its engine; and `lost` reports and dead engines leave a row `running` until the next open.

## 5. What is proved

`tlapm` checks every theorem from the constants' assumptions that the modules state
(`QueueAssumption`, `ClockAssumption`, `StoreAssumption`, `FaultAssumption`, `IngestionAssumption`,
`SemanticAssumption`, `MigrationAssumption`, `GraphAssumption`, `ClaimsAssumption`, `WalkAssumption`,
`AnnAssumption`, `QueryAssumption`), for any number of workers, callers, documents, chunks, jobs, entities and
connections, any amounts, graphs, libraries, requests and limits. Where a property holds under a condition only, the
condition is a hypothesis of the theorem, with a name:

| hypothesis | says | why it is needed |
|---|---|---|
| `OneEngine` | one engine has the file open | `job_queue_double_claim` |
| `DeletionsFinish`, `TextSurvives` | no statement fails among those that remove rows; between taking a text and marking the document ready | each names the steps where a failed call leaves what the property excludes (3.3); the others may fail |
| `WorkersProcess` | the application does not call `process_document` beside the workers | two callers store chunks twice (3.3) |
| `OnlyTheWorker` | one worker, the default (`src/config.rs:112`), and no processing or deletion beside it | a deletion beside an enrichment leaves rows (3.3) |
| `StaysUp` | no crash, close or cancellation, and no failure before the text is taken | a job that is cancelled or dead-lettered leaves its text, as documented |
| `SoleWriter(w)` | thread `w` ingests, trains and re-embeds; any others delete and query | a training beside an ingestion mislabels (3.3) |
| `OneAtATime` | only processings overlap one another | a deletion or merge beside another call breaks edges and counters (3.3) |

Section 3.3 says what the models show without them. TLC checked each inductive invariant
on an instance that satisfies its hypotheses.

### 5.1 `JobQueueProofs`

* `TypeCorrect`: the types, for any number of engines, threads and jobs.
* With one engine: `ExclusiveRunHolds`, `AttemptsAccountedHolds`,
  `NoStrandedJobHolds`, `ClosedMeansIdleHolds`, `SettledIsFinalHolds`, and
  `Refinement`, that the queue implements `JobLifecycle`.

`ExclusiveRun` is not inductive: the claim of a job must know that nobody holds a
pending row, and `Settle`, which updates by id and looks at no status, must know
that its row is still running and its `attempts` still those it read. `IInv` adds:

* `HeldIsRunning`: the row of a held job says running and its report is due.
  It is what makes `Settle` harmless, and what a second engine breaks.
* `SeenIsCurrent`: the attempts read are the attempts of the row.
* `GoneEngineHasNoThreads`: after a crash or a close no thread is in the
  loop, so that recovery requeues nobody's job.
* `RunningIsHeld` and `LostIsRunning`: a running row has a thread or a lost report.
* `FreshRows`, `HoldsAJob`: rows beyond the counter are blank; a working
  thread has a job.

`InductiveStep` takes one step per action. `SettledIsFinal` and the refinement
use the invariant at the step: `Settle` maps to `Succeed` or `Fail`, `Open` to
`Requeue`, `Crash` and `LoseReport` to `LoseExecutors`, `FinishClose` and
`CancelJob` to `Withdraw`, the rest to stuttering.

### 5.2 Retry clock (`PartsProofs`)

`ClockInvariant`, `NeverEarlyHolds` and `AtMostASecondLateHolds`, for every resolution
of the clock, base, cap and number of attempts: the `run_at` of a waiting job
names the second of its due moment, with a fraction that sorts after it.

### 5.3 `DocumentStoreProofs`

`StoreTyping`; `ReadyDocumentsAreComplete` under `DeletionsFinish`; `UnfinishedDocumentsHaveText`
under `TextSurvives`. These are about `SyncSpec`: any callers that ingest, process and
delete side by side. 5.4 carries both over to jobs.

"Ready means complete" says nothing of a document on its way, so the invariant follows each
call: `Stored(a, d)` lists what the call has stored when it is at a step, for documents that
no deletion has begun to empty (`Live`). It survives another call's steps because chunks
are only added and rows in `derived` only removed by deletions. The text is treated by
`TextIsCarried`: an unfinished document's text is in its row, or a call between clearing it
and `ready` has it. That call may be one of several that took it.

### 5.4 `IngestionProofs`

* `QueueIsImplemented`: every step of the composition is one of `JobQueue`, or none; with
  `JobQueueProofs!InductiveStep` this carries the whole of `IInv` into the composed system.
* `DoneJobsAreTrue`, `ChunksAreStoredOnce` under `WorkersProcess`, from `FilledInv`.
* `DeletionsAreReal` under `OnlyTheWorker`, from `GoneInv`.
* `NoTextIsForgotten` under `StaysUp`, from `TextInv`.
* `BackgroundReadyIsComplete` and `BackgroundUnfinishedHasText`, under the hypotheses of 5.3
  and without crashes: `StoredSoFar` and `TextIsCarried` hold with any number of workers and
  clients that also process and delete, with closes, cancellations, lost reports, failures
  and retries. A crash in the middle of a call has the effect of the failures that those
  hypotheses exclude (run `ingestion_crash`). `PromisesKept` needs of `Wiring` only the types:
  a step is one of a call, for which 5.3 has the lemmas, or one between calls.

The first three invariants contain `Wiring`: a working thread is in the call its job asks for
(`Assigned`), jobs and documents correspond (`PayloadOK`), and a text has one job
(`OneJobPerText`). Together with the queue's `ExclusiveRun` this gives what no part has
alone: a document is filled by one call at a time, although jobs are retried, recovered
and run by any number of workers. `FilledInv` then counts (`CallOnCourse`: a call at
`chunk` has stored exactly its `n` chunks) and needs `ResultsAreTrue`, the truth of an outcome
from the end of the call to the commit of the report. `GoneInv` orders the deletion: each
table stays empty while the later ones are emptied. `TextInv` says where the job of a text
may be: waiting, or held by a worker that has not taken the text. The invariants were
checked with TLC on 1,282,678, 188,069 and 1,297,743 states, the promises of documents under
`IngestionSpec` on 1,905,792, with a client that also processes and deletes.

### 5.5 `SemanticIndexProofs`

* `SemanticTyping`, for any threads.
* Under `SoleWriter(w)`, through crashes, failures and any number of trainings:
  `WriterInvariant`, `LabelsAreTruthful`, `ReembeddingMigrates`, `OpensAgain`,
  and `IndexesHoldOneModel`, with the queries of any number of threads beside the writer.

The label is written in a later step than the vector, with the name the provider has then:
`NameFits` says that name and model agree except between the two installs, and that the
vector in hand was made under the present name. `DiskFollows` gives what each commit of
a training has put on disk, so that after a crash between trainings `Openable` holds. For
`ReembedMigrates` the argument is `BatchCovers`: a batch shorter than the limit listed every
stale chunk, and deletions only remove. That rests on `FirstOfIsAll`, a lemma on the LIMIT
of the query: the first `n` of a finite set are all of it unless they are `n`. The cache
needs `IndexesOK`: the index in the cache, and the one in a query that took it, is of the
model its fingerprint names. It is inductive for any threads as long as labels are truthful
(`IndexesStep`): an index is built for the model in the fingerprint, not for the one that is
active by then, which is where `CacheOfNow` breaks it. That the vectors are of one *space* does not
follow, since two trainings share a name (3.3). TLC checked `WriterInv` on 1,252,164 states
and `IndexOfOneModel` on the 426,000 of the run.

### 5.6 Migrations (`PartsProofs`)

`MigrationInvariant`, and from it `StampIsTrue`, `OpenedSchemaIsCurrent` and `NeverLeftUnopenable`,
for any number of connections, with and without faults.

`PrefixFile` (the file is the first `k` batches) would be enough for the file; the stamp needs
`KnowsPrefix`: the batches a connection has gone through are in the file whoever applied
them, which `PrefixFile` keeps true since tables are never dropped. `NeverUnopenable` needs
`Undisturbed`: a connection without a rival comes to a batch that has a signature only if
it is not applied, and never has a transaction open, so neither a duplicate column nor
"busy" can meet it.

### 5.7 `KnowledgeGraphProofs`

Under `OneAtATime`, with merges that may be cut short anywhere: `GraphInStep`,
`MergesKeepMentions`, `EdgesAreExact`, `CountsCoverDocuments`, `ResolutionIsStable`, for any
documents, vocabulary, similarity and number of callers.

* `InStep` has the types, that calls that must not overlap do not (`Apart`), and that what a
  call holds in memory is what the tables show of it (`RecordedOnly`): the entities it has
  collected are those its chunk mentions; a merge that moved the mentions left none.
* `EdgesInStep`: while calls run an edge counts the common chunks that are *linked*
  (`Unlinked` are the chunks in progress), except around the entities whose edges a deletion
  or merge is about to recompute (`Stale`), and once these are wiped there is none.
  `LinkChunk` adds the chunk in progress to every pair of it at once; the
  ones of other callers are disjoint from it. `MoveEdges` only has to leave the edges away from
  its two entities alone: what it makes of theirs is wiped.
* `CountsInStep`: counters cover the documents that are counted (`CountedDocs`), which leaves out
  the chunks in progress and the document a deletion has counted off; a merge's `moved` is
  accounted to the survivor from the moment the mentions move.
* `NamesInStep`: before a merge there is one entity per key, also when two calls insert the same
  new surface (`RecordNew`), and a mention's entity has the name of its surface. The first
  form of `ResolutionStable` was false for other vocabularies than the run's; the attempt
  at this proof showed it (3.3).

`GraphInv`, the conjunction of the first three, and `NamesInStep` were checked with TLC on the
states of the run.

### 5.8 `ListsProofs`

A sort and a filter are usually reasoned about by induction over the list; the library's
theorems for that take an operator as a parameter, which no installed prover can instantiate. These lemmas avoid it. `ListingSound` says that `Listing` has every element
of a finite set once and in order: an element's place is the number of elements before it
(its rank), ranks are pairwise different (`RanksGrow`), and `n` different numbers below `n`
are all of them, which is a fact about cardinalities. `RetainSound` follows, since the places
a filter keeps are a listing of numbers; `TruncateSound`, `BestOf` and `Extremes` (greatest
and least elements of finite sets of numbers), `Pigeon` (a list shorter than `n` misses a
number up to `n`) and `SetToSeqSound` complete them.

### 5.9 Claims (`PartsProofs`)

`ClaimsSound`, for any statements, window, cap and order of arrivals and deletions. Given the
types, `ConflictsJustified` is inductive (`ClaimsInv`) and all of the work is in one step, a new
claim. What it is compared with is a listing, cut, filtered and cut again, and
`NothingMissed` counts the claims between an unreported one and the new one: if that number is below the
window and fewer conflicts than the cap were found, the claim cannot have been cut off
(`NumericCompared`), because whatever precedes it in the list is one of those between.
`Justified` needs that a claim is never changed and that a deletion takes the conflicts
of its claims with it; `OncePerPair` that a new claim has an id no row names.

### 5.10 Graph traversal (`PartsProofs`)

`TraversalIsSound`, for any graph, depth and limit, and for every order SQLite may
return among equal weights. `TraversalSound` speaks of a finished walk, so `WalkInv` states
each of its parts for the levels and for the list that is being made (`Layer`), and adds:

* `FrontierOnce`: the frontier is a part of the last level and repeats nothing. With
  `limit` neighbours for each entity still to be read it bounds the next level.
* `ListedOnce`: visited is what the levels and the new list have, each entity once. An entity's
  neighbours are different entities because its edges are different (`OtherEnd`), so one
  SELECT cannot bring an entity twice; `ExpandUnmarked` shows what happens between two.
* `Distances`: where no limit cuts, what is visited are the entities within the last level's
  distance and the neighbours of those of its entities that were expanded. When the frontier is
  empty, that is the next distance (`WithinNext`: a path of `k + 1` edges is one of `k` and
  an edge).

### 5.11 Query (`RetrievalProofs`)

`QueryInvariant`, and from it `QueriesFailForCause`, `HitsAreSound`, `TemporalIsGraceful` and
`ContextIsFaithful`: for any library, request, limits and weights, with any documents
deleted between the reads of the query. `QueryInv` says of each list what the step that made it
knows, in a form that survives deletions:

* `Seen`: what a read has returned was there, and since then was at most deleted. It is
  why a row that is missing at the end has its cause in `deleted`. It does not hold of what the
  ANN index found (`FromIndex`), whose rows may have been gone before.
* `ChannelsBear`, `LexicalWhole`, `FusedBears`: a channel's chunks are similar, or have the
  terms, or name the entity; a lexical channel that is not full has all the candidates
  that were not deleted; fusion adds none and loses none.
* `Chosen`: what re-ranking, MMR and the temporal constraint leave is a list of distinct
  fused chunks with growing ranks, of the length that was asked for.

The rest of the proof is about what each function of the pipeline does with any list: a sort of scored
candidates keeps them (`SortedSound`), the window is sorted and nothing behind it is touched,
`mmr_select` picks a candidate it has not picked before, as long as there is one, also
when embeddings are gone, ties are all there is or marginal values are negative. The
definitions that go step by step along a list (the picks of MMR, the snippets of the context) are recursive functions, and their
proofs are by the least counterexample (`UpTo`: a set of numbers that has 0 and with each number
the next), which needs no operator as a parameter.
In `ContextIsFaithful` the induction's statement is `Packed`: blocks so far are cited by their hit, their sizes add up to
what was used, no share is exceeded, and whatever was passed over had its document's
share then, which cannot shrink.

The attempt at `TemporalIsGraceful` found two errors in the property: a conjunct on ranks had
come under another's implication, and a request for no hits was not excepted. Both are
corrected.

`QueryInv` was checked with TLC on the 341,737 states of the query part.

### 5.12 ANN index (`RetrievalProofs`)

`AnnInvariant` and `IndexIsSound` (`AnnSound`), for any finite corpus, vectors, levels, degree
and beam, and any order of insertion. The inductive invariant `AnnInv` is `Graph`, a form of
`LinksWellFormed` about all nodes, with `EntryOnTop`. An insertion keeps it because

* the descent ends at a node that has the highest layer the new node shares with the graph
  (`DescendKeeps`), from where a search of a layer returns nodes of that layer (`SearchLayerSound`)
  and can go on to the next one (`LinkLayerKeeps`): `On` grows as layers go down;
* what is selected was found (`NeighborsSound`), so a link leads to another node of the layer, and
  a list that is full is pruned to distinct nodes of itself (`LinkKeeps`, `PickDiverseSound`).

The new node is not in the graph that these searches walk, so it is never its own neighbour.
The loops are recursive functions; `Unrolled` shows that there is one with the types that its
steps keep (`Typed`), and `Reached` that it has them.

`WideBeamFindsReachable` is about a whole search. `Wide` says what it has done after `i` visits:
nothing was evicted or refused, the links of every node that is no candidate any more were
followed, all of it can be reached, and there are `i` such nodes or no candidate is left. After
as many visits as there are nodes none is left, and what was visited is closed under links: it is
`Reach`. Filtering and cutting a sorted list leaves a sorted list (`FilterRanked`,
`TruncateRanked`), and a sorted list is determined by its set (`RankedOnly`).

`AnnInv` was checked with TLC on the 2,625 states of the index.

### 5.13 Only model-checked

* Liveness and ENABLED are outside the prover: `PendingSettles`, `CloseReturns`,
  `IngestedBecomesReady`, `ReembedReturns`, `OpenReturns`.
* What a fold computes for every input needs induction over data: `ChunksSound`. Two of its
  parts, `SizesHold` and `SpansInOrder`, also need an assumption on the headings (3.3).
* The properties of the violation runs are false of the code.

## 6. What is not modelled, and why

* Panics of a worker: the thread dies, as in a crash of an engine with that
  worker only.
* The wall clock going backwards, which would delay retries at will.
* Progress columns, error texts, events, logs.
* The numbers: LSA training and projection, feature hashing and term frequencies are the
  space of a vector; cosines are a table, scores integers.
* What FTS5 matches and ranks, and the regular expressions of `src/knowledge`: which
  surfaces, claims and cues a text has is given. `canonical_key` and Jaro-Winkler likewise.
* The parsers and detection of `src/ingestion`: sequential and stateless; unit tests fit.
* The child process of the llama.cpp provider: it answers or it fails.
* Backup, vacuum, the integrity check, export and other reads.
* The event bus, configuration, the command line and the benchmarks.

## 7. Plan

Done, in this order: `JobQueue` with `JobLifecycle` and its proofs, `RetryClock` and
its proofs, `DocumentStore`, `Ingestion`, `SemanticIndex`, `Migrations`, `KnowledgeGraph`,
`Chunking`, `Claims`, `GraphTraversal`, `AnnIndex`, `Query`. Then the proofs of section 5, in its order.

Next: the parts of `ChunksSound`, with the passes as functions of the number of steps instead of
folds, as in `AnnIndex`: first `KeepsText` and `SectionInEffect`, which do not depend on the lengths of headings.
