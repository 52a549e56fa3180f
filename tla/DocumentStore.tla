---------------------------- MODULE DocumentStore ----------------------------
(***************************************************************************)
(* The document side of the engine: the calls ingest, process_document and *)
(* delete_document as sequences of SQL statements on one database.  Every  *)
(* call opens its own connection and every statement commits on its own,   *)
(* so calls of different threads interleave between any two statements.    *)
(*                                                                         *)
(* A call is a record: the step it is at, the document and the content it  *)
(* is about, and how many chunks it has gone through.  The content of a    *)
(* document, its chunks and what is derived from them are abstracted to    *)
(* counts and kinds of rows; term frequencies, entity counts and graph     *)
(* edges are left to the modules of the knowledge layer.                   *)
(***************************************************************************)
EXTENDS Naturals, FiniteSets

CONSTANTS
    Actors,     \* the threads that make calls
    Contents,   \* the contents (SHA-256 of the bytes) that are ingested
    NoContent,  \* the content of a call that has none
    MaxDocs,    \* bound: document rows ever inserted
    Chunks,     \* the number of chunks the chunker makes of a document
    HasLlm,     \* is an LLM provider other than "null" installed?
    FaultSteps  \* the steps whose statement may fail (disk full, database busy)

ASSUME StoreAssumption ==
    /\ NoContent \notin Contents
    /\ MaxDocs \in Nat
    /\ Chunks \in Nat \ {0}
    /\ HasLlm \in BOOLEAN

VARIABLES
    rows,         \* the ids with a row in `documents`
    hash,         \* hash[d]: column `content_hash`
    readiness,    \* readiness[d]: column `readiness_state`
    pendingText,  \* the documents whose `pending_text` is not NULL
    chunkRows,    \* chunkRows[d]: how many rows `chunks` has for d
    derived,      \* derived[d]: which tables have rows that name d
    lastDoc,      \* the AUTOINCREMENT counter of `documents`
    call          \* call[a]: the call thread a is in

storeVars == <<rows, hash, readiness, pendingText, chunkRows, derived, lastDoc>>
svars == <<storeVars, call>>

DocIds == 1..MaxDocs
Tables == {"mentions", "claims", "provenance"}
Readiness == {"pending", "indexing", "ready", "summarizing", "complete"}

IngestSteps  == {"find", "insert", "set_text", "dispatch"}
ProcessSteps == {"get", "take", "clear", "indexing", "chunk", "chunk_prov",
                 "mentions", "claims", "ready", "summarize", "generate",
                 "summary_prov", "complete", "summary_failed"}
DeleteSteps  == {"del_get", "del_mentions", "del_claims", "del_prov", "del_row",
                 "del_edges"}
Steps == IngestSteps \cup ProcessSteps \cup DeleteSteps

ASSUME FaultAssumption == FaultSteps \subseteq Steps

Call(step, d, c) == [at |-> step, doc |-> d, content |-> c, n |-> 0]
NoCall == Call("idle", 0, NoContent)
StoreInit ==
    /\ rows = {}
    /\ hash = [d \in DocIds |-> NoContent]
    /\ readiness = [d \in DocIds |-> "pending"]
    /\ pendingText = {}
    /\ chunkRows = [d \in DocIds |-> 0]
    /\ derived = [d \in DocIds |-> {}]
    /\ lastDoc = 0
    /\ call = [a \in Actors |-> NoCall]

-----------------------------------------------------------------------------
At(a, step) == call[a].at = step

Goto(a, step) == call' = [call EXCEPT ![a].at = step]

(* Begin a call, and drop the result of one. *)
Start(a, step, d, c) ==
    /\ At(a, "idle")
    /\ call' = [call EXCEPT ![a] = Call(step, d, c)]
    /\ UNCHANGED storeVars

Return(a) ==
    /\ call[a].at \in {"ok", "err"}
    /\ call' = [call EXCEPT ![a] = NoCall]
    /\ UNCHANGED storeVars

(* A statement fails; `?` returns the error to the caller. *)
Fault(a) ==
    /\ call[a].at \in FaultSteps \ {"generate"}    \* no statement there
    /\ Goto(a, "err")
    /\ UNCHANGED storeVars

(* set_readiness: an UPDATE by id, which matches nothing once the row is gone. *)
SetReadiness(d, r) ==
    readiness' = IF d \in rows THEN [readiness EXCEPT ![d] = r] ELSE readiness

(* An INSERT into a table that does not reference `documents`. *)
Derive(d, k) == derived' = [derived EXCEPT ![d] = @ \cup {k}]

-----------------------------------------------------------------------------
(* ingest_bytes and ingest_file, up to the hand-over for processing. *)

(* upsert_document looks the content up: a known one ends the call. *)
FindContent(a) ==
    /\ At(a, "find")
    /\ \/ /\ \E d \in rows : hash[d] = call[a].content
          /\ Goto(a, "ok")
       \/ /\ \A d \in rows : hash[d] # call[a].content
          /\ Goto(a, "insert")
    /\ UNCHANGED storeVars

(* The INSERT, which UNIQUE(content_hash) refuses if another call came     *)
(* first; at the bound MaxDocs the disk is full.                           *)
InsertDocument(a) ==
    /\ At(a, "insert")
    /\ IF lastDoc < MaxDocs /\ \A d \in rows : hash[d] # call[a].content
       THEN /\ lastDoc' = lastDoc + 1
            /\ rows' = rows \cup {lastDoc + 1}
            /\ hash' = [hash EXCEPT ![lastDoc + 1] = call[a].content]
            /\ readiness' = [readiness EXCEPT ![lastDoc + 1] = "pending"]
            /\ call' = [call EXCEPT ![a].at = "set_text", ![a].doc = lastDoc + 1]
            /\ UNCHANGED <<pendingText, chunkRows, derived>>
       ELSE /\ Goto(a, "err")
            /\ UNCHANGED storeVars

SetPendingText(a) ==
    /\ At(a, "set_text")
    /\ pendingText' = pendingText \cup (rows \cap {call[a].doc})
    /\ Goto(a, "dispatch")
    /\ UNCHANGED <<rows, hash, readiness, chunkRows, derived, lastDoc>>

(* synchronous_ingestion: the caller runs the pipeline itself. *)
ProcessInline(a) ==
    /\ At(a, "dispatch")
    /\ Goto(a, "get")
    /\ UNCHANGED storeVars

-----------------------------------------------------------------------------
(* process_document. *)

GetDocument(a) ==
    /\ At(a, "get")
    /\ Goto(a, IF call[a].doc \in rows THEN "take" ELSE "err")
    /\ UNCHANGED storeVars

(* take_pending_text is a SELECT ... *)
TakeText(a) ==
    /\ At(a, "take")
    /\ Goto(a, IF call[a].doc \in pendingText THEN "clear" ELSE "err")
    /\ UNCHANGED storeVars

(* Mutant: the text is read but not cleared. *)
KeepText(a) ==
    /\ At(a, "clear")
    /\ Goto(a, "indexing")
    /\ UNCHANGED storeVars

(* ... and an UPDATE. *)
ClearText(a) ==
    /\ At(a, "clear")
    /\ pendingText' = pendingText \ {call[a].doc}
    /\ Goto(a, "indexing")
    /\ UNCHANGED <<rows, hash, readiness, chunkRows, derived, lastDoc>>

MarkIndexing(a) ==
    /\ At(a, "indexing")
    /\ SetReadiness(call[a].doc, "indexing")
    /\ Goto(a, "chunk")
    /\ UNCHANGED <<rows, hash, pendingText, chunkRows, derived, lastDoc>>

(* insert_chunk: the foreign key refuses it once the document is gone. *)
InsertChunk(a) ==
    /\ At(a, "chunk")
    /\ IF call[a].doc \in rows
       THEN /\ chunkRows' = [chunkRows EXCEPT ![call[a].doc] = @ + 1]
            /\ Goto(a, "chunk_prov")
       ELSE /\ Goto(a, "err")
            /\ UNCHANGED chunkRows
    /\ UNCHANGED <<rows, hash, readiness, pendingText, derived, lastDoc>>

(* The loop over the chunks: the next one, or the next phase from the first. *)
NextChunk(a, again, next) ==
    LET n == call[a].n + 1 IN
    call' = [call EXCEPT ![a].at = IF n < Chunks THEN again ELSE next,
                         ![a].n = IF n < Chunks THEN n ELSE 0]

(* Mutant: the document is marked ready before its enrichment. *)
ReadyTooSoon(a) ==
    /\ At(a, "chunk_prov")
    /\ Derive(call[a].doc, "provenance")
    /\ NextChunk(a, "chunk", "ready")
    /\ UNCHANGED <<rows, hash, readiness, pendingText, chunkRows, lastDoc>>

(* update_chunk_artifacts and the provenance row of the chunk. *)
ChunkProvenance(a) ==
    /\ At(a, "chunk_prov")
    /\ Derive(call[a].doc, "provenance")
    /\ NextChunk(a, "chunk", "mentions")
    /\ UNCHANGED <<rows, hash, readiness, pendingText, chunkRows, lastDoc>>

(* persist_entities: mentions with their provenance, neither of which      *)
(* references `documents` or `chunks`.                                     *)
PersistEntities(a) ==
    /\ At(a, "mentions")
    /\ derived' = [derived EXCEPT ![call[a].doc] = @ \cup {"mentions", "provenance"}]
    /\ Goto(a, "claims")
    /\ UNCHANGED <<rows, hash, readiness, pendingText, chunkRows, lastDoc>>

(* persist_claims; after the last chunk come bump_term_df and finalize_index. *)
PersistClaims(a) ==
    /\ At(a, "claims")
    /\ Derive(call[a].doc, "claims")
    /\ NextChunk(a, "mentions", "ready")
    /\ UNCHANGED <<rows, hash, readiness, pendingText, chunkRows, lastDoc>>

(* Mutant: the last set_readiness is forgotten. *)
NeverMarkReady(a) ==
    /\ At(a, "ready")
    /\ Goto(a, "ok")
    /\ UNCHANGED storeVars

MarkReady(a) ==
    /\ At(a, "ready")
    /\ SetReadiness(call[a].doc, "ready")
    /\ Goto(a, IF HasLlm /\ Chunks >= 2 THEN "summarize" ELSE "ok")
    /\ UNCHANGED <<rows, hash, pendingText, chunkRows, derived, lastDoc>>

MarkSummarizing(a) ==
    /\ At(a, "summarize")
    /\ SetReadiness(call[a].doc, "summarizing")
    /\ Goto(a, "generate")
    /\ UNCHANGED <<rows, hash, pendingText, chunkRows, derived, lastDoc>>

(* The provider answers, or fails or times out. *)
Generate(a) ==
    /\ At(a, "generate")
    /\ \/ Goto(a, "summary_prov")
       \/ Goto(a, "summary_failed")
    /\ UNCHANGED storeVars

(* set_summary and the provenance row of the summary. *)
StoreSummary(a) ==
    /\ At(a, "summary_prov")
    /\ Derive(call[a].doc, "provenance")
    /\ Goto(a, "complete")
    /\ UNCHANGED <<rows, hash, readiness, pendingText, chunkRows, lastDoc>>

MarkComplete(a) ==
    /\ At(a, "complete")
    /\ SetReadiness(call[a].doc, "complete")
    /\ Goto(a, "ok")
    /\ UNCHANGED <<rows, hash, pendingText, chunkRows, derived, lastDoc>>

(* A failed summary does not fail the ingestion. *)
SummaryFailed(a) ==
    /\ At(a, "summary_failed")
    /\ SetReadiness(call[a].doc, "ready")
    /\ Goto(a, "ok")
    /\ UNCHANGED <<rows, hash, pendingText, chunkRows, derived, lastDoc>>

-----------------------------------------------------------------------------
(* delete_document: dependent rows first, the document row last. *)

DeleteGet(a) ==
    /\ At(a, "del_get")
    /\ Goto(a, IF call[a].doc \in rows THEN "del_mentions" ELSE "err")
    /\ UNCHANGED storeVars

DeleteFrom(a, k, next) ==
    /\ derived' = [derived EXCEPT ![call[a].doc] = @ \ {k}]
    /\ Goto(a, next)
    /\ UNCHANGED <<rows, hash, readiness, pendingText, chunkRows, lastDoc>>

(* Mutant: the mentions are left to a cascade that does not exist. *)
KeepMentions(a) == At(a, "del_mentions") /\ Goto(a, "del_claims") /\ UNCHANGED storeVars

DeleteMentions(a) == At(a, "del_mentions") /\ DeleteFrom(a, "mentions", "del_claims")
DeleteClaims(a) == At(a, "del_claims") /\ DeleteFrom(a, "claims", "del_prov")
DeleteProvenance(a) == At(a, "del_prov") /\ DeleteFrom(a, "provenance", "del_row")

(* DELETE FROM documents; chunks, and with them the lexical index, cascade. *)
DeleteRow(a) ==
    LET d == call[a].doc IN
    /\ At(a, "del_row")
    /\ rows' = rows \ {d}
    /\ pendingText' = pendingText \ {d}
    /\ chunkRows' = [chunkRows EXCEPT ![d] = 0]
    /\ Goto(a, IF d \in rows THEN "del_edges" ELSE "err")
    /\ UNCHANGED <<hash, readiness, derived, lastDoc>>

(* recompute_relationships_for_entities, when the document is already gone. *)
RecomputeEdges(a) == At(a, "del_edges") /\ Goto(a, "ok") /\ UNCHANGED storeVars

-----------------------------------------------------------------------------
(* One statement of the call thread a is in. *)
IngestStep(a) == FindContent(a) \/ InsertDocument(a) \/ SetPendingText(a)

ProcessStep(a) ==
    \/ GetDocument(a) \/ TakeText(a) \/ ClearText(a) \/ MarkIndexing(a)
    \/ InsertChunk(a) \/ ChunkProvenance(a) \/ PersistEntities(a)
    \/ PersistClaims(a) \/ MarkReady(a) \/ MarkSummarizing(a) \/ Generate(a)
    \/ StoreSummary(a) \/ MarkComplete(a) \/ SummaryFailed(a)

DeleteStep(a) ==
    \/ DeleteGet(a) \/ DeleteMentions(a) \/ DeleteClaims(a)
    \/ DeleteProvenance(a) \/ DeleteRow(a)
    \/ RecomputeEdges(a)

CallStep(a) == IngestStep(a) \/ ProcessStep(a) \/ DeleteStep(a) \/ Fault(a)

(* The public calls on documents, in synchronous mode. *)
StartIngest(a) == \E c \in Contents : Start(a, "find", 0, c)
StartProcess(a) == \E d \in 1..lastDoc : Start(a, "get", d, NoContent)
StartDelete(a) == \E d \in 1..lastDoc : Start(a, "del_get", d, NoContent)

SyncNext ==
    \E a \in Actors :
        \/ StartIngest(a) \/ StartProcess(a) \/ StartDelete(a)
        \/ CallStep(a) \/ ProcessInline(a) \/ Return(a)

SyncSpec == StoreInit /\ [][SyncNext]_svars

-----------------------------------------------------------------------------
(* Properties. *)

AboutDoc(a, d) == call[a].doc = d /\ call[a].at \in Steps
BeingDeleted(d) == \E a \in Actors : AboutDoc(a, d) /\ call[a].at \in DeleteSteps
InPipeline(d) == \E a \in Actors : AboutDoc(a, d) /\ call[a].at \in ProcessSteps
HoldsText(a, d) ==
    AboutDoc(a, d) /\ call[a].at \in ProcessSteps \ {"get", "take"}

Queryable == {"ready", "summarizing", "complete"}

(* A document that presents itself as ready has all of its chunks and      *)
(* everything derived from them, unless it is being deleted.               *)
ReadyIsComplete ==
    \A d \in rows :
        readiness[d] \in Queryable /\ ~BeingDeleted(d)
            => chunkRows[d] >= Chunks /\ derived[d] = Tables

(* The chunks of a document are stored once: the text a retry or a second  *)
(* caller would need is gone.                                              *)
ChunksStoredOnce == \A d \in rows : chunkRows[d] <= Chunks

(* No row names a document that is deleted, once the calls about it have   *)
(* returned.                                                               *)
DeletionIsReal ==
    \A d \in 1..lastDoc :
        d \notin rows /\ (\A a \in Actors : ~AboutDoc(a, d))
            => derived[d] = {} /\ chunkRows[d] = 0 /\ d \notin pendingText

(* A document that is not ready can still become so: its text is in its    *)
(* row, or in the hands of a call that will store, process or delete it.   *)
UnfinishedHasText ==
    \A d \in rows :
        readiness[d] \notin Queryable =>
            \/ d \in pendingText
            \/ \E a \in Actors :
                HoldsText(a, d) \/ (AboutDoc(a, d) /\ call[a].at = "set_text")
=============================================================================
