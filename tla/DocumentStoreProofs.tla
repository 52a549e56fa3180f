------------------------- MODULE DocumentStoreProofs -------------------------
(* Theorems about DocumentStore in synchronous mode, for any callers,      *)
(* contents, documents and chunks.                                         *)
EXTENDS DocumentStore, TLAPS

CallsUpTo(l) ==
    [at : Steps \cup {"idle", "ok", "err"}, doc : 0..l,
     content : Contents \cup {NoContent}, n : 0..(Chunks - 1)]

(* The steps of a call before it has a document, and before it has gone    *)
(* through a chunk.                                                        *)
Nameless == {"find", "insert"}
NothingStored == IngestSteps \cup {"get", "take", "clear", "indexing"}

StoreTypeOK ==
    /\ lastDoc \in 0..MaxDocs
    /\ rows \subseteq 1..lastDoc
    /\ pendingText \subseteq rows
    /\ hash \in [DocIds -> Contents \cup {NoContent}]
    /\ readiness \in [DocIds -> Readiness]
    /\ chunkRows \in [DocIds -> Nat]
    /\ derived \in [DocIds -> SUBSET Tables]
    /\ call \in [Actors -> CallsUpTo(lastDoc)]
    /\ \A a \in Actors :
          /\ call[a].at \in Steps \ Nameless => call[a].doc \in 1..lastDoc
          /\ call[a].at \in NothingStored => call[a].n = 0

(* The text of an unfinished document is in its row, on its way to it, or  *)
(* with a call that has cleared it and will mark the document ready.       *)
Carrying == {"set_text", "indexing", "chunk", "chunk_prov", "mentions", "claims", "ready"}

(* No statement fails between the moment a call has a text in its hands    *)
(* and the moment the document is ready or the text is in its row.         *)
TextSurvives == FaultSteps \cap Carrying = {}

TextIsCarried ==
    \A d \in rows :
        readiness[d] \notin Queryable =>
            d \in pendingText \/ \E a \in Actors : call[a].doc = d /\ call[a].at \in Carrying

(* A document none of whose rows a deletion has removed yet. *)
Removing == {"del_claims", "del_prov", "del_row"}
Doomed(d) == \E a \in Actors : call[a].doc = d /\ call[a].at \in Removing
Live(d) == d \in rows /\ ~Doomed(d)

Complete(d) == chunkRows[d] >= Chunks /\ derived[d] = Tables

(* A deletion that has begun to remove rows does not fail. *)
DeletionsFinish == FaultSteps \cap Removing = {}

(* What a call about the live document d has stored of it at each step. *)
Stored(a, d) ==
    LET n == call[a].n IN
    /\ call[a].at = "chunk" => chunkRows[d] >= n /\ (n > 0 => "provenance" \in derived[d])
    /\ call[a].at = "chunk_prov" => chunkRows[d] >= n + 1
    /\ call[a].at \in {"mentions", "claims"} =>
          chunkRows[d] >= Chunks /\ "provenance" \in derived[d]
    /\ call[a].at = "mentions" /\ n > 0 => {"mentions", "claims"} \subseteq derived[d]
    /\ call[a].at = "claims" => "mentions" \in derived[d]
    /\ call[a].at \in {"ready", "summarize", "generate", "summary_prov", "complete",
                       "summary_failed"} => Complete(d)

StoredSoFar ==
    \A d \in rows : Live(d) =>
        /\ \A a \in Actors : call[a].doc = d => Stored(a, d)
        /\ readiness[d] \in Queryable => Complete(d)

StoreInv == StoreTypeOK /\ TextIsCarried /\ StoredSoFar

-----------------------------------------------------------------------------
(* Types. *)

LEMMA StoreInitially == StoreInit => StoreInv
<1> SUFFICES ASSUME StoreInit PROVE StoreInv
    OBVIOUS
<1> USE StoreAssumption DEF StoreInit, NoCall, Call, DocIds
<1>1. StoreTypeOK
    BY DEF StoreTypeOK, CallsUpTo, Nameless, NothingStored, Steps, IngestSteps,
           ProcessSteps, DeleteSteps, Readiness
<1>2. TextIsCarried /\ StoredSoFar
    BY DEF TextIsCarried, StoredSoFar, Live
<1> QED BY <1>1, <1>2 DEF StoreInv

(* What Goto and NextChunk do to the calls. *)
LEMMA GotoEffect ==
    ASSUME NEW l \in Nat, call \in [Actors -> CallsUpTo(l)], NEW a \in Actors,
           NEW s \in Steps \cup {"ok", "err"}, Goto(a, s)
    PROVE  /\ call' \in [Actors -> CallsUpTo(l)]
           /\ call'[a].at = s /\ call'[a].doc = call[a].doc /\ call'[a].n = call[a].n
           /\ \A b \in Actors \ {a} : call'[b] = call[b]
<1>1. call[a] \in CallsUpTo(l) /\ call' = [call EXCEPT ![a] = [call[a] EXCEPT !.at = s]]
    BY DEF Goto
<1>2. /\ [call[a] EXCEPT !.at = s] \in CallsUpTo(l)
      /\ [call[a] EXCEPT !.at = s].at = s
      /\ [call[a] EXCEPT !.at = s].doc = call[a].doc
      /\ [call[a] EXCEPT !.at = s].n = call[a].n
    BY <1>1 DEF CallsUpTo
<1> QED BY <1>1, <1>2

(* After a chunk, a call goes on with the next one or with the next phase, *)
(* and counts the chunks it has gone through.                              *)
LEMMA NextChunkEffect ==
    ASSUME NEW l \in Nat, call \in [Actors -> CallsUpTo(l)], NEW a \in Actors,
           NEW again \in Steps, NEW next \in Steps, NextChunk(a, again, next)
    PROVE  /\ call' \in [Actors -> CallsUpTo(l)]
           /\ call'[a].doc = call[a].doc
           /\ \/ /\ call[a].n + 1 < Chunks
                 /\ call'[a].at = again /\ call'[a].n = call[a].n + 1
              \/ /\ call[a].n + 1 = Chunks
                 /\ call'[a].at = next /\ call'[a].n = 0
           /\ \A b \in Actors \ {a} : call'[b] = call[b]
<1> DEFINE n == call[a].n + 1
           x == IF n < Chunks THEN again ELSE next
           m == IF n < Chunks THEN n ELSE 0
<1>1. /\ call[a] \in CallsUpTo(l)
      /\ call' = [call EXCEPT ![a] = [call[a] EXCEPT !.at = x, !.n = m]]
    BY DEF NextChunk
<1>2. /\ x \in Steps /\ m \in 0..(Chunks - 1)
      /\ \/ n < Chunks /\ x = again /\ m = n
         \/ n = Chunks /\ x = next /\ m = 0
    BY <1>1, StoreAssumption DEF CallsUpTo
<1> HIDE DEF x, m
<1>3. /\ [call[a] EXCEPT !.at = x, !.n = m] \in CallsUpTo(l)
      /\ [call[a] EXCEPT !.at = x, !.n = m].at = x
      /\ [call[a] EXCEPT !.at = x, !.n = m].doc = call[a].doc
      /\ [call[a] EXCEPT !.at = x, !.n = m].n = m
    BY <1>1, <1>2 DEF CallsUpTo
<1> QED BY <1>1, <1>2, <1>3

(* The call that inserted a document goes on with it. *)
LEMMA NewDocument ==
    ASSUME NEW l \in Nat, NEW c \in CallsUpTo(l), NEW s \in Steps
    PROVE  /\ [c EXCEPT !.at = s, !.doc = l + 1] \in CallsUpTo(l + 1)
           /\ [c EXCEPT !.at = s, !.doc = l + 1].at = s
           /\ [c EXCEPT !.at = s, !.doc = l + 1].doc = l + 1
           /\ [c EXCEPT !.at = s, !.doc = l + 1].n = c.n
<1>1. c \in CallsUpTo(l + 1)
    BY DEF CallsUpTo
<1>2. ASSUME NEW e \in 0..(l + 1)
      PROVE  /\ [c EXCEPT !.at = s, !.doc = e] \in CallsUpTo(l + 1)
             /\ [c EXCEPT !.at = s, !.doc = e].at = s
             /\ [c EXCEPT !.at = s, !.doc = e].doc = e
             /\ [c EXCEPT !.at = s, !.doc = e].n = c.n
    BY <1>1 DEF CallsUpTo
<1>3. l + 1 \in 0..(l + 1)
    OBVIOUS
<1> QED BY ONLY <1>2, <1>3, Zenon

(* A call that has its document stays with it, and so keeps its type. *)
CallTypeOK ==
    /\ call \in [Actors -> CallsUpTo(lastDoc)]
    /\ \A a \in Actors :
          /\ call[a].at \in Steps \ Nameless => call[a].doc \in 1..lastDoc
          /\ call[a].at \in NothingStored => call[a].n = 0

(* A call that moves on with its document stays well typed. *)
LEMMA GotoTyping ==
    ASSUME StoreTypeOK, NEW a \in Actors, NEW s \in Steps \cup {"ok", "err"}, Goto(a, s),
           lastDoc' = lastDoc, s \in Nameless => call[a].at \in Nameless,
           call[a].at \in Nameless => s \in {"insert", "ok", "err"},
           call[a].at \notin Steps => s \notin Steps,
           s \in NothingStored => call[a].at \in NothingStored
    PROVE  CallTypeOK'
<1>1. lastDoc \in Nat /\ call \in [Actors -> CallsUpTo(lastDoc)]
    BY StoreAssumption DEF StoreTypeOK
<1>2. /\ call' \in [Actors -> CallsUpTo(lastDoc)]
      /\ call'[a].at = s /\ call'[a].doc = call[a].doc /\ call'[a].n = call[a].n
      /\ \A b \in Actors \ {a} : call'[b] = call[b]
    BY <1>1, GotoEffect
<1>3. ASSUME NEW b \in Actors
      PROVE  /\ call'[b].at \in Steps \ Nameless => call'[b].doc \in 1..lastDoc
             /\ call'[b].at \in NothingStored => call'[b].n = 0
    <2>1. CASE b = a
        <3>1. "ok" \notin Steps /\ "err" \notin Steps /\ "insert" \in Nameless
            BY DEF Steps, IngestSteps, ProcessSteps, DeleteSteps, Nameless
        <3>2. s \in Steps \ Nameless => call[a].at \in Steps \ Nameless
            BY <3>1
        <3> QED BY <1>2, <2>1, <3>2 DEF StoreTypeOK
    <2>2. CASE b # a
        BY <1>2, <2>2 DEF StoreTypeOK
    <2> QED BY <2>1, <2>2
<1> QED BY <1>2, <1>3 DEF CallTypeOK

(* ... and so does one that loops over the chunks. *)
LEMMA NextChunkTyping ==
    ASSUME StoreTypeOK, NEW a \in Actors, NEW again \in Steps, NEW next \in Steps,
           NextChunk(a, again, next), lastDoc' = lastDoc,
           call[a].at \in Steps \ Nameless,
           again \notin NothingStored \cup Nameless, next \notin NothingStored \cup Nameless
    PROVE  CallTypeOK'
<1>1. lastDoc \in Nat /\ call \in [Actors -> CallsUpTo(lastDoc)]
    BY StoreAssumption DEF StoreTypeOK
<1>2. /\ call' \in [Actors -> CallsUpTo(lastDoc)]
      /\ call'[a].at \in {again, next} /\ call'[a].doc = call[a].doc
      /\ \A b \in Actors \ {a} : call'[b] = call[b]
    BY <1>1, NextChunkEffect
<1>3. ASSUME NEW b \in Actors
      PROVE  /\ call'[b].at \in Steps \ Nameless => call'[b].doc \in 1..lastDoc
             /\ call'[b].at \in NothingStored => call'[b].n = 0
    <2>1. CASE b = a
        BY <1>2, <2>1 DEF StoreTypeOK
    <2>2. CASE b # a
        BY <1>2, <2>2 DEF StoreTypeOK
    <2> QED BY <2>1, <2>2
<1> QED BY <1>2, <1>3 DEF CallTypeOK

(* A step of a call keeps every column and every call in its type. *)
LEMMA CallTyping ==
    ASSUME StoreTypeOK, NEW a \in Actors,
           CallStep(a) \/ ProcessInline(a) \/ Return(a)
    PROVE  StoreTypeOK'
<1> DEFINE RowTypeOK ==
               /\ lastDoc \in 0..MaxDocs /\ rows \subseteq 1..lastDoc
               /\ pendingText \subseteq rows
               /\ hash \in [DocIds -> Contents \cup {NoContent}]
               /\ readiness \in [DocIds -> Readiness]
               /\ chunkRows \in [DocIds -> Nat]
               /\ derived \in [DocIds -> SUBSET Tables]
<1> SUFFICES RowTypeOK' /\ CallTypeOK'
    BY DEF StoreTypeOK, CallTypeOK
<1>1. RowTypeOK /\ CallTypeOK
    BY DEF StoreTypeOK, CallTypeOK
<1> USE DEF Steps, IngestSteps, ProcessSteps, DeleteSteps, Nameless, NothingStored, At
<1>2. ASSUME UNCHANGED storeVars PROVE RowTypeOK'
    BY <1>1, <1>2 DEF storeVars
<1>3. ASSUME NEW r \in Readiness, SetReadiness(call[a].doc, r),
             UNCHANGED <<rows, hash, pendingText, chunkRows, derived, lastDoc>>
      PROVE  RowTypeOK'
    BY <1>1, <1>3 DEF SetReadiness
<1>4. ASSUME NEW K \in SUBSET Tables,
             derived' = [derived EXCEPT ![call[a].doc] = @ \cup K]
                \/ derived' = [derived EXCEPT ![call[a].doc] = @ \ K],
             UNCHANGED <<rows, hash, readiness, pendingText, chunkRows, lastDoc>>
      PROVE  RowTypeOK'
    BY <1>1, <1>4
<1>5. CASE FindContent(a) \/ GetDocument(a) \/ TakeText(a) \/ Generate(a) \/ DeleteGet(a)
            \/ RecomputeEdges(a) \/ ProcessInline(a)
    <2>1. RowTypeOK' /\ lastDoc' = lastDoc
        BY <1>2, <1>5 DEF FindContent, GetDocument, TakeText, Generate, DeleteGet,
                          RecomputeEdges, ProcessInline, storeVars
    <2>2. CallTypeOK'
        BY <1>5, <2>1, GotoTyping
           DEF FindContent, GetDocument, TakeText, Generate, DeleteGet, RecomputeEdges,
               ProcessInline
    <2> QED BY <2>1, <2>2
<1>6. CASE InsertDocument(a)
    <2>1. CASE UNCHANGED storeVars /\ Goto(a, "err")
        <3>1. lastDoc' = lastDoc
            BY <2>1 DEF storeVars
        <3> QED BY <1>2, <1>6, <2>1, <3>1, GotoTyping DEF InsertDocument
    <2>2. CASE ~(UNCHANGED storeVars /\ Goto(a, "err"))
        <3> DEFINE d == lastDoc + 1
                   r == [call[a] EXCEPT !.at = "set_text", !.doc = d]
        <3>1. /\ call[a].at = "insert" /\ lastDoc < MaxDocs
              /\ lastDoc' = d /\ rows' = rows \cup {d}
              /\ hash' = [hash EXCEPT ![d] = call[a].content]
              /\ readiness' = [readiness EXCEPT ![d] = "pending"]
              /\ UNCHANGED <<pendingText, chunkRows, derived>>
              /\ call' = [call EXCEPT ![a] = r]
            BY <1>6, <2>2 DEF InsertDocument
        <3>2. d \in 1..MaxDocs /\ d \in Nat /\ call[a] \in CallsUpTo(lastDoc)
              /\ call[a].n = 0
            BY <1>1, <3>1, StoreAssumption DEF CallTypeOK
        <3>3. RowTypeOK'
            BY <1>1, <3>1, <3>2, StoreAssumption DEF CallsUpTo, DocIds, Readiness
        <3>4. r \in CallsUpTo(d) /\ r.at = "set_text" /\ r.doc = d /\ r.n = 0
            <4>1. lastDoc \in Nat /\ "set_text" \in Steps
                BY <1>1, StoreAssumption
            <4> HIDE DEF Steps
            <4>2. \A s \in Steps :
                    /\ [call[a] EXCEPT !.at = s, !.doc = lastDoc + 1] \in CallsUpTo(lastDoc + 1)
                    /\ [call[a] EXCEPT !.at = s, !.doc = lastDoc + 1].at = s
                    /\ [call[a] EXCEPT !.at = s, !.doc = lastDoc + 1].doc = lastDoc + 1
                    /\ [call[a] EXCEPT !.at = s, !.doc = lastDoc + 1].n = call[a].n
                BY <3>2, <4>1, NewDocument
            <4> QED BY <3>2, <4>1, <4>2
        <3>5. CallsUpTo(lastDoc) \subseteq CallsUpTo(d)
            BY <1>1, <3>2, StoreAssumption DEF CallsUpTo
        <3> HIDE DEF r
        <3>6. call' \in [Actors -> CallsUpTo(d)]
            BY <1>1, <3>1, <3>4, <3>5 DEF CallTypeOK
        <3>7. ASSUME NEW b \in Actors
              PROVE  /\ call'[b].at \in Steps \ Nameless => call'[b].doc \in 1..d
                     /\ call'[b].at \in NothingStored => call'[b].n = 0
            <4>1. CASE b = a
                BY <1>1, <3>1, <3>2, <3>4, <4>1 DEF CallTypeOK
            <4>2. CASE b # a
                BY <1>1, <3>1, <3>2, <4>2, StoreAssumption DEF CallTypeOK
            <4> QED BY <4>1, <4>2
        <3> QED BY <3>1, <3>3, <3>6, <3>7 DEF CallTypeOK
    <2> QED BY <2>1, <2>2
<1>7. CASE SetPendingText(a) \/ ClearText(a)
    <2>1. RowTypeOK' /\ lastDoc' = lastDoc
        BY <1>1, <1>7 DEF SetPendingText, ClearText
    <2>2. CallTypeOK'
        BY <1>7, <2>1, GotoTyping DEF SetPendingText, ClearText
    <2> QED BY <2>1, <2>2
<1>8. CASE MarkIndexing(a) \/ MarkReady(a) \/ MarkSummarizing(a) \/ MarkComplete(a)
            \/ SummaryFailed(a)
    <2>1. RowTypeOK' /\ lastDoc' = lastDoc
        BY <1>3, <1>8 DEF MarkIndexing, MarkReady, MarkSummarizing, MarkComplete,
                          SummaryFailed, Readiness
    <2>2. CallTypeOK'
        BY <1>8, <2>1, GotoTyping DEF MarkIndexing, MarkReady, MarkSummarizing,
                                      MarkComplete, SummaryFailed
    <2> QED BY <2>1, <2>2
<1>9. CASE InsertChunk(a)
    <2>1. RowTypeOK' /\ lastDoc' = lastDoc
        BY <1>1, <1>9 DEF InsertChunk
    <2>2. CallTypeOK'
        BY <1>9, <2>1, GotoTyping DEF InsertChunk
    <2> QED BY <2>1, <2>2
<1>10. CASE PersistEntities(a) \/ StoreSummary(a)
    <2> DEFINE K == IF PersistEntities(a) THEN {"mentions", "provenance"} ELSE {"provenance"}
    <2>1. RowTypeOK' /\ lastDoc' = lastDoc
        <3>1. K \in SUBSET Tables
            BY DEF Tables
        <3>2. /\ derived' = [derived EXCEPT ![call[a].doc] = @ \cup K]
              /\ UNCHANGED <<rows, hash, readiness, pendingText, chunkRows, lastDoc>>
            BY <1>10 DEF PersistEntities, StoreSummary, Derive
        <3> HIDE DEF K
        <3> QED BY <1>4, <3>1, <3>2
    <2>2. CallTypeOK'
        BY <1>10, <2>1, GotoTyping DEF PersistEntities, StoreSummary
    <2> QED BY <2>1, <2>2
<1>11. CASE ChunkProvenance(a) \/ PersistClaims(a)
    <2> DEFINE K == IF ChunkProvenance(a) THEN {"provenance"} ELSE {"claims"}
    <2>1. RowTypeOK' /\ lastDoc' = lastDoc
        <3>1. K \in SUBSET Tables
            BY DEF Tables
        <3>2. /\ derived' = [derived EXCEPT ![call[a].doc] = @ \cup K]
              /\ UNCHANGED <<rows, hash, readiness, pendingText, chunkRows, lastDoc>>
            BY <1>11 DEF ChunkProvenance, PersistClaims, Derive
        <3> HIDE DEF K
        <3> QED BY <1>4, <3>1, <3>2
    <2>2. CallTypeOK'
        BY <1>11, <2>1, NextChunkTyping DEF ChunkProvenance, PersistClaims
    <2> QED BY <2>1, <2>2
<1>12. CASE DeleteMentions(a) \/ DeleteClaims(a) \/ DeleteProvenance(a)
    <2>1. RowTypeOK' /\ lastDoc' = lastDoc
        <3>1. PICK k \in Tables :
                /\ derived' = [derived EXCEPT ![call[a].doc] = @ \ {k}]
                /\ UNCHANGED <<rows, hash, readiness, pendingText, chunkRows, lastDoc>>
            BY <1>12 DEF DeleteMentions, DeleteClaims, DeleteProvenance, DeleteFrom, Tables
        <3>2. {k} \in SUBSET Tables
            OBVIOUS
        <3> QED BY <1>4, <3>1, <3>2
    <2>2. CallTypeOK'
        BY <1>12, <2>1, GotoTyping
           DEF DeleteMentions, DeleteClaims, DeleteProvenance, DeleteFrom
    <2> QED BY <2>1, <2>2
<1>13. CASE DeleteRow(a)
    <2>1. RowTypeOK' /\ lastDoc' = lastDoc
        BY <1>1, <1>13 DEF DeleteRow
    <2>2. CallTypeOK'
        BY <1>13, <2>1, GotoTyping DEF DeleteRow
    <2> QED BY <2>1, <2>2
<1>14. CASE Fault(a)
    <2>1. RowTypeOK' /\ lastDoc' = lastDoc
        BY <1>2, <1>14 DEF Fault, storeVars
    <2>2. CallTypeOK'
        BY <1>14, <2>1, GotoTyping DEF Fault
    <2> QED BY <2>1, <2>2
<1>15. CASE Return(a)
    <2>1. /\ RowTypeOK' /\ lastDoc' = lastDoc
          /\ call' = [call EXCEPT ![a] = NoCall]
        BY <1>2, <1>15 DEF Return, storeVars
    <2>2. /\ NoCall \in CallsUpTo(lastDoc) /\ NoCall.at = "idle" /\ NoCall.n = 0
        BY <1>1, StoreAssumption DEF NoCall, Call, CallsUpTo
    <2> QED BY <1>1, <2>1, <2>2 DEF CallTypeOK
<1> QED BY <1>5, <1>6, <1>7, <1>8, <1>9, <1>10, <1>11, <1>12, <1>13, <1>14, <1>15
        DEF CallStep, IngestStep, ProcessStep, DeleteStep

(* The start of a call keeps the types: it names a document that was       *)
(* inserted, or none yet.                                                  *)
LEMMA StartTyping ==
    ASSUME StoreTypeOK, NEW a \in Actors, StartIngest(a) \/ StartProcess(a) \/ StartDelete(a)
    PROVE  StoreTypeOK'
<1>1. PICK s \in {"find", "get", "del_get"}, d \in 0..lastDoc, c \in Contents \cup {NoContent} :
        Start(a, s, d, c) /\ (s = "find" \/ d \in 1..lastDoc)
    <2>1. lastDoc \in Nat /\ 1..lastDoc \subseteq 0..lastDoc /\ 0 \in 0..lastDoc
        BY StoreAssumption DEF StoreTypeOK
    <2>2. CASE StartIngest(a)
        BY <2>1, <2>2 DEF StartIngest
    <2>3. CASE StartProcess(a)
        BY <2>1, <2>3 DEF StartProcess
    <2>4. CASE StartDelete(a)
        BY <2>1, <2>4 DEF StartDelete
    <2> QED BY <2>2, <2>3, <2>4
<1> DEFINE r == Call(s, d, c)
<1>2. /\ r \in CallsUpTo(lastDoc) /\ r.at = s /\ r.doc = d /\ r.n = 0
    BY <1>1, StoreAssumption
       DEF Call, CallsUpTo, Steps, IngestSteps, ProcessSteps, DeleteSteps
<1>3. call' = [call EXCEPT ![a] = r] /\ UNCHANGED storeVars
    BY <1>1 DEF Start
<1> HIDE DEF r
<1>4. CallTypeOK'
    <2>1. s \in Nameless \/ d \in 1..lastDoc
        BY <1>1 DEF Nameless
    <2> QED BY <1>2, <1>3, <2>1 DEF StoreTypeOK, CallTypeOK, storeVars
<1> QED BY <1>3, <1>4 DEF StoreTypeOK, CallTypeOK, storeVars

-----------------------------------------------------------------------------
(* The text of an unfinished document. *)

LEMMA RowsInDocIds ==
    ASSUME StoreTypeOK
    PROVE  rows \subseteq DocIds /\ lastDoc + 1 \notin rows /\ lastDoc \in Nat
BY StoreAssumption DEF StoreTypeOK, DocIds

(* Call a goes to step s of the same document; the other calls stay. *)
Moved(a, s) ==
    /\ call'[a].at = s /\ call'[a].doc = call[a].doc /\ call'[a].n = call[a].n
    /\ \A b \in Actors \ {a} : call'[b] = call[b]

(* Goto changes the place of one call and nothing else. *)
LEMMA Moving ==
    ASSUME StoreTypeOK, NEW a \in Actors, NEW s \in Steps \cup {"ok", "err"}, Goto(a, s)
    PROVE  Moved(a, s)
<1>1. lastDoc \in Nat /\ call \in [Actors -> CallsUpTo(lastDoc)]
    BY StoreAssumption DEF StoreTypeOK
<1> QED BY <1>1, GotoEffect DEF Moved

(* Call a goes on with the next chunk, or with the next phase. *)
Looped(a, again, next) ==
    /\ call'[a].doc = call[a].doc
    /\ \/ /\ call[a].n + 1 < Chunks
          /\ call'[a].at = again /\ call'[a].n = call[a].n + 1
       \/ /\ call[a].n + 1 = Chunks
          /\ call'[a].at = next /\ call'[a].n = 0
    /\ \A b \in Actors \ {a} : call'[b] = call[b]

(* The two loops over the chunks, as NextChunk runs them. *)
LEMMA ChunkLoops ==
    ASSUME StoreTypeOK, NEW a \in Actors
    PROVE  /\ ChunkProvenance(a) => Looped(a, "chunk", "mentions")
           /\ PersistClaims(a) => Looped(a, "mentions", "ready")
<1>1. lastDoc \in Nat /\ call \in [Actors -> CallsUpTo(lastDoc)]
    BY StoreAssumption DEF StoreTypeOK
<1>2. "chunk" \in Steps /\ "mentions" \in Steps /\ "ready" \in Steps
    BY DEF Steps, ProcessSteps
<1>3. ChunkProvenance(a) => Looped(a, "chunk", "mentions")
    BY <1>1, <1>2, NextChunkEffect DEF ChunkProvenance, Looped
<1>4. PersistClaims(a) => Looped(a, "mentions", "ready")
    BY <1>1, <1>2, NextChunkEffect DEF PersistClaims, Looped
<1> QED BY <1>3, <1>4

(* A text that call a does not carry stays where it is, one that it        *)
(* carries stays with it.                                                  *)
LEMMA TextStays ==
    ASSUME TextIsCarried, NEW a \in Actors, rows' \subseteq rows, UNCHANGED readiness,
           \A d \in rows' : d \in pendingText => d \in pendingText',
           \A b \in Actors \ {a} : call'[b] = call[b],
           call[a].at \in Carrying =>
               \/ call'[a].at \in Carrying /\ call'[a].doc = call[a].doc
               \/ call[a].doc \in rows' => call[a].doc \in pendingText'
    PROVE  TextIsCarried'
BY DEF TextIsCarried

(* A step of a call loses no unfinished document's text, when the          *)
(* statements before the text is safe do not fail.                         *)
LEMMA CallKeepsText ==
    ASSUME StoreTypeOK, TextIsCarried, NEW a \in Actors, TextSurvives,
           CallStep(a) \/ ProcessInline(a) \/ Return(a)
    PROVE  TextIsCarried'
<1> USE DEF At, Carrying, storeVars, Moved, Steps, IngestSteps, ProcessSteps, DeleteSteps
<1>1. CASE FindContent(a) \/ GetDocument(a) \/ TakeText(a) \/ Generate(a) \/ DeleteGet(a)
            \/ RecomputeEdges(a) \/ ProcessInline(a)
    <2>1. /\ UNCHANGED storeVars /\ call[a].at \notin Carrying
          /\ \A b \in Actors \ {a} : call'[b] = call[b]
        BY <1>1, Moving DEF FindContent, GetDocument, TakeText, Generate, DeleteGet,
                            RecomputeEdges, ProcessInline
    <2> QED BY <2>1, TextStays
<1>2. CASE InsertDocument(a)
    <2>1. CASE UNCHANGED storeVars /\ Goto(a, "err")
        <3>1. \A b \in Actors \ {a} : call'[b] = call[b]
            BY <2>1, Moving
        <3> QED BY <1>2, <2>1, <3>1, TextStays DEF InsertDocument
    <2>2. CASE ~(UNCHANGED storeVars /\ Goto(a, "err"))
        <3>1. /\ rows' = rows \cup {lastDoc + 1} /\ UNCHANGED pendingText
              /\ readiness' = [readiness EXCEPT ![lastDoc + 1] = "pending"]
              /\ call' = [call EXCEPT ![a].at = "set_text", ![a].doc = lastDoc + 1]
              /\ call[a].at = "insert"
            BY <1>2, <2>2 DEF InsertDocument
        <3>2. call'[a].at = "set_text" /\ call'[a].doc = lastDoc + 1
            BY <3>1 DEF StoreTypeOK, CallsUpTo
        <3>3. \A b \in Actors \ {a} : call'[b] = call[b]
            BY <3>1 DEF StoreTypeOK
        <3>4. \A d \in rows : readiness'[d] = readiness[d]
            BY <3>1, RowsInDocIds DEF StoreTypeOK
        <3>5. ASSUME NEW d \in rows', readiness'[d] \notin Queryable
              PROVE  \/ d \in pendingText'
                     \/ \E b \in Actors : call'[b].doc = d /\ call'[b].at \in Carrying
            <4>1. CASE d = lastDoc + 1
                BY <3>2, <4>1
            <4>2. CASE d \in rows
                BY <3>1, <3>3, <3>4, <3>5, <4>2 DEF TextIsCarried
            <4> QED BY <3>1, <4>1, <4>2
        <3> QED BY <3>5 DEF TextIsCarried
    <2> QED BY <2>1, <2>2
<1>3. CASE SetPendingText(a)
    <2>1. Moved(a, "dispatch")
        BY <1>3, Moving DEF SetPendingText
    <2> QED BY <1>3, <2>1, TextStays DEF SetPendingText
<1>4. CASE ClearText(a)
    <2>1. Moved(a, "indexing")
        BY <1>4, Moving DEF ClearText
    <2> QED BY <1>4, <2>1 DEF ClearText, TextIsCarried
<1>5. CASE MarkIndexing(a)
    <2>1. Moved(a, "chunk")
        BY <1>5, Moving DEF MarkIndexing
    <2> QED BY <1>5, <2>1 DEF MarkIndexing, SetReadiness, TextIsCarried, StoreTypeOK
<1>6. CASE InsertChunk(a)
    <2>1. CASE call[a].doc \in rows
        <3>1. Moved(a, "chunk_prov")
            BY <1>6, <2>1, Moving DEF InsertChunk
        <3> QED BY <1>6, <3>1, TextStays DEF InsertChunk
    <2>2. CASE call[a].doc \notin rows
        <3>1. Moved(a, "err")
            BY <1>6, <2>2, Moving DEF InsertChunk
        <3> QED BY <1>6, <2>2, <3>1, TextStays DEF InsertChunk
    <2> QED BY <2>1, <2>2
<1>7. CASE ChunkProvenance(a) \/ PersistClaims(a)
    <2>2. /\ call'[a].at \in Carrying /\ call'[a].doc = call[a].doc
          /\ \A b \in Actors \ {a} : call'[b] = call[b]
        BY <1>7, ChunkLoops DEF Looped
    <2> QED BY <1>7, <2>2, TextStays DEF ChunkProvenance, PersistClaims
<1>8. CASE PersistEntities(a)
    <2>1. Moved(a, "claims")
        BY <1>8, Moving DEF PersistEntities
    <2> QED BY <1>8, <2>1, TextStays DEF PersistEntities
<1>9. CASE MarkReady(a) \/ MarkSummarizing(a) \/ MarkComplete(a) \/ SummaryFailed(a)
    <2>1. PICK r \in Queryable : SetReadiness(call[a].doc, r)
        BY <1>9 DEF MarkReady, MarkSummarizing, MarkComplete, SummaryFailed, Queryable
    <2>2. /\ UNCHANGED <<rows, pendingText>>
          /\ \A b \in Actors \ {a} : call'[b] = call[b]
          /\ call'[a].doc = call[a].doc
        BY <1>9, Moving DEF MarkReady, MarkSummarizing, MarkComplete, SummaryFailed
    <2>3. \A d \in rows : readiness'[d] \notin Queryable =>
                              readiness[d] \notin Queryable /\ d # call[a].doc
        BY <2>1, RowsInDocIds DEF SetReadiness, StoreTypeOK
    <2> QED BY <2>2, <2>3 DEF TextIsCarried
<1>10. CASE StoreSummary(a) \/ DeleteMentions(a) \/ DeleteClaims(a) \/ DeleteProvenance(a)
             \/ DeleteRow(a)
    <2>1. /\ rows' \subseteq rows /\ UNCHANGED readiness /\ call[a].at \notin Carrying
          /\ \A d \in rows' : d \in pendingText => d \in pendingText'
        BY <1>10 DEF StoreSummary, DeleteMentions, DeleteClaims, DeleteProvenance,
                     DeleteRow, DeleteFrom
    <2>2. \A b \in Actors \ {a} : call'[b] = call[b]
        BY <1>10, Moving DEF StoreSummary, DeleteMentions, DeleteClaims, DeleteProvenance,
                     DeleteRow, DeleteFrom
    <2> QED BY <2>1, <2>2, TextStays
<1>11. CASE Fault(a)
    <2>1. /\ UNCHANGED storeVars /\ call[a].at \notin Carrying
          /\ \A b \in Actors \ {a} : call'[b] = call[b]
        BY <1>11, Moving DEF Fault, TextSurvives
    <2> QED BY <2>1, TextStays
<1>12. CASE Return(a)
    <2>1. /\ UNCHANGED storeVars /\ call[a].at \notin Carrying
          /\ \A b \in Actors \ {a} : call'[b] = call[b]
        BY <1>12 DEF Return, StoreTypeOK
    <2> QED BY <2>1, TextStays
<1> QED BY <1>1, <1>2, <1>3, <1>4, <1>5, <1>6, <1>7, <1>8, <1>9, <1>10, <1>11, <1>12
        DEF CallStep, IngestStep, ProcessStep, DeleteStep

-----------------------------------------------------------------------------
(* What is stored of a live document. *)

(* Nothing is taken from a document that stays alive, nor does a deletion  *)
(* that has begun to remove rows stop before the row of the document.      *)
NothingTaken ==
    \A d \in rows' : d \in rows /\ Live(d)' =>
        Live(d) /\ chunkRows'[d] >= chunkRows[d] /\ derived[d] \subseteq derived'[d]

(* A step of a call takes nothing from a document that stays and that no   *)
(* deletion has begun on.                                                  *)
LEMMA CallTakesNothing ==
    ASSUME StoreTypeOK, NEW a \in Actors, DeletionsFinish,
           CallStep(a) \/ ProcessInline(a) \/ Return(a)
    PROVE  NothingTaken
<1> DEFINE Others == \A b \in Actors \ {a} : call'[b] = call[b]
<1>1. ASSUME Others, rows \cap rows' \subseteq rows, UNCHANGED <<chunkRows, derived>>,
             call[a].at \notin Removing
      PROVE  NothingTaken
    BY <1>1, RowsInDocIds DEF NothingTaken, Live, Doomed, StoreTypeOK
<1> USE DEF At, storeVars, Moved, Steps, IngestSteps, ProcessSteps, DeleteSteps, Removing
<1>2. CASE FindContent(a) \/ GetDocument(a) \/ TakeText(a) \/ Generate(a) \/ DeleteGet(a)
            \/ RecomputeEdges(a) \/ ProcessInline(a) \/ Fault(a)
    BY <1>1, <1>2, Moving
       DEF FindContent, GetDocument, TakeText, Generate, DeleteGet, RecomputeEdges,
           ProcessInline, Fault, DeletionsFinish
<1>3. CASE InsertDocument(a)
    <2>1. Others
        <3>1. CASE Goto(a, "err")
            BY <3>1, Moving
        <3>2. CASE ~Goto(a, "err")
            BY <1>3, <3>2 DEF InsertDocument, StoreTypeOK
        <3> QED BY <3>1, <3>2
    <2> QED BY <1>1, <1>3, <2>1 DEF InsertDocument
<1>4. CASE SetPendingText(a) \/ ClearText(a) \/ MarkIndexing(a) \/ MarkReady(a)
            \/ MarkSummarizing(a) \/ MarkComplete(a) \/ SummaryFailed(a)
    BY <1>1, <1>4, Moving
       DEF SetPendingText, ClearText, MarkIndexing, MarkReady, MarkSummarizing,
           MarkComplete, SummaryFailed
<1>5. CASE Return(a)
    BY <1>1, <1>5 DEF Return, StoreTypeOK
<1>6. ASSUME Others, UNCHANGED rows, call[a].at \notin Removing,
             \A d \in rows : chunkRows'[d] >= chunkRows[d] /\ derived[d] \subseteq derived'[d]
      PROVE  NothingTaken
    BY <1>6 DEF NothingTaken, Live, Doomed
<1>7. CASE InsertChunk(a)
    <2>1. Others
        BY <1>7, Moving DEF InsertChunk
    <2>2. \A d \in rows : chunkRows'[d] >= chunkRows[d] /\ derived[d] \subseteq derived'[d]
        BY <1>7, RowsInDocIds DEF InsertChunk, StoreTypeOK
    <2> QED BY <1>6, <1>7, <2>1, <2>2 DEF InsertChunk
<1>8. CASE ChunkProvenance(a) \/ PersistClaims(a)
    <2>1. Others
        BY <1>8, ChunkLoops DEF Looped
    <2>2. \A d \in rows : chunkRows'[d] >= chunkRows[d] /\ derived[d] \subseteq derived'[d]
        BY <1>8, RowsInDocIds DEF ChunkProvenance, PersistClaims, Derive, StoreTypeOK
    <2> QED BY <1>6, <1>8, <2>1, <2>2 DEF ChunkProvenance, PersistClaims
<1>9. CASE PersistEntities(a) \/ StoreSummary(a)
    <2>1. Others
        BY <1>9, Moving DEF PersistEntities, StoreSummary
    <2>2. \A d \in rows : chunkRows'[d] >= chunkRows[d] /\ derived[d] \subseteq derived'[d]
        BY <1>9, RowsInDocIds DEF PersistEntities, StoreSummary, Derive, StoreTypeOK
    <2> QED BY <1>6, <1>9, <2>1, <2>2 DEF PersistEntities, StoreSummary
<1>10. CASE DeleteMentions(a) \/ DeleteClaims(a) \/ DeleteProvenance(a)
    <2>1. PICK s \in Removing : Goto(a, s)
        BY <1>10 DEF DeleteMentions, DeleteClaims, DeleteProvenance, DeleteFrom
    <2>2. Moved(a, s)
        BY <2>1, Moving
    <2>3. /\ UNCHANGED <<rows, chunkRows>>
          /\ \A d \in rows : d # call[a].doc => derived'[d] = derived[d]
        BY <1>10, RowsInDocIds
           DEF DeleteMentions, DeleteClaims, DeleteProvenance, DeleteFrom, StoreTypeOK
    <2>4. ASSUME NEW d \in rows, Live(d)'
          PROVE  Live(d) /\ d # call[a].doc
        BY <2>1, <2>2, <2>3, <2>4 DEF Live, Doomed
    <2> QED BY <2>3, <2>4, RowsInDocIds DEF NothingTaken, StoreTypeOK
<1>11. CASE DeleteRow(a)
    <2>1. Others /\ rows' = rows \ {call[a].doc} /\ UNCHANGED derived
          /\ \A d \in rows : d # call[a].doc => chunkRows'[d] = chunkRows[d]
        BY <1>11, Moving, RowsInDocIds DEF DeleteRow, StoreTypeOK
    <2> QED BY <2>1, RowsInDocIds DEF NothingTaken, Live, Doomed, StoreTypeOK
<1> QED BY <1>2, <1>3, <1>4, <1>5, <1>7, <1>8, <1>9, <1>10, <1>11
        DEF CallStep, IngestStep, ProcessStep, DeleteStep

(* What the other calls and the documents have stored, they keep. *)
LEMMA OthersKeepStored ==
    ASSUME StoreTypeOK, StoreTypeOK', StoredSoFar, NothingTaken, NEW a \in Actors,
           \A b \in Actors \ {a} : call'[b] = call[b],
           NEW d \in rows', d \in rows, Live(d)'
    PROVE  /\ Live(d)
           /\ Complete(d) => Complete(d)'
           /\ \A b \in Actors \ {a} : call'[b].doc = d => Stored(b, d)'
           /\ readiness'[d] = readiness[d] /\ readiness'[d] \in Queryable => Complete(d)'
<1>1. /\ Live(d) /\ chunkRows'[d] >= chunkRows[d] /\ derived[d] \subseteq derived'[d]
      /\ chunkRows[d] \in Nat /\ chunkRows'[d] \in Nat
      /\ derived'[d] \subseteq Tables
    BY RowsInDocIds DEF NothingTaken, StoreTypeOK
<1>2. Complete(d) => Complete(d)'
    BY <1>1, StoreAssumption DEF Complete
<1>3. ASSUME NEW b \in Actors, call'[b] = call[b], call[b].doc = d
      PROVE  Stored(b, d)'
    <2>1. Stored(b, d) /\ call[b].n \in Nat
        BY <1>1, <1>3, StoreAssumption DEF StoredSoFar, StoreTypeOK, CallsUpTo
    <2> QED BY <1>1, <1>2, <1>3, <2>1, StoreAssumption DEF Stored
<1> QED BY <1>1, <1>2, <1>3 DEF StoredSoFar

(* So a step keeps what is stored, if the call that makes it and the mark  *)
(* that it sets do.                                                        *)
LEMMA StoredKept ==
    ASSUME StoreTypeOK, StoreTypeOK', StoredSoFar, NothingTaken, NEW a \in Actors,
           \A b \in Actors \ {a} : call'[b] = call[b], rows' \subseteq rows,
           \A d \in rows' : Live(d)' /\ Live(d) => 
               /\ call'[a].doc = d => Stored(a, d)'
               /\ readiness'[d] # readiness[d] /\ readiness'[d] \in Queryable => Complete(d)'
    PROVE  StoredSoFar'
<1> SUFFICES ASSUME NEW d \in rows', Live(d)'
             PROVE  /\ \A b \in Actors : call'[b].doc = d => Stored(b, d)'
                    /\ readiness'[d] \in Queryable => Complete(d)'
    BY DEF StoredSoFar
<1>1. d \in rows
    OBVIOUS
<1>2. /\ Live(d)
      /\ \A b \in Actors \ {a} : call'[b].doc = d => Stored(b, d)'
      /\ readiness'[d] = readiness[d] /\ readiness'[d] \in Queryable => Complete(d)'
    BY <1>1, OthersKeepStored
<1> QED BY <1>2

(* A step of a call keeps what every processing call stored so far, and    *)
(* what the ready documents have.                                          *)
LEMMA CallKeepsStored ==
    ASSUME StoreTypeOK, StoredSoFar, NEW a \in Actors, DeletionsFinish,
           CallStep(a) \/ ProcessInline(a) \/ Return(a)
    PROVE  StoredSoFar'
<1> DEFINE Others == \A b \in Actors \ {a} : call'[b] = call[b]
           Early == {"idle", "ok", "err"} \cup NothingStored \cup DeleteSteps
<1>1. StoreTypeOK' /\ NothingTaken
    BY CallTyping, CallTakesNothing
<1>2. \A d : call'[a].at \in Early => Stored(a, d)'
    BY DEF Stored, NothingStored, IngestSteps, DeleteSteps
<1> HIDE DEF Early
<1>3. ASSUME Others, rows' \subseteq rows, UNCHANGED readiness, call'[a].at \in Early
      PROVE  StoredSoFar'
    BY <1>1, <1>2, <1>3, StoredKept
<1>4. ASSUME Others, UNCHANGED <<rows, readiness>>,
             \A d \in rows : Live(d)' /\ Live(d) /\ call[a].doc = d /\ Stored(a, d)
                                => Stored(a, d)',
             call'[a].doc = call[a].doc
      PROVE  StoredSoFar'
    <2>1. \A d \in rows : Live(d) /\ call[a].doc = d => Stored(a, d)
        BY DEF StoredSoFar
    <2> QED BY <1>1, <1>4, <2>1, StoredKept
<1> USE DEF At, Moved, storeVars
<1>5. CASE FindContent(a) \/ GetDocument(a) \/ TakeText(a) \/ DeleteGet(a)
            \/ RecomputeEdges(a) \/ ProcessInline(a) \/ Fault(a) \/ SetPendingText(a)
            \/ ClearText(a) \/ DeleteMentions(a) \/ DeleteClaims(a) \/ DeleteProvenance(a)
            \/ DeleteRow(a)
    <2>1. PICK s \in Early \cap (Steps \cup {"ok", "err"}) : Goto(a, s)
        BY <1>5 DEF FindContent, GetDocument, TakeText, DeleteGet, RecomputeEdges,
                    ProcessInline, Fault, SetPendingText, ClearText, DeleteMentions,
                    DeleteClaims, DeleteProvenance, DeleteFrom, DeleteRow, Early,
                    NothingStored, IngestSteps, DeleteSteps, Steps, ProcessSteps
    <2>2. Others /\ call'[a].at \in Early
        BY <2>1, Moving
    <2>3. rows' \subseteq rows /\ UNCHANGED readiness
        BY <1>5 DEF FindContent, GetDocument, TakeText, DeleteGet, RecomputeEdges,
                    ProcessInline, Fault, SetPendingText, ClearText, DeleteMentions,
                    DeleteClaims, DeleteProvenance, DeleteFrom, DeleteRow
    <2> QED BY <1>3, <2>2, <2>3
<1>6. CASE Return(a)
    <2>1. Others /\ call'[a].at \in Early /\ UNCHANGED storeVars
        BY <1>6 DEF Return, NoCall, Call, Early, StoreTypeOK
    <2> QED BY <1>3, <2>1
<1>7. CASE InsertDocument(a)
    <2>1. CASE UNCHANGED storeVars /\ Goto(a, "err")
        BY <1>3, <2>1, Moving DEF Early
    <2>2. CASE ~(UNCHANGED storeVars /\ Goto(a, "err"))
        <3>1. /\ rows' = rows \cup {lastDoc + 1}
              /\ readiness' = [readiness EXCEPT ![lastDoc + 1] = "pending"]
              /\ call' = [call EXCEPT ![a].at = "set_text", ![a].doc = lastDoc + 1]
            BY <1>7, <2>2 DEF InsertDocument
        <3>2. call'[a].at = "set_text" /\ Others /\ call'[a].at \in Early
            BY <3>1 DEF StoreTypeOK, CallsUpTo, Early, NothingStored, IngestSteps
        <3>3. /\ \A d \in rows : readiness'[d] = readiness[d]
              /\ readiness'[lastDoc + 1] \notin Queryable
            <4>1. lastDoc + 1 \in DocIds
                BY <1>1, <3>1, StoreAssumption DEF StoreTypeOK, DocIds
            <4> QED BY <3>1, <4>1, RowsInDocIds DEF StoreTypeOK, Queryable
        <3>4. \A b \in Actors \ {a} : call'[b].doc # lastDoc + 1
            BY <3>2, StoreAssumption DEF StoreTypeOK, CallsUpTo
        <3> SUFFICES ASSUME NEW d \in rows', Live(d)'
                     PROVE  /\ \A b \in Actors : call'[b].doc = d => Stored(b, d)'
                            /\ readiness'[d] \in Queryable => Complete(d)'
            BY DEF StoredSoFar
        <3>5. CASE d \in rows
            BY <1>1, <1>2, <3>2, <3>3, <3>5, OthersKeepStored
        <3>6. CASE d = lastDoc + 1
            BY <1>2, <3>2, <3>3, <3>4, <3>6
        <3> QED BY <3>1, <3>5, <3>6
    <2> QED BY <2>1, <2>2
<1>8. CASE MarkIndexing(a)
    <2>1. Moved(a, "chunk") /\ call'[a].n = 0
        <3>1. Moved(a, "chunk")
            BY <1>8, Moving DEF MarkIndexing, Steps, ProcessSteps
        <3> QED BY <1>8, <3>1 DEF MarkIndexing, StoreTypeOK, NothingStored
    <2>2. /\ UNCHANGED <<rows, chunkRows>>
          /\ \A d \in rows : readiness'[d] # readiness[d] => readiness'[d] \notin Queryable
        BY <1>8, RowsInDocIds DEF MarkIndexing, SetReadiness, StoreTypeOK, Queryable
    <2>3. \A d \in rows : Stored(a, d)'
        BY <1>1, <2>1, <2>2, RowsInDocIds DEF Stored, StoreTypeOK
    <2> QED BY <1>1, <2>1, <2>2, <2>3, StoredKept
<1>9. CASE InsertChunk(a)
    <2>1. CASE call[a].doc \notin rows
        <3>1. Moved(a, "err")
            BY <1>9, <2>1, Moving DEF InsertChunk
        <3> QED BY <1>3, <1>9, <3>1 DEF InsertChunk, Early
    <2>2. CASE call[a].doc \in rows
        <3>1. Moved(a, "chunk_prov")
            BY <1>9, <2>2, Moving DEF InsertChunk, Steps, ProcessSteps
        <3>2. /\ UNCHANGED <<rows, readiness>> /\ call[a].at = "chunk"
              /\ call[a].doc \in DocIds
              /\ chunkRows' = [chunkRows EXCEPT ![call[a].doc] = @ + 1]
            BY <1>9, <2>2, RowsInDocIds DEF InsertChunk
        <3>3. chunkRows'[call[a].doc] = chunkRows[call[a].doc] + 1
            BY <3>2 DEF StoreTypeOK
        <3>4. chunkRows[call[a].doc] \in Nat /\ call[a].n \in Nat
            BY <3>2, StoreAssumption DEF StoreTypeOK, CallsUpTo
        <3>5. \A d \in rows : call[a].doc = d /\ Stored(a, d) => Stored(a, d)'
            BY <3>1, <3>2, <3>3, <3>4 DEF Stored
        <3> QED BY <1>4, <3>1, <3>2, <3>5
    <2> QED BY <2>1, <2>2
<1>10. CASE ChunkProvenance(a)
    <2>1. /\ Looped(a, "chunk", "mentions") /\ call[a].at = "chunk_prov"
          /\ UNCHANGED <<rows, readiness, chunkRows>>
          /\ derived' = [derived EXCEPT ![call[a].doc] = @ \cup {"provenance"}]
        BY <1>10, ChunkLoops DEF ChunkProvenance, Derive
    <2>3. call[a].n \in Nat
        BY StoreAssumption DEF StoreTypeOK, CallsUpTo
    <2>2. ASSUME NEW d \in rows, call[a].doc = d, Stored(a, d)
          PROVE  Stored(a, d)'
        <3>1. "provenance" \in derived'[d] /\ chunkRows[d] >= call[a].n + 1
            BY <2>1, <2>2, RowsInDocIds DEF StoreTypeOK, Stored
        <3>2. chunkRows[d] \in Nat
            BY RowsInDocIds DEF StoreTypeOK
        <3> QED BY <2>1, <2>3, <3>1, <3>2, StoreAssumption DEF Stored, Looped
    <2> QED BY <1>4, <2>1, <2>2 DEF Looped
<1>11. CASE PersistEntities(a)
    <2>1. /\ Moved(a, "claims") /\ call[a].at = "mentions"
          /\ UNCHANGED <<rows, readiness, chunkRows>>
          /\ derived' = [derived EXCEPT ![call[a].doc] = @ \cup {"mentions", "provenance"}]
        BY <1>11, Moving DEF PersistEntities, Steps, ProcessSteps
    <2>2. ASSUME NEW d \in rows, call[a].doc = d, Stored(a, d)
          PROVE  Stored(a, d)'
        <3>1. {"mentions", "provenance"} \subseteq derived'[d]
            BY <2>1, <2>2, RowsInDocIds DEF StoreTypeOK
        <3> QED BY <2>1, <2>2, <3>1 DEF Stored
    <2> QED BY <1>4, <2>1, <2>2
<1>12. CASE PersistClaims(a)
    <2>1. /\ Looped(a, "mentions", "ready") /\ call[a].at = "claims"
          /\ UNCHANGED <<rows, readiness, chunkRows>>
          /\ derived' = [derived EXCEPT ![call[a].doc] = @ \cup {"claims"}]
        BY <1>12, ChunkLoops DEF PersistClaims, Derive
    <2>2. ASSUME NEW d \in rows, call[a].doc = d, Stored(a, d)
          PROVE  Stored(a, d)'
        <3>1. /\ Tables \subseteq derived'[d] /\ derived'[d] \subseteq Tables
              /\ chunkRows[d] >= Chunks
            BY <1>1, <2>1, <2>2, RowsInDocIds DEF StoreTypeOK, Stored, Tables
        <3> QED BY <2>1, <2>2, <3>1 DEF Stored, Looped, Complete, Tables
    <2> QED BY <1>4, <2>1, <2>2 DEF Looped
<1>13. CASE MarkReady(a) \/ MarkSummarizing(a) \/ MarkComplete(a) \/ SummaryFailed(a)
    <2>1. PICK s \in {"summarize", "generate", "ok"}, r \in Readiness :
            /\ Goto(a, s) /\ SetReadiness(call[a].doc, r)
            /\ UNCHANGED <<rows, chunkRows, derived>>
            /\ call[a].at \in {"ready", "summarize", "complete", "summary_failed"}
        BY <1>13 DEF MarkReady, MarkSummarizing, MarkComplete, SummaryFailed, Readiness
    <2>2. Moved(a, s)
        BY <2>1, Moving DEF Steps, ProcessSteps
    <2>3. ASSUME NEW d \in rows', Live(d)
          PROVE  /\ call'[a].doc = d => Stored(a, d)'
                 /\ readiness'[d] # readiness[d] => Complete(d)'
        <3>1. d \in rows /\ (call[a].doc = d => Complete(d))
            BY <2>1, <2>3 DEF StoredSoFar, Stored
        <3>2. Complete(d) => Complete(d)'
            BY <2>1 DEF Complete
        <3>3. readiness'[d] # readiness[d] => call[a].doc = d
            BY <2>1, <3>1, RowsInDocIds DEF SetReadiness, StoreTypeOK
        <3> QED BY <2>1, <2>2, <3>1, <3>2, <3>3 DEF Stored
    <2> QED BY <1>1, <2>1, <2>2, <2>3, StoredKept
<1>14. CASE Generate(a) \/ StoreSummary(a)
    <2>1. PICK s \in {"summary_prov", "summary_failed", "complete"} :
            /\ Goto(a, s) /\ UNCHANGED <<rows, readiness>>
            /\ call[a].at \in {"generate", "summary_prov"}
        BY <1>14 DEF Generate, StoreSummary
    <2>2. Moved(a, s)
        BY <2>1, Moving DEF Steps, ProcessSteps
    <2>3. ASSUME NEW d \in rows, Live(d), Live(d)', call[a].doc = d, Stored(a, d)
          PROVE  Stored(a, d)'
        <3>1. Complete(d)
            BY <2>1, <2>3 DEF Stored
        <3>2. d \in rows'
            BY <2>1
        <3>3. Complete(d)'
            BY <1>1, <2>2, <2>3, <3>1, <3>2, OthersKeepStored
        <3> QED BY <2>1, <2>2, <3>3 DEF Stored
    <2> QED BY <1>4, <2>1, <2>2, <2>3
<1> QED BY <1>5, <1>6, <1>7, <1>8, <1>9, <1>10, <1>11, <1>12, <1>13, <1>14
        DEF CallStep, IngestStep, ProcessStep, DeleteStep

-----------------------------------------------------------------------------
(* The invariants, and what follows. *)

(* The start of a call changes no document, and has stored nothing yet. *)
LEMMA StartKeeps ==
    ASSUME StoreTypeOK, NEW a \in Actors, StartIngest(a) \/ StartProcess(a) \/ StartDelete(a)
    PROVE  /\ TextIsCarried => TextIsCarried'
           /\ StoredSoFar => StoredSoFar'
<1>1. StoreTypeOK'
    BY StartTyping
<1>2. PICK s \in {"find", "get", "del_get"} : \E d, c : Start(a, s, d, c)
    BY DEF StartIngest, StartProcess, StartDelete
<1>3. /\ call[a].at = "idle" /\ call'[a].at = s /\ UNCHANGED storeVars
      /\ \A b \in Actors \ {a} : call'[b] = call[b]
    BY <1>2 DEF Start, Call, At, StoreTypeOK
<1>4. TextIsCarried => TextIsCarried'
    BY <1>3, TextStays DEF Carrying, storeVars
<1>5. NothingTaken
    <2>1. \A d : Live(d)' => Live(d)
        BY <1>3 DEF Live, Doomed, Removing, storeVars
    <2>2. \A d \in rows : chunkRows'[d] >= chunkRows[d] /\ derived'[d] = derived[d]
        BY <1>3, RowsInDocIds DEF StoreTypeOK, storeVars
    <2> QED BY <2>1, <2>2 DEF NothingTaken
<1>6. \A e : Stored(a, e)'
    BY <1>3 DEF Stored
<1>7. StoredSoFar => StoredSoFar'
    BY <1>1, <1>3, <1>5, <1>6, StoredKept DEF storeVars
<1> QED BY <1>4, <1>7

(* Every variable stays in its type, whatever fails. *)
THEOREM StoreTyping == SyncSpec => []StoreTypeOK
<1>1. StoreInit => StoreTypeOK
    BY StoreInitially DEF StoreInv
<1>2. StoreTypeOK /\ [SyncNext]_svars => StoreTypeOK'
    <2>1. CASE UNCHANGED svars
        BY <2>1 DEF StoreTypeOK, svars, storeVars
    <2> QED BY <2>1, StartTyping, CallTyping DEF SyncNext
<1> QED BY <1>1, <1>2, PTL DEF SyncSpec

(* What is stored of a live document is all of a ready one. *)
LEMMA StoredMeansComplete == StoredSoFar => ReadyIsComplete
<1> SUFFICES ASSUME StoredSoFar, NEW d \in rows, readiness[d] \in Queryable,
                    ~BeingDeleted(d)
             PROVE  Complete(d)
    BY DEF ReadyIsComplete, Complete
<1>1. ~Doomed(d)
    BY DEF Doomed, Removing, BeingDeleted, AboutDoc, DeleteSteps, Steps
<1> QED BY <1>1 DEF StoredSoFar, Live

(* A call that carries a text holds it. *)
LEMMA CarriedMeansHeld == TextIsCarried => UnfinishedHasText
BY DEF TextIsCarried, UnfinishedHasText, Carrying, HoldsText, AboutDoc,
       Steps, IngestSteps, ProcessSteps

(* Whatever calls ingest, process and delete documents at the same time,   *)
(* a document that process_document has marked ready, and that no deletion *)
(* is about, has all of its chunks and everything derived from them.  Any  *)
(* statement may fail, but not one of a deletion that has removed rows.    *)
THEOREM ReadyDocumentsAreComplete ==
    ASSUME DeletionsFinish
    PROVE  SyncSpec => []ReadyIsComplete
<1>1. StoreInit => StoredSoFar
    BY StoreInitially DEF StoreInv
<1>2. StoreTypeOK /\ StoredSoFar /\ [SyncNext]_svars => StoredSoFar'
    <2>1. CASE UNCHANGED svars
        BY <2>1 DEF StoredSoFar, Live, Doomed, Stored, Complete, svars, storeVars
    <2> QED BY <2>1, StartKeeps, CallKeepsStored DEF SyncNext
<1>3. StoredSoFar => ReadyIsComplete
    BY StoredMeansComplete
<1> QED BY <1>1, <1>2, <1>3, StoreTyping, PTL DEF SyncSpec

(* An unfinished document can still be finished: its text is in its row,   *)
(* or with a call that goes on.  Any statement may fail, but not one of a  *)
(* call that has the only copy of the text.                                *)
THEOREM UnfinishedDocumentsHaveText ==
    ASSUME TextSurvives
    PROVE  SyncSpec => []UnfinishedHasText
<1>1. StoreInit => TextIsCarried
    BY StoreInitially DEF StoreInv
<1>2. StoreTypeOK /\ TextIsCarried /\ [SyncNext]_svars => TextIsCarried'
    <2>1. CASE UNCHANGED svars
        BY <2>1 DEF TextIsCarried, svars, storeVars
    <2> QED BY <2>1, StartKeeps, CallKeepsText DEF SyncNext
<1>3. TextIsCarried => UnfinishedHasText
    BY CarriedMeansHeld
<1> QED BY <1>1, <1>2, <1>3, StoreTyping, PTL DEF SyncSpec

=============================================================================
