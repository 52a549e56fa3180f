--------------------------- MODULE IngestionProofs ---------------------------
(* Theorems about Ingestion, for any number of workers, callers, jobs and  *)
(* documents: the composed system refines the queue, and what the queue    *)
(* says of a job is true of its document.                                  *)
EXTENDS Ingestion, JobQueueProofs, DocumentStoreProofs

-----------------------------------------------------------------------------
(* Who is in which call, and for which job. *)

Enqueued == 1..lastId
ToProcess(j) == kind[j] = "process_document"

PayloadOK ==
    /\ kind \in [Jobs -> Kinds]
    /\ payload \in [Jobs -> 0..MaxDocs]
    /\ \A j \in Enqueued : payload[j] \in 1..lastDoc

(* A worker is in the call its job asks for, from the claim to the report, *)
(* and in no other call.                                                   *)
Assigned ==
    \A w \in Threads :
        /\ pc[w] # "work" => call[w].at = "idle"
        /\ pc[w] = "work" =>
              /\ call[w].doc = payload[job[w]]
              /\ call[w].at \in {"ok", "err"}
                     \cup (IF ToProcess(job[w]) THEN ProcessSteps ELSE DeleteSteps)

(* The application makes the calls that ClientCalls lists. *)
ClientsCall ==
    \A a \in Clients :
        /\ call[a].at \in ProcessSteps => "process" \in ClientCalls
        /\ call[a].at \in DeleteSteps => "delete" \in ClientCalls

(* A document is ingested once and processed by one job: the call that     *)
(* inserted it enqueues the job, and ends.                                 *)
Ingesting == {"set_text", "dispatch"}
OneJobPerText ==
    /\ \A i, j \in Enqueued :
          ToProcess(i) /\ ToProcess(j) /\ payload[i] = payload[j] => i = j
    /\ \A a \in Actors : call[a].at \in Ingesting =>
          /\ \A j \in Enqueued : ToProcess(j) => payload[j] # call[a].doc
          /\ \A b \in Actors \ {a} :
                call[b].at \in Ingesting => call[b].doc # call[a].doc

Wiring == IInv /\ StoreTypeOK /\ PayloadOK /\ Assigned /\ ClientsCall /\ OneJobPerText

(* The calls that need the text of their document to themselves. *)
Filling == Ingesting \cup ProcessSteps

-----------------------------------------------------------------------------
(* How far the only call that fills a document has come with it. *)

Finishing == {"summarize", "generate", "summary_prov", "complete", "summary_failed"}

DocumentOK(d) ==
    /\ d \notin rows => chunkRows[d] = 0
    /\ d \in pendingText => chunkRows[d] = 0 /\ readiness[d] \notin Queryable
    /\ chunkRows[d] <= Chunks

CallOnCourse(a) ==
    LET d == call[a].doc  at == call[a].at IN
    d \in rows =>
        /\ at \in {"set_text", "indexing"} => chunkRows[d] = 0
        /\ at = "clear" => d \in pendingText
        /\ at \in Carrying \cup Finishing => d \notin pendingText
        /\ at = "chunk" => chunkRows[d] = call[a].n
        /\ at = "chunk_prov" => chunkRows[d] = call[a].n + 1
        /\ at \in Carrying => readiness[d] \notin Queryable
        /\ at \in Finishing => readiness[d] \in Queryable
        /\ at # "del_edges"

(* Documents are processed by the jobs only. *)
WorkersProcess == "process" \notin ClientCalls

Progress ==
    /\ \A d \in DocIds : DocumentOK(d)
    /\ \A a \in Actors : CallOnCourse(a)

(* A call that succeeded did what its job asked for, and it stays done. *)
Fulfilled(j) ==
    \/ payload[j] \notin rows
    \/ ToProcess(j) /\ readiness[payload[j]] \in Queryable

Succeeded(w) ==
    \/ pc[w] = "work" /\ call[w].at = "ok"
    \/ pc[w] \in {"report", "settle"} /\ outcome[w] = "ok"

ResultsAreTrue == \A w \in Threads : Succeeded(w) => Fulfilled(job[w])

FilledInv == Wiring /\ Progress /\ ResultsAreTrue /\ DoneIsTrue

-----------------------------------------------------------------------------
(* One worker, and deletion by job: nothing is derived beside a deletion.  *)

OneWorker == \A v, w \in Threads : v = w

Touching == (ProcessSteps \ {"get"}) \cup (DeleteSteps \ {"del_get", "del_edges"})

DeletionOnCourse(a) ==
    LET d == call[a].doc  at == call[a].at IN
    /\ at \in Touching => d \in rows
    /\ at \in {"del_claims", "del_prov", "del_row"} => "mentions" \notin derived[d]
    /\ at \in {"del_prov", "del_row"} => "claims" \notin derived[d]
    /\ at = "del_row" => "provenance" \notin derived[d]

(* Documents are processed and deleted by the jobs of one worker only. *)
OnlyTheWorker == OneWorker /\ {"process", "delete"} \cap ClientCalls = {}

Emptied == \A d \in DocIds \ rows : derived[d] = {} /\ chunkRows[d] = 0

GoneInv == Wiring /\ Emptied /\ \A w \in Threads : DeletionOnCourse(w)

-----------------------------------------------------------------------------
(* A process that stays up, and no statement fails before the text is in   *)
(* the hands of the worker.                                                *)

TextNotTaken == {"get", "take", "clear"}
StaysUp ==
    /\ {"close", "crash"} \cap Events = {}
    /\ "cancel" \notin ClientCalls
    /\ FaultSteps \cap ({"dispatch"} \cup TextNotTaken) = {}

EnginesUp == \A e \in Engines : engine[e] \in {"down", "open"}

TextWaits ==
    \A j \in Enqueued : ToProcess(j) /\ payload[j] \in pendingText =>
        /\ Waiting(j)
        /\ \A w \in Threads : Holds(w) /\ job[w] = j =>
              pc[w] = "work" /\ call[w].at \in TextNotTaken

TextCovered ==
    \A d \in pendingText :
        \/ \E j \in Enqueued : ToProcess(j) /\ payload[j] = d
        \/ \E a \in Clients : call[a].doc = d /\ call[a].at = "dispatch"

TextInv == Wiring /\ EnginesUp /\ TextWaits /\ TextCovered

-----------------------------------------------------------------------------
(* The composed system refines the queue. *)

(* A step of a call, or its start, that leaves the queue alone. *)
Statement(a) ==
    /\ UNCHANGED <<vars, payload>>
    /\ \/ StartIngest(a) \/ CallStep(a) \/ Return(a)
       \/ a \in Clients /\ "delete" \in ClientCalls /\ StartDelete(a)
       \/ a \in Clients /\ "process" \in ClientCalls /\ StartProcess(a)
    /\ a \in Threads => CallStep(a) /\ pc[a] = "work"

(* The steps of the queue that neither claim nor finish the work of a job. *)
QueueStep ==
    /\ UNCHANGED <<svars, payload>>
    /\ \/ \E w \in Threads : LoopHead(w) \/ Idle(w) \/ ReadAttempts(w) \/ Settle(w)
       \/ \E w \in Threads : "lose_report" \in Events /\ LoseReport(w)
       \/ \E e \in Engines : Open(e) \/ FinishClose(e)
       \/ \E e \in Engines : "close" \in Events /\ BeginClose(e)
       \/ \E j \in Jobs : Elapse(j)
       \/ \E j \in Jobs : "cancel" \in ClientCalls /\ CancelJob(j)

Insertion ==
    \/ \E a \in Clients : Dispatch(a)
    \/ \E a \in Clients, d \in 1..lastDoc : EnqueueDelete(a, d)

(* Every step of the system is one of these. *)
LEMMA StepsOfIngestion ==
    ASSUME IngestionNext
    PROVE  \/ \E a \in Actors : Statement(a)
           \/ QueueStep
           \/ Insertion
           \/ \E w \in Threads : ClaimCall(w) \/ CallReturned(w)
           \/ \E e \in Engines : "crash" \in Events /\ ProcessDies(e)
<1>1. CASE \E a \in Clients : ClientStep(a) \/ ClientOption(a)
    <2>1. PICK a \in Clients : ClientStep(a) \/ ClientOption(a)
        BY <1>1
    <2>2. a \in Actors /\ a \notin Threads
        BY IngestionAssumption
    <2>3. CASE ClientStep(a)
        BY <2>2, <2>3 DEF ClientStep, StoreOnly, Statement, Insertion
    <2>4. CASE ClientOption(a)
        <3>1. Statement(a) \/ Insertion \/ QueueStep
            BY <2>2, <2>4 DEF ClientOption, StoreOnly, QueueOnly, Statement, Insertion,
                              QueueStep
        <3> QED BY <2>2, <3>1
    <2> QED BY <2>1, <2>3, <2>4
<1>2. CASE \E w \in Threads : WorkerStep(w)
    <2>1. PICK w \in Threads : WorkerStep(w)
        BY <1>2
    <2>2. w \in Actors
        BY IngestionAssumption
    <2>3. CASE StoreOnly(pc[w] = "work" /\ CallStep(w))
        <3>1. Statement(w)
            BY <2>3 DEF StoreOnly, Statement
        <3> QED BY <2>2, <3>1
    <2> QED BY <2>1, <2>3 DEF WorkerStep, QueueOnly, QueueStep
<1>3. CASE \E w \in Threads : "lose_report" \in Events /\ QueueOnly(LoseReport(w))
    BY <1>3 DEF QueueOnly, QueueStep
<1>4. CASE \E e \in Engines : EngineStep(e)
    BY <1>4 DEF EngineStep, QueueOnly, QueueStep
<1>5. CASE \E j \in Jobs : QueueOnly(Elapse(j))
    BY <1>5 DEF QueueOnly, QueueStep
<1> QED BY <1>1, <1>2, <1>3, <1>4, <1>5 DEF IngestionNext

(* ... and in the queue alone it is a step of JobQueue or none at all. *)
LEMMA QueueStepOf ==
    ASSUME [IngestionNext]_ivars
    PROVE  [Next]_vars
<1>1. CASE UNCHANGED ivars
    BY <1>1 DEF ivars
<1>2. CASE \E a \in Actors : Statement(a)
    BY <1>2 DEF Statement
<1>3. CASE QueueStep
    BY <1>3 DEF QueueStep, Next, Worker, Lifecycle
<1>4. CASE Insertion
    BY <1>4, IngestionAssumption DEF Insertion, Dispatch, EnqueueDelete, EnqueueFor, Next
<1>5. CASE \E w \in Threads : ClaimCall(w) \/ CallReturned(w)
    BY <1>5 DEF ClaimCall, CallReturned, Next, Worker, Work
<1>6. CASE \E e \in Engines : "crash" \in Events /\ ProcessDies(e)
    BY <1>6 DEF ProcessDies, Next, Lifecycle
<1> QED BY <1>1, <1>2, <1>3, <1>4, <1>5, <1>6, StepsOfIngestion

(* The queue of the composed system takes no step that JobQueue does not   *)
(* take, so whatever is proved of the queue alone holds of it here.        *)
THEOREM QueueIsImplemented == IngestionSpec => ImplementsQueue
<1>1. IngestionInit => Init
    BY DEF IngestionInit
<1> QED BY <1>1, QueueStepOf, PTL DEF IngestionSpec, ImplementsQueue, Spec

(* The invariant proved of the queue alone holds of the queue in the       *)
(* composed system.                                                        *)
LEMMA QueueInvariant == IngestionSpec => []IInv
<1>1. OneEngine
    BY IngestionAssumption
<1> QED BY <1>1, QueueIsImplemented, Invariance, PTL DEF ImplementsQueue

-----------------------------------------------------------------------------
(* What a step of a call does to the calls: the others stay as they are,   *)
(* and a call that has its document stays with it to the end.              *)
Follows(a) ==
    LET at == call[a].at  next == call'[a].at  doc == call[a].doc  result == {"ok", "err"} IN
    /\ \A b \in Actors \ {a} : call'[b] = call[b]
    /\ \/ /\ at \in ProcessSteps /\ next \in ProcessSteps \cup result
          /\ call'[a].doc = doc /\ lastDoc' = lastDoc
       \/ /\ at \in DeleteSteps /\ next \in DeleteSteps \cup result
          /\ call'[a].doc = doc /\ lastDoc' = lastDoc
       \/ /\ at \in IngestSteps /\ next \in {"insert"} \cup result
          /\ call'[a].doc = doc /\ lastDoc' = lastDoc
       \/ /\ at = "set_text" /\ next = "dispatch"
          /\ call'[a].doc = doc /\ lastDoc' = lastDoc
       \/ /\ at = "insert" /\ next = "set_text"
          /\ call'[a].doc = lastDoc + 1 /\ lastDoc' = lastDoc + 1

(* Every step of a call is one of these. *)
LEMMA CallFollows ==
    ASSUME StoreTypeOK, NEW a \in Actors, CallStep(a)
    PROVE  Follows(a)
<1> USE DEF At, Moved, Steps, IngestSteps, ProcessSteps, DeleteSteps, storeVars
<1>1. CASE FindContent(a)
    BY <1>1, Moving DEF FindContent, Follows
<1>2. CASE InsertDocument(a)
    <2>1. CASE UNCHANGED storeVars /\ Goto(a, "err")
        BY <1>2, <2>1, Moving DEF InsertDocument, Follows
    <2>2. CASE ~(UNCHANGED storeVars /\ Goto(a, "err"))
        <3>1. /\ call[a].at = "insert" /\ lastDoc' = lastDoc + 1
              /\ call' = [call EXCEPT ![a].at = "set_text", ![a].doc = lastDoc + 1]
            BY <1>2, <2>2 DEF InsertDocument
        <3>2. /\ call'[a].at = "set_text" /\ call'[a].doc = lastDoc + 1
              /\ \A b \in Actors \ {a} : call'[b] = call[b]
            BY <3>1 DEF StoreTypeOK, CallsUpTo
        <3> QED BY <3>1, <3>2 DEF Follows
    <2> QED BY <2>1, <2>2
<1>3. CASE SetPendingText(a)
    BY <1>3, Moving DEF SetPendingText, Follows
<1>4. CASE GetDocument(a) \/ TakeText(a) \/ Generate(a)
    BY <1>4, Moving DEF GetDocument, TakeText, Generate, Follows
<1>5. CASE ClearText(a) \/ MarkIndexing(a) \/ PersistEntities(a) \/ MarkReady(a)
             \/ MarkSummarizing(a) \/ StoreSummary(a) \/ MarkComplete(a) \/ SummaryFailed(a)
    <2>1. PICK s \in ProcessSteps \cup {"ok", "err"} : Goto(a, s)
        BY <1>5 DEF ClearText, MarkIndexing, PersistEntities, MarkReady, MarkSummarizing,
                    StoreSummary, MarkComplete, SummaryFailed
    <2>2. Moved(a, s)
        BY <2>1, Moving
    <2>3. call[a].at \in ProcessSteps /\ lastDoc' = lastDoc
        BY <1>5 DEF ClearText, MarkIndexing, PersistEntities, MarkReady, MarkSummarizing,
                    StoreSummary, MarkComplete, SummaryFailed
    <2> QED BY <2>2, <2>3 DEF Follows
<1>6. CASE InsertChunk(a)
    BY <1>6, Moving DEF InsertChunk, Follows
<1>7. CASE ChunkProvenance(a) \/ PersistClaims(a)
    <2>1. /\ call'[a].at \in ProcessSteps /\ call'[a].doc = call[a].doc
          /\ \A b \in Actors \ {a} : call'[b] = call[b]
        BY <1>7, ChunkLoops DEF Looped
    <2>2. call[a].at \in ProcessSteps /\ lastDoc' = lastDoc
        BY <1>7 DEF ChunkProvenance, PersistClaims
    <2> QED BY <2>1, <2>2 DEF Follows
<1>8. CASE DeleteGet(a) \/ RecomputeEdges(a) \/ DeleteMentions(a) \/ DeleteClaims(a)
             \/ DeleteProvenance(a) \/ DeleteRow(a)
    <2>1. PICK s \in DeleteSteps \cup {"ok", "err"} : Goto(a, s)
        BY <1>8 DEF DeleteGet, RecomputeEdges, DeleteMentions, DeleteClaims,
                    DeleteProvenance, DeleteRow, DeleteFrom
    <2>2. Moved(a, s)
        BY <2>1, Moving
    <2>3. call[a].at \in DeleteSteps /\ lastDoc' = lastDoc
        BY <1>8 DEF DeleteGet, RecomputeEdges, DeleteMentions, DeleteClaims,
                    DeleteProvenance, DeleteRow, DeleteFrom
    <2> QED BY <2>2, <2>3 DEF Follows
<1>9. CASE Fault(a)
    <2>1. call[a].at \in Steps
        BY <1>9, FaultAssumption DEF Fault
    <2> QED BY <1>9, <2>1, Moving DEF Fault, Follows
<1> QED BY <1>1, <1>2, <1>3, <1>4, <1>5, <1>6, <1>7, <1>8, <1>9
        DEF CallStep, IngestStep, ProcessStep, DeleteStep

(* A thread of the application begins a call or drops the result of one. *)
Restarts(a) ==
    /\ a \notin Threads /\ UNCHANGED storeVars
    /\ \A b \in Actors \ {a} : call'[b] = call[b]
    /\ \/ call'[a].at \in {"idle", "find"}
       \/ call'[a].at = "get" /\ "process" \in ClientCalls
       \/ call'[a].at = "del_get" /\ "delete" \in ClientCalls

(* A statement is a step of a running call, or starts or ends a call       *)
(* outside the workers.                                                    *)
LEMMA StatementEffect ==
    ASSUME StoreTypeOK, NEW a \in Actors, Statement(a)
    PROVE  /\ StoreTypeOK'
           /\ (CallStep(a) /\ Follows(a)) \/ Restarts(a)
<1>1. CASE CallStep(a)
    BY <1>1, CallTyping, CallFollows
<1>2. CASE ~CallStep(a)
    <2>1. a \notin Threads /\ StoreTypeOK'
        BY <1>2, CallTyping, StartTyping DEF Statement
    <2>2. UNCHANGED storeVars /\ \A b \in Actors \ {a} : call'[b] = call[b]
        BY <1>2 DEF Statement, StartIngest, StartDelete, StartProcess, Start, Return, StoreTypeOK
    <2>3. \/ call'[a].at \in {"idle", "find"}
          \/ call'[a].at = "get" /\ "process" \in ClientCalls
          \/ call'[a].at = "del_get" /\ "delete" \in ClientCalls
        BY <1>2 DEF Statement, StartIngest, StartDelete, StartProcess, Start, Return,
                    StoreTypeOK, Call, NoCall
    <2> QED BY <2>1, <2>2, <2>3 DEF Restarts
<1> QED BY <1>1, <1>2

-----------------------------------------------------------------------------
(* The wiring of calls, jobs and documents is an invariant. *)

Calls == StoreTypeOK /\ PayloadOK /\ Assigned /\ ClientsCall /\ OneJobPerText

(* Nothing is enqueued and no call is made at first. *)
LEMMA WiredInitially == IngestionInit => Wiring
<1> SUFFICES ASSUME IngestionInit PROVE Wiring
    OBVIOUS
<1>1. Init /\ StoreInit /\ payload = [j \in Jobs |-> 0]
    BY DEF IngestionInit
<1>2. IInv /\ StoreTypeOK
    BY <1>1, InitInvariant, StoreInitially DEF StoreInv
<1>3. PayloadOK
    BY <1>1, IngestionAssumption, StoreAssumption DEF Init, PayloadOK, Enqueued
<1>4. /\ \A w \in Threads : pc[w] = "exited"
      /\ \A a \in Actors : call[a].at = "idle"
      /\ Enqueued = {}
    BY <1>1 DEF Init, StoreInit, NoCall, Call, Enqueued
<1>5. Assigned /\ ClientsCall /\ OneJobPerText
    BY <1>4, IngestionAssumption
       DEF Assigned, ClientsCall, OneJobPerText, Ingesting, ProcessSteps, DeleteSteps
<1> QED BY <1>2, <1>3, <1>5 DEF Wiring

(* The wiring survives a statement of a call, *)
LEMMA StatementKeepsCalls ==
    ASSUME Wiring, NEW a \in Actors, Statement(a)
    PROVE  Calls'
<1> USE DEF Wiring
<1>1. /\ StoreTypeOK'
      /\ (CallStep(a) /\ Follows(a)) \/ Restarts(a)
      /\ UNCHANGED <<vars, payload>>
    BY StatementEffect DEF Statement
<1>2. UNCHANGED <<pc, job, kind, lastId, payload>>
    BY <1>1 DEF vars, rowVars, threadVars
<1>3. /\ \A b \in Actors \ {a} : call'[b] = call[b]
      /\ lastDoc \in Nat /\ lastDoc' \in {lastDoc, lastDoc + 1}
    BY <1>1, StoreAssumption DEF Follows, Restarts, storeVars, StoreTypeOK
<1>4. PayloadOK'
    BY <1>2, <1>3 DEF PayloadOK, Enqueued
<1>5. Assigned'
    <2>1. ASSUME a \in Threads
          PROVE  /\ call'[a].doc = call[a].doc /\ pc[a] = "work"
                 /\ \/ /\ call[a].at \in ProcessSteps
                       /\ call'[a].at \in ProcessSteps \cup {"ok", "err"}
                    \/ /\ call[a].at \in DeleteSteps
                       /\ call'[a].at \in DeleteSteps \cup {"ok", "err"}
        <3>1. pc[a] = "work" /\ Follows(a)
            BY <1>1, <2>1 DEF Statement, Restarts
        <3>2. call[a].at \notin IngestSteps
            BY <2>1, <3>1 DEF Assigned, IngestSteps, ProcessSteps, DeleteSteps
        <3> QED BY <3>1, <3>2 DEF Follows, IngestSteps
    <2>2. ProcessSteps \cap DeleteSteps = {} /\ {"ok", "err"} \cap (ProcessSteps \cup DeleteSteps) = {}
        BY DEF ProcessSteps, DeleteSteps
    <2>3. ASSUME NEW w \in Threads, w # a
          PROVE  call'[w] = call[w]
        BY <1>3, <2>3, IngestionAssumption
    <2> QED BY <1>2, <2>1, <2>2, <2>3 DEF Assigned, ToProcess
<1>6. ClientsCall'
    <2>1. \A b \in Clients : b \in Actors /\ b \notin Threads
        BY IngestionAssumption
    <2>2. /\ call'[a].at \in ProcessSteps => call[a].at \in ProcessSteps \/ "process" \in ClientCalls
          /\ call'[a].at \in DeleteSteps => call[a].at \in DeleteSteps \/ "delete" \in ClientCalls
        BY <1>1 DEF Follows, Restarts, IngestSteps, ProcessSteps, DeleteSteps
    <2> QED BY <1>3, <2>1, <2>2 DEF ClientsCall
<1>7. OneJobPerText'
    <2>1. /\ call'[a].at = "dispatch" => call[a].at = "set_text" /\ call'[a].doc = call[a].doc
          /\ call'[a].at = "set_text" => call'[a].doc = lastDoc + 1
        BY <1>1 DEF Follows, Restarts, IngestSteps, ProcessSteps, DeleteSteps
    <2>2. \A b \in Actors : call[b].doc # lastDoc + 1
        BY <1>3 DEF StoreTypeOK, CallsUpTo
    <2>3. \A j \in Enqueued : payload[j] # lastDoc + 1
        BY <1>3 DEF PayloadOK
    <2>4. Enqueued' = Enqueued /\ \A j \in Enqueued : ToProcess(j)' = ToProcess(j)
        BY <1>2 DEF Enqueued, ToProcess
    <2>5. /\ \A i, j \in Enqueued' :
                ToProcess(i)' /\ ToProcess(j)' /\ payload'[i] = payload'[j] => i = j
        BY <1>2, <2>4 DEF OneJobPerText
    <2>6. ASSUME NEW b \in Actors, call'[b].at \in Ingesting
          PROVE  \A j \in Enqueued' : ToProcess(j)' => payload'[j] # call'[b].doc
        BY <1>2, <1>3, <2>1, <2>3, <2>4, <2>6 DEF OneJobPerText, Ingesting
    <2>7. ASSUME NEW b \in Actors, call'[b].at \in Ingesting, NEW c \in Actors \ {b},
                 call'[c].at \in Ingesting
          PROVE  call'[c].doc # call'[b].doc
        BY <1>3, <2>1, <2>2, <2>7 DEF OneJobPerText, Ingesting
    <2> QED BY <2>5, <2>6, <2>7 DEF OneJobPerText
<1> QED BY <1>1, <1>4, <1>5, <1>6, <1>7 DEF Calls

(* No step of the queue alone begins or ends the work of a thread. *)
LEMMA QueueStepEffect ==
    ASSUME IInv, QueueStep
    PROVE  /\ UNCHANGED <<svars, payload, kind, lastId>>
           /\ \A w \in Threads :
                 /\ pc'[w] = "work" <=> pc[w] = "work"
                 /\ pc[w] = "work" => job'[w] = job[w]
<1> USE QueueAssumption DEF IInv, TypeOK, vars, rowVars, threadVars
<1>1. CASE \E w \in Threads : LoopHead(w) \/ Idle(w) \/ ReadAttempts(w)
    BY <1>1 DEF QueueStep, LoopHead, Idle, ReadAttempts
<1>2. CASE \E w \in Threads : Settle(w) \/ LoseReport(w)
    BY <1>2 DEF QueueStep, Settle, LoseReport, Drop
<1>3. CASE \E e \in Engines : Open(e)
    BY <1>3 DEF QueueStep, Open, GoneEngineHasNoThreads
<1>4. CASE \E e \in Engines : FinishClose(e) \/ BeginClose(e)
    BY <1>4 DEF QueueStep, FinishClose, BeginClose
<1>5. CASE \E j \in Jobs : Elapse(j) \/ CancelJob(j)
    BY <1>5 DEF QueueStep, Elapse, CancelJob
<1> QED BY <1>1, <1>2, <1>3, <1>4, <1>5 DEF QueueStep

(* ... a step of the queue, *)
LEMMA QueueStepKeepsCalls ==
    ASSUME Wiring, QueueStep
    PROVE  Calls'
<1>1. /\ UNCHANGED <<svars, payload, kind, lastId>>
      /\ \A w \in Threads :
            /\ pc'[w] = "work" <=> pc[w] = "work"
            /\ pc[w] = "work" => job'[w] = job[w]
    BY QueueStepEffect DEF Wiring
<1>2. StoreTypeOK'
    BY <1>1 DEF Wiring, StoreTypeOK, svars, storeVars
<1>3. PayloadOK' /\ Assigned' /\ ClientsCall' /\ OneJobPerText'
    BY <1>1 DEF Wiring, PayloadOK, Assigned, ClientsCall, OneJobPerText, svars, storeVars,
                Enqueued, ToProcess
<1> QED BY <1>2, <1>3 DEF Calls

(* A new job is the only one for the text of the call that enqueues it. *)
LEMMA InsertionEffect ==
    ASSUME Wiring, Insertion
    PROVE  \E a \in Clients, k \in Kinds, d \in 1..lastDoc :
              /\ lastId + 1 \in Jobs /\ lastId' = lastId + 1
              /\ status' = [status EXCEPT ![lastId + 1] = "pending"]
              /\ kind' = [kind EXCEPT ![lastId + 1] = k]
              /\ payload' = [payload EXCEPT ![lastId + 1] = d]
              /\ UNCHANGED <<attempts, hidden, engine, threadVars, lost, storeVars>>
              /\ \A b \in Actors \ {a} : call'[b] = call[b]
              /\ \/ /\ call[a].at = "dispatch" /\ call[a].doc = d
                    /\ k = "process_document" /\ Moved(a, "ok")
                 \/ k = "delete_document" /\ UNCHANGED call
<1>1. lastId \in 0..MaxJobs /\ StoreTypeOK
    BY DEF Wiring, IInv, TypeOK
<1>2. \A a \in Clients : a \in Actors
    BY IngestionAssumption
<1>3. ASSUME NEW a \in Clients, Dispatch(a)
      PROVE  /\ call[a].at = "dispatch" /\ call[a].doc \in 1..lastDoc /\ Moved(a, "ok")
    <2>1. call[a].at = "dispatch" /\ Goto(a, "ok")
        BY <1>3 DEF Dispatch, At
    <2>2. call[a].doc \in 1..lastDoc
        BY <1>1, <1>2, <2>1 DEF StoreTypeOK, Steps, IngestSteps, Nameless
    <2> QED BY <1>1, <1>2, <2>1, <2>2, Moving
<1>4. CASE \E a \in Clients : Dispatch(a)
    <2>1. PICK a \in Clients : Dispatch(a)
        BY <1>4
    <2>2. /\ lastId < MaxJobs /\ lastId' = lastId + 1
          /\ status' = [status EXCEPT ![lastId + 1] = "pending"]
          /\ kind' = [kind EXCEPT ![lastId + 1] = "process_document"]
          /\ payload' = [payload EXCEPT ![lastId + 1] = call[a].doc]
          /\ UNCHANGED <<attempts, hidden, engine, threadVars, lost, storeVars>>
        BY <2>1 DEF Dispatch, EnqueueFor, Enqueue
    <2>3. lastId + 1 \in Jobs
        BY <1>1, <2>2, QueueAssumption DEF Jobs
    <2>4. "process_document" \in Kinds
        BY IngestionAssumption
    <2> QED BY <1>3, <2>1, <2>2, <2>3, <2>4 DEF Moved
<1>5. CASE \E a \in Clients, d \in 1..lastDoc : EnqueueDelete(a, d)
    <2>1. PICK a \in Clients, d \in 1..lastDoc : EnqueueDelete(a, d)
        BY <1>5
    <2>2. /\ lastId < MaxJobs /\ lastId' = lastId + 1
          /\ status' = [status EXCEPT ![lastId + 1] = "pending"]
          /\ kind' = [kind EXCEPT ![lastId + 1] = "delete_document"]
          /\ payload' = [payload EXCEPT ![lastId + 1] = d]
          /\ UNCHANGED <<attempts, hidden, engine, threadVars, lost, storeVars>>
          /\ UNCHANGED call
        BY <2>1 DEF EnqueueDelete, EnqueueFor, Enqueue, svars
    <2>3. lastId + 1 \in Jobs
        BY <1>1, <2>2, QueueAssumption DEF Jobs
    <2>4. "delete_document" \in Kinds
        BY IngestionAssumption
    <2> QED BY <2>1, <2>2, <2>3, <2>4
<1> QED BY <1>4, <1>5 DEF Insertion

(* ... a new job, *)
LEMMA InsertionKeepsCalls ==
    ASSUME Wiring, Insertion
    PROVE  Calls'
<1> USE DEF Wiring
<1>1. PICK a \in Clients, k \in Kinds, d \in 1..lastDoc :
         /\ lastId + 1 \in Jobs /\ lastId' = lastId + 1
         /\ kind' = [kind EXCEPT ![lastId + 1] = k]
         /\ payload' = [payload EXCEPT ![lastId + 1] = d]
         /\ UNCHANGED <<threadVars, storeVars>>
         /\ \A b \in Actors \ {a} : call'[b] = call[b]
         /\ \/ /\ call[a].at = "dispatch" /\ call[a].doc = d
               /\ k = "process_document" /\ Moved(a, "ok")
            \/ k = "delete_document" /\ UNCHANGED call
    BY InsertionEffect
<1>2. a \in Actors /\ a \notin Threads
    BY IngestionAssumption
<1>3. StoreTypeOK'
    <2>1. CASE UNCHANGED call
        BY <1>1, <2>1 DEF StoreTypeOK, storeVars
    <2>2. CASE ~UNCHANGED call
        <3>1. PICK c \in Clients : Dispatch(c)
            BY <2>2 DEF Insertion, EnqueueDelete, svars
        <3>2. c \in Actors /\ Goto(c, "ok") /\ UNCHANGED storeVars
            BY <3>1, IngestionAssumption DEF Dispatch
        <3>3. CallTypeOK'
            BY <3>1, <3>2, GotoTyping
               DEF Dispatch, At, storeVars, Nameless, Steps, IngestSteps, ProcessSteps,
                   DeleteSteps, NothingStored
        <3> QED BY <3>2, <3>3 DEF StoreTypeOK, CallTypeOK, storeVars
    <2> QED BY <2>1, <2>2
<1>4. /\ lastId + 1 \notin Enqueued /\ Enqueued \subseteq Jobs
      /\ Enqueued' = Enqueued \cup {lastId + 1}
    BY <1>1, QueueAssumption DEF IInv, TypeOK, Enqueued, Jobs
<1>5. /\ kind'[lastId + 1] = k /\ payload'[lastId + 1] = d
      /\ \A j \in Jobs \ {lastId + 1} : kind'[j] = kind[j] /\ payload'[j] = payload[j]
    BY <1>1 DEF PayloadOK
<1>6. PayloadOK'
    <2>1. d \in 0..MaxDocs
        BY <1>1, StoreAssumption DEF StoreTypeOK
    <2> QED BY <1>1, <1>4, <1>5, <2>1 DEF PayloadOK, storeVars
<1>7. Assigned'
    <2>1. \A w \in Threads : call'[w] = call[w]
        BY <1>1, <1>2, IngestionAssumption
    <2>2. \A w \in Threads : pc[w] = "work" => job[w] \in Jobs /\ job[w] # lastId + 1
        BY <1>1, QueueAssumption
           DEF IInv, HoldsAJob, Holds, Working, HeldIsRunning, FreshRows, TypeOK, Jobs
    <2> QED BY <1>1, <1>5, <2>1, <2>2 DEF Assigned, ToProcess, threadVars
<1>8. ClientsCall'
    BY <1>1, <1>2, IngestionAssumption DEF ClientsCall, Moved, ProcessSteps, DeleteSteps
<1>9. OneJobPerText'
    <2>1. CASE k = "delete_document"
        BY <1>1, <1>4, <1>5, <2>1 DEF OneJobPerText, ToProcess
    <2>2. CASE k = "process_document"
        <3>1. /\ call[a].at = "dispatch" /\ call[a].doc = d /\ call'[a].at = "ok"
              /\ \A b \in Actors \ {a} : call'[b] = call[b]
            BY <1>1, <2>2 DEF Moved
        <3>2. \A j \in Enqueued : ToProcess(j)' = ToProcess(j) /\ payload'[j] = payload[j]
            BY <1>4, <1>5 DEF ToProcess
        <3>3. \A j \in Enqueued : ToProcess(j) => payload[j] # d
            BY <1>2, <3>1 DEF OneJobPerText, Ingesting
        <3>4. \A b \in Actors \ {a} : call[b].at \in Ingesting => call[b].doc # d
            BY <1>2, <3>1 DEF OneJobPerText, Ingesting
        <3>5. \A i, j \in Enqueued' :
                 ToProcess(i)' /\ ToProcess(j)' /\ payload'[i] = payload'[j] => i = j
            BY <1>4, <1>5, <3>2, <3>3 DEF OneJobPerText
        <3>6. ASSUME NEW b \in Actors, call'[b].at \in Ingesting
              PROVE  /\ \A j \in Enqueued' : ToProcess(j)' => payload'[j] # call'[b].doc
                     /\ \A c \in Actors \ {b} : call'[c].at \in Ingesting =>
                           call'[c].doc # call'[b].doc
            <4>1. b # a
                BY <3>1, <3>6 DEF Ingesting
            <4> QED BY <1>4, <1>5, <3>1, <3>2, <3>4, <3>6, <4>1 DEF OneJobPerText, Ingesting
        <3> QED BY <3>5, <3>6 DEF OneJobPerText
    <2> QED BY <1>1, <2>1, <2>2
<1> QED BY <1>3, <1>6, <1>7, <1>8, <1>9 DEF Calls

(* A worker that claims begins the call, with the document of the payload. *)
LEMMA ClaimEffect ==
    ASSUME Wiring, NEW w \in Threads, ClaimCall(w)
    PROVE  \E j \in Enqueued :
              /\ status[j] = "pending" /\ status' = [status EXCEPT ![j] = "running"]
              /\ UNCHANGED <<kind, attempts, hidden, lastId, engine, outcome, seen, lost,
                             payload, storeVars>>
              /\ call[w].at = "idle" /\ pc[w] = "claim" /\ pc'[w] = "work" /\ job'[w] = j
              /\ \A v \in Threads \ {w} : pc'[v] = pc[v] /\ job'[v] = job[v]
              /\ \A b \in Actors \ {w} : call'[b] = call[b]
              /\ call'[w] = Call(IF ToProcess(j) THEN "get" ELSE "del_get", payload[j], NoContent)
              /\ call'[w].at = (IF ToProcess(j) THEN "get" ELSE "del_get")
              /\ call'[w].doc = payload[j] /\ call'[w].n = 0
<1> USE DEF Wiring
<1>1. PICK j \in Runnable :
         /\ status' = [status EXCEPT ![j] = "running"]
         /\ job' = [job EXCEPT ![w] = j]
         /\ pc' = [pc EXCEPT ![w] = IF kind[j] \in Sweeps THEN "loop" ELSE "work"]
    BY DEF ClaimCall, Claim
<1>2. /\ UNCHANGED <<kind, attempts, hidden, lastId, engine, outcome, seen, lost, payload,
                     storeVars>>
      /\ pc[w] = "claim" /\ call[w].at = "idle"
    BY DEF ClaimCall, Claim, At
<1>3. j \in Jobs /\ status[j] = "pending" /\ j \in Enqueued
    BY QueueAssumption DEF Runnable, IInv, FreshRows, TypeOK, Jobs, Enqueued
<1>4. kind[j] \in Kinds /\ kind[j] \notin Sweeps
    BY <1>3, IngestionAssumption DEF PayloadOK, Sweeps
<1>5. /\ pc'[w] = "work" /\ job'[w] = j
      /\ \A v \in Threads \ {w} : pc'[v] = pc[v] /\ job'[v] = job[v]
    BY <1>1, <1>3, <1>4 DEF IInv, TypeOK
<1> DEFINE c == Call(IF ToProcess(j) THEN "get" ELSE "del_get", payload[j], NoContent)
<1>6. call' = [call EXCEPT ![w] = c]
    <2>1. job'[w] = j /\ kind[job'[w]] = kind[j] /\ payload[job'[w]] = payload[j]
        BY <1>5
    <2>2. call' = [call EXCEPT ![w] =
                   Call(IF kind[job'[w]] = "process_document" THEN "get" ELSE "del_get",
                        payload[job'[w]], NoContent)]
        BY DEF ClaimCall
    <2> QED BY <2>1, <2>2 DEF ToProcess
<1>7. c.at = (IF ToProcess(j) THEN "get" ELSE "del_get") /\ c.doc = payload[j] /\ c.n = 0
    BY DEF Call
<1> HIDE DEF c
<1>8. call'[w] = c /\ \A b \in Actors \ {w} : call'[b] = call[b]
    BY <1>6, IngestionAssumption DEF StoreTypeOK
<1> QED BY <1>1, <1>2, <1>3, <1>5, <1>7, <1>8 DEF c

(* ... a claim, which begins the call the job names, *)
LEMMA ClaimKeepsCalls ==
    ASSUME Wiring, NEW w \in Threads, ClaimCall(w)
    PROVE  Calls'
<1> USE DEF Wiring
<1> DEFINE step(j) == IF ToProcess(j) THEN "get" ELSE "del_get"
<1>1. PICK j \in Enqueued :
         /\ UNCHANGED <<kind, lastId, payload, storeVars>>
         /\ pc[w] = "claim" /\ pc'[w] = "work" /\ job'[w] = j
         /\ \A v \in Threads \ {w} : pc'[v] = pc[v] /\ job'[v] = job[v]
         /\ \A b \in Actors \ {w} : call'[b] = call[b]
         /\ call'[w].at = step(j)
         /\ call'[w].doc = payload[j] /\ call'[w].n = 0
         /\ call'[w] = Call(step(j), payload[j], NoContent)
    BY ClaimEffect
<1>2. w \in Actors /\ payload[j] \in 1..lastDoc /\ lastDoc \in Nat
    BY IngestionAssumption, StoreAssumption DEF PayloadOK, StoreTypeOK
<1>3. StoreTypeOK'
    <2>1. Call(step(j), payload[j], NoContent) \in CallsUpTo(lastDoc)
        BY <1>2, StoreAssumption DEF Call, CallsUpTo, Steps, ProcessSteps, DeleteSteps
    <2>2. call' = [call EXCEPT ![w] = Call(step(j), payload[j], NoContent)]
        BY <1>1 DEF ClaimCall, ToProcess, StoreTypeOK
    <2> HIDE DEF step
    <2>3. CallTypeOK'
        BY <1>1, <1>2, <2>1, <2>2 DEF StoreTypeOK, CallTypeOK, storeVars
    <2> QED BY <1>1, <2>3 DEF StoreTypeOK, CallTypeOK, storeVars
<1>4. PayloadOK'
    BY <1>1 DEF PayloadOK, Enqueued, storeVars
<1>5. Assigned'
    <2>1. ASSUME NEW v \in Threads
          PROVE  /\ pc'[v] # "work" => call'[v].at = "idle"
                 /\ pc'[v] = "work" =>
                     /\ call'[v].doc = payload'[job'[v]]
                     /\ call'[v].at \in {"ok", "err"} \cup
                          (IF kind'[job'[v]] = "process_document" THEN ProcessSteps
                           ELSE DeleteSteps)
        <3>1. CASE v = w
            BY <1>1, <3>1 DEF ToProcess, ProcessSteps, DeleteSteps
        <3>2. CASE v # w
            BY <1>1, <3>2, IngestionAssumption DEF ToProcess, Assigned
        <3> QED BY <3>1, <3>2
    <2> QED BY <2>1 DEF Assigned, ToProcess
<1>6. ClientsCall'
    BY <1>1, IngestionAssumption DEF ClientsCall
<1>7. OneJobPerText'
    BY <1>1 DEF OneJobPerText, Enqueued, ToProcess, Ingesting
<1> QED BY <1>3, <1>4, <1>5, <1>6, <1>7 DEF Calls

(* ... a result, which ends it, *)
LEMMA ReturnKeepsCalls ==
    ASSUME Wiring, NEW w \in Threads, CallReturned(w)
    PROVE  Calls'
<1> USE DEF Wiring
<1>1. w \in Actors
    BY IngestionAssumption
<1>2. StoreTypeOK'
    BY <1>1, CallTyping DEF CallReturned
<1>3. /\ UNCHANGED <<kind, lastId, job, payload, storeVars>>
      /\ pc'[w] = "report" /\ \A v \in Threads \ {w} : pc'[v] = pc[v]
      /\ call'[w].at = "idle"
      /\ \A b \in Actors \ {w} : call'[b] = call[b]
    BY <1>1 DEF CallReturned, Finish, Return, NoCall, Call, rowVars, IInv, TypeOK, StoreTypeOK
<1>4. PayloadOK' /\ Assigned' /\ ClientsCall' /\ OneJobPerText'
    BY <1>1, <1>3, IngestionAssumption
       DEF PayloadOK, Assigned, ClientsCall, OneJobPerText, Enqueued, ToProcess, Ingesting,
           storeVars, ProcessSteps, DeleteSteps
<1> QED BY <1>2, <1>4 DEF Calls

(* A crash ends every call and every thread, and leaves the rows. *)
LEMMA CrashEffect ==
    ASSUME Wiring, NEW e \in Engines, ProcessDies(e)
    PROVE  /\ UNCHANGED <<rowVars, lost, payload, storeVars>>
           /\ \A a \in Actors : call'[a] = NoCall /\ call'[a].at = "idle" /\ call'[a].doc = 0
           /\ \A w \in Threads : pc'[w] = "exited"
<1>1. \A w \in Threads : Home[w] = e
    BY QueueAssumption, IngestionAssumption DEF OneEngine
<1> QED BY <1>1 DEF ProcessDies, Crash, NoCall, Call

(* ... and the end of the process, which ends every call. *)
LEMMA CrashKeepsCalls ==
    ASSUME Wiring, NEW e \in Engines, ProcessDies(e)
    PROVE  Calls'
<1> USE DEF Wiring
<1>1. /\ UNCHANGED <<rowVars, lost, payload, storeVars>>
      /\ \A a \in Actors : call'[a] = NoCall /\ call'[a].at = "idle"
      /\ \A w \in Threads : pc'[w] = "exited"
    BY CrashEffect
<1>2. StoreTypeOK'
    <2>1. NoCall \in CallsUpTo(lastDoc) /\ NoCall.n = 0
        BY StoreAssumption DEF NoCall, Call, CallsUpTo, StoreTypeOK
    <2>2. call' = [a \in Actors |-> NoCall]
        BY DEF ProcessDies
    <2>3. CallTypeOK'
        BY <1>1, <2>1, <2>2 DEF CallTypeOK, storeVars, Steps, IngestSteps, ProcessSteps, DeleteSteps
    <2> QED BY <1>1, <2>3 DEF StoreTypeOK, CallTypeOK, storeVars
<1>3. PayloadOK' /\ Assigned' /\ ClientsCall' /\ OneJobPerText'
    BY <1>1, IngestionAssumption
       DEF PayloadOK, Assigned, ClientsCall, OneJobPerText, Enqueued, ToProcess, Ingesting,
           rowVars, storeVars, ProcessSteps, DeleteSteps
<1> QED BY <1>2, <1>3 DEF Calls

(* So every step keeps it. *)
LEMMA WiringStep == Wiring /\ [IngestionNext]_ivars => Wiring'
<1> SUFFICES ASSUME Wiring, [IngestionNext]_ivars PROVE Wiring'
    OBVIOUS
<1>1. IInv'
    BY QueueStepOf, InductiveStep, IngestionAssumption DEF Wiring
<1>2. Calls'
    <2>1. CASE UNCHANGED ivars
        <3>1. StoreTypeOK'
            BY <2>1 DEF Wiring, StoreTypeOK, ivars, svars, storeVars
        <3>2. PayloadOK' /\ Assigned' /\ ClientsCall' /\ OneJobPerText'
            BY <2>1 DEF Wiring, PayloadOK, Assigned, ClientsCall, OneJobPerText, Enqueued,
                        ToProcess, ivars, vars, rowVars, threadVars, svars, storeVars
        <3> QED BY <3>1, <3>2 DEF Calls
    <2>2. CASE IngestionNext
        BY <2>2, StepsOfIngestion, StatementKeepsCalls, QueueStepKeepsCalls,
           InsertionKeepsCalls, ClaimKeepsCalls, ReturnKeepsCalls, CrashKeepsCalls
    <2> QED BY <2>1, <2>2
<1> QED BY <1>1, <1>2 DEF Wiring, Calls

(* The wiring of calls, jobs and documents is an invariant, for any        *)
(* constants.                                                              *)
LEMMA Wired == IngestionSpec => []Wiring
<1> QED BY WiredInitially, WiringStep, PTL DEF IngestionSpec

-----------------------------------------------------------------------------
(* The progress of a document: if only workers process documents, one call *)
(* at a time has a document to itself.                                     *)

(* A thread that works has a job that was enqueued. *)
LEMMA JobsAreEnqueued ==
    ASSUME Wiring, NEW w \in Threads, Holds(w)
    PROVE  job[w] \in Enqueued
BY QueueAssumption
   DEF Wiring, IInv, HoldsAJob, HeldIsRunning, FreshRows, TypeOK, Jobs, Enqueued

(* Two calls never fill one document: its text has one job, a job has one  *)
(* worker, and the call that ingests it has not enqueued the job yet.      *)
LEMMA SoleFiller ==
    ASSUME Wiring, WorkersProcess, NEW a \in Actors, NEW b \in Actors,
           call[a].at \in Filling, call[b].at \in Filling, call[a].doc = call[b].doc
    PROVE  a = b
<1> USE DEF Wiring
<1>1. ASSUME NEW w \in Threads, call[w].at \in Filling
      PROVE  /\ Holds(w) /\ job[w] \in Enqueued /\ ToProcess(job[w])
             /\ call[w].doc = payload[job[w]]
    <2>1. pc[w] = "work"
        BY <1>1 DEF Assigned, Filling, Ingesting, ProcessSteps
    <2>2. ToProcess(job[w])
        BY <1>1, <2>1 DEF Assigned, Filling, Ingesting, ProcessSteps, DeleteSteps
    <2> QED BY <2>1, <2>2, JobsAreEnqueued DEF Holds, Working, Assigned
<1>2. ASSUME NEW c \in Actors, c \notin Threads, call[c].at \in Filling
      PROVE  call[c].at \in Ingesting
    BY <1>2, IngestionAssumption DEF ClientsCall, WorkersProcess, Filling
<1>3. CASE a \in Threads /\ b \in Threads
    <2>1. job[a] = job[b]
        BY <1>1, <1>3 DEF OneJobPerText
    <2> QED BY <1>1, <1>3, <2>1 DEF IInv, ExclusiveRun
<1>4. CASE a \in Threads /\ b \notin Threads
    BY <1>1, <1>2, <1>4 DEF OneJobPerText
<1>5. CASE a \notin Threads /\ b \in Threads
    BY <1>1, <1>2, <1>5 DEF OneJobPerText
<1>6. CASE a \notin Threads /\ b \notin Threads
    BY <1>2, <1>6 DEF OneJobPerText
<1> QED BY <1>3, <1>4, <1>5, <1>6

(* What a step must see to, when it changes nothing but document d. *)
LEMMA ProgressKept ==
    ASSUME StoreTypeOK', Progress, NEW a \in Actors, NEW d \in DocIds,
           \A b \in Actors \ {a} : call'[b] = call[b],
           \A e \in DocIds \ {d} :
               /\ e \in rows' <=> e \in rows
               /\ e \in pendingText' <=> e \in pendingText
               /\ readiness'[e] = readiness[e] /\ chunkRows'[e] = chunkRows[e],
           DocumentOK(d)', CallOnCourse(a)',
           \A b \in Actors \ {a} : call[b].doc = d => CallOnCourse(b)'
    PROVE  Progress'
<1>1. ASSUME NEW e \in DocIds PROVE DocumentOK(e)'
    BY DEF Progress, DocumentOK
<1>2. ASSUME NEW b \in Actors PROVE CallOnCourse(b)'
    <2>1. CASE b = a \/ call[b].doc = d
        BY <2>1
    <2>2. CASE b # a /\ call[b].doc # d
        <3>1. CASE call[b].doc \in rows'
            <4>2. rows' \subseteq DocIds
                BY StoreAssumption DEF StoreTypeOK, DocIds
            <4>1. call[b].doc \in DocIds \ {d} /\ call'[b] = call[b] /\ CallOnCourse(b)
                BY <2>2, <3>1, <4>2 DEF Progress
            <4> QED BY <3>1, <4>1 DEF CallOnCourse
        <3>2. CASE call[b].doc \notin rows'
            BY <2>2, <3>2 DEF CallOnCourse
        <3> QED BY <3>1, <3>2
    <2> QED BY <2>1, <2>2
<1> QED BY <1>1, <1>2 DEF Progress

(* ... and when it changes no document. *)
LEMMA ProgressStill ==
    ASSUME Progress, NEW a \in Actors,
           \A b \in Actors \ {a} : call'[b] = call[b],
           UNCHANGED <<rows, readiness, pendingText, chunkRows>>, CallOnCourse(a)'
    PROVE  Progress'
<1>1. ASSUME NEW b \in Actors \ {a} PROVE CallOnCourse(b)'
    BY DEF Progress, CallOnCourse
<1> QED BY <1>1 DEF Progress, DocumentOK

(* A call that fills a document is not in the way of the others about it. *)
LEMMA OthersOnCourse ==
    ASSUME Wiring, WorkersProcess, Progress, NEW a \in Actors, call[a].at \in Filling,
           NEW b \in Actors \ {a}, call[b].doc = call[a].doc, call'[b] = call[b],
           UNCHANGED rows
    PROVE  CallOnCourse(b)'
<1>1. call[b].at \notin Filling
    BY SoleFiller
<1>2. Carrying \cup Finishing \cup {"clear"} \subseteq Filling
    BY DEF Carrying, Finishing, Filling, Ingesting, ProcessSteps
<1>3. call[b].doc \in rows => call[b].at # "del_edges"
    BY DEF Progress, CallOnCourse
<1> QED BY <1>1, <1>2, <1>3 DEF CallOnCourse, Carrying

(* The statements that change a column of the document they fill. *)
LEMMA FillingProgresses ==
    ASSUME Wiring, Wiring', WorkersProcess, Progress, NEW a \in Actors, CallStep(a),
           \/ SetPendingText(a) \/ ClearText(a) \/ MarkIndexing(a) \/ InsertChunk(a)
           \/ MarkReady(a) \/ MarkSummarizing(a) \/ MarkComplete(a) \/ SummaryFailed(a)
    PROVE  Progress'
<1> DEFINE Others == \A b \in Actors \ {a} : call'[b] = call[b]
           Fills == \/ SetPendingText(a) \/ ClearText(a) \/ MarkIndexing(a) \/ InsertChunk(a)
                    \/ MarkReady(a) \/ MarkSummarizing(a) \/ MarkComplete(a)
                    \/ SummaryFailed(a)
<1> USE DEF At, storeVars
<1>0. StoreTypeOK /\ StoreTypeOK' /\ Others /\ rows \subseteq DocIds /\ pendingText \subseteq rows
    BY CallFollows, RowsInDocIds DEF Wiring, Follows, StoreTypeOK
<1>1. call[a].at \in Filling /\ UNCHANGED rows /\ call[a].at \in Steps \ Nameless
    BY DEF SetPendingText, ClearText, MarkIndexing, InsertChunk, MarkReady, MarkSummarizing,
           MarkComplete, SummaryFailed, Filling, Ingesting, ProcessSteps, Nameless, Steps,
           IngestSteps
<1>2. PICK d \in DocIds : d = call[a].doc
    <2>1. call[a].doc \in 1..lastDoc /\ lastDoc \in 0..MaxDocs
        BY <1>0, <1>1 DEF StoreTypeOK
    <2> QED BY <2>1, StoreAssumption DEF DocIds
<1>3. \A b \in Actors \ {a} : call[b].doc = d => CallOnCourse(b)'
    BY <1>0, <1>1, <1>2, OthersOnCourse
<1>4. CallOnCourse(a) /\ DocumentOK(d) /\ chunkRows[d] \in Nat /\ readiness[d] \in Readiness
    BY <1>0 DEF Progress, StoreTypeOK
<1> DEFINE Elsewhere ==
               \A e \in DocIds \ {d} :
                   /\ e \in rows' <=> e \in rows
                   /\ e \in pendingText' <=> e \in pendingText
                   /\ readiness'[e] = readiness[e] /\ chunkRows'[e] = chunkRows[e]
<1>5. SUFFICES Elsewhere /\ DocumentOK(d)' /\ CallOnCourse(a)'
    BY <1>0, <1>3, ProgressKept
<1>6. Elsewhere
    BY <1>0, <1>2
       DEF SetPendingText, ClearText, MarkIndexing, InsertChunk, MarkReady, MarkSummarizing,
           MarkComplete, SummaryFailed, SetReadiness, StoreTypeOK
<1>7. CASE SetPendingText(a)
    <2>1. Moved(a, "dispatch")
        BY <1>0, <1>7, Moving DEF SetPendingText, Steps, IngestSteps
    <2>2. CallOnCourse(a)'
        BY <2>1 DEF CallOnCourse, Moved, Carrying, Finishing
    <2>3. DocumentOK(d)'
        BY <1>2, <1>4, <1>7 DEF SetPendingText, DocumentOK, CallOnCourse, Carrying
    <2> QED BY <1>6, <2>2, <2>3
<1>8. CASE ClearText(a)
    <2>1. Moved(a, "indexing")
        BY <1>0, <1>8, Moving DEF ClearText, Steps, ProcessSteps
    <2>2. CallOnCourse(a)'
        BY <1>2, <1>4, <1>8, <2>1 DEF ClearText, CallOnCourse, Moved, DocumentOK, Carrying,
                                     Finishing
    <2>3. DocumentOK(d)'
        BY <1>2, <1>4, <1>8 DEF ClearText, DocumentOK
    <2> QED BY <1>6, <2>2, <2>3
<1>9. CASE MarkIndexing(a)
    <2>1. Moved(a, "chunk") /\ call[a].n = 0
        BY <1>0, <1>9, Moving
           DEF MarkIndexing, Steps, ProcessSteps, StoreTypeOK, NothingStored
    <2>2. /\ UNCHANGED <<pendingText, chunkRows>>
          /\ d \in rows => readiness'[d] = "indexing" /\ "indexing" \notin Queryable
          /\ d \notin rows => UNCHANGED readiness
        BY <1>0, <1>2, <1>9 DEF MarkIndexing, SetReadiness, StoreTypeOK, Queryable
    <2>3. CallOnCourse(a)'
        BY <1>1, <1>2, <1>4, <1>9, <2>1, <2>2
           DEF MarkIndexing, CallOnCourse, Moved, Carrying, Finishing
    <2>4. DocumentOK(d)'
        BY <1>1, <1>4, <2>2 DEF DocumentOK
    <2> QED BY <1>6, <2>3, <2>4
<1>10. CASE InsertChunk(a)
    <2>1. UNCHANGED <<pendingText, readiness>> /\ call[a].at = "chunk"
        BY <1>10 DEF InsertChunk
    <2>2. CASE d \notin rows
        BY <1>1, <1>2, <1>4, <1>10, <2>1, <2>2, <1>0, CallFollows
           DEF InsertChunk, DocumentOK, CallOnCourse, Follows, IngestSteps, ProcessSteps,
               DeleteSteps
    <2>3. CASE d \in rows
        <3>1. Moved(a, "chunk_prov")
            BY <1>0, <1>2, <1>10, <2>3, Moving DEF InsertChunk, Steps, ProcessSteps
        <3>2. chunkRows'[d] = chunkRows[d] + 1
            BY <1>0, <1>2, <1>10, <2>3 DEF InsertChunk, StoreTypeOK
        <3>3. call[a].n \in 0..(Chunks - 1)
            BY <1>0 DEF StoreTypeOK, CallsUpTo
        <3>4. chunkRows[d] = call[a].n /\ d \notin pendingText /\ readiness[d] \notin Queryable
            BY <1>2, <1>4, <2>1, <2>3 DEF CallOnCourse, Carrying
        <3>5. CallOnCourse(a)'
            BY <1>2, <2>1, <3>1, <3>2, <3>4 DEF CallOnCourse, Moved, Carrying, Finishing
        <3>6. DocumentOK(d)'
            BY <1>1, <1>4, <2>1, <2>3, <3>2, <3>3, <3>4, StoreAssumption DEF DocumentOK
        <3> QED BY <1>6, <3>5, <3>6
    <2> QED BY <2>2, <2>3
<1>11. CASE MarkReady(a) \/ MarkSummarizing(a) \/ MarkComplete(a) \/ SummaryFailed(a)
    <2>1. PICK s \in {"ok", "summarize", "generate"}, r \in Queryable :
             /\ Goto(a, s) /\ SetReadiness(d, r)
             /\ UNCHANGED <<pendingText, chunkRows>>
             /\ call[a].at \in Carrying \cup Finishing
        BY <1>2, <1>11 DEF MarkReady, MarkSummarizing, MarkComplete, SummaryFailed, Queryable,
                          Carrying, Finishing
    <2>2. Moved(a, s)
        BY <1>0, <2>1, Moving DEF Steps, ProcessSteps
    <2>3. d \in rows => readiness'[d] \in Queryable /\ d \notin pendingText
        BY <1>0, <1>2, <1>4, <2>1 DEF SetReadiness, StoreTypeOK, CallOnCourse
    <2>4. d \notin rows => d \notin pendingText
        BY <1>0
    <2>5. CallOnCourse(a)'
        BY <1>1, <1>2, <2>1, <2>2, <2>3 DEF CallOnCourse, Moved, Carrying, Finishing
    <2>6. DocumentOK(d)'
        BY <1>1, <1>4, <2>1, <2>3, <2>4 DEF DocumentOK
    <2> QED BY <1>6, <2>5, <2>6
<1> QED BY <1>7, <1>8, <1>9, <1>10, <1>11

(* Every statement of a call keeps the progress of all documents. *)
LEMMA CallProgresses ==
    ASSUME Wiring, Wiring', WorkersProcess, Progress, NEW a \in Actors, CallStep(a)
    PROVE  Progress'
<1> DEFINE Others == \A b \in Actors \ {a} : call'[b] = call[b]
<1> USE DEF At, storeVars
<1>0. StoreTypeOK /\ StoreTypeOK' /\ Others /\ rows \subseteq DocIds
    BY CallFollows, RowsInDocIds DEF Wiring, Follows
<1>1. CASE FindContent(a) \/ GetDocument(a) \/ DeleteGet(a) \/ RecomputeEdges(a) \/ Fault(a)
             \/ DeleteMentions(a) \/ DeleteClaims(a) \/ DeleteProvenance(a)
    <2>1. PICK s \in {"ok", "err", "insert", "take", "del_mentions", "del_claims", "del_prov",
                      "del_row"} : Goto(a, s)
        BY <1>1 DEF FindContent, GetDocument, DeleteGet, RecomputeEdges, Fault,
                    DeleteMentions, DeleteClaims, DeleteProvenance, DeleteFrom
    <2>2. Moved(a, s)
        BY <1>0, <2>1, Moving DEF Steps, IngestSteps, ProcessSteps, DeleteSteps
    <2>3. CallOnCourse(a)'
        BY <2>2 DEF CallOnCourse, Moved, Carrying, Finishing
    <2>4. UNCHANGED <<rows, readiness, pendingText, chunkRows>>
        BY <1>1 DEF FindContent, GetDocument, DeleteGet, RecomputeEdges, Fault,
                    DeleteMentions, DeleteClaims, DeleteProvenance, DeleteFrom
    <2> QED BY <1>0, <2>3, <2>4, ProgressStill
<1>2. CASE TakeText(a) \/ Generate(a) \/ StoreSummary(a) \/ PersistEntities(a)
    <2>1. CallOnCourse(a)
        BY DEF Progress
    <2>2. PICK s \in {"clear", "err", "summary_prov", "summary_failed", "complete", "claims"} :
             Moved(a, s) /\ Goto(a, s)
        BY <1>0, <1>2, Moving DEF TakeText, Generate, StoreSummary, PersistEntities, Steps,
                                  ProcessSteps
    <2>3. UNCHANGED <<rows, readiness, pendingText, chunkRows>>
        BY <1>2 DEF TakeText, Generate, StoreSummary, PersistEntities
    <2>4. CASE TakeText(a)
        <3>1. s \in {"clear", "err"} /\ (s = "clear" => call[a].doc \in pendingText)
            BY <2>2, <2>4, <1>0, Moving
               DEF TakeText, Moved, Steps, ProcessSteps
        <3>2. CallOnCourse(a)'
            BY <2>2, <2>3, <3>1 DEF CallOnCourse, Moved, Carrying, Finishing
        <3> QED BY <1>0, <2>3, <3>2, ProgressStill
    <2>5. CASE Generate(a) \/ StoreSummary(a) \/ PersistEntities(a)
        <3>1. \/ call[a].at \in Finishing /\ call'[a].at \in Finishing
              \/ call[a].at = "mentions" /\ call'[a].at = "claims"
            BY <1>0, <2>5, Moving DEF Generate, StoreSummary, PersistEntities, Moved, Steps,
                                      ProcessSteps, Finishing
        <3>2. CallOnCourse(a)'
            BY <2>1, <2>2, <2>3, <3>1 DEF CallOnCourse, Moved, Carrying, Finishing
        <3> QED BY <1>0, <2>3, <3>2, ProgressStill
    <2> QED BY <1>2, <2>4, <2>5
<1>3. CASE ChunkProvenance(a) \/ PersistClaims(a)
    <2>1. UNCHANGED <<rows, readiness, pendingText, chunkRows>>
        BY <1>3 DEF ChunkProvenance, PersistClaims
    <2>2. \/ call[a].at = "chunk_prov" /\ Looped(a, "chunk", "mentions")
          \/ call[a].at = "claims" /\ Looped(a, "mentions", "ready")
        BY <1>0, <1>3, ChunkLoops DEF ChunkProvenance, PersistClaims
    <2>3. CallOnCourse(a)
        BY DEF Progress
    <2>4. CallOnCourse(a)'
        BY <2>1, <2>2, <2>3 DEF CallOnCourse, Looped, Carrying, Finishing
    <2> QED BY <1>0, <2>1, <2>4, ProgressStill
<1>4. CASE DeleteRow(a)
    <2>1. PICK d \in DocIds : d = call[a].doc
        BY <1>0, <1>4, StoreAssumption
           DEF DeleteRow, StoreTypeOK, Steps, DeleteSteps, Nameless, DocIds
    <2>2. /\ rows' = rows \ {d} /\ pendingText' = pendingText \ {d} /\ UNCHANGED readiness
          /\ chunkRows' = [chunkRows EXCEPT ![d] = 0]
        BY <1>4, <2>1 DEF DeleteRow
    <2>3. call'[a].doc = d
        BY <1>4, <2>1, CallFollows DEF Wiring, DeleteRow, Follows, IngestSteps, ProcessSteps,
                                       DeleteSteps
    <2>4. \A b \in Actors : call'[b].doc = d => CallOnCourse(b)'
        BY <2>2 DEF CallOnCourse
    <2>5. DocumentOK(d)'
        BY <1>0, <2>2, StoreAssumption DEF DocumentOK, StoreTypeOK
    <2>6. \A e \in DocIds \ {d} :
             /\ e \in rows' <=> e \in rows
             /\ e \in pendingText' <=> e \in pendingText
             /\ readiness'[e] = readiness[e] /\ chunkRows'[e] = chunkRows[e]
        BY <1>0, <2>2 DEF StoreTypeOK
    <2> QED BY <1>0, <2>3, <2>4, <2>5, <2>6, ProgressKept
<1>5. CASE InsertDocument(a)
    <2>1. CASE UNCHANGED storeVars /\ Goto(a, "err")
        <3>1. CallOnCourse(a)'
            BY <1>0, <2>1, Moving DEF CallOnCourse, Moved, Carrying, Finishing
        <3> QED BY <1>0, <2>1, <3>1, ProgressStill
    <2>2. CASE ~(UNCHANGED storeVars /\ Goto(a, "err"))
        <3>1. /\ rows' = rows \cup {lastDoc + 1} /\ UNCHANGED <<pendingText, chunkRows>>
              /\ readiness' = [readiness EXCEPT ![lastDoc + 1] = "pending"]
              /\ call' = [call EXCEPT ![a].at = "set_text", ![a].doc = lastDoc + 1]
              /\ lastDoc < MaxDocs
            BY <1>5, <2>2 DEF InsertDocument
        <3>2. PICK d \in DocIds : d = lastDoc + 1
            BY <1>0, <3>1, StoreAssumption DEF StoreTypeOK, DocIds
        <3>3. call'[a].at = "set_text" /\ call'[a].doc = d
            BY <1>0, <3>1, <3>2 DEF StoreTypeOK, CallsUpTo
        <3>4. /\ d \notin rows /\ d \notin pendingText
              /\ \A b \in Actors : call[b].doc # d
            BY <1>0, <3>2, StoreAssumption DEF StoreTypeOK, CallsUpTo
        <3>5. chunkRows[d] = 0 /\ readiness'[d] = "pending" /\ "pending" \notin Queryable
            BY <1>0, <3>1, <3>2, <3>4 DEF Progress, DocumentOK, StoreTypeOK, Queryable
        <3>6. DocumentOK(d)' /\ CallOnCourse(a)'
            BY <3>1, <3>2, <3>3, <3>4, <3>5, StoreAssumption
               DEF DocumentOK, CallOnCourse, Carrying, Finishing
        <3>7. \A e \in DocIds \ {d} :
                 /\ e \in rows' <=> e \in rows
                 /\ e \in pendingText' <=> e \in pendingText
                 /\ readiness'[e] = readiness[e] /\ chunkRows'[e] = chunkRows[e]
            BY <1>0, <3>1, <3>2 DEF StoreTypeOK
        <3> QED BY <1>0, <3>4, <3>6, <3>7, ProgressKept
    <2> QED BY <2>1, <2>2
<1>6. CASE SetPendingText(a) \/ ClearText(a) \/ MarkIndexing(a) \/ InsertChunk(a)
             \/ MarkReady(a) \/ MarkSummarizing(a) \/ MarkComplete(a) \/ SummaryFailed(a)
    BY <1>6, FillingProgresses
<1> QED BY <1>1, <1>2, <1>3, <1>4, <1>5, <1>6
        DEF CallStep, IngestStep, ProcessStep, DeleteStep

(* The steps that begin or end a call are on course whatever the document. *)
LEMMA OffCourse ==
    ASSUME Progress, NEW a \in Actors, UNCHANGED storeVars,
           \A b \in Actors \ {a} : call'[b] = call[b],
           call'[a].at \in {"idle", "ok", "find", "get", "del_get"}
    PROVE  Progress'
<1>1. CallOnCourse(a)'
    BY DEF CallOnCourse, Carrying, Finishing
<1> QED BY <1>1, ProgressStill DEF storeVars

(* Every step keeps the documents and the calls on course. *)
LEMMA ProgressStep ==
    ASSUME Wiring, WorkersProcess, Progress, [IngestionNext]_ivars
    PROVE  Progress'
<1>1. Wiring'
    BY WiringStep
<1>2. CASE UNCHANGED svars
    BY <1>2 DEF Progress, DocumentOK, CallOnCourse, svars, storeVars
<1>3. ASSUME NEW a \in Actors, Statement(a) PROVE Progress'
    <2>1. CASE CallStep(a)
        BY <1>1, <2>1, CallProgresses
    <2>2. CASE Restarts(a)
        <3>1. call'[a].at \in {"idle", "ok", "find", "get", "del_get"}
            BY <2>2 DEF Restarts
        <3> QED BY <2>2, <3>1, OffCourse DEF Restarts
    <2> QED BY <1>3, <2>1, <2>2, StatementEffect DEF Wiring
<1>4. CASE Insertion
    <2>1. PICK a \in Clients : /\ UNCHANGED storeVars
                               /\ \A b \in Actors \ {a} : call'[b] = call[b]
                               /\ Moved(a, "ok") \/ UNCHANGED call
        BY <1>4, InsertionEffect
    <2>2. CASE Moved(a, "ok")
        BY <2>1, <2>2, OffCourse, IngestionAssumption DEF Moved
    <2>3. CASE UNCHANGED call
        BY <1>2, <2>1, <2>3 DEF svars
    <2> QED BY <2>1, <2>2, <2>3
<1>5. ASSUME NEW w \in Threads, ClaimCall(w) PROVE Progress'
    <2>1. /\ UNCHANGED storeVars /\ call'[w].at \in {"get", "del_get"} /\ w \in Actors
          /\ \A b \in Actors \ {w} : call'[b] = call[b]
        BY <1>5, ClaimEffect, IngestionAssumption
    <2> QED BY <2>1, OffCourse
<1>6. ASSUME NEW w \in Threads, CallReturned(w) PROVE Progress'
    <2>1. w \in Actors /\ Return(w)
        BY <1>6, IngestionAssumption DEF CallReturned
    <2>2. /\ UNCHANGED storeVars /\ call'[w].at = "idle"
          /\ \A b \in Actors \ {w} : call'[b] = call[b]
        BY <2>1 DEF Return, NoCall, Call, Wiring, StoreTypeOK
    <2> QED BY <2>1, <2>2, OffCourse
<1>7. ASSUME NEW e \in Engines, ProcessDies(e) PROVE Progress'
    <2>1. UNCHANGED storeVars /\ \A a \in Actors : call'[a].at = "idle"
        BY <1>7, CrashEffect
    <2> QED BY <2>1 DEF Progress, DocumentOK, CallOnCourse, storeVars, Carrying, Finishing
<1>8. CASE QueueStep
    BY <1>2, <1>8, QueueStepEffect DEF Wiring
<1> QED BY <1>2, <1>3, <1>4, <1>5, <1>6, <1>7, <1>8, StepsOfIngestion DEF ivars

(* There is nothing to be off course with at first. *)
LEMMA ProgressInitially == IngestionInit => Progress
<1> SUFFICES ASSUME IngestionInit PROVE Progress
    OBVIOUS
<1>1. /\ rows = {} /\ pendingText = {} /\ \A d \in DocIds : chunkRows[d] = 0
    BY DEF IngestionInit, StoreInit
<1> QED BY <1>1, StoreAssumption DEF Progress, DocumentOK, CallOnCourse

-----------------------------------------------------------------------------
(* What the queue says of a job is true. *)

(* A row does not come back and a document that is ready stays so. *)
DocumentsStay ==
    \A d \in 1..lastDoc : d \in rows' =>
        d \in rows /\ (readiness[d] \in Queryable => readiness'[d] \in Queryable)

(* A statement brings no removed document back, and none that was ready    *)
(* becomes unready.                                                        *)
LEMMA CallLetsDocumentsStay ==
    ASSUME StoreTypeOK, Progress, NEW a \in Actors, CallStep(a)
    PROVE  DocumentsStay
<1> USE DEF At, storeVars
<1>0. rows \subseteq DocIds /\ CallOnCourse(a)
    BY RowsInDocIds DEF Progress
<1>1. CASE InsertDocument(a)
    BY <1>1, <1>0, StoreAssumption DEF InsertDocument, DocumentsStay, StoreTypeOK
<1>2. CASE MarkIndexing(a)
    BY <1>2, <1>0
       DEF MarkIndexing, DocumentsStay, StoreTypeOK, SetReadiness, CallOnCourse, Carrying
<1>3. CASE MarkReady(a) \/ MarkSummarizing(a) \/ MarkComplete(a) \/ SummaryFailed(a)
    <2>1. PICK r \in Queryable : SetReadiness(call[a].doc, r) /\ UNCHANGED rows
        BY <1>3 DEF MarkReady, MarkSummarizing, MarkComplete, SummaryFailed, Queryable
    <2> QED BY <1>0, <2>1 DEF DocumentsStay, SetReadiness, StoreTypeOK
<1>4. CASE rows' \subseteq rows /\ UNCHANGED readiness
    BY <1>4 DEF DocumentsStay
<1> QED BY <1>1, <1>2, <1>3, <1>4
        DEF CallStep, IngestStep, ProcessStep, DeleteStep, FindContent, SetPendingText,
            GetDocument, TakeText, ClearText, InsertChunk, ChunkProvenance,
            PersistEntities, PersistClaims, Generate, StoreSummary, DeleteGet,
            DeleteMentions, DeleteClaims, DeleteProvenance, DeleteFrom, DeleteRow,
            RecomputeEdges, Fault

(* The call of a job that returns success has done what the job asks for. *)
LEMMA WorkerSucceeds ==
    ASSUME Wiring, Progress, NEW w \in Threads, pc[w] = "work", CallStep(w),
           call'[w].at = "ok"
    PROVE  \/ payload[job[w]] \notin rows'
           \/ ToProcess(job[w]) /\ readiness'[payload[job[w]]] \in Queryable
<1> USE DEF At, storeVars
<1>1. /\ w \in Actors /\ StoreTypeOK /\ CallOnCourse(w)
      /\ call[w].doc = payload[job[w]]
      /\ call[w].at \in {"ok", "err"}
             \cup (IF ToProcess(job[w]) THEN ProcessSteps ELSE DeleteSteps)
    BY IngestionAssumption DEF Wiring, Assigned, Progress
<1>2. ASSUME NEW s \in Steps \cup {"err"}, Goto(w, s)
      PROVE  FALSE
    <2>1. call'[w].at = s
        BY <1>1, <1>2, Moving DEF Moved
    <2> QED BY <2>1 DEF Steps, IngestSteps, ProcessSteps, DeleteSteps
<1>3. CASE RecomputeEdges(w)
    BY <1>1, <1>3 DEF RecomputeEdges, CallOnCourse
<1>4. CASE MarkReady(w) \/ MarkComplete(w) \/ SummaryFailed(w)
    <2>1. PICK r \in Queryable : SetReadiness(call[w].doc, r) /\ UNCHANGED rows
        BY <1>4 DEF MarkReady, MarkComplete, SummaryFailed, Queryable
    <2>2. ToProcess(job[w])
        BY <1>1, <1>4 DEF MarkReady, MarkComplete, SummaryFailed, DeleteSteps
    <2> QED BY <1>1, <2>1, <2>2, RowsInDocIds DEF SetReadiness, StoreTypeOK
<1>5. CASE FindContent(w) \/ InsertDocument(w) \/ SetPendingText(w)
    BY <1>1, <1>5
       DEF FindContent, InsertDocument, SetPendingText, ProcessSteps, DeleteSteps
<1>6. CASE ChunkProvenance(w) \/ PersistClaims(w)
    BY <1>1, <1>6, ChunkLoops DEF Looped
<1>7. CASE GetDocument(w) \/ TakeText(w) \/ ClearText(w) \/ MarkIndexing(w) \/ InsertChunk(w)
            \/ PersistEntities(w) \/ MarkSummarizing(w) \/ Generate(w) \/ StoreSummary(w)
            \/ DeleteGet(w) \/ DeleteMentions(w) \/ DeleteClaims(w) \/ DeleteProvenance(w)
            \/ DeleteRow(w) \/ Fault(w)
    <2>1. PICK s \in Steps \cup {"err"} : Goto(w, s)
        BY <1>7 DEF GetDocument, TakeText, ClearText, MarkIndexing, InsertChunk,
                    PersistEntities, MarkSummarizing, Generate, StoreSummary, DeleteGet,
                    DeleteMentions, DeleteClaims, DeleteProvenance, DeleteFrom, DeleteRow,
                    Fault, Steps, ProcessSteps, DeleteSteps
    <2> QED BY <1>2, <2>1
<1> QED BY <1>3, <1>4, <1>5, <1>6, <1>7 DEF CallStep, IngestStep, ProcessStep, DeleteStep

(* What a step must see to: it lets the documents stay, and marks a job    *)
(* done, or goes on with a success, for a call that had succeeded or does. *)
LEMMA ResultsKept ==
    ASSUME Wiring, ResultsAreTrue, DoneIsTrue, DocumentsStay,
           \A j \in Enqueued : kind'[j] = kind[j] /\ payload'[j] = payload[j],
           \A w \in Threads : Succeeded(w)' =>
               \/ Succeeded(w) /\ Holds(w) /\ job'[w] = job[w]
               \/ Fulfilled(job[w])' /\ job'[w] = job[w],
           \A j \in Jobs : status'[j] = "done" =>
               \/ status[j] = "done"
               \/ \E w \in Threads : Succeeded(w) /\ Holds(w) /\ job[w] = j
    PROVE  ResultsAreTrue' /\ DoneIsTrue'
<1>1. ASSUME NEW j \in Enqueued, Fulfilled(j)
      PROVE  Fulfilled(j)'
    <2>1. payload[j] \in 1..lastDoc
        BY DEF Wiring, PayloadOK
    <2> QED BY <1>1, <2>1 DEF Fulfilled, DocumentsStay, ToProcess
<1>2. ASSUME NEW w \in Threads, Succeeded(w)'
      PROVE  Fulfilled(job[w])' /\ job'[w] = job[w]
    BY <1>1, <1>2, JobsAreEnqueued DEF ResultsAreTrue
<1>3. ResultsAreTrue'
    <2>1. \A w \in Threads : Succeeded(w)' =>
             \/ payload'[job'[w]] \notin rows'
             \/ kind'[job'[w]] = "process_document" /\ readiness'[payload'[job'[w]]] \in Queryable
        BY <1>2 DEF Fulfilled, ToProcess
    <2> QED BY <2>1 DEF ResultsAreTrue, Fulfilled, ToProcess
<1>4. ASSUME NEW j \in Jobs, status'[j] = "done"
      PROVE  Fulfilled(j)'
    <2>1. CASE status[j] = "done"
        <3>1. j \in Enqueued
            BY <2>1, QueueAssumption DEF Wiring, IInv, FreshRows, TypeOK, Enqueued, Jobs
        <3>2. Fulfilled(j)
            BY <2>1 DEF DoneIsTrue, Fulfilled, ToProcess
        <3> QED BY <1>1, <3>1, <3>2
    <2>2. CASE status[j] # "done"
        BY <1>1, <1>4, <2>2, JobsAreEnqueued DEF ResultsAreTrue
    <2> QED BY <2>1, <2>2
<1>5. DoneIsTrue'
    BY <1>4 DEF DoneIsTrue, Fulfilled, ToProcess
<1> QED BY <1>3, <1>5

(* A step of the queue alone marks a job done only for a success. *)
LEMMA QueueStepResults ==
    ASSUME Wiring, QueueStep
    PROVE  /\ \A w \in Threads : Succeeded(w)' =>
                 Succeeded(w) /\ Holds(w) /\ job'[w] = job[w]
           /\ \A j \in Jobs : status'[j] = "done" =>
                 \/ status[j] = "done"
                 \/ \E w \in Threads : Succeeded(w) /\ Holds(w) /\ job[w] = j
<1> USE QueueAssumption DEF vars, rowVars, threadVars, Succeeded, Holds, Working
<1>1. TypeOK /\ GoneEngineHasNoThreads /\ UNCHANGED call
    BY DEF Wiring, IInv, QueueStep, svars
<1> USE DEF TypeOK
<1>2. CASE \E w \in Threads : LoopHead(w) \/ Idle(w)
    BY <1>1, <1>2 DEF LoopHead, Idle
<1>3. CASE \E w \in Threads : ReadAttempts(w)
    BY <1>1, <1>3 DEF ReadAttempts
<1>4. CASE \E w \in Threads : Settle(w)
    <2>1. PICK w \in Threads : Settle(w)
        BY <1>4
    <2>2. /\ pc[w] = "settle" /\ pc'[w] = "poll"
          /\ \A v \in Threads \ {w} : pc'[v] = pc[v] /\ job'[v] = job[v] /\ outcome'[v] = outcome[v]
        BY <1>1, <2>1 DEF Settle, Drop
    <2>3. \A j \in Jobs : status'[j] = "done" =>
             status[j] = "done" \/ (j = job[w] /\ NewStatus(w) = "done")
        BY <1>1, <2>1 DEF Settle
    <2>4. NewStatus(w) = "done" => outcome[w] = "ok"
        BY DEF NewStatus
    <2> QED BY <1>1, <2>2, <2>3, <2>4
<1>5. CASE \E w \in Threads : LoseReport(w)
    BY <1>1, <1>5 DEF LoseReport, Drop
<1>6. CASE \E e \in Engines : Open(e)
    BY <1>1, <1>6 DEF Open, Recovered, GoneEngineHasNoThreads
<1>7. CASE \E e \in Engines : FinishClose(e) \/ BeginClose(e)
    <2>1. PICK e \in Engines : FinishClose(e) \/ BeginClose(e)
        BY <1>7
    <2>2. UNCHANGED <<pc, job, outcome>>
        BY <2>1 DEF FinishClose, BeginClose
    <2>3. status' = cancel_pending \/ status' = status
        BY <2>1 DEF FinishClose, BeginClose
    <2>4. \A j \in Jobs : status'[j] = "done" => status[j] = "done"
        BY <1>1, <2>3 DEF cancel_pending
    <2> QED BY <1>1, <2>2, <2>4
<1>8. CASE \E j \in Jobs : Elapse(j) \/ CancelJob(j)
    BY <1>1, <1>8 DEF Elapse, CancelJob
<1> QED BY <1>2, <1>3, <1>4, <1>5, <1>6, <1>7, <1>8 DEF QueueStep

(* A call that returned successfully did what its job asked for, and what  *)
(* it did stays done; so `done` is true.                                   *)
LEMMA ResultsStep ==
    ASSUME FilledInv, [IngestionNext]_ivars
    PROVE  ResultsAreTrue' /\ DoneIsTrue'
<1> USE DEF FilledInv
<1> DEFINE Same == \A j \in Enqueued : kind'[j] = kind[j] /\ payload'[j] = payload[j]
<1>0. ASSUME UNCHANGED storeVars PROVE DocumentsStay
    BY <1>0 DEF DocumentsStay, storeVars
<1>1. CASE UNCHANGED ivars
    BY <1>1 DEF ResultsAreTrue, DoneIsTrue, Succeeded, Fulfilled, ToProcess, ivars, vars,
                rowVars, threadVars, svars, storeVars
<1>2. ASSUME NEW a \in Actors, Statement(a) PROVE ResultsAreTrue' /\ DoneIsTrue'
    <2>1. Same /\ UNCHANGED <<status, pc, job, outcome, kind, payload>>
        BY <1>2 DEF Statement, vars, rowVars, threadVars
    <2>2. /\ DocumentsStay
          /\ \A b \in Actors \ {a} : call'[b] = call[b]
        BY <1>0, <1>2, StatementEffect, CallLetsDocumentsStay
           DEF Wiring, Restarts, Follows
    <2>3. ASSUME NEW w \in Threads, Succeeded(w)'
          PROVE  \/ Succeeded(w) /\ Holds(w) /\ job'[w] = job[w]
                 \/ Fulfilled(job[w])' /\ job'[w] = job[w]
        <3>1. CASE w # a \/ pc[w] # "work"
            BY <2>1, <2>2, <2>3, <3>1, IngestionAssumption DEF Succeeded, Holds, Working
        <3>2. CASE w = a /\ pc[w] = "work"
            <4>1. CallStep(w) /\ call'[w].at = "ok"
                BY <1>2, <2>1, <2>3, <3>2 DEF Statement, Succeeded
            <4> QED BY <2>1, <3>2, <4>1, WorkerSucceeds DEF Fulfilled, ToProcess
        <3> QED BY <3>1, <3>2
    <2> HIDE DEF FilledInv
    <2>4. Wiring /\ ResultsAreTrue /\ DoneIsTrue
        BY DEF FilledInv
    <2> QED BY <2>1, <2>2, <2>3, <2>4, ResultsKept
<1>3. CASE QueueStep
    <2>1. Same /\ UNCHANGED storeVars
        BY <1>3, QueueStepEffect DEF Wiring, svars
    <2> QED BY <1>0, <1>3, <2>1, QueueStepResults, ResultsKept
<1>4. CASE Insertion
    <2>1. PICK a \in Clients, k \in Kinds, d \in 1..lastDoc :
             /\ lastId + 1 \in Jobs
             /\ status' = [status EXCEPT ![lastId + 1] = "pending"]
             /\ kind' = [kind EXCEPT ![lastId + 1] = k]
             /\ payload' = [payload EXCEPT ![lastId + 1] = d]
             /\ UNCHANGED <<threadVars, storeVars>>
             /\ \A b \in Actors \ {a} : call'[b] = call[b]
        BY <1>4, InsertionEffect
    <2>2. Same
        BY <2>1, QueueAssumption DEF Wiring, IInv, TypeOK, PayloadOK, Enqueued, Jobs
    <2>3. \A w \in Threads : call'[w] = call[w]
        BY <2>1, IngestionAssumption
    <2>4. \A w \in Threads : Succeeded(w)' => Succeeded(w) /\ Holds(w) /\ job'[w] = job[w]
        BY <2>1, <2>3 DEF Succeeded, Holds, Working, threadVars
    <2>5. \A j \in Jobs : status'[j] = "done" => status[j] = "done"
        BY <2>1 DEF Wiring, IInv, TypeOK
    <2> QED BY <1>0, <2>1, <2>2, <2>4, <2>5, ResultsKept
<1>5. ASSUME NEW w \in Threads, ClaimCall(w) PROVE ResultsAreTrue' /\ DoneIsTrue'
    <2>1. PICK j \in Enqueued :
             /\ status' = [status EXCEPT ![j] = "running"]
             /\ UNCHANGED <<kind, outcome, payload, storeVars>>
             /\ pc'[w] = "work"
             /\ \A v \in Threads \ {w} : pc'[v] = pc[v] /\ job'[v] = job[v]
             /\ \A b \in Actors \ {w} : call'[b] = call[b]
             /\ call'[w].at = (IF ToProcess(j) THEN "get" ELSE "del_get")
        BY <1>5, ClaimEffect
    <2>2. \A v \in Threads : Succeeded(v)' => Succeeded(v) /\ Holds(v) /\ job'[v] = job[v]
        BY <2>1, IngestionAssumption DEF Succeeded, Holds, Working
    <2>3. \A i \in Jobs : status'[i] = "done" => status[i] = "done"
        BY <2>1 DEF Wiring, IInv, TypeOK
    <2> QED BY <1>0, <2>1, <2>2, <2>3, ResultsKept
<1>6. ASSUME NEW w \in Threads, CallReturned(w) PROVE ResultsAreTrue' /\ DoneIsTrue'
    <2>1. /\ UNCHANGED <<status, kind, job, payload, storeVars>>
          /\ pc[w] = "work" /\ pc'[w] = "report" /\ outcome'[w] = call[w].at
          /\ \A v \in Threads \ {w} : pc'[v] = pc[v] /\ outcome'[v] = outcome[v]
          /\ \A b \in Actors \ {w} : call'[b] = call[b]
        BY <1>6, IngestionAssumption
           DEF CallReturned, Finish, Return, rowVars, Wiring, IInv, TypeOK, StoreTypeOK
    <2>2. \A v \in Threads : Succeeded(v)' => Succeeded(v) /\ Holds(v) /\ job'[v] = job[v]
        BY <2>1, IngestionAssumption DEF Succeeded, Holds, Working
    <2> QED BY <1>0, <2>1, <2>2, ResultsKept
<1>7. ASSUME NEW e \in Engines, ProcessDies(e) PROVE ResultsAreTrue' /\ DoneIsTrue'
    <2>1. /\ UNCHANGED <<status, kind, payload, storeVars>>
          /\ \A w \in Threads : pc'[w] = "exited"
        BY <1>7, CrashEffect DEF rowVars
    <2>2. \A v \in Threads : ~Succeeded(v)'
        BY <2>1 DEF Succeeded
    <2> QED BY <1>0, <2>1, <2>2, ResultsKept
<1> QED BY <1>1, <1>2, <1>3, <1>4, <1>5, <1>6, <1>7, StepsOfIngestion

(* The inductive invariant behind DoneIsTrue and ChunksStoredOnce. *)
LEMMA Filled == ASSUME WorkersProcess PROVE IngestionSpec => []FilledInv
<1>1. IngestionInit => FilledInv
    <2>1. IngestionInit => /\ \A w \in Threads : pc[w] = "exited"
                           /\ \A j \in Jobs : status[j] = "none"
        BY DEF IngestionInit, Init
    <2>2. IngestionInit => ResultsAreTrue /\ DoneIsTrue
        BY <2>1 DEF ResultsAreTrue, Succeeded, DoneIsTrue
    <2> QED BY <2>2, WiredInitially, ProgressInitially DEF FilledInv
<1>2. FilledInv /\ [IngestionNext]_ivars => FilledInv'
    BY WiringStep, ProgressStep, ResultsStep DEF FilledInv
<1> QED BY <1>1, <1>2, PTL DEF IngestionSpec

(* If only the workers process documents, a job that the queue reports as  *)
(* done has really processed its document, or the document is deleted; a   *)
(* deletion that is done has left none.  Whatever statements fail, reports *)
(* are lost, jobs are cancelled and wherever the process dies or closes.   *)
THEOREM DoneJobsAreTrue == ASSUME WorkersProcess PROVE IngestionSpec => []DoneIsTrue
<1>1. FilledInv => DoneIsTrue
    BY DEF FilledInv
<1> QED BY <1>1, Filled, PTL

(* Nor is a chunk ever stored twice by a retry. *)
THEOREM ChunksAreStoredOnce ==
    ASSUME WorkersProcess PROVE IngestionSpec => []ChunksStoredOnce
<1>1. FilledInv => ChunksStoredOnce
    BY RowsInDocIds DEF FilledInv, Wiring, Progress, DocumentOK, ChunksStoredOnce
<1> QED BY <1>1, Filled, PTL

-----------------------------------------------------------------------------
(* One worker that alone processes and deletes leaves nothing behind.      *)

(* A document about which the only worker is not is left as it was.        *)
LEMMA WorkerDeletes ==
    ASSUME StoreTypeOK, StoreTypeOK', Emptied, NEW w \in Actors, DeletionOnCourse(w),
           ProcessStep(w) \/ DeleteStep(w)
    PROVE  Emptied' /\ DeletionOnCourse(w)'
<1> USE DEF At, storeVars
<1> DEFINE d == call[w].doc
<1>0. /\ call[w].at \in Steps \ Nameless /\ d \in DocIds /\ rows \subseteq DocIds
      /\ derived[d] \subseteq Tables
    <2>1. call[w].at \in Steps \ Nameless
        BY DEF ProcessStep, DeleteStep, GetDocument, TakeText, ClearText, MarkIndexing,
               InsertChunk, ChunkProvenance, PersistEntities, PersistClaims, MarkReady,
               MarkSummarizing, Generate, StoreSummary, MarkComplete, SummaryFailed,
               DeleteGet, DeleteMentions, DeleteClaims, DeleteProvenance, DeleteFrom,
               DeleteRow, RecomputeEdges, Steps, ProcessSteps, DeleteSteps, Nameless
    <2>2. call[w].doc \in 1..lastDoc /\ lastDoc \in 0..MaxDocs
        BY <2>1 DEF StoreTypeOK
    <2>3. d \in DocIds
        BY <2>2, StoreAssumption DEF DocIds
    <2> QED BY <2>1, <2>3, RowsInDocIds DEF StoreTypeOK
<1>1. CASE GetDocument(w) \/ DeleteGet(w)
    <2>1. PICK s \in {"take", "del_mentions", "err"} :
             Goto(w, s) /\ (s # "err" => d \in rows) /\ UNCHANGED storeVars
        BY <1>1 DEF GetDocument, DeleteGet
    <2>2. Moved(w, s)
        BY <2>1, Moving DEF Steps, ProcessSteps, DeleteSteps
    <2> QED BY <2>1, <2>2
            DEF Emptied, DeletionOnCourse, Moved, Touching, ProcessSteps, DeleteSteps
<1>2. CASE TakeText(w) \/ ClearText(w) \/ MarkIndexing(w) \/ MarkReady(w) \/ MarkSummarizing(w)
             \/ Generate(w) \/ MarkComplete(w) \/ SummaryFailed(w)
    <2>1. PICK s \in ProcessSteps \cup {"ok", "err"} :
             /\ Goto(w, s) /\ UNCHANGED <<rows, derived, chunkRows>>
             /\ call[w].at \in ProcessSteps \ {"get"}
        BY <1>2 DEF TakeText, ClearText, MarkIndexing, MarkReady, MarkSummarizing, Generate,
                    MarkComplete, SummaryFailed, ProcessSteps
    <2>2. Moved(w, s)
        BY <2>1, Moving DEF Steps
    <2> QED BY <2>1, <2>2
            DEF Emptied, DeletionOnCourse, Moved, Touching, ProcessSteps, DeleteSteps
<1>3. CASE InsertChunk(w)
    <2>1. d \in rows
        BY <1>3 DEF InsertChunk, DeletionOnCourse, Touching, ProcessSteps
    <2>2. Moved(w, "chunk_prov")
        BY <1>3, <2>1, Moving DEF InsertChunk, Steps, ProcessSteps
    <2>3. Emptied'
        BY <1>0, <1>3, <2>1 DEF InsertChunk, Emptied, StoreTypeOK
    <2> QED BY <1>3, <2>1, <2>2, <2>3
            DEF InsertChunk, DeletionOnCourse, Moved, DeleteSteps, Touching
<1>4. CASE ChunkProvenance(w) \/ PersistClaims(w) \/ PersistEntities(w) \/ StoreSummary(w)
    <2>1. d \in rows /\ UNCHANGED <<rows, chunkRows>>
        BY <1>4 DEF ChunkProvenance, PersistClaims, PersistEntities, StoreSummary,
                    DeletionOnCourse, Touching, ProcessSteps
    <2>2. \A e \in DocIds \ {d} : derived'[e] = derived[e]
        BY <1>0, <1>4 DEF ChunkProvenance, PersistClaims, PersistEntities, StoreSummary,
                          Derive, StoreTypeOK
    <2>3. call'[w].at \in ProcessSteps /\ call'[w].doc = d
        <3>1. CASE ChunkProvenance(w) \/ PersistClaims(w)
            BY <3>1, ChunkLoops DEF Looped, ProcessSteps
        <3>2. CASE PersistEntities(w) \/ StoreSummary(w)
            BY <3>2, Moving DEF PersistEntities, StoreSummary, Moved, Steps, ProcessSteps
        <3> QED BY <1>4, <3>1, <3>2
    <2>4. Emptied'
        BY <2>1, <2>2 DEF Emptied
    <2> QED BY <2>1, <2>3, <2>4 DEF DeletionOnCourse, ProcessSteps, DeleteSteps
<1>5. CASE DeleteMentions(w) \/ DeleteClaims(w) \/ DeleteProvenance(w)
    <2>1. d \in rows /\ UNCHANGED <<rows, chunkRows>>
        BY <1>5 DEF DeleteMentions, DeleteClaims, DeleteProvenance, DeleteFrom,
                    DeletionOnCourse, Touching, DeleteSteps
    <2>2. PICK k \in Tables, s \in {"del_claims", "del_prov", "del_row"} :
             /\ derived' = [derived EXCEPT ![d] = @ \ {k}] /\ Goto(w, s)
             /\ \/ k = "mentions" /\ s = "del_claims"
                \/ k = "claims" /\ s = "del_prov" /\ call[w].at = "del_claims"
                \/ k = "provenance" /\ s = "del_row" /\ call[w].at = "del_prov"
        BY <1>5 DEF DeleteMentions, DeleteClaims, DeleteProvenance, DeleteFrom, Tables
    <2>3. Moved(w, s)
        BY <2>2, Moving DEF Steps, DeleteSteps
    <2>4. /\ derived'[d] = derived[d] \ {k}
          /\ \A e \in DocIds \ {d} : derived'[e] = derived[e]
        BY <1>0, <2>2 DEF StoreTypeOK
    <2>5. Emptied'
        BY <2>1, <2>4 DEF Emptied
    <2> QED BY <2>1, <2>2, <2>3, <2>4, <2>5 DEF DeletionOnCourse, Moved
<1>6. CASE DeleteRow(w)
    <2>1. /\ d \in rows /\ rows' = rows \ {d} /\ UNCHANGED derived
          /\ chunkRows' = [chunkRows EXCEPT ![d] = 0] /\ Goto(w, "del_edges")
        BY <1>6 DEF DeleteRow, DeletionOnCourse, Touching, DeleteSteps
    <2>2. derived[d] = {}
        BY <1>0, <1>6 DEF DeleteRow, DeletionOnCourse, Tables
    <2>3. Moved(w, "del_edges")
        BY <2>1, Moving DEF Steps, DeleteSteps
    <2>4. Emptied'
        BY <1>0, <2>1, <2>2 DEF Emptied, StoreTypeOK
    <2> QED BY <2>3, <2>4 DEF DeletionOnCourse, Moved, Touching, ProcessSteps
<1>7. CASE RecomputeEdges(w)
    <2>1. Moved(w, "ok")
        BY <1>7, Moving DEF RecomputeEdges
    <2> QED BY <1>7, <2>1
            DEF RecomputeEdges, Emptied, DeletionOnCourse, Moved, Touching, ProcessSteps,
                DeleteSteps
<1> QED BY <1>1, <1>2, <1>3, <1>4, <1>5, <1>6, <1>7 DEF ProcessStep, DeleteStep

(* An ingesting call, and one that fails, remove nothing.                  *)
LEMMA NothingRemoved ==
    ASSUME StoreTypeOK, NEW a \in Actors, IngestStep(a) \/ Fault(a)
    PROVE  rows \subseteq rows' /\ UNCHANGED <<derived, chunkRows>>
BY DEF IngestStep, FindContent, InsertDocument, SetPendingText, Fault, storeVars

(* Every step keeps the documents that have no row empty. *)
LEMMA GoneStep ==
    ASSUME OnlyTheWorker, GoneInv, [IngestionNext]_ivars
    PROVE  GoneInv'
<1> DEFINE OnCourse == \A w \in Threads : DeletionOnCourse(w)
           Early == {"idle", "ok", "err", "get", "del_get"}
<1>0. Wiring' /\ Wiring /\ Emptied /\ OnCourse
    BY WiringStep DEF GoneInv
<1>1. SUFFICES Emptied' /\ OnCourse'
    BY <1>0 DEF GoneInv
<1> USE <1>0
<1>2. ASSUME NEW a \in Actors, call'[a].at \in Early
      PROVE  DeletionOnCourse(a)'
    BY <1>2 DEF DeletionOnCourse, Touching, ProcessSteps, DeleteSteps
<1>3. ASSUME rows \subseteq rows', UNCHANGED <<derived, chunkRows>>,
             \A w \in Threads : call'[w] = call[w] \/ call'[w].at \in Early
      PROVE  Emptied' /\ OnCourse'
    <2>1. ASSUME NEW w \in Threads PROVE DeletionOnCourse(w)'
        <3>1. CASE call'[w] = call[w]
            BY <1>3, <3>1 DEF DeletionOnCourse
        <3>2. CASE call'[w].at \in Early
            BY <1>2, <3>2, IngestionAssumption
        <3> QED BY <1>3, <3>1, <3>2
    <2> QED BY <1>3, <2>1 DEF Emptied
<1> HIDE DEF OnCourse, Early
<1>4. CASE UNCHANGED svars
    BY <1>3, <1>4 DEF svars, storeVars
<1>5. ASSUME NEW a \in Actors, Statement(a) PROVE Emptied' /\ OnCourse'
    <2>1. \A b \in Actors \ {a} : call'[b] = call[b]
        BY <1>5, StatementEffect DEF Wiring, Restarts, Follows
    <2>2. CASE Restarts(a)
        <3>1. \A w \in Threads : call'[w] = call[w]
            BY <2>1, <2>2, IngestionAssumption DEF Restarts
        <3> QED BY <1>3, <2>2, <3>1 DEF Restarts, storeVars
    <2>3. CASE CallStep(a) /\ (IngestStep(a) \/ Fault(a))
        <3>1. a \in Threads => call'[a].at = "err"
            <4>1. a \in Threads => ~IngestStep(a)
                BY <1>5 DEF Statement, Wiring, Assigned, IngestStep, FindContent,
                            InsertDocument, SetPendingText, At, ProcessSteps, DeleteSteps
            <4>2. Fault(a) => call'[a].at = "err"
                BY Moving DEF Fault, Moved, Wiring
            <4> QED BY <2>3, <4>1, <4>2
        <3>2. \A w \in Threads : call'[w] = call[w] \/ call'[w].at \in Early
            BY <2>1, <3>1, IngestionAssumption DEF Early
        <3> QED BY <1>3, <2>3, <3>2, NothingRemoved DEF Wiring
    <2>4. CASE CallStep(a) /\ (ProcessStep(a) \/ DeleteStep(a))
        <3>1. call[a].at \in ProcessSteps \cup DeleteSteps
            BY <2>4 DEF ProcessStep, DeleteStep, GetDocument, TakeText, ClearText,
               MarkIndexing, InsertChunk, ChunkProvenance, PersistEntities, PersistClaims,
               MarkReady, MarkSummarizing, Generate, StoreSummary, MarkComplete,
               SummaryFailed, DeleteGet, DeleteMentions, DeleteClaims, DeleteProvenance,
               DeleteFrom, DeleteRow, RecomputeEdges, At, ProcessSteps, DeleteSteps
        <3>2. a \in Threads
            BY <3>1, IngestionAssumption DEF Wiring, ClientsCall, OnlyTheWorker
        <3>3. Emptied' /\ DeletionOnCourse(a)'
            BY <2>4, <3>2, WorkerDeletes DEF Wiring, OnCourse
        <3>4. \A w \in Threads : w = a
            BY <3>2 DEF OnlyTheWorker, OneWorker
        <3> QED BY <3>3, <3>4 DEF OnCourse
    <2> QED BY <1>5, <2>2, <2>3, <2>4, StatementEffect DEF Wiring, CallStep
<1>6. CASE QueueStep
    BY <1>4, <1>6, QueueStepEffect DEF Wiring
<1>7. CASE Insertion
    <2>1. UNCHANGED storeVars /\ \A w \in Threads : call'[w] = call[w]
        BY <1>7, InsertionEffect, IngestionAssumption
    <2> QED BY <1>3, <2>1 DEF storeVars
<1>8. ASSUME NEW v \in Threads, ClaimCall(v) PROVE Emptied' /\ OnCourse'
    <2>1. /\ UNCHANGED storeVars /\ call'[v].at \in Early
          /\ \A b \in Actors \ {v} : call'[b] = call[b]
        BY <1>8, ClaimEffect DEF Early
    <2>2. \A w \in Threads : call'[w] = call[w] \/ call'[w].at \in Early
        BY <2>1, IngestionAssumption
    <2> QED BY <1>3, <2>1, <2>2 DEF storeVars
<1>9. ASSUME NEW v \in Threads, CallReturned(v) PROVE Emptied' /\ OnCourse'
    <2>1. v \in Actors /\ Return(v)
        BY <1>9, IngestionAssumption DEF CallReturned
    <2>2. /\ UNCHANGED storeVars /\ call'[v].at = "idle"
          /\ \A b \in Actors \ {v} : call'[b] = call[b]
        BY <2>1 DEF Return, NoCall, Call, Wiring, StoreTypeOK
    <2>3. \A w \in Threads : call'[w] = call[w] \/ call'[w].at \in Early
        BY <2>2, IngestionAssumption DEF Early
    <2> QED BY <1>3, <2>2, <2>3 DEF storeVars
<1>10. ASSUME NEW e \in Engines, ProcessDies(e) PROVE Emptied' /\ OnCourse'
    <2>1. UNCHANGED storeVars /\ \A w \in Threads : call'[w].at \in Early
        BY <1>10, CrashEffect, IngestionAssumption DEF Early
    <2> QED BY <1>3, <2>1 DEF storeVars
<1> QED BY <1>4, <1>5, <1>6, <1>7, <1>8, <1>9, <1>10, StepsOfIngestion DEF ivars

(* With one worker, and deletion as a job like the processing, no row      *)
(* names a document that is deleted: whatever fails and however often the  *)
(* process dies, the row of the document goes last.                        *)
THEOREM DeletionsAreReal == ASSUME OnlyTheWorker PROVE IngestionSpec => []DeletionIsReal
<1>1. IngestionInit => GoneInv
    <2>1. IngestionInit => /\ \A d \in DocIds : derived[d] = {} /\ chunkRows[d] = 0
                           /\ \A a \in Actors : call[a].at = "idle"
        BY DEF IngestionInit, StoreInit, NoCall, Call
    <2>2. IngestionInit => \A w \in Threads : DeletionOnCourse(w)
        BY <2>1, IngestionAssumption DEF DeletionOnCourse, Touching, ProcessSteps, DeleteSteps
    <2> QED BY <2>1, <2>2, WiredInitially DEF GoneInv, Emptied
<1>2. GoneInv /\ [IngestionNext]_ivars => GoneInv'
    BY GoneStep
<1>3. GoneInv => DeletionIsReal
    <2> SUFFICES ASSUME GoneInv, NEW d \in 1..lastDoc, d \notin rows
                 PROVE  derived[d] = {} /\ chunkRows[d] = 0 /\ d \notin pendingText
        BY DEF DeletionIsReal
    <2>1. d \in DocIds /\ pendingText \subseteq rows
        BY StoreAssumption DEF GoneInv, Wiring, StoreTypeOK, DocIds
    <2> QED BY <2>1 DEF GoneInv, Emptied
<1> QED BY <1>1, <1>2, <1>3, PTL DEF IngestionSpec

-----------------------------------------------------------------------------
(* In a process that stays up, a text that nobody has taken has a job.     *)

(* A call adds a text only as it goes on to enqueue the job, and does not  *)
(* pass by a text that is still there.                                     *)
LEMMA CallLeavesText ==
    ASSUME StoreTypeOK, NEW a \in Actors, StaysUp, CallStep(a)
    PROVE  /\ call[a].at # "dispatch"
           /\ call[a].at \in TextNotTaken =>
                 call'[a].at \in TextNotTaken \/ call[a].doc \notin pendingText'
           /\ \A d \in pendingText' : d \notin pendingText =>
                 /\ call[a].at = "set_text" /\ call[a].doc = d
                 /\ call'[a].at = "dispatch" /\ call'[a].doc = d
<1> USE DEF At, storeVars, TextNotTaken, Steps, IngestSteps, ProcessSteps, DeleteSteps
<1>1. CASE SetPendingText(a)
    BY <1>1, Moving DEF SetPendingText, Moved
<1>2. CASE GetDocument(a) \/ TakeText(a)
    <2>1. pendingText \subseteq rows
        BY DEF StoreTypeOK
    <2> QED BY <1>2, <2>1, Moving DEF GetDocument, TakeText, Moved
<1>3. CASE ClearText(a)
    BY <1>3 DEF ClearText
<1>4. CASE Fault(a)
    BY <1>4, FaultAssumption DEF Fault, StaysUp
<1>5. CASE InsertDocument(a)
    BY <1>5 DEF InsertDocument
<1>6. CASE FindContent(a) \/ MarkIndexing(a) \/ InsertChunk(a) \/ ChunkProvenance(a)
            \/ PersistEntities(a) \/ PersistClaims(a) \/ MarkReady(a) \/ MarkSummarizing(a)
            \/ Generate(a) \/ StoreSummary(a) \/ MarkComplete(a) \/ SummaryFailed(a)
    BY <1>6 DEF FindContent, MarkIndexing, InsertChunk, ChunkProvenance, PersistEntities,
                PersistClaims, MarkReady, MarkSummarizing, Generate, StoreSummary,
                MarkComplete, SummaryFailed
<1>7. CASE DeleteStep(a)
    BY <1>7 DEF DeleteStep, DeleteGet, DeleteMentions, DeleteClaims, DeleteProvenance,
                DeleteFrom, DeleteRow, RecomputeEdges
<1> QED BY <1>1, <1>2, <1>3, <1>4, <1>5, <1>6, <1>7 DEF CallStep, IngestStep, ProcessStep

(* A statement leaves no stored text without the job that will process it, *)
LEMMA StatementKeepsText ==
    ASSUME StaysUp, TextInv, NEW a \in Actors, Statement(a)
    PROVE  EnginesUp' /\ TextWaits' /\ TextCovered'
<1> USE DEF TextInv
<1>1. /\ UNCHANGED <<engine, status, kind, lastId, pc, job, payload>>
      /\ StoreTypeOK /\ \A b \in Actors \ {a} : call'[b] = call[b]
    BY StatementEffect DEF Statement, vars, rowVars, threadVars, Wiring, Follows, Restarts
<1>2. EnginesUp'
    BY <1>1 DEF EnginesUp
<1>3. CASE Restarts(a)
    <2>1. UNCHANGED pendingText /\ a \notin Threads
        BY <1>3 DEF Restarts, storeVars
    <2>2. \A w \in Threads : call'[w] = call[w]
        BY <1>1, <2>1, IngestionAssumption
    <2>3. TextWaits'
        BY <1>1, <2>1, <2>2
           DEF TextWaits, Enqueued, ToProcess, Waiting, Holds
    <2>4. call[a].at # "dispatch"
        <3>1. CASE CallStep(a)
            BY <1>1, <3>1, CallLeavesText
        <3>2. CASE ~CallStep(a)
            BY <3>2 DEF Statement, StartIngest, StartProcess, StartDelete, Start, Return, At
        <3> QED BY <3>1, <3>2
    <2>5. TextCovered'
        BY <1>1, <2>1, <2>4, IngestionAssumption DEF TextCovered, Enqueued, ToProcess
    <2> QED BY <1>2, <2>3, <2>5
<1>4. CASE CallStep(a)
    <2>1. /\ call[a].at # "dispatch"
          /\ call[a].at \in TextNotTaken =>
                call'[a].at \in TextNotTaken \/ call[a].doc \notin pendingText'
          /\ \A d \in pendingText' : d \notin pendingText =>
                /\ call[a].at = "set_text" /\ call[a].doc = d
                /\ call'[a].at = "dispatch" /\ call'[a].doc = d
        BY <1>1, <1>4, CallLeavesText
    <2>2. \A j \in Enqueued : ToProcess(j) /\ payload[j] \in pendingText' =>
             payload[j] \in pendingText
        BY <2>1 DEF Wiring, OneJobPerText, Ingesting
    <2>3. ASSUME NEW j \in Enqueued, ToProcess(j), payload[j] \in pendingText',
                 NEW w \in Threads, Holds(w), job[w] = j
          PROVE  pc[w] = "work" /\ call'[w].at \in TextNotTaken
        <3>1. pc[w] = "work" /\ call[w].at \in TextNotTaken
            BY <2>2, <2>3 DEF TextWaits
        <3>2. call[w].doc = payload[j]
            BY <2>3, <3>1 DEF Wiring, Assigned
        <3> QED BY <1>1, <2>1, <2>3, <3>1, <3>2, IngestionAssumption
    <2>4. TextWaits'
        BY <1>1, <2>2, <2>3 DEF TextWaits, Enqueued, ToProcess, Waiting, Holds
    <2>5. ASSUME NEW d \in pendingText'
          PROVE  \/ \E j \in Enqueued : ToProcess(j) /\ payload[j] = d
                 \/ \E c \in Clients : call'[c].doc = d /\ call'[c].at = "dispatch"
        <3>1. CASE d \in pendingText
            BY <1>1, <2>1, <3>1, IngestionAssumption DEF TextCovered
        <3>2. CASE d \notin pendingText
            <4>1. call[a].at = "set_text" /\ call'[a].at = "dispatch" /\ call'[a].doc = d
                BY <2>1, <3>2
            <4>2. a \in Clients
                BY <4>1, IngestionAssumption
                   DEF Wiring, Assigned, ProcessSteps, DeleteSteps
            <4> QED BY <4>1, <4>2
        <3> QED BY <3>1, <3>2
    <2>6. TextCovered'
        BY <1>1, <2>5 DEF TextCovered, Enqueued, ToProcess
    <2> QED BY <1>2, <2>4, <2>6
<1> QED BY <1>1, <1>3, <1>4, StatementEffect

(* A step of the queue leaves the job of a text that waits to wait.        *)
LEMMA QueueStepKeepsText ==
    ASSUME StaysUp, TextInv, QueueStep
    PROVE  EnginesUp' /\ TextWaits' /\ TextCovered'
<1> USE DEF TextInv
<1>1. /\ UNCHANGED <<call, pendingText, payload, kind, lastId>>
      /\ \A w \in Threads : /\ pc'[w] = "work" <=> pc[w] = "work"
                            /\ pc[w] = "work" => job'[w] = job[w]
    BY QueueStepEffect DEF Wiring, svars, storeVars
<1>2. TextCovered'
    BY <1>1 DEF TextCovered, Enqueued, ToProcess
<1> DEFINE Idles(w) == LoopHead(w) \/ Idle(w) \/ ReadAttempts(w) \/ LoseReport(w)
<1>3. \/ \E w \in Threads : Idles(w) \/ Settle(w)
      \/ \E e \in Engines : Open(e)
      \/ \E j \in Jobs : Elapse(j)
    BY DEF QueueStep, StaysUp, EnginesUp, FinishClose
<1> DEFINE Text == {j \in Enqueued : ToProcess(j) /\ payload[j] \in pendingText}
<1>4. ASSUME NEW j \in Text, NEW w \in Threads, job[w] = j
      PROVE  pc[w] \notin {"report", "settle"}
    BY <1>4 DEF TextWaits, Holds, Working
<1>5. TypeOK /\ GoneEngineHasNoThreads /\ Enqueued \subseteq Jobs
    BY QueueAssumption DEF Wiring, IInv, TypeOK, Enqueued, Jobs
<1>6. ASSUME NEW j \in Text
      PROVE  /\ status'[j] = status[j] \/ status'[j] = "pending"
             /\ \A w \in Threads : Holds(w)' /\ job'[w] = j => Holds(w) /\ job[w] = j
    <2> USE <1>5, QueueAssumption DEF TypeOK, Holds, Working, vars, rowVars, threadVars
    <2>1. CASE \E w \in Threads : LoopHead(w) \/ Idle(w) \/ ReadAttempts(w)
        BY <2>1 DEF LoopHead, Idle, ReadAttempts
    <2>2. CASE \E w \in Threads : LoseReport(w)
        BY <2>2 DEF LoseReport, Drop
    <2>3. CASE \E w \in Threads : Settle(w)
        <3>1. PICK w \in Threads : Settle(w)
            BY <2>3
        <3>2. job[w] # j
            BY <1>4, <3>1 DEF Settle
        <3> QED BY <3>1, <3>2 DEF Settle, Drop
    <2>4. CASE \E e \in Engines : Open(e)
        BY <2>4 DEF Open, Recovered, GoneEngineHasNoThreads
    <2>5. CASE \E i \in Jobs : Elapse(i)
        BY <2>5 DEF Elapse
    <2> QED BY <1>3, <2>1, <2>2, <2>3, <2>4, <2>5
<1>7. EnginesUp'
    BY <1>3, <1>5
       DEF EnginesUp, LoopHead, Idle, ReadAttempts, LoseReport, Settle, Open, Elapse, TypeOK
<1>8. TextWaits'
    <2>1. ASSUME NEW j \in Text
          PROVE  /\ status'[j] \in {"pending", "running"}
                 /\ \A w \in Threads : Holds(w)' /\ job'[w] = j =>
                       pc'[w] = "work" /\ call[w].at \in TextNotTaken
        BY <1>1, <1>6 DEF TextWaits, Waiting
    <2> QED BY <1>1, <2>1 DEF TextWaits, Waiting, Enqueued, ToProcess
<1> QED BY <1>2, <1>7, <1>8

(* ... nor does a new job, *)
LEMMA InsertionKeepsText ==
    ASSUME TextInv, Insertion
    PROVE  EnginesUp' /\ TextWaits' /\ TextCovered'
<1> USE DEF TextInv
<1>1. PICK a \in Clients, k \in Kinds, d \in 1..lastDoc :
         /\ lastId + 1 \in Jobs /\ lastId' = lastId + 1
         /\ status' = [status EXCEPT ![lastId + 1] = "pending"]
         /\ kind' = [kind EXCEPT ![lastId + 1] = k]
         /\ payload' = [payload EXCEPT ![lastId + 1] = d]
         /\ UNCHANGED <<engine, threadVars, storeVars>>
         /\ \A b \in Actors \ {a} : call'[b] = call[b]
         /\ \/ /\ call[a].at = "dispatch" /\ call[a].doc = d
               /\ k = "process_document" /\ Moved(a, "ok")
            \/ k = "delete_document" /\ UNCHANGED call
    BY InsertionEffect
<1>2. /\ lastId + 1 \notin Enqueued /\ Enqueued' = Enqueued \cup {lastId + 1}
      /\ status'[lastId + 1] = "pending" /\ kind'[lastId + 1] = k /\ payload'[lastId + 1] = d
      /\ \A j \in Enqueued :
            status'[j] = status[j] /\ kind'[j] = kind[j] /\ payload'[j] = payload[j]
    BY <1>1, QueueAssumption DEF Wiring, IInv, TypeOK, PayloadOK, Enqueued, Jobs
<1>3. \A w \in Threads : call'[w] = call[w]
    BY <1>1, IngestionAssumption
<1>4. \A w \in Threads : Holds(w) => job[w] # lastId + 1
    BY <1>2, JobsAreEnqueued
<1>5. TextWaits'
    BY <1>1, <1>2, <1>3, <1>4 DEF TextWaits, ToProcess, Waiting, Holds, threadVars, storeVars
<1>6. TextCovered'
    BY <1>1, <1>2, IngestionAssumption DEF TextCovered, ToProcess, storeVars
<1> QED BY <1>1, <1>5, <1>6 DEF EnginesUp

(* ... a claim, *)
LEMMA ClaimKeepsText ==
    ASSUME TextInv, NEW w \in Threads, ClaimCall(w)
    PROVE  EnginesUp' /\ TextWaits' /\ TextCovered'
<1> USE DEF TextInv
<1>1. PICK j \in Enqueued :
         /\ status' = [status EXCEPT ![j] = "running"]
         /\ UNCHANGED <<kind, lastId, engine, payload, storeVars>>
         /\ pc'[w] = "work" /\ job'[w] = j
         /\ \A v \in Threads \ {w} : pc'[v] = pc[v] /\ job'[v] = job[v]
         /\ \A b \in Actors \ {w} : call'[b] = call[b]
         /\ call'[w].at = (IF ToProcess(j) THEN "get" ELSE "del_get")
    BY ClaimEffect
<1>2. Enqueued \subseteq Jobs /\ status \in [Jobs -> {"none", "pending", "running"} \cup Terminal]
    BY QueueAssumption DEF Wiring, IInv, TypeOK, Enqueued, Jobs
<1>3. ASSUME NEW i \in Enqueued, ToProcess(i), payload[i] \in pendingText
      PROVE  /\ status'[i] \in {"pending", "running"}
             /\ \A v \in Threads : Holds(v)' /\ job'[v] = i =>
                   pc'[v] = "work" /\ call'[v].at \in TextNotTaken
    <2>1. status'[i] \in {"pending", "running"}
        BY <1>1, <1>2, <1>3 DEF TextWaits, Waiting
    <2>2. ASSUME NEW v \in Threads, Holds(v)', job'[v] = i
          PROVE  pc'[v] = "work" /\ call'[v].at \in TextNotTaken
        <3>1. CASE v = w
            BY <1>1, <1>3, <2>2, <3>1 DEF TextNotTaken
        <3>2. CASE v # w
            BY <1>1, <1>3, <2>2, <3>2, IngestionAssumption DEF TextWaits, Holds
        <3> QED BY <3>1, <3>2
    <2> QED BY <2>1, <2>2
<1>4. TextWaits'
    BY <1>1, <1>3 DEF TextWaits, Waiting, Enqueued, ToProcess, storeVars
<1>5. TextCovered'
    BY <1>1, IngestionAssumption DEF TextCovered, Enqueued, ToProcess, storeVars
<1> QED BY <1>1, <1>4, <1>5 DEF EnginesUp

(* ... or the end of a call: one that gave up before it took the text      *)
(* makes the job wait or wait again.                                       *)
LEMMA ReturnKeepsText ==
    ASSUME TextInv, NEW w \in Threads, CallReturned(w)
    PROVE  EnginesUp' /\ TextWaits' /\ TextCovered'
<1> USE DEF TextInv
<1>1. /\ UNCHANGED <<engine, status, kind, lastId, job, payload, storeVars>>
      /\ pc[w] = "work" /\ call[w].at \in {"ok", "err"}
      /\ \A v \in Threads \ {w} : pc'[v] = pc[v]
      /\ \A b \in Actors \ {w} : call'[b] = call[b]
    BY IngestionAssumption
       DEF CallReturned, Finish, Return, rowVars, Wiring, IInv, TypeOK, StoreTypeOK
<1>2. ASSUME NEW j \in Enqueued, ToProcess(j), payload[j] \in pendingText
      PROVE  job[w] # j
    BY <1>1, <1>2 DEF TextWaits, TextNotTaken, Holds, Working
<1>3. TextWaits'
    BY <1>1, <1>2, IngestionAssumption
       DEF TextWaits, Waiting, Enqueued, ToProcess, Holds, storeVars
<1>4. TextCovered'
    BY <1>1, IngestionAssumption DEF TextCovered, Enqueued, ToProcess, storeVars
<1> QED BY <1>1, <1>3, <1>4 DEF EnginesUp

(* In a process that is neither closed nor killed, where no job is         *)
(* cancelled and no statement fails before a worker has the text, every    *)
(* text that waits in its row has a pending or running job that will take  *)
(* it, or a call that is about to enqueue one: no document is forgotten.   *)
THEOREM NoTextIsForgotten == ASSUME StaysUp PROVE IngestionSpec => []TextHasJob
<1>1. IngestionInit => TextInv
    <2>1. IngestionInit => pendingText = {} /\ \A e \in Engines : engine[e] = "down"
        BY DEF IngestionInit, Init, StoreInit
    <2> QED BY <2>1, WiredInitially DEF TextInv, EnginesUp, TextWaits, TextCovered
<1>2. TextInv /\ [IngestionNext]_ivars => TextInv'
    <2> SUFFICES ASSUME TextInv, [IngestionNext]_ivars
                 PROVE  EnginesUp' /\ TextWaits' /\ TextCovered'
        BY WiringStep DEF TextInv
    <2>1. CASE UNCHANGED ivars
        BY <2>1 DEF TextInv, EnginesUp, TextWaits, TextCovered, Waiting, Enqueued, ToProcess,
                    Holds, ivars, vars, rowVars, threadVars, svars, storeVars
    <2>2. CASE IngestionNext
        <3>1. \A e \in Engines : ~("crash" \in Events /\ ProcessDies(e))
            BY DEF StaysUp
        <3> QED BY <2>2, <3>1, StepsOfIngestion, StatementKeepsText, QueueStepKeepsText,
                   InsertionKeepsText, ClaimKeepsText, ReturnKeepsText
    <2> QED BY <2>1, <2>2
<1>3. TextInv => TextHasJob
    <2> SUFFICES ASSUME TextInv, NEW d \in pendingText
                 PROVE  \/ \E j \in Jobs : payload[j] = d /\ ToProcess(j) /\ Waiting(j)
                        \/ \E a \in Clients : AboutDoc(a, d) /\ call[a].at = "dispatch"
        BY DEF TextHasJob, ToProcess
    <2>1. Enqueued \subseteq Jobs
        BY QueueAssumption DEF TextInv, Wiring, IInv, TypeOK, Enqueued, Jobs
    <2> QED BY <2>1 DEF TextInv, TextCovered, TextWaits, AboutDoc, Steps, IngestSteps
<1> QED BY <1>1, <1>2, <1>3, PTL DEF IngestionSpec

-----------------------------------------------------------------------------
(* What the documents promise in synchronous mode, they promise when jobs  *)
(* process and delete them, as long as no call is cut short by a crash.    *)

(* A call that begins, hands over or ends outside of the statements. *)
Between == {"idle", "dispatch", "ok", "err"}
Beyond == {"idle", "ok", "err", "find", "get", "del_get"}

(* Such a step leaves documents and texts alone. *)
LEMMA BetweenKeeps ==
    ASSUME StoreTypeOK, StoreTypeOK', NEW a \in Actors, UNCHANGED storeVars,
           \A b \in Actors \ {a} : call'[b] = call[b],
           call[a].at \in Between, call'[a].at \in Beyond
    PROVE  /\ TextIsCarried => TextIsCarried'
           /\ StoredSoFar => StoredSoFar'
<1>1. TextIsCarried => TextIsCarried'
    BY TextStays DEF Between, Carrying, storeVars
<1>2. NothingTaken
    <2>1. \A d : Live(d)' => Live(d)
        BY DEF Live, Doomed, Between, Removing, storeVars
    <2>2. \A d \in rows : chunkRows'[d] >= chunkRows[d] /\ derived'[d] = derived[d]
        BY RowsInDocIds DEF StoreTypeOK, storeVars
    <2> QED BY <2>1, <2>2 DEF NothingTaken
<1>3. \A e : Stored(a, e)'
    BY DEF Stored, Beyond
<1>4. StoredSoFar => StoredSoFar'
    BY <1>2, <1>3, StoredKept DEF storeVars
<1> QED BY <1>1, <1>4

(* Every step of the system is a step of a call, which keeps the promises  *)
(* if its failures are harmless, or one between calls.                     *)
LEMMA PromisesKept ==
    ASSUME Wiring, "crash" \notin Events, [IngestionNext]_ivars
    PROVE  /\ TextSurvives /\ TextIsCarried => TextIsCarried'
           /\ DeletionsFinish /\ StoredSoFar => StoredSoFar'
<1> DEFINE Kept == /\ TextSurvives /\ TextIsCarried => TextIsCarried'
                   /\ DeletionsFinish /\ StoredSoFar => StoredSoFar'
<1>1. StoreTypeOK /\ StoreTypeOK'
    BY WiringStep DEF Wiring
<1>2. CASE UNCHANGED svars
    BY <1>2 DEF TextIsCarried, StoredSoFar, Live, Doomed, Stored, Complete, svars, storeVars
<1>3. ASSUME NEW a \in Actors, Statement(a) PROVE Kept
    <2>1. StartIngest(a) \/ StartDelete(a) \/ StartProcess(a) \/ CallStep(a) \/ Return(a)
        BY <1>3 DEF Statement
    <2> QED BY <1>1, <2>1, StartKeeps, CallKeepsText, CallKeepsStored
<1>4. CASE Insertion
    <2>1. PICK a \in Clients : /\ UNCHANGED storeVars
                               /\ \A b \in Actors \ {a} : call'[b] = call[b]
                               /\ \/ call[a].at = "dispatch" /\ Moved(a, "ok")
                                  \/ UNCHANGED call
        BY <1>4, InsertionEffect
    <2>2. CASE call[a].at = "dispatch" /\ Moved(a, "ok")
        BY <1>1, <2>1, <2>2, BetweenKeeps, IngestionAssumption DEF Moved, Between, Beyond
    <2>3. CASE UNCHANGED call
        BY <1>2, <2>1, <2>3 DEF svars
    <2> QED BY <2>1, <2>2, <2>3
<1>5. ASSUME NEW w \in Threads, ClaimCall(w) PROVE Kept
    <2>1. /\ UNCHANGED storeVars /\ call[w].at = "idle" /\ call'[w].at \in {"get", "del_get"}
          /\ w \in Actors /\ \A b \in Actors \ {w} : call'[b] = call[b]
        BY <1>5, ClaimEffect, IngestionAssumption
    <2> QED BY <1>1, <2>1, BetweenKeeps DEF Between, Beyond
<1>6. ASSUME NEW w \in Threads, CallReturned(w) PROVE Kept
    BY <1>1, <1>6, CallKeepsText, CallKeepsStored, IngestionAssumption DEF CallReturned
<1>7. CASE QueueStep
    BY <1>2, <1>7, QueueStepEffect DEF Wiring
<1> QED BY <1>2, <1>3, <1>4, <1>5, <1>6, <1>7, StepsOfIngestion DEF ivars

(* With workers, clients and any number of each, jobs that are retried,    *)
(* cancelled and reported or not: a document that presents itself as ready *)
(* has its chunks and what is derived from them.  No crash, and no failure *)
(* of a deletion that has removed rows: those leave it ready without them. *)
THEOREM BackgroundReadyIsComplete ==
    ASSUME DeletionsFinish, "crash" \notin Events
    PROVE  IngestionSpec => []ReadyIsComplete
<1>1. IngestionInit => StoredSoFar
    BY StoreInitially DEF IngestionInit, StoreInv
<1>2. Wiring /\ StoredSoFar /\ [IngestionNext]_ivars => StoredSoFar'
    BY PromisesKept
<1>3. StoredSoFar => ReadyIsComplete
    BY StoredMeansComplete
<1> QED BY <1>1, <1>2, <1>3, Wired, PTL DEF IngestionSpec

(* ... and an unfinished document has its text in its row or in the hands  *)
(* of a call, so that the retry of a failed job finds it.  A crash, or a   *)
(* failure of a call that has the only copy, loses it.                     *)
THEOREM BackgroundUnfinishedHasText ==
    ASSUME TextSurvives, "crash" \notin Events
    PROVE  IngestionSpec => []UnfinishedHasText
<1>1. IngestionInit => TextIsCarried
    BY StoreInitially DEF IngestionInit, StoreInv
<1>2. Wiring /\ TextIsCarried /\ [IngestionNext]_ivars => TextIsCarried'
    BY PromisesKept
<1>3. TextIsCarried => UnfinishedHasText
    BY CarriedMeansHeld
<1> QED BY <1>1, <1>2, <1>3, Wired, PTL DEF IngestionSpec
=============================================================================
