------------------------------ MODULE Ingestion ------------------------------
(***************************************************************************)
(* Background ingestion: the job queue and the document store composed.    *)
(* With synchronous_ingestion = false an ingesting call ends by enqueueing *)
(* a process_document job, and a worker that claims a job makes the call   *)
(* the job's payload names.  One process holds the engine; the threads of  *)
(* the application (Clients) and the workers (Threads) interleave at every *)
(* SQL statement, and the process may die between any two of them.         *)
(***************************************************************************)
EXTENDS JobQueue, DocumentStore

CONSTANTS
    Clients,      \* the threads of the application that make calls
    ClientCalls,  \* which calls besides ingest they make
    Events        \* which events the engine's life goes through

ASSUME IngestionAssumption ==
    /\ Actors = Threads \cup Clients
    /\ Threads \cap Clients = {}
    /\ ClientCalls \subseteq {"delete", "process", "enqueue_delete", "cancel"}
    /\ Events \subseteq {"close", "crash", "lose_report"}
    /\ Kinds = {"process_document", "delete_document"}
    /\ OneEngine

VARIABLE payload    \* payload[j]: the document in the payload of job j

qvars == vars
ivars == <<vars, svars, payload>>

IngestionInit ==
    /\ Init
    /\ StoreInit
    /\ payload = [j \in Jobs |-> 0]

Alive == \A e \in Engines : engine[e] # "down"

-----------------------------------------------------------------------------
(* Steps of the queue that leave the documents alone. *)
QueueOnly(A) == A /\ UNCHANGED <<svars, payload>>

(* Steps of a call that leave the queue alone. *)
StoreOnly(A) == A /\ UNCHANGED <<vars, payload>>

(* Insert a job row for document d. *)
EnqueueFor(k, d) ==
    /\ \E e \in Engines : Enqueue(e, k)
    /\ payload' = [payload EXCEPT ![lastId + 1] = d]

(* Mutant: the text is stored but no job is enqueued. *)
DispatchForgotten(a) ==
    /\ At(a, "dispatch")
    /\ Goto(a, "ok")
    /\ UNCHANGED <<vars, storeVars, payload>>

(* enqueue_process_document ends an ingesting call in background mode. *)
Dispatch(a) ==
    /\ At(a, "dispatch")
    /\ EnqueueFor("process_document", call[a].doc)
    /\ Goto(a, "ok")
    /\ UNCHANGED storeVars

(* enqueue_delete_document, a call of the application. *)
EnqueueDelete(a, d) ==
    /\ At(a, "idle")
    /\ EnqueueFor("delete_document", d)
    /\ UNCHANGED svars

(* A worker claims a job and begins the call it asks for. *)
ClaimCall(w) ==
    /\ At(w, "idle")
    /\ Claim(w)
    /\ call' = [call EXCEPT ![w] =
                   Call(IF kind[job'[w]] = "process_document" THEN "get"
                        ELSE "del_get",
                        payload[job'[w]], NoContent)]
    /\ UNCHANGED <<storeVars, payload>>

(* Mutants: every call counts as a success; the job is dropped unreported. *)
ErrorsIgnored(w) ==
    /\ pc[w] = "work"
    /\ call[w].at \in {"ok", "err"}
    /\ Finish(w, "ok")
    /\ Return(w)
    /\ UNCHANGED payload

ResultDropped(w) ==
    /\ pc[w] = "work"
    /\ call[w].at \in {"ok", "err"}
    /\ Drop(w)
    /\ Return(w)
    /\ UNCHANGED <<rowVars, engine, lost, payload>>

(* The call returned: its result is the outcome of the job. *)
CallReturned(w) ==
    /\ pc[w] = "work"
    /\ call[w].at \in {"ok", "err"}
    /\ Finish(w, call[w].at)
    /\ Return(w)
    /\ UNCHANGED payload

(* The process dies with every call in it. *)
ProcessDies(e) ==
    /\ Crash(e)
    /\ call' = [a \in Actors |-> NoCall]
    /\ UNCHANGED <<storeVars, payload>>

-----------------------------------------------------------------------------
ClientStep(a) ==
    /\ Alive
    /\ \/ StoreOnly(StartIngest(a) \/ CallStep(a) \/ Return(a))
       \/ Dispatch(a)

ClientOption(a) ==
    /\ Alive
    /\ \/ "delete" \in ClientCalls /\ StoreOnly(StartDelete(a))
       \/ "process" \in ClientCalls /\ StoreOnly(StartProcess(a))
       \/ "enqueue_delete" \in ClientCalls
              /\ \E d \in 1..lastDoc : EnqueueDelete(a, d)
       \/ "cancel" \in ClientCalls
              /\ QueueOnly(\E j \in Jobs : CancelJob(j))

WorkerStep(w) ==
    \/ QueueOnly(LoopHead(w) \/ Idle(w) \/ ReadAttempts(w) \/ Settle(w))
    \/ ClaimCall(w)
    \/ StoreOnly(pc[w] = "work" /\ CallStep(w))
    \/ CallReturned(w)

EngineStep(e) ==
    \/ QueueOnly(Open(e) \/ FinishClose(e))
    \/ "close" \in Events /\ QueueOnly(BeginClose(e))
    \/ "crash" \in Events /\ ProcessDies(e)

IngestionNext ==
    \/ \E a \in Clients : ClientStep(a) \/ ClientOption(a)
    \/ \E w \in Threads : WorkerStep(w)
    \/ \E w \in Threads : "lose_report" \in Events /\ QueueOnly(LoseReport(w))
    \/ \E e \in Engines : EngineStep(e)
    \/ \E j \in Jobs : QueueOnly(Elapse(j))

IngestionSpec == IngestionInit /\ [][IngestionNext]_ivars

(* Live threads run, a claim that is possible again and again does not     *)
(* fail each time, a call that began goes on, and time passes.             *)
IngestionFairness ==
    /\ \A w \in Threads : WF_ivars(WorkerStep(w)) /\ SF_ivars(ClaimCall(w))
    /\ \A a \in Clients :
          WF_ivars(Alive /\ (StoreOnly(CallStep(a) \/ Return(a)) \/ Dispatch(a)))
    /\ \A j \in Jobs : WF_ivars(QueueOnly(Elapse(j)))

IngestionFairSpec == IngestionSpec /\ IngestionFairness

-----------------------------------------------------------------------------
(* Properties. *)

(* What the queue says of a job is true of its document: a done            *)
(* process_document job left its document ready or it has been deleted,    *)
(* a done delete_document job left no document.                            *)
DoneIsTrue ==
    \A j \in Jobs : status[j] = "done" =>
        \/ payload[j] \notin rows
        \/ kind[j] = "process_document" /\ readiness[payload[j]] \in Queryable

Waiting(j) == status[j] \in {"pending", "running"}

(* Nobody loses a document silently: one whose text is still in its row    *)
(* has a job that will take it, or the ingesting call is about to enqueue  *)
(* it.                                                                     *)
TextHasJob ==
    \A d \in pendingText :
        \/ \E j \in Jobs : payload[j] = d /\ kind[j] = "process_document" /\ Waiting(j)
        \/ \E a \in Clients : AboutDoc(a, d) /\ call[a].at = "dispatch"

(* Every ingested document becomes ready unless it is deleted (in a system *)
(* that stays open: closing cancels the jobs that wait).                   *)
IngestedBecomesReady ==
    \A d \in DocIds : d \in rows ~> d \notin rows \/ readiness[d] \in Queryable

(* The queue of the composed system is the queue of JobQueue. *)
ImplementsQueue == Spec
=============================================================================
