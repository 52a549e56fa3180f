------------------------------ MODULE JobQueue ------------------------------
(***************************************************************************)
(* The background job queue of LKOS: the rows of table `jobs`, the worker  *)
(* threads of every engine opened on the database file, and the calls that *)
(* add, cancel, claim, settle and recover jobs.                            *)
(*                                                                         *)
(* Each SQL statement commits on its own, except the claim, which is one   *)
(* immediate transaction; an action below is therefore one statement (or   *)
(* one transaction) together with the thread-local code around it.  What a *)
(* job does while it runs is abstracted to its outcome; module Ingestion   *)
(* gives it back for documents.                                            *)
(***************************************************************************)
EXTENDS Naturals

CONSTANTS
    Engines,      \* Lkos handles opened on one database file
    Threads,      \* the worker threads of all engines
    Home,         \* Home[w] is the engine that spawned thread w
    Kinds,        \* the job kinds that are enqueued
    MaxJobs,      \* bound: rows ever inserted into `jobs`
    MaxAttempts   \* jobs.max_attempts

(* A job of kind reembed_stale has its target model in its payload, "" if  *)
(* it names none.  Those with any other target than the active model are   *)
(* "reembed_other" here, because their sweep need not end.                 *)
AllKinds == {"process_document", "delete_document", "train_semantic",
             "reembed_stale", "reembed_other"}

ASSUME QueueAssumption ==
    /\ Home \in [Threads -> Engines]
    /\ Kinds \subseteq AllKinds
    /\ MaxJobs \in Nat
    /\ MaxAttempts \in Nat \ {0}

VARIABLES
    status,       \* status[j]: column `status`, "none" before the INSERT
    kind,         \* kind[j]: column `kind`
    attempts,     \* attempts[j]: column `attempts`
    hidden,       \* the jobs whose `run_at` is still in the future
    lastId,       \* the AUTOINCREMENT counter
    engine,       \* engine[e]: where the handle is in its life
    pc,           \* pc[w]: where thread w is in the worker loop
    job,          \* job[w]: the job thread w took, 0 when it has none
    outcome,      \* outcome[w]: the result of that job's work
    seen,         \* seen[w]: the `attempts` read before the settling UPDATE
    lost          \* history: running rows whose thread went on without settling

rowVars    == <<status, kind, attempts, hidden, lastId>>
threadVars == <<pc, job, outcome, seen>>
vars == <<rowVars, engine, threadVars, lost>>

Jobs == 1..MaxJobs

Priority == [delete_document |-> 1, train_semantic |-> 3, reembed_stale |-> 4,
             reembed_other |-> 4, process_document |-> 5]

Sweeps == {"reembed_stale", "reembed_other"}

Terminal == {"done", "failed", "cancelled"}

(* The program counters at which a thread owns the job it claimed. *)
Working == {"work", "loop", "batch", "report", "settle"}
Holds(w) == pc[w] \in Working

ThreadsOf(e) == {w \in Threads : Home[w] = e}

TypeOK ==
    /\ status \in [Jobs -> {"none", "pending", "running"} \cup Terminal]
    /\ kind \in [Jobs -> AllKinds]
    /\ attempts \in [Jobs -> Nat]
    /\ hidden \in SUBSET Jobs
    /\ lastId \in 0..MaxJobs
    /\ engine \in [Engines -> {"down", "open", "closing", "closed"}]
    /\ pc \in [Threads -> {"poll", "claim", "exited"} \cup Working]
    /\ job \in [Threads -> Jobs \cup {0}]
    /\ outcome \in [Threads -> {"none", "ok", "err"}]
    /\ seen \in [Threads -> Nat]
    /\ lost \in SUBSET Jobs

Init ==
    /\ status = [j \in Jobs |-> "none"]
    /\ kind = [j \in Jobs |-> "process_document"]
    /\ attempts = [j \in Jobs |-> 0]
    /\ hidden = {}
    /\ lastId = 0
    /\ engine = [e \in Engines |-> "down"]
    /\ pc = [w \in Threads |-> "exited"]
    /\ job = [w \in Threads |-> 0]
    /\ outcome = [w \in Threads |-> "none"]
    /\ seen = [w \in Threads |-> 0]
    /\ lost = {}

-----------------------------------------------------------------------------
(* Client calls on the queue. *)

(* enqueue_job: any live handle inserts a pending row, due at once. *)
Enqueue(e, k) ==
    /\ engine[e] # "down"
    /\ lastId < MaxJobs
    /\ lastId' = lastId + 1
    /\ status' = [status EXCEPT ![lastId + 1] = "pending"]
    /\ kind' = [kind EXCEPT ![lastId + 1] = k]
    /\ UNCHANGED <<attempts, hidden, engine, threadVars, lost>>

(* Mutant: the UPDATE of cancel_job without its status condition. *)
CancelAnyJob(j) ==
    /\ status[j] # "none"
    /\ status' = [status EXCEPT ![j] = "cancelled"]
    /\ UNCHANGED <<kind, attempts, hidden, lastId, engine, threadVars, lost>>

(* cancel_job: the UPDATE matches pending rows only, so a job that runs    *)
(* goes on.                                                                *)
CancelJob(j) ==
    /\ status[j] = "pending"
    /\ status' = [status EXCEPT ![j] = "cancelled"]
    /\ UNCHANGED <<kind, attempts, hidden, lastId, engine, threadVars, lost>>

(* The clock reaches the job's `run_at` (module RetryClock has the clock). *)
Elapse(j) ==
    /\ j \in hidden
    /\ hidden' = hidden \ {j}
    /\ UNCHANGED <<status, kind, attempts, lastId, engine, threadVars, lost>>

-----------------------------------------------------------------------------
(* The life of an engine. *)

(* Mutant: no recovery on open. *)
RecoverNothing == status

(* recover_running_jobs: every running row, whoever runs it, is pending again. *)
Recovered == [j \in Jobs |-> IF status[j] = "running" THEN "pending"
                             ELSE status[j]]

(* Lkos::open: recover, then start the workers. *)
Open(e) ==
    /\ engine[e] \in {"down", "closed"}
    /\ engine' = [engine EXCEPT ![e] = "open"]
    /\ status' = Recovered
    /\ lost' = {}
    /\ pc' = [w \in Threads |-> IF Home[w] = e THEN "poll" ELSE pc[w]]
    /\ UNCHANGED <<kind, attempts, hidden, lastId, job, outcome, seen>>

(* Lkos::close, first half: raise the shutdown flag. *)
BeginClose(e) ==
    /\ engine[e] \in {"open", "closed"}
    /\ engine' = [engine EXCEPT ![e] = "closing"]
    /\ UNCHANGED <<rowVars, threadVars, lost>>

(* Every pending job, whoever enqueued it. *)
cancel_pending == [j \in Jobs |-> IF status[j] = "pending" THEN "cancelled"
                                 ELSE status[j]]

(* Mutant: close does not join the workers. *)
CloseWithoutJoin(e) ==
    /\ engine[e] = "closing"
    /\ engine' = [engine EXCEPT ![e] = "closed"]
    /\ status' = cancel_pending
    /\ UNCHANGED <<kind, attempts, hidden, lastId, threadVars, lost>>

(* Lkos::close, second half: the workers are joined, then cancel_pending,  *)
(* whose failure, or that of opening the store for it, is ignored.         *)
FinishClose(e) ==
    /\ engine[e] = "closing"
    /\ \A w \in ThreadsOf(e) : pc[w] = "exited"
    /\ engine' = [engine EXCEPT ![e] = "closed"]
    /\ status' \in {cancel_pending, status}
    /\ UNCHANGED <<kind, attempts, hidden, lastId, threadVars, lost>>

(* The process dies: its threads are gone, the rows stay as they were. *)
Crash(e) ==
    /\ engine[e] \in {"open", "closing"}
    /\ engine' = [engine EXCEPT ![e] = "down"]
    /\ pc' = [w \in Threads |-> IF Home[w] = e THEN "exited" ELSE pc[w]]
    /\ job' = [w \in Threads |-> IF Home[w] = e THEN 0 ELSE job[w]]
    /\ outcome' = [w \in Threads |-> IF Home[w] = e THEN "none" ELSE outcome[w]]
    /\ seen' = [w \in Threads |-> IF Home[w] = e THEN 0 ELSE seen[w]]
    /\ UNCHANGED <<rowVars, lost>>

-----------------------------------------------------------------------------
(* The worker loop of start_workers, one action per step of a thread. *)

(* Mutant: the loop does not look at the shutdown flag. *)
LoopForever(w) ==
    /\ pc[w] = "poll"
    /\ pc' = [pc EXCEPT ![w] = "claim"]
    /\ UNCHANGED <<rowVars, engine, job, outcome, seen, lost>>

(* The loop head reads the shutdown flag, once per round. *)
LoopHead(w) ==
    /\ pc[w] = "poll"
    /\ pc' = [pc EXCEPT ![w] = IF engine[Home[w]] = "open" THEN "claim"
                               ELSE "exited"]
    /\ UNCHANGED <<rowVars, engine, job, outcome, seen, lost>>

(* Mutant: the claim does not look at the status. *)
AnyDueJob == {j \in Jobs : status[j] \in {"pending", "running"} /\ j \notin hidden}

Runnable == {j \in Jobs : status[j] = "pending" /\ j \notin hidden}

(* ORDER BY priority ASC, id ASC *)
Before(i, j) ==
    \/ Priority[kind[i]] < Priority[kind[j]]
    \/ Priority[kind[i]] = Priority[kind[j]] /\ i < j

(* claim_next_atomic: one immediate transaction selects and marks the row. *)
Claim(w) ==
    /\ pc[w] = "claim"
    /\ \E j \in Runnable :
        /\ \A i \in Runnable \ {j} : Before(j, i)
        /\ status' = [status EXCEPT ![j] = "running"]
        /\ job' = [job EXCEPT ![w] = j]
        /\ pc' = [pc EXCEPT ![w] = IF kind[j] \in Sweeps THEN "loop" ELSE "work"]
    /\ UNCHANGED <<kind, attempts, hidden, lastId, engine, outcome, seen, lost>>

(* Nothing is due, or the store cannot be opened, or the claim fails:      *)
(* sleep, then the loop head again.                                        *)
Idle(w) ==
    /\ pc[w] = "claim"
    /\ pc' = [pc EXCEPT ![w] = "poll"]
    /\ UNCHANGED <<rowVars, engine, job, outcome, seen, lost>>

(* The work of the job ends, well or not. *)
Finish(w, o) ==
    /\ pc' = [pc EXCEPT ![w] = "report"]
    /\ outcome' = [outcome EXCEPT ![w] = o]
    /\ UNCHANGED <<rowVars, engine, job, seen, lost>>

Work(w) ==
    /\ pc[w] = "work"
    /\ \E o \in {"ok", "err"} : Finish(w, o)

(* A training job that trained goes on to re-embed the stale chunks. *)
Trained(w) ==
    /\ pc[w] = "work"
    /\ kind[job[w]] = "train_semantic"
    /\ pc' = [pc EXCEPT ![w] = "loop"]
    /\ UNCHANGED <<rowVars, engine, job, outcome, seen, lost>>

(* reembed_stale_chunks, head of its loop: give up if the row says         *)
(* cancelled, otherwise take the next batch of stale chunks.               *)
StopCancelled(w) ==
    /\ pc[w] = "loop"
    /\ status[job[w]] = "cancelled"
    /\ Finish(w, "err")

StartBatch(w) ==
    /\ pc[w] = "loop"
    /\ status[job[w]] # "cancelled"
    /\ pc' = [pc EXCEPT ![w] = "batch"]
    /\ UNCHANGED <<rowVars, engine, job, outcome, seen, lost>>

(* A full batch is followed by another round ... *)
NextBatch(w) ==
    /\ pc[w] = "batch"
    /\ pc' = [pc EXCEPT ![w] = "loop"]
    /\ UNCHANGED <<rowVars, engine, job, outcome, seen, lost>>

(* ... and a short one ends the sweep, as a failure does.  The updates of  *)
(* a sweep for another model leave its chunks stale, so that with a batch  *)
(* or more of them it may never meet a short one.                          *)
LastBatch(w) ==
    /\ pc[w] = "batch"
    /\ \E o \in {"ok", "err"} : Finish(w, o)

(* complete and fail_and_maybe_retry first read `attempts` ... *)
ReadAttempts(w) ==
    /\ pc[w] = "report"
    /\ seen' = [seen EXCEPT ![w] = attempts[job[w]]]
    /\ pc' = [pc EXCEPT ![w] = "settle"]
    /\ UNCHANGED <<rowVars, engine, job, outcome, lost>>

(* Mutants: a status of its own for dead letters; one attempt too many.    *)
DeadLetterStatus(w) ==
    IF outcome[w] = "ok" THEN "done"
    ELSE IF seen[w] + 1 >= MaxAttempts THEN "dead" ELSE "pending"

OneAttemptTooMany(w) ==
    IF outcome[w] = "ok" THEN "done"
    ELSE IF seen[w] + 1 > MaxAttempts THEN "failed" ELSE "pending"

(* What fail_and_maybe_retry and complete write, from the attempts read. *)
NewStatus(w) ==
    IF outcome[w] = "ok" THEN "done"
    ELSE IF seen[w] + 1 >= MaxAttempts THEN "failed" ELSE "pending"

Drop(w) ==
    /\ pc' = [pc EXCEPT ![w] = "poll"]
    /\ job' = [job EXCEPT ![w] = 0]
    /\ outcome' = [outcome EXCEPT ![w] = "none"]
    /\ seen' = [seen EXCEPT ![w] = 0]

(* Mutant: a retry is not counted. *)
RetryUncounted(w) ==
    /\ pc[w] = "settle"
    /\ status' = [status EXCEPT ![job[w]] = NewStatus(w)]
    /\ hidden' = IF NewStatus(w) = "pending" THEN hidden \cup {job[w]}
                 ELSE hidden \ {job[w]}
    /\ lost' = lost \ {job[w]}
    /\ Drop(w)
    /\ UNCHANGED <<attempts, kind, lastId, engine>>

(* ... and then update the row by id, whatever its status is by now. *)
Settle(w) ==
    /\ pc[w] = "settle"
    /\ status' = [status EXCEPT ![job[w]] = NewStatus(w)]
    /\ attempts' = [attempts EXCEPT ![job[w]] = seen[w] + 1]
    /\ hidden' = IF NewStatus(w) = "pending" THEN hidden \cup {job[w]}
                 ELSE hidden \ {job[w]}
    /\ lost' = lost \ {job[w]}
    /\ Drop(w)
    /\ UNCHANGED <<kind, lastId, engine>>

(* The store cannot be opened or the statement fails: both are ignored and *)
(* the thread goes on to its next round.                                   *)
LoseReport(w) ==
    /\ pc[w] \in {"report", "settle"}
    /\ lost' = lost \cup {job[w]}
    /\ Drop(w)
    /\ UNCHANGED <<rowVars, engine>>

-----------------------------------------------------------------------------
Worker(w) ==
    \/ LoopHead(w) \/ Claim(w) \/ Idle(w)
    \/ Work(w) \/ Trained(w)
    \/ StopCancelled(w) \/ StartBatch(w) \/ NextBatch(w) \/ LastBatch(w)
    \/ ReadAttempts(w) \/ Settle(w) \/ LoseReport(w)

Lifecycle(e) == Open(e) \/ BeginClose(e) \/ FinishClose(e) \/ Crash(e)

Next ==
    \/ \E e \in Engines, k \in Kinds : Enqueue(e, k)
    \/ \E j \in Jobs : CancelJob(j) \/ Elapse(j)
    \/ \E e \in Engines : Lifecycle(e)
    \/ \E w \in Threads : Worker(w)

Spec == Init /\ [][Next]_vars

(* A sweep for the active model comes to a short batch in the end.         *)
LastBatchOfActive(w) == LastBatch(w) /\ kind[job[w]] # "reembed_other"

(* The scheduler runs every live thread, time passes, the work of a job    *)
(* ends unless it sweeps for another model, a claim that is possible again *)
(* and again does not fail each time, and a close that has begun goes on.  *)
(* Nothing obliges a client to call anything, nor the process to crash.    *)
Fairness ==
    /\ \A w \in Threads :
        /\ WF_vars(LoopHead(w) \/ Idle(w)) /\ SF_vars(Claim(w))
        /\ WF_vars(Work(w) \/ StopCancelled(w) \/ StartBatch(w) \/ NextBatch(w))
        /\ SF_vars(LastBatchOfActive(w))
        /\ WF_vars(ReadAttempts(w) \/ Settle(w))
    /\ \A j \in Jobs : WF_vars(Elapse(j))
    /\ \A e \in Engines : WF_vars(FinishClose(e))

FairSpec == Spec /\ Fairness

-----------------------------------------------------------------------------
(* Properties. *)

(* No two threads execute the same job at the same time: the claim is      *)
(* atomic and only a settled or recovered row becomes claimable again.     *)
ExclusiveRun ==
    \A v, w \in Threads : Holds(v) /\ Holds(w) /\ job[v] = job[w] => v = w

(* A job an engine is up to run is either pending, settled, executed by a  *)
(* thread, or one whose report was lost: recovery strands none.            *)
NoStrandedJob ==
    \A j \in Jobs :
        status[j] = "running" /\ (\A e \in Engines : engine[e] = "open")
            => j \in lost \/ \E w \in Threads : Holds(w) /\ job[w] = j

(* When close returns, no job of the database is still being executed, even *)
(* if a thread passed the shutdown check just before the flag was raised.  *)
ClosedMeansIdle ==
    (\A e \in Engines : engine[e] = "closed")
        => \A j \in Jobs : status[j] = "running" => j \in lost

(* The attempts column counts what it should: a job that may still run has *)
(* an attempt left, a dead-lettered one has used them all.                 *)
AttemptsAccounted ==
    \A j \in Jobs :
        /\ status[j] \in {"pending", "running"} => attempts[j] < MaxAttempts
        /\ status[j] = "failed" => attempts[j] = MaxAttempts
        /\ status[j] = "done" => attempts[j] >= 1

(* A job that is done, dead-lettered or cancelled never runs again, and no *)
(* late report of a thread overwrites it.                                  *)
SettledIsFinal ==
    [][\A j \in Jobs : status[j] \in Terminal => status'[j] = status[j]]_vars

Stranded(j) ==
    status[j] = "running" /\ \A w \in Threads : ~(Holds(w) /\ job[w] = j)

EnginesRest ==
    /\ \E e \in Engines : <>[](engine[e] = "open")
    /\ \A e \in Engines : <>[](engine[e] = "open") \/ <>[](engine[e] # "open")

(* No worker sweeps for another model than the active one without end. *)
NoEndlessSweep ==
    \A w \in Threads : []<>~(Holds(w) /\ kind[job[w]] = "reembed_other")

(* Once engines are no longer opened, closed or killed and one of them     *)
(* stays open, every pending job is settled, even if another engine on the *)
(* file stole it before, unless its report was lost, its engine died or a  *)
(* worker sweeps for ever.                                                 *)
PendingSettles ==
    EnginesRest /\ NoEndlessSweep =>
        \A j \in Jobs :
            status[j] = "pending" ~> status[j] \in Terminal \/ Stranded(j)

(* A close that has begun returns, unless the process dies or one of its   *)
(* workers sweeps for ever: the join waits for the jobs in flight, even    *)
(* those that were requeued or cancelled under their worker.               *)
CloseReturns ==
    \A e \in Engines :
        (\A w \in ThreadsOf(e) : []<>~(Holds(w) /\ kind[job[w]] = "reembed_other"))
            => (engine[e] = "closing" ~> engine[e] # "closing")
-----------------------------------------------------------------------------
(* The inductive invariant of one engine, part by part. *)

OneEngine == \A e, f \in Engines : e = f

(* A thread that works has a job to work on. *)
HoldsAJob == \A w \in Threads : Holds(w) => job[w] \in Jobs

(* The row of a job that is worked on says running, and its report is due. *)
HeldIsRunning ==
    \A w \in Threads : Holds(w) =>
        /\ status[job[w]] = "running"
        /\ job[w] \notin lost

(* An engine that is down or closed has no thread left in the loop. *)
GoneEngineHasNoThreads ==
    \A w \in Threads : engine[Home[w]] \in {"down", "closed"} => pc[w] = "exited"

(* Nobody else settles the job between the read of `attempts` and the UPDATE. *)
SeenIsCurrent ==
    \A w \in Threads : pc[w] = "settle" => seen[w] = attempts[job[w]]

LostIsRunning == \A j \in lost : status[j] = "running"

(* The rows beyond the AUTOINCREMENT counter are blank, the others are not. *)
FreshRows ==
    \A j \in Jobs : /\ status[j] = "none" <=> j > lastId
                    /\ status[j] = "none" => attempts[j] = 0

RunningIsHeld ==
    (\A e \in Engines : engine[e] # "down")
        => \A j \in Jobs : status[j] = "running" =>
              j \in lost \/ \E w \in Threads : Holds(w) /\ job[w] = j

(* Everything the steps of one engine preserve: from it follow all of the  *)
(* queue's safety properties, whatever the number of workers and jobs.     *)
IInv ==
    /\ TypeOK
    /\ HoldsAJob
    /\ HeldIsRunning
    /\ ExclusiveRun
    /\ GoneEngineHasNoThreads
    /\ SeenIsCurrent
    /\ LostIsRunning
    /\ FreshRows
    /\ AttemptsAccounted
    /\ RunningIsHeld

(* The threads that execute each job; jobs and their rows are themselves. *)
Executors == [j \in Jobs |-> {w \in Threads : Holds(w) /\ job[w] = j}]

Promise == INSTANCE JobLifecycle
    WITH Job <- Jobs, Thread <- Threads, MaxTries <- MaxAttempts,
         state <- status, tries <- attempts, executors <- Executors

(* With one engine, every step of the queue is a step of JobLifecycle or   *)
(* leaves its variables alone: jobs are executed and settled one at a time.*)
ImplementsLifecycle == Promise!Spec
=============================================================================
