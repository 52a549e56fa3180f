--------------------------- MODULE JobQueueProofs ---------------------------
(* Theorems about JobQueue: typing for any number of engines, and, for one *)
(* engine with any number of threads and jobs, the inductive invariant and *)
(* what follows from it.                                                   *)
EXTENDS JobQueue, TLAPS

Typing == TypeOK /\ HoldsAJob

(* Every step keeps every variable in its type, whatever the engines do. *)
LEMMA TypingStep == Typing /\ [Next]_vars => Typing'
<1> USE QueueAssumption DEF Typing, TypeOK, HoldsAJob, Jobs, AllKinds, Terminal,
                            Working, Holds
<1> SUFFICES ASSUME Typing, [Next]_vars PROVE Typing'
    OBVIOUS
<1>1. ASSUME NEW e \in Engines, NEW k \in Kinds, Enqueue(e, k)
      PROVE Typing'
    BY <1>1 DEF Enqueue, threadVars
<1>2. ASSUME NEW j \in Jobs, CancelJob(j) PROVE Typing'
    BY <1>2 DEF CancelJob, threadVars
<1>3. ASSUME NEW j \in Jobs, Elapse(j) PROVE Typing'
    BY <1>3 DEF Elapse, threadVars
<1>4. ASSUME NEW e \in Engines, Lifecycle(e) PROVE Typing'
    <2>1. CASE Open(e)
        BY <2>1 DEF Open, Recovered
    <2>2. CASE BeginClose(e)
        BY <2>2 DEF BeginClose, rowVars, threadVars
    <2>3. CASE FinishClose(e)
        BY <2>3 DEF FinishClose, cancel_pending, threadVars
    <2>4. CASE Crash(e)
        BY <2>4 DEF Crash, rowVars
    <2> QED BY <1>4, <2>1, <2>2, <2>3, <2>4 DEF Lifecycle
<1>5. ASSUME NEW w \in Threads, Worker(w) PROVE Typing'
    <2>1. CASE LoopHead(w)
        BY <2>1 DEF LoopHead, rowVars
    <2>2. CASE Claim(w)
        BY <2>2 DEF Claim, Runnable
    <2>3. CASE Idle(w)
        BY <2>3 DEF Idle, rowVars
    <2>4. CASE Work(w)
        BY <2>4 DEF Work, Finish, rowVars
    <2>5. CASE Trained(w)
        BY <2>5 DEF Trained, rowVars
    <2>6. CASE StopCancelled(w)
        BY <2>6 DEF StopCancelled, Finish, rowVars
    <2>12. CASE StartBatch(w)
        BY <2>12 DEF StartBatch, rowVars
    <2>7. CASE NextBatch(w)
        BY <2>7 DEF NextBatch, rowVars
    <2>8. CASE LastBatch(w)
        BY <2>8 DEF LastBatch, Finish, rowVars
    <2>9. CASE ReadAttempts(w)
        BY <2>9 DEF ReadAttempts, rowVars
    <2>10. CASE Settle(w)
        <3>1. NewStatus(w) \in {"done", "failed", "pending"}
            BY DEF NewStatus
        <3>2. pc[w] \in Working /\ job[w] \in Jobs
            BY <2>10 DEF Settle
        <3>4. status' \in [Jobs -> {"none", "pending", "running"} \cup Terminal]
            BY <2>10, <3>1, <3>2 DEF Settle
        <3>5. attempts' \in [Jobs -> Nat]
            <4>1. seen[w] + 1 \in Nat
                OBVIOUS
            <4> QED BY <2>10, <3>2, <4>1 DEF Settle
        <3>7. hidden' \in SUBSET Jobs
            BY <2>10, <3>2 DEF Settle
        <3>6. TypeOK'
            BY <2>10, <3>4, <3>5, <3>7 DEF Settle, Drop
        <3>3. HoldsAJob'
            BY <2>10 DEF Settle, Drop
        <3> QED BY <3>3, <3>6
    <2>11. CASE LoseReport(w)
        BY <2>11 DEF LoseReport, Drop, rowVars
    <2> QED BY <1>5, <2>1, <2>2, <2>3, <2>4, <2>5, <2>6, <2>7, <2>8, <2>9,
               <2>10, <2>11, <2>12 DEF Worker
<1>6. CASE UNCHANGED vars
    BY <1>6 DEF vars, rowVars, threadVars
<1> QED BY <1>1, <1>2, <1>3, <1>4, <1>5, <1>6 DEF Next

(* A step that leaves rows and engines alone, and changes who holds what   *)
(* for nobody, keeps every part of the invariant about holding.            *)
LEMMA QuietStep ==
    ASSUME IInv,
           UNCHANGED <<rowVars, engine, job, outcome, seen, lost>>,
           \A v \in Threads :
               /\ Holds(v)' <=> Holds(v)
               /\ pc'[v] = "settle" <=> pc[v] = "settle"
               /\ engine[Home[v]] \in {"down", "closed"} => pc'[v] = "exited"
    PROVE  /\ HeldIsRunning' /\ ExclusiveRun' /\ GoneEngineHasNoThreads'
           /\ SeenIsCurrent' /\ LostIsRunning' /\ FreshRows'
           /\ AttemptsAccounted' /\ RunningIsHeld'
<1>1. HeldIsRunning' /\ ExclusiveRun' /\ SeenIsCurrent'
    BY DEF IInv, HeldIsRunning, ExclusiveRun, SeenIsCurrent, rowVars
<1>2. GoneEngineHasNoThreads' /\ LostIsRunning' /\ FreshRows' /\ AttemptsAccounted'
    BY DEF IInv, GoneEngineHasNoThreads, LostIsRunning, FreshRows, AttemptsAccounted,
           rowVars, Jobs
<1>3. RunningIsHeld'
    BY DEF IInv, RunningIsHeld, rowVars, Jobs
<1> QED BY <1>1, <1>2, <1>3

(* With one engine, every step keeps the inductive invariant. *)
LEMMA InductiveStep ==
    ASSUME OneEngine
    PROVE  IInv /\ [Next]_vars => IInv'
<1> USE QueueAssumption DEF OneEngine, Jobs, AllKinds, Terminal, Working, Holds
<1> SUFFICES ASSUME IInv, [Next]_vars PROVE IInv'
    OBVIOUS
<1>0. TypeOK' /\ HoldsAJob'
    BY TypingStep DEF IInv, Typing
<1> DEFINE Rest == /\ HeldIsRunning /\ ExclusiveRun /\ GoneEngineHasNoThreads
                   /\ SeenIsCurrent /\ LostIsRunning /\ FreshRows
                   /\ AttemptsAccounted /\ RunningIsHeld
<1> SUFFICES Rest'
    BY <1>0 DEF IInv
<1> USE <1>0 DEF IInv, TypeOK, HoldsAJob, HeldIsRunning, ExclusiveRun,
        GoneEngineHasNoThreads, SeenIsCurrent, LostIsRunning, FreshRows,
        AttemptsAccounted, RunningIsHeld
<1>1. ASSUME NEW e \in Engines, NEW k \in Kinds, Enqueue(e, k)
      PROVE Rest'
    BY <1>1 DEF Enqueue, threadVars
<1>2. ASSUME NEW j \in Jobs, CancelJob(j) PROVE Rest'
    BY <1>2 DEF CancelJob, threadVars
<1>3. ASSUME NEW j \in Jobs, Elapse(j) PROVE Rest'
    BY <1>3 DEF Elapse, threadVars
<1>4. ASSUME NEW e \in Engines, Lifecycle(e) PROVE Rest'
    <2>1. CASE Open(e)
        BY <2>1 DEF Open, Recovered
    <2>2. CASE BeginClose(e)
        BY <2>2 DEF BeginClose, rowVars, threadVars
    <2>3. CASE FinishClose(e)
        <3>1. CASE status' = cancel_pending
            BY <2>3, <3>1 DEF FinishClose, cancel_pending, threadVars, ThreadsOf
        <3>2. CASE status' = status
            BY <2>3, <3>2 DEF FinishClose, threadVars, ThreadsOf
        <3> QED BY <2>3, <3>1, <3>2 DEF FinishClose
    <2>4. CASE Crash(e)
        BY <2>4 DEF Crash, rowVars
    <2> QED BY <1>4, <2>1, <2>2, <2>3, <2>4 DEF Lifecycle
<1>5. ASSUME NEW w \in Threads, Worker(w) PROVE Rest'
    <2>1. CASE LoopHead(w)
        <3>1. /\ UNCHANGED <<rowVars, engine, job, outcome, seen, lost>>
              /\ pc[w] \notin Working /\ pc'[w] \notin Working
              /\ \A v \in Threads \ {w} : pc'[v] = pc[v]
              /\ engine[Home[w]] \in {"down", "closed"} => pc'[w] = "exited"
            BY <2>1 DEF LoopHead
        <3>2. \A v \in Threads :
                /\ Holds(v)' <=> Holds(v)
                /\ pc'[v] = "settle" <=> pc[v] = "settle"
                /\ engine[Home[v]] \in {"down", "closed"} => pc'[v] = "exited"
            BY <3>1
        <3> QED BY <3>1, <3>2, QuietStep
    <2>2. CASE Claim(w)
        <3>1. PICK j \in Runnable :
                /\ status' = [status EXCEPT ![j] = "running"]
                /\ job' = [job EXCEPT ![w] = j]
                /\ pc' = [pc EXCEPT ![w] = IF kind[j] \in Sweeps THEN "loop" ELSE "work"]
            BY <2>2 DEF Claim
        <3>2. j \in Jobs /\ status[j] = "pending" /\ j \notin lost
            BY DEF Runnable
        <3>3. /\ UNCHANGED <<kind, attempts, hidden, lastId, engine, outcome, seen,
                             lost>>
              /\ pc[w] = "claim"
            BY <2>2 DEF Claim
        <3>4. \A v \in Threads : Holds(v) => job[v] # j
            BY <3>2
        <3>5. /\ pc'[w] \in {"loop", "work"} /\ job'[w] = j
              /\ \A v \in Threads \ {w} : pc'[v] = pc[v] /\ job'[v] = job[v]
              /\ status'[j] = "running"
              /\ \A i \in Jobs \ {j} : status'[i] = status[i]
            BY <3>1, <3>2
        <3>9. \A v \in Threads \ {w} : Holds(v)' <=> Holds(v)
            BY <3>5
        <3>6. HeldIsRunning'
            <4> SUFFICES ASSUME NEW v \in Threads, Holds(v)'
                         PROVE  status'[job'[v]] = "running" /\ job'[v] \notin lost'
                OBVIOUS
            <4>1. CASE v = w
                BY <3>2, <3>3, <3>5, <4>1
            <4>2. CASE v # w
                <5>1. Holds(v) /\ job'[v] = job[v]
                    BY <3>5, <3>9, <4>2
                <5>2. job[v] \in Jobs /\ job[v] # j
                    BY <3>4, <5>1
                <5> QED BY <3>3, <3>5, <5>1, <5>2
            <4> QED BY <4>1, <4>2
        <3>10. ExclusiveRun'
            <4> SUFFICES ASSUME NEW u \in Threads, NEW v \in Threads,
                                Holds(u)', Holds(v)', job'[u] = job'[v], u # v
                         PROVE  FALSE
                OBVIOUS
            <4>1. CASE u # w /\ v # w
                BY <3>5, <3>9, <4>1
            <4>2. CASE u = w
                <5>1. job'[v] = job[v] /\ Holds(v)
                    BY <3>5, <3>9, <4>2
                <5> QED BY <3>4, <3>5, <4>2, <5>1
            <4>3. CASE v = w
                <5>1. job'[u] = job[u] /\ Holds(u)
                    BY <3>5, <3>9, <4>3
                <5> QED BY <3>4, <3>5, <4>3, <5>1
            <4> QED BY <4>1, <4>2, <4>3
        <3>7. GoneEngineHasNoThreads' /\ SeenIsCurrent' /\ LostIsRunning'
            <4>1. \A v \in Threads : pc'[v] = "settle" => pc[v] = "settle" /\ v # w
                BY <3>5
            <4>2. SeenIsCurrent'
                BY <3>3, <3>5, <4>1
            <4>3. GoneEngineHasNoThreads'
                BY <3>3, <3>5
            <4>4. LostIsRunning'
                BY <3>2, <3>3, <3>5
            <4> QED BY <4>2, <4>3, <4>4
        <3>8. FreshRows' /\ AttemptsAccounted'
            BY <3>2, <3>3, <3>5
        <3>11. RunningIsHeld'
            <4> SUFFICES ASSUME \A e \in Engines : engine'[e] # "down",
                                NEW i \in Jobs, status'[i] = "running", i \notin lost'
                         PROVE  \E v \in Threads : Holds(v)' /\ job'[v] = i
                OBVIOUS
            <4>1. CASE i = j
                BY <3>5, <4>1
            <4>2. CASE i # j
                <5>1. PICK v \in Threads : Holds(v) /\ job[v] = i
                    BY <3>3, <3>5, <4>2
                <5>2. v # w
                    BY <3>3, <5>1
                <5> QED BY <3>5, <3>9, <5>1, <5>2
            <4> QED BY <4>1, <4>2
        <3> QED BY <3>6, <3>7, <3>8, <3>10, <3>11
    <2>3. CASE Idle(w)
        <3>1. /\ UNCHANGED <<rowVars, engine, job, outcome, seen, lost>>
              /\ pc[w] = "claim" /\ pc'[w] = "poll"
              /\ \A v \in Threads \ {w} : pc'[v] = pc[v]
            BY <2>3 DEF Idle
        <3>2. \A v \in Threads :
                /\ Holds(v)' <=> Holds(v)
                /\ pc'[v] = "settle" <=> pc[v] = "settle"
                /\ engine[Home[v]] \in {"down", "closed"} => pc'[v] = "exited"
            BY <3>1
        <3> QED BY <3>1, <3>2, QuietStep
    <2>4. CASE Work(w)
        BY <2>4 DEF Work, Finish, rowVars
    <2>5. CASE Trained(w)
        BY <2>5 DEF Trained, rowVars
    <2>6. CASE StopCancelled(w)
        BY <2>6 DEF StopCancelled, Finish, rowVars
    <2>12. CASE StartBatch(w)
        BY <2>12 DEF StartBatch, rowVars
    <2>7. CASE NextBatch(w)
        BY <2>7 DEF NextBatch, rowVars
    <2>8. CASE LastBatch(w)
        BY <2>8 DEF LastBatch, Finish, rowVars
    <2>9. CASE ReadAttempts(w)
        BY <2>9 DEF ReadAttempts, rowVars
    <2>10. CASE Settle(w)
        BY <2>10 DEF Settle, Drop, NewStatus
    <2>11. CASE LoseReport(w)
        BY <2>11 DEF LoseReport, Drop, rowVars
    <2> QED BY <1>5, <2>1, <2>2, <2>3, <2>4, <2>5, <2>6, <2>7, <2>8, <2>9,
               <2>10, <2>11, <2>12 DEF Worker
<1>6. CASE UNCHANGED vars
    BY <1>6 DEF vars, rowVars, threadVars
<1> QED BY <1>1, <1>2, <1>3, <1>4, <1>5, <1>6 DEF Next

(* The inductive invariant holds at first. *)
LEMMA InitInvariant == Init => IInv
<1> USE QueueAssumption DEF Init, Jobs, AllKinds, Terminal, Working, Holds
<1> SUFFICES ASSUME Init PROVE IInv
    OBVIOUS
<1>1. TypeOK /\ HoldsAJob
    BY DEF TypeOK, HoldsAJob
<1>2. HeldIsRunning /\ ExclusiveRun /\ GoneEngineHasNoThreads /\ SeenIsCurrent
    BY DEF HeldIsRunning, ExclusiveRun, GoneEngineHasNoThreads, SeenIsCurrent
<1>3. LostIsRunning /\ FreshRows /\ AttemptsAccounted /\ RunningIsHeld
    BY DEF LostIsRunning, FreshRows, AttemptsAccounted, RunningIsHeld
<1> QED BY <1>1, <1>2, <1>3 DEF IInv

(* Every variable of the queue stays in its type, for any number of        *)
(* engines, threads and jobs.                                              *)
THEOREM TypeCorrect == Spec => []TypeOK
<1>1. Init => Typing
    BY InitInvariant DEF IInv, Typing
<1>2. Typing => TypeOK
    BY DEF Typing
<1> QED BY <1>1, <1>2, TypingStep, PTL DEF Spec

(* The inductive invariant holds always, when one engine has the file. *)
LEMMA Invariance == ASSUME OneEngine PROVE Spec => []IInv
<1> QED BY InitInvariant, InductiveStep, PTL DEF Spec

(* One engine never executes a job on two threads at once, however many    *)
(* threads it has and wherever it crashes.                                 *)
THEOREM ExclusiveRunHolds == ASSUME OneEngine PROVE Spec => []ExclusiveRun
<1>1. IInv => ExclusiveRun
    BY DEF IInv
<1> QED BY <1>1, Invariance, PTL

(* Attempts are counted and exhausted as the retry policy says.            *)
THEOREM AttemptsAccountedHolds ==
    ASSUME OneEngine PROVE Spec => []AttemptsAccounted
<1>1. IInv => AttemptsAccounted
    BY DEF IInv
<1> QED BY <1>1, Invariance, PTL

(* No running row of an open engine is without a thread, lost reports      *)
(* aside.                                                                  *)
THEOREM NoStrandedJobHolds == ASSUME OneEngine PROVE Spec => []NoStrandedJob
<1>1. IInv => NoStrandedJob
    BY DEF IInv, NoStrandedJob, RunningIsHeld, TypeOK
<1> QED BY <1>1, Invariance, PTL

(* After close, no job is being executed.                                  *)
THEOREM ClosedMeansIdleHolds ==
    ASSUME OneEngine PROVE Spec => []ClosedMeansIdle
<1>1. IInv => ClosedMeansIdle
    BY QueueAssumption
       DEF IInv, ClosedMeansIdle, RunningIsHeld, GoneEngineHasNoThreads, Holds, Working
<1> QED BY <1>1, Invariance, PTL

(* No step takes a job out of a final state. *)
LEMMA SettledStep ==
    IInv /\ [Next]_vars
        => [\A j \in Jobs : status[j] \in Terminal => status'[j] = status[j]]_vars
<1> USE QueueAssumption DEF IInv, TypeOK, Jobs, Terminal
<1> SUFFICES ASSUME IInv, Next, NEW j \in Jobs, status[j] \in Terminal
             PROVE  status'[j] = status[j]
    OBVIOUS
<1>1. ASSUME NEW e \in Engines, NEW k \in Kinds, Enqueue(e, k)
      PROVE status'[j] = status[j]
    BY <1>1 DEF Enqueue, FreshRows
<1>2. ASSUME NEW i \in Jobs, CancelJob(i) \/ Elapse(i) PROVE status'[j] = status[j]
    BY <1>2 DEF CancelJob, Elapse
<1>3. ASSUME NEW e \in Engines, Lifecycle(e) PROVE status'[j] = status[j]
    BY <1>3 DEF Lifecycle, Open, Recovered, BeginClose, FinishClose,
        cancel_pending, Crash, rowVars
<1>4. ASSUME NEW w \in Threads, Worker(w) PROVE status'[j] = status[j]
    <2>1. CASE Claim(w)
        BY <2>1 DEF Claim, Runnable
    <2>2. CASE Settle(w)
        BY <2>2 DEF Settle, HeldIsRunning, Holds, Working
    <2>3. CASE ~Claim(w) /\ ~Settle(w)
        BY <1>4, <2>3 DEF Worker, LoopHead, Idle, Work, Trained, StopCancelled,
           StartBatch, NextBatch, LastBatch, Finish, ReadAttempts, LoseReport, rowVars
    <2> QED BY <2>1, <2>2, <2>3
<1> QED BY <1>1, <1>2, <1>3, <1>4 DEF Next

(* A job that is done, dead-lettered or cancelled keeps that status for    *)
(* good, in one engine.                                                    *)
THEOREM SettledIsFinalHolds == ASSUME OneEngine PROVE Spec => SettledIsFinal
<1> QED BY Invariance, SettledStep, PTL DEF Spec, SettledIsFinal

-----------------------------------------------------------------------------
(* The queue of one engine implements JobLifecycle.                        *)

LEMMA ExecutorsKept ==
    ASSUME UNCHANGED <<job>>, \A w \in Threads : Holds(w)' <=> Holds(w)
    PROVE  Executors' = Executors
BY DEF Executors

(* The first state of the queue is one of the promise. *)
LEMMA RefinementInit == Init => Promise!Init
BY DEF Init, Promise!Init, Executors, Holds, Working

(* Every step of the queue is a step of the promise, or changes nothing    *)
(* the promise speaks of.                                                  *)
LEMMA RefinementStep ==
    ASSUME OneEngine
    PROVE  IInv /\ [Next]_vars => [Promise!Next]_(Promise!vars)
<1> USE QueueAssumption DEF OneEngine, IInv
<1> SUFFICES ASSUME IInv, [Next]_vars PROVE [Promise!Next]_(Promise!vars)
    OBVIOUS
<1>1. ASSUME NEW e \in Engines, NEW k \in Kinds, Enqueue(e, k)
      PROVE Promise!Next
    <2>1. lastId + 1 \in Jobs /\ status[lastId + 1] = "none"
        BY <1>1 DEF Enqueue, FreshRows, TypeOK, Jobs
    <2>2. Executors' = Executors
        BY <1>1, ExecutorsKept DEF Enqueue, threadVars, Holds
    <2>3. Promise!Submit(lastId + 1)
        BY <1>1, <2>1, <2>2 DEF Enqueue, Promise!Submit
    <2> QED BY <2>1, <2>3 DEF Promise!Next
<1>2. ASSUME NEW j \in Jobs, CancelJob(j) PROVE [Promise!Next]_(Promise!vars)
    <2>1. Executors' = Executors
        BY <1>2, ExecutorsKept DEF CancelJob, threadVars, Holds
    <2>2. status' = [i \in Jobs |-> IF i \in {j} THEN "cancelled" ELSE status[i]]
        BY <1>2 DEF CancelJob, TypeOK
    <2>3. Promise!Withdraw({j})
        BY <1>2, <2>1, <2>2 DEF CancelJob, Promise!Withdraw
    <2> QED BY <2>3 DEF Promise!Next
<1>3. ASSUME NEW j \in Jobs, Elapse(j) PROVE UNCHANGED Promise!vars
    BY <1>3, ExecutorsKept DEF Elapse, threadVars, Holds, Promise!vars
<1>4. ASSUME NEW e \in Engines, Lifecycle(e) PROVE [Promise!Next]_(Promise!vars)
    <2>1. CASE Open(e)
        <3>1. \A w \in Threads : Home[w] = e
            BY DEF TypeOK
        <3>2. \A w \in Threads : ~Holds(w) /\ ~Holds(w)'
            BY <2>1, <3>1 DEF Open, GoneEngineHasNoThreads, Holds, Working, TypeOK
        <3>3. Executors = [j \in Jobs |-> {}] /\ Executors' = Executors
            BY <3>2 DEF Executors
        <3>4. Promise!Requeue
            BY <2>1, <3>3 DEF Open, Recovered, Promise!Requeue
        <3> QED BY <3>4 DEF Promise!Next
    <2>2. CASE BeginClose(e)
        BY <2>2, ExecutorsKept DEF BeginClose, rowVars, threadVars, Holds, Promise!vars
    <2>3. CASE FinishClose(e)
        <3> DEFINE J == {j \in Jobs : status[j] = "pending"}
        <3>1. Executors' = Executors
            BY <2>3, ExecutorsKept DEF FinishClose, threadVars, Holds
        <3>2. CASE status' = cancel_pending
            <4>1. Promise!Withdraw(J)
                BY <2>3, <3>1, <3>2 DEF FinishClose, cancel_pending, Promise!Withdraw
            <4> QED BY <4>1 DEF Promise!Next
        <3>3. CASE status' = status
            BY <2>3, <3>1, <3>3 DEF FinishClose, Promise!vars
        <3> QED BY <2>3, <3>2, <3>3 DEF FinishClose
    <2>4. CASE Crash(e)
        <3>1. \A w \in Threads : ~Holds(w)'
            BY <2>4 DEF Crash, TypeOK, Holds, Working
        <3>2. Executors' = [j \in Jobs |-> {}]
            BY <3>1 DEF Executors
        <3>3. Promise!LoseExecutors(Jobs)
            BY <2>4, <3>2 DEF Crash, rowVars, Promise!LoseExecutors
        <3> QED BY <3>3 DEF Promise!Next
    <2> QED BY <1>4, <2>1, <2>2, <2>3, <2>4 DEF Lifecycle
<1>5. ASSUME NEW w \in Threads, Worker(w) PROVE [Promise!Next]_(Promise!vars)
    <2>1. CASE Claim(w)
        <3>1. PICK j \in Runnable :
                /\ status' = [status EXCEPT ![j] = "running"]
                /\ job' = [job EXCEPT ![w] = j]
                /\ pc' = [pc EXCEPT ![w] = IF kind[j] \in Sweeps THEN "loop" ELSE "work"]
            BY <2>1 DEF Claim
        <3>2. j \in Jobs /\ status[j] = "pending"
            BY DEF Runnable
        <3>3. Executors[j] = {}
            BY <3>2 DEF Executors, HeldIsRunning
        <3>4. \A v \in Threads \ {w} : /\ Holds(v)' <=> Holds(v)
                                       /\ job'[v] = job[v]
            BY <3>1 DEF TypeOK, Holds
        <3>5. ~Holds(w) /\ Holds(w)' /\ job'[w] = j
            BY <2>1, <3>1 DEF Claim, TypeOK, Holds, Working
        <3>6. Executors' = [Executors EXCEPT ![j] = {w}]
            <4>1. ASSUME NEW i \in Jobs, i # j PROVE Executors'[i] = Executors[i]
                BY <3>4, <3>5, <4>1 DEF Executors
            <4>2. Executors'[j] = {w}
                BY <3>2, <3>3, <3>4, <3>5 DEF Executors
            <4> QED BY <4>1, <4>2 DEF Executors
        <3>7. Promise!Take(j, w)
            BY <2>1, <3>1, <3>2, <3>3, <3>6 DEF Claim, Promise!Take
        <3> QED BY <3>2, <3>7 DEF Promise!Next
    <2>2. CASE Settle(w)
        <3>1. job[w] \in Jobs /\ status[job[w]] = "running" /\ Holds(w)
            BY <2>2 DEF Settle, Holds, Working, HoldsAJob, HeldIsRunning
        <3>2. Executors[job[w]] = {w}
            BY <3>1 DEF Executors, ExclusiveRun
        <3>3. \A v \in Threads \ {w} : /\ Holds(v)' <=> Holds(v)
                                       /\ job'[v] = job[v]
            BY <2>2 DEF Settle, Drop, TypeOK, Holds
        <3>4. ~Holds(w)'
            BY <2>2 DEF Settle, Drop, TypeOK, Holds, Working
        <3>5. Executors' = [Executors EXCEPT ![job[w]] = {}]
            <4>1. ASSUME NEW i \in Jobs, i # job[w] PROVE Executors'[i] = Executors[i]
                BY <3>3, <3>4, <4>1 DEF Executors
            <4>2. ASSUME NEW v \in Threads, Holds(v)' PROVE job'[v] # job[w]
                <5>1. v # w /\ Holds(v) /\ job'[v] = job[v]
                    BY <3>3, <3>4, <4>2
                <5> QED BY <3>1, <5>1 DEF ExclusiveRun
            <4>3. Executors'[job[w]] = {}
                BY <3>1, <4>2 DEF Executors
            <4> QED BY <4>1, <4>3 DEF Executors
        <3>6. attempts' = [attempts EXCEPT ![job[w]] = @ + 1]
            BY <2>2 DEF Settle, SeenIsCurrent
        <3>7. Promise!Report(job[w], w)
            BY <3>1, <3>2, <3>5, <3>6 DEF Promise!Report
        <3>8. CASE outcome[w] = "ok"
            BY <2>2, <3>1, <3>7, <3>8
               DEF Settle, NewStatus, Promise!Succeed, Promise!Next
        <3>9. CASE outcome[w] # "ok"
            <4>1. seen[w] = attempts[job[w]] /\ attempts[job[w]] \in Nat
                BY <2>2, <3>1 DEF Settle, SeenIsCurrent, TypeOK
            <4>2. NewStatus(w) = IF attempts[job[w]] + 1 < MaxAttempts THEN "pending"
                                 ELSE "failed"
                BY <3>9, <4>1 DEF NewStatus
            <4>3. Promise!Fail(job[w], w)
                BY <2>2, <3>7, <4>2 DEF Settle, Promise!Fail
            <4> QED BY <3>1, <4>3 DEF Promise!Next
        <3> QED BY <3>8, <3>9
    <2>3. CASE LoseReport(w)
        <3>1. job[w] \in Jobs /\ Holds(w)
            BY <2>3 DEF LoseReport, Holds, Working, HoldsAJob
        <3>2. \A v \in Threads \ {w} : /\ Holds(v)' <=> Holds(v)
                                       /\ job'[v] = job[v]
            BY <2>3 DEF LoseReport, Drop, TypeOK, Holds
        <3>3. ~Holds(w)'
            BY <2>3 DEF LoseReport, Drop, TypeOK, Holds, Working
        <3>4. Executors' = [i \in Jobs |-> IF i \in {job[w]} THEN {} ELSE Executors[i]]
            <4>1. ASSUME NEW i \in Jobs, i # job[w] PROVE Executors'[i] = Executors[i]
                BY <3>2, <3>3, <4>1 DEF Executors
            <4>2. Executors'[job[w]] = {}
                BY <3>1, <3>2, <3>3 DEF Executors, ExclusiveRun
            <4> QED BY <4>1, <4>2 DEF Executors
        <3>5. Promise!LoseExecutors({job[w]})
            BY <2>3, <3>4 DEF LoseReport, rowVars, Promise!LoseExecutors
        <3> QED BY <3>1, <3>5 DEF Promise!Next
    <2>4. CASE ~Claim(w) /\ ~Settle(w) /\ ~LoseReport(w)
        <3>1. UNCHANGED <<status, attempts, job>>
            BY <1>5, <2>4 DEF Worker, LoopHead, Idle, Work, Trained, StopCancelled,
               StartBatch, NextBatch, LastBatch, Finish, ReadAttempts, rowVars
        <3>2. \A v \in Threads : Holds(v)' <=> Holds(v)
            BY <1>5, <2>4 DEF Worker, LoopHead, Idle, Work, Trained, StopCancelled,
               StartBatch, NextBatch, LastBatch, Finish, ReadAttempts, TypeOK, Holds,
               Working
        <3> QED BY <3>1, <3>2, ExecutorsKept DEF Promise!vars
    <2> QED BY <2>1, <2>2, <2>3, <2>4
<1>6. CASE UNCHANGED vars
    BY <1>6, ExecutorsKept DEF vars, rowVars, threadVars, Holds, Promise!vars
<1> QED BY <1>1, <1>2, <1>3, <1>4, <1>5, <1>6 DEF Next

(* With one engine, whatever its threads, crashes and closes, the queue is *)
(* an implementation of the job life cycle it promises.                    *)
THEOREM Refinement == ASSUME OneEngine PROVE Spec => ImplementsLifecycle
<1> QED BY RefinementInit, RefinementStep, Invariance, PTL
        DEF Spec, ImplementsLifecycle, Promise!Spec
=============================================================================
