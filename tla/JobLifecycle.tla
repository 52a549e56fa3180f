---------------------------- MODULE JobLifecycle ----------------------------
(***************************************************************************)
(* What the job queue promises of each job, with no threads, engines or    *)
(* backoff: a job is executed by at most one thread at a time, every       *)
(* execution that reports counts as one attempt, MaxAttempts failures      *)
(* dead-letter the job, and a done, failed or cancelled job is final.  An  *)
(* executor may be lost (a crash); its job is then handed out again        *)
(* without counting an attempt.                                            *)
(***************************************************************************)
EXTENDS Naturals

CONSTANTS Job, Thread, MaxTries

VARIABLES
    state,      \* state[j]: where job j is in its life
    tries,      \* tries[j]: the executions of j that have reported
    executors   \* executors[j]: the threads executing j

vars == <<state, tries, executors>>

Init ==
    /\ state = [j \in Job |-> "none"]
    /\ tries = [j \in Job |-> 0]
    /\ executors = [j \in Job |-> {}]

Submit(j) ==
    /\ state[j] = "none"
    /\ state' = [state EXCEPT ![j] = "pending"]
    /\ UNCHANGED <<tries, executors>>

(* Any set of jobs that wait may be withdrawn at once. *)
Withdraw(J) ==
    /\ \A j \in J : state[j] = "pending"
    /\ state' = [j \in Job |-> IF j \in J THEN "cancelled" ELSE state[j]]
    /\ UNCHANGED <<tries, executors>>

Take(j, t) ==
    /\ state[j] = "pending"
    /\ executors[j] = {}
    /\ state' = [state EXCEPT ![j] = "running"]
    /\ executors' = [executors EXCEPT ![j] = {t}]
    /\ UNCHANGED tries

(* The only executor of j reports. *)
Report(j, t) ==
    /\ state[j] = "running"
    /\ executors[j] = {t}
    /\ tries' = [tries EXCEPT ![j] = @ + 1]
    /\ executors' = [executors EXCEPT ![j] = {}]

Succeed(j, t) ==
    /\ Report(j, t)
    /\ state' = [state EXCEPT ![j] = "done"]

Fail(j, t) ==
    /\ Report(j, t)
    /\ state' = [state EXCEPT ![j] = IF tries[j] + 1 < MaxTries THEN "pending"
                                     ELSE "failed"]

(* Executors vanish without a report; their jobs stay as they were. *)
LoseExecutors(J) ==
    /\ executors' = [j \in Job |-> IF j \in J THEN {} ELSE executors[j]]
    /\ UNCHANGED <<state, tries>>

(* Every running job nobody executes is handed out again. *)
Requeue ==
    /\ state' = [j \in Job |-> IF state[j] = "running" /\ executors[j] = {}
                               THEN "pending" ELSE state[j]]
    /\ UNCHANGED <<tries, executors>>

Next ==
    \/ \E j \in Job : Submit(j)
    \/ \E J \in SUBSET Job : Withdraw(J) \/ LoseExecutors(J)
    \/ \E j \in Job, t \in Thread : Take(j, t) \/ Succeed(j, t) \/ Fail(j, t)
    \/ Requeue

Spec == Init /\ [][Next]_vars
=============================================================================
