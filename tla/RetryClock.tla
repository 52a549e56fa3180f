----------------------------- MODULE RetryClock -----------------------------
(***************************************************************************)
(* When a failed job becomes claimable again.  A job row carries `run_at`  *)
(* as text and the claim compares it, as text, with the text of the        *)
(* current time.  The two are not printed alike: the current time (and the *)
(* run_at of a fresh job) has milliseconds, `...:05.120Z`, the release     *)
(* time of a retry has whole seconds only, `...:05Z`.  As '.' sorts before *)
(* 'Z', a retry is not released within the second its run_at names.        *)
(*                                                                         *)
(* A moment is [sec, ms]; a text of a moment may lack the milliseconds.    *)
(* One job is enough: its release depends on no other row.                 *)
(***************************************************************************)
EXTENDS Naturals

CONSTANTS
    MsPerSec,     \* 1000; fewer in an instance
    Base,         \* Config::job_backoff_base_secs
    Cap,          \* Config::job_backoff_max_secs
    MaxAttempts,  \* jobs.max_attempts
    LastSec       \* bound: the clock stops at the end of this second

ASSUME ClockAssumption ==
    /\ MsPerSec \in Nat \ {0}
    /\ Base \in Nat
    /\ Cap \in Nat
    /\ MaxAttempts \in Nat \ {0}
    /\ LastSec \in Nat

VARIABLES
    clock,      \* Utc::now()
    status,     \* column `status` of the job
    attempts,   \* column `attempts`
    runAt,      \* column `run_at`
    due         \* history: the moment the job ought to be released

cvars == <<clock, status, attempts, runAt, due>>

Moments == [sec : Nat, ms : 0..(MsPerSec - 1)]

(* Mutant: a text without milliseconds compares as its whole second. *)
WholeSecond == 0

NoMs == MsPerSec
Texts == [sec : Nat, ms : 0..MsPerSec]

AtOrBefore(s, t) == s.sec < t.sec \/ (s.sec = t.sec /\ s.ms <= t.ms)

(* Mutant: the release time is rounded up. *)
RoundUp(t) == [t EXCEPT !.sec = @ + 1, !.ms = MsPerSec]

(* to_rfc3339_opts: SecondsFormat::Millis keeps the moment, ::Secs cuts it *)
(* to the second.  The text without a fraction ends in 'Z' where the other *)
(* has '.', so it sorts after every text of its second: NoMs is past the   *)
(* last millisecond.                                                       *)
Millis(t) == t
Secs(t) == [t EXCEPT !.ms = NoMs]
TextLE(s, t) == AtOrBefore(s, t)

(* A settled job has no run_at; NULL is released at any time. *)
Null == [sec |-> 0, ms |-> 0]

(* 1u64 << exp, for exp in 0..16. *)
Shift == <<1, 2, 4, 8, 16, 32, 64, 128, 256, 512, 1024, 2048, 4096, 8192,
           16384, 32768, 65536>>

(* base * 2^(attempt-1), capped; the exponent is capped too. *)
Exponent(n) == IF n - 1 < 16 THEN n - 1 ELSE 16
Delay(n) == LET d == Base * Shift[Exponent(n) + 1] IN IF d < Cap THEN d ELSE Cap

After(t, secs) == [t EXCEPT !.sec = @ + secs]

ClockTypeOK ==
    /\ clock \in Moments
    /\ status \in {"pending", "running", "done", "failed"}
    /\ attempts \in 0..MaxAttempts
    /\ runAt \in Texts
    /\ due \in Moments

ClockInit ==
    /\ clock = [sec |-> 0, ms |-> 0]
    /\ status = "pending"
    /\ attempts = 0
    /\ runAt = Millis(clock)
    /\ due = clock

Tick ==
    /\ \/ /\ clock.ms + 1 < MsPerSec
          /\ clock' = [clock EXCEPT !.ms = @ + 1]
       \/ /\ clock.ms + 1 = MsPerSec
          /\ clock.sec < LastSec
          /\ clock' = [sec |-> clock.sec + 1, ms |-> 0]
    /\ UNCHANGED <<status, attempts, runAt, due>>

(* claim_next_atomic: run_at <= now, compared as text. *)
Released == TextLE(runAt, Millis(clock))

ClaimJob ==
    /\ status = "pending"
    /\ Released
    /\ status' = "running"
    /\ UNCHANGED <<clock, attempts, runAt, due>>

(* fail_and_maybe_retry: dead-letter, or pending again after the backoff. *)
FailJob ==
    /\ status = "running"
    /\ attempts' = attempts + 1
    /\ IF attempts + 1 >= MaxAttempts
       THEN /\ status' = "failed"
            /\ runAt' = Null
            /\ UNCHANGED due
       ELSE /\ status' = "pending"
            /\ runAt' = Secs(After(clock, Delay(attempts + 1)))
            /\ due' = After(clock, Delay(attempts + 1))
    /\ UNCHANGED clock

CompleteJob ==
    /\ status = "running"
    /\ status' = "done"
    /\ attempts' = attempts + 1
    /\ runAt' = Null
    /\ UNCHANGED <<clock, due>>

(* recover_running_jobs, after a crash: run_at stays as it was. *)
RecoverJob ==
    /\ status = "running"
    /\ status' = "pending"
    /\ UNCHANGED <<clock, attempts, runAt, due>>

ClockNext == Tick \/ ClaimJob \/ FailJob \/ CompleteJob \/ RecoverJob

ClockSpec == ClockInit /\ [][ClockNext]_cvars

-----------------------------------------------------------------------------
(* Properties. *)

(* A retry is never handed out before its backoff is over, although the    *)
(* release time is cut down to the second and compared as text.            *)
NeverEarly ==
    [][status = "pending" /\ status' = "running" => AtOrBefore(due, clock)]_cvars

(* ... and at most one second after it is over. *)
AtMostASecondLate ==
    status = "pending" /\ AtOrBefore(After(due, 1), clock) => Released

(* The inductive invariant: until the job is settled its run_at names the  *)
(* second of its due moment, and an attempt is left.                       *)
ClockInv ==
    /\ ClockTypeOK
    /\ status \in {"pending", "running"} =>
          /\ runAt.sec = due.sec
          /\ due.ms <= runAt.ms
          /\ attempts < MaxAttempts
=============================================================================
