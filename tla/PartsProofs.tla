---------------------------- MODULE PartsProofs -----------------------------
(***************************************************************************)
(* Theorems about four parts that stand alone, for every value of their    *)
(* constants: the backoff of a failed job (RetryClock), the migrations of  *)
(* a store that several connections open (Migrations), the conflicts of    *)
(* claims (Claims) and the walk over relationships (GraphTraversal).       *)
(***************************************************************************)
EXTENDS RetryClock, Migrations, Claims, GraphTraversal, ListsProofs

-----------------------------------------------------------------------------
(* RetryClock: the backoff of a failed job, for every length of a second in
   ticks, every base, cap and number of attempts. *)

(* The shifted base is a natural number: the exponent stays in the table.  *)
LEMMA ShiftIsNat ==
    ASSUME NEW n \in Nat \ {0}
    PROVE  Shift[Exponent(n) + 1] \in Nat
<1> DEFINE i == Exponent(n) + 1
<1>1. i \in 1..17
  BY DEF Exponent
<1>2. \A k \in 1..17 : Shift[k] \in Nat
  BY DEF Shift
<1> QED
  BY <1>1, <1>2

(* The backoff of the code (jobs/mod.rs, fail_and_maybe_retry) is a number *)
(* of seconds, and never more than the cap.                                *)
LEMMA DelayIsCapped ==
    ASSUME NEW n \in Nat \ {0}
    PROVE  Delay(n) \in Nat /\ Delay(n) <= Cap
<1> DEFINE s == Shift[Exponent(n) + 1]
<1>1. s \in Nat
  BY ShiftIsNat
<1>2. Base * s \in Nat
  <2> HIDE DEF s
  <2> QED BY <1>1, ClockAssumption DEF ClockAssumption
<1> DEFINE d == Base * s
<1>3. Delay(n) = IF d < Cap THEN d ELSE Cap
  BY DEF Delay
<1>4. d \in Nat
  BY <1>2
<1> HIDE DEF d
<1> QED
  BY <1>3, <1>4, ClockAssumption DEF ClockAssumption

(* Adding whole seconds to a moment gives a moment. *)
LEMMA AfterIsMoment ==
    ASSUME NEW t \in Moments, NEW k \in Nat
    PROVE  /\ After(t, k) \in Moments
           /\ After(t, k).sec = t.sec + k
           /\ After(t, k).ms = t.ms
BY DEF After, Moments

(* The clock's inductive invariant holds at first, *)
LEMMA ClockInvInit == ClockInit => ClockInv
BY ClockAssumption
   DEF ClockAssumption, ClockInit, ClockInv, ClockTypeOK, Moments, Texts, Millis

(* ... and every step keeps it. *)
LEMMA ClockInvStep == ClockInv /\ [ClockNext]_cvars => ClockInv'
<1> SUFFICES ASSUME ClockInv, [ClockNext]_cvars PROVE ClockInv'
  OBVIOUS
<1> USE ClockAssumption DEF ClockAssumption, ClockInv, ClockTypeOK
<1>1. CASE Tick
  BY <1>1 DEF Tick, Moments
<1>2. CASE ClaimJob
  BY <1>2 DEF ClaimJob
<1>3. CASE FailJob
  <2> DEFINE d == Delay(attempts + 1)
  <2>1. d \in Nat
    BY DelayIsCapped
  <2>2. /\ After(clock, d) \in Moments
        /\ After(clock, d).sec = clock.sec + d
        /\ After(clock, d).ms = clock.ms
    <3> HIDE DEF d
    <3> QED BY <2>1, AfterIsMoment
  <2>3. CASE attempts + 1 >= MaxAttempts
    BY <1>3, <2>3 DEF FailJob, Null, Texts, Moments
  <2>4. CASE ~(attempts + 1 >= MaxAttempts)
    <3> DEFINE t == After(clock, d)
    <3>1. /\ status' = "pending"
          /\ attempts' = attempts + 1
          /\ runAt' = [t EXCEPT !.ms = NoMs]
          /\ due' = t
          /\ clock' = clock
      BY <1>3, <2>4 DEF FailJob, Secs
    <3>2. t \in Moments
      BY <2>2
    <3> HIDE DEF t
    <3>3. runAt' \in Texts /\ runAt'.sec = due'.sec /\ due'.ms <= runAt'.ms
      BY <3>1, <3>2 DEF Texts, Moments, NoMs
    <3> QED
      BY <3>1, <3>2, <3>3, <2>4
  <2> QED
    BY <2>3, <2>4
<1>4. CASE CompleteJob
  BY <1>4 DEF CompleteJob, Null, Texts, Moments
<1>5. CASE RecoverJob
  BY <1>5 DEF RecoverJob
<1>6. CASE UNCHANGED cvars
  BY <1>6 DEF cvars
<1> QED
  BY <1>1, <1>2, <1>3, <1>4, <1>5, <1>6 DEF ClockNext

(* The row of a job, its release time and its due moment stay of their     *)
(* types and consistent with each other, through every failure and crash.  *)
THEOREM ClockInvariant == ClockSpec => []ClockInv
<1>1. ClockInit => ClockInv
  BY ClockInvInit
<1>2. ClockInv /\ [ClockNext]_cvars => ClockInv'
  BY ClockInvStep
<1> QED
  BY <1>1, <1>2, PTL DEF ClockSpec

(* A retry is never handed out before its backoff is over: cutting the     *)
(* release time to the second cannot release it early, since the text      *)
(* without milliseconds sorts last in its second.                          *)
THEOREM NeverEarlyHolds == ClockSpec => NeverEarly
<1>1. ClockInv /\ [ClockNext]_cvars
        => [status = "pending" /\ status' = "running" => AtOrBefore(due, clock)]_cvars
  <2> SUFFICES ASSUME ClockInv, [ClockNext]_cvars,
                      status = "pending", status' = "running"
               PROVE  AtOrBefore(due, clock)
    OBVIOUS
  <2>1. ClaimJob
    BY DEF ClockNext, cvars, Tick, ClaimJob, FailJob, CompleteJob, RecoverJob
  <2>2. AtOrBefore(runAt, clock)
    BY <2>1 DEF ClaimJob, Released, TextLE, Millis
  <2> QED
    BY <2>2, ClockAssumption
       DEF AtOrBefore, ClockInv, ClockTypeOK, Moments, Texts, ClockAssumption
<1> QED
  BY <1>1, ClockInvariant, PTL DEF ClockSpec, NeverEarly

(* One second after its backoff is over, at the latest, a retry is up for  *)
(* the next claim.                                                         *)
THEOREM AtMostASecondLateHolds == ClockSpec => []AtMostASecondLate
<1>1. ClockInv => AtMostASecondLate
  <2> SUFFICES ASSUME ClockInv, status = "pending",
                      AtOrBefore(After(due, 1), clock)
               PROVE  AtOrBefore(runAt, clock)
    BY DEF AtMostASecondLate, Released, TextLE, Millis
  <2>1. After(due, 1).sec = due.sec + 1
    BY AfterIsMoment DEF ClockInv, ClockTypeOK
  <2> QED
    BY <2>1, ClockAssumption
       DEF AtOrBefore, ClockInv, ClockTypeOK, Moments, Texts, ClockAssumption
<1> QED
  BY <1>1, ClockInvariant, PTL

-----------------------------------------------------------------------------
(* Migrations: for any set of connections, the file always holds a prefix of
   the batches, a connection knows a prefix of what the file holds, and one
   that nobody disturbs cannot fail on an old file. *)

(* The file holds the first k batches. *)
Holds(k) == TablesOf(k) \subseteq tables /\ ColumnsOf(k) \subseteq columns

Connections ==
    [at : Steps \cup {"closed", "open", "failed"}, seen : 0..5, target : 0..5,
     txn : {"none", "clean", "behind", "writing"}, alone : BOOLEAN,
     err : {"none", "newer", "ddl", "busy", "fault"}]

MigTypeOK == userVersion \in 0..6 /\ opener \in [Openers -> Connections]

(* Batches are applied in their order and as a whole. *)
PrefixFile ==
    \E k \in 0..SCHEMA_VERSION : tables = TablesOf(k) /\ columns = ColumnsOf(k)

(* What connection o may rely on: the batches it has gone through are in   *)
(* the file, whoever applied them.                                         *)
KnowsPrefix(o) ==
    /\ opener[o].at \in {"probe", "exec", "heal", "stamp"} => opener[o].target > 0
    /\ opener[o].at \in {"probe", "exec", "heal"} => Holds(opener[o].target - 1)
    /\ opener[o].at = "probe" => Batch(o).signature # {}
    /\ opener[o].at = "stamp" => Holds(opener[o].target)
    /\ opener[o].at = "open" => Holds(SCHEMA_VERSION)

(* A connection that is alone has no rival and no open transaction, comes  *)
(* to a batch with a signature only before it is applied, and leaves the   *)
(* file stamped.                                                           *)
Undisturbed(o) ==
    opener[o].alone =>
        /\ \A p \in Others(o) : opener[p].at = "closed" /\ opener[p].txn = "none"
        /\ opener[o].at # "heal" /\ opener[o].txn = "none"
        /\ opener[o].at = "exec" =>
              \/ Batch(o).signature = {}
              \/ ~(Batch(o).signature \subseteq columns)
        /\ opener[o].at = "open" => userVersion = SCHEMA_VERSION
        /\ opener[o].at = "failed" => opener[o].err \in {"newer", "fault"}

(* A connection that is gone has no transaction. *)
LetGo(o) == opener[o].at \in {"closed", "failed"} => opener[o].txn = "none"

MigInv ==
    /\ MigTypeOK
    /\ PrefixFile
    /\ StampTrue
    /\ \A o \in Openers : LetGo(o) /\ KnowsPrefix(o) /\ Undisturbed(o)

-----------------------------------------------------------------------------
(* The batches. *)

(* The list of the batches, one by one. *)
LEMMA EachBatch ==
    /\ MIGRATIONS[1] = V1_BASE /\ MIGRATIONS[2] = V2_KNOWLEDGE
    /\ MIGRATIONS[3] = V3_GRAPH_CLAIMS /\ MIGRATIONS[4] = V4_JOBS_META
    /\ MIGRATIONS[5] = V5_SEMANTIC_INCREMENTAL
BY DEF MIGRATIONS

(* What the first k batches leave in the file grows with k, batch by batch. *)
LEMMA Cumulative ==
    /\ TablesOf(0) = {} /\ ColumnsOf(0) = {}
    /\ \A k \in 0..4 :
          /\ TablesOf(k + 1) = TablesOf(k) \cup MIGRATIONS[k + 1].tables
          /\ ColumnsOf(k + 1) = ColumnsOf(k) \cup MIGRATIONS[k + 1].columns
<1>1. TablesOf(0) = {} /\ ColumnsOf(0) = {}
    BY DEF TablesOf, ColumnsOf
<1>2. ASSUME NEW k \in 0..4
      PROVE  /\ TablesOf(k + 1) = TablesOf(k) \cup MIGRATIONS[k + 1].tables
             /\ ColumnsOf(k + 1) = ColumnsOf(k) \cup MIGRATIONS[k + 1].columns
    <2>1. 1..(k + 1) = (1..k) \cup {k + 1}
        OBVIOUS
    <2> QED BY <2>1 DEF TablesOf, ColumnsOf
<1> QED BY <1>1, <1>2

(* A longer prefix contains a shorter one. *)
LEMMA Longer ==
    ASSUME NEW j \in 0..5, NEW k \in 0..5, j <= k
    PROVE  TablesOf(j) \subseteq TablesOf(k) /\ ColumnsOf(j) \subseteq ColumnsOf(k)
<1>1. 1..j \subseteq 1..k
    OBVIOUS
<1> QED BY <1>1 DEF TablesOf, ColumnsOf

(* The columns a batch adds are its own, and belong to tables of the       *)
(* batches before it; a signature is one of them.                          *)
LEMMA ColumnsFit ==
    \A t \in 1..5 :
        /\ MIGRATIONS[t].columns \cap ColumnsOf(t - 1) = {}
        /\ \A c \in MIGRATIONS[t].columns : c[1] \in TablesOf(t - 1)
        /\ MIGRATIONS[t].signature \subseteq MIGRATIONS[t].columns
        /\ MIGRATIONS[t].signature = {} <=> MIGRATIONS[t].columns = {}
<1>0. /\ ColumnsOf(0) = {} /\ TablesOf(0) = {}
      /\ TablesOf(1) = TablesOf(0) \cup MIGRATIONS[1].tables
      /\ TablesOf(2) = TablesOf(1) \cup MIGRATIONS[2].tables
      /\ TablesOf(3) = TablesOf(2) \cup MIGRATIONS[3].tables
      /\ TablesOf(4) = TablesOf(3) \cup MIGRATIONS[4].tables
      /\ ColumnsOf(1) = ColumnsOf(0) \cup MIGRATIONS[1].columns
      /\ ColumnsOf(2) = ColumnsOf(1) \cup MIGRATIONS[2].columns
      /\ ColumnsOf(3) = ColumnsOf(2) \cup MIGRATIONS[3].columns
      /\ ColumnsOf(4) = ColumnsOf(3) \cup MIGRATIONS[4].columns
    BY Cumulative
<1> DEFINE Fit(t) == /\ MIGRATIONS[t].columns \cap ColumnsOf(t - 1) = {}
                     /\ \A c \in MIGRATIONS[t].columns : c[1] \in TablesOf(t - 1)
                     /\ MIGRATIONS[t].signature \subseteq MIGRATIONS[t].columns
                     /\ MIGRATIONS[t].signature = {} <=> MIGRATIONS[t].columns = {}
<1> USE EachBatch
<1>1. Fit(1) /\ Fit(3) /\ Fit(4)
    BY DEF V1_BASE, V3_GRAPH_CLAIMS, V4_JOBS_META
<1>2. /\ ColumnsOf(1) = {}
      /\ ColumnsOf(4) = V2_KNOWLEDGE.columns
      /\ "documents" \in TablesOf(1) /\ "chunks" \in TablesOf(1)
      /\ {"documents", "chunks", "claims", "claim_conflicts", "jobs"} \subseteq TablesOf(4)
    BY <1>0 DEF V1_BASE, V2_KNOWLEDGE, V3_GRAPH_CLAIMS, V4_JOBS_META
<1>3. Fit(2)
    <2>1. 2 - 1 = 1
        OBVIOUS
    <2>2. /\ V2_KNOWLEDGE.signature \subseteq V2_KNOWLEDGE.columns
          /\ V2_KNOWLEDGE.signature # {} /\ V2_KNOWLEDGE.columns # {}
          /\ \A c \in V2_KNOWLEDGE.columns : c[1] \in {"documents", "chunks"}
        <3>1. /\ V2_KNOWLEDGE.signature = {<<"chunks", "knowledge_json">>}
              /\ V2_KNOWLEDGE.columns =
                    {<<"chunks", "knowledge_json">>, <<"documents", "language">>,
                     <<"documents", "pending_text">>}
            BY DEF V2_KNOWLEDGE
        <3>2. <<"chunks", "knowledge_json">> \in V2_KNOWLEDGE.signature
            BY <3>1
        <3>3. \A c \in V2_KNOWLEDGE.columns : c[1] \in {"documents", "chunks"}
            BY <3>1
        <3> QED BY <3>1, <3>2, <3>3
    <2> QED BY <1>2, <2>1, <2>2
<1>4. Fit(5)
    <2>1. 5 - 1 = 4
        OBVIOUS
    <2>2. /\ V5_SEMANTIC_INCREMENTAL.signature \subseteq V5_SEMANTIC_INCREMENTAL.columns
          /\ V5_SEMANTIC_INCREMENTAL.signature # {}
          /\ V5_SEMANTIC_INCREMENTAL.columns # {}
          /\ \A c \in V5_SEMANTIC_INCREMENTAL.columns :
                c[1] \in {"chunks", "claims", "claim_conflicts", "jobs"}
        <3>1. /\ V5_SEMANTIC_INCREMENTAL.signature = {<<"chunks", "embedding_model">>}
              /\ V5_SEMANTIC_INCREMENTAL.columns =
                    {<<"chunks", "embedding_model">>, <<"claims", "start_offset">>,
                     <<"claims", "end_offset">>, <<"claim_conflicts", "conflict_kind">>,
                     <<"jobs", "run_at">>, <<"jobs", "progress">>}
            BY DEF V5_SEMANTIC_INCREMENTAL
        <3>2. <<"chunks", "embedding_model">> \in V5_SEMANTIC_INCREMENTAL.signature
            BY <3>1
        <3>3. \A c \in V5_SEMANTIC_INCREMENTAL.columns :
                c[1] \in {"chunks", "claims", "claim_conflicts", "jobs"}
            BY <3>1
        <3> QED BY <3>1, <3>2, <3>3
    <2>3. V5_SEMANTIC_INCREMENTAL.columns \cap V2_KNOWLEDGE.columns = {}
        BY DEF V5_SEMANTIC_INCREMENTAL, V2_KNOWLEDGE
    <2> QED BY <1>2, <2>1, <2>2, <2>3
<1> QED BY <1>1, <1>3, <1>4

-----------------------------------------------------------------------------
(* The inductive invariant. *)

(* Initially the file is a prefix and nobody is connected. *)
LEMMA MigInitially == MigInit => MigInv
<1> SUFFICES ASSUME MigInit PROVE MigInv
    OBVIOUS
<1>1. PICK k \in 0..5, v \in 0..6 :
        /\ v <= k \/ (k = 5 /\ v = 6)
        /\ tables = TablesOf(k) /\ columns = ColumnsOf(k) /\ userVersion = v
    BY DEF MigInit
<1>2. PrefixFile
    BY <1>1 DEF PrefixFile, SCHEMA_VERSION
<1>3. StampTrue
    BY <1>1, Longer DEF StampTrue, SCHEMA_VERSION
<1>4. MigTypeOK
    BY <1>1 DEF MigInit, MigTypeOK, Connections, Unopened
<1>5. \A o \in Openers : LetGo(o) /\ KnowsPrefix(o) /\ Undisturbed(o)
    BY DEF MigInit, LetGo, KnowsPrefix, Undisturbed, Unopened
<1> QED BY <1>2, <1>3, <1>4, <1>5 DEF MigInv

(* A batch that runs to its end leaves a prefix that contains it: the file *)
(* was the prefix before it, or has it already.                            *)
LEMMA BatchCompletes ==
    ASSUME PrefixFile, NEW t \in 1..5, Holds(t - 1),
           tables' = tables \cup MIGRATIONS[t].tables,
           columns' = columns \cup MIGRATIONS[t].columns
    PROVE  PrefixFile' /\ Holds(t)'
<1>1. PICK k \in 0..5 : tables = TablesOf(k) /\ columns = ColumnsOf(k)
    BY DEF PrefixFile, SCHEMA_VERSION
<1>2. /\ TablesOf(t) = TablesOf(t - 1) \cup MIGRATIONS[t].tables
      /\ ColumnsOf(t) = ColumnsOf(t - 1) \cup MIGRATIONS[t].columns
    <2>1. t - 1 \in 0..4 /\ (t - 1) + 1 = t
        OBVIOUS
    <2> QED BY <2>1, Cumulative
<1>3. CASE k >= t
    <2>1. TablesOf(t) \subseteq tables /\ ColumnsOf(t) \subseteq columns
        BY <1>1, <1>3, Longer
    <2>2. tables' = tables /\ columns' = columns
        BY <1>2, <2>1
    <2> QED BY <1>1, <2>1, <2>2 DEF PrefixFile, Holds, SCHEMA_VERSION
<1>4. CASE k < t
    <2>1. k <= t - 1 /\ t - 1 \in 0..5 /\ t \in 0..5
        BY <1>4
    <2>2. tables = TablesOf(t - 1) /\ columns = ColumnsOf(t - 1)
        BY <1>1, <2>1, Longer DEF Holds
    <2>3. tables' = TablesOf(t) /\ columns' = ColumnsOf(t)
        BY <1>2, <2>2
    <2> QED BY <2>1, <2>3 DEF PrefixFile, Holds, SCHEMA_VERSION
<1> QED BY <1>3, <1>4

(* A column of batch t in the file proves that the batch is there. *)
LEMMA ColumnProvesBatch ==
    ASSUME PrefixFile, NEW t \in 1..5, MIGRATIONS[t].columns \cap columns # {}
    PROVE  Holds(t)
<1>1. PICK k \in 0..5 : tables = TablesOf(k) /\ columns = ColumnsOf(k)
    BY DEF PrefixFile, SCHEMA_VERSION
<1>2. t - 1 \in 0..5 /\ t \in 0..5
    OBVIOUS
<1>3. MIGRATIONS[t].columns \cap ColumnsOf(t - 1) = {}
    BY ColumnsFit
<1>4. ~(k <= t - 1)
    BY <1>1, <1>2, <1>3, Longer
<1> QED BY <1>1, <1>2, <1>4, Longer DEF Holds

(* A step that changes one connection, and nothing of the file, keeps the  *)
(* invariant if it keeps what the invariant says of that connection.       *)
LEMMA OwnStep ==
    ASSUME MigInv, NEW o \in Openers, opener[o].at # "closed",
           NEW r \in Connections, opener' = [opener EXCEPT ![o] = r],
           UNCHANGED <<tables, columns, userVersion>>,
           LetGo(o)' /\ KnowsPrefix(o)' /\ Undisturbed(o)'
    PROVE  MigInv'
<1> USE DEF MigInv, MigTypeOK
<1>1. MigTypeOK' /\ PrefixFile' /\ StampTrue'
    BY DEF PrefixFile, StampTrue
<1>2. ASSUME NEW p \in Openers, p # o
      PROVE  LetGo(p)' /\ KnowsPrefix(p)' /\ Undisturbed(p)'
    <2>1. opener'[p] = opener[p]
        BY <1>2
    <2>2. ~opener[p].alone
        BY <1>2 DEF Undisturbed, Others
    <2> QED BY <2>1, <2>2 DEF LetGo, KnowsPrefix, Undisturbed, Holds, Batch
<1> QED BY <1>1, <1>2

(* A connection that gives up keeps the invariant, if it is allowed to.    *)
LEMMA FailStep ==
    ASSUME MigInv, NEW o \in Openers, opener[o].at # "closed",
           NEW why \in {"newer", "ddl", "busy", "fault"}, FailOpen(o, why),
           UNCHANGED <<tables, columns, userVersion>>,
           opener[o].alone => why \in {"newer", "fault"}
    PROVE  MigInv'
<1> DEFINE r == [opener[o] EXCEPT !.at = "failed", !.err = why, !.txn = "none"]
<1>1. r \in Connections
    BY DEF MigInv, MigTypeOK, Connections
<1>2. opener' = [opener EXCEPT ![o] = r]
    BY DEF FailOpen, MigInv, MigTypeOK
<1>3. opener'[o] = r /\ \A p \in Others(o) : opener'[p] = opener[p]
    BY <1>2 DEF MigInv, MigTypeOK, Others
<1>4. /\ r.at = "failed" /\ r.err = why /\ r.txn = "none"
      /\ r.alone = opener[o].alone
    BY DEF MigInv, MigTypeOK, Connections
<1>5. LetGo(o)' /\ KnowsPrefix(o)' /\ Undisturbed(o)'
    BY <1>3, <1>4 DEF MigInv, LetGo, KnowsPrefix, Undisturbed, Others
<1> HIDE DEF r
<1> QED BY <1>1, <1>2, <1>5, OwnStep

(* Entering the loop at batch t. *)
LEMMA Entering ==
    ASSUME MigInv, NEW t \in 1..5, Holds(t - 1)
    PROVE  /\ Enter(t) \in {"probe", "exec"}
           /\ Enter(t) = "exec" <=> MIGRATIONS[t].signature = {}
BY DEF Enter

(* The steps of one connection that leave the file alone. *)
LEMMA ReadVersionStep ==
    ASSUME MigInv, NEW o \in Openers, ReadVersion(o)
    PROVE  MigInv'
<1> USE DEF SCHEMA_VERSION
<1>1. CASE userVersion > 5
    BY <1>1, FailStep DEF ReadVersion
<1>2. CASE ~(userVersion > 5)
    <2> DEFINE t == userVersion + 1
               r == [opener[o] EXCEPT
                        !.at = IF t > 5 THEN "open" ELSE Enter(t),
                        !.seen = userVersion,
                        !.target = IF t > 5 THEN 0 ELSE t]
    <2>1. userVersion \in 0..5 /\ Holds(userVersion)
        BY <1>2 DEF MigInv, MigTypeOK, StampTrue, Holds
    <2>2. t \in 1..6 /\ t - 1 = userVersion /\ (t > 5 <=> userVersion = 5)
        BY <2>1
    <2>3. t <= 5 => /\ Enter(t) \in {"probe", "exec"}
                    /\ Enter(t) = "exec" <=> MIGRATIONS[t].signature = {}
        BY <2>1, <2>2, Entering
    <2>4. opener[o].at = "version" /\ opener[o] \in Connections
        BY DEF ReadVersion, MigInv, MigTypeOK
    <2>5. opener' = [opener EXCEPT ![o] = r]
        BY <1>2 DEF ReadVersion, FirstTarget, MigInv, MigTypeOK
    <2>6. UNCHANGED <<tables, columns, userVersion>>
        BY DEF ReadVersion
    <2> HIDE DEF t
    <2>7. r \in Connections
        <3>1. /\ (IF t > 5 THEN "open" ELSE Enter(t)) \in {"open", "probe", "exec"}
              /\ (IF t > 5 THEN 0 ELSE t) \in 0..5
            BY <2>2, <2>3
        <3> QED BY <2>1, <2>4, <3>1 DEF Connections, Steps
    <2>8. /\ r.at = IF t > 5 THEN "open" ELSE Enter(t)
          /\ r.target = IF t > 5 THEN 0 ELSE t
          /\ r.txn = opener[o].txn /\ r.alone = opener[o].alone
          /\ r.err = opener[o].err
        BY <2>4 DEF Connections
    <2> HIDE DEF r
    <2>9. opener'[o] = r /\ \A p \in Others(o) : opener'[p] = opener[p]
        BY <2>5 DEF MigInv, MigTypeOK, Others
    <2>10. LetGo(o)' /\ KnowsPrefix(o)'
        BY <2>1, <2>2, <2>3, <2>6, <2>8, <2>9 DEF LetGo, KnowsPrefix, Holds, Batch
    <2>11. Undisturbed(o)'
        <3>1. Undisturbed(o)
            BY DEF MigInv
        <3>2. /\ r.at \in {"open", "probe", "exec"}
              /\ r.at = "exec" => MIGRATIONS[r.target].signature = {}
              /\ r.at = "open" => userVersion = 5
            BY <2>2, <2>3, <2>8
        <3> QED BY <2>6, <2>8, <2>9, <3>1, <3>2 DEF Undisturbed, Batch, Others
    <2> QED BY <2>4, <2>5, <2>6, <2>7, <2>10, <2>11, OwnStep
<1> QED BY <1>1, <1>2

(* Looking at the schema keeps the inductive invariant, *)
LEMMA ProbeStep ==
    ASSUME MigInv, NEW o \in Openers, ProbeSignature(o)
    PROVE  MigInv'
<1> DEFINE t == opener[o].target
           here == MIGRATIONS[t].signature \subseteq columns
           r == [opener[o] EXCEPT !.at = IF here THEN "stamp" ELSE "exec"]
<1>1. /\ opener[o].at = "probe" /\ opener[o] \in Connections
      /\ UNCHANGED <<tables, columns, userVersion>>
    BY DEF ProbeSignature, MigInv, MigTypeOK
<1>2. opener' = [opener EXCEPT ![o] = r]
    BY DEF ProbeSignature, Batch, MigInv, MigTypeOK
<1>3. t \in 1..5 /\ Holds(t - 1)
    BY <1>1 DEF MigInv, KnowsPrefix, Connections
<1>4. r \in Connections /\ r = [opener[o] EXCEPT !.at = r.at]
    BY <1>1 DEF Connections, Steps
<1>5. /\ r.at = IF here THEN "stamp" ELSE "exec"
      /\ r.target = t /\ r.txn = opener[o].txn /\ r.alone = opener[o].alone
    BY <1>1 DEF Connections
<1> HIDE DEF r
<1>6. opener'[o] = r /\ \A p \in Others(o) : opener'[p] = opener[p]
    BY <1>2 DEF MigInv, MigTypeOK, Others
<1>7. here => MIGRATIONS[t].signature = {} \/ Holds(t)
    <2>1. MIGRATIONS[t].signature \subseteq MIGRATIONS[t].columns
        BY <1>3, ColumnsFit
    <2> QED BY <1>3, <2>1, ColumnProvesBatch DEF MigInv
<1>8. MIGRATIONS[t].signature # {}
    BY <1>1 DEF MigInv, KnowsPrefix, Batch
<1>9. LetGo(o)' /\ KnowsPrefix(o)'
    BY <1>1, <1>3, <1>5, <1>6, <1>7, <1>8 DEF LetGo, KnowsPrefix, Holds, Batch
<1>10. Undisturbed(o)'
    <2>1. Undisturbed(o)
        BY DEF MigInv
    <2> QED BY <1>1, <1>5, <1>6, <2>1 DEF Undisturbed, Batch, Others
<1> QED BY <1>1, <1>2, <1>4, <1>9, <1>10, OwnStep

(* The steps of a connection that met another one. *)
LEMMA HealStep ==
    ASSUME MigInv, NEW o \in Openers, Heal(o)
    PROVE  MigInv'
<1> DEFINE t == opener[o].target
           r == [opener[o] EXCEPT !.at = "stamp"]
<1>1. /\ opener[o].at = "heal" /\ opener[o] \in Connections /\ ~opener[o].alone
      /\ UNCHANGED <<tables, columns, userVersion>>
    BY DEF Heal, MigInv, MigTypeOK, Undisturbed
<1>2. t \in 1..5
    BY <1>1 DEF MigInv, KnowsPrefix, Connections
<1>3. CASE MIGRATIONS[t].signature # {} /\ MIGRATIONS[t].signature \subseteq columns
    <2>1. Holds(t)
        <3>1. MIGRATIONS[t].signature \subseteq MIGRATIONS[t].columns
            BY <1>2, ColumnsFit
        <3> QED BY <1>2, <1>3, <3>1, ColumnProvesBatch DEF MigInv
    <2>2. opener' = [opener EXCEPT ![o] = r]
        BY <1>3 DEF Heal, Batch, MigInv, MigTypeOK
    <2>3. /\ r \in Connections /\ r.at = "stamp" /\ r.target = t
          /\ r.alone = opener[o].alone
        BY <1>1 DEF Connections, Steps
    <2> HIDE DEF r
    <2>4. opener'[o] = r
        BY <2>2 DEF MigInv, MigTypeOK
    <2>5. LetGo(o)' /\ KnowsPrefix(o)' /\ Undisturbed(o)'
        BY <1>1, <1>2, <2>1, <2>3, <2>4
           DEF LetGo, KnowsPrefix, Undisturbed, Holds
    <2> QED BY <1>1, <2>2, <2>3, <2>5, OwnStep
<1>4. CASE ~(MIGRATIONS[t].signature # {} /\ MIGRATIONS[t].signature \subseteq columns)
    BY <1>1, <1>4, FailStep DEF Heal, Batch
<1> QED BY <1>3, <1>4

(* Where the loop goes after batch t is in the file. *)
LEMMA Advancing ==
    ASSUME MigInv, NEW o \in Openers, opener[o].at = "stamp"
    PROVE  /\ Advance(o, o) \in Connections
           /\ Advance(o, o).txn = opener[o].txn
           /\ Advance(o, o).alone = opener[o].alone
           /\ \/ /\ Advance(o, o).at = "open"
                 /\ opener[o].target = 5 /\ Holds(5)
              \/ /\ Advance(o, o).target \in 1..5
                 /\ Advance(o, o).target = opener[o].target + 1
                 /\ Holds(Advance(o, o).target - 1)
                 /\ Advance(o, o).at \in {"probe", "exec"}
                 /\ Advance(o, o).at = "exec" <=>
                        MIGRATIONS[Advance(o, o).target].signature = {}
<1> DEFINE t == opener[o].target
<1>1. t \in 1..5 /\ Holds(t) /\ opener[o] \in Connections
    BY DEF MigInv, MigTypeOK, KnowsPrefix, Connections
<1>2. CASE t = 5
    <2>1. Advance(o, o) = [opener[o] EXCEPT !.at = "open"]
        BY <1>2 DEF Advance, SCHEMA_VERSION
    <2> QED BY <1>1, <1>2, <2>1 DEF Connections, Steps
<1>3. CASE t # 5
    <2>1. t + 1 \in 1..5 /\ (t + 1) - 1 = t
        BY <1>1, <1>3
    <2>2. /\ Enter(t + 1) \in {"probe", "exec"}
          /\ Enter(t + 1) = "exec" <=> MIGRATIONS[t + 1].signature = {}
        BY <1>1, <2>1, Entering
    <2>3. Advance(o, o) = [opener[o] EXCEPT !.target = t + 1, !.at = Enter(t + 1)]
        BY <1>1, <1>3 DEF Advance, SCHEMA_VERSION, Connections
    <2>4. /\ Advance(o, o).target = t + 1 /\ Advance(o, o).at = Enter(t + 1)
          /\ Advance(o, o).txn = opener[o].txn
          /\ Advance(o, o).alone = opener[o].alone
        BY <1>1, <2>3 DEF Connections
    <2>5. Advance(o, o) \in Connections
        <3>1. ASSUME NEW u \in 0..5, NEW s \in {"probe", "exec"}
              PROVE  [opener[o] EXCEPT !.target = u, !.at = s] \in Connections
            BY <1>1 DEF Connections, Steps
        <3>2. t + 1 \in 0..5
            BY <2>1
        <3> QED BY <2>2, <2>3, <3>1, <3>2
    <2> QED BY <1>1, <2>1, <2>2, <2>4, <2>5
<1> QED BY <1>2, <1>3

(* ... so does stamping inside the transaction of the batch, *)
LEMMA StampInsideStep ==
    ASSUME MigInv, NEW o \in Openers, StampInside(o)
    PROVE  MigInv'
<1>1. /\ opener[o].at = "stamp" /\ ~opener[o].alone
      /\ UNCHANGED <<tables, columns, userVersion>>
    BY DEF StampInside, MigInv, Undisturbed
<1>2. CASE opener[o].txn = "behind"
    BY <1>1, <1>2, FailStep DEF StampInside
<1>3. CASE opener[o].txn # "behind"
    <2> DEFINE r == [Advance(o, o) EXCEPT !.txn = "writing"]
    <2>1. opener' = [opener EXCEPT ![o] = r]
        BY <1>3 DEF StampInside
    <2>2. /\ r \in Connections /\ r.at = Advance(o, o).at
          /\ r.target = Advance(o, o).target /\ r.alone = opener[o].alone
        BY <1>1, Advancing DEF Connections
    <2> HIDE DEF r
    <2>3. opener'[o] = r
        BY <2>1 DEF MigInv, MigTypeOK
    <2>4. LetGo(o)' /\ KnowsPrefix(o)' /\ Undisturbed(o)'
        BY <1>1, <2>2, <2>3, Advancing
           DEF LetGo, KnowsPrefix, Undisturbed, Holds, Batch, SCHEMA_VERSION
    <2> QED BY <1>1, <2>1, <2>2, <2>4, OwnStep
<1> QED BY <1>2, <1>3

(* The steps that others see: the stamp, a batch, a connection that joins. *)
(* What such a step does to the others is to make their snapshots stale;   *)
(* batches only come, so they know no less of the file than before.        *)
LEMMA Bystander ==
    ASSUME MigInv, NEW o \in Openers, opener[o].at # "closed", NEW p \in Others(o),
           NEW x \in {"none", "clean", "behind", "writing"},
           opener[p].txn = "none" => x = "none",
           opener'[p] = [opener[p] EXCEPT !.txn = x],
           tables \subseteq tables' /\ columns \subseteq columns'
    PROVE  /\ opener'[p] \in Connections
           /\ opener'[p].at = opener[p].at /\ opener'[p].txn = x
           /\ LetGo(p)' /\ KnowsPrefix(p)' /\ Undisturbed(p)'
<1>1. /\ opener[p] \in Connections /\ p \in Openers /\ o \in Others(p)
      /\ LetGo(p) /\ KnowsPrefix(p) /\ Undisturbed(p)
    BY DEF MigInv, MigTypeOK, Others
<1>2. /\ opener'[p] \in Connections
      /\ opener'[p].at = opener[p].at /\ opener'[p].target = opener[p].target
      /\ opener'[p].alone = opener[p].alone /\ opener'[p].txn = x
    BY <1>1 DEF Connections
<1>3. ~opener[p].alone
    BY <1>1 DEF Undisturbed
<1>4. LetGo(p)' /\ KnowsPrefix(p)'
    BY <1>1, <1>2 DEF LetGo, KnowsPrefix, Holds, Batch
<1> QED BY <1>2, <1>3, <1>4 DEF Undisturbed

(* What becomes of a transaction that another connection's commit          *)
(* overtakes.                                                              *)
LEMMA OvertakenSound ==
    ASSUME MigTypeOK, NEW o \in Openers, NEW p \in Openers
    PROVE  /\ Overtaken(o, p) \in {"none", "clean", "behind", "writing"}
           /\ opener[p].txn = "none" => Overtaken(o, p) = "none"
BY DEF Overtaken, MigTypeOK, Connections

(* ... stamping after it, *)
LEMMA StampStep ==
    ASSUME MigInv, NEW o \in Openers, Stamp(o)
    PROVE  MigInv'
<1> DEFINE t == opener[o].target
<1>1. /\ opener[o].at = "stamp" /\ opener[o].txn = "none"
      /\ UNCHANGED <<tables, columns>> /\ userVersion' = t
      /\ opener' = [p \in Openers |-> Advance(o, p)]
    BY DEF Stamp
<1>2. t \in 1..5 /\ Holds(t)
    BY <1>1 DEF MigInv, MigTypeOK, KnowsPrefix, Connections
<1>3. PrefixFile' /\ StampTrue'
    BY <1>1, <1>2 DEF MigInv, PrefixFile, StampTrue, Holds
<1>4. /\ opener'[o] = Advance(o, o) /\ opener'[o] \in Connections
      /\ LetGo(o)' /\ KnowsPrefix(o)'
    BY <1>1, Advancing DEF LetGo, KnowsPrefix, Holds, Batch, SCHEMA_VERSION
<1>5. ASSUME NEW p \in Others(o)
      PROVE  /\ opener'[p] \in Connections
             /\ opener'[p].at = opener[p].at
             /\ opener[p].txn = "none" => opener'[p].txn = "none"
             /\ LetGo(p)' /\ KnowsPrefix(p)' /\ Undisturbed(p)'
    <2>1. p \in Openers /\ opener'[p] = [opener[p] EXCEPT !.txn = Overtaken(o, p)]
        BY <1>1 DEF Advance, Others
    <2>2. /\ opener[o].at # "closed" /\ MigTypeOK
          /\ tables \subseteq tables' /\ columns \subseteq columns'
        BY <1>1 DEF MigInv
    <2>3. /\ Overtaken(o, p) \in {"none", "clean", "behind", "writing"}
          /\ opener[p].txn = "none" => Overtaken(o, p) = "none"
        BY <2>1, <2>2, OvertakenSound
    <2> HIDE DEF t
    <2> QED BY <2>1, <2>2, <2>3, Bystander
<1>6. MigTypeOK'
    <2>1. userVersion' \in 0..6
        BY <1>1, <1>2
    <2> QED BY <1>1, <1>4, <1>5, <2>1 DEF MigTypeOK, Others
<1>8. Undisturbed(o)'
    <2>1. SUFFICES ASSUME opener'[o].alone PROVE Undisturbed(o)'
        BY DEF Undisturbed
    <2>2. opener[o].alone /\ Undisturbed(o)
        BY <1>1, <1>4, <2>1, Advancing DEF MigInv
    <2>3. \A p \in Others(o) : opener'[p].at = "closed" /\ opener'[p].txn = "none"
        BY <1>5, <2>2 DEF Undisturbed
    <2> QED BY <1>1, <1>2, <1>4, <2>2, <2>3, Advancing
            DEF Undisturbed, Batch, SCHEMA_VERSION
<1> QED BY <1>3, <1>4, <1>5, <1>6, <1>8 DEF MigInv, Others

(* A batch that runs: the file grows by it, or has it and stays.           *)
LEMMA BatchStep ==
    ASSUME MigInv, NEW o \in Openers, ExecBatch(o)
    PROVE  MigInv'
<1>0. /\ opener[o].at = "exec" /\ opener[o] \in Connections
      /\ LetGo(o) /\ Undisturbed(o) /\ KnowsPrefix(o)
      /\ UNCHANGED userVersion
    BY DEF ExecBatch, MigInv, MigTypeOK
<1>9. PICK t \in 1..5 : t = opener[o].target
    BY <1>0 DEF KnowsPrefix, Connections
<1> DEFINE b == MIGRATIONS[t]
<1>1. /\ opener[o].at = "exec" /\ opener[o] \in Connections
      /\ opener[o].target = t /\ Holds(t - 1) /\ LetGo(o) /\ Undisturbed(o)
      /\ UNCHANGED userVersion /\ Batch(o) = b
    BY <1>0, <1>9 DEF KnowsPrefix, Batch
<1>2. /\ \A c \in b.columns : c[1] \in tables
      /\ b.signature = {} <=> b.columns = {}
      /\ b.signature \subseteq b.columns
    BY <1>1, ColumnsFit DEF Holds
<1> HIDE DEF b
<1>3. CASE opener[o].txn # "none"
    <2>1. ~opener[o].alone
        BY <1>1, <1>3 DEF Undisturbed
    <2>2. FailOpen(o, "ddl") /\ UNCHANGED <<tables, columns, userVersion>>
        BY <1>1, <1>3 DEF ExecBatch
    <2> QED BY <1>1, <2>1, <2>2, FailStep
<1>4. CASE opener[o].txn = "none" /\ b.columns \cap columns # {}
    <2> DEFINE r == [opener[o] EXCEPT !.at = "heal", !.txn = "clean"]
    <2>1. opener' = [opener EXCEPT ![o] = r] /\ UNCHANGED <<tables, columns>>
        BY <1>1, <1>2, <1>4 DEF ExecBatch, MigInv, MigTypeOK
    <2>2. ~opener[o].alone
        <3>1. Holds(t)
            BY <1>1, <1>4, ColumnProvesBatch DEF MigInv, b
        <3>2. b.columns \subseteq columns
            <4>1. t - 1 \in 0..4 /\ (t - 1) + 1 = t
                BY <1>1
            <4>2. ColumnsOf(t) = ColumnsOf(t - 1) \cup b.columns
                BY <4>1, Cumulative DEF b
            <4> QED BY <3>1, <4>2 DEF Holds
        <3> QED BY <1>1, <1>2, <1>4, <3>2 DEF Undisturbed
    <2>3. /\ r \in Connections /\ r.at = "heal" /\ r.target = t
          /\ r.alone = opener[o].alone
        BY <1>1 DEF Connections, Steps
    <2> HIDE DEF r
    <2>4. opener'[o] = r
        BY <2>1 DEF MigInv, MigTypeOK
    <2>5. LetGo(o)' /\ KnowsPrefix(o)' /\ Undisturbed(o)'
        BY <1>1, <2>1, <2>2, <2>3, <2>4 DEF LetGo, KnowsPrefix, Undisturbed, Holds
    <2> QED BY <1>1, <2>1, <2>3, <2>5, OwnStep
<1>5. CASE opener[o].txn = "none" /\ b.columns \cap columns = {}
    <2> DEFINE r == [opener[o] EXCEPT !.at = "stamp"]
               y(p) == IF Writes(b) THEN Overtaken(o, p) ELSE opener[p].txn
    <2>1. /\ tables' = tables \cup b.tables /\ columns' = columns \cup b.columns
          /\ opener' = [p \in Openers |->
                  [opener[p] EXCEPT !.txn = IF Writes(b) THEN Overtaken(o, p) ELSE @,
                                    !.at = IF p = o THEN "stamp" ELSE @]]
        BY <1>1, <1>2, <1>5 DEF ExecBatch
    <2>2. PrefixFile' /\ Holds(t)'
        BY <1>1, <2>1, BatchCompletes DEF MigInv, b
    <2>3. StampTrue'
        BY <1>1, <2>1 DEF MigInv, StampTrue
    <2>4. ASSUME NEW p \in Openers
          PROVE  /\ y(p) \in {"none", "clean", "behind", "writing"}
                 /\ opener[p].txn = "none" => y(p) = "none"
                 /\ p # o => opener'[p] = [opener[p] EXCEPT !.txn = y(p)]
                 /\ p = o => opener'[p] = [opener[p] EXCEPT !.txn = y(p), !.at = "stamp"]
        <3>1. opener[p] \in Connections
            BY DEF MigInv, MigTypeOK
        <3>2. opener'[p] = [opener[p] EXCEPT !.txn = y(p),
                                             !.at = IF p = o THEN "stamp" ELSE opener[p].at]
            BY <2>1, <3>1
        <3>3. /\ y(p) \in {"none", "clean", "behind", "writing"}
              /\ opener[p].txn = "none" => y(p) = "none"
            BY <3>1, OvertakenSound DEF MigInv, Connections
        <3> HIDE DEF y
        <3>4. p # o => opener'[p] = [opener[p] EXCEPT !.txn = y(p)]
            BY <3>1, <3>2 DEF Connections
        <3> QED BY <3>2, <3>3, <3>4
    <2> HIDE DEF y
    <2>5. ASSUME NEW p \in Others(o)
          PROVE  /\ opener'[p] \in Connections
                 /\ opener'[p].at = opener[p].at
                 /\ opener[p].txn = "none" => opener'[p].txn = "none"
                 /\ LetGo(p)' /\ KnowsPrefix(p)' /\ Undisturbed(p)'
        <3>1. p \in Openers /\ p # o
            BY DEF Others
        <3>2. tables \subseteq tables' /\ columns \subseteq columns'
            BY <2>1
        <3> QED BY <1>1, <2>4, <3>1, <3>2, Bystander
    <2>6. /\ opener'[o] \in Connections /\ opener'[o].at = "stamp"
          /\ opener'[o].target = t /\ opener'[o].txn = "none"
          /\ opener'[o].alone = opener[o].alone
        <3>1. y(o) = "none"
            BY <1>5, <2>4
        <3>2. opener'[o] = [opener[o] EXCEPT !.txn = "none", !.at = "stamp"]
            BY <2>4, <3>1
        <3> QED BY <1>1, <3>2 DEF Connections, Steps
    <2>7. LetGo(o)' /\ KnowsPrefix(o)'
        BY <1>1, <2>2, <2>6 DEF LetGo, KnowsPrefix
    <2>8. Undisturbed(o)'
        BY <1>1, <2>5, <2>6 DEF Undisturbed
    <2>9. MigTypeOK'
        BY <1>1, <2>1, <2>5, <2>6 DEF MigInv, MigTypeOK, Others
    <2> QED BY <2>2, <2>3, <2>5, <2>7, <2>8, <2>9 DEF MigInv, Others
<1> QED BY <1>3, <1>4, <1>5

(* ... opening the file, with or without another connection, *)
LEMMA ConnectStep ==
    ASSUME MigInv, NEW o \in Openers, Connect(o)
    PROVE  MigInv'
<1> DEFINE Alone == \A q \in Others(o) : opener[q].at = "closed"
<1>1. /\ opener[o].at = "closed" /\ UNCHANGED <<tables, columns, userVersion>>
      /\ Alone \in BOOLEAN
    BY DEF Connect
<1>2. opener'[o] = [Unopened EXCEPT !.at = "version", !.alone = Alone]
    BY DEF Connect
<1> HIDE DEF Alone
<1>3. /\ opener'[o] \in Connections /\ opener'[o].at = "version"
      /\ opener'[o].txn = "none" /\ opener'[o].alone = Alone
    <2>1. Unopened \in Connections /\ Unopened.txn = "none"
        BY DEF Unopened, Connections
    <2>2. opener'[o] \in Connections
        BY <1>1, <1>2, <2>1 DEF Connections, Steps
    <2> QED BY <1>1, <1>2, <2>1, <2>2 DEF Connections
<1>4. ASSUME NEW p \in Others(o)
      PROVE  /\ opener'[p] \in Connections /\ opener'[p].at = opener[p].at
             /\ opener'[p].target = opener[p].target /\ opener'[p].txn = opener[p].txn
             /\ opener'[p].alone = FALSE
             /\ LetGo(p)' /\ KnowsPrefix(p)' /\ Undisturbed(p)'
    <2>1. /\ opener[p] \in Connections /\ LetGo(p) /\ KnowsPrefix(p)
          /\ opener'[p] = [opener[p] EXCEPT !.alone = FALSE]
        BY DEF Connect, MigInv, MigTypeOK, Others
    <2>2. /\ opener'[p] \in Connections /\ opener'[p].at = opener[p].at
          /\ opener'[p].target = opener[p].target /\ opener'[p].txn = opener[p].txn
          /\ opener'[p].alone = FALSE
        BY <2>1 DEF Connections
    <2> QED BY <1>1, <2>1, <2>2 DEF LetGo, KnowsPrefix, Undisturbed, Holds, Batch
<1>5. LetGo(o)' /\ KnowsPrefix(o)' /\ Undisturbed(o)'
    <2>1. Alone => \A p \in Others(o) : opener'[p].at = "closed" /\ opener'[p].txn = "none"
        BY <1>4 DEF Alone, MigInv, LetGo, Others
    <2> QED BY <1>3, <2>1 DEF LetGo, KnowsPrefix, Undisturbed
<1>6. MigTypeOK' /\ PrefixFile' /\ StampTrue'
    BY <1>1, <1>3, <1>4 DEF Connect, MigInv, MigTypeOK, PrefixFile, StampTrue, Others
<1> QED BY <1>4, <1>5, <1>6 DEF MigInv, Others

(* ... and closing it, or dying. *)
LEMMA DisconnectStep ==
    ASSUME MigInv, NEW o \in Openers, Disconnect(o)
    PROVE  MigInv'
<1>1. Unopened \in Connections /\ Unopened.at = "closed" /\ Unopened.txn = "none"
      /\ Unopened.alone = FALSE
    BY DEF Unopened, Connections
<1>2. opener'[o] = Unopened
    BY DEF Disconnect, MigInv, MigTypeOK
<1>3. LetGo(o)' /\ KnowsPrefix(o)' /\ Undisturbed(o)'
    BY <1>1, <1>2 DEF LetGo, KnowsPrefix, Undisturbed
<1> QED BY <1>1, <1>3, OwnStep DEF Disconnect

(* Every step keeps the inductive invariant. *)
LEMMA MigStep == MigInv /\ [MigNext]_mvars => MigInv'
<1> SUFFICES ASSUME MigInv, [MigNext]_mvars PROVE MigInv'
    OBVIOUS
<1>1. ASSUME NEW o \in Openers, OpenStep(o) PROVE MigInv'
    <2>1. CASE ReadVersion(o)
        BY <2>1, ReadVersionStep
    <2>2. CASE ProbeSignature(o)
        BY <2>2, ProbeStep
    <2>3. CASE ExecBatch(o)
        BY <2>3, BatchStep
    <2>4. CASE Heal(o)
        BY <2>4, HealStep
    <2>5. CASE Stamp(o)
        BY <2>5, StampStep
    <2>6. CASE StampInside(o)
        BY <2>6, StampInsideStep
    <2>7. CASE Busy(o)
        <3>1. ~opener[o].alone
            BY <2>7 DEF Busy, LockedFor, MigInv, Undisturbed
        <3> QED BY <2>7, <3>1, FailStep DEF Busy
    <2> QED BY <1>1, <2>1, <2>2, <2>3, <2>4, <2>5, <2>6, <2>7 DEF OpenStep
<1>2. ASSUME NEW o \in Openers, Fault(o) PROVE MigInv'
    BY <1>2, FailStep DEF Fault, InProgress, Steps
<1>3. CASE UNCHANGED mvars
    BY <1>3 DEF mvars, MigInv, MigTypeOK, PrefixFile, StampTrue, LetGo,
                KnowsPrefix, Undisturbed, Holds, Batch
<1> QED BY <1>1, <1>2, <1>3, ConnectStep, DisconnectStep DEF MigNext

(* The invariant holds in every state, whatever connections there are.     *)
THEOREM MigrationInvariant == MigSpec => []MigInv
<1>1. MigInit => MigInv
    BY MigInitially
<1>2. MigInv /\ [MigNext]_mvars => MigInv'
    BY MigStep
<1> QED BY <1>1, <1>2, PTL DEF MigSpec

-----------------------------------------------------------------------------
(* What follows for the file and for open. *)

(* However many connections open one file at the same time, and whichever  *)
(* of them fail, the stamp that Store::open writes never claims a batch    *)
(* that is not in the file.                                                *)
THEOREM StampIsTrue == MigSpec => []StampTrue
BY MigrationInvariant, PTL DEF MigInv

(* A connection that Store::open returned works on the complete schema. *)
THEOREM OpenedSchemaIsCurrent == MigSpec => []OpenedIsCurrent
<1>1. MigInv => OpenedIsCurrent
    <2> SUFFICES ASSUME MigInv, NEW o \in Openers, opener[o].at = "open"
                 PROVE  tables = TablesOf(5) /\ columns = ColumnsOf(5)
        BY DEF OpenedIsCurrent, SCHEMA_VERSION
    <2>1. PICK k \in 0..5 : tables = TablesOf(k) /\ columns = ColumnsOf(k)
        BY DEF MigInv, PrefixFile, SCHEMA_VERSION
    <2>2. TablesOf(k) \subseteq TablesOf(5) /\ ColumnsOf(k) \subseteq ColumnsOf(5)
        BY Longer
    <2> QED BY <2>1, <2>2 DEF MigInv, KnowsPrefix, Holds, SCHEMA_VERSION
<1> QED BY <1>1, MigrationInvariant, PTL

(* No history of crashes, faults and races leaves a file that an open      *)
(* without rivals fails on, other than a newer build's: the signature      *)
(* probe keeps such an open from ever running a batch twice.               *)
THEOREM NeverLeftUnopenable == MigSpec => []NeverUnopenable
<1>1. MigInv => NeverUnopenable
    BY DEF MigInv, Undisturbed, NeverUnopenable
<1> QED BY <1>1, MigrationInvariant, PTL

-----------------------------------------------------------------------------
(* Claims: the conflicts that are stored, for any statements and bounds. *)

(* The types of what is stored. *)
Metrics == {s.metric : s \in Statements}
ClaimRecords ==
    [metric : Metrics, object : Objects, year : Nat, negated : BOOLEAN, doc : Documents]
Kinds == {"negation-conflict", "undated-disagreement", "same-period-disagreement",
          "cross-period"}

ClaimsTyped ==
    /\ claims \in Seq(ClaimRecords)
    /\ kept \subseteq 1..Len(claims)
    /\ conflicts \in Seq([a : Nat, b : Nat, kind : Kinds])

ClaimsInv == ClaimsTyped /\ ConflictsJustified

(* The product of two numbers is a number. *)
LEMMA Product == ASSUME NEW m \in Nat, NEW n \in Nat PROVE m * n \in Nat
OBVIOUS

(* parse_first_number gives a number, in hundredths, for every object a    *)
(* statement can have: of its tokens and groups none is lost from the      *)
(* type.                                                                   *)
LEMMA ParseNat ==
    ASSUME NEW o \in Objects
    PROVE  parse_first_number(o) \in Nat
<1>1. CASE o.groups = <<>>
    BY <1>1 DEF parse_first_number
<1>2. CASE o.groups # <<>>
    <2> DEFINE g == o.groups
               ts == Tokens(o)
    <2>1. g \in Seq(Nat) /\ Len(g) \in Nat \ {0} /\ o.suffix \in Nat /\ o.word \in Nat
        BY <1>2 DEF Objects
    <2> DEFINE first == [k \in 1..Len(g) |->
                            [num |-> g[k], mult |-> IF k = Len(g) THEN o.suffix ELSE 1]]
               second == IF o.word = 1 THEN <<>> ELSE <<[num |-> -1, mult |-> o.word]>>
    <2> HIDE DEF g
    <2>2. first \in Seq([num : Int, mult : Nat]) /\ Len(first) = Len(g)
        BY <2>1
    <2>3. second \in Seq([num : Int, mult : Nat])
        <3> DEFINE T == [num : Int, mult : Nat]
                   t == [num |-> -1, mult |-> o.word]
        <3>1. t \in T
            BY <2>1
        <3> HIDE DEF T, t
        <3>2. <<>> \in Seq(T) /\ <<t>> \in Seq(T)
            BY <3>1, Elements
        <3> QED
            BY <3>2 DEF T, t
    <2>4. ts = first \o second
        BY DEF Tokens, g
    <2>5. first[1].num \in Nat /\ first[1].mult \in Nat
        BY <2>1
    <2> HIDE DEF first, second, ts
    <2>6. ts \in Seq([num : Int, mult : Nat]) /\ ts[1] = first[1]
        BY <2>1, <2>2, <2>3, <2>4
    <2> DEFINE m == IF Len(ts) > 1 /\ ts[1].mult = 1 /\ ts[2].num = -1 THEN ts[2].mult ELSE 1
    <2>7. m \in Nat
        <3>1. CASE Len(ts) > 1
            <4> DEFINE T == [num : Int, mult : Nat]
            <4>1. ts \in Seq(T)
                BY <2>6
            <4> HIDE DEF T
            <4>2. Len(ts) \in Nat /\ \A k \in 1..Len(ts) : ts[k] \in T
                BY <4>1, Elements
            <4>3. ts[2] \in T
                BY <3>1, <4>2
            <4> USE DEF T
            <4> QED
                BY <4>3
        <3> QED
            BY <3>1
    <2>8. parse_first_number(o) = ts[1].num * ts[1].mult * m
        BY <1>2 DEF parse_first_number, ts
    <2> HIDE DEF m
    <2> DEFINE x == ts[1].num
               y == ts[1].mult
    <2>9. x \in Nat /\ y \in Nat
        BY <2>5, <2>6
    <2> HIDE DEF x, y
    <2>10. x * y \in Nat
        BY <2>9, Product
    <2> DEFINE z == x * y
    <2> HIDE DEF z
    <2>11. z * m \in Nat
        BY <2>7, <2>10, Product DEF z
    <2> QED
        BY <2>8, <2>11 DEF x, y, z
<1> QED
    BY <1>1, <1>2

(* Whether two numbers differ (by more than five per cent) does not depend *)
(* on which comes first.                                                   *)
LEMMA DifferSymmetric ==
    ASSUME NEW v \in Nat, NEW w \in Nat
    PROVE  Differ(v, w) <=> Differ(w, v)
BY DEF Differ

Same(c) == {o \in kept : /\ claims[o].metric = c.metric
                         /\ parse_first_number(claims[o].object) > 0}
Disagree(c, o) == Differ(parse_first_number(c.object), parse_first_number(claims[o].object))

(* What detect_conflicts compares a claim with a number to: the earlier    *)
(* claims of its metric, newest first, until MAX_COMPARISONS are compared  *)
(* or MAX_CONFLICTS_PER_CLAIM found. A claim that disagrees and was not    *)
(* found has so many newer ones before it.                                 *)
LEMMA NumericCompared ==
    ASSUME ClaimsTyped, NEW c \in ClaimRecords, parse_first_number(c.object) > 0
    PROVE  \E F \in SUBSET Same(c) :
              /\ NumericConflicts(c) = {<<o, Kind(c, claims[o])>> : o \in F}
              /\ \A o \in F : Disagree(c, o)
              /\ \A o \in Same(c) : Disagree(c, o) /\ o \notin F =>
                    \/ \E W \in SUBSET {p \in Same(c) : p > o} :
                          Cardinality(W) = MAX_COMPARISONS - 1
                    \/ Cardinality(F) = MAX_CONFLICTS_PER_CLAIM /\ \A p \in F : p > o
<1> DEFINE S == Same(c)
           found == Listing(S, Descending)
           max == MAX_COMPARISONS - 1
           window == Truncate(found, max)
           differing == {k \in 1..Len(window) : Disagree(c, window[k])}
           most == Retain(window, differing)
           capped == Truncate(most, MAX_CONFLICTS_PER_CLAIM)
           F == ToSet(capped)
<1>1. NumericConflicts(c) = {<<o, Kind(c, claims[o])>> : o \in F}
    BY DEF NumericConflicts, numeric_claims_for_keys, Same, Disagree
<1>2. S \in SUBSET Int /\ IsFiniteSet(S)
    <2>0. kept \subseteq 1..Len(claims) /\ claims \in Seq(ClaimRecords)
        BY DEF ClaimsTyped
    <2>a. S \in SUBSET kept
        BY DEF Same
    <2> HIDE DEF S
    <2>1. Len(claims) \in Nat /\ S \in SUBSET (1..Len(claims))
        BY <2>0, <2>a, Elements
    <2>2. IsFiniteSet(1..Len(claims))
        BY <2>1, Counted
    <2>3. IsFiniteSet(S)
        BY <2>1, <2>2, FS_Subset
    <2>4. S \in SUBSET Int
        BY <2>1
    <2> QED
        BY <2>3, <2>4
<1>3. max \in Nat /\ MAX_CONFLICTS_PER_CLAIM \in Nat
    BY ClaimsAssumption
<1> HIDE DEF S, max
<1>4. /\ found \in Seq(S)
      /\ \A x \in S : \E k \in 1..Len(found) : found[k] = x
      /\ \A i, j \in 1..Len(found) : i < j => found[i] > found[j]
      /\ \A i, j \in 1..Len(found) : found[i] = found[j] => i = j
    <2>1. StrictOrder(S, Descending)
        BY <1>2, Orderly
    <2>2. found = Listing(S, Descending)
        OBVIOUS
    <2> HIDE DEF found
    <2>3. /\ found \in Seq(S)
          /\ \A x \in S : \E k \in 1..Len(found) : found[k] = x
          /\ \A i, j \in 1..Len(found) : i < j => <<found[i], found[j]>> \in Descending
          /\ \A i, j \in 1..Len(found) : found[i] = found[j] => i = j
        BY ONLY <1>2, <2>1, <2>2, ListingSound
    <2> QED
        BY <2>3 DEF Descending
<1> HIDE DEF found
<1>5. /\ window \in Seq(S) /\ Len(window) <= max /\ Len(window) <= Len(found)
      /\ Len(window) = max \/ Len(window) = Len(found)
      /\ \A k \in 1..Len(window) : window[k] = found[k]
    BY <1>3, <1>4, TruncateSound
<1> HIDE DEF window
<1>r. PICK o : Retained(S, window, differing, most, o)
    <2>1. window \in Seq(S) /\ differing \in SUBSET (1..Len(window))
          /\ most = Retain(window, differing)
        BY <1>5
    <2> HIDE DEF most, differing
    <2> QED
        BY <2>1, RetainSound
<1>6. /\ most \in Seq(S)
      /\ \A k \in 1..Len(most) : o[k] \in differing /\ most[k] = window[o[k]]
      /\ \A i, j \in 1..Len(most) : i < j => o[i] < o[j]
      /\ \A p \in differing : \E k \in 1..Len(most) : o[k] = p
    <2> HIDE DEF most, differing
    <2> QED
        BY <1>r DEF Retained
<1> HIDE DEF most
<1>7. /\ capped \in Seq(S) /\ Len(capped) <= MAX_CONFLICTS_PER_CLAIM /\ Len(capped) <= Len(most)
      /\ Len(capped) = MAX_CONFLICTS_PER_CLAIM \/ Len(capped) = Len(most)
      /\ \A k \in 1..Len(capped) : capped[k] = most[k]
    <2>1. capped = Truncate(most, MAX_CONFLICTS_PER_CLAIM)
        OBVIOUS
    <2>2. most \in Seq(S)
        BY <1>6
    <2> HIDE DEF capped
    <2> QED
        BY <2>1, <2>2, <1>3, TruncateSound
<1> HIDE DEF capped
<1>8. F \in SUBSET S
    BY <1>7 DEF ToSet
<1>9. ASSUME NEW k \in 1..Len(capped)
      PROVE  /\ k \in 1..Len(most) /\ capped[k] = found[o[k]] /\ o[k] \in 1..Len(found)
             /\ Disagree(c, capped[k])
    <2>1. k \in 1..Len(most)
        BY <1>6, <1>7
    <2>2. o[k] \in 1..Len(window) /\ Disagree(c, window[o[k]]) /\ capped[k] = window[o[k]]
        BY <2>1, <1>6, <1>7
    <2>3. o[k] \in 1..Len(found)
        <3> Len(window) \in Nat /\ Len(found) \in Nat /\ Len(window) <= Len(found)
            BY <1>4, <1>5
        <3> QED
            BY <2>2
    <2> QED
        BY <2>1, <2>2, <2>3, <1>5
<1>10. \A x \in F : Disagree(c, x)
    BY <1>9, <1>7 DEF ToSet
<1>11. ASSUME NEW x \in S, Disagree(c, x), x \notin F
       PROVE  \/ \E W \in SUBSET {p \in S : p > x} : Cardinality(W) = max
              \/ Cardinality(F) = MAX_CONFLICTS_PER_CLAIM /\ \A p \in F : p > x
    <2>1. PICK k \in 1..Len(found) : found[k] = x
        BY <1>4
    <2>2. CASE k > Len(window)
        <3>1. Len(window) = max
            BY <1>5, <2>2
        <3> DEFINE W == {found[i] : i \in 1..max}
                   f == [i \in 1..max |-> found[i]]
        <3>2. \A i \in 1..max : i \in 1..Len(found) /\ i < k
            BY <1>3, <1>4, <1>5, <2>2, <3>1
        <3>3. W \in SUBSET {p \in S : p > x}
            <4>1. ASSUME NEW i \in 1..max
                  PROVE  found[i] \in S /\ found[i] > x
                <5>1. i \in 1..Len(found) /\ k \in 1..Len(found) /\ i < k
                    BY <3>2, <2>1
                <5>2. found[i] > found[k]
                    BY <5>1, <1>4
                <5>3. found[i] \in S
                    BY <5>1, <1>4
                <5> QED
                    BY <5>2, <5>3, <2>1
            <4> QED
                BY <4>1
        <3>4. f \in [1..max -> W] /\ \A i, j \in 1..max : f[i] = f[j] => i = j
            BY <3>2, <1>4
        <3>5. f \in Surjection(1..max, W) /\ f \in Injection(1..max, W)
            BY <3>4 DEF Surjection, Injection, IsInjective
        <3>6. IsFiniteSet(1..max) /\ Cardinality(1..max) = max
            BY <1>3, Counted
        <3> HIDE DEF W, f
        <3>7. Cardinality(W) = max
            BY <3>5, <3>6, FS_Surjection
        <3> QED
            BY <3>3, <3>7
    <2>3. CASE k <= Len(window)
        <3>1. k \in 1..Len(window) /\ window[k] = x
            BY <2>1, <2>3, <1>5
        <3>2. k \in differing
            BY <3>1, <1>11
        <3>3. PICK j \in 1..Len(most) : o[j] = k
            BY <3>2, <1>6
        <3>4. most[j] = x
            BY <3>1, <3>3, <1>6
        <3>5. j > Len(capped)
            <4>1. CASE j <= Len(capped)
                <5>1. j \in 1..Len(capped) /\ capped[j] = x
                    BY <4>1, <3>4, <1>7
                <5>2. x \in F
                    BY <5>1, <1>7 DEF ToSet
                <5> QED
                    BY <5>2, <1>11
            <4> QED
                BY <4>1, <1>6, <1>7
        <3>6. Len(capped) = MAX_CONFLICTS_PER_CLAIM
            BY <3>5, <1>6, <1>7
        <3>7. ASSUME NEW i \in 1..Len(capped)
              PROVE  capped[i] > x
            <4>1. i < j /\ i \in 1..Len(most) /\ j \in 1..Len(most)
                BY <3>5, <1>6, <1>7
            <4>2. o[i] < k
                BY <4>1, <3>3, <1>6
            <4>3. o[i] \in 1..Len(found) /\ k \in 1..Len(found)
                BY <1>9, <2>1
            <4>4. found[o[i]] > found[k]
                BY <4>2, <4>3, <1>4
            <4> QED
                BY <4>4, <2>1, <1>9
        <3>8. \A i, n \in 1..Len(capped) : capped[i] = capped[n] => i = n
            <4> SUFFICES ASSUME NEW i \in 1..Len(capped), NEW n \in 1..Len(capped), i < n
                         PROVE  capped[i] # capped[n]
                BY <1>7
            <4>1. o[i] \in 1..Len(found) /\ o[n] \in 1..Len(found)
                BY <1>9
            <4>2. o[i] < o[n]
                BY <1>9, <1>6
            <4>3. capped[i] = found[o[i]] /\ capped[n] = found[o[n]]
                BY <1>9
            <4> DEFINE u == o[i]
                       v == o[n]
            <4> HIDE DEF u, v
            <4>4. u \in 1..Len(found) /\ v \in 1..Len(found) /\ u < v
                BY <4>1, <4>2 DEF u, v
            <4>5. u # v
                BY <4>4
            <4>6. found[u] # found[v]
                BY <4>4, <4>5, <1>4
            <4> QED
                BY <4>3, <4>6 DEF u, v
        <3> DEFINE N == Len(capped)
        <3>9. N \in Nat /\ capped \in [1..N -> F]
            BY <1>7 DEF ToSet
        <3>10. capped \in Surjection(1..N, F) /\ capped \in Injection(1..N, F)
            BY <3>8, <3>9, <1>7 DEF ToSet, Surjection, Injection, IsInjective
        <3>11. N \in Nat /\ IsFiniteSet(1..N) /\ Cardinality(1..N) = N
            BY <3>9, Counted
        <3>12. \A p \in F : p > x
            BY <3>7, <1>7 DEF ToSet
        <3> HIDE DEF F, N
        <3>13. Cardinality(F) = N
            BY <3>10, <3>11, FS_Surjection
        <3> QED
            BY <3>12, <3>13, <3>6 DEF N
    <2>4. k > Len(window) \/ k <= Len(window)
        BY <2>1, <1>4, <1>5
    <2> QED
        BY <2>2, <2>3, <2>4
<1> HIDE DEF F
<1> QED
    BY <1>1, <1>8, <1>10, <1>11 DEF S, max

KindOf(c, o) == IF c.negated THEN "negation-conflict" ELSE Kind(c, claims[o])
ConflictsOf(c) == IF c.negated THEN NegationConflicts(c) ELSE NumericConflicts(c)

(* The conflicts of a new claim, negated or not: each with a claim that is *)
(* kept, of the same metric, and that it contradicts; of a negated one     *)
(* none is missed.                                                         *)
LEMMA ConflictsFound ==
    ASSUME ClaimsTyped, NEW c \in ClaimRecords
    PROVE  \E F \in SUBSET kept :
              /\ ConflictsOf(c) = {<<o, KindOf(c, o)>> : o \in F}
              /\ \A o \in F :
                     /\ claims[o].metric = c.metric
                     /\ IF c.negated THEN ~claims[o].negated ELSE Disagree(c, o)
              /\ c.negated => \A o \in kept : claims[o].metric = c.metric /\ ~claims[o].negated
                                              => o \in F
              /\ ~c.negated /\ parse_first_number(c.object) > 0 =>
                    /\ F \subseteq Same(c)
                    /\ \A o \in Same(c) : Disagree(c, o) /\ o \notin F =>
                          \/ \E W \in SUBSET {p \in Same(c) : p > o} :
                                Cardinality(W) = MAX_COMPARISONS - 1
                          \/ Cardinality(F) = MAX_CONFLICTS_PER_CLAIM /\ \A p \in F : p > o
<1>1. CASE c.negated
    <2> DEFINE F == {o \in kept : claims[o].metric = c.metric /\ ~claims[o].negated}
    <2>1. ConflictsOf(c) = {<<o, KindOf(c, o)>> : o \in F}
        BY <1>1 DEF ConflictsOf, KindOf, NegationConflicts
    <2> QED
        BY <1>1, <2>1
<1>2. CASE ~c.negated /\ parse_first_number(c.object) > 0
    <2>1. PICK F \in SUBSET Same(c) :
              /\ NumericConflicts(c) = {<<o, Kind(c, claims[o])>> : o \in F}
              /\ \A o \in F : Disagree(c, o)
              /\ \A o \in Same(c) : Disagree(c, o) /\ o \notin F =>
                    \/ \E W \in SUBSET {p \in Same(c) : p > o} :
                          Cardinality(W) = MAX_COMPARISONS - 1
                    \/ Cardinality(F) = MAX_CONFLICTS_PER_CLAIM /\ \A p \in F : p > o
        BY <1>2, NumericCompared
    <2>2. ConflictsOf(c) = {<<o, KindOf(c, o)>> : o \in F}
        BY <1>2, <2>1 DEF ConflictsOf, KindOf
    <2>3. F \in SUBSET kept /\ \A o \in F : claims[o].metric = c.metric
        BY DEF Same
    <2> QED
        BY <1>2, <2>1, <2>2, <2>3
<1>3. CASE ~c.negated /\ ~(parse_first_number(c.object) > 0)
    <2>1. c.object \in Objects
        BY DEF ClaimRecords
    <2>2. parse_first_number(c.object) = 0
        BY <1>3, <2>1, ParseNat
    <2>3. NumericConflicts(c) = {}
        BY <2>2 DEF NumericConflicts
    <2>4. ConflictsOf(c) = {<<o, KindOf(c, o)>> : o \in {}}
        BY <1>3, <2>3 DEF ConflictsOf
    <2> QED
        BY <1>3, <2>4
<1> QED
    BY <1>1, <1>2, <1>3

(* Storing a claim and its conflicts keeps every conflict justified, and   *)
(* misses none beyond the bounds of the code.                              *)
LEMMA PersistKeeps ==
    ASSUME ClaimsInv, NEW d \in Documents, NEW s \in Statements, persist_claim(d, s)
    PROVE  ClaimsInv'
<1> DEFINE c == [metric |-> s.metric, object |-> s.object, year |-> s.year,
                 negated |-> s.negated, doc |-> d]
<1>0. PICK id : id = Len(claims) + 1
    OBVIOUS
<1>1. c \in ClaimRecords
    BY ClaimsAssumption DEF ClaimRecords, Metrics
<1>2. /\ claims \in Seq(ClaimRecords) /\ kept \subseteq 1..Len(claims)
      /\ conflicts \in Seq([a : Nat, b : Nat, kind : Kinds])
    BY DEF ClaimsInv, ClaimsTyped
<1>3. /\ claims' = Append(claims, c) /\ kept' = kept \cup {id}
      /\ conflicts' = conflicts \o
             SetToSeq({[a |-> f[1], b |-> id, kind |-> f[2]] : f \in ConflictsOf(c)})
    BY <1>0 DEF persist_claim, ConflictsOf
<1> HIDE DEF c
<1>4. id \in Nat /\ Len(claims) \in Nat /\ id = Len(claims) + 1
    BY <1>0, <1>2
<1>5. /\ Len(claims') = id /\ claims'[id] = c /\ claims' \in Seq(ClaimRecords)
      /\ \A i \in 1..Len(claims) : claims'[i] = claims[i]
    BY <1>1, <1>2, <1>3, <1>4
<1>6. PICK F \in SUBSET kept :
          /\ ConflictsOf(c) = {<<o, KindOf(c, o)>> : o \in F}
          /\ \A o \in F :
                 /\ claims[o].metric = c.metric
                 /\ IF c.negated THEN ~claims[o].negated ELSE Disagree(c, o)
          /\ c.negated => \A o \in kept : claims[o].metric = c.metric /\ ~claims[o].negated
                                          => o \in F
          /\ ~c.negated /\ parse_first_number(c.object) > 0 =>
                /\ F \subseteq Same(c)
                /\ \A o \in Same(c) : Disagree(c, o) /\ o \notin F =>
                      \/ \E W \in SUBSET {p \in Same(c) : p > o} :
                            Cardinality(W) = MAX_COMPARISONS - 1
                      \/ Cardinality(F) = MAX_CONFLICTS_PER_CLAIM /\ \A p \in F : p > o
    BY <1>1, ConflictsFound DEF ClaimsInv
<1> DEFINE K == [o \in F |-> KindOf(c, o)]
           R == {[a |-> o, b |-> id, kind |-> K[o]] : o \in F}
           q == SetToSeq(R)
<1>7. R = {[a |-> f[1], b |-> id, kind |-> f[2]] : f \in ConflictsOf(c)}
    <2> DEFINE row(o) == [a |-> o, b |-> id, kind |-> KindOf(c, o)]
               Q == {[a |-> f[1], b |-> id, kind |-> f[2]] : f \in ConflictsOf(c)}
    <2>1. ASSUME NEW o \in F PROVE row(o) \in Q
        <3>1. <<o, KindOf(c, o)>> \in ConflictsOf(c)
            BY <1>6
        <3> QED
            BY <3>1
    <2>2. ASSUME NEW f \in ConflictsOf(c) PROVE \E o \in F : [a |-> f[1], b |-> id, kind |-> f[2]] = row(o)
        BY <1>6
    <2> QED
        BY <2>1, <2>2
<1>8. IsFiniteSet(F)
    <2>1. IsFiniteSet(1..Len(claims)) /\ F \in SUBSET (1..Len(claims))
        BY <1>2, <1>4, Counted
    <2> QED
        BY <2>1, FS_Subset
<1>9. conflicts' = conflicts \o q
    BY <1>3, <1>7
<1>10. /\ q \in Seq(R) /\ ToSet(q) = R
       /\ \A i, j \in 1..Len(q) : q[i].a = q[j].a => i = j
    <2> HIDE DEF K
    <2> DEFINE f == [o \in F |-> [a |-> o, b |-> id, kind |-> K[o]]]
    <2>1. f \in Surjection(F, R)
        BY DEF Surjection
    <2>2. q = SetToSeq(R) /\ \A x, y \in R : x.a = y.a => x = y
        OBVIOUS
    <2> HIDE DEF R, q, f
    <2>3. IsFiniteSet(R)
        BY ONLY <1>8, <2>1, FS_Surjection
    <2>4. /\ q \in Seq(R) /\ ToSet(q) = R
          /\ \A i, j \in 1..Len(q) : q[i] = q[j] => i = j
        BY ONLY <2>2, <2>3, SetToSeqSound
    <2>5. \A i \in 1..Len(q) : q[i] \in R
        BY ONLY <2>4, Elements
    <2> QED
        BY ONLY <2>2, <2>4, <2>5
<1>11. \A o \in F : o \in 1..Len(claims) /\ K[o] = KindOf(c, o) /\ KindOf(c, o) \in Kinds
    BY <1>2 DEF KindOf, Kind, Kinds
<1> HIDE DEF q, K
<1>12. R \subseteq [a : Nat, b : Nat, kind : Kinds]
    BY <1>4, <1>11
<1>13. \A r \in R : r.a \in F /\ r.b = id /\ r.kind = KindOf(c, r.a)
    BY <1>11
<1>14. ASSUME NEW o \in F
       PROVE  \E r \in R : r.a = o /\ r.b = id
    <2>1. [a |-> o, b |-> id, kind |-> K[o]] \in R
        OBVIOUS
    <2> QED
        BY <2>1
<1> HIDE DEF R
<1> DEFINE T == [a : Nat, b : Nat, kind : Kinds]
<1>15. q \in Seq(T)
    BY <1>10, <1>12, Widen
<1> HIDE DEF T
<1>16. /\ conflicts' \in Seq(T) /\ Len(conflicts') = Len(conflicts) + Len(q)
       /\ \A i \in 1..Len(conflicts) : conflicts'[i] = conflicts[i]
       /\ \A i \in (Len(conflicts) + 1)..Len(conflicts') :
              i - Len(conflicts) \in 1..Len(q) /\ conflicts'[i] = q[i - Len(conflicts)]
       /\ Rows' = Rows \cup R
    <2>1. conflicts \in Seq(T)
        BY <1>2 DEF T
    <2> QED
        BY <2>1, <1>9, <1>10, <1>15, Joined DEF Rows
<1>17. ClaimsTyped'
    <2>1. kept' \subseteq 1..Len(claims')
        <3>1. id \in 1..id /\ \A i \in 1..Len(claims) : i \in 1..id
            BY <1>4
        <3> QED
            BY <3>1, <1>2, <1>3, <1>5
    <2> QED
        BY <2>1, <1>5, <1>16 DEF ClaimsTyped, T
<1>18. \A i \in 1..Len(claims) : Value(i)' = Value(i) /\ Numeric(i)' = Numeric(i)
    BY <1>5 DEF Value, Numeric
<1>19. Value(id)' = parse_first_number(c.object) /\ Numeric(id)' = (parse_first_number(c.object) > 0)
    BY <1>5 DEF Value, Numeric
<1>20. ASSUME NEW i \in 1..Len(claims)
       PROVE  Value(i) \in Nat /\ i # id /\ i < id
    <2>1. claims[i].object \in Objects
        <3>1. claims[i] \in ClaimRecords
            BY <1>2, Elements
        <3> QED
            BY <3>1 DEF ClaimRecords
    <2> QED
        BY <2>1, <1>4, ParseNat DEF Value
<1>21. parse_first_number(c.object) \in Nat
    BY <1>1, ParseNat DEF ClaimRecords
<1>22. Justified'
    <2> SUFFICES ASSUME NEW r \in Rows'
                 PROVE  /\ {r.a, r.b} \subseteq kept' /\ r.a < r.b
                        /\ claims'[r.a].metric = claims'[r.b].metric
                        /\ IF r.kind = "negation-conflict"
                           THEN claims'[r.b].negated /\ ~claims'[r.a].negated
                           ELSE /\ Differ(Value(r.a)', Value(r.b)')
                                /\ r.kind = "same-period-disagreement" <=>
                                       claims'[r.a].year = claims'[r.b].year /\ claims'[r.a].year # 0
        BY DEF Justified
    <2>1. CASE r \in Rows
        BY <2>1, <1>2, <1>3, <1>5, <1>18 DEF Justified, ClaimsInv, ConflictsJustified
    <2>2. CASE r \in R
        <3>1. r.a \in F /\ r.b = id /\ r.kind = KindOf(c, r.a) /\ r.a \in 1..Len(claims)
            BY <2>2, <1>13, <1>2
        <3>2. {r.a, r.b} \subseteq kept' /\ r.a < r.b
            BY <3>1, <1>3, <1>20
        <3>3. claims'[r.a] = claims[r.a] /\ claims'[r.b] = c
            BY <3>1, <1>5
        <3>4. CASE c.negated
            BY <3>1, <3>2, <3>3, <3>4, <1>6 DEF KindOf
        <3>5. CASE ~c.negated
            <4>1. Disagree(c, r.a) /\ claims[r.a].metric = c.metric
                BY <3>1, <3>5, <1>6
            <4>2. Differ(parse_first_number(c.object), Value(r.a))
                BY <4>1 DEF Disagree, Value
            <4>3. Differ(Value(r.a)', Value(r.b)')
                BY <4>2, <3>1, <1>18, <1>19, <1>20, <1>21, DifferSymmetric
            <4>4. r.kind # "negation-conflict"
                  /\ (r.kind = "same-period-disagreement" <=>
                            claims[r.a].year = c.year /\ claims[r.a].year # 0)
                BY <3>1, <3>5 DEF KindOf, Kind
            <4> QED
                BY <3>2, <3>3, <4>1, <4>3, <4>4
        <3> QED
            BY <3>4, <3>5
    <2> QED
        BY <2>1, <2>2, <1>16
<1>23. ASSUME NEW i \in 1..Len(conflicts')
       PROVE  \/ i \in 1..Len(conflicts) /\ conflicts'[i] = conflicts[i]
                    /\ conflicts[i].a \in kept /\ conflicts[i].b \in kept
              \/ i \in (Len(conflicts) + 1)..Len(conflicts')
                    /\ conflicts'[i].a \in kept /\ conflicts'[i].b = id
    <2>1. CASE i \in 1..Len(conflicts)
        <3>1. conflicts[i] \in Rows
            BY <2>1, <1>2, Image DEF Rows
        <3> QED
            BY <2>1, <3>1, <1>16 DEF Justified, ClaimsInv, ConflictsJustified
    <2>2. CASE i \in (Len(conflicts) + 1)..Len(conflicts')
        <3>1. i - Len(conflicts) \in 1..Len(q) /\ conflicts'[i] = q[i - Len(conflicts)]
            BY <2>2, <1>16
        <3>2. q[i - Len(conflicts)] \in R
            BY <3>1, <1>10, Elements
        <3> QED
            BY <2>2, <3>1, <3>2, <1>13
    <2>3. Len(conflicts) \in Nat /\ Len(conflicts') \in Nat
        BY <1>2, <1>16
    <2> QED
        BY <2>1, <2>2, <2>3
<1>24. OncePerPair'
    <2> SUFFICES ASSUME NEW i \in 1..Len(conflicts'), NEW j \in 1..Len(conflicts'),
                        {conflicts'[i].a, conflicts'[i].b} = {conflicts'[j].a, conflicts'[j].b}
                 PROVE  i = j
        BY DEF OncePerPair
    <2>1. \A o \in kept : o # id
        BY <1>2, <1>20
    <2>2. CASE i \in 1..Len(conflicts) /\ j \in 1..Len(conflicts)
        BY <2>2, <1>16 DEF OncePerPair, ClaimsInv, ConflictsJustified
    <2>3. CASE i \in (Len(conflicts) + 1)..Len(conflicts') /\ j \in (Len(conflicts) + 1)..Len(conflicts')
        <3>0. /\ conflicts'[i].b = id /\ conflicts'[i].a \in kept
              /\ conflicts'[j].b = id /\ conflicts'[j].a \in kept
            <4>1. \A k \in 1..Len(conflicts), n \in (Len(conflicts) + 1)..Len(conflicts') : k # n
                BY <1>2, <1>16
            <4> QED
                BY <4>1, <2>3, <1>23
        <3>1. conflicts'[i].a = conflicts'[j].a
            BY <2>1, <3>0
        <3> DEFINE m == i - Len(conflicts)
                   n == j - Len(conflicts)
        <3>4. m \in 1..Len(q) /\ n \in 1..Len(q) /\ q[m].a = q[n].a
            BY <2>3, <3>1, <1>16
        <3> HIDE DEF m, n
        <3>5. m = n
            BY <3>4, <1>10
        <3>2. i - Len(conflicts) = j - Len(conflicts)
            BY <3>5 DEF m, n
        <3> QED
            BY <3>2, <2>3, <1>2
    <2> QED
        BY <2>1, <2>2, <2>3, <1>23
<1>25. ASSUME NEW p \in kept, NEW i \in kept
       PROVE  Pair(p, i)' <=> Pair(p, i)
    <2>1. i # id /\ p # id
        BY <1>2, <1>20
    <2> QED
        BY <2>1, <1>13, <1>16 DEF Pair
<1>26. ASSUME NEW p \in kept
       PROVE  Pair(p, id)' <=> p \in F
    <2>1. ASSUME NEW r \in Rows
          PROVE  {r.a, r.b} # {p, id}
        <3>1. r.a \in kept /\ r.b \in kept
            BY DEF Justified, ClaimsInv, ConflictsJustified
        <3>2. r.a # id /\ r.b # id
            BY <3>1, <1>2, <1>20
        <3> QED
            BY <3>2
    <2>2. p # id
        BY <1>2, <1>20
    <2>3. Pair(p, id)' <=> \E r \in R : {r.a, id} = {p, id}
        BY <2>1, <1>13, <1>16 DEF Pair
    <2> QED
        BY <2>2, <2>3, <1>13, <1>14
<1>27. NothingMissed'
    <2> SUFFICES ASSUME kept' = 1..Len(claims'), NEW i \in kept', NEW o \in kept',
                        o < i, claims'[o].metric = claims'[i].metric
                 PROVE  IF claims'[i].negated THEN ~claims'[o].negated => Pair(o, i)'
                        ELSE Numeric(i)' /\ Numeric(o)' /\ Differ(Value(o)', Value(i)') =>
                            \/ Pair(o, i)'
                            \/ Cardinality(Between(o, i)') >= MAX_COMPARISONS - 1
                            \/ Cardinality({p \in Between(o, i)' : Pair(p, i)'})
                                   = MAX_CONFLICTS_PER_CLAIM
        BY DEF NothingMissed
    <2>1. kept = 1..Len(claims)
        <3>1. \A k \in 1..Len(claims) : k \in 1..id /\ k # id
            BY <1>4
        <3> QED
            BY <3>1, <1>2, <1>3, <1>5
    <2>2. i \in 1..id /\ o \in kept
        <3>1. o \in 1..id /\ o # id
            BY <1>5, <1>4
        <3> QED
            BY <3>1, <1>3, <1>5
    <2>3. CASE i # id
        <3>1. i \in kept
            BY <2>2, <2>3, <1>3, <1>5
        <3>2. Between(o, i)' = Between(o, i)
            <4>1. \A p \in (o + 1)..(i - 1) : p \in 1..Len(claims)
                BY <3>1, <2>2, <2>1, <1>4
            <4> QED
                BY <4>1, <3>1, <2>1, <1>5, <1>18 DEF Between
        <3>3. \A p \in Between(o, i) : p \in kept
            BY <3>1, <2>2, <2>1, <1>4 DEF Between
        <3>4. {p \in Between(o, i)' : Pair(p, i)'} = {p \in Between(o, i) : Pair(p, i)}
            BY <3>1, <3>2, <3>3, <1>25
        <3>5. claims[o].metric = claims[i].metric
            BY <3>1, <2>1, <2>2, <1>5
        <3>6. IF claims[i].negated THEN ~claims[o].negated => Pair(o, i)
              ELSE Numeric(i) /\ Numeric(o) /\ Differ(Value(o), Value(i)) =>
                  \/ Pair(o, i)
                  \/ Cardinality(Between(o, i)) >= MAX_COMPARISONS - 1
                  \/ Cardinality({p \in Between(o, i) : Pair(p, i)}) = MAX_CONFLICTS_PER_CLAIM
            BY <3>1, <3>5, <2>1, <2>2 DEF NothingMissed, ClaimsInv, ConflictsJustified
        <3>7. Pair(o, i)' <=> Pair(o, i)
            BY <3>1, <2>2, <1>25
        <3>8. /\ claims'[i] = claims[i] /\ claims'[o] = claims[o]
              /\ Value(i)' = Value(i) /\ Numeric(i)' = Numeric(i)
              /\ Value(o)' = Value(o) /\ Numeric(o)' = Numeric(o)
            BY <3>1, <2>1, <2>2, <1>5, <1>18
        <3> QED
            BY <3>2, <3>4, <3>6, <3>7, <3>8
    <2>4. CASE i = id
        <3>1. Pair(o, i)' <=> o \in F
            BY <2>2, <2>4, <1>26
        <3>2. claims'[i] = c /\ claims'[o] = claims[o] /\ claims[o].metric = c.metric
            BY <2>1, <2>2, <2>4, <1>5
        <3>3. CASE c.negated
            BY <3>1, <3>2, <3>3, <2>2, <1>6
        <3>4. CASE ~c.negated
            <4> SUFFICES ASSUME Numeric(i)', Numeric(o)', Differ(Value(o)', Value(i)'), o \notin F
                         PROVE  \/ Cardinality(Between(o, i)') >= MAX_COMPARISONS - 1
                                \/ Cardinality({p \in Between(o, i)' : Pair(p, i)'})
                                       = MAX_CONFLICTS_PER_CLAIM
                BY <3>1, <3>2, <3>4
            <4>1. parse_first_number(c.object) > 0
                BY <2>4, <1>19
            <4>2. o \in Same(c)
                BY <3>2, <2>1, <2>2, <1>18 DEF Same, Numeric
            <4>3. Disagree(c, o)
                BY <2>1, <2>2, <2>4, <1>18, <1>19, <1>20, <1>21, DifferSymmetric DEF Disagree, Value
            <4>4. Between(o, i)' = {p \in Same(c) : p > o}
                <5>1. \A p : p \in (o + 1)..(id - 1) <=> p \in kept /\ p > o
                    BY <2>1, <2>2, <1>4
                <5>2. \A p \in kept : claims'[p] = claims[p] /\ Numeric(p)' = Numeric(p)
                    BY <2>1, <1>5, <1>18
                <5> QED
                    BY <5>1, <5>2, <2>4, <1>5 DEF Between, Same, Numeric
            <4>5. CASE \E W \in SUBSET {p \in Same(c) : p > o} :
                           Cardinality(W) = MAX_COMPARISONS - 1
                <5> DEFINE B == {p \in Same(c) : p > o}
                <5>1. IsFiniteSet(1..Len(claims)) /\ B \in SUBSET (1..Len(claims))
                    BY <1>4, <2>1, Counted DEF Same
                <5>2. \A W \in SUBSET B : Cardinality(W) <= Cardinality(B)
                    <6> HIDE DEF B
                    <6> QED
                        BY <5>1, FS_Subset
                <5>3. IsFiniteSet(B) /\ Cardinality(B) \in Nat
                    <6> HIDE DEF B
                    <6> QED
                        BY <5>1, FS_Subset, FS_CardinalityType
                <5> QED
                    BY <4>4, <4>5, <5>2, <5>3, ClaimsAssumption
            <4>6. CASE Cardinality(F) = MAX_CONFLICTS_PER_CLAIM /\ \A p \in F : p > o
                <5>1. F \subseteq Same(c)
                    BY <3>4, <4>1, <1>6
                <5>2. {p \in Between(o, i)' : Pair(p, i)'} = F
                    BY <4>4, <4>6, <5>1, <2>4, <1>26 DEF Same
                <5> QED
                    BY <4>6, <5>2
            <4> QED
                BY <3>4, <4>1, <4>2, <4>3, <4>5, <4>6, <1>6
        <3> QED
            BY <3>3, <3>4
    <2> QED
        BY <2>3, <2>4
<1> QED
    BY <1>17, <1>22, <1>24, <1>27 DEF ClaimsInv, ConflictsJustified

(* Deleting the claims of a document removes their conflicts and leaves    *)
(* the rest justified.                                                     *)
LEMMA DeleteKeeps ==
    ASSUME ClaimsInv, NEW d \in Documents, delete_claims_for_doc(d)
    PROVE  ClaimsInv'
<1> DEFINE left == {i \in kept : claims[i].doc # d}
           T == [a : Nat, b : Nat, kind : Kinds]
           P == {k \in 1..Len(conflicts) : {conflicts[k].a, conflicts[k].b} \subseteq left}
<1>1. /\ claims \in Seq(ClaimRecords) /\ kept \subseteq 1..Len(claims) /\ conflicts \in Seq(T)
    BY DEF ClaimsInv, ClaimsTyped
<1>2. /\ claims' = claims /\ kept' = left /\ left # kept /\ left \subseteq kept
      /\ conflicts' = Retain(conflicts, P) /\ P \in SUBSET (1..Len(conflicts))
    BY DEF delete_claims_for_doc
<1>3. \A k \in P : {conflicts[k].a, conflicts[k].b} \subseteq left
    OBVIOUS
<1> HIDE DEF T, P, left
<1>r. PICK o : Retained(T, conflicts, P, conflicts', o)
    <2>1. conflicts \in Seq(T) /\ P \in SUBSET (1..Len(conflicts))
        BY <1>1, <1>2
    <2>2. \E o : Retained(T, conflicts, P, Retain(conflicts, P), o)
        BY <2>1, RetainSound
    <2> QED
        BY <2>2, <1>2
<1>4. /\ conflicts' \in Seq(T)
      /\ \A k \in 1..Len(conflicts') : o[k] \in P /\ conflicts'[k] = conflicts[o[k]]
      /\ \A i, j \in 1..Len(conflicts') : i < j => o[i] < o[j]
    BY <1>r DEF Retained
<1>5. ClaimsTyped'
    BY <1>1, <1>2, <1>4 DEF ClaimsTyped, T
<1>6. \A r \in Rows' : r \in Rows /\ {r.a, r.b} \subseteq left
    <2>1. Rows' = {conflicts'[k] : k \in 1..Len(conflicts')}
          /\ Rows = {conflicts[k] : k \in 1..Len(conflicts)}
        BY <1>1, <1>4, Image DEF Rows
    <2>2. ASSUME NEW k \in 1..Len(conflicts')
          PROVE  conflicts'[k] \in Rows
                 /\ {(conflicts'[k]).a, (conflicts'[k]).b} \subseteq left
        <3>1. o[k] \in P /\ conflicts'[k] = conflicts[o[k]]
            BY <1>4
        <3>2. o[k] \in 1..Len(conflicts)
            BY <3>1, <1>2
        <3> QED
            BY <3>1, <3>2, <2>1, <1>3
    <2> QED
        BY <2>1, <2>2
<1>7. Justified'
    BY <1>2, <1>6 DEF Justified, Value, ClaimsInv, ConflictsJustified
<1>8. OncePerPair'
    <2> SUFFICES ASSUME NEW i \in 1..Len(conflicts'), NEW j \in 1..Len(conflicts'),
                        {conflicts'[i].a, conflicts'[i].b} = {conflicts'[j].a, conflicts'[j].b}
                 PROVE  i = j
        BY DEF OncePerPair
    <2> DEFINE m == o[i]
               n == o[j]
    <2>1. /\ m \in 1..Len(conflicts) /\ n \in 1..Len(conflicts)
          /\ conflicts'[i] = conflicts[m] /\ conflicts'[j] = conflicts[n]
        BY <1>2, <1>4
    <2>2. (i < j => m < n) /\ (j < i => n < m)
        BY <1>4
    <2> HIDE DEF m, n
    <2>3. m = n
        BY <2>1 DEF OncePerPair, ClaimsInv, ConflictsJustified
    <2> QED
        BY <2>1, <2>2, <2>3, <1>4
<1>9. NothingMissed'
    BY <1>1, <1>2 DEF NothingMissed
<1> QED
    BY <1>5, <1>7, <1>8, <1>9 DEF ClaimsInv, ConflictsJustified

(* knowledge::persist_claim and detect_conflicts: every conflict that is   *)
(* stored is one of two stored claims of different statements that         *)
(* contradict each other, of the kind its metric, years and negation give  *)
(* it; and a contradiction is missing only if the bounds on comparisons    *)
(* cut it off.                                                             *)
THEOREM ClaimsSound == ClaimsSpec => []ConflictsJustified
<1>1. ClaimsInit => ClaimsInv
    BY DEF ClaimsInit, ClaimsInv, ClaimsTyped, ConflictsJustified, Justified, OncePerPair,
           NothingMissed, Rows, ToSet
<1>2. ClaimsInv /\ [ClaimsNext]_claimVars => ClaimsInv'
    <2> SUFFICES ASSUME ClaimsInv, [ClaimsNext]_claimVars
                 PROVE  ClaimsInv'
        OBVIOUS
    <2>1. ASSUME NEW d \in Documents, NEW s \in Statements, persist_claim(d, s)
          PROVE  ClaimsInv'
        BY <2>1, PersistKeeps
    <2>2. ASSUME NEW d \in Documents, delete_claims_for_doc(d)
          PROVE  ClaimsInv'
        BY <2>2, DeleteKeeps
    <2>3. CASE UNCHANGED claimVars
        <3>1. claims' = claims /\ kept' = kept /\ conflicts' = conflicts
            BY <2>3 DEF claimVars
        <3>2. ClaimsTyped' /\ OncePerPair' /\ Rows' = Rows
            BY <3>1 DEF ClaimsInv, ClaimsTyped, ConflictsJustified, OncePerPair, Rows
        <3>3. Justified'
            BY <3>1, <3>2 DEF ClaimsInv, ConflictsJustified, Justified, Value
        <3>4. \A i, o : Pair(o, i)' = Pair(o, i) /\ Between(o, i)' = Between(o, i)
                        /\ Numeric(o)' = Numeric(o) /\ Value(o)' = Value(o)
            BY <3>1, <3>2 DEF Pair, Between, Numeric, Value
        <3>6. \A i, o : {p \in Between(o, i)' : Pair(p, i)'} = {p \in Between(o, i) : Pair(p, i)}
            BY <3>4
        <3>5. NothingMissed'
            <4> SUFFICES ASSUME kept' = 1..Len(claims'), NEW i \in kept', NEW o \in kept',
                                o < i, claims'[o].metric = claims'[i].metric
                         PROVE  IF claims'[i].negated THEN ~claims'[o].negated => Pair(o, i)'
                                ELSE Numeric(i)' /\ Numeric(o)' /\ Differ(Value(o)', Value(i)') =>
                                    \/ Pair(o, i)'
                                    \/ Cardinality(Between(o, i)') >= MAX_COMPARISONS - 1
                                    \/ Cardinality({p \in Between(o, i)' : Pair(p, i)'})
                                           = MAX_CONFLICTS_PER_CLAIM
                BY DEF NothingMissed
            <4>1. IF claims[i].negated THEN ~claims[o].negated => Pair(o, i)
                  ELSE Numeric(i) /\ Numeric(o) /\ Differ(Value(o), Value(i)) =>
                      \/ Pair(o, i)
                      \/ Cardinality(Between(o, i)) >= MAX_COMPARISONS - 1
                      \/ Cardinality({p \in Between(o, i) : Pair(p, i)})
                             = MAX_CONFLICTS_PER_CLAIM
                BY <3>1 DEF ClaimsInv, ConflictsJustified, NothingMissed
            <4>2. /\ {p \in Between(o, i)' : Pair(p, i)'} = {p \in Between(o, i) : Pair(p, i)}
                  /\ Pair(o, i)' = Pair(o, i) /\ Between(o, i)' = Between(o, i)
                  /\ Numeric(i)' = Numeric(i) /\ Value(i)' = Value(i)
                  /\ Numeric(o)' = Numeric(o) /\ Value(o)' = Value(o)
                BY <3>4, <3>6
            <4> QED
                BY <3>1, <4>1, <4>2
        <3> QED
            BY <3>2, <3>3, <3>5 DEF ClaimsInv, ConflictsJustified
    <2> QED
        BY <2>1, <2>2, <2>3 DEF ClaimsNext
<1>3. ClaimsInv => ConflictsJustified
    BY DEF ClaimsInv
<1> QED
    BY <1>1, <1>2, <1>3, PTL DEF ClaimsSpec

-----------------------------------------------------------------------------
(* GraphTraversal: the walk over relationships, for any graph and limit. *)

(* The entities of a list of findings. *)
Listed(l) == {f[1] : f \in ToSet(l)}

(* The lists of the levels, and after them the one that is being made. *)
Layer(k) == IF k = Len(levels) + 1 THEN next_level ELSE levels[k]
Layers == 1..(Len(levels) + 1)

WalkTyped ==
    /\ edge \in [Edges -> Nat] /\ limit \in Nat
    /\ visited \subseteq Entities
    /\ frontier \in Seq(Entities)
    /\ next_level \in Seq(Entities \X Edges)
    /\ levels \in Seq(Seq(Entities \X Edges))

Begins ==
    walk = "ready" =>
        /\ levels = <<>> /\ next_level = <<>>
        /\ frontier = <<Start>> /\ visited = {Start}

Ends == walk = "done" => next_level = <<>>

FrontierOnce ==
    /\ \A i \in 1..Len(frontier) : frontier[i] \in Found(Len(levels))
    /\ \A i, j \in 1..Len(frontier) : frontier[i] = frontier[j] => i = j

ListedOnce ==
    /\ visited = (UNION {Found(k) : k \in 0..Len(levels)}) \cup Listed(next_level)
    /\ \A k \in Layers : \A i \in 1..Len(Layer(k)) :
           /\ Layer(k)[i][1] # Start
           /\ \A l \in Layers : \A j \in 1..Len(Layer(l)) :
                  Layer(k)[i][1] = Layer(l)[j][1] => k = l /\ i = j

LayersLead ==
    \A k \in Layers : \A i \in 1..Len(Layer(k)) :
        LET f == Layer(k)[i] IN
        edge[f[2]] > 0 /\ f[1] \in {f[2][1], f[2][2]} /\ Other(f[2], f[1]) \in Found(k - 1)

LayersBounded ==
    /\ LevelsBounded
    /\ Len(next_level) + limit * Len(frontier) <= limit * Cardinality(Found(Len(levels)))

NoCut == \A n \in Entities : Cardinality(Incident(n)) <= limit

(* What is expanded so far has brought all its neighbours. *)
Distances ==
    NoCut =>
        /\ \A k \in 1..Len(levels) : Found(k) = Within(k) \ Within(k - 1)
        /\ Within(Len(levels)) = UNION {Found(k) : k \in 0..Len(levels)}
        /\ visited = Within(Len(levels)) \cup Neighbours(Found(Len(levels)) \ ToSet(frontier))

WalkInv ==
    /\ WalkTyped /\ Begins /\ Ends /\ FrontierOnce
    /\ ListedOnce /\ LayersLead /\ LayersBounded /\ Distances

(* The entities of a list of findings. *)
LEMMA ListedIs ==
    ASSUME NEW T, NEW l \in Seq(T)
    PROVE  Listed(l) = {l[i][1] : i \in 1..Len(l)}
BY Image DEF Listed

(* The walk starts at an entity. *)
LEMMA StartIsEntity == Start \in Entities
<1>1. Entities \subseteq Nat /\ Entities # {}
    BY WalkAssumption
<1>2. PICK m \in Entities : \A n \in Entities : m <= n
    BY <1>1, Smallest
<1> QED
    BY <1>2 DEF Start

(* The other end of an edge, and that an edge is given by its ends. *)
LEMMA OtherEnd ==
    ASSUME NEW e \in Edges, NEW n \in {e[1], e[2]}
    PROVE  /\ Other(e, n) \in Entities /\ n \in Entities
           /\ {e[1], e[2]} = {n, Other(e, n)}
           /\ Other(e, Other(e, n)) = n
           /\ \A f \in Edges : n \in {f[1], f[2]} /\ Other(f, n) = Other(e, n) => f = e
<1>1. /\ e \in Entities \X Entities /\ e[1] < e[2]
      /\ \A f \in Edges : f \in Entities \X Entities /\ f[1] < f[2]
    BY DEF Edges
<1>2. Entities \subseteq Nat
    BY WalkAssumption
<1>3. \A f \in Edges : /\ f[1] \in Nat /\ f[2] \in Nat /\ f[1] < f[2]
                       /\ f[1] \in Entities /\ f[2] \in Entities /\ f = <<f[1], f[2]>>
    <2> SUFFICES ASSUME NEW f \in Edges
                 PROVE  /\ f[1] \in Nat /\ f[2] \in Nat /\ f[1] < f[2]
                        /\ f[1] \in Entities /\ f[2] \in Entities /\ f = <<f[1], f[2]>>
        OBVIOUS
    <2>1. f \in Entities \X Entities /\ f[1] < f[2]
        BY <1>1
    <2>2. f[1] \in Entities /\ f[2] \in Entities /\ f = <<f[1], f[2]>>
        BY <2>1
    <2> QED
        BY <2>1, <2>2, <1>2
<1>4. ASSUME NEW f \in Edges, n \in {f[1], f[2]}, Other(f, n) = Other(e, n)
      PROVE  f = e
    <2>1. f[1] = e[1] /\ f[2] = e[2]
        BY <1>3, <1>4 DEF Other
    <2> QED
        BY <2>1, <1>3
<1> QED
    BY <1>3, <1>4 DEF Other

(* The neighbours of one entity are the other ends of its edges. *)
LEMMA NeighboursOne ==
    ASSUME NEW n \in Entities
    PROVE  Neighbours({n}) = {Other(e, n) : e \in Incident(n)}
<1>1. ASSUME NEW x \in Neighbours({n})
      PROVE  \E e \in Incident(n) : x = Other(e, n)
    <2>1. PICK e \in Edges : edge[e] > 0 /\ {x, n} = {e[1], e[2]}
        BY DEF Neighbours
    <2>2. e \in Incident(n)
        BY <2>1 DEF Incident
    <2>3. e[1] # e[2]
        <3>1. e[1] \in Entities /\ e[1] < e[2]
            BY DEF Edges
        <3>2. e[1] \in Nat
            BY <3>1, WalkAssumption
        <3> QED
            BY <3>1, <3>2
    <2> QED
        BY <2>1, <2>2, <2>3 DEF Other
<1>2. ASSUME NEW e \in Incident(n)
      PROVE  Other(e, n) \in Neighbours({n})
    <2>1. e \in Edges /\ edge[e] > 0 /\ n \in {e[1], e[2]}
        BY DEF Incident
    <2>2. Other(e, n) \in Entities /\ {e[1], e[2]} = {n, Other(e, n)}
        BY <2>1, OtherEnd
    <2> QED
        BY <2>1, <2>2 DEF Neighbours
<1> QED
    BY <1>1, <1>2

(* Neighbours of a union are those of its parts. *)
LEMMA NeighboursUnion ==
    /\ Neighbours({}) = {}
    /\ \A A, B : Neighbours(A \cup B) = Neighbours(A) \cup Neighbours(B)
    /\ \A A, x : x \in Neighbours(A) <=> \E n \in A : x \in Neighbours({n})
    /\ \A A : Neighbours(A) \subseteq Entities
BY DEF Neighbours

PathTo(k, q) ==
    /\ q \in [0..k -> Entities] /\ q[0] = Start
    /\ \A i \in 1..k : q[i] = q[i - 1] \/ q[i] \in Neighbours({q[i - 1]})

(* Within(k), said with the name of a path. *)
LEMMA WithinIsPaths ==
    ASSUME NEW k \in Nat
    PROVE  \A x : x \in Within(k) <=> \E q \in [0..k -> Entities] : PathTo(k, q) /\ q[k] = x
BY DEF Within, PathTo

(* No step away is the start alone. *)
LEMMA WithinZero == Within(0) = {Start}
<1>1. ASSUME NEW q \in [0..0 -> Entities], PathTo(0, q)
      PROVE  q[0] = Start
    BY <1>1 DEF PathTo
<1>2. PathTo(0, [i \in 0..0 |-> Start])
    BY StartIsEntity DEF PathTo
<1> DEFINE p == [i \in 0..0 |-> Start]
<1>3. p \in [0..0 -> Entities] /\ p[0] = Start
    BY StartIsEntity
<1> QED
    BY <1>1, <1>2, <1>3, WithinIsPaths

(* One step more reaches the neighbours: Within is defined by paths, and a *)
(* path of k + 1 steps is one of k steps and a step.                       *)
LEMMA WithinNext ==
    ASSUME NEW k \in Nat
    PROVE  Within(k + 1) = Within(k) \cup Neighbours(Within(k))
<1>1. ASSUME NEW x \in Within(k + 1)
      PROVE  x \in Within(k) \cup Neighbours(Within(k))
    <2>1. PICK q \in [0..(k + 1) -> Entities] : PathTo(k + 1, q) /\ q[k + 1] = x
        BY WithinIsPaths
    <2> DEFINE p == [i \in 0..k |-> q[i]]
    <2>2. p \in [0..k -> Entities] /\ p[0] = Start /\ p[k] = q[k]
        BY <2>1 DEF PathTo
    <2>3. \A i \in 1..k : p[i] = q[i] /\ p[i - 1] = q[i - 1] /\ i \in 1..(k + 1)
        OBVIOUS
    <2>4. PathTo(k, p)
        BY <2>1, <2>2, <2>3 DEF PathTo
    <2> HIDE DEF p
    <2>5. p[k] \in Within(k)
        BY <2>2, <2>4, WithinIsPaths
    <2>6. x = q[k] \/ x \in Neighbours({q[k]})
        <3>1. k + 1 \in 1..(k + 1) /\ (k + 1) - 1 = k
            OBVIOUS
        <3> QED
            BY <3>1, <2>1 DEF PathTo
    <2> QED
        BY <2>2, <2>5, <2>6, NeighboursUnion
<1>2. ASSUME NEW n \in Within(k), NEW x \in Entities, x = n \/ x \in Neighbours({n})
      PROVE  x \in Within(k + 1)
    <2>1. PICK p \in [0..k -> Entities] : PathTo(k, p) /\ p[k] = n
        BY WithinIsPaths
    <2> DEFINE q == [i \in 0..(k + 1) |-> IF i = k + 1 THEN x ELSE p[i]]
    <2>2. q \in [0..(k + 1) -> Entities] /\ q[0] = Start /\ q[k + 1] = x /\ q[k] = n
        BY <2>1 DEF PathTo
    <2>3. ASSUME NEW i \in 1..(k + 1)
          PROVE  q[i] = q[i - 1] \/ q[i] \in Neighbours({q[i - 1]})
        <3>1. CASE i = k + 1
            <4>1. q[i] = x /\ q[i - 1] = n
                BY <3>1, <2>2
            <4> QED
                BY <4>1, <1>2
        <3>2. CASE i \in 1..k
            <4>1. q[i] = p[i] /\ q[i - 1] = p[i - 1]
                BY <3>2
            <4> QED
                BY <4>1, <3>2, <2>1 DEF PathTo
        <3> QED
            BY <3>1, <3>2
    <2> HIDE DEF q
    <2>4. PathTo(k + 1, q)
        BY <2>2, <2>3 DEF PathTo
    <2> QED
        BY <2>2, <2>4, WithinIsPaths
<1>3. Within(k) \subseteq Entities
    BY WithinIsPaths DEF PathTo
<1>4. ASSUME NEW x \in Neighbours(Within(k))
      PROVE  x \in Within(k + 1)
    <2>1. x \in Entities /\ \E n \in Within(k) : x \in Neighbours({n})
        BY NeighboursUnion
    <2> QED
        BY <2>1, <1>2
<1> QED
    BY <1>1, <1>2, <1>3, <1>4

(* An entity has finitely many relationships. *)
LEMMA IncidentFinite ==
    ASSUME NEW n
    PROVE  IsFiniteSet(Incident(n)) /\ Cardinality(Incident(n)) \in Nat
<1>1. IsFiniteSet(Entities \X Entities)
    BY WalkAssumption, FS_Product
<1>2. Incident(n) \in SUBSET (Entities \X Entities)
    BY DEF Incident, Edges
<1> QED
    BY <1>1, <1>2, FS_Subset, FS_CardinalityType

(* neighbors returns relationships of the entity, none twice, and all if   *)
(* the limit allows.                                                       *)
LEMMA NeighborsSound ==
    ASSUME limit \in Nat, NEW n, NEW list \in neighbors(n)
    PROVE  /\ list \in Seq(Incident(n)) /\ Len(list) <= limit
           /\ \A i, j \in 1..Len(list) : list[i] = list[j] => i = j
           /\ Cardinality(Incident(n)) <= limit => ToSet(list) = Incident(n)
<1> DEFINE S == Incident(n)
           m == Cardinality(S)
<1>1. PICK s \in SetToSeqs(S) : list = Truncate(s, limit)
    BY DEF neighbors
<1>2. s \in [1..m -> S] /\ \A i, j \in 1..m : i # j => s[i] # s[j]
    BY <1>1 DEF SetToSeqs
<1>3. IsFiniteSet(S) /\ m \in Nat
    BY IncidentFinite
<1> HIDE DEF S
<1>4. s \in Injection(1..m, S)
    BY <1>2 DEF Injection, IsInjective
<1>5. IsFiniteSet(1..m) /\ Cardinality(1..m) = m
    BY <1>3, Counted
<1>6. s \in Surjection(1..m, S)
    BY <1>3, <1>4, <1>5, FS_Injection
<1> HIDE DEF m
<1>7. s \in Seq(S) /\ Len(s) = m
    BY <1>2, <1>3
<1>8. /\ list \in Seq(S) /\ Len(list) <= limit /\ Len(list) <= m
      /\ Len(list) = limit \/ Len(list) = m
      /\ \A k \in 1..Len(list) : list[k] = s[k]
    <2>1. limit \in Nat
        OBVIOUS
    <2> QED
        BY <1>1, <1>7, <2>1, TruncateSound
<1>9. \A i \in 1..Len(list) : i \in 1..m
    BY <1>3, <1>8
<1>10. \A i, j \in 1..Len(list) : list[i] = list[j] => i = j
    BY <1>2, <1>8, <1>9
<1>11. ASSUME m <= limit
       PROVE  ToSet(list) = S
    <2>1. Len(list) = m
        BY <1>3, <1>8, <1>11
    <2>2. ToSet(list) = {list[k] : k \in 1..m}
        BY <2>1, <1>8, Image
    <2> QED
        BY <2>1, <2>2, <1>6, <1>8 DEF Surjection
<1> QED
    BY <1>8, <1>10, <1>11 DEF S, m

(* What n leads to in a list: unvisited entities, each once under an edge  *)
(* of n, and without a cut all of them.                                    *)
Discovery(n, found) ==
    /\ found \in Seq(Entities \X Edges) /\ Len(found) <= limit
    /\ \A i \in 1..Len(found) :
           /\ found[i][1] \notin visited /\ edge[found[i][2]] > 0
           /\ found[i][1] \in {found[i][2][1], found[i][2][2]}
           /\ Other(found[i][2], found[i][1]) = n
    /\ \A i, j \in 1..Len(found) : found[i][1] = found[j][1] => i = j
    /\ Cardinality(Incident(n)) <= limit => Listed(found) = Neighbours({n}) \ visited

(* What Expand adds for one entity: its unvisited neighbours, each once;   *)
(* all of them if the limit allows.                                        *)
LEMMA DiscoveredSound ==
    ASSUME WalkTyped, NEW n \in Entities, NEW list \in neighbors(n)
    PROVE  Discovery(n, Discovered(list, n))
<1> DEFINE S == Incident(n)
           P == {k \in 1..Len(list) : Other(list[k], n) \notin visited}
           new == Retain(list, P)
           found == [i \in 1..Len(new) |-> <<Other(new[i], n), new[i]>>]
<1>0. limit \in Nat /\ edge \in [Edges -> Nat]
    BY DEF WalkTyped
<1>1. /\ list \in Seq(S) /\ Len(list) <= limit
      /\ \A i, j \in 1..Len(list) : list[i] = list[j] => i = j
      /\ Cardinality(S) <= limit => ToSet(list) = S
    BY <1>0, NeighborsSound
<1>2. ASSUME NEW e \in S
      PROVE  /\ e \in Edges /\ edge[e] > 0 /\ Other(e, n) \in Entities
             /\ Other(e, n) \in {e[1], e[2]} /\ Other(e, Other(e, n)) = n
             /\ \A f \in S : Other(f, n) = Other(e, n) => f = e
    <2>1. e \in Edges /\ edge[e] > 0 /\ n \in {e[1], e[2]}
        BY DEF Incident
    <2>2. \A f \in S : f \in Edges /\ n \in {f[1], f[2]}
        BY DEF Incident
    <2> HIDE DEF S
    <2>3. /\ Other(e, n) \in Entities /\ {e[1], e[2]} = {n, Other(e, n)}
          /\ Other(e, Other(e, n)) = n
          /\ \A f \in Edges : n \in {f[1], f[2]} /\ Other(f, n) = Other(e, n) => f = e
        BY <2>1, OtherEnd
    <2> QED
        BY <2>1, <2>2, <2>3
<1> HIDE DEF S
<1>3. P \in SUBSET (1..Len(list)) /\ \A k \in P : Other(list[k], n) \notin visited
    OBVIOUS
<1>r. PICK o : Retained(S, list, P, new, o)
    <2>1. list \in Seq(S) /\ P \in SUBSET (1..Len(list)) /\ new = Retain(list, P)
        BY <1>1
    <2> HIDE DEF P, new, found
    <2> QED
        BY <2>1, RetainSound
<1> HIDE DEF P, new
<1>4. /\ new \in Seq(S) /\ Len(new) = Cardinality(P)
      /\ \A k \in 1..Len(new) : o[k] \in P /\ new[k] = list[o[k]]
      /\ \A i, j \in 1..Len(new) : i < j => o[i] < o[j]
      /\ \A p \in P : \E k \in 1..Len(new) : o[k] = p
    BY <1>r DEF Retained
<1>5. Len(new) <= limit /\ Len(new) \in Nat
    <2>1. IsFiniteSet(1..Len(list)) /\ Cardinality(1..Len(list)) = Len(list) /\ Len(list) \in Nat
        BY <1>1, Counted
    <2>2. Cardinality(P) <= Len(list)
        BY ONLY <1>3, <2>1, FS_Subset
    <2> QED
        BY <1>0, <1>1, <1>4, <2>1, <2>2
<1>6. \A i \in 1..Len(new) : new[i] \in S
    BY <1>4, Elements
<1>7. \A i \in 1..Len(new) : new[i] \in Edges /\ Other(new[i], n) \in Entities
    BY <1>2, <1>6
<1>8. DOMAIN found = 1..Len(new) /\ \A i \in 1..Len(new) : found[i] = <<Other(new[i], n), new[i]>>
    OBVIOUS
<1> HIDE DEF found
<1>9. found \in [1..Len(new) -> Entities \X Edges]
    BY <1>7 DEF found
<1>10. found \in Seq(Entities \X Edges) /\ Len(found) = Len(new)
    <2> DEFINE T == Entities \X Edges
    <2>1. found \in [1..Len(new) -> T]
        BY <1>9
    <2> HIDE DEF T
    <2>2. found \in Seq(T) /\ Len(found) = Len(new)
        BY ONLY <1>5, <2>1
    <2> QED
        BY <2>2 DEF T
<1>11. ASSUME NEW i \in 1..Len(found)
       PROVE  /\ found[i][1] \notin visited /\ edge[found[i][2]] > 0
              /\ found[i][1] \in {found[i][2][1], found[i][2][2]}
              /\ Other(found[i][2], found[i][1]) = n
    <2>1. i \in 1..Len(new) /\ found[i][1] = Other(new[i], n) /\ found[i][2] = new[i]
        BY <1>8, <1>10
    <2>2. o[i] \in P /\ new[i] = list[o[i]]
        BY <2>1, <1>4
    <2>3. Other(new[i], n) \notin visited
        BY <2>2, <1>3
    <2> QED
        BY <2>1, <2>3, <1>2, <1>6
<1>12. ASSUME NEW i \in 1..Len(found), NEW j \in 1..Len(found), found[i][1] = found[j][1]
       PROVE  i = j
    <2>1. /\ i \in 1..Len(new) /\ found[i][1] = Other(new[i], n)
          /\ j \in 1..Len(new) /\ found[j][1] = Other(new[j], n)
        BY <1>8, <1>10
    <2>2. new[i] = new[j]
        BY <2>1, <1>2, <1>6, <1>12
    <2> DEFINE u == o[i]
               v == o[j]
    <2>3. /\ u \in 1..Len(list) /\ v \in 1..Len(list) /\ list[u] = list[v]
          /\ (i < j => u < v) /\ (j < i => v < u)
        BY <2>1, <2>2, <1>3, <1>4
    <2> HIDE DEF u, v
    <2>4. u = v
        BY <2>3, <1>1
    <2> QED
        BY <2>1, <2>3, <2>4
<1>13. ASSUME Cardinality(S) <= limit
       PROVE  Listed(found) = Neighbours({n}) \ visited
    <2>1. ToSet(list) = S /\ ToSet(list) = {list[k] : k \in 1..Len(list)}
        BY <1>1, <1>13, Image
    <2>2. Neighbours({n}) = {Other(e, n) : e \in S}
        BY NeighboursOne DEF S
    <2>3. Listed(found) = {found[i][1] : i \in 1..Len(found)}
        <3> DEFINE T == Entities \X Edges
        <3>1. found \in Seq(T)
            BY <1>10
        <3> HIDE DEF T
        <3> QED
            BY ONLY <3>1, ListedIs
    <2>4. ASSUME NEW i \in 1..Len(found)
          PROVE  found[i][1] \in Neighbours({n}) \ visited
        <3>1. i \in 1..Len(new) /\ found[i][1] = Other(new[i], n)
            BY <1>8, <1>10
        <3>2. Other(new[i], n) \in Neighbours({n})
            BY <3>1, <1>6, <2>2
        <3> QED
            BY <3>1, <3>2, <1>11
    <2>5. ASSUME NEW e \in S, Other(e, n) \notin visited
          PROVE  \E i \in 1..Len(found) : found[i][1] = Other(e, n)
        <3>1. PICK k \in 1..Len(list) : list[k] = e
            BY <2>1
        <3>2. k \in P
            BY <3>1, <2>5 DEF P
        <3>3. PICK i \in 1..Len(new) : o[i] = k
            BY <3>2, <1>4
        <3>4. new[i] = e
            BY <3>1, <3>3, <1>4
        <3> QED
            BY <3>4, <1>8, <1>10
    <2> QED
        BY ONLY <2>2, <2>3, <2>4, <2>5
<1> QED
    <2>1. Discovered(list, n) = found
        BY DEF Discovered, found, new, P
    <2> QED
        BY <2>1, <1>10, <1>5, <1>11, <1>12, <1>13 DEF S, Discovery

(* Everything in a level was marked as visited. *)
LEMMA ListedVisited ==
    ASSUME WalkInv
    PROVE  /\ Start \in visited
           /\ \A k \in 0..Len(levels) : Found(k) \subseteq visited
           /\ \A k \in Layers : \A i \in 1..Len(Layer(k)) : Layer(k)[i][1] \in visited
<1> DEFINE T == Entities \X Edges
<1>1. next_level \in Seq(T) /\ levels \in Seq(Seq(T))
    BY DEF WalkInv, WalkTyped
<1> HIDE DEF T
<1>2. visited = (UNION {Found(k) : k \in 0..Len(levels)}) \cup Listed(next_level)
    BY DEF WalkInv, ListedOnce
<1>3. Len(levels) \in Nat
    BY <1>1
<1>4. \A k \in 0..Len(levels) : Found(k) \subseteq visited
    BY <1>2
<1>5. Start \in visited
    BY <1>3, <1>4 DEF Found
<1>6. ASSUME NEW k \in Layers, NEW i \in 1..Len(Layer(k))
      PROVE  Layer(k)[i][1] \in visited
    <2>1. CASE k = Len(levels) + 1
        <3>1. Listed(next_level) = {next_level[j][1] : j \in 1..Len(next_level)}
            BY <1>1, ListedIs
        <3> QED
            BY <2>1, <3>1, <1>2 DEF Layer
    <2>2. CASE k \in 1..Len(levels)
        <3>1. Layer(k) = levels[k] /\ levels[k] \in Seq(T) /\ k # 0 /\ k \in 0..Len(levels)
            BY <2>2, <1>1, <1>3 DEF Layer
        <3>2. Listed(levels[k]) = {levels[k][j][1] : j \in 1..Len(levels[k])}
            BY <3>1, ListedIs
        <3>3. Found(k) = Listed(levels[k])
            BY <3>1 DEF Found, Listed
        <3> QED
            BY <3>1, <3>2, <3>3, <1>4
    <2> QED
        BY <2>1, <2>2, <1>3 DEF Layers
<1> QED
    BY <1>4, <1>5, <1>6

(* What the bounds on levels need of multiplication. *)
LEMMA Times ==
    ASSUME NEW a \in Nat, NEW b \in Nat
    PROVE  a * b \in Nat /\ a * (b + 1) = a * b + a /\ a * 0 = 0 /\ a * 1 = a
OBVIOUS

(* The graph is read once. *)
LEMMA SameGraph ==
    ASSUME edge' = edge
    PROVE  /\ \A n : Incident(n)' = Incident(n)
           /\ \A S : Neighbours(S)' = Neighbours(S)
           /\ \A k : Within(k)' = Within(k)
<1>1. \A n : Incident(n)' = Incident(n)
    BY DEF Incident
<1>2. \A S : Neighbours(S)' = Neighbours(S)
    BY DEF Neighbours
<1>3. \A k : Within(k)' = Within(k)
    BY <1>2 DEF Within
<1> QED
    BY <1>1, <1>2, <1>3

(* Expanding an entity of the frontier keeps the invariant. *)
LEMMA ExpandKeeps ==
    ASSUME WalkInv, Expand
    PROVE  WalkInv'
<1> DEFINE T == Entities \X Edges
<1>0. PICK n, m, L : n = Head(frontier) /\ m = Len(frontier) /\ L = Len(levels)
    OBVIOUS
<1>1. /\ edge \in [Edges -> Nat] /\ limit \in Nat /\ visited \subseteq Entities
      /\ frontier \in Seq(Entities) /\ next_level \in Seq(T) /\ levels \in Seq(Seq(T))
    BY DEF WalkInv, WalkTyped
<1>2. m \in Nat \ {0} /\ n \in Entities /\ n = frontier[1] /\ L \in Nat
    BY <1>0, <1>1 DEF Expand
<1>3. PICK list \in neighbors(n) : /\ next_level' = next_level \o Discovered(list, n)
                                   /\ visited' = visited \cup Listed(Discovered(list, n))
    BY <1>0 DEF Expand, Listed
<1> DEFINE found == Discovered(list, n)
<1>4. next_level' = next_level \o found /\ visited' = visited \cup Listed(found)
    BY <1>3
<1>5. /\ frontier' = Tail(frontier) /\ edge' = edge /\ limit' = limit
      /\ levels' = levels /\ walk' = walk /\ walk = "running"
    BY DEF Expand
<1>6. /\ found \in Seq(T) /\ Len(found) <= limit
      /\ \A i \in 1..Len(found) :
             /\ found[i][1] \notin visited /\ edge[found[i][2]] > 0
             /\ found[i][1] \in {found[i][2][1], found[i][2][2]}
             /\ Other(found[i][2], found[i][1]) = n
      /\ \A i, j \in 1..Len(found) : found[i][1] = found[j][1] => i = j
      /\ Cardinality(Incident(n)) <= limit => Listed(found) = Neighbours({n}) \ visited
    <2>1. Discovery(n, found)
        BY <1>2, DiscoveredSound DEF WalkInv
    <2> HIDE DEF found
    <2> QED
        BY <2>1 DEF Discovery
<1> HIDE DEF T, found
<1>7. /\ next_level' \in Seq(T) /\ Len(next_level') = Len(next_level) + Len(found)
      /\ Len(next_level) \in Nat /\ Len(found) \in Nat
      /\ \A i \in 1..Len(next_level) : next_level'[i] = next_level[i]
      /\ \A i \in (Len(next_level) + 1)..(Len(next_level) + Len(found)) :
             i - Len(next_level) \in 1..Len(found) /\ next_level'[i] = found[i - Len(next_level)]
    BY <1>1, <1>4, <1>6, Joined
<1>8. Listed(next_level') = Listed(next_level) \cup Listed(found)
    <2>1. ToSet(next_level') = ToSet(next_level) \cup ToSet(found)
        BY <1>1, <1>4, <1>6, Joined
    <2> QED
        BY <2>1 DEF Listed
<1>9. /\ frontier' \in Seq(Entities) /\ Len(frontier') = m - 1
      /\ \A i \in 1..(m - 1) : i + 1 \in 1..m /\ frontier'[i] = frontier[i + 1]
    BY <1>0, <1>1, <1>2, <1>5
<1>10. Listed(found) \subseteq Entities
    <2>1. Listed(found) = {found[i][1] : i \in 1..Len(found)}
        BY <1>6, ListedIs
    <2>2. \A i \in 1..Len(found) : found[i] \in T
        BY <1>6, Elements
    <2> QED
        BY <2>1, <2>2 DEF T
<1>11. WalkTyped'
    BY <1>1, <1>4, <1>5, <1>7, <1>9, <1>10 DEF WalkTyped, T
<1>12. \A k : Found(k)' = Found(k)
    BY <1>5 DEF Found
<1>13. /\ Layers' = Layers /\ Layers = 1..(L + 1)
       /\ \A k \in Layers : k # L + 1 => Layer(k)' = Layer(k)
       /\ Layer(L + 1)' = next_level' /\ Layer(L + 1) = next_level
    BY <1>0, <1>5 DEF Layers, Layer
<1>14. Begins' /\ Ends'
    BY <1>5 DEF Begins, Ends
<1>15. FrontierOnce'
    <2>1. /\ \A i \in 1..m : frontier[i] \in Found(L)
          /\ \A i, j \in 1..m : frontier[i] = frontier[j] => i = j
        BY <1>0 DEF WalkInv, FrontierOnce
    <2>2. /\ \A i \in 1..(m - 1) : frontier'[i] \in Found(L)'
          /\ \A i, j \in 1..(m - 1) : frontier'[i] = frontier'[j] => i = j
        BY <2>1, <1>9, <1>12
    <2> QED
        BY <2>2, <1>0, <1>5, <1>9 DEF FrontierOnce
<1>16. ASSUME NEW k \in Layers, NEW i \in 1..Len(Layer(k)')
       PROVE  \/ /\ i \in 1..Len(Layer(k)) /\ Layer(k)'[i] = Layer(k)[i]
                 /\ Layer(k)[i][1] \in visited
              \/ /\ k = L + 1 /\ i - Len(next_level) \in 1..Len(found)
                 /\ Layer(k)'[i] = found[i - Len(next_level)]
    <2>1. CASE i \in 1..Len(Layer(k)) /\ Layer(k)'[i] = Layer(k)[i]
        BY <2>1, ListedVisited
    <2>2. CASE k # L + 1
        BY <2>1, <2>2, <1>13
    <2>3. CASE k = L + 1 /\ i \in 1..Len(next_level)
        BY <2>1, <2>3, <1>7, <1>13
    <2>4. CASE k = L + 1 /\ i \in (Len(next_level) + 1)..(Len(next_level) + Len(found))
        BY <2>4, <1>7, <1>13
    <2> QED
        BY <2>2, <2>3, <2>4, <1>7, <1>13
<1>17. ListedOnce'
    <2>1. visited' = (UNION {Found(k)' : k \in 0..Len(levels')}) \cup Listed(next_level')
        BY <1>4, <1>5, <1>8, <1>12 DEF WalkInv, ListedOnce
    <2>2. ASSUME NEW k \in Layers, NEW i \in 1..Len(Layer(k)')
          PROVE  Layer(k)'[i][1] # Start
        <3>1. Start \in visited
            BY ListedVisited
        <3>2. i \in 1..Len(Layer(k)) => Layer(k)[i][1] # Start
            BY DEF WalkInv, ListedOnce
        <3> QED
            BY <3>1, <3>2, <1>6, <1>16
    <2>3. ASSUME NEW k \in Layers, NEW i \in 1..Len(Layer(k)'),
                 NEW l \in Layers, NEW j \in 1..Len(Layer(l)'),
                 Layer(k)'[i][1] = Layer(l)'[j][1]
          PROVE  k = l /\ i = j
        <3>1. CASE i \in 1..Len(Layer(k)) /\ Layer(k)'[i] = Layer(k)[i] /\ Layer(k)[i][1] \in visited
                   /\ j \in 1..Len(Layer(l)) /\ Layer(l)'[j] = Layer(l)[j]
            BY <2>3, <3>1 DEF WalkInv, ListedOnce
        <3>2. CASE /\ k = L + 1 /\ i - Len(next_level) \in 1..Len(found)
                   /\ Layer(k)'[i] = found[i - Len(next_level)]
                   /\ l = L + 1 /\ j - Len(next_level) \in 1..Len(found)
                   /\ Layer(l)'[j] = found[j - Len(next_level)]
            <4> DEFINE u == i - Len(next_level)
                       v == j - Len(next_level)
            <4>1. u \in 1..Len(found) /\ v \in 1..Len(found) /\ found[u][1] = found[v][1]
                BY <3>2, <2>3
            <4> HIDE DEF u, v
            <4>2. u = v
                BY <4>1, <1>6
            <4>3. i \in Int /\ j \in Int
                BY <1>7, <1>13, <3>2
            <4> QED
                BY <4>2, <4>3, <3>2, <1>7 DEF u, v
        <3> QED
            BY <2>3, <3>1, <3>2, <1>6, <1>16
    <2> QED
        BY <2>1, <2>2, <2>3, <1>13 DEF ListedOnce
<1>18. LayersLead'
    <2> SUFFICES ASSUME NEW k \in Layers, NEW i \in 1..Len(Layer(k)')
                 PROVE  LET f == Layer(k)'[i] IN
                        /\ edge[f[2]] > 0 /\ f[1] \in {f[2][1], f[2][2]}
                        /\ Other(f[2], f[1]) \in Found(k - 1)
        BY <1>5, <1>12, <1>13 DEF LayersLead
    <2>1. n \in Found(L)
        BY <1>0, <1>2 DEF WalkInv, FrontierOnce
    <2>2. (L + 1) - 1 = L
        BY <1>2
    <2> QED
        BY <2>1, <2>2, <1>6, <1>16 DEF WalkInv, LayersLead
<1>19. LayersBounded'
    <2>1. LevelsBounded'
        BY <1>5, <1>12 DEF WalkInv, LayersBounded, LevelsBounded
    <2>2. Len(next_level) + limit * m <= limit * Cardinality(Found(L))
        BY <1>0 DEF WalkInv, LayersBounded
    <2> DEFINE x == limit * Cardinality(Found(L))
    <2>3. limit * m = limit * (m - 1) + limit /\ limit * (m - 1) \in Nat
        <3>1. m - 1 \in Nat /\ (m - 1) + 1 = m
            BY <1>2
        <3> QED
            BY <3>1, <1>1, Times
    <2>4. x \in Int
        <3>1. Found(L) \in SUBSET Entities
            BY <1>0, <1>1, <1>2, ListedVisited
        <3>2. Cardinality(Found(L)) \in Nat
            BY <3>1, WalkAssumption, FS_Subset, FS_CardinalityType
        <3> QED
            BY <3>2, <1>1
    <2> HIDE DEF x
    <2>5. Len(next_level) + Len(found) + limit * (m - 1) <= x
        <3> DEFINE y == limit * (m - 1)
        <3>1. y \in Nat /\ Len(next_level) + (y + limit) <= x
            BY <2>2, <2>3 DEF x
        <3> HIDE DEF y
        <3> QED
            BY <3>1, <2>4, <1>1, <1>6, <1>7 DEF y
    <2> QED
        BY <2>1, <2>5, <1>0, <1>5, <1>7, <1>9, <1>12 DEF LayersBounded, x
<1>20. Distances'
    <2>1. NoCut' = NoCut /\ \A k : Within(k)' = Within(k)
        BY <1>5, SameGraph DEF NoCut
    <2> SUFFICES ASSUME NoCut
                 PROVE  visited' = Within(L) \cup Neighbours(Found(L) \ ToSet(frontier'))
        BY <2>1, <1>0, <1>5, <1>12, SameGraph DEF Distances, WalkInv
    <2>2. visited = Within(L) \cup Neighbours(Found(L) \ ToSet(frontier))
        BY <1>0 DEF WalkInv, Distances
    <2>3. Listed(found) = Neighbours({n}) \ visited
        BY <1>2, <1>6 DEF NoCut
    <2>4. Found(L) \ ToSet(frontier') = (Found(L) \ ToSet(frontier)) \cup {n}
        <3>1. /\ ToSet(frontier) = {frontier[i] : i \in 1..m}
              /\ ToSet(frontier') = {frontier'[i] : i \in 1..(m - 1)}
            BY <1>0, <1>1, <1>9, Image
        <3>2. /\ \A i \in 1..m : frontier[i] \in Found(L)
              /\ \A i, j \in 1..m : frontier[i] = frontier[j] => i = j
            BY <1>0 DEF WalkInv, FrontierOnce
        <3>3. \A i \in 1..m : i = 1 \/ (i - 1 \in 1..(m - 1) /\ frontier'[i - 1] = frontier[i])
            BY <1>2, <1>9
        <3>4. \A i \in 1..(m - 1) : frontier'[i] # n
            BY <1>2, <1>9, <3>2
        <3>5. n \in Found(L)
            BY <1>2, <3>2
        <3>6. ASSUME NEW x \in ToSet(frontier)
              PROVE  x = n \/ x \in ToSet(frontier')
            BY <3>1, <3>3, <1>2
        <3>7. ToSet(frontier') \subseteq ToSet(frontier)
            BY <3>1, <1>9
        <3>8. n \notin ToSet(frontier')
            BY <3>1, <3>4
        <3> QED
            BY <3>5, <3>6, <3>7, <3>8
    <2>5. Neighbours(Found(L) \ ToSet(frontier'))
              = Neighbours(Found(L) \ ToSet(frontier)) \cup Neighbours({n})
        BY <2>4, NeighboursUnion
    <2> QED
        BY <2>2, <2>3, <2>5, <1>4
<1> QED
    BY <1>11, <1>14, <1>15, <1>17, <1>18, <1>19, <1>20 DEF WalkInv

(* Closing a level keeps the invariant: it is the set of entities at its   *)
(* distance if no list was cut.                                            *)
LEMMA EndLevelKeeps ==
    ASSUME WalkInv, EndLevel
    PROVE  WalkInv'
<1> DEFINE T == Entities \X Edges
           S == Listed(next_level)
<1>0. PICK L : L = Len(levels)
    OBVIOUS
<1>1. /\ edge \in [Edges -> Nat] /\ limit \in Nat /\ visited \subseteq Entities
      /\ frontier \in Seq(Entities) /\ next_level \in Seq(T) /\ levels \in Seq(Seq(T))
    BY DEF WalkInv, WalkTyped
<1>2. /\ edge' = edge /\ limit' = limit /\ visited' = visited /\ next_level' = <<>>
      /\ frontier = <<>> /\ walk = "running" /\ L \in Nat
    BY <1>0, <1>1 DEF EndLevel
<1>3. CASE next_level = <<>>
    <2>1. levels' = levels /\ frontier' = frontier /\ walk' = "done" /\ next_level' = next_level
        BY <1>2, <1>3 DEF EndLevel
    <2>2. /\ \A k : Found(k)' = Found(k) /\ Layer(k)' = Layer(k)
          /\ Layers' = Layers
        BY <2>1 DEF Found, Layer, Layers
    <2>3. NoCut' = NoCut /\ \A k : Within(k)' = Within(k)
        BY <1>2, SameGraph DEF NoCut
    <2>4. WalkTyped' /\ Begins' /\ Ends' /\ FrontierOnce'
        BY <1>2, <1>3, <2>1, <2>2 DEF WalkInv, WalkTyped, Begins, Ends, FrontierOnce
    <2>5. ListedOnce'
        BY <1>2, <2>1, <2>2 DEF WalkInv, ListedOnce
    <2>6. LayersLead'
        BY <1>2, <2>2 DEF WalkInv, LayersLead
    <2>7. LayersBounded'
        BY <1>2, <2>1, <2>2 DEF WalkInv, LayersBounded, LevelsBounded
    <2>8. Distances'
        BY <1>2, <2>1, <2>2, <2>3, SameGraph DEF WalkInv, Distances
    <2> QED
        BY <2>4, <2>5, <2>6, <2>7, <2>8 DEF WalkInv
<1>4. CASE next_level # <<>>
    <2>1. /\ levels' = Append(levels, next_level) /\ frontier' = Listing(S, Ascending)
          /\ walk' \in {"done", "running"}
        BY <1>2, <1>4 DEF EndLevel, Listed
    <2>2. S = {next_level[i][1] : i \in 1..Len(next_level)} /\ S \subseteq Entities
        <3>1. S = {next_level[i][1] : i \in 1..Len(next_level)}
            <4> HIDE DEF T
            <4> QED
                BY <1>1, ListedIs
        <3>2. \A i \in 1..Len(next_level) : next_level[i] \in T
            BY <1>1, Elements
        <3> QED
            BY <3>1, <3>2
    <2> HIDE DEF T, S
    <2>3. IsFiniteSet(S) /\ Cardinality(S) \in Nat
        BY <2>2, WalkAssumption, FS_Subset, FS_CardinalityType
    <2>4. /\ frontier' \in Seq(S) /\ Len(frontier') = Cardinality(S)
          /\ \A x \in S : \E k \in 1..Len(frontier') : frontier'[k] = x
          /\ \A i, j \in 1..Len(frontier') : frontier'[i] = frontier'[j] => i = j
        <3> DEFINE l == Listing(S, Ascending)
        <3>1. l = Listing(S, Ascending)
            OBVIOUS
        <3>2. StrictOrder(S, Ascending)
            BY <2>2, WalkAssumption, Orderly
        <3> HIDE DEF l
        <3>3. /\ l \in Seq(S) /\ Len(l) = Cardinality(S)
              /\ \A x \in S : \E k \in 1..Len(l) : l[k] = x
              /\ \A i, j \in 1..Len(l) : l[i] = l[j] => i = j
            BY <2>3, <3>1, <3>2, ListingSound
        <3> QED
            BY <2>1, <3>3 DEF l
    <2>5. ToSet(frontier') = S
        <3> DEFINE l == frontier'
        <3>1. l \in Seq(S) /\ \A x \in S : \E k \in 1..Len(l) : l[k] = x
            BY <2>4
        <3> HIDE DEF l
        <3>2. ToSet(l) = {l[k] : k \in 1..Len(l)} /\ ToSet(l) \subseteq S
            BY <3>1, Image
        <3>3. ToSet(l) = S
            BY <3>1, <3>2
        <3> QED
            BY <3>3 DEF l
    <2>6. frontier' \in Seq(Entities)
        BY <2>2, <2>4, Widen
    <2>7. /\ levels' \in Seq(Seq(T)) /\ Len(levels') = L + 1 /\ levels'[L + 1] = next_level
          /\ \A k \in 1..L : levels'[k] = levels[k]
        BY <1>0, <1>1, <1>2, <2>1
    <2>8. WalkTyped'
        <3>1. next_level' \in Seq(T)
            BY <1>2, Elements
        <3> QED
            BY <1>1, <1>2, <2>6, <2>7, <3>1 DEF WalkTyped, T
    <2>9. /\ \A k \in 0..L : Found(k)' = Found(k)
          /\ Found(L + 1)' = S
        <3>1. \A k \in 0..L : k = 0 \/ k \in 1..L
            BY <1>2
        <3>2. L + 1 # 0
            BY <1>2
        <3> QED
            BY <2>7, <3>1, <3>2 DEF Found, S, Listed
    <2>10. /\ Layers = 1..(L + 1) /\ Layers' = 1..(L + 2)
           /\ \A k \in 1..(L + 1) : Layer(k)' = Layer(k)
           /\ Layer(L + 1) = next_level
           /\ Layer(L + 2)' = <<>>
        <3>1. Layers = 1..(L + 1) /\ Layers' = 1..(L + 2)
            BY <1>0, <1>2, <2>7 DEF Layers
        <3>2. ASSUME NEW k \in 1..(L + 1)
              PROVE  Layer(k)' = Layer(k)
            <4>1. k # L + 2
                BY <1>2
            <4>2. CASE k = L + 1
                BY <4>1, <4>2, <1>0, <1>2, <2>7 DEF Layer
            <4>3. CASE k \in 1..L
                <5>1. k # L + 1
                    BY <4>3, <1>2
                <5> QED
                    BY <4>1, <4>3, <5>1, <1>0, <1>2, <2>7 DEF Layer
            <4> QED
                BY <4>2, <4>3, <1>2
        <3>3. Layer(L + 1) = next_level
            BY <1>0 DEF Layer
        <3>4. Layer(L + 2)' = <<>>
            BY <1>2, <2>7 DEF Layer
        <3> QED
            BY <3>1, <3>2, <3>3, <3>4
    <2>11. Begins' /\ Ends'
        BY <1>2, <2>1 DEF Begins, Ends
    <2>12. FrontierOnce'
        <3>1. \A i \in 1..Len(frontier') : frontier'[i] \in S
            BY <2>4, Elements
        <3> QED
            BY <3>1, <2>4, <2>7, <2>9 DEF FrontierOnce
    <2>13. ASSUME NEW k \in Layers', NEW i \in 1..Len(Layer(k)')
           PROVE  k \in Layers /\ i \in 1..Len(Layer(k)) /\ Layer(k)' = Layer(k)
        <3>1. k = L + 2 \/ k \in 1..(L + 1)
            BY <2>10, <1>2
        <3>2. CASE k = L + 2
            <4>1. Layer(k)' = <<>>
                BY <2>10, <3>2
            <4> QED
                BY <4>1
        <3> QED
            BY <3>1, <3>2, <2>10
    <2>14. visited = UNION {Found(k)' : k \in 0..(L + 1)}
        <3>1. visited = (UNION {Found(k) : k \in 0..L}) \cup S
            BY <1>0 DEF WalkInv, ListedOnce, S
        <3>2. \A k \in 0..(L + 1) : k \in 0..L \/ k = L + 1
            BY <1>2
        <3>3. L + 1 \in 0..(L + 1) /\ \A k \in 0..L : k \in 0..(L + 1)
            BY <1>2
        <3> QED
            BY <3>1, <3>2, <3>3, <2>9
    <2>15. ListedOnce'
        <3>1. Listed(next_level') = {}
            BY <1>2 DEF Listed, ToSet
        <3>2. visited' = (UNION {Found(k)' : k \in 0..Len(levels')}) \cup Listed(next_level')
            BY <1>2, <2>7, <2>14, <3>1
        <3> QED
            BY <3>2, <2>13 DEF WalkInv, ListedOnce
    <2>16. LayersLead'
        <3> SUFFICES ASSUME NEW k \in Layers', NEW i \in 1..Len(Layer(k)')
                     PROVE  LET f == Layer(k)'[i] IN
                            /\ edge'[f[2]] > 0 /\ f[1] \in {f[2][1], f[2][2]}
                            /\ Other(f[2], f[1]) \in Found(k - 1)'
            BY DEF LayersLead
        <3>1. k - 1 \in 0..L
            BY <2>10, <2>13, <1>2
        <3> QED
            BY <3>1, <2>9, <2>13, <1>2 DEF WalkInv, LayersLead
    <2>17. LayersBounded'
        <3>1. Cardinality(S) \in Nat /\ limit * Cardinality(S) \in Nat
            BY <2>3, <1>1, Times
        <3>2. Len(next_level') + limit' * Len(frontier') <= limit' * Cardinality(Found(Len(levels))')
            BY <3>1, <1>2, <2>4, <2>7, <2>9
        <3>3. Len(next_level) <= limit * Cardinality(Found(L))
            BY <1>0, <1>1, <1>2, Times DEF WalkInv, LayersBounded
        <3>4. ASSUME NEW k \in 1..(L + 1)
              PROVE  Len(levels'[k]) <= limit' * Cardinality(Found(k - 1)')
            <4>1. CASE k = L + 1
                <5>1. k - 1 = L
                    BY <4>1, <1>2
                <5> QED
                    BY <4>1, <5>1, <3>3, <1>2, <2>7, <2>9
            <4>2. CASE k \in 1..L
                <5>1. k - 1 \in 0..L
                    BY <4>2, <1>2
                <5> QED
                    BY <4>2, <5>1, <1>0, <1>2, <2>7, <2>9 DEF WalkInv, LayersBounded, LevelsBounded
            <4> QED
                BY <4>1, <4>2, <1>2
        <3> QED
            BY <3>2, <3>4, <2>7 DEF LayersBounded, LevelsBounded
    <2>18. Distances'
        <3>1. /\ NoCut' = NoCut /\ \A k : Within(k)' = Within(k)
              /\ \A A : Neighbours(A)' = Neighbours(A)
            BY <1>2, SameGraph DEF NoCut
        <3> SUFFICES ASSUME NoCut
                     PROVE  /\ \A k \in 1..(L + 1) : Found(k)' = Within(k) \ Within(k - 1)
                            /\ Within(L + 1) = UNION {Found(k)' : k \in 0..(L + 1)}
                            /\ visited = Within(L + 1) \cup Neighbours(S \ ToSet(frontier'))
            BY <3>1, <1>2, <2>7, <2>9 DEF Distances
        <3>2. /\ \A k \in 1..L : Found(k) = Within(k) \ Within(k - 1)
              /\ Within(L) = UNION {Found(k) : k \in 0..L}
              /\ visited = Within(L) \cup Neighbours(Found(L) \ ToSet(frontier))
            BY <1>0 DEF WalkInv, Distances
        <3>3. ToSet(frontier) = {}
            BY <1>2 DEF ToSet
        <3>4. visited = Within(L) \cup Neighbours(Found(L))
            BY <3>2, <3>3
        <3>5. Within(L + 1) = Within(L) \cup Neighbours(Within(L))
            BY <1>2, WithinNext
        <3>6. Neighbours(Within(L)) \subseteq Within(L) \cup Neighbours(Found(L))
            <4>1. CASE L = 0
                BY <4>1, WithinZero DEF Found
            <4>2. CASE L # 0
                <5> DEFINE j == L - 1
                <5>1. j \in Nat /\ j + 1 = L /\ L \in 1..L
                    BY <4>2, <1>2
                <5>2. Found(L) = Within(L) \ Within(j)
                    BY <5>1, <3>2
                <5> HIDE DEF j
                <5>3. Within(L) = Within(j) \cup Neighbours(Within(j))
                    BY <5>1, WithinNext
                <5>4. Within(L) = Within(j) \cup Found(L)
                    BY <5>2, <5>3
                <5>5. Neighbours(Within(L)) = Neighbours(Within(j)) \cup Neighbours(Found(L))
                    BY <5>4, NeighboursUnion
                <5> QED
                    BY <5>3, <5>5
            <4> QED
                BY <4>1, <4>2
        <3>7. Neighbours(Found(L)) \subseteq Neighbours(Within(L))
            <4>1. Found(L) \subseteq Within(L)
                BY <3>2, <1>2
            <4> QED
                BY <4>1, NeighboursUnion
        <3>8. visited = Within(L + 1)
            BY <3>4, <3>5, <3>6, <3>7
        <3>9. S \cap Within(L) = {} /\ S \subseteq visited
            <4>1. S \subseteq visited
                BY DEF WalkInv, ListedOnce, S
            <4>2. ASSUME NEW i \in 1..Len(next_level), NEW k \in 0..L
                  PROVE  next_level[i][1] \notin Found(k)
                <5>1. L + 1 \in Layers /\ Layer(L + 1) = next_level
                    BY <2>10, <1>2
                <5>2. CASE k = 0
                    BY <5>1, <5>2 DEF WalkInv, ListedOnce, Found
                <5>3. CASE k \in 1..L
                    <6>1. k \in Layers /\ Layer(k) = levels[k] /\ k # L + 1 /\ k # 0
                        BY <5>3, <1>0, <1>2, <2>10 DEF Layer
                    <6>2. levels[k] \in Seq(T)
                        BY <5>3, <1>0, <1>1
                    <6>3. Found(k) = {levels[k][j][1] : j \in 1..Len(levels[k])}
                        BY <6>1, <6>2, ListedIs DEF Found, Listed
                    <6>4. \A j \in 1..Len(levels[k]) : levels[k][j][1] # next_level[i][1]
                        <7>1. ListedOnce
                            BY DEF WalkInv
                        <7>2. \A j \in 1..Len(Layer(k)) :
                                  Layer(k)[j][1] # Layer(L + 1)[i][1]
                            BY ONLY <7>1, <5>1, <6>1, i \in 1..Len(next_level) DEF ListedOnce
                        <7> QED
                            BY ONLY <7>2, <5>1, <6>1
                    <6> QED
                        BY <6>3, <6>4
                <5> QED
                    BY <5>2, <5>3, <1>2
            <4> QED
                BY <4>1, <4>2, <2>2, <3>2
        <3>10. S = Within(L + 1) \ Within(L)
            <4>1. visited = (UNION {Found(k) : k \in 0..L}) \cup S
                BY <1>0 DEF WalkInv, ListedOnce, S
            <4> QED
                BY <4>1, <3>2, <3>8, <3>9
        <3>11. ASSUME NEW k \in 1..(L + 1)
               PROVE  Found(k)' = Within(k) \ Within(k - 1)
            <4>1. CASE k = L + 1
                <5>1. k - 1 = L
                    BY <4>1, <1>2
                <5> QED
                    BY <4>1, <5>1, <3>10, <2>9
            <4>2. CASE k \in 1..L
                BY <4>2, <3>2, <2>9, <1>2
            <4> QED
                BY <4>1, <4>2, <1>2
        <3>12. Neighbours(S \ ToSet(frontier')) = {}
            BY <2>5, NeighboursUnion
        <3> QED
            BY <3>8, <3>11, <3>12, <2>14
    <2> QED
        BY <2>8, <2>11, <2>12, <2>15, <2>16, <2>17, <2>18 DEF WalkInv
<1> QED
    BY <1>3, <1>4

(* What the walk starts from, whatever the graph and the call. *)
Beginning ==
    /\ edge \in [Edges -> Nat] /\ limit \in Nat
    /\ visited = {Start} /\ frontier = <<Start>> /\ next_level = <<>> /\ levels = <<>>

(* The invariant holds at the start of a walk. *)
LEMMA BeginningIsSound == Beginning => WalkInv
<1> SUFFICES ASSUME Beginning
             PROVE  WalkInv
    OBVIOUS
<1> DEFINE T == Entities \X Edges
<1>1. /\ edge \in [Edges -> Nat] /\ limit \in Nat /\ visited = {Start}
      /\ frontier = <<Start>> /\ next_level = <<>> /\ levels = <<>>
    BY DEF Beginning
<1>2. /\ Start \in Entities /\ <<Start>> \in Seq(Entities)
      /\ <<>> \in Seq(T) /\ <<>> \in Seq(Seq(T))
    BY StartIsEntity, Elements
<1>3. /\ Len(levels) = 0 /\ Len(next_level) = 0 /\ Len(frontier) = 1
      /\ frontier[1] = Start
    BY <1>1
<1>4. Layers = {1} /\ Layer(1) = <<>> /\ Listed(next_level) = {}
    BY <1>1, <1>3 DEF Layers, Layer, Listed, ToSet
<1>5. Found(0) = {Start} /\ 0..0 = {0} /\ UNION {Found(k) : k \in 0..0} = {Start}
    BY DEF Found
<1>6. WalkTyped
    BY <1>1, <1>2 DEF WalkTyped, T
<1>7. Begins /\ Ends
    BY <1>1 DEF Begins, Ends
<1>8. FrontierOnce
    BY <1>3, <1>5 DEF FrontierOnce
<1>9. ListedOnce
    BY <1>1, <1>3, <1>4, <1>5 DEF ListedOnce
<1>10. LayersLead
    BY <1>4 DEF LayersLead
<1>11. LayersBounded
    <2>1. Cardinality(Found(0)) = 1
        BY <1>5, FS_Singleton
    <2>2. LevelsBounded
        BY <1>3 DEF LevelsBounded
    <2> QED
        BY <1>1, <1>3, <2>1, <2>2, Times DEF LayersBounded
<1>12. Distances
    <2>1. ToSet(frontier) = {Start}
        BY <1>1, <1>3 DEF ToSet
    <2>2. Neighbours(Found(0) \ ToSet(frontier)) = {}
        <3>1. Found(0) \ ToSet(frontier) = {}
            BY <2>1, <1>5
        <3> QED
            BY <3>1, NeighboursUnion
    <2>3. /\ Len(levels) = 0 /\ 1..0 = {} /\ Within(0) = {Start} /\ visited = {Start}
          /\ UNION {Found(k) : k \in 0..0} = {Start}
        BY <1>1, <1>3, <1>5, WithinZero
    <2>4. /\ \A k \in 1..Len(levels) : Found(k) = Within(k) \ Within(k - 1)
          /\ Within(Len(levels)) = UNION {Found(k) : k \in 0..Len(levels)}
          /\ visited = Within(Len(levels)) \cup Neighbours(Found(Len(levels)) \ ToSet(frontier))
        BY <2>2, <2>3
    <2> QED
        BY <2>4 DEF Distances
<1> QED
    BY <1>6, <1>7, <1>8, <1>9, <1>10, <1>11, <1>12 DEF WalkInv

(* A walk starts in such a state. *)
LEMMA StartedIsBeginning ==
    ASSUME WalkInv, traverse
    PROVE  Beginning'
<1>1. /\ edge' \in [Edges -> 0..MaxWeight] /\ limit' \in Nat
      /\ visited' = {Start} /\ frontier' = <<Start>> /\ next_level' = <<>> /\ levels' = <<>>
    BY WalkAssumption DEF traverse, WalkInv, Begins
<1>2. edge' \in [Edges -> Nat]
    BY <1>1, WalkAssumption
<1> QED
    BY <1>1, <1>2 DEF Beginning

(* A step that changes nothing keeps the invariant. *)
LEMMA WalkStutters ==
    ASSUME WalkInv, UNCHANGED walkVars
    PROVE  WalkInv'
<1>1. /\ edge' = edge /\ limit' = limit /\ visited' = visited /\ frontier' = frontier
      /\ next_level' = next_level /\ levels' = levels /\ walk' = walk
    BY DEF walkVars
<1>2. /\ Layers' = Layers
      /\ \A k : Found(k)' = Found(k) /\ Layer(k)' = Layer(k)
    BY <1>1 DEF Found, Layer, Layers
<1>3. NoCut' = NoCut /\ \A k : Within(k)' = Within(k)
    BY <1>1, SameGraph DEF NoCut
<1>4. WalkTyped' /\ Begins' /\ Ends' /\ FrontierOnce'
    BY <1>1, <1>2 DEF WalkInv, WalkTyped, Begins, Ends, FrontierOnce
<1>5. ListedOnce'
    BY <1>1, <1>2 DEF WalkInv, ListedOnce
<1>6. LayersLead'
    BY <1>1, <1>2 DEF WalkInv, LayersLead
<1>7. LayersBounded'
    BY <1>1, <1>2 DEF WalkInv, LayersBounded, LevelsBounded
<1>8. Distances'
    BY <1>1, <1>2, <1>3, SameGraph DEF WalkInv, Distances
<1> QED
    BY <1>4, <1>5, <1>6, <1>7, <1>8 DEF WalkInv

(* At the end of a walk the invariant gives what the walk promises. *)
LEMMA DoneIsSound == WalkInv => TraversalSound
<1> SUFFICES ASSUME WalkInv, walk = "done"
             PROVE  FoundOnce /\ EdgesLead /\ LevelsBounded /\ LevelsAreDistances
    BY DEF TraversalSound
<1>1. next_level = <<>> /\ Listed(next_level) = {}
    BY DEF WalkInv, Ends, Listed, ToSet
<1>2. \A k \in 1..Len(levels) : k \in Layers /\ Layer(k) = levels[k]
    BY DEF WalkInv, WalkTyped, Layers, Layer
<1>3. FoundOnce
    BY <1>1, <1>2 DEF WalkInv, ListedOnce, FoundOnce
<1>4. EdgesLead
    <2> SUFFICES ASSUME NEW k \in 1..Len(levels), NEW f \in ToSet(levels[k])
                 PROVE  edge[f[2]] > 0 /\ f[1] \in {f[2][1], f[2][2]}
                        /\ Other(f[2], f[1]) \in Found(k - 1)
        BY DEF EdgesLead
    <2> DEFINE T == Entities \X Edges
    <2>1. levels[k] \in Seq(T)
        BY DEF WalkInv, WalkTyped
    <2> HIDE DEF T
    <2>2. PICK i \in 1..Len(levels[k]) : f = levels[k][i]
        BY <2>1, Image
    <2> QED
        BY <2>2, <1>2 DEF WalkInv, LayersLead
<1>5. LevelsBounded
    BY DEF WalkInv, LayersBounded
<1>6. LevelsAreDistances
    BY DEF WalkInv, Distances, NoCut, LevelsAreDistances
<1> QED
    BY <1>3, <1>4, <1>5, <1>6

(* knowledge::traverse finds each entity once, by an edge from the level   *)
(* before, no more of them than the limit allows; and if no list of        *)
(* neighbours is cut, the levels are the distances from the start.         *)
THEOREM TraversalIsSound == WalkSpec => []TraversalSound
<1>1. WalkInit => WalkInv
    <2>1. WalkInit => Beginning
        BY DEF WalkInit, Beginning
    <2> QED
        BY <2>1, BeginningIsSound
<1>2. WalkInv /\ traverse => WalkInv'
    <2>1. Beginning' => WalkInv'
        BY BeginningIsSound, PTL
    <2> QED
        BY <2>1, StartedIsBeginning
<1>3. WalkInv /\ [WalkNext]_walkVars => WalkInv'
    BY <1>2, ExpandKeeps, EndLevelKeeps, WalkStutters DEF WalkNext
<1> QED
    BY <1>1, <1>3, DoneIsSound, PTL DEF WalkSpec
=============================================================================
