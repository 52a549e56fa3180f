------------------------------ MODULE Migrations ------------------------------
(***************************************************************************)
(* Store::open: connecting to the library file and bringing its schema up  *)
(* to date.  Every batch of DDL is one transaction, PRAGMA user_version is *)
(* stamped in a commit of its own after it, and any number of connections, *)
(* of one process or of several, may open the file at the same time.       *)
(*                                                                         *)
(* The file is its tables, its added columns and its stamp; a connection   *)
(* is a record with its place in the loop over the batches, the stamp it   *)
(* read at the start and the state of its transaction.                     *)
(***************************************************************************)
EXTENDS Naturals, FiniteSets

CONSTANTS
    Openers,    \* the connections that may be open at once
    Faults      \* may a statement fail by itself (disk full)?

ASSUME MigrationAssumption == Faults \in BOOLEAN

VARIABLES
    tables,        \* the tables of the file
    columns,       \* the columns that ALTER TABLE added, as <<table, column>>
    userVersion,   \* PRAGMA user_version
    opener         \* opener[o]: connection o

mvars == <<tables, columns, userVersion, opener>>

-----------------------------------------------------------------------------
(* The batches.  Tables and indexes are created IF NOT EXISTS, columns are *)
(* added unconditionally; the signature is the column whose presence       *)
(* proves that the batch was committed.                                    *)

SCHEMA_VERSION == 5

V1_BASE ==
    [tables |-> {"documents", "chunks", "chunks_fts"},
     columns |-> {}, signature |-> {}]

V2_KNOWLEDGE ==
    [tables |-> {"term_df"},
     columns |-> {<<"chunks", "knowledge_json">>, <<"documents", "language">>,
                  <<"documents", "pending_text">>},
     signature |-> {<<"chunks", "knowledge_json">>}]

V3_GRAPH_CLAIMS ==
    [tables |-> {"entities", "entity_aliases", "entity_mentions", "claims",
                 "claim_conflicts", "relationships", "provenance"},
     columns |-> {}, signature |-> {}]

V4_JOBS_META ==
    [tables |-> {"jobs", "engine_meta"}, columns |-> {}, signature |-> {}]

V5_SEMANTIC_INCREMENTAL ==
    [tables |-> {"lsa_terms", "entity_merge_log"},
     columns |-> {<<"chunks", "embedding_model">>, <<"claims", "start_offset">>,
                  <<"claims", "end_offset">>, <<"claim_conflicts", "conflict_kind">>,
                  <<"jobs", "run_at">>, <<"jobs", "progress">>},
     signature |-> {<<"chunks", "embedding_model">>}]

MIGRATIONS ==
    <<V1_BASE, V2_KNOWLEDGE, V3_GRAPH_CLAIMS, V4_JOBS_META, V5_SEMANTIC_INCREMENTAL>>

TablesOf(k) == UNION {MIGRATIONS[i].tables : i \in 1..k}
ColumnsOf(k) == UNION {MIGRATIONS[i].columns : i \in 1..k}

-----------------------------------------------------------------------------
(* Connections. *)

Unopened ==
    [at |-> "closed", seen |-> 0, target |-> 0, txn |-> "none", alone |-> FALSE,
     err |-> "none"]

Steps == {"version", "probe", "exec", "heal", "stamp"}
InProgress(o) == opener[o].at \in Steps
Others(o) == Openers \ {o}

(* A connection that has written inside its transaction holds the lock. *)
LockedFor(o) == \E p \in Others(o) : opener[p].txn = "writing"
(* A file with the first k batches, stamped v: a new one, one of an older  *)
(* build, one whose stamp lags, or one of a newer build.                   *)
MigInit ==
    /\ \E k \in 0..5, v \in 0..6 :
          /\ v <= k \/ (k = 5 /\ v = 6)
          /\ tables = TablesOf(k)
          /\ columns = ColumnsOf(k)
          /\ userVersion = v
    /\ opener = [o \in Openers |-> Unopened]

(* A commit makes the snapshot of every open read transaction stale. *)
Overtaken(o, p) ==
    IF p # o /\ opener[p].txn = "clean" THEN "behind" ELSE opener[p].txn

FailOpen(o, why) ==
    opener' = [opener EXCEPT ![o].at = "failed", ![o].err = why, ![o].txn = "none"]

(* Where the loop goes for batch t: the signature is looked up first. *)
Enter(t) == IF MIGRATIONS[t].signature # {} THEN "probe" ELSE "exec"

(* Mutant: the loop starts one batch too late. *)
SkipOne(v) == v + 2

FirstTarget(v) == v + 1

-----------------------------------------------------------------------------
(* Connect and set the pragmas; whoever is connected is no longer alone. *)
Connect(o) ==
    /\ opener[o].at = "closed"
    /\ opener' =
          [p \in Openers |->
              IF p = o
              THEN [Unopened EXCEPT !.at = "version",
                                  !.alone = \A q \in Others(o) : opener[q].at = "closed"]
              ELSE [opener[p] EXCEPT !.alone = FALSE]]
    /\ UNCHANGED <<tables, columns, userVersion>>

(* The stamp is read once, before the loop. *)
ReadVersion(o) ==
    /\ opener[o].at = "version"
    /\ IF userVersion > SCHEMA_VERSION
       THEN FailOpen(o, "newer")
       ELSE LET t == FirstTarget(userVersion) IN
            opener' = [opener EXCEPT
                ![o].at = IF t > SCHEMA_VERSION THEN "open" ELSE Enter(t),
                ![o].seen = userVersion,
                ![o].target = IF t > SCHEMA_VERSION THEN 0 ELSE t]
    /\ UNCHANGED <<tables, columns, userVersion>>

Batch(o) == MIGRATIONS[opener[o].target]

(* Mutant: the batch runs whether its signature is there or not. *)
AlwaysApply(o) ==
    /\ opener[o].at = "probe"
    /\ opener' = [opener EXCEPT ![o].at = "exec"]
    /\ UNCHANGED <<tables, columns, userVersion>>

(* A batch whose signature column exists is skipped. *)
ProbeSignature(o) ==
    /\ opener[o].at = "probe"
    /\ opener' = [opener EXCEPT
          ![o].at = IF Batch(o).signature \subseteq columns THEN "stamp" ELSE "exec"]
    /\ UNCHANGED <<tables, columns, userVersion>>

(* Does batch b change a file that has the present tables? *)
Writes(b) == b.columns # {} \/ ~(b.tables \subseteq tables)

(* BEGIN; DDL; COMMIT.  On a duplicate column the batch stops where it is  *)
(* and its transaction stays open; a BEGIN inside a transaction, or a      *)
(* table that is missing, is an error of another kind.                     *)
ExecBatch(o) ==
    LET b == Batch(o) IN
    /\ opener[o].at = "exec"
    /\ IF opener[o].txn # "none" \/ (\E c \in b.columns : c[1] \notin tables)
       THEN FailOpen(o, "ddl") /\ UNCHANGED <<tables, columns>>
       ELSE IF b.columns \cap columns # {}
       THEN /\ opener' = [opener EXCEPT ![o].at = "heal", ![o].txn = "clean"]
            /\ UNCHANGED <<tables, columns>>
       ELSE /\ Writes(b) => ~LockedFor(o)
            /\ tables' = tables \cup b.tables
            /\ columns' = columns \cup b.columns
            /\ opener' = [p \in Openers |->
                  [opener[p] EXCEPT !.txn = IF Writes(b) THEN Overtaken(o, p) ELSE @,
                                    !.at = IF p = o THEN "stamp" ELSE @]]
    /\ UNCHANGED userVersion

(* The error counts as healed when the signature column is there by now. *)
Heal(o) ==
    /\ opener[o].at = "heal"
    /\ IF Batch(o).signature # {} /\ Batch(o).signature \subseteq columns
       THEN opener' = [opener EXCEPT ![o].at = "stamp"]
       ELSE FailOpen(o, "ddl")
    /\ UNCHANGED <<tables, columns, userVersion>>

(* The loop goes on to the next batch. *)
Advance(o, p) ==
    IF p # o THEN [opener[p] EXCEPT !.txn = Overtaken(o, p)]
    ELSE IF opener[o].target = SCHEMA_VERSION THEN [opener[o] EXCEPT !.at = "open"]
    ELSE [opener[o] EXCEPT !.target = @ + 1, !.at = Enter(opener[o].target + 1)]

(* Mutant: the loop stays at a batch that is applied. *)
StampAgain(o) ==
    /\ opener[o].at = "stamp"
    /\ userVersion' = opener[o].target
    /\ opener' = [opener EXCEPT ![o].at = Enter(opener[o].target)]
    /\ UNCHANGED <<tables, columns>>

(* Mutant: the stamp of the last batch is written at once. *)
StampAtEnd(o) ==
    /\ opener[o].at = "stamp"
    /\ userVersion' = SCHEMA_VERSION
    /\ opener' = [p \in Openers |-> Advance(o, p)]
    /\ UNCHANGED <<tables, columns>>

(* PRAGMA user_version = target, in a commit of its own. *)
Stamp(o) ==
    /\ opener[o].at = "stamp"
    /\ opener[o].txn = "none"
    /\ ~LockedFor(o)
    /\ userVersion' = opener[o].target
    /\ opener' = [p \in Openers |-> Advance(o, p)]
    /\ UNCHANGED <<tables, columns>>

(* Inside a transaction that a failed batch left open, nothing commits the *)
(* stamp; from a stale snapshot the write is refused.                      *)
StampInside(o) ==
    /\ opener[o].at = "stamp"
    /\ opener[o].txn # "none"
    /\ IF opener[o].txn = "behind"
       THEN FailOpen(o, "busy")
       ELSE /\ ~LockedFor(o)
            /\ opener' = [opener EXCEPT ![o] = [Advance(o, o) EXCEPT !.txn = "writing"]]
    /\ UNCHANGED <<tables, columns, userVersion>>

(* busy_timeout runs out while another connection holds the write lock. *)
Busy(o) ==
    /\ opener[o].at = "stamp" \/ (opener[o].at = "exec" /\ Writes(Batch(o)))
    /\ LockedFor(o)
    /\ FailOpen(o, "busy")
    /\ UNCHANGED <<tables, columns, userVersion>>

Fault(o) ==
    /\ Faults
    /\ InProgress(o)
    /\ FailOpen(o, "fault")
    /\ UNCHANGED <<tables, columns, userVersion>>

(* The connection is dropped, or its process dies: SQLite rolls back what  *)
(* it has not committed.                                                   *)
Disconnect(o) ==
    /\ opener[o].at # "closed"
    /\ opener' = [opener EXCEPT ![o] = Unopened]
    /\ UNCHANGED <<tables, columns, userVersion>>

OpenStep(o) ==
    \/ ReadVersion(o) \/ ProbeSignature(o) \/ ExecBatch(o) \/ Heal(o)
    \/ Stamp(o) \/ StampInside(o) \/ Busy(o)

MigNext == \E o \in Openers : Connect(o) \/ OpenStep(o) \/ Fault(o) \/ Disconnect(o)

MigSpec == MigInit /\ [][MigNext]_mvars

(* A connection that is opening the file goes on. *)
MigFairSpec == MigSpec /\ \A o \in Openers : WF_mvars(OpenStep(o))

-----------------------------------------------------------------------------
(* Properties. *)

(* The stamp never claims a batch that is not in the file, whatever the    *)
(* order in which connections write it (a newer build's stamp aside).      *)
StampTrue ==
    userVersion <= SCHEMA_VERSION =>
        TablesOf(userVersion) \subseteq tables /\ ColumnsOf(userVersion) \subseteq columns

(* A connection that open returned works on the complete schema, also when *)
(* others migrated the file, or moved its stamp back, at the same time.    *)
OpenedIsCurrent ==
    \A o \in Openers :
        opener[o].at = "open" =>
            tables = TablesOf(SCHEMA_VERSION) /\ columns = ColumnsOf(SCHEMA_VERSION)

(* No crash, no fault and no race of earlier openers leaves a file that    *)
(* cannot be opened: an open that nobody disturbs fails on a file of a     *)
(* newer build only, and it leaves the file stamped and no lock behind.    *)
NeverUnopenable ==
    \A o \in Openers :
        /\ opener[o].alone /\ opener[o].at = "failed" => opener[o].err \in {"newer", "fault"}
        /\ opener[o].alone /\ opener[o].at = "open" =>
              userVersion = SCHEMA_VERSION /\ opener[o].txn = "none"

(* Every open returns: the loop over the batches ends for each connection. *)
OpenReturns == \A o \in Openers : InProgress(o) ~> ~InProgress(o)

=============================================================================
