----------------------------- MODULE MCFailures -----------------------------
(***************************************************************************)
(* Background ingestion in two instances that share no state: one where    *)
(* everything may fail, by the names of Ingestion, and one where a system  *)
(* that stays open has to get somewhere ("live", the names that end in 2). *)
(* A behaviour moves one of them and leaves the other as it begins.        *)
(***************************************************************************)
EXTENDS MCIngestion

VARIABLES
    part,                                                          \* what moves
    status2, kind2, attempts2, hidden2, lastId2, engine2, pc2, job2, outcome2, seen2, lost2,
    rows2, hash2, readiness2, pendingText2, chunkRows2, derived2, lastDoc2, call2, payload2

vars2 ==
    <<status2, kind2, attempts2, hidden2, lastId2, engine2, pc2, job2, outcome2, seen2, lost2,
      rows2, hash2, readiness2, pendingText2, chunkRows2, derived2, lastDoc2, call2, payload2>>

(* Any statement may fail. *)
AllFaults == Steps

(* A client that deletes documents and processes them itself, and reports  *)
(* that are lost.                                                          *)
Live == INSTANCE Ingestion WITH
    HasLlm <- FALSE, FaultSteps <- {}, ClientCalls <- {"delete", "process"},
    Events <- {"lose_report"},
    status <- status2, kind <- kind2, attempts <- attempts2, hidden <- hidden2,
    lastId <- lastId2, engine <- engine2, pc <- pc2, job <- job2, outcome <- outcome2,
    seen <- seen2, lost <- lost2, rows <- rows2, hash <- hash2, readiness <- readiness2,
    pendingText <- pendingText2, chunkRows <- chunkRows2, derived <- derived2,
    lastDoc <- lastDoc2, call <- call2, payload <- payload2

PartsInit == part \in {"failures", "live"} /\ IngestionInit /\ Live!IngestionInit

PartsNext ==
    /\ UNCHANGED part
    /\ \/ part = "failures" /\ IngestionNext /\ UNCHANGED vars2
       \/ part = "live" /\ Live!IngestionNext /\ UNCHANGED ivars

PartsSpec == PartsInit /\ [][PartsNext]_<<ivars, vars2, part>> /\ Live!IngestionFairness

-----------------------------------------------------------------------------
(* Beside deletions and a second caller, a text in its row has a job that  *)
(* will take it.                                                           *)
LiveTextHasJob == Live!TextHasJob

(* In a system that stays open, an ingested document becomes ready or is   *)
(* deleted.                                                                *)
LiveIngestedBecomesReady == Live!IngestedBecomesReady
=============================================================================
