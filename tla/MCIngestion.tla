----------------------------- MODULE MCIngestion -----------------------------
(* Instances of Ingestion: one engine e1, and where its workers live. *)
EXTENDS Ingestion

CONSTANTS e1

Home1 == [w \in Threads |-> e1]
=============================================================================
