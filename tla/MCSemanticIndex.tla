--------------------------- MODULE MCSemanticIndex ---------------------------
(* Instances of SemanticIndex: the threads and the calls each one makes. *)
EXTENDS SemanticIndex

CONSTANTS writer, reader

(* One thread ingests, trains and re-embeds, another deletes and queries   *)
(* beside it.                                                              *)
WriterAndReader ==
    [a \in {writer, reader} |->
        IF a = writer THEN {"ingest", "train", "reembed"} ELSE {"delete", "query"}]

(* One thread makes every call, one after the other. *)
OneCaller == [a \in {writer} |-> CallNames]

(* A library that is opened once and calls that succeed. *)
UndisturbedSpec ==
    SemInit /\ [][Open \/ \E a \in Actors : StartCall(a) \/ CallStep(a) \/ Return(a)]_mvars
=============================================================================
