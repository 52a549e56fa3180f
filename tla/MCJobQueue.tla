----------------------------- MODULE MCJobQueue -----------------------------
(* Instances of JobQueue for TLC: one engine with its worker pool, and two *)
(* engines on one file.                                                    *)
EXTENDS JobQueue

CONSTANTS e1, e2, w1, w2

OneEngineHome == [w \in Threads |-> e1]
TwoEnginesHome == [w \in Threads |-> IF w = w1 THEN e1 ELSE e2]
=============================================================================
