------------------------------- MODULE Ranking -------------------------------
(***************************************************************************)
(* Vectors and lists as the retrieval code uses them.  A vector is its     *)
(* direction in the plane, in steps of 30 degrees, so that the cosine is a *)
(* table (in hundredths); what has a score is listed by it, the smaller id *)
(* first among equals.                                                     *)
(***************************************************************************)
EXTENDS Lists

Zero == 12                   \* a vector without length, or an empty one
Directions == 0..Zero

Cosines == <<100, 87, 50, 0, -50, -87, -100>>

cosine(d, e) ==
    IF Zero \in {d, e} THEN 0
    ELSE LET a == IF d > e THEN d - e ELSE e - d
         IN  Cosines[1 + IF a > 6 THEN 12 - a ELSE a]

Lesser(a, b) == IF a < b THEN a ELSE b
Greater(a, b) == IF a < b THEN b ELSE a

(* What has a score, the highest first. *)
ByScore(score) ==
    LET S == DOMAIN score
    IN  Listing(S, {p \in S \X S :
                       \/ score[p[1]] > score[p[2]]
                       \/ score[p[1]] = score[p[2]] /\ p[1] < p[2]})
=============================================================================
