-------------------------------- MODULE Lists --------------------------------
(***************************************************************************)
(* ORDER BY and filters on lists, without folds or a sorting primitive, so *)
(* that theorems about them have something to expand.                      *)
(***************************************************************************)
EXTENDS Integers, Sequences, SequencesExt, FiniteSets

(* What precedes x in a finite set S ordered by `before`, a set of pairs. *)
Preceding(S, before, x) == {y \in S : <<y, x>> \in before}

(* ORDER BY: the elements of S, each at the place of its rank. *)
Listing(S, before) ==
    [k \in 1..Cardinality(S) |->
        CHOOSE x \in S : Cardinality(Preceding(S, before, x)) = k - 1]

Ascending == {p \in Int \X Int : p[1] < p[2]}
Descending == {p \in Int \X Int : p[1] > p[2]}

(* retain, or filter ... collect: the elements of list s at these places. *)
Retain(s, places) ==
    LET order == Listing(places, Ascending)
    IN  [k \in 1..Cardinality(places) |-> s[order[k]]]

(* LIMIT, or truncate. *)
Truncate(s, n) == SubSeq(s, 1, IF Len(s) < n THEN Len(s) ELSE n)
=============================================================================
