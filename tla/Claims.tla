-------------------------------- MODULE Claims --------------------------------
(***************************************************************************)
(* persist_claims: a claim that is stored is compared with those stored    *)
(* before it about the same metric (subject and predicate), and what       *)
(* contradicts it becomes a conflict row.  delete_document removes the     *)
(* claims of a document, and their conflicts with them.                    *)
(*                                                                         *)
(* An object such as "$10,000" or "10 thousand" is the groups of digits    *)
(* between its commas, its magnitude suffix and the magnitude word after   *)
(* it (1 for none); an object without a number has no groups.              *)
(***************************************************************************)
EXTENDS Lists

CONSTANTS
    Statements,   \* the claims extracted: [metric, object, year, negated]
    MaxClaims,    \* bound: claims ever stored
    MAX_COMPARISONS,
    MAX_CONFLICTS_PER_CLAIM

Documents == {1, 2}

Objects == [groups : Seq(Nat), suffix : Nat \ {0}, word : Nat \ {0}]

ASSUME ClaimsAssumption ==
    /\ Statements \subseteq [metric : {s.metric : s \in Statements}, object : Objects,
                             year : Nat, negated : BOOLEAN]
    /\ MAX_COMPARISONS \in Nat \ {0}
    /\ MAX_CONFLICTS_PER_CLAIM \in Nat

VARIABLES
    claims,     \* claims[i]: a statement and the document it is from
    kept,       \* the ids that have a row
    conflicts   \* rows of claim_conflicts: <<earlier, later, kind>>

claimVars == <<claims, kept, conflicts>>

ClaimsInit == claims = <<>> /\ kept = {} /\ conflicts = <<>>

-----------------------------------------------------------------------------
(* Numbers.  A comma separates tokens, as a space does. *)

Tokens(o) ==
    [k \in 1..Len(o.groups) |->
        [num |-> o.groups[k], mult |-> IF k = Len(o.groups) THEN o.suffix ELSE 1]]
    \o (IF o.word = 1 THEN <<>> ELSE <<[num |-> -1, mult |-> o.word]>>)

(* The first number, with the magnitude it carries or the next word is; 0  *)
(* if there is none, which is treated alike.                               *)
parse_first_number(o) ==
    LET ts == Tokens(o)
        following == IF Len(ts) > 1 /\ ts[1].mult = 1 /\ ts[2].num = -1 THEN ts[2].mult ELSE 1
    IN  IF o.groups = <<>> THEN 0 ELSE ts[1].num * ts[1].mult * following

Differ(v, w) ==      \* CONFLICT_DELTA_THRESHOLD: more than 5% of the larger
    LET larger == IF v > w THEN v ELSE w
        smaller == IF v > w THEN w ELSE v
    IN  100 * (larger - smaller) > 5 * larger

-----------------------------------------------------------------------------
(* Conflicts of claim c, whose id is i, with the claims stored before it.  *)

(* A negated claim conflicts with every assertion about the metric. *)
NegationConflicts(c) ==
    LET asserted == {o \in kept : claims[o].metric = c.metric /\ ~claims[o].negated}
    IN  {<<o, "negation-conflict">> : o \in asserted}

Kind(c, o) ==
    IF 0 \in {c.year, o.year} THEN "undated-disagreement"
    ELSE IF c.year = o.year THEN "same-period-disagreement" ELSE "cross-period"

(* Mutant: the window is taken from the oldest claims. *)
oldest_first(c) ==
    Listing({o \in kept : /\ claims[o].metric = c.metric
                          /\ parse_first_number(claims[o].object) > 0}, Ascending)

(* numeric_claims_for_keys, newest first: negated claims are among them. *)
numeric_claims_for_keys(c) ==
    Listing({o \in kept : /\ claims[o].metric = c.metric
                          /\ parse_first_number(claims[o].object) > 0}, Descending)

(* The claim itself takes the first place of the window. *)
NumericConflicts(c) ==
    LET window == Truncate(numeric_claims_for_keys(c), MAX_COMPARISONS - 1)
        differing == {k \in 1..Len(window) : Differ(parse_first_number(c.object),
                                                    parse_first_number(claims[window[k]].object))}
        capped == Truncate(Retain(window, differing), MAX_CONFLICTS_PER_CLAIM)
    IN  IF parse_first_number(c.object) = 0 THEN {}
        ELSE {<<o, Kind(c, claims[o])>> : o \in ToSet(capped)}

(* The new claim has an id no conflict names yet, so the check for a       *)
(* recorded pair never finds one.                                          *)
persist_claim(d, s) ==
    LET c == [metric |-> s.metric, object |-> s.object, year |-> s.year,
              negated |-> s.negated, doc |-> d]
        id == Len(claims) + 1
        found == IF c.negated THEN NegationConflicts(c) ELSE NumericConflicts(c)
    IN
    /\ id <= MaxClaims
    /\ claims' = Append(claims, c)
    /\ kept' = kept \cup {id}
    /\ conflicts' = conflicts \o
           SetToSeq({[a |-> f[1], b |-> id, kind |-> f[2]] : f \in found})

(* delete_claims_for_doc; conflict rows cascade. *)
delete_claims_for_doc(d) ==
    LET left == {i \in kept : claims[i].doc # d} IN
    /\ left # kept
    /\ kept' = left
    /\ conflicts' = Retain(conflicts, {k \in 1..Len(conflicts) :
                                          {conflicts[k].a, conflicts[k].b} \subseteq left})
    /\ UNCHANGED claims

ClaimsNext ==
    \E d \in Documents :
        (\E s \in Statements : persist_claim(d, s)) \/ delete_claims_for_doc(d)

ClaimsSpec == ClaimsInit /\ [][ClaimsNext]_claimVars

-----------------------------------------------------------------------------
(* Properties. *)

Rows == ToSet(conflicts)
Pair(a, b) == \E r \in Rows : {r.a, r.b} = {a, b}
Numeric(i) == parse_first_number(claims[i].object) > 0
Value(i) == parse_first_number(claims[i].object)

(* The numeric claims about its metric that claim i has been compared with *)
(* at most: those after o.                                                 *)
Between(o, i) ==
    {p \in (o + 1)..(i - 1) : claims[p].metric = claims[i].metric /\ Numeric(p)}

Justified ==
    \A r \in Rows :
        /\ {r.a, r.b} \subseteq kept /\ r.a < r.b
        /\ claims[r.a].metric = claims[r.b].metric
        /\ IF r.kind = "negation-conflict"
           THEN claims[r.b].negated /\ ~claims[r.a].negated
           ELSE /\ Differ(Value(r.a), Value(r.b))
                /\ r.kind = "same-period-disagreement" <=>
                       claims[r.a].year = claims[r.b].year /\ claims[r.a].year # 0

OncePerPair ==
    \A i, j \in 1..Len(conflicts) :
        {conflicts[i].a, conflicts[i].b} = {conflicts[j].a, conflicts[j].b} => i = j

(* Nothing deleted so far: what is not reported was out of the window or   *)
(* beyond the cap.                                                         *)
NothingMissed ==
    kept = 1..Len(claims) =>
        \A i \in kept, o \in kept :
            /\ o < i /\ claims[o].metric = claims[i].metric
            => IF claims[i].negated THEN ~claims[o].negated => Pair(o, i)
               ELSE Numeric(i) /\ Numeric(o) /\ Differ(Value(o), Value(i)) =>
                    \/ Pair(o, i)
                    \/ Cardinality(Between(o, i)) >= MAX_COMPARISONS - 1
                    \/ Cardinality({p \in Between(o, i) : Pair(p, i)}) = MAX_CONFLICTS_PER_CLAIM

(* The caps lose no signal: a claim that disagrees with one in its window  *)
(* has a conflict; each conflict is a disagreement of two claims about one *)
(* metric that are still stored, under the kind their years give it, and   *)
(* no pair is reported twice.                                              *)
ConflictsJustified == Justified /\ OncePerPair /\ NothingMissed
=============================================================================
