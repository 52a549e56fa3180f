------------------------------- MODULE MCParts -------------------------------
(***************************************************************************)
(* The parts that share no state, in one instance: a behaviour moves one   *)
(* of them and leaves the others as they begin.                            *)
(***************************************************************************)
EXTENDS RetryClock, Chunking, Claims, GraphTraversal, AnnIndex, Query, Migrations

CONSTANT Parts     \* the parts that may move

VARIABLE part

-----------------------------------------------------------------------------
(* Lines: the limit is 8 characters and the minimum 7. *)

Line(kind, len, stop) == [kind |-> kind, len |-> len, stop |-> stop]

Prose == {Line("heading", 2, FALSE), Line("blank", 0, FALSE), Line("text", 3, TRUE),
          Line("text", 8, TRUE), Line("text", 8, FALSE)}
Code == {Line("unit", 5, FALSE), Line("open", 2, FALSE), Line("blank", 0, FALSE),
         Line("text", 8, TRUE)}

(* Claims about two metrics; "12,000" is <<12, 0>> and 12 thousand 12 with *)
(* the word 1000.                                                          *)
Statement(groups, suffix, word, metric, year, negated) ==
    [object |-> [groups |-> groups, suffix |-> suffix, word |-> word],
     metric |-> metric, year |-> year, negated |-> negated]

Said == {Statement(<<10>>, 1000, 1, "arr", 2023, FALSE),
         Statement(<<10>>, 1, 1000, "arr", 2024, TRUE),
         Statement(<<12>>, 1000, 1, "arr", 2024, FALSE),
         Statement(<<12, 0>>, 1, 1, "arr", 0, FALSE),
         Statement(<<>>, 1, 1, "ceo", 0, TRUE)}

(* A spread corpus, one of duplicates with an opposite, one with a vector  *)
(* that has no length.                                                     *)
Corpora == {<<0, 1, 2, 3, 4, 5>>, <<0, 0, 0, 0, 0, 6>>, <<0, 1, 11, 6, 5, 12>>}
Levels == <<0, 0, 1, 0, 2, 0>>

(* Chunks 1 and 2 are of document 1, the others of documents 2 and 3. *)
Owners == <<1, 1, 2, 3>>
Row(terms, section, years, dir, names, phrases, authority, len) ==
    [terms |-> terms, section |-> section, years |-> years, dir |-> dir, names |-> names,
     phrases |-> phrases, authority |-> authority, len |-> len, damp |-> 19 + len \div 4]
Texts4 == {Row({"x", "y"}, {"x"}, {2024}, 0, {1}, {"q"}, 12, 5),
           Row({"x"}, {}, {2019}, 1, {}, {}, 10, 9),
           Row({"y"}, {}, {}, 7, {1}, {}, 11, 4),
           Row({"x"}, {}, {2021, 2024}, Zero, {}, {}, 10, 3)}
Stores == {s \in [1..4 -> Texts4] : s[1].dir = 0 /\ s[2].dir \in {1, 7}}

Request(mode, cues, years, names, docs, entities, k, flag) ==
    [mode |-> mode, blank |-> FALSE, cues |-> cues, years |-> years, names |-> names,
     terms |-> {"x"}, dir |-> 0, name |-> "q", docs |-> docs, entities |-> entities,
     top_k |-> k, ann |-> flag, include_provenance |-> flag,
     context_budget |-> 14, max_per_document |-> 1]

Asked ==
    {Request("auto", {}, {}, {1}, {}, {}, 2, TRUE),
     Request("auto", {"latest"}, {}, {}, {}, {}, 3, FALSE),
     Request("auto", {"when"}, {2019, 2021}, {}, {}, {}, 2, FALSE),
     Request("auto", {"summarize"}, {}, {}, {1}, {}, 3, TRUE),
     Request("auto", {"summarize"}, {}, {}, {2}, {}, 1, FALSE),
     Request("auto", {"quoted"}, {}, {}, {}, {1}, 3, FALSE),
     Request("entity", {}, {}, {1}, {1, 2}, {}, 2, TRUE),
     Request("vector", {}, {2020}, {}, {1, 2}, {1}, 1, FALSE),
     [Request("hybrid", {}, {}, {}, {}, {}, 3, FALSE) EXCEPT !.blank = TRUE]}

-----------------------------------------------------------------------------
Init ==
    /\ part \in Parts
    /\ ClockInit /\ TextInit /\ ClaimsInit /\ WalkInit /\ AnnInit /\ QueryInit /\ MigInit
    /\ part # "text" => ~is_code
    /\ part # "ann" => layout = <<0, 1, 2, 3, 4, 5>>
    /\ part # "query" => library = CHOOSE s \in Stores : TRUE
    /\ part # "file" => tables = {} /\ userVersion = 0

(* What the other parts keep. *)
Rest(p) ==
    /\ UNCHANGED part
    /\ p # "clock" => UNCHANGED cvars
    /\ p # "text" => UNCHANGED textVars
    /\ p # "claims" => UNCHANGED claimVars
    /\ p # "walk" => UNCHANGED walkVars
    /\ p # "ann" => UNCHANGED annVars
    /\ p # "query" => UNCHANGED queryVars
    /\ p # "file" => UNCHANGED mvars

Next ==
    \/ part = "clock" /\ ClockNext /\ Rest("clock")
    \/ part = "text" /\ AddLine /\ Rest("text")
    \/ part = "claims" /\ ClaimsNext /\ Rest("claims")
    \/ part = "walk" /\ WalkNext /\ Rest("walk")
    \/ part = "ann" /\ AnnNext /\ Rest("ann")
    \/ part = "query" /\ QueryNext /\ Rest("query")
    \/ part = "file" /\ MigNext /\ Rest("file")

allVars == <<cvars, textVars, claimVars, walkVars, annVars, queryVars, mvars, part>>

(* Only the opening of a file is asked to get anywhere, as in MigFairSpec. *)
Spec ==
    /\ Init /\ [][Next]_allVars
    /\ \A o \in Openers : WF_allVars(part = "file" /\ OpenStep(o) /\ Rest("file"))
=============================================================================
