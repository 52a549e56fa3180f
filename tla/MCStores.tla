------------------------------- MODULE MCStores -------------------------------
(***************************************************************************)
(* The stores that threads of the application call, in one instance: the   *)
(* documents, in synchronous mode, and the knowledge graph.  A behaviour   *)
(* moves one of them and leaves the other as it begins.                    *)
(***************************************************************************)
EXTENDS DocumentStore, KnowledgeGraph, TLC

VARIABLE part    \* what moves

(* The steps at which a call about a document can fail without             *)
(* consequences: before the text is taken, before anything is deleted, and *)
(* after the document is ready or gone.                                    *)
HarmlessFaults ==
    {"find", "insert", "get", "take", "clear", "summarize", "summary_prov",
     "complete", "summary_failed", "del_get", "del_mentions", "del_edges"}

(* The graph: two documents of which one has two chunks, a company under   *)
(* two surfaces of one key, a misspelling of it, a second entity, and a    *)
(* nickname that only an alias can resolve.                                *)
TwoDocs == << << <<"Acme", "Bolt">>, <<"Acme Corp", "Bolt">> >>,
              << <<"Acmee", "Bolt", "ACM">> >> >>

Keys == [x \in {"Acme", "Acme Corp", "Acmee", "Bolt", "ACM"} |->
            CASE x \in {"Acme", "Acme Corp"} -> "acme"
              [] x = "Acmee" -> "acmee"
              [] x = "Bolt" -> "bolt"
              [] OTHER -> "acm"]

Types == [x \in DOMAIN Keys |-> "ORG"]
PlainSurfaces == {"Acme", "Acmee", "Bolt", "ACM"}
AlikeKeys == {<<"acme", "acmee">>, <<"acmee", "acme">>}

CallerSymmetry == Permutations(Actors) \cup Permutations(Callers)

-----------------------------------------------------------------------------
StoresInit == part \in {"documents", "graph"} /\ StoreInit /\ GraphInit

StoresNext ==
    /\ UNCHANGED part
    /\ \/ part = "documents" /\ SyncNext /\ UNCHANGED gvars
       \/ part = "graph" /\ GraphNext /\ UNCHANGED svars

StoresSpec == StoresInit /\ [][StoresNext]_<<svars, gvars, part>>
=============================================================================
