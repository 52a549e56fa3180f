---------------------------- MODULE KnowledgeGraph ----------------------------
(***************************************************************************)
(* Entities, their aliases, mentions and counters, and the co-occurrence   *)
(* edges between them: what process_document, delete_document,             *)
(* merge_entities and add_entity_alias do to those tables.  A call is a    *)
(* sequence of commits, so calls of different threads interleave and a     *)
(* call can be cut short between any two of them.                          *)
(*                                                                         *)
(* A document is a sequence of chunks, a chunk the sequence of the         *)
(* surfaces found in it (chunks without any are left out); a surface has   *)
(* a canonical key and a type.  How similar two keys are is given by Alike *)
(* (Jaro-Winkler >= 0.93).                                                 *)
(***************************************************************************)
EXTENDS Naturals, Integers, Sequences, FiniteSets

CONSTANTS
    Callers,      \* threads that make calls
    Docs,         \* Docs[d]: the surfaces in each chunk of document d
    Key,          \* Key[x]: canonical_key of surface x
    Plain,        \* the surfaces whose lower case is their key
    Type,         \* Type[x]: the entity type the extractor gives x
    Alike,        \* pairs of keys similar enough to link
    ExtraAliases, \* surfaces a user may register as aliases
    MaxEntities,  \* bound: rows ever inserted into `entities`
    MaxMerges,    \* bound: merges ever begun
    Overlapping,  \* the calls that may run beside others
    FaultCalls    \* the calls that may be cut short

Surfaces == DOMAIN Key
DocNos == 1..Len(Docs)
Ids == 1..MaxEntities
CallKinds == {"process", "delete", "merge"}

ASSUME GraphAssumption ==
    /\ MaxEntities \in Nat /\ MaxMerges \in Nat
    /\ Docs \in Seq(Seq(Seq(Surfaces)))
    /\ \A d \in DocNos : Docs[d] # <<>> /\ \A i \in DOMAIN Docs[d] : Docs[d][i] # <<>>
    /\ Plain \subseteq Surfaces /\ ExtraAliases \subseteq Surfaces
    /\ \A k \in Alike : <<k[2], k[1]>> \in Alike
    /\ Overlapping \subseteq CallKinds
    /\ FaultCalls \subseteq CallKinds

VARIABLES
    kept,      \* the documents with a row
    todo,      \* of these, the ones that are not processed yet
    last,      \* the AUTOINCREMENT counter of `entities`
    alive,     \* the ids with a row in `entities`
    entity,    \* entity[e]: the key, display surface, type and count of e
    aliases,   \* rows of `entity_aliases`: <<entity, surface>>
    mentions,  \* rows of `entity_mentions`: <<document, chunk, place, entity>>
    weight,    \* weight[a, b]: of the edge (a, b), 0 if there is none
    merges,    \* how many merges began (rows of `entity_merge_log`)
    task,      \* task[c]: the call caller c is in
    cut        \* was a call cut short?

tableVars == <<kept, todo, last, alive, entity, aliases, mentions, weight,
               merges>>
gvars == <<tableVars, task, cut>>

NoEntity == [key |-> "", name |-> "", type |-> "", count |-> 0]
Free == [kind |-> "idle", at |-> "idle", doc |-> 0, chunk |-> 1, place |-> 1,
         found |-> 0, ids |-> {}, to |-> 0, from |-> 0, moved |-> 0]
GraphInit ==
    /\ kept = DocNos /\ todo = DocNos
    /\ last = 0 /\ alive = {}
    /\ entity = [e \in Ids |-> NoEntity]
    /\ aliases = {} /\ mentions = {}
    /\ weight = [p \in Ids \X Ids |-> 0]
    /\ task = [c \in Callers |-> Free]
    /\ merges = 0
    /\ cut = FALSE

-----------------------------------------------------------------------------
(* Resolution of a surface: by key, by alias, by similarity within a type. *)

resolve_surface(k) ==
    LET byKey == {e \in alive : entity[e].key = k} IN
    IF byKey # {} THEN byKey
    ELSE {r[1] : r \in {a \in aliases : a[2] \in Plain /\ Key[a[2]] = k}}

(* Mutant: similarity is asked before the alias table and the key. *)
resolve_alike_first(x) ==
    LET alike == {e \in alive : /\ entity[e].type = Type[x]
                                /\ <<Key[x], entity[e].key>> \in Alike}
        alias == {r[1] : r \in {a \in aliases : a[2] = x}}
    IN  IF alike # {} THEN alike ELSE IF alias # {} THEN alias
        ELSE resolve_surface(Key[x])

(* The entities x may resolve to: where several rows match, the one SQLite *)
(* finds first; {} if it is unknown.                                       *)
resolve_candidate(x) ==
    LET exact == resolve_surface(Key[x])
        alias == {r[1] : r \in {a \in aliases : a[2] = x}}
        alike == {e \in alive : /\ entity[e].type = Type[x]
                                /\ <<Key[x], entity[e].key>> \in Alike}
    IN  IF exact # {} THEN exact ELSE IF alias # {} THEN alias ELSE alike

-----------------------------------------------------------------------------
In(c, step) == task[c].at = step
Move(c, step) == task' = [task EXCEPT ![c].at = step]
Leave(c) == task' = [task EXCEPT ![c] = Free]

(* Calls that must not overlap run alone. *)
MayStart(c, kind) ==
    /\ In(c, "idle")
    /\ \A o \in Callers \ {c} :
          task[o].kind = "idle" \/ {kind, task[o].kind} \subseteq Overlapping

-----------------------------------------------------------------------------
(* process_document: persist_entities and link_cooccurrences, by chunk.    *)

BeginProcess(c, d) ==
    /\ MayStart(c, "process")
    /\ d \in todo
    /\ todo' = todo \ {d}
    /\ task' = [task EXCEPT ![c] = [Free EXCEPT !.kind = "process", !.at = "resolve",
                                                !.doc = d]]
    /\ UNCHANGED <<kept, last, alive, entity, aliases, mentions, weight, merges, cut>>

Chunk(c) == Docs[task[c].doc][task[c].chunk]
Surface(c) == Chunk(c)[task[c].place]

Resolve(c) ==
    /\ In(c, "resolve")
    /\ \/ \E e \in resolve_candidate(Surface(c)) :
             task' = [task EXCEPT ![c].at = "record", ![c].found = e]
       \/ /\ resolve_candidate(Surface(c)) = {}
          /\ task' = [task EXCEPT ![c].at = "record", ![c].found = 0]
    /\ UNCHANGED <<tableVars, cut>>

(* insert_mention for entity e, and on to the next candidate. *)
insert_mention(c, e) ==
    LET more == task[c].place < Len(Chunk(c)) IN
    /\ mentions' = mentions \cup {<<task[c].doc, task[c].chunk, task[c].place, e>>}
    /\ task' = [task EXCEPT ![c].at = IF more THEN "resolve" ELSE "count",
                            ![c].place = IF more THEN @ + 1 ELSE 1,
                            ![c].ids = @ \cup {e}]

(* A resolved surface becomes an alias of its entity, which a merge may    *)
(* have removed by now.                                                    *)
RecordKnown(c) ==
    LET e == task[c].found IN
    /\ In(c, "record") /\ e # 0
    /\ IF e \in alive
       THEN aliases' = aliases \cup {<<e, Surface(c)>>} /\ insert_mention(c, e)
       ELSE Leave(c) /\ UNCHANGED <<aliases, mentions>>
    /\ UNCHANGED <<kept, todo, last, alive, entity, weight, merges, cut>>

(* upsert_entity: a new row, or the row another call has just inserted.    *)
RecordNew(c) ==
    LET x == Surface(c)
        same == {e \in alive : entity[e].key = Key[x]}
    IN
    /\ In(c, "record") /\ task[c].found = 0
    /\ IF same # {}
       THEN /\ insert_mention(c, CHOOSE e \in same : TRUE)
            /\ \E name \in {x} \cup {entity[e].name : e \in same} :    \* the longer one
                  entity' = [e \in Ids |->
                      IF e \in same THEN [entity[e] EXCEPT !.name = name] ELSE entity[e]]
            /\ UNCHANGED <<last, alive>>
       ELSE /\ last < MaxEntities
            /\ last' = last + 1
            /\ alive' = alive \cup {last + 1}
            /\ entity' = [entity EXCEPT ![last + 1] =
                  [key |-> Key[x], name |-> x, type |-> Type[x], count |-> 0]]
            /\ insert_mention(c, last + 1)
    /\ UNCHANGED <<kept, todo, aliases, weight, merges, cut>>

bump_entity_mentions(ids, by) ==
    entity' = [e \in Ids |-> IF e \in ids \cap alive
                             THEN [entity[e] EXCEPT !.count = @ + by] ELSE entity[e]]

(* The counter of an entity goes up once per chunk. *)
CountChunk(c) ==
    /\ In(c, "count")
    /\ bump_entity_mentions(task[c].ids, 1)
    /\ Move(c, "link")
    /\ UNCHANGED <<kept, todo, last, alive, aliases, mentions, weight, merges, cut>>

(* upsert_relationship for every pair of the chunk in order, up to one that *)
(* violates a foreign key; then the next chunk.                            *)
LinkChunk(c) ==
    LET pairs == {p \in task[c].ids \X task[c].ids : p[1] < p[2]}
        broken == {p \in pairs : ~({p[1], p[2]} \subseteq alive)}
        Precedes(p, q) == p[1] < q[1] \/ (p[1] = q[1] /\ p[2] < q[2])
        linked == {p \in pairs : \A q \in broken : Precedes(p, q)}
        more == task[c].chunk < Len(Docs[task[c].doc])
    IN
    /\ In(c, "link")
    /\ weight' = [p \in Ids \X Ids |-> weight[p] + IF p \in linked THEN 1 ELSE 0]
    /\ IF broken = {} /\ more
       THEN task' = [task EXCEPT ![c].at = "resolve", ![c].chunk = @ + 1, ![c].ids = {}]
       ELSE Leave(c)
    /\ UNCHANGED <<kept, todo, last, alive, entity, aliases, mentions, merges, cut>>

-----------------------------------------------------------------------------
(* delete_document. *)

BeginDelete(c, d) ==
    /\ MayStart(c, "delete")
    /\ d \in kept \ todo
    /\ task' = [task EXCEPT ![c] =
          [Free EXCEPT !.kind = "delete", !.at = "lower", !.doc = d,
                       !.ids = {m[4] : m \in {n \in mentions : n[1] = d}}]]
    /\ UNCHANGED <<tableVars, cut>>

(* The counters go down before anything is looked at or removed, once per  *)
(* document.                                                               *)
LowerCounts(c) ==
    /\ In(c, "lower")
    /\ bump_entity_mentions(task[c].ids, -1)
    /\ IF task[c].doc \in kept THEN Move(c, "mentions") ELSE Leave(c)
    /\ UNCHANGED <<kept, todo, last, alive, aliases, mentions, weight, merges, cut>>

RemoveMentions(c) ==
    /\ In(c, "mentions")
    /\ mentions' = {m \in mentions : m[1] # task[c].doc}
    /\ Move(c, "row")
    /\ UNCHANGED <<kept, todo, last, alive, entity, aliases, weight, merges, cut>>

RemoveRow(c) ==
    /\ In(c, "row")
    /\ kept' = kept \ {task[c].doc}
    /\ IF task[c].doc \in kept THEN Move(c, "wipe") ELSE Leave(c)
    /\ UNCHANGED <<todo, last, alive, entity, aliases, mentions, weight, merges, cut>>

-----------------------------------------------------------------------------
(* merge_entities. *)

BeginMerge(c, s, m) ==
    /\ MayStart(c, "merge")
    /\ s \in alive /\ m \in 1..last /\ s # m
    /\ merges < MaxMerges
    /\ merges' = merges + 1
    /\ task' = [task EXCEPT ![c] =
          [Free EXCEPT !.kind = "merge", !.at = "move_aliases", !.to = s, !.from = m]]
    /\ UNCHANGED <<kept, todo, last, alive, entity, aliases, mentions, weight, cut>>

(* The aliases and the display name of the merged one. *)
MoveAliases(c) ==
    LET s == task[c].to
        m == task[c].from
        names == {a[2] : a \in {r \in aliases : r[1] = m}}
                     \cup {entity[e].name : e \in alive \cap {m}}
    IN
    /\ In(c, "move_aliases")
    /\ IF s \in alive \/ names = {}
       THEN aliases' = aliases \cup ({s} \X names) /\ Move(c, "count_moved")
       ELSE Leave(c) /\ UNCHANGED aliases      \* FOREIGN KEY constraint failed
    /\ UNCHANGED <<kept, todo, last, alive, entity, mentions, weight, merges, cut>>

CountMoved(c) ==
    /\ In(c, "count_moved")
    /\ task' = [task EXCEPT ![c].at = "move_mentions",
          ![c].moved = Cardinality({r \in mentions : r[4] = task[c].from})]
    /\ UNCHANGED <<tableVars, cut>>

(* Mutant: the mentions are left to the cascade. *)
LeaveMentions(c) ==
    /\ In(c, "move_mentions")
    /\ Move(c, "add_count")
    /\ UNCHANGED <<tableVars, cut>>

MoveMentions(c) ==
    /\ In(c, "move_mentions")
    /\ mentions' = {IF r[4] = task[c].from THEN <<r[1], r[2], r[3], task[c].to>> ELSE r :
                       r \in mentions}
    /\ Move(c, "add_count")
    /\ UNCHANGED <<kept, todo, last, alive, entity, aliases, weight, merges, cut>>

(* Mutant: the survivor's counter is forgotten. *)
KeepCount(c) ==
    /\ In(c, "add_count")
    /\ Move(c, "move_edges")
    /\ UNCHANGED <<tableVars, cut>>

(* The survivor's counter goes up by the mention rows that moved. *)
AddCount(c) ==
    /\ In(c, "add_count")
    /\ bump_entity_mentions({task[c].to}, task[c].moved)
    /\ Move(c, "move_edges")
    /\ UNCHANGED <<kept, todo, last, alive, aliases, mentions, weight, merges, cut>>

(* UPDATE OR IGNORE the sources, then the targets; what is left is deleted. *)
MoveEdges(c) ==
    LET s == task[c].to
        m == task[c].from
        src == [p \in Ids \X Ids |->
                   IF weight[s, p[2]] # 0 THEN weight[p]
                   ELSE IF p[1] = s THEN weight[m, p[2]]
                   ELSE IF p[1] = m THEN 0 ELSE weight[p]]
        dst == [p \in Ids \X Ids |->
                   IF src[p[1], s] # 0 THEN src[p]
                   ELSE IF p[2] = s THEN src[p[1], m]
                   ELSE IF p[2] = m THEN 0 ELSE src[p]]
    IN
    /\ In(c, "move_edges")
    /\ weight' = [p \in Ids \X Ids |-> IF m \in {p[1], p[2]} THEN 0 ELSE dst[p]]
    /\ Move(c, "drop")
    /\ UNCHANGED <<kept, todo, last, alive, entity, aliases, mentions, merges, cut>>

(* DELETE FROM entities: aliases, mentions and edges cascade. *)
DropEntity(c) ==
    LET m == task[c].from IN
    /\ In(c, "drop")
    /\ alive' = alive \ {m}
    /\ aliases' = {a \in aliases : a[1] # m}
    /\ mentions' = {r \in mentions : r[4] # m}
    /\ weight' = [p \in Ids \X Ids |-> IF m \in {p[1], p[2]} THEN 0 ELSE weight[p]]
    /\ task' = [task EXCEPT ![c].at = "wipe", ![c].ids = {task[c].to}]
    /\ UNCHANGED <<kept, todo, last, entity, merges, cut>>

-----------------------------------------------------------------------------
(* recompute_relationships_for_entities, around the entities in ids. *)

Touches(p, ids) == p[1] \in ids \/ p[2] \in ids

ChunksOf(e) == {<<m[1], m[2]>> : m \in {n \in mentions : n[4] = e}}
Evidence(a, b) == Cardinality(ChunksOf(a) \cap ChunksOf(b))

(* Mutant: only edges that start at an entity are removed. *)
WipeOutgoing(c) ==
    /\ In(c, "wipe")
    /\ weight' = [p \in Ids \X Ids |-> IF p[1] \in task[c].ids THEN 0 ELSE weight[p]]
    /\ Move(c, "rebuild")
    /\ UNCHANGED <<kept, todo, last, alive, entity, aliases, mentions, merges, cut>>

WipeEdges(c) ==
    /\ In(c, "wipe")
    /\ weight' = [p \in Ids \X Ids |-> IF Touches(p, task[c].ids) THEN 0 ELSE weight[p]]
    /\ Move(c, "rebuild")
    /\ UNCHANGED <<kept, todo, last, alive, entity, aliases, mentions, merges, cut>>

RebuildEdges(c) ==
    /\ In(c, "rebuild")
    /\ weight' = [p \in Ids \X Ids |->
          IF p[1] < p[2] /\ Touches(p, task[c].ids) /\ Evidence(p[1], p[2]) > 0
          THEN Evidence(p[1], p[2]) ELSE weight[p]]
    /\ Leave(c)
    /\ UNCHANGED <<kept, todo, last, alive, entity, aliases, mentions, merges, cut>>

-----------------------------------------------------------------------------
(* add_entity_alias: one INSERT OR IGNORE, beside whatever else runs and   *)
(* whether or not x is a name already; refused without a row of the entity.*)
AddAlias(e, x) ==
    /\ e \in alive
    /\ aliases' = aliases \cup {<<e, x>>}
    /\ UNCHANGED <<kept, todo, last, alive, entity, mentions, weight, merges, task, cut>>

(* A statement fails or the process dies. *)
CutShort(c) ==
    /\ task[c].kind \in FaultCalls
    /\ Leave(c)
    /\ cut' = TRUE
    /\ UNCHANGED tableVars

ProcessGoesOn(c) ==
    Resolve(c) \/ RecordKnown(c) \/ RecordNew(c) \/ CountChunk(c) \/ LinkChunk(c)
DeleteGoesOn(c) == LowerCounts(c) \/ RemoveMentions(c) \/ RemoveRow(c)
MergeGoesOn(c) ==
    \/ MoveAliases(c) \/ CountMoved(c) \/ MoveMentions(c) \/ AddCount(c)
    \/ MoveEdges(c) \/ DropEntity(c)

GraphNext ==
    \/ \E c \in Callers :
          \/ \E d \in DocNos : BeginProcess(c, d) \/ BeginDelete(c, d)
          \/ \E s, m \in Ids : BeginMerge(c, s, m)
          \/ ProcessGoesOn(c) \/ DeleteGoesOn(c) \/ MergeGoesOn(c)
          \/ WipeEdges(c) \/ RebuildEdges(c)
          \/ CutShort(c)
    \/ \E e \in Ids, x \in ExtraAliases : AddAlias(e, x)

GraphSpec == GraphInit /\ [][GraphNext]_gvars

-----------------------------------------------------------------------------
(* Properties. *)

Quiet == ~cut /\ \A c \in Callers : In(c, "idle")

(* An edge is exactly the evidence for it, also after documents were       *)
(* processed side by side, deleted, and entities merged: its weight is the *)
(* number of chunks that mention both entities, it is stored smaller id    *)
(* first and never loops.                                                  *)
EdgesExact ==
    Quiet => \A p \in Ids \X Ids :
        weight[p] = IF p[1] < p[2] THEN Evidence(p[1], p[2]) ELSE 0

DocsOf(e) == {m[1] : m \in {n \in mentions : n[4] = e}}

(* The counter that ranks entities never falls below the number of         *)
(* documents that mention the entity, although it is raised per chunk,     *)
(* lowered per document and summed by merges.                              *)
CountCoversDocuments ==
    Quiet => \A e \in alive : entity[e].count >= Cardinality(DocsOf(e))

(* Is x a name of e, by its key or as an alias? *)
Named(e, x) ==
    \/ entity[e].key = Key[x]
    \/ \E a \in aliases : a[1] = e /\ (a[2] = x \/ (a[2] \in Plain /\ Key[a[2]] = Key[x]))

(* A surface keeps resolving to the entity its mentions belong to, however *)
(* documents were interleaved and deleted, and whatever aliases a user     *)
(* registered meanwhile.  Only one that was linked to an entity of another *)
(* key can be lost, to an entity that got the name later: from a user, or  *)
(* from a document that was processed at the same time.  (Merges are       *)
(* another matter: the key of the merged entity is forgotten, and a        *)
(* variant of its name brings it back.)                                    *)
ResolutionStable ==
    merges = 0 =>
        \A m \in mentions :
            LET x == Docs[m[1]][m[2]][m[3]] IN
            \/ resolve_candidate(x) = {m[4]}
            \/ entity[m[4]].key # Key[x] /\ \E o \in alive \ {m[4]} : Named(o, x)

Places == {<<m[1], m[2], m[3]>> : m \in mentions}

(* A merge moves mentions and loses none, wherever it is cut short. *)
MergeKeepsMentions ==
    [][(\A c \in Callers : task[c].kind \in {"idle", "merge"}) => Places' = Places]_gvars
=============================================================================
