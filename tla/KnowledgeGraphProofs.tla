------------------------ MODULE KnowledgeGraphProofs ------------------------
(* Theorems about KnowledgeGraph, for any documents, surfaces, number of   *)
(* callers and entities, when deletions and merges run alone: the edges    *)
(* are what the mentions show, the counters cover the documents, a merge   *)
(* loses no mention, and a name resolves to what it resolved to, however   *)
(* many documents are processed at once.                                   *)
EXTENDS KnowledgeGraph, FiniteSetTheorems, TLAPS

-----------------------------------------------------------------------------
(* Types. *)

ProcessSteps == {"resolve", "record", "count", "link"}
DeleteSteps == {"lower", "mentions", "row", "wipe", "rebuild"}
MergeSteps == {"move_aliases", "count_moved", "move_mentions", "add_count",
               "move_edges", "drop", "wipe", "rebuild"}
CallPlaces == {"idle"} \cup ProcessSteps \cup DeleteSteps \cup MergeSteps

CallRecords ==
    [kind : CallKinds \cup {"idle"},
     at : CallPlaces,
     doc : 0..Len(Docs), chunk : Nat, place : Nat, found : 0..MaxEntities,
     ids : SUBSET Ids, to : 0..MaxEntities, from : 0..MaxEntities, moved : Nat]

EntityKeys == {""} \cup {Key[x] : x \in Surfaces}
EntityNames == {""} \cup Surfaces
EntityTypes == {""} \cup {Type[x] : x \in Surfaces}
EntityRecords ==
    [key : EntityKeys, name : EntityNames, type : EntityTypes, count : Int]

TablesOK ==
    /\ kept \subseteq DocNos /\ todo \subseteq kept
    /\ last \in 0..MaxEntities
    /\ alive \subseteq 1..last
    /\ entity \in [Ids -> EntityRecords]
    /\ \A e \in alive : entity[e].name \in Surfaces
    /\ aliases \subseteq alive \X Surfaces
    /\ mentions \subseteq (DocNos \ todo) \X Nat \X Nat \X alive
    /\ IsFiniteSet(mentions)
    /\ weight \in [Ids \X Ids -> Nat]

CallOK(r) ==
    /\ r.kind = "idle" => r.at = "idle"
    /\ r.kind = "process" =>
          /\ r.at \in ProcessSteps /\ r.doc \in DocNos \ todo
          /\ r.chunk \in DOMAIN Docs[r.doc] /\ r.place \in DOMAIN Docs[r.doc][r.chunk]
          /\ r.at = "record" => r.found = 0 \/ r.found \in alive
          /\ r.at \in {"count", "link"} => r.place = 1
    /\ r.kind = "delete" =>
          /\ r.at \in DeleteSteps /\ r.doc \in DocNos
          /\ r.at \in {"lower", "mentions", "row"} => r.doc \in kept \ todo
    /\ r.kind = "merge" =>
          /\ r.at \in MergeSteps
          /\ r.at \notin {"wipe", "rebuild"} =>
                r.to \in alive /\ r.from \in Ids /\ r.to # r.from

Typed ==
    /\ TablesOK
    /\ task \in [Callers -> CallRecords]
    /\ \A c \in Callers : CallOK(task[c])

-----------------------------------------------------------------------------
(* Deletions and merges run alone; processing calls have documents of      *)
(* their own, and have recorded nothing beyond their present chunk.        *)

OneAtATime == Overlapping \subseteq {"process"}

Apart ==
    \A c, o \in Callers : c # o =>
        /\ task[c].kind \in {"delete", "merge"} => task[o].kind = "idle"
        /\ task[c].kind = "process" /\ task[o].kind = "process" => task[c].doc # task[o].doc

MentionedBy(d, i) == {m[4] : m \in {n \in mentions : n[1] = d /\ n[2] = i}}

(* What a call has in hand is what the tables show of it. *)
RecordedOnly(r) ==
    /\ r.kind = "process" =>
          /\ \A m \in mentions : m[1] = r.doc => m[2] <= r.chunk
          /\ r.ids = MentionedBy(r.doc, r.chunk)
    /\ r.kind = "delete" /\ r.at \in {"lower", "mentions"} =>
          r.ids = {m[4] : m \in {n \in mentions : n[1] = r.doc}}
    /\ r.kind = "merge" /\ r.at \in {"add_count", "move_edges", "drop"} =>
          \A m \in mentions : m[4] # r.from

InStep == Typed /\ Apart /\ \A c \in Callers : RecordedOnly(task[c])

-----------------------------------------------------------------------------
(* The edges while calls run. *)

(* The chunks whose pairs a call has not linked yet. *)
Unlinked == {<<task[c].doc, task[c].chunk>> : c \in {o \in Callers : task[o].kind = "process"}}

Linked(a, b) == Cardinality((ChunksOf(a) \cap ChunksOf(b)) \ Unlinked)

(* The entities around which a call has left the edges to recompute. *)
Stale(r) ==
    IF r.kind = "delete" /\ r.at \in {"row", "wipe", "rebuild"} THEN r.ids
    ELSE IF r.kind = "merge" /\ r.at \in {"wipe", "rebuild"} THEN r.ids
    ELSE IF r.kind = "merge" /\ r.at \in {"add_count", "move_edges", "drop"}
         THEN {r.to, r.from}
    ELSE {}

(* Away from them an edge is what the linked chunks show; around an entity *)
(* whose edges were wiped there is none until they are rebuilt.            *)
ExactEdge(p) == weight[p] = IF p[1] < p[2] THEN Linked(p[1], p[2]) ELSE 0

EdgesInStep ==
    cut \/ \A p \in Ids \X Ids :
        /\ (\A c \in Callers : ~Touches(p, Stale(task[c]))) => ExactEdge(p)
        /\ \A c \in Callers :
              task[c].at = "rebuild" /\ Touches(p, task[c].ids) => weight[p] = 0

-----------------------------------------------------------------------------
(* The counters while calls run. *)

(* The chunks whose entities have not been counted yet, the document whose *)
(* entities no longer count it, and the documents that an entity counts.   *)
Uncounted ==
    {<<task[c].doc, task[c].chunk>> :
        c \in {o \in Callers : task[o].kind = "process" /\ task[o].at # "link"}}
Leaving ==
    {task[c].doc : c \in {o \in Callers : task[o].kind = "delete" /\ task[o].at = "mentions"}}

CountedDocs(e) ==
    {m[1] : m \in {n \in mentions : /\ n[4] = e /\ <<n[1], n[2]>> \notin Uncounted
                                    /\ n[1] \notin Leaving}}

(* What a merge has moved to e and not yet added to its counter. *)
MovedTo(r, e) ==
    IF r.kind = "merge" /\ r.at = "add_count" /\ r.to = e THEN r.moved ELSE 0

(* With it, the counter covers the documents that count.                   *)
CountsInStep ==
    cut \/ /\ \A e \in alive : \E c \in Callers :
                 entity[e].count + MovedTo(task[c], e) >= Cardinality(CountedDocs(e))
           /\ \A c \in Callers : task[c].kind = "merge" /\ task[c].at = "move_mentions" =>
                 task[c].moved = Cardinality({n \in mentions : n[4] = task[c].from})

GraphInv == InStep /\ EdgesInStep /\ CountsInStep

-----------------------------------------------------------------------------
(* What the actions do to the calls. *)

Calls == [Callers -> CallRecords]

OthersStay(c) == \A o \in Callers \ {c} : task'[o] = task[o]

(* Only the place, the chunk and the entities of the call change. *)
Keeps(r, q) ==
    /\ r.kind = q.kind /\ r.doc = q.doc /\ r.to = q.to /\ r.from = q.from

(* The idle call is a call. *)
LEMMA IdleOK == Free \in CallRecords /\ Free.kind = "idle" /\ Free.at = "idle"
BY GraphAssumption
   DEF Free, CallRecords, Ids, CallPlaces, ProcessSteps, DeleteSteps, MergeSteps

(* A call that returns is idle. *)
LEMMA ReturnEffect ==
    ASSUME task \in Calls, NEW c \in Callers, Leave(c)
    PROVE  task' \in Calls /\ task'[c] = Free /\ OthersStay(c)
BY IdleOK DEF Leave, Calls, OthersStay

(* Goto changes the place of a call. *)
LEMMA GotoEffect ==
    ASSUME task \in Calls, NEW c \in Callers, NEW s \in CallPlaces, Move(c, s)
    PROVE  /\ task' \in Calls /\ OthersStay(c)
           /\ task'[c].at = s /\ Keeps(task'[c], task[c])
           /\ task'[c].chunk = task[c].chunk /\ task'[c].place = task[c].place
           /\ task'[c].found = task[c].found /\ task'[c].ids = task[c].ids
           /\ task'[c].moved = task[c].moved
<1>1. task[c] \in CallRecords /\ task' = [task EXCEPT ![c] = [task[c] EXCEPT !.at = s]]
    BY DEF Move, Calls
<1>2. ASSUME NEW r \in CallRecords
      PROVE  /\ [r EXCEPT !.at = s] \in CallRecords
             /\ [r EXCEPT !.at = s].at = s /\ Keeps([r EXCEPT !.at = s], r)
             /\ [r EXCEPT !.at = s].chunk = r.chunk /\ [r EXCEPT !.at = s].place = r.place
             /\ [r EXCEPT !.at = s].found = r.found /\ [r EXCEPT !.at = s].ids = r.ids
             /\ [r EXCEPT !.at = s].moved = r.moved
    BY DEF CallRecords, Keeps, CallPlaces
<1> QED BY <1>1, <1>2 DEF Calls, OthersStay

(* A call that starts is the call it is asked for. *)
LEMMA ProcessStarts ==
    ASSUME task \in Calls, NEW c \in Callers, NEW d \in DocNos, BeginProcess(c, d)
    PROVE  /\ task' \in Calls /\ OthersStay(c)
           /\ task'[c].kind = "process" /\ task'[c].at = "resolve" /\ task'[c].doc = d
           /\ task'[c].chunk = 1 /\ task'[c].place = 1 /\ task'[c].ids = {}
<1> DEFINE r == [Free EXCEPT !.kind = "process", !.at = "resolve", !.doc = d]
<1>1. task' = [task EXCEPT ![c] = r]
    BY DEF BeginProcess
<1>2. Free \in CallRecords /\ d \in 0..Len(Docs) /\ "resolve" \in CallPlaces
    BY IdleOK, GraphAssumption DEF DocNos, CallPlaces, ProcessSteps
<1>3. ASSUME NEW q \in CallRecords
      PROVE  LET u == [q EXCEPT !.kind = "process", !.at = "resolve", !.doc = d] IN
             /\ u \in CallRecords /\ u.kind = "process" /\ u.at = "resolve" /\ u.doc = d
             /\ u.chunk = q.chunk /\ u.place = q.place /\ u.ids = q.ids
    BY <1>2 DEF CallRecords, CallKinds
<1>4. Free.chunk = 1 /\ Free.place = 1 /\ Free.ids = {}
    BY DEF Free
<1> QED BY <1>1, <1>2, <1>3, <1>4 DEF Calls, OthersStay

(* A deletion starts with the entities its document mentions. *)
LEMMA DeleteStarts ==
    ASSUME TablesOK, task \in Calls, NEW c \in Callers, NEW d \in DocNos, BeginDelete(c, d)
    PROVE  /\ task' \in Calls /\ OthersStay(c)
           /\ task'[c].kind = "delete" /\ task'[c].at = "lower" /\ task'[c].doc = d
           /\ task'[c].ids = {m[4] : m \in {n \in mentions : n[1] = d}}
<1> DEFINE S == {m[4] : m \in {n \in mentions : n[1] = d}}
           r == [Free EXCEPT !.kind = "delete", !.at = "lower", !.doc = d, !.ids = S]
<1>1. task' = [task EXCEPT ![c] = r]
    BY DEF BeginDelete
<1>2. Free \in CallRecords /\ d \in 0..Len(Docs) /\ "lower" \in CallPlaces
    BY IdleOK, GraphAssumption DEF DocNos, CallPlaces, DeleteSteps
<1>3. S \in SUBSET Ids
    BY GraphAssumption DEF TablesOK, Ids
<1> HIDE DEF S
<1>4. ASSUME NEW q \in CallRecords
      PROVE  LET u == [q EXCEPT !.kind = "delete", !.at = "lower", !.doc = d, !.ids = S] IN
             /\ u \in CallRecords /\ u.kind = "delete" /\ u.at = "lower" /\ u.doc = d
             /\ u.ids = S
    BY <1>2, <1>3 DEF CallRecords, CallKinds
<1>5. task' \in Calls /\ OthersStay(c) /\ task'[c] = r
    BY <1>1, <1>2, <1>4 DEF Calls, OthersStay
<1>6. r.kind = "delete" /\ r.at = "lower" /\ r.doc = d /\ r.ids = S
    BY <1>2, <1>4
<1> QED BY <1>5, <1>6 DEF S

(* A merge starts with the aliases, on the two entities it is asked for. *)
LEMMA MergeStarts ==
    ASSUME TablesOK, task \in Calls, NEW c \in Callers, NEW s \in Ids, NEW m \in Ids,
           BeginMerge(c, s, m)
    PROVE  /\ task' \in Calls /\ OthersStay(c)
           /\ task'[c].kind = "merge" /\ task'[c].at = "move_aliases"
           /\ task'[c].to = s /\ task'[c].from = m
<1> DEFINE r == [Free EXCEPT !.kind = "merge", !.at = "move_aliases", !.to = s, !.from = m]
<1>1. task' = [task EXCEPT ![c] = r]
    BY DEF BeginMerge
<1>2. /\ Free \in CallRecords /\ "move_aliases" \in CallPlaces
      /\ s \in 0..MaxEntities /\ m \in 0..MaxEntities
    BY IdleOK, GraphAssumption DEF Ids, CallPlaces, MergeSteps
<1>3. ASSUME NEW q \in CallRecords
      PROVE  LET u == [q EXCEPT !.kind = "merge", !.at = "move_aliases", !.to = s,
                                !.from = m] IN
             /\ u \in CallRecords /\ u.kind = "merge" /\ u.at = "move_aliases"
             /\ u.to = s /\ u.from = m
    BY <1>2 DEF CallRecords, CallKinds
<1> QED BY <1>1, <1>2, <1>3 DEF Calls, OthersStay

(* A surface is resolved to a living entity, or to none. *)
LEMMA Resolves ==
    ASSUME TablesOK, NEW x
    PROVE  resolve_candidate(x) \subseteq alive
BY DEF TablesOK, resolve_candidate, resolve_surface

(* A resolution finds a living entity or none. *)
LEMMA ResolveEffect ==
    ASSUME TablesOK, task \in Calls, NEW c \in Callers, Resolve(c)
    PROVE  /\ task' \in Calls /\ OthersStay(c)
           /\ task'[c].at = "record" /\ Keeps(task'[c], task[c])
           /\ task'[c].chunk = task[c].chunk /\ task'[c].place = task[c].place
           /\ task'[c].ids = task[c].ids
           /\ task'[c].found = 0 \/ task'[c].found \in alive
<1>1. PICK e \in {0} \cup alive : task' = [task EXCEPT ![c].at = "record", ![c].found = e]
    BY Resolves DEF Resolve
<1>2. "record" \in CallPlaces /\ e \in 0..MaxEntities /\ task[c] \in CallRecords
    BY GraphAssumption DEF TablesOK, CallPlaces, ProcessSteps, Calls
<1>3. task' = [task EXCEPT ![c] = [task[c] EXCEPT !.at = "record", !.found = e]]
    BY <1>1 DEF Calls
<1>4. ASSUME NEW q \in CallRecords
      PROVE  LET u == [q EXCEPT !.at = "record", !.found = e] IN
             /\ u \in CallRecords /\ u.at = "record" /\ u.found = e /\ Keeps(u, q)
             /\ u.chunk = q.chunk /\ u.place = q.place /\ u.ids = q.ids
    BY <1>2 DEF CallRecords, Keeps
<1> QED BY <1>2, <1>3, <1>4 DEF Calls, OthersStay

(* After a mention the call goes on with the next surface, or counts.      *)
LEMMA MentionEffect ==
    ASSUME task \in Calls, NEW c \in Callers, NEW e \in Ids, insert_mention(c, e)
    PROVE  /\ task' \in Calls /\ OthersStay(c)
           /\ Keeps(task'[c], task[c]) /\ task'[c].chunk = task[c].chunk
           /\ task'[c].ids = task[c].ids \cup {e}
           /\ \/ /\ task'[c].at = "resolve" /\ task'[c].place = task[c].place + 1
                 /\ task[c].place < Len(Chunk(c))
              \/ task'[c].at = "count" /\ task'[c].place = 1
<1> DEFINE more == task[c].place < Len(Chunk(c))
           s == IF more THEN "resolve" ELSE "count"
           n == IF more THEN task[c].place + 1 ELSE 1
           S == task[c].ids \cup {e}
<1>1. task[c] \in CallRecords
    BY DEF Calls
<1>2. task' = [task EXCEPT ![c] = [task[c] EXCEPT !.at = s, !.place = n, !.ids = S]]
    BY <1>1 DEF insert_mention, Calls
<1>3. /\ s \in CallPlaces /\ n \in Nat /\ S \in SUBSET Ids
      /\ \/ s = "resolve" /\ n = task[c].place + 1 /\ more
         \/ s = "count" /\ n = 1
    BY <1>1 DEF CallRecords, CallPlaces, ProcessSteps
<1> HIDE DEF s, n, S
<1>4. ASSUME NEW q \in CallRecords
      PROVE  LET u == [q EXCEPT !.at = s, !.place = n, !.ids = S] IN
             /\ u \in CallRecords /\ u.at = s /\ u.place = n /\ u.ids = S /\ Keeps(u, q)
             /\ u.chunk = q.chunk
    BY <1>3 DEF CallRecords, Keeps
<1>5. S = task[c].ids \cup {e}
    BY DEF S
<1> QED BY <1>1, <1>2, <1>3, <1>4, <1>5 DEF Calls, OthersStay

(* After the pairs of a chunk the call goes on with the next, or returns.  *)
LEMMA LinkEffect ==
    ASSUME task \in Calls, NEW c \in Callers, LinkChunk(c)
    PROVE  /\ task' \in Calls /\ OthersStay(c)
           /\ \/ /\ Keeps(task'[c], task[c]) /\ task'[c].at = "resolve"
                 /\ task'[c].chunk = task[c].chunk + 1 /\ task'[c].place = task[c].place
                 /\ task'[c].ids = {}
                 /\ task[c].chunk < Len(Docs[task[c].doc])
              \/ task'[c] = Free
<1> DEFINE n == task[c].chunk + 1
           r == [task[c] EXCEPT !.at = "resolve", !.chunk = n, !.ids = {}]
<1>1. task[c] \in CallRecords /\ n \in Nat
    BY DEF Calls, CallRecords
<1>2. \/ /\ task' = [task EXCEPT ![c] = r]
         /\ task[c].chunk < Len(Docs[task[c].doc])
      \/ Leave(c)
    BY DEF LinkChunk, Calls
<1>4. CASE Leave(c)
    BY <1>4, ReturnEffect
<1>5. CASE /\ task' = [task EXCEPT ![c] = r]
           /\ task[c].chunk < Len(Docs[task[c].doc])
    <2> HIDE DEF n
    <2>1. ASSUME NEW q \in CallRecords
          PROVE  LET u == [q EXCEPT !.at = "resolve", !.chunk = n, !.ids = {}] IN
                 /\ u \in CallRecords /\ u.at = "resolve" /\ u.chunk = n
                 /\ u.ids = {} /\ Keeps(u, q) /\ u.place = q.place
        BY <1>1 DEF CallRecords, Keeps, CallPlaces, ProcessSteps
    <2>3. /\ task' \in Calls /\ OthersStay(c)
          /\ Keeps(task'[c], task[c]) /\ task'[c].at = "resolve"
          /\ task'[c].chunk = n /\ task'[c].place = task[c].place /\ task'[c].ids = {}
        BY <1>1, <1>5, <2>1 DEF Calls, OthersStay
    <2> QED BY <1>5, <2>3 DEF n
<1> QED BY <1>2, <1>4, <1>5

(* A merge notes how many mentions it will move. *)
LEMMA CountMovedEffect ==
    ASSUME TablesOK, task \in Calls, NEW c \in Callers, CountMoved(c)
    PROVE  /\ task' \in Calls /\ OthersStay(c)
           /\ Keeps(task'[c], task[c]) /\ task'[c].at = "move_mentions"
           /\ task'[c].moved = Cardinality({r \in mentions : r[4] = task[c].from})
<1> DEFINE n == Cardinality({r \in mentions : r[4] = task[c].from})
<1>1. task[c] \in CallRecords
    BY DEF Calls
<1>2. task' = [task EXCEPT ![c] = [task[c] EXCEPT !.at = "move_mentions", !.moved = n]]
    BY DEF CountMoved, Calls
<1>3. n \in Nat
    <2>1. IsFiniteSet({r \in mentions : r[4] = task[c].from})
        BY FS_Subset DEF TablesOK
    <2> QED BY <2>1, FS_CardinalityType
<1> HIDE DEF n
<1>4. ASSUME NEW q \in CallRecords
      PROVE  LET u == [q EXCEPT !.at = "move_mentions", !.moved = n] IN
             u \in CallRecords /\ u.at = "move_mentions" /\ u.moved = n /\ Keeps(u, q)
    BY <1>3 DEF CallRecords, Keeps, CallPlaces, MergeSteps
<1>5. /\ task' \in Calls /\ OthersStay(c)
      /\ Keeps(task'[c], task[c]) /\ task'[c].at = "move_mentions" /\ task'[c].moved = n
    BY <1>1, <1>2, <1>4 DEF Calls, OthersStay
<1> QED BY <1>5 DEF n

(* A merge that dropped its entity goes on around the other one. *)
LEMMA DropEffect ==
    ASSUME task \in Calls, NEW c \in Callers, task[c].to \in Ids, DropEntity(c)
    PROVE  /\ task' \in Calls /\ OthersStay(c)
           /\ Keeps(task'[c], task[c]) /\ task'[c].at = "wipe"
           /\ task'[c].ids = {task[c].to}
<1> DEFINE S == {task[c].to}
<1>1. task[c] \in CallRecords
    BY DEF Calls
<1>2. task' = [task EXCEPT ![c] = [task[c] EXCEPT !.at = "wipe", !.ids = S]]
    BY DEF DropEntity, Calls
<1>3. S \in SUBSET Ids
    OBVIOUS
<1> HIDE DEF S
<1>4. ASSUME NEW q \in CallRecords
      PROVE  LET u == [q EXCEPT !.at = "wipe", !.ids = S] IN
             u \in CallRecords /\ u.at = "wipe" /\ u.ids = S /\ Keeps(u, q)
    BY <1>3 DEF CallRecords, Keeps, CallPlaces, MergeSteps
<1>5. /\ task' \in Calls /\ OthersStay(c)
      /\ Keeps(task'[c], task[c]) /\ task'[c].at = "wipe" /\ task'[c].ids = S
    BY <1>1, <1>2, <1>4 DEF Calls, OthersStay
<1> QED BY <1>5 DEF S

-----------------------------------------------------------------------------
(* Calls stay apart. *)

OthersIdle(c) == \A o \in Callers \ {c} : task[o].kind = "idle"
OthersProcess(c) == \A o \in Callers \ {c} : task[o].kind \in {"idle", "process"}

(* What runs beside a call. *)
LEMMA Company ==
    ASSUME OneAtATime, InStep, NEW c \in Callers
    PROVE  /\ task[c].kind # "idle" => OthersProcess(c)
           /\ task[c].kind \in {"delete", "merge"} => OthersIdle(c)
           /\ MayStart(c, "process") => task[c].kind = "idle" /\ OthersProcess(c)
           /\ MayStart(c, "delete") => OthersIdle(c)
           /\ MayStart(c, "merge") => OthersIdle(c)
<1>1. \A o \in Callers : task[o] \in CallRecords /\ CallOK(task[o])
    BY DEF InStep, Typed
<1>2. \A o \in Callers : task[o].kind \in {"idle", "process", "delete", "merge"}
    BY <1>1 DEF CallRecords, CallKinds
<1>3. In(c, "idle") => task[c].kind = "idle"
    BY <1>1, <1>2 DEF In, CallOK, ProcessSteps, DeleteSteps, MergeSteps
<1>4. /\ task[c].kind # "idle" => OthersProcess(c)
      /\ task[c].kind \in {"delete", "merge"} => OthersIdle(c)
    BY <1>2 DEF InStep, Apart, OthersProcess, OthersIdle
<1>5. /\ MayStart(c, "process") => task[c].kind = "idle" /\ OthersProcess(c)
      /\ MayStart(c, "delete") => OthersIdle(c)
      /\ MayStart(c, "merge") => OthersIdle(c)
    BY <1>2, <1>3 DEF MayStart, OthersProcess, OthersIdle, OneAtATime
<1> QED BY <1>4, <1>5

(* A call that runs alone has only itself to keep in order. *)
LEMMA AloneKeeps ==
    ASSUME InStep, NEW c \in Callers, OthersIdle(c), OthersStay(c), task' \in Calls,
           TablesOK', CallOK(task[c])', RecordedOnly(task[c])'
    PROVE  InStep'
<1>1. ASSUME NEW o \in Callers \ {c}
      PROVE  /\ task'[o].kind = "idle"
             /\ CallOK(task[o])' /\ RecordedOnly(task[o])'
    BY DEF InStep, Typed, CallOK, RecordedOnly, OthersIdle, OthersStay
<1>2. Apart'
    BY <1>1 DEF Apart
<1> QED BY <1>1, <1>2 DEF InStep, Typed, Calls

(* A call that processes leaves the documents of the others alone. *)
LEMMA BesideKeeps ==
    ASSUME InStep, NEW c \in Callers, OthersProcess(c), OthersStay(c), task' \in Calls,
           TablesOK', CallOK(task[c])', RecordedOnly(task[c])',
           todo' \subseteq todo, alive \subseteq alive',
           task'[c].kind \in {"idle", "process"},
           \A o \in Callers \ {c} : task[o].kind = "process" =>
               /\ task'[c].kind = "process" => task'[c].doc # task[o].doc
               /\ \A m : m[1] = task[o].doc => (m \in mentions' <=> m \in mentions)
    PROVE  InStep'
<1>1. ASSUME NEW o \in Callers \ {c}
      PROVE  /\ CallOK(task[o])' /\ RecordedOnly(task[o])'
             /\ task'[o].kind \in {"idle", "process"}
             /\ task'[o].kind = "process" /\ task'[c].kind = "process" =>
                   task'[c].doc # task'[o].doc
    <2>1. task'[o] = task[o] /\ task[o].kind \in {"idle", "process"}
        BY DEF OthersStay, OthersProcess
    <2>2. CallOK(task[o])'
        BY <2>1 DEF InStep, Typed, CallOK
    <2>3. ASSUME task[o].kind = "process"
          PROVE  RecordedOnly(task[o])'
        <3>1. /\ \A m \in mentions : m[1] = task[o].doc => m[2] <= task[o].chunk
              /\ task[o].ids = MentionedBy(task[o].doc, task[o].chunk)
            BY <2>3 DEF InStep, RecordedOnly
        <3>2. \A m : m[1] = task[o].doc => (m \in mentions' <=> m \in mentions)
            BY <2>3
        <3>3. MentionedBy(task[o].doc, task[o].chunk)' = MentionedBy(task[o].doc, task[o].chunk)
            BY <2>1, <3>2 DEF MentionedBy
        <3> QED BY <2>1, <2>3, <3>1, <3>2, <3>3 DEF RecordedOnly
    <2>4. task[o].kind = "idle" => RecordedOnly(task[o])'
        BY <2>1 DEF RecordedOnly
    <2> QED BY <2>1, <2>2, <2>3, <2>4
<1>2. Apart'
    <2>1. ASSUME NEW a \in Callers, NEW b \in Callers, a # b
          PROVE  /\ task'[a].kind \notin {"delete", "merge"}
                 /\ task'[a].kind = "process" /\ task'[b].kind = "process"
                       => task'[a].doc # task'[b].doc
        BY <2>1, <1>1 DEF InStep, Apart, OthersStay
    <2> QED BY <2>1 DEF Apart
<1> QED BY <1>1, <1>2 DEF InStep, Typed, Calls

-----------------------------------------------------------------------------
(* process_document. *)

(* Every document has a first chunk, and every chunk a first surface.      *)
LEMMA DocsShape ==
    ASSUME NEW d \in DocNos
    PROVE  /\ DOMAIN Docs[d] = 1..Len(Docs[d]) /\ Len(Docs[d]) \in Nat
           /\ 1 \in DOMAIN Docs[d]
           /\ \A i \in DOMAIN Docs[d] :
                 /\ DOMAIN Docs[d][i] = 1..Len(Docs[d][i]) /\ Len(Docs[d][i]) \in Nat
                 /\ 1 \in DOMAIN Docs[d][i]
                 /\ \A n \in DOMAIN Docs[d][i] : Docs[d][i][n] \in Surfaces
<1>1. Docs[d] \in Seq(Seq(Surfaces)) /\ Docs[d] # <<>>
    BY GraphAssumption DEF DocNos
<1>2. ASSUME NEW T, NEW q \in Seq(T), q # <<>>
      PROVE  /\ DOMAIN q = 1..Len(q) /\ Len(q) \in Nat /\ 1 \in DOMAIN q
             /\ \A i \in DOMAIN q : q[i] \in T
    BY <1>2
<1>3. ASSUME NEW i \in DOMAIN Docs[d]
      PROVE  Docs[d][i] \in Seq(Surfaces) /\ Docs[d][i] # <<>>
    BY <1>1, <1>2, GraphAssumption
<1> QED BY <1>1, <1>2, <1>3

(* A document that is taken to process has no mention, and is nobody else's. *)
LEMMA StartProcessKeeps ==
    ASSUME OneAtATime, InStep, NEW c \in Callers, NEW d \in DocNos, BeginProcess(c, d)
    PROVE  InStep'
<1>1. TablesOK /\ task \in Calls /\ d \in todo
    BY DEF InStep, Typed, Calls, BeginProcess
<1>2. /\ task' \in Calls /\ OthersStay(c)
      /\ task'[c].kind = "process" /\ task'[c].at = "resolve" /\ task'[c].doc = d
      /\ task'[c].chunk = 1 /\ task'[c].place = 1 /\ task'[c].ids = {}
    BY <1>1, ProcessStarts
<1>3. OthersProcess(c)
    BY Company DEF BeginProcess
<1>4. /\ todo' = todo \ {d}
      /\ UNCHANGED <<kept, last, alive, entity, aliases, mentions, weight>>
    BY DEF BeginProcess
<1>5. TablesOK'
    BY <1>1, <1>4 DEF TablesOK
<1>6. \A m \in mentions : m[1] # d
    BY <1>1 DEF TablesOK
<1>7. CallOK(task[c])'
    BY <1>1, <1>2, <1>4, DocsShape DEF CallOK, ProcessSteps, TablesOK
<1>8. RecordedOnly(task[c])'
    BY <1>2, <1>4, <1>6 DEF RecordedOnly, MentionedBy
<1>9. \A o \in Callers \ {c} : task[o].kind = "process" => task[o].doc # d
    BY <1>1 DEF InStep, Typed, CallOK
<1> QED BY <1>2, <1>3, <1>4, <1>5, <1>7, <1>8, <1>9, BesideKeeps

(* In the middle of a call, what is known of it. *)
LEMMA Processing ==
    ASSUME OneAtATime, InStep, NEW c \in Callers, task[c].at \in ProcessSteps
    PROVE  /\ TablesOK /\ task \in Calls /\ task[c] \in CallRecords
           /\ task[c].kind = "process" /\ OthersProcess(c)
           /\ CallOK(task[c]) /\ RecordedOnly(task[c])
           /\ \A o \in Callers \ {c} : task[o].kind = "process" => task[o].doc # task[c].doc
<1>1. /\ TablesOK /\ task \in Calls /\ task[c] \in CallRecords
      /\ CallOK(task[c]) /\ RecordedOnly(task[c])
    BY DEF InStep, Typed, Calls
<1>2. task[c].kind = "process"
    BY <1>1 DEF CallOK, CallRecords, CallKinds, ProcessSteps, DeleteSteps, MergeSteps
<1>3. OthersProcess(c)
    BY <1>2, Company
<1> QED BY <1>1, <1>2, <1>3 DEF InStep, Apart

(* Resolving a surface changes no table. *)
LEMMA ResolveKeeps ==
    ASSUME OneAtATime, InStep, NEW c \in Callers, Resolve(c)
    PROVE  InStep'
<1>1. task[c].at = "resolve" /\ task[c].at \in ProcessSteps
    BY DEF Resolve, In, ProcessSteps
<1>2. /\ TablesOK /\ task \in Calls /\ task[c] \in CallRecords
      /\ task[c].kind = "process" /\ OthersProcess(c)
      /\ CallOK(task[c]) /\ RecordedOnly(task[c])
      /\ \A o \in Callers \ {c} : task[o].kind = "process" => task[o].doc # task[c].doc
    BY <1>1, Processing
<1>3. /\ task' \in Calls /\ OthersStay(c)
      /\ task'[c].at = "record" /\ Keeps(task'[c], task[c])
      /\ task'[c].chunk = task[c].chunk /\ task'[c].place = task[c].place
      /\ task'[c].ids = task[c].ids
      /\ task'[c].found = 0 \/ task'[c].found \in alive
    BY <1>2, ResolveEffect
<1>4. UNCHANGED <<kept, todo, last, alive, entity, aliases, mentions, weight>>
    BY DEF Resolve, tableVars
<1>5. TablesOK'
    BY <1>2, <1>4 DEF TablesOK
<1>6. CallOK(task[c])'
    BY <1>2, <1>3, <1>4 DEF CallOK, Keeps, ProcessSteps
<1>7. RecordedOnly(task[c])'
    BY <1>2, <1>3, <1>4 DEF RecordedOnly, Keeps, MentionedBy
<1> QED BY <1>2, <1>3, <1>4, <1>5, <1>6, <1>7, BesideKeeps DEF Keeps

(* A mention of a living entity, in the present chunk. *)
LEMMA MentionKeeps ==
    ASSUME OneAtATime, InStep, NEW c \in Callers, task[c].at = "record",
           NEW e \in Ids, insert_mention(c, e), e \in alive',
           UNCHANGED <<kept, todo>>, alive \subseteq alive',
           last' \in 0..MaxEntities, alive' \subseteq 1..last',
           entity' \in [Ids -> EntityRecords], \A i \in alive' : entity'[i].name \in Surfaces,
           aliases' \subseteq alive' \X Surfaces, UNCHANGED weight
    PROVE  InStep'
<1> DEFINE doc == task[c].doc  chunk == task[c].chunk  place == task[c].place
           new == <<doc, chunk, place, e>>
<1>1. task[c].at \in ProcessSteps
    BY DEF ProcessSteps
<1>2. /\ TablesOK /\ task \in Calls /\ task[c] \in CallRecords
      /\ task[c].kind = "process" /\ OthersProcess(c)
      /\ CallOK(task[c]) /\ RecordedOnly(task[c])
      /\ \A o \in Callers \ {c} : task[o].kind = "process" => task[o].doc # doc
    BY <1>1, Processing
<1>3. /\ task' \in Calls /\ OthersStay(c)
      /\ Keeps(task'[c], task[c]) /\ task'[c].chunk = chunk
      /\ task'[c].ids = task[c].ids \cup {e}
      /\ \/ task'[c].at = "resolve" /\ task'[c].place = place + 1 /\ place < Len(Chunk(c))
         \/ task'[c].at = "count" /\ task'[c].place = 1
    BY <1>2, MentionEffect
<1>4. mentions' = mentions \cup {new}
    BY DEF insert_mention
<1>5. /\ doc \in DocNos \ todo /\ chunk \in DOMAIN Docs[doc]
      /\ place \in DOMAIN Docs[doc][chunk]
    BY <1>2 DEF CallOK
<1>6. chunk \in Nat /\ place \in Nat
    BY <1>2 DEF CallRecords
<1>7. TablesOK'
    <2>1. IsFiniteSet(mentions')
        BY <1>2, <1>4, FS_AddElement DEF TablesOK
    <2>2. new \in (DocNos \ todo) \X Nat \X Nat \X alive'
        BY <1>5, <1>6
    <2>3. mentions' \subseteq (DocNos \ todo) \X Nat \X Nat \X alive'
        BY <1>2, <1>4, <2>2 DEF TablesOK
    <2> QED BY <1>2, <2>1, <2>3 DEF TablesOK
<1>8. CallOK(task[c])'
    <2>1. /\ 1 \in DOMAIN Docs[doc][chunk]
          /\ place < Len(Docs[doc][chunk]) => place + 1 \in DOMAIN Docs[doc][chunk]
        BY <1>5, <1>6, DocsShape
    <2>2. task'[c].place \in DOMAIN Docs[doc][chunk] /\ task'[c].at \in {"resolve", "count"}
        BY <1>3, <2>1 DEF Chunk
    <2> QED BY <1>2, <1>3, <1>5, <2>2 DEF CallOK, Keeps, ProcessSteps
<1>9. RecordedOnly(task[c])'
    <2>1. /\ new[1] = doc /\ new[2] = chunk /\ new[4] = e
        OBVIOUS
    <2>2. \A m \in mentions' : m[1] = doc => m[2] <= chunk
        BY <1>2, <1>4, <1>6, <2>1 DEF RecordedOnly
    <2>3. task'[c].kind = "process" /\ task'[c].doc = doc /\ task'[c].chunk = chunk
        BY <1>2, <1>3 DEF Keeps
    <2>4. task'[c].ids = MentionedBy(task[c].doc, task[c].chunk)'
        <3>1. {n \in mentions' : n[1] = doc /\ n[2] = chunk}
                 = {n \in mentions : n[1] = doc /\ n[2] = chunk} \cup {new}
            BY <1>4, <2>1
        <3>2. {m[4] : m \in {n \in mentions' : n[1] = doc /\ n[2] = chunk}}
                 = MentionedBy(doc, chunk) \cup {e}
            BY <2>1, <3>1 DEF MentionedBy
        <3> HIDE DEF new
        <3> QED BY <1>2, <1>3, <2>3, <3>2 DEF RecordedOnly, MentionedBy
    <2> QED BY <2>2, <2>3, <2>4 DEF RecordedOnly
<1>10. \A m : m[1] # doc => (m \in mentions' <=> m \in mentions)
    BY <1>4
<1> QED BY <1>2, <1>3, <1>7, <1>8, <1>9, <1>10, BesideKeeps DEF Keeps

(* A surface is recorded as a mention of a living or a new entity. *)
LEMMA RecordKeeps ==
    ASSUME OneAtATime, InStep, NEW c \in Callers, RecordKnown(c) \/ RecordNew(c)
    PROVE  InStep'
<1>1. task[c].at = "record" /\ task[c].at \in ProcessSteps
    BY DEF RecordKnown, RecordNew, In, ProcessSteps
<1>2. /\ TablesOK /\ task \in Calls /\ task[c] \in CallRecords
      /\ task[c].kind = "process" /\ CallOK(task[c])
    BY <1>1, Processing
<1>3. Surface(c) \in Surfaces
    BY <1>2, DocsShape DEF CallOK, Surface, Chunk
<1>4. alive \subseteq Ids
    BY <1>2, GraphAssumption DEF TablesOK, Ids
<1>5. CASE RecordKnown(c)
    <2> DEFINE e == task[c].found
    <2>1. e \in alive
        BY <1>1, <1>2, <1>5 DEF RecordKnown, CallOK
    <2>2. /\ aliases' = aliases \cup {<<e, Surface(c)>>} /\ insert_mention(c, e)
          /\ UNCHANGED <<kept, todo, last, alive, entity, weight>>
        BY <1>5, <2>1 DEF RecordKnown
    <2>3. aliases' \subseteq alive' \X Surfaces
        BY <1>2, <1>3, <2>1, <2>2 DEF TablesOK
    <2> HIDE DEF e
    <2> QED BY <1>1, <1>2, <1>4, <2>1, <2>2, <2>3, MentionKeeps DEF TablesOK
<1>6. CASE RecordNew(c)
    <2> DEFINE x == Surface(c)
               same == {e \in alive : entity[e].key = Key[x]}
    <2>1. CASE same # {}
        <3> DEFINE e == CHOOSE i \in same : TRUE
        <3>1. e \in alive
            BY <2>1
        <3>2. /\ insert_mention(c, e)
              /\ UNCHANGED <<kept, todo, last, alive, aliases, weight>>
            BY <1>6, <2>1 DEF RecordNew
        <3>3. PICK name \in {x} \cup {entity[i].name : i \in same} :
                 entity' = [i \in Ids |->
                      IF i \in same THEN [entity[i] EXCEPT !.name = name] ELSE entity[i]]
            BY <1>6, <2>1 DEF RecordNew
        <3>4. name \in Surfaces
            BY <1>2, <1>3, <3>3 DEF TablesOK
        <3>5. ASSUME NEW i \in Ids
              PROVE  /\ entity'[i] \in EntityRecords
                     /\ entity'[i].name \in {name, entity[i].name}
            <4>1. entity[i] \in EntityRecords
                BY <1>2 DEF TablesOK
            <4>2. /\ [entity[i] EXCEPT !.name = name] \in EntityRecords
                  /\ [entity[i] EXCEPT !.name = name].name = name
                BY <3>4, <4>1 DEF EntityRecords, EntityNames
            <4> HIDE DEF same, x
            <4> QED BY <3>3, <4>1, <4>2
        <3>6. entity' \in [Ids -> EntityRecords]
            <4> HIDE DEF same, x
            <4> QED BY <3>3, <3>5
        <3> HIDE DEF e, same
        <3> QED BY <1>1, <1>2, <1>4, <3>1, <3>2, <3>4, <3>5, <3>6, MentionKeeps DEF TablesOK
    <2>2. CASE same = {}
        <3> DEFINE e == last + 1
                   r == [key |-> Key[x], name |-> x, type |-> Type[x], count |-> 0]
        <3>1. /\ e \in Ids /\ last' = e /\ alive' = alive \cup {e}
              /\ entity' = [entity EXCEPT ![e] = r] /\ insert_mention(c, e)
              /\ UNCHANGED <<kept, todo, aliases, weight>>
            <4>1. last < MaxEntities /\ last \in Nat
                BY <1>2, <1>6, <2>2, GraphAssumption DEF RecordNew, TablesOK
            <4> QED BY <1>6, <2>2, <4>1, GraphAssumption DEF RecordNew, Ids
        <3>2. r \in EntityRecords /\ r.name \in Surfaces
            <4>1. x \in Surfaces
                BY <1>3
            <4> HIDE DEF x
            <4>2. Key[x] \in {Key[y] : y \in Surfaces} /\ Type[x] \in {Type[y] : y \in Surfaces}
                BY <4>1
            <4>3. /\ Key[x] \in EntityKeys /\ x \in EntityNames /\ Type[x] \in EntityTypes
                BY <4>1, <4>2, Zenon DEF EntityKeys, EntityNames, EntityTypes
            <4>4. ASSUME NEW k \in EntityKeys, NEW n \in EntityNames, NEW t \in EntityTypes
                  PROVE  [key |-> k, name |-> n, type |-> t, count |-> 0] \in EntityRecords
                BY DEF EntityRecords
            <4> QED BY <4>1, <4>3, <4>4
        <3> HIDE DEF r
        <3>3. entity' \in [Ids -> EntityRecords] /\ \A i \in alive' : entity'[i].name \in Surfaces
            BY <1>2, <1>4, <3>1, <3>2 DEF TablesOK
        <3>4. last' \in 0..MaxEntities /\ alive' \subseteq 1..last'
            BY <1>2, <3>1, GraphAssumption DEF TablesOK, Ids
        <3>5. aliases' \subseteq alive' \X Surfaces /\ alive \subseteq alive'
            BY <1>2, <3>1 DEF TablesOK
        <3> HIDE DEF e
        <3> QED BY <1>1, <3>1, <3>3, <3>4, <3>5, MentionKeeps
    <2> QED BY <2>1, <2>2
<1> QED BY <1>5, <1>6

(* bump_entity_mentions changes counters only. *)
LEMMA Bumped ==
    ASSUME TablesOK, NEW S, NEW n \in Int, bump_entity_mentions(S, n)
    PROVE  /\ entity' \in [Ids -> EntityRecords]
           /\ \A e \in Ids : /\ entity'[e].name = entity[e].name /\ entity'[e].key = entity[e].key
                             /\ e \in S \cap alive => entity'[e].count = entity[e].count + n
                             /\ e \notin S \cap alive => entity'[e].count = entity[e].count
<1>1. entity \in [Ids -> EntityRecords]
    BY DEF TablesOK
<1>2. entity' = [e \in Ids |-> IF e \in S \cap alive
                               THEN [entity[e] EXCEPT !.count = entity[e].count + n] ELSE entity[e]]
    BY DEF bump_entity_mentions
<1>3. ASSUME NEW q \in EntityRecords, NEW k \in Int
      PROVE  LET u == [q EXCEPT !.count = k] IN
             u \in EntityRecords /\ u.name = q.name /\ u.key = q.key /\ u.count = k
    BY DEF EntityRecords
<1>4. ASSUME NEW e \in Ids
      PROVE  /\ entity'[e] \in EntityRecords
             /\ entity'[e].name = entity[e].name /\ entity'[e].key = entity[e].key
             /\ e \in S \cap alive => entity'[e].count = entity[e].count + n
             /\ e \notin S \cap alive => entity'[e].count = entity[e].count
    <2>1. entity[e] \in EntityRecords
        BY <1>1
    <2>2. entity[e].count \in Int
        BY <2>1 DEF EntityRecords
    <2>3. entity[e].count + n \in Int
        BY <2>2
    <2> QED BY <1>2, <1>3, <2>1, <2>3
<1> QED BY <1>2, <1>4

(* Counting a chunk changes counters only. *)
LEMMA CountChunkKeeps ==
    ASSUME OneAtATime, InStep, NEW c \in Callers, CountChunk(c)
    PROVE  InStep'
<1>1. task[c].at = "count" /\ task[c].at \in ProcessSteps /\ "link" \in CallPlaces
    BY DEF CountChunk, In, ProcessSteps, CallPlaces
<1>2. /\ TablesOK /\ task \in Calls /\ task[c] \in CallRecords
      /\ task[c].kind = "process" /\ OthersProcess(c)
      /\ CallOK(task[c]) /\ RecordedOnly(task[c])
      /\ \A o \in Callers \ {c} : task[o].kind = "process" => task[o].doc # task[c].doc
    BY <1>1, Processing
<1>3. /\ task' \in Calls /\ OthersStay(c)
      /\ task'[c].at = "link" /\ Keeps(task'[c], task[c])
      /\ task'[c].chunk = task[c].chunk /\ task'[c].place = task[c].place
      /\ task'[c].ids = task[c].ids
    BY <1>1, <1>2, GotoEffect DEF CountChunk
<1>4. UNCHANGED <<kept, todo, last, alive, aliases, mentions, weight>>
    BY DEF CountChunk
<1>5. entity' \in [Ids -> EntityRecords] /\ \A e \in Ids : entity'[e].name = entity[e].name
    BY <1>2, Bumped DEF CountChunk
<1>6. TablesOK'
    <2>1. alive \subseteq Ids
        BY <1>2, GraphAssumption DEF TablesOK, Ids
    <2> QED BY <1>2, <1>4, <1>5, <2>1 DEF TablesOK
<1>7. CallOK(task[c])'
    BY <1>1, <1>2, <1>3, <1>4 DEF CallOK, Keeps, ProcessSteps
<1>8. RecordedOnly(task[c])'
    BY <1>2, <1>3, <1>4 DEF RecordedOnly, Keeps, MentionedBy
<1> QED BY <1>2, <1>3, <1>4, <1>6, <1>7, <1>8, BesideKeeps DEF Keeps

(* After a chunk is linked the next one begins, without mentions. *)
LEMMA LinkChunkKeeps ==
    ASSUME OneAtATime, InStep, NEW c \in Callers, LinkChunk(c)
    PROVE  InStep'
<1>1. task[c].at = "link" /\ task[c].at \in ProcessSteps
    BY DEF LinkChunk, In, ProcessSteps
<1>2. /\ TablesOK /\ task \in Calls /\ task[c] \in CallRecords
      /\ task[c].kind = "process" /\ OthersProcess(c)
      /\ CallOK(task[c]) /\ RecordedOnly(task[c])
      /\ \A o \in Callers \ {c} : task[o].kind = "process" => task[o].doc # task[c].doc
    BY <1>1, Processing
<1>3. /\ task' \in Calls /\ OthersStay(c)
      /\ \/ /\ Keeps(task'[c], task[c]) /\ task'[c].at = "resolve"
            /\ task'[c].chunk = task[c].chunk + 1 /\ task'[c].place = task[c].place
            /\ task'[c].ids = {} /\ task[c].chunk < Len(Docs[task[c].doc])
         \/ task'[c] = Free
    BY <1>2, LinkEffect
<1>4. UNCHANGED <<kept, todo, last, alive, entity, aliases, mentions>>
    BY DEF LinkChunk
<1>5. weight' \in [Ids \X Ids -> Nat]
    BY <1>2 DEF LinkChunk, TablesOK
<1>6. TablesOK'
    BY <1>2, <1>4, <1>5 DEF TablesOK
<1>7. CASE task'[c] = Free
    <2>1. CallOK(task[c])' /\ RecordedOnly(task[c])' /\ task'[c].kind = "idle"
        BY <1>7, IdleOK DEF CallOK, RecordedOnly
    <2> QED BY <1>2, <1>3, <1>4, <1>6, <2>1, BesideKeeps
<1>8. CASE task'[c] # Free
    <2> DEFINE doc == task[c].doc  chunk == task[c].chunk
    <2>1. /\ task'[c].kind = "process" /\ task'[c].at = "resolve" /\ task'[c].doc = doc
          /\ task'[c].chunk = chunk + 1 /\ task'[c].place = task[c].place
          /\ task'[c].ids = {} /\ chunk < Len(Docs[doc]) /\ chunk \in Nat
        BY <1>2, <1>3, <1>8 DEF Keeps, CallRecords
    <2>2. CallOK(task[c])'
        <3>1. doc \in DocNos \ todo /\ chunk \in DOMAIN Docs[doc] /\ task[c].place = 1
            BY <1>1, <1>2 DEF CallOK
        <3>2. chunk + 1 \in DOMAIN Docs[doc]
            BY <2>1, <3>1, DocsShape
        <3>3. 1 \in DOMAIN Docs[doc][chunk + 1]
            BY <3>1, <3>2, DocsShape
        <3> QED BY <1>4, <2>1, <3>1, <3>2, <3>3 DEF CallOK, ProcessSteps
    <2>3. RecordedOnly(task[c])'
        <3>1. \A m \in mentions : m[1] = doc => m[2] <= chunk /\ m[2] \in Nat
            BY <1>2 DEF RecordedOnly, TablesOK
        <3>2. \A m \in mentions' : m[1] = task'[c].doc => m[2] <= task'[c].chunk
            BY <1>4, <2>1, <3>1
        <3>3. MentionedBy(task[c].doc, task[c].chunk)' = {}
            BY <1>4, <2>1, <3>1 DEF MentionedBy
        <3> QED BY <2>1, <3>2, <3>3 DEF RecordedOnly
    <2> QED BY <1>2, <1>3, <1>4, <1>6, <2>1, <2>2, <2>3, BesideKeeps
<1> QED BY <1>7, <1>8

-----------------------------------------------------------------------------
(* delete_document and merge_entities, which run alone. *)

LEMMA Alone ==
    ASSUME OneAtATime, InStep, NEW c \in Callers, task[c].at \in DeleteSteps \cup MergeSteps
    PROVE  /\ TablesOK /\ task \in Calls /\ task[c] \in CallRecords
           /\ task[c].kind \in {"delete", "merge"} /\ OthersIdle(c)
           /\ task[c].at \in {"lower", "mentions", "row"} => task[c].kind = "delete"
           /\ task[c].at \in MergeSteps \ {"wipe", "rebuild"} => task[c].kind = "merge"
           /\ CallOK(task[c]) /\ RecordedOnly(task[c])
           /\ alive \subseteq Ids
<1>1. /\ TablesOK /\ task \in Calls /\ task[c] \in CallRecords
      /\ CallOK(task[c]) /\ RecordedOnly(task[c])
    BY DEF InStep, Typed, Calls
<1>2. /\ task[c].kind \in {"delete", "merge"}
      /\ task[c].at \in {"lower", "mentions", "row"} => task[c].kind = "delete"
      /\ task[c].at \in MergeSteps \ {"wipe", "rebuild"} => task[c].kind = "merge"
    BY <1>1 DEF CallOK, CallRecords, CallKinds, ProcessSteps, DeleteSteps, MergeSteps
<1>3. OthersIdle(c)
    BY <1>2, Company
<1>4. alive \subseteq Ids
    BY <1>1, GraphAssumption DEF TablesOK, Ids
<1> QED BY <1>1, <1>2, <1>3, <1>4

(* A deletion begins alone. *)
LEMMA StartDeleteKeeps ==
    ASSUME OneAtATime, InStep, NEW c \in Callers, NEW d \in DocNos, BeginDelete(c, d)
    PROVE  InStep'
<1>1. TablesOK /\ task \in Calls /\ d \in kept \ todo /\ UNCHANGED tableVars
    BY DEF InStep, Typed, Calls, BeginDelete
<1>2. /\ task' \in Calls /\ OthersStay(c)
      /\ task'[c].kind = "delete" /\ task'[c].at = "lower" /\ task'[c].doc = d
      /\ task'[c].ids = {m[4] : m \in {n \in mentions : n[1] = d}}
    BY <1>1, DeleteStarts
<1>3. OthersIdle(c)
    BY Company DEF BeginDelete
<1>4. TablesOK'
    BY <1>1 DEF TablesOK, tableVars
<1>5. CallOK(task[c])'
    BY <1>1, <1>2 DEF CallOK, DeleteSteps, tableVars
<1>6. RecordedOnly(task[c])'
    BY <1>1, <1>2 DEF RecordedOnly, tableVars
<1> QED BY <1>2, <1>3, <1>4, <1>5, <1>6, AloneKeeps

(* A merge begins alone, on a living entity. *)
LEMMA StartMergeKeeps ==
    ASSUME OneAtATime, InStep, NEW c \in Callers, NEW s \in Ids, NEW m \in Ids,
           BeginMerge(c, s, m)
    PROVE  InStep'
<1>1. /\ TablesOK /\ task \in Calls /\ s \in alive /\ s # m
      /\ UNCHANGED <<kept, todo, last, alive, entity, aliases, mentions, weight>>
    BY DEF InStep, Typed, Calls, BeginMerge
<1>2. /\ task' \in Calls /\ OthersStay(c)
      /\ task'[c].kind = "merge" /\ task'[c].at = "move_aliases"
      /\ task'[c].to = s /\ task'[c].from = m
    BY <1>1, MergeStarts
<1>3. OthersIdle(c)
    BY Company DEF BeginMerge
<1>4. TablesOK'
    BY <1>1 DEF TablesOK
<1>5. CallOK(task[c])'
    BY <1>1, <1>2 DEF CallOK, MergeSteps
<1>6. RecordedOnly(task[c])'
    BY <1>2 DEF RecordedOnly
<1> QED BY <1>2, <1>3, <1>4, <1>5, <1>6, AloneKeeps

(* The steps of a deletion take mentions and the row of its document. *)
LEMMA DeleteKeeps ==
    ASSUME OneAtATime, InStep, NEW c \in Callers, DeleteGoesOn(c)
    PROVE  InStep'
<1>1. task[c].at \in {"lower", "mentions", "row"} /\ task[c].at \in DeleteSteps
    BY DEF DeleteGoesOn, LowerCounts, RemoveMentions, RemoveRow, In, DeleteSteps
<1>2. /\ TablesOK /\ task \in Calls /\ task[c] \in CallRecords
      /\ task[c].kind = "delete" /\ OthersIdle(c)
      /\ CallOK(task[c]) /\ RecordedOnly(task[c]) /\ alive \subseteq Ids
    BY <1>1, Alone
<1>3. task[c].doc \in kept \ todo /\ task[c].doc \in DocNos
    BY <1>1, <1>2 DEF CallOK
<1>4. {"mentions", "row", "wipe"} \subseteq CallPlaces
    BY DEF CallPlaces, DeleteSteps
<1>5. CASE LowerCounts(c)
    <2>1. /\ task[c].at = "lower" /\ Move(c, "mentions")
          /\ UNCHANGED <<kept, todo, last, alive, aliases, mentions, weight>>
        BY <1>3, <1>5 DEF LowerCounts, In
    <2>2. /\ task' \in Calls /\ OthersStay(c)
          /\ task'[c].at = "mentions" /\ Keeps(task'[c], task[c])
          /\ task'[c].ids = task[c].ids
        BY <1>2, <1>4, <2>1, GotoEffect
    <2>3. entity' \in [Ids -> EntityRecords] /\ \A e \in Ids : entity'[e].name = entity[e].name
        BY <1>2, <1>5, Bumped DEF LowerCounts
    <2>4. TablesOK'
        BY <1>2, <2>1, <2>3 DEF TablesOK
    <2>5. CallOK(task[c])' /\ RecordedOnly(task[c])'
        BY <1>2, <1>3, <2>1, <2>2 DEF CallOK, RecordedOnly, Keeps, DeleteSteps
    <2> QED BY <1>2, <2>2, <2>4, <2>5, AloneKeeps
<1>6. CASE RemoveMentions(c)
    <2>1. /\ Move(c, "row") /\ mentions' \subseteq mentions
          /\ UNCHANGED <<kept, todo, last, alive, entity, aliases, weight>>
        BY <1>6 DEF RemoveMentions
    <2>2. /\ task' \in Calls /\ OthersStay(c)
          /\ task'[c].at = "row" /\ Keeps(task'[c], task[c])
        BY <1>2, <1>4, <2>1, GotoEffect
    <2>3. IsFiniteSet(mentions')
        BY <1>2, <2>1, FS_Subset DEF TablesOK
    <2>4. TablesOK'
        BY <1>2, <2>1, <2>3 DEF TablesOK
    <2>5. CallOK(task[c])' /\ RecordedOnly(task[c])'
        BY <1>2, <1>3, <2>1, <2>2 DEF CallOK, RecordedOnly, Keeps, DeleteSteps
    <2> QED BY <1>2, <2>2, <2>4, <2>5, AloneKeeps
<1>7. CASE RemoveRow(c)
    <2>1. /\ Move(c, "wipe") /\ kept' = kept \ {task[c].doc}
          /\ UNCHANGED <<todo, last, alive, entity, aliases, mentions, weight>>
        BY <1>3, <1>7 DEF RemoveRow
    <2>2. /\ task' \in Calls /\ OthersStay(c)
          /\ task'[c].at = "wipe" /\ Keeps(task'[c], task[c])
        BY <1>2, <1>4, <2>1, GotoEffect
    <2>3. TablesOK'
        BY <1>2, <1>3, <2>1 DEF TablesOK
    <2>4. CallOK(task[c])' /\ RecordedOnly(task[c])'
        BY <1>2, <1>3, <2>1, <2>2 DEF CallOK, RecordedOnly, Keeps, DeleteSteps
    <2> QED BY <1>2, <2>2, <2>3, <2>4, AloneKeeps
<1> QED BY <1>5, <1>6, <1>7 DEF DeleteGoesOn

(* The chunks that mention two entities are finitely many. *)
LEMMA EvidenceFinite ==
    ASSUME TablesOK, NEW a, NEW b
    PROVE  /\ IsFiniteSet(ChunksOf(a)) /\ IsFiniteSet(ChunksOf(a) \cap ChunksOf(b))
           /\ Evidence(a, b) \in Nat
<1> DEFINE S == {n \in mentions : n[4] = a}
           f == [m \in S |-> <<m[1], m[2]>>]
<1>1. IsFiniteSet(S)
    BY FS_Subset DEF TablesOK
<1>2. f \in Surjection(S, ChunksOf(a))
    BY DEF Surjection, ChunksOf
<1>3. IsFiniteSet(ChunksOf(a))
    <2> HIDE DEF S, f
    <2> QED BY <1>1, <1>2, FS_Surjection
<1>4. IsFiniteSet(ChunksOf(a) \cap ChunksOf(b))
    BY <1>3, FS_Intersection
<1> QED BY <1>3, <1>4, FS_CardinalityType DEF Evidence

(* Wiping and rebuilding changes edges only. *)
LEMMA EdgesKeep ==
    ASSUME OneAtATime, InStep, NEW c \in Callers, WipeEdges(c) \/ RebuildEdges(c)
    PROVE  InStep'
<1>1. task[c].at \in {"wipe", "rebuild"} /\ task[c].at \in DeleteSteps
    BY DEF WipeEdges, RebuildEdges, In, DeleteSteps
<1>2. /\ TablesOK /\ task \in Calls /\ task[c] \in CallRecords
      /\ task[c].kind \in {"delete", "merge"} /\ OthersIdle(c)
      /\ CallOK(task[c]) /\ RecordedOnly(task[c])
    BY <1>1, Alone
<1>3. UNCHANGED <<kept, todo, last, alive, entity, aliases, mentions>>
    BY DEF WipeEdges, RebuildEdges
<1>4. weight' \in [Ids \X Ids -> Nat]
    <2>1. CASE WipeEdges(c)
        BY <1>2, <2>1 DEF WipeEdges, TablesOK
    <2>2. CASE RebuildEdges(c)
        <3>1. \A p \in Ids \X Ids : Evidence(p[1], p[2]) \in Nat /\ weight[p] \in Nat
            BY <1>2, EvidenceFinite DEF TablesOK
        <3> QED BY <2>2, <3>1 DEF RebuildEdges
    <2> QED BY <2>1, <2>2
<1>5. TablesOK'
    BY <1>2, <1>3, <1>4 DEF TablesOK
<1>6. /\ task' \in Calls /\ OthersStay(c)
      /\ \/ task'[c].at = "rebuild" /\ Keeps(task'[c], task[c])
         \/ task'[c] = Free
    <2>1. "rebuild" \in CallPlaces
        BY DEF CallPlaces, DeleteSteps
    <2> QED BY <1>2, <2>1, GotoEffect, ReturnEffect DEF WipeEdges, RebuildEdges
<1>7. CallOK(task[c])' /\ RecordedOnly(task[c])'
    BY <1>2, <1>3, <1>6, IdleOK
       DEF CallOK, RecordedOnly, Keeps, DeleteSteps, MergeSteps
<1> QED BY <1>2, <1>5, <1>6, <1>7, AloneKeeps

(* The steps of a merge leave no alias or mention of a dead entity. *)
LEMMA MergeKeeps ==
    ASSUME OneAtATime, InStep, NEW c \in Callers, MergeGoesOn(c)
    PROVE  InStep'
<1> DEFINE s == task[c].to  m == task[c].from
<1>1. task[c].at \in MergeSteps \ {"wipe", "rebuild"}
    BY DEF MergeGoesOn, MoveAliases, CountMoved, MoveMentions, AddCount, MoveEdges, DropEntity,
           In, MergeSteps
<1>2. /\ TablesOK /\ task \in Calls /\ task[c] \in CallRecords
      /\ task[c].kind = "merge" /\ OthersIdle(c)
      /\ CallOK(task[c]) /\ RecordedOnly(task[c]) /\ alive \subseteq Ids
    BY <1>1, Alone
<1>3. s \in alive /\ m \in Ids /\ s # m
    BY <1>1, <1>2 DEF CallOK
<1>4. {"count_moved", "move_mentions", "add_count", "move_edges", "drop"} \subseteq CallPlaces
    BY DEF CallPlaces, MergeSteps
<1>5. CASE MoveAliases(c)
    <2> DEFINE names == {a[2] : a \in {r \in aliases : r[1] = m}}
                     \cup {entity[e].name : e \in alive \cap {m}}
    <2>1. /\ Move(c, "count_moved") /\ aliases' = aliases \cup ({s} \X names)
          /\ UNCHANGED <<kept, todo, last, alive, entity, mentions, weight>>
        BY <1>3, <1>5 DEF MoveAliases
    <2>2. names \subseteq Surfaces
        BY <1>2 DEF TablesOK
    <2> HIDE DEF names
    <2>3. /\ task' \in Calls /\ OthersStay(c)
          /\ task'[c].at = "count_moved" /\ Keeps(task'[c], task[c])
        BY <1>2, <1>4, <2>1, GotoEffect
    <2>4. TablesOK'
        BY <1>2, <1>3, <2>1, <2>2 DEF TablesOK
    <2>5. CallOK(task[c])' /\ RecordedOnly(task[c])'
        BY <1>2, <1>3, <2>1, <2>3 DEF CallOK, RecordedOnly, Keeps, MergeSteps
    <2> QED BY <1>2, <2>3, <2>4, <2>5, AloneKeeps
<1>6. CASE CountMoved(c)
    <2>1. UNCHANGED <<kept, todo, last, alive, entity, aliases, mentions, weight>>
        BY <1>6 DEF CountMoved, tableVars
    <2>2. /\ task' \in Calls /\ OthersStay(c)
          /\ Keeps(task'[c], task[c]) /\ task'[c].at = "move_mentions"
        BY <1>2, <1>6, CountMovedEffect
    <2>3. TablesOK'
        BY <1>2, <2>1 DEF TablesOK
    <2>4. CallOK(task[c])' /\ RecordedOnly(task[c])'
        BY <1>2, <1>3, <2>1, <2>2 DEF CallOK, RecordedOnly, Keeps, MergeSteps
    <2> QED BY <1>2, <2>2, <2>3, <2>4, AloneKeeps
<1>7. CASE MoveMentions(c)
    <2> DEFINE f == [r \in mentions |-> IF r[4] = m THEN <<r[1], r[2], r[3], s>> ELSE r]
    <2>1. /\ Move(c, "add_count") /\ mentions' = {f[r] : r \in mentions}
          /\ UNCHANGED <<kept, todo, last, alive, entity, aliases, weight>>
        BY <1>7 DEF MoveMentions
    <2>2. /\ task' \in Calls /\ OthersStay(c)
          /\ task'[c].at = "add_count" /\ Keeps(task'[c], task[c])
        BY <1>2, <1>4, <2>1, GotoEffect
    <2>3. ASSUME NEW r \in mentions
          PROVE  f[r] \in (DocNos \ todo) \X Nat \X Nat \X alive /\ f[r][4] # m
        BY <1>2, <1>3 DEF TablesOK
    <2>4. IsFiniteSet(mentions')
        <3>1. f \in Surjection(mentions, mentions')
            <4> HIDE DEF f
            <4>1. f \in [mentions -> mentions']
                BY <2>1 DEF f
            <4> QED BY <2>1, <4>1 DEF Surjection
        <3> HIDE DEF f
        <3> QED BY <1>2, <3>1, FS_Surjection DEF TablesOK
    <2> HIDE DEF f
    <2>5. TablesOK'
        BY <1>2, <2>1, <2>3, <2>4 DEF TablesOK
    <2>6. CallOK(task[c])'
        BY <1>2, <1>3, <2>1, <2>2 DEF CallOK, Keeps, MergeSteps
    <2>7. RecordedOnly(task[c])'
        BY <1>2, <2>1, <2>2, <2>3 DEF RecordedOnly, Keeps
    <2> QED BY <1>2, <2>2, <2>5, <2>6, <2>7, AloneKeeps
<1>8. CASE AddCount(c)
    <2>1. /\ task[c].at = "add_count" /\ Move(c, "move_edges")
          /\ UNCHANGED <<kept, todo, last, alive, aliases, mentions, weight>>
        BY <1>8 DEF AddCount, In
    <2>2. /\ task' \in Calls /\ OthersStay(c)
          /\ task'[c].at = "move_edges" /\ Keeps(task'[c], task[c])
        BY <1>2, <1>4, <2>1, GotoEffect
    <2>3. task[c].moved \in Int
        BY <1>2 DEF CallRecords
    <2>4. entity' \in [Ids -> EntityRecords] /\ \A e \in Ids : entity'[e].name = entity[e].name
        BY <1>2, <1>8, <2>3, Bumped DEF AddCount
    <2>5. TablesOK'
        BY <1>2, <2>1, <2>4 DEF TablesOK
    <2>6. CallOK(task[c])' /\ RecordedOnly(task[c])'
        BY <1>2, <1>3, <2>1, <2>2 DEF CallOK, RecordedOnly, Keeps, MergeSteps
    <2> QED BY <1>2, <2>2, <2>5, <2>6, AloneKeeps
<1>9. CASE MoveEdges(c)
    <2>1. /\ task[c].at = "move_edges" /\ Move(c, "drop")
          /\ UNCHANGED <<kept, todo, last, alive, entity, aliases, mentions>>
        BY <1>9 DEF MoveEdges, In
    <2>2. /\ task' \in Calls /\ OthersStay(c)
          /\ task'[c].at = "drop" /\ Keeps(task'[c], task[c])
        BY <1>2, <1>4, <2>1, GotoEffect
    <2>3. weight' \in [Ids \X Ids -> Nat]
        <3> DEFINE src == [p \in Ids \X Ids |->
                   IF weight[s, p[2]] # 0 THEN weight[p]
                   ELSE IF p[1] = s THEN weight[m, p[2]]
                   ELSE IF p[1] = m THEN 0 ELSE weight[p]]
                   dst == [p \in Ids \X Ids |->
                   IF src[p[1], s] # 0 THEN src[p]
                   ELSE IF p[2] = s THEN src[p[1], m]
                   ELSE IF p[2] = m THEN 0 ELSE src[p]]
        <3>1. s \in Ids /\ weight \in [Ids \X Ids -> Nat]
            BY <1>2, <1>3 DEF TablesOK
        <3>2. src \in [Ids \X Ids -> Nat]
            BY <1>3, <3>1
        <3> HIDE DEF src
        <3>3. dst \in [Ids \X Ids -> Nat]
            BY <1>3, <3>1, <3>2
        <3>4. weight' = [p \in Ids \X Ids |-> IF m \in {p[1], p[2]} THEN 0 ELSE dst[p]]
            BY <1>9 DEF MoveEdges, src
        <3> HIDE DEF dst
        <3> QED BY <3>3, <3>4
    <2>4. TablesOK'
        BY <1>2, <2>1, <2>3 DEF TablesOK
    <2>5. CallOK(task[c])' /\ RecordedOnly(task[c])'
        BY <1>2, <1>3, <2>1, <2>2 DEF CallOK, RecordedOnly, Keeps, MergeSteps
    <2> QED BY <1>2, <2>2, <2>4, <2>5, AloneKeeps
<1>10. CASE DropEntity(c)
    <2>1. /\ alive' = alive \ {m} /\ aliases' = {a \in aliases : a[1] # m}
          /\ mentions' = {r \in mentions : r[4] # m}
          /\ weight' = [p \in Ids \X Ids |-> IF m \in {p[1], p[2]} THEN 0 ELSE weight[p]]
          /\ UNCHANGED <<kept, todo, last, entity>>
        BY <1>10 DEF DropEntity
    <2>2. /\ task' \in Calls /\ OthersStay(c)
          /\ task'[c].at = "wipe" /\ Keeps(task'[c], task[c])
        BY <1>2, <1>3, <1>10, DropEffect
    <2>3. IsFiniteSet(mentions') /\ weight' \in [Ids \X Ids -> Nat]
        BY <1>2, <2>1, FS_Subset DEF TablesOK
    <2>4. TablesOK'
        BY <1>2, <2>1, <2>3 DEF TablesOK
    <2>5. CallOK(task[c])' /\ RecordedOnly(task[c])'
        BY <1>2, <2>2 DEF CallOK, RecordedOnly, Keeps, MergeSteps
    <2> QED BY <1>2, <2>2, <2>4, <2>5, AloneKeeps
<1> QED BY <1>5, <1>6, <1>7, <1>8, <1>9, <1>10 DEF MergeGoesOn

-----------------------------------------------------------------------------
(* Every step keeps tables and calls in step. *)

(* A call that is cut short leaves the tables as they are. *)
LEMMA CutShortKeeps ==
    ASSUME InStep, NEW c \in Callers, CutShort(c)
    PROVE  InStep'
<1>1. /\ task' \in Calls /\ OthersStay(c) /\ task'[c] = Free
      /\ UNCHANGED <<kept, todo, last, alive, entity, aliases, mentions, weight>>
    BY ReturnEffect DEF CutShort, tableVars, InStep, Typed, Calls
<1>2. TablesOK'
    BY <1>1 DEF InStep, Typed, TablesOK
<1>3. ASSUME NEW o \in Callers
      PROVE  CallOK(task[o])' /\ RecordedOnly(task[o])'
    <2>1. CASE o = c
        BY <1>1, <2>1, IdleOK DEF CallOK, RecordedOnly
    <2>2. CASE o # c
        BY <1>1, <2>2 DEF CallOK, RecordedOnly, MentionedBy, OthersStay, InStep, Typed
    <2> QED BY <2>1, <2>2
<1>4. Apart'
    BY <1>1, IdleOK DEF InStep, Apart, OthersStay
<1> QED BY <1>1, <1>2, <1>3, <1>4 DEF InStep, Typed, Calls

(* A registered alias belongs to a living entity. *)
LEMMA AddAliasKeeps ==
    ASSUME InStep, NEW e \in Ids, NEW x \in ExtraAliases, AddAlias(e, x)
    PROVE  InStep'
<1>1. /\ e \in alive /\ x \in Surfaces /\ aliases' = aliases \cup {<<e, x>>}
      /\ UNCHANGED <<kept, todo, last, alive, entity, mentions, weight, task>>
    BY GraphAssumption DEF AddAlias
<1>2. TablesOK'
    BY <1>1 DEF InStep, Typed, TablesOK
<1> QED BY <1>1, <1>2
       DEF InStep, Typed, Apart, CallOK, RecordedOnly, MentionedBy

(* At the start there are documents and nothing else. *)
LEMMA InStepInitially == GraphInit => InStep
<1> SUFFICES ASSUME GraphInit PROVE InStep
    OBVIOUS
<1>1. /\ task \in Calls /\ \A c \in Callers : task[c].kind = "idle" /\ task[c].at = "idle"
    BY IdleOK DEF GraphInit, Calls
<1>2. TablesOK
    <2>1. NoEntity \in EntityRecords
        BY DEF NoEntity, EntityRecords, EntityKeys, EntityNames, EntityTypes
    <2> QED BY <2>1, GraphAssumption, FS_EmptySet DEF GraphInit, TablesOK
<1> QED BY <1>1, <1>2 DEF InStep, Typed, Calls, Apart, CallOK, RecordedOnly

(* Every step keeps tables and calls in step. *)
LEMMA InStepKept == OneAtATime /\ InStep /\ [GraphNext]_gvars => InStep'
<1> SUFFICES ASSUME OneAtATime, InStep, [GraphNext]_gvars PROVE InStep'
    OBVIOUS
<1>1. CASE UNCHANGED gvars
    BY <1>1
       DEF gvars, tableVars, InStep, Typed, TablesOK, Apart, CallOK, RecordedOnly, MentionedBy
<1>2. ASSUME NEW c \in Callers, NEW d \in DocNos, BeginProcess(c, d) \/ BeginDelete(c, d)
      PROVE  InStep'
    BY <1>2, StartProcessKeeps, StartDeleteKeeps
<1>3. ASSUME NEW c \in Callers, NEW s \in Ids, NEW m \in Ids, BeginMerge(c, s, m)
      PROVE  InStep'
    BY <1>3, StartMergeKeeps
<1>4. ASSUME NEW c \in Callers,
             \/ ProcessGoesOn(c) \/ DeleteGoesOn(c) \/ MergeGoesOn(c)
             \/ WipeEdges(c) \/ RebuildEdges(c) \/ CutShort(c)
      PROVE  InStep'
    BY <1>4, ResolveKeeps, RecordKeeps, CountChunkKeeps, LinkChunkKeeps, DeleteKeeps,
       MergeKeeps, EdgesKeep, CutShortKeeps DEF ProcessGoesOn
<1>5. ASSUME NEW e \in Ids, NEW x \in ExtraAliases, AddAlias(e, x)
      PROVE  InStep'
    BY <1>5, AddAliasKeeps
<1> QED BY <1>1, <1>2, <1>3, <1>4, <1>5 DEF GraphNext

(* The tables and the calls are in step, whatever is processed at once and *)
(* wherever a call is cut short, when deletions and merges run alone.      *)
THEOREM GraphInStep == ASSUME OneAtATime PROVE GraphSpec => []InStep
<1> QED BY InStepInitially, InStepKept, PTL DEF GraphSpec

-----------------------------------------------------------------------------
(* Merges and mentions. *)

LEMMA PlacesStep ==
    OneAtATime /\ InStep /\ [GraphNext]_gvars
        => [(\A c \in Callers : task[c].kind \in {"idle", "merge"}) => Places' = Places]_gvars
<1> SUFFICES ASSUME OneAtATime, InStep, GraphNext,
                    \A c \in Callers : task[c].kind \in {"idle", "merge"}
             PROVE  Places' = Places
    OBVIOUS
<1>1. CASE UNCHANGED mentions
    BY <1>1 DEF Places
<1>2. ASSUME NEW c \in Callers, ProcessGoesOn(c) \/ DeleteGoesOn(c)
      PROVE  FALSE
    <2>1. task[c].at \in ProcessSteps \cup {"lower", "mentions", "row"}
        BY <1>2 DEF ProcessGoesOn, Resolve, RecordKnown, RecordNew, CountChunk, LinkChunk, In,
                    DeleteGoesOn, LowerCounts, RemoveMentions, RemoveRow, ProcessSteps
    <2>2. CallOK(task[c])
        BY DEF InStep, Typed
    <2> QED BY <2>1, <2>2 DEF CallOK, ProcessSteps, MergeSteps
<1>3. ASSUME NEW c \in Callers, MoveMentions(c)
      PROVE  Places' = Places
    <2> DEFINE f == [r \in mentions |-> IF r[4] = task[c].from
                                        THEN <<r[1], r[2], r[3], task[c].to>> ELSE r]
    <2>1. mentions' = {f[r] : r \in mentions}
        BY <1>3 DEF MoveMentions
    <2>2. \A r \in mentions : f[r][1] = r[1] /\ f[r][2] = r[2] /\ f[r][3] = r[3]
        OBVIOUS
    <2> HIDE DEF f
    <2> QED BY <2>1, <2>2 DEF Places
<1>4. ASSUME NEW c \in Callers, DropEntity(c)
      PROVE  Places' = Places
    <2>1. task[c].at = "drop" /\ task[c].at \in MergeSteps \ {"wipe", "rebuild"}
        BY <1>4 DEF DropEntity, In, MergeSteps
    <2>2. task[c].kind = "merge" /\ RecordedOnly(task[c])
        BY <2>1, Alone
    <2>3. \A m \in mentions : m[4] # task[c].from
        BY <2>1, <2>2 DEF RecordedOnly
    <2>4. mentions' = mentions
        BY <1>4, <2>3 DEF DropEntity
    <2> QED BY <2>4 DEF Places
<1>5. ASSUME NEW c \in Callers, MergeGoesOn(c)
      PROVE  Places' = Places
    <2>1. CASE MoveAliases(c) \/ CountMoved(c) \/ AddCount(c) \/ MoveEdges(c)
        BY <1>1, <2>1 DEF MoveAliases, CountMoved, AddCount, MoveEdges, tableVars
    <2> QED BY <1>3, <1>4, <1>5, <2>1 DEF MergeGoesOn
<1>6. ASSUME NEW c \in Callers, WipeEdges(c) \/ RebuildEdges(c) \/ CutShort(c)
      PROVE  Places' = Places
    BY <1>1, <1>6 DEF WipeEdges, RebuildEdges, CutShort, tableVars
<1>7. ASSUME NEW c \in Callers, NEW d \in DocNos, BeginProcess(c, d) \/ BeginDelete(c, d)
      PROVE  Places' = Places
    BY <1>1, <1>7 DEF BeginProcess, BeginDelete, tableVars
<1>8. ASSUME NEW c \in Callers, NEW s \in Ids, NEW m \in Ids, BeginMerge(c, s, m)
      PROVE  Places' = Places
    BY <1>1, <1>8 DEF BeginMerge
<1>9. ASSUME NEW e \in Ids, NEW x \in ExtraAliases, AddAlias(e, x)
      PROVE  Places' = Places
    BY <1>1, <1>9 DEF AddAlias
<1> QED BY <1>2, <1>5, <1>6, <1>7, <1>8, <1>9 DEF GraphNext

(* While nothing but merges runs, mentions change their entity and none is *)
(* lost, wherever a merge is cut short.                                    *)
THEOREM MergesKeepMentions == ASSUME OneAtATime PROVE GraphSpec => MergeKeepsMentions
<1> QED BY GraphInStep, PlacesStep, PTL DEF GraphSpec, MergeKeepsMentions

-----------------------------------------------------------------------------
(* Edges and mentions. *)

EdgeIs(p) == weight[p] = IF p[1] < p[2] THEN Evidence(p[1], p[2]) ELSE 0
EdgesAround(r) ==
    \A p \in Ids \X Ids :
        /\ ~Touches(p, Stale(r)) => EdgeIs(p)
        /\ r.at = "rebuild" /\ Touches(p, r.ids) => weight[p] = 0
AllExact == \A p \in Ids \X Ids : ExactEdge(p)

(* When deletions and merges run alone, what the invariant says of them,   *)
AloneFact ==
    \A c \in Callers :
        InStep /\ OthersIdle(c) /\ task[c].kind # "process"
            => (EdgesInStep <=> (cut \/ EdgesAround(task[c])))

(* ... and of processing calls.                                            *)
BesideFact ==
    InStep /\ (\A c \in Callers : task[c].kind \in {"idle", "process"})
        => (EdgesInStep <=> (cut \/ AllExact))

(* Of a call that runs alone. *)
LEMMA EdgesAlone == AloneFact
<1> SUFFICES ASSUME NEW c \in Callers, InStep, OthersIdle(c), task[c].kind # "process"
             PROVE  EdgesInStep <=> (cut \/ EdgesAround(task[c]))
    BY DEF AloneFact
<1>1. Unlinked = {}
    BY DEF Unlinked, OthersIdle
<1>2. \A p \in Ids \X Ids : ExactEdge(p) <=> EdgeIs(p)
    <2>1. \A a, b : Linked(a, b) = Evidence(a, b)
        BY <1>1 DEF Linked, Evidence
    <2> QED BY <2>1 DEF ExactEdge, EdgeIs
<1>3. \A o \in Callers \ {c} : Stale(task[o]) = {} /\ task[o].at # "rebuild"
    BY DEF Stale, OthersIdle, InStep, Typed, CallOK
<1>4. \A p \in Ids \X Ids :
         (\A o \in Callers : ~Touches(p, Stale(task[o]))) <=> ~Touches(p, Stale(task[c]))
    BY <1>3 DEF Touches
<1> QED BY <1>2, <1>3, <1>4 DEF EdgesInStep, EdgesAround

(* Of processing calls. *)
LEMMA EdgesBeside == BesideFact
<1> SUFFICES ASSUME InStep, \A c \in Callers : task[c].kind \in {"idle", "process"}
             PROVE  EdgesInStep <=> (cut \/ AllExact)
    BY DEF BesideFact
<1>1. \A o \in Callers : Stale(task[o]) = {} /\ task[o].at # "rebuild"
    BY DEF Stale, InStep, Typed, CallOK, ProcessSteps
<1> QED BY <1>1 DEF EdgesInStep, AllExact, Touches

(* Both facts hold after a step as well.                                   *)
LEMMA EdgesAfter == AloneFact' /\ BesideFact'
<1> QED BY EdgesAlone, EdgesBeside, PTL

(* A processing step that changes no edge and no evidence that counts.     *)
LEMMA BesideEdges ==
    ASSUME InStep, InStep', EdgesInStep, NEW c \in Callers, OthersProcess(c), OthersStay(c),
           task[c].kind \in {"idle", "process"}, task'[c].kind \in {"idle", "process"},
           UNCHANGED <<weight, cut>>,
           \A a, b \in Ids : ((ChunksOf(a) \cap ChunksOf(b)) \ Unlinked)'
                                = (ChunksOf(a) \cap ChunksOf(b)) \ Unlinked
    PROVE  EdgesInStep'
<1>1. \A o \in Callers : /\ task[o].kind \in {"idle", "process"}
                         /\ task'[o].kind \in {"idle", "process"}
    BY DEF OthersProcess, OthersStay
<1>2. cut \/ AllExact
    BY <1>1, EdgesBeside DEF BesideFact
<1>3. cut' \/ AllExact'
    <2>1. \A a, b \in Ids : Linked(a, b)' = Linked(a, b)
        BY DEF Linked
    <2> QED BY <1>2, <2>1 DEF AllExact, ExactEdge
<1> QED BY <1>1, <1>3, EdgesAfter DEF BesideFact

(* A call that stays with its chunk leaves it unlinked. *)
LEMMA SameUnlinked ==
    ASSUME NEW c \in Callers, OthersStay(c), task'[c].kind = task[c].kind,
           task'[c].doc = task[c].doc, task'[c].chunk = task[c].chunk
    PROVE  Unlinked' = Unlinked
<1>1. \A o \in Callers : /\ task'[o].kind = task[o].kind /\ task'[o].doc = task[o].doc
                         /\ task'[o].chunk = task[o].chunk
    BY DEF OthersStay
<1> QED BY <1>1 DEF Unlinked

(* A document that starts has no mentions, so no evidence is taken away. *)
LEMMA StartProcessEdges ==
    ASSUME OneAtATime, InStep, InStep', EdgesInStep, NEW c \in Callers, NEW d \in DocNos,
           BeginProcess(c, d)
    PROVE  EdgesInStep'
<1>1. TablesOK /\ task \in Calls /\ d \in todo
    BY DEF InStep, Typed, Calls, BeginProcess
<1>2. /\ task' \in Calls /\ OthersStay(c)
      /\ task'[c].kind = "process" /\ task'[c].doc = d /\ task'[c].chunk = 1
    BY <1>1, ProcessStarts
<1>3. OthersProcess(c) /\ task[c].kind = "idle"
    BY Company DEF BeginProcess
<1>4. UNCHANGED <<mentions, weight, cut>>
    BY DEF BeginProcess
<1>5. \A m \in mentions : m[1] # d
    BY <1>1 DEF TablesOK
<1>6. Unlinked' = Unlinked \cup {<<d, 1>>}
    BY <1>2, <1>3 DEF Unlinked, OthersStay
<1>7. \A a \in Ids : ChunksOf(a)' = ChunksOf(a) /\ <<d, 1>> \notin ChunksOf(a)
    BY <1>4, <1>5 DEF ChunksOf
<1>8. \A a, b \in Ids : ((ChunksOf(a) \cap ChunksOf(b)) \ Unlinked)'
                           = (ChunksOf(a) \cap ChunksOf(b)) \ Unlinked
    BY <1>6, <1>7
<1> QED BY <1>2, <1>3, <1>4, <1>8, BesideEdges

(* A mention in a chunk that is not linked yet is no evidence yet. *)
LEMMA MentionEdges ==
    ASSUME OneAtATime, InStep, InStep', EdgesInStep, NEW c \in Callers, task[c].at = "record",
           NEW e \in Ids, insert_mention(c, e), UNCHANGED <<weight, cut>>
    PROVE  EdgesInStep'
<1> DEFINE u == <<task[c].doc, task[c].chunk>>
           new == <<task[c].doc, task[c].chunk, task[c].place, e>>
<1>1. task[c].at \in ProcessSteps
    BY DEF ProcessSteps
<1>2. /\ task \in Calls /\ task[c] \in CallRecords
      /\ task[c].kind = "process" /\ OthersProcess(c)
    BY <1>1, Processing
<1>3. /\ OthersStay(c) /\ Keeps(task'[c], task[c]) /\ task'[c].chunk = task[c].chunk
    BY <1>2, MentionEffect
<1>4. Unlinked' = Unlinked /\ u \in Unlinked
    <2>1. u \in Unlinked
        BY <1>2 DEF Unlinked
    <2> QED BY <1>3, <2>1, SameUnlinked DEF Keeps
<1>5. mentions' = mentions \cup {new} /\ new[1] = task[c].doc /\ new[2] = task[c].chunk
    BY DEF insert_mention
<1>6. ASSUME NEW a \in Ids
      PROVE  ChunksOf(a) \subseteq ChunksOf(a)' /\ ChunksOf(a)' \subseteq ChunksOf(a) \cup {u}
    <2> HIDE DEF new
    <2> QED BY <1>5 DEF ChunksOf
<1> HIDE DEF u
<1>7. \A a, b \in Ids : ((ChunksOf(a) \cap ChunksOf(b)) \ Unlinked)'
                           = (ChunksOf(a) \cap ChunksOf(b)) \ Unlinked
    BY <1>4, <1>6
<1> QED BY <1>2, <1>3, <1>7, BesideEdges DEF Keeps

(* Recording a surface changes no edge. *)
LEMMA RecordEdges ==
    ASSUME OneAtATime, InStep, InStep', EdgesInStep, NEW c \in Callers,
           RecordKnown(c) \/ RecordNew(c)
    PROVE  EdgesInStep'
<1>1. task[c].at = "record" /\ task[c].at \in ProcessSteps /\ UNCHANGED <<weight, cut>>
    BY DEF RecordKnown, RecordNew, In, ProcessSteps
<1>2. TablesOK /\ task[c].kind = "process" /\ CallOK(task[c])
    BY <1>1, Processing
<1>3. alive \subseteq Ids /\ last \in Nat
    BY <1>2, GraphAssumption DEF TablesOK, Ids
<1>4. CASE RecordKnown(c)
    <2>1. task[c].found \in alive
        BY <1>1, <1>2, <1>4 DEF RecordKnown, CallOK
    <2>2. insert_mention(c, task[c].found)
        BY <1>4, <2>1 DEF RecordKnown
    <2> QED BY <1>1, <1>3, <2>1, <2>2, MentionEdges
<1>5. CASE RecordNew(c)
    <2> DEFINE same == {e \in alive : entity[e].key = Key[Surface(c)]}
    <2>1. CASE same # {}
        <3> DEFINE e == CHOOSE i \in same : TRUE
        <3>1. e \in alive
            BY <2>1
        <3>2. insert_mention(c, e)
            BY <1>5, <2>1 DEF RecordNew
        <3> HIDE DEF e
        <3> QED BY <1>1, <1>3, <3>1, <3>2, MentionEdges
    <2>2. CASE same = {}
        <3>1. insert_mention(c, last + 1) /\ last + 1 \in Ids
            BY <1>3, <1>5, <2>2, GraphAssumption DEF RecordNew, Ids
        <3> QED BY <1>1, <3>1, MentionEdges
    <2> QED BY <2>1, <2>2
<1> QED BY <1>4, <1>5

(* Resolving and counting change neither edges nor mentions. *)
LEMMA QuietEdges ==
    ASSUME OneAtATime, InStep, InStep', EdgesInStep, NEW c \in Callers,
           Resolve(c) \/ CountChunk(c)
    PROVE  EdgesInStep'
<1>1. /\ task[c].at \in ProcessSteps /\ "link" \in CallPlaces
      /\ UNCHANGED <<mentions, weight, cut>>
    BY DEF Resolve, CountChunk, In, ProcessSteps, CallPlaces, tableVars
<1>2. TablesOK /\ task \in Calls /\ task[c].kind = "process" /\ OthersProcess(c)
    BY <1>1, Processing
<1>3. OthersStay(c) /\ Keeps(task'[c], task[c]) /\ task'[c].chunk = task[c].chunk
    BY <1>1, <1>2, ResolveEffect, GotoEffect DEF CountChunk
<1>4. Unlinked' = Unlinked
    BY <1>3, SameUnlinked DEF Keeps
<1>5. \A a \in Ids : ChunksOf(a)' = ChunksOf(a)
    BY <1>1 DEF ChunksOf
<1> QED BY <1>1, <1>2, <1>3, <1>4, <1>5, BesideEdges DEF Keeps

(* The step of a call that runs alone. *)
LEMMA AloneEdges ==
    ASSUME InStep, InStep', EdgesInStep, NEW c \in Callers, OthersIdle(c), OthersStay(c),
           task[c].kind # "process", task'[c].kind # "process", UNCHANGED cut,
           EdgesAround(task[c]) => EdgesAround(task[c])'
    PROVE  EdgesInStep'
<1>1. OthersIdle(c)'
    BY DEF OthersIdle, OthersStay
<1>2. cut \/ EdgesAround(task[c])
    BY EdgesAlone DEF AloneFact
<1>3. AloneFact'
    BY EdgesAfter
<1>4. EdgesInStep' <=> (cut' \/ EdgesAround(task[c])')
    BY <1>1, <1>3 DEF AloneFact
<1> QED BY <1>2, <1>4

(* A step that changes no edge, and no evidence away from what is stale.   *)
LEMMA StillAround ==
    ASSUME NEW c \in Callers, UNCHANGED weight, task'[c].at # "rebuild",
           \A p \in Ids \X Ids : ~Touches(p, Stale(task'[c])) =>
               /\ ~Touches(p, Stale(task[c]))
               /\ ChunksOf(p[1])' = ChunksOf(p[1]) /\ ChunksOf(p[2])' = ChunksOf(p[2])
    PROVE  EdgesAround(task[c]) => EdgesAround(task[c])'
<1> SUFFICES ASSUME EdgesAround(task[c])
             PROVE  EdgesAround(task[c])'
    OBVIOUS
<1>1. ASSUME NEW p \in Ids \X Ids, ~Touches(p, Stale(task'[c]))
      PROVE  EdgeIs(p)'
    <2>1. EdgeIs(p) /\ Evidence(p[1], p[2])' = Evidence(p[1], p[2])
        BY <1>1 DEF EdgesAround, Evidence
    <2> QED BY <2>1 DEF EdgeIs
<1> QED BY <1>1 DEF EdgesAround, Touches, Stale

(* Deletions and merges begin with nothing stale. *)
LEMMA StartEdges ==
    ASSUME OneAtATime, InStep, InStep', EdgesInStep, NEW c \in Callers,
           \/ \E d \in DocNos : BeginDelete(c, d)
           \/ \E s, m \in Ids : BeginMerge(c, s, m)
    PROVE  EdgesInStep'
<1>1. TablesOK /\ task \in Calls /\ CallOK(task[c]) /\ task[c] \in CallRecords
    BY DEF InStep, Typed, Calls
<1>2. In(c, "idle") /\ OthersIdle(c)
    BY Company DEF BeginDelete, BeginMerge, MayStart
<1>3. task[c].kind = "idle"
    BY <1>1, <1>2
       DEF In, CallOK, CallRecords, CallKinds, ProcessSteps, DeleteSteps, MergeSteps
<1>4. /\ OthersStay(c) /\ UNCHANGED <<mentions, weight, cut>>
      /\ \/ task'[c].kind = "delete" /\ task'[c].at = "lower"
         \/ task'[c].kind = "merge" /\ task'[c].at = "move_aliases"
    <2>1. CASE \E d \in DocNos : BeginDelete(c, d)
        BY <1>1, <2>1, DeleteStarts DEF BeginDelete, tableVars
    <2>2. CASE \E s, m \in Ids : BeginMerge(c, s, m)
        BY <1>1, <2>2, MergeStarts DEF BeginMerge
    <2> QED BY <2>1, <2>2
<1>5. Stale(task[c]) = {} /\ task'[c].at # "rebuild"
    BY <1>3, <1>4 DEF Stale
<1>6. \A a \in Ids : ChunksOf(a)' = ChunksOf(a)
    BY <1>4 DEF ChunksOf
<1>7. EdgesAround(task[c]) => EdgesAround(task[c])'
    BY <1>4, <1>5, <1>6, StillAround DEF Touches
<1> QED BY <1>2, <1>3, <1>4, <1>7, AloneEdges

(* A deletion leaves stale the edges around the entities it found in the   *)
(* document, and no others.                                                *)
LEMMA DeleteEdges ==
    ASSUME OneAtATime, InStep, InStep', EdgesInStep, NEW c \in Callers, DeleteGoesOn(c)
    PROVE  EdgesInStep'
<1>1. task[c].at \in {"lower", "mentions", "row"} /\ task[c].at \in DeleteSteps
    BY DEF DeleteGoesOn, LowerCounts, RemoveMentions, RemoveRow, In, DeleteSteps
<1>2. /\ TablesOK /\ task \in Calls /\ task[c].kind = "delete" /\ OthersIdle(c)
      /\ CallOK(task[c]) /\ RecordedOnly(task[c])
    BY <1>1, Alone
<1>3. task[c].doc \in kept
    BY <1>1, <1>2 DEF CallOK
<1>4. {"mentions", "row", "wipe"} \subseteq CallPlaces
    BY DEF CallPlaces, DeleteSteps
<1>5. UNCHANGED <<weight, cut>>
    BY DEF DeleteGoesOn, LowerCounts, RemoveMentions, RemoveRow
<1>6. /\ OthersStay(c) /\ Keeps(task'[c], task[c]) /\ task'[c].ids = task[c].ids
      /\ \/ task[c].at = "lower" /\ task'[c].at = "mentions" /\ mentions' = mentions
         \/ /\ task[c].at = "mentions" /\ task'[c].at = "row"
            /\ mentions' = {m \in mentions : m[1] # task[c].doc}
         \/ task[c].at = "row" /\ task'[c].at = "wipe" /\ mentions' = mentions
    <2>1. CASE LowerCounts(c)
        BY <1>2, <1>3, <1>4, <2>1, GotoEffect DEF LowerCounts, In
    <2>2. CASE RemoveMentions(c)
        BY <1>2, <1>4, <2>2, GotoEffect DEF RemoveMentions, In
    <2>3. CASE RemoveRow(c)
        BY <1>2, <1>3, <1>4, <2>3, GotoEffect DEF RemoveRow, In
    <2> QED BY <2>1, <2>2, <2>3 DEF DeleteGoesOn
<1>7. ASSUME NEW p \in Ids \X Ids, ~Touches(p, Stale(task'[c]))
      PROVE  /\ ~Touches(p, Stale(task[c]))
             /\ ChunksOf(p[1])' = ChunksOf(p[1]) /\ ChunksOf(p[2])' = ChunksOf(p[2])
    <2>1. CASE mentions' = mentions
        BY <1>2, <1>6, <1>7, <2>1 DEF Stale, Keeps, ChunksOf, Touches
    <2>2. CASE /\ task[c].at = "mentions" /\ task'[c].at = "row"
               /\ mentions' = {m \in mentions : m[1] # task[c].doc}
        <3>1. Stale(task[c]) = {} /\ Stale(task'[c]) = task[c].ids
            BY <1>2, <1>6, <2>2 DEF Stale, Keeps
        <3>2. task[c].ids = {m[4] : m \in {n \in mentions : n[1] = task[c].doc}}
            BY <1>2, <2>2 DEF RecordedOnly
        <3>3. \A a : a \notin task[c].ids => ChunksOf(a)' = ChunksOf(a)
            BY <2>2, <3>2 DEF ChunksOf
        <3> QED BY <1>7, <3>1, <3>3 DEF Touches
    <2> QED BY <1>6, <2>1, <2>2
<1>8. EdgesAround(task[c]) => EdgesAround(task[c])'
    BY <1>5, <1>6, <1>7, StillAround
<1> QED BY <1>2, <1>5, <1>6, <1>8, AloneEdges DEF Keeps

(* Before the merged entity goes, a merge touches mentions and edges of    *)
(* the two entities only.                                                  *)
LEMMA MergeEdges ==
    ASSUME OneAtATime, InStep, InStep', EdgesInStep, NEW c \in Callers,
           \/ MoveAliases(c) \/ CountMoved(c) \/ MoveMentions(c) \/ AddCount(c)
    PROVE  EdgesInStep'
<1>1. task[c].at \in MergeSteps \ {"wipe", "rebuild"}
    BY DEF MoveAliases, CountMoved, MoveMentions, AddCount, In, MergeSteps
<1>2. /\ TablesOK /\ task \in Calls /\ task[c].kind = "merge" /\ OthersIdle(c)
      /\ CallOK(task[c])
    BY <1>1, Alone
<1>3. task[c].to \in alive
    BY <1>1, <1>2 DEF CallOK
<1>4. {"count_moved", "add_count", "move_edges"} \subseteq CallPlaces
    BY DEF CallPlaces, MergeSteps
<1>5. UNCHANGED <<weight, cut>>
    BY DEF MoveAliases, CountMoved, MoveMentions, AddCount, tableVars
<1>6. /\ OthersStay(c) /\ Keeps(task'[c], task[c])
      /\ \/ task[c].at = "move_aliases" /\ task'[c].at = "count_moved" /\ mentions' = mentions
         \/ task[c].at = "count_moved" /\ task'[c].at = "move_mentions" /\ mentions' = mentions
         \/ /\ task[c].at = "move_mentions" /\ task'[c].at = "add_count"
            /\ mentions' = {IF r[4] = task[c].from THEN <<r[1], r[2], r[3], task[c].to>> ELSE r :
                               r \in mentions}
         \/ task[c].at = "add_count" /\ task'[c].at = "move_edges" /\ mentions' = mentions
    <2>1. CASE MoveAliases(c)
        BY <1>2, <1>3, <1>4, <2>1, GotoEffect DEF MoveAliases, In
    <2>2. CASE CountMoved(c)
        BY <1>2, <2>2, CountMovedEffect DEF CountMoved, In, tableVars
    <2>3. CASE MoveMentions(c)
        BY <1>2, <1>4, <2>3, GotoEffect DEF MoveMentions, In
    <2>4. CASE AddCount(c)
        BY <1>2, <1>4, <2>4, GotoEffect DEF AddCount, In
    <2> QED BY <2>1, <2>2, <2>3, <2>4
<1>7. ASSUME NEW p \in Ids \X Ids, ~Touches(p, Stale(task'[c]))
      PROVE  /\ ~Touches(p, Stale(task[c]))
             /\ ChunksOf(p[1])' = ChunksOf(p[1]) /\ ChunksOf(p[2])' = ChunksOf(p[2])
    <2>1. CASE mentions' = mentions
        BY <1>2, <1>6, <1>7, <2>1 DEF Stale, Keeps, ChunksOf, Touches
    <2>2. CASE /\ task[c].at = "move_mentions" /\ task'[c].at = "add_count"
               /\ mentions' = {IF r[4] = task[c].from
                               THEN <<r[1], r[2], r[3], task[c].to>> ELSE r : r \in mentions}
        <3>1. Stale(task[c]) = {} /\ Stale(task'[c]) = {task[c].to, task[c].from}
            BY <1>2, <1>6, <2>2 DEF Stale, Keeps
        <3>2. \A a : a \notin {task[c].to, task[c].from} => ChunksOf(a)' = ChunksOf(a)
            <4> DEFINE s == task[c].to  m == task[c].from
                       new(r) == <<r[1], r[2], r[3], s>>
            <4>1. mentions' = {IF r[4] = m THEN new(r) ELSE r : r \in mentions}
                BY <2>2
            <4>2. \A r : new(r)[4] = s
                OBVIOUS
            <4> HIDE DEF new, s, m
            <4>3. ASSUME NEW a, a # s, a # m
                  PROVE  {n \in mentions' : n[4] = a} = {n \in mentions : n[4] = a}
                BY <4>1, <4>2, <4>3
            <4>4. \A a : a \notin {s, m} => ChunksOf(a)' = ChunksOf(a)
                BY <4>3 DEF ChunksOf
            <4> QED BY <4>4 DEF s, m
        <3> QED BY <1>7, <3>1, <3>2 DEF Touches
    <2> QED BY <1>6, <2>1, <2>2
<1>8. EdgesAround(task[c]) => EdgesAround(task[c])'
    BY <1>5, <1>6, <1>7, StillAround
<1> QED BY <1>2, <1>5, <1>6, <1>8, AloneEdges DEF Keeps

(* Moving edges changes only those that end at one of the two entities.    *)
LEMMA MoveEdgesEdges ==
    ASSUME OneAtATime, InStep, InStep', EdgesInStep, NEW c \in Callers, MoveEdges(c)
    PROVE  EdgesInStep'
<1> DEFINE s == task[c].to  m == task[c].from
<1>1. task[c].at = "move_edges" /\ task[c].at \in MergeSteps \ {"wipe", "rebuild"}
    BY DEF MoveEdges, In, MergeSteps
<1>2. /\ TablesOK /\ task \in Calls /\ task[c].kind = "merge" /\ OthersIdle(c)
      /\ CallOK(task[c]) /\ alive \subseteq Ids
    BY <1>1, Alone
<1>3. s \in Ids /\ m \in Ids
    BY <1>1, <1>2 DEF CallOK
<1>4. /\ OthersStay(c) /\ Keeps(task'[c], task[c]) /\ task'[c].at = "drop"
      /\ UNCHANGED <<mentions, cut>>
    <2>1. "drop" \in CallPlaces
        BY DEF CallPlaces, MergeSteps
    <2> QED BY <1>2, <2>1, GotoEffect DEF MoveEdges
<1>5. ASSUME NEW p \in Ids \X Ids, p[1] \notin {s, m}, p[2] \notin {s, m}
      PROVE  weight'[p] = weight[p]
    <2> DEFINE src == [q \in Ids \X Ids |->
                   IF weight[s, q[2]] # 0 THEN weight[q]
                   ELSE IF q[1] = s THEN weight[m, q[2]]
                   ELSE IF q[1] = m THEN 0 ELSE weight[q]]
               dst == [q \in Ids \X Ids |->
                   IF src[q[1], s] # 0 THEN src[q]
                   ELSE IF q[2] = s THEN src[q[1], m]
                   ELSE IF q[2] = m THEN 0 ELSE src[q]]
    <2>1. src[p] = weight[p]
        BY <1>5
    <2> HIDE DEF src
    <2>2. dst[p] = src[p]
        BY <1>5
    <2>3. weight' = [q \in Ids \X Ids |-> IF m \in {q[1], q[2]} THEN 0 ELSE dst[q]]
        BY DEF MoveEdges, src
    <2> HIDE DEF dst, s, m
    <2> QED BY <1>5, <2>1, <2>2, <2>3
<1>6. Stale(task[c]) = {s, m} /\ Stale(task'[c]) = {s, m}
    BY <1>1, <1>2, <1>4 DEF Stale, Keeps
<1>7. \A a, b : Evidence(a, b)' = Evidence(a, b)
    BY <1>4 DEF Evidence, ChunksOf
<1>8. EdgesAround(task[c]) => EdgesAround(task[c])'
    BY <1>4, <1>5, <1>6, <1>7 DEF EdgesAround, EdgeIs, Touches
<1> QED BY <1>2, <1>4, <1>8, AloneEdges DEF Keeps

(* The merged entity takes its edges with it; it is in no mention any more. *)
LEMMA DropEdges ==
    ASSUME OneAtATime, InStep, InStep', EdgesInStep, NEW c \in Callers, DropEntity(c)
    PROVE  EdgesInStep'
<1> DEFINE s == task[c].to  m == task[c].from
<1>1. task[c].at = "drop" /\ task[c].at \in MergeSteps \ {"wipe", "rebuild"}
    BY DEF DropEntity, In, MergeSteps
<1>2. /\ TablesOK /\ task \in Calls /\ task[c].kind = "merge" /\ OthersIdle(c)
      /\ CallOK(task[c]) /\ RecordedOnly(task[c]) /\ alive \subseteq Ids
    BY <1>1, Alone
<1>3. s \in Ids /\ m \in Ids /\ \A r \in mentions : r[4] # m
    BY <1>1, <1>2 DEF CallOK, RecordedOnly
<1>4. /\ OthersStay(c) /\ Keeps(task'[c], task[c]) /\ task'[c].at = "wipe"
      /\ task'[c].ids = {s} /\ UNCHANGED cut
    BY <1>2, <1>3, DropEffect DEF DropEntity
<1>5. /\ mentions' = mentions
      /\ weight' = [p \in Ids \X Ids |-> IF m \in {p[1], p[2]} THEN 0 ELSE weight[p]]
    BY <1>3 DEF DropEntity
<1>6. Stale(task[c]) = {s, m} /\ Stale(task'[c]) = {s}
    BY <1>1, <1>2, <1>4 DEF Stale, Keeps
<1>7. \A e : e = m => ChunksOf(e)' = {}
    BY <1>3, <1>5 DEF ChunksOf
<1>8. ASSUME EdgesAround(task[c]), NEW p \in Ids \X Ids, ~Touches(p, {s})
      PROVE  EdgeIs(p)'
    <2>1. CASE m \in {p[1], p[2]}
        <3>1. ChunksOf(p[1])' = {} \/ ChunksOf(p[2])' = {}
            BY <1>7, <2>1
        <3>2. (ChunksOf(p[1]) \cap ChunksOf(p[2]))' = {}
            BY <3>1
        <3>3. Evidence(p[1], p[2])' = 0
            BY <3>2, FS_EmptySet DEF Evidence
        <3> QED BY <1>5, <2>1, <3>3 DEF EdgeIs
    <2>2. CASE m \notin {p[1], p[2]}
        <3>1. EdgeIs(p) /\ weight'[p] = weight[p]
            BY <1>5, <1>6, <1>8, <2>2 DEF EdgesAround, Touches
        <3> QED BY <1>5, <3>1 DEF EdgeIs, Evidence, ChunksOf
    <2> QED BY <2>1, <2>2
<1>9. EdgesAround(task[c]) => EdgesAround(task[c])'
    BY <1>4, <1>6, <1>8 DEF EdgesAround
<1> QED BY <1>2, <1>4, <1>9, AloneEdges DEF Keeps

(* The stale edges are wiped ... *)
LEMMA WipeEdgesEdges ==
    ASSUME OneAtATime, InStep, InStep', EdgesInStep, NEW c \in Callers, WipeEdges(c)
    PROVE  EdgesInStep'
<1>1. task[c].at = "wipe" /\ task[c].at \in DeleteSteps
    BY DEF WipeEdges, In, DeleteSteps
<1>2. task \in Calls /\ task[c].kind \in {"delete", "merge"} /\ OthersIdle(c)
    BY <1>1, Alone
<1>3. /\ OthersStay(c) /\ Keeps(task'[c], task[c]) /\ task'[c].at = "rebuild"
      /\ task'[c].ids = task[c].ids /\ UNCHANGED <<mentions, cut>>
    <2>1. "rebuild" \in CallPlaces
        BY DEF CallPlaces, DeleteSteps
    <2> QED BY <1>2, <2>1, GotoEffect DEF WipeEdges
<1>4. weight' = [p \in Ids \X Ids |-> IF Touches(p, task[c].ids) THEN 0 ELSE weight[p]]
    BY DEF WipeEdges
<1>5. Stale(task[c]) = task[c].ids /\ Stale(task'[c]) = task[c].ids
    BY <1>1, <1>2, <1>3 DEF Stale, Keeps
<1>6. \A a, b : Evidence(a, b)' = Evidence(a, b)
    BY <1>3 DEF Evidence, ChunksOf
<1>7. EdgesAround(task[c]) => EdgesAround(task[c])'
    BY <1>3, <1>4, <1>5, <1>6 DEF EdgesAround, EdgeIs
<1> QED BY <1>2, <1>3, <1>7, AloneEdges DEF Keeps

(* ... and rebuilt from the mentions. *)
LEMMA RebuildEdgesEdges ==
    ASSUME OneAtATime, InStep, InStep', EdgesInStep, NEW c \in Callers, RebuildEdges(c)
    PROVE  EdgesInStep'
<1>1. task[c].at = "rebuild" /\ task[c].at \in DeleteSteps
    BY DEF RebuildEdges, In, DeleteSteps
<1>2. TablesOK /\ task \in Calls /\ task[c].kind \in {"delete", "merge"} /\ OthersIdle(c)
    BY <1>1, Alone
<1>3. OthersStay(c) /\ task'[c] = Free /\ UNCHANGED <<mentions, cut>>
    BY <1>2, ReturnEffect DEF RebuildEdges
<1>4. weight' = [p \in Ids \X Ids |->
          IF p[1] < p[2] /\ Touches(p, task[c].ids) /\ Evidence(p[1], p[2]) > 0
          THEN Evidence(p[1], p[2]) ELSE weight[p]]
    BY DEF RebuildEdges
<1>5. Stale(task[c]) = task[c].ids
    BY <1>1, <1>2 DEF Stale
<1>6. \A a, b : Evidence(a, b)' = Evidence(a, b) /\ Evidence(a, b) \in Nat
    BY <1>2, <1>3, EvidenceFinite DEF Evidence, ChunksOf
<1>7. ASSUME EdgesAround(task[c]), NEW p \in Ids \X Ids
      PROVE  EdgeIs(p)'
    <2>1. CASE Touches(p, task[c].ids)
        <3>1. weight[p] = 0
            BY <1>1, <1>7, <2>1 DEF EdgesAround
        <3> QED BY <1>4, <1>6, <2>1, <3>1 DEF EdgeIs
    <2>2. CASE ~Touches(p, task[c].ids)
        BY <1>4, <1>5, <1>6, <1>7, <2>2 DEF EdgeIs, EdgesAround
    <2> QED BY <2>1, <2>2
<1>8. EdgesAround(task[c]) => EdgesAround(task[c])'
    BY <1>3, <1>7, IdleOK DEF EdgesAround
<1> QED BY <1>2, <1>3, <1>8, IdleOK, AloneEdges

(* Linking a chunk moves it from the unlinked chunks to the evidence: one  *)
(* more for each pair of entities it mentions.                             *)
LEMMA LinkEdges ==
    ASSUME OneAtATime, InStep, InStep', EdgesInStep, NEW c \in Callers, LinkChunk(c)
    PROVE  EdgesInStep'
<1> DEFINE d == task[c].doc  k == task[c].chunk  u == <<d, k>>  ids == task[c].ids
           E(a, b) == ChunksOf(a) \cap ChunksOf(b)
<1>1. task[c].at = "link" /\ task[c].at \in ProcessSteps
    BY DEF LinkChunk, In, ProcessSteps
<1>2. /\ TablesOK /\ task \in Calls /\ task[c] \in CallRecords
      /\ task[c].kind = "process" /\ OthersProcess(c) /\ RecordedOnly(task[c])
      /\ \A o \in Callers \ {c} : task[o].kind = "process" => task[o].doc # d
    BY <1>1, Processing
<1>3. /\ OthersStay(c)
      /\ \/ /\ Keeps(task'[c], task[c]) /\ task'[c].chunk = k + 1
         \/ task'[c] = Free
    BY <1>2, LinkEffect
<1>4. mentions' = mentions /\ cut' = cut
    BY DEF LinkChunk
<1>5. ids = MentionedBy(d, k) /\ ids \subseteq alive /\ ids \subseteq Ids
    BY <1>2 DEF RecordedOnly, MentionedBy, TablesOK, CallRecords
<1>6. ASSUME NEW p \in Ids \X Ids
      PROVE  weight'[p] = weight[p] + IF p[1] \in ids /\ p[2] \in ids /\ p[1] < p[2]
                                      THEN 1 ELSE 0
    <2> DEFINE pairs == {q \in ids \X ids : q[1] < q[2]}
               broken == {q \in pairs : ~({q[1], q[2]} \subseteq alive)}
               Precedes(q, r) == q[1] < r[1] \/ (q[1] = r[1] /\ q[2] < r[2])
               linked == {q \in pairs : \A r \in broken : Precedes(q, r)}
    <2>1. broken = {}
        BY <1>5
    <2>2. linked = pairs
        BY <2>1
    <2>3. p \in pairs <=> p[1] \in ids /\ p[2] \in ids /\ p[1] < p[2]
        OBVIOUS
    <2>4. weight' = [q \in Ids \X Ids |-> weight[q] + IF q \in linked THEN 1 ELSE 0]
        BY DEF LinkChunk
    <2> HIDE DEF linked, pairs, ids
    <2> QED BY <2>2, <2>3, <2>4
<1>7. \A a : u \in ChunksOf(a) <=> a \in ids
    BY <1>5 DEF ChunksOf, MentionedBy
<1>8. /\ u \in Unlinked
      /\ \A v : v \in Unlinked' <=> \/ v \in Unlinked /\ v # u
                                    \/ task'[c].kind = "process" /\ v = <<d, k + 1>>
    <2>1. u \in Unlinked
        BY <1>2 DEF Unlinked
    <2>2. \A v : v \in Unlinked /\ v # u <=>
                     \E o \in Callers \ {c} : task[o].kind = "process"
                                                /\ v = <<task[o].doc, task[o].chunk>>
        BY <1>2 DEF Unlinked
    <2>3. \A v : v \in Unlinked' <=>
                     \/ \E o \in Callers \ {c} : task[o].kind = "process"
                                                   /\ v = <<task[o].doc, task[o].chunk>>
                     \/ task'[c].kind = "process" /\ v = <<task'[c].doc, task'[c].chunk>>
        BY <1>3 DEF Unlinked, OthersStay
    <2>4. task'[c].kind = "process" => task'[c].doc = d /\ task'[c].chunk = k + 1
        BY <1>3, IdleOK DEF Keeps
    <2> QED BY <2>1, <2>2, <2>3, <2>4
<1>9. \A a : <<d, k + 1>> \notin ChunksOf(a)
    <2>1. k \in Nat /\ \A m \in mentions : m[1] = d => m[2] <= k /\ m[2] \in Nat
        BY <1>2 DEF RecordedOnly, TablesOK, CallRecords
    <2> QED BY <2>1 DEF ChunksOf
<1>10. \A a : ChunksOf(a)' = ChunksOf(a)
    BY <1>4 DEF ChunksOf
<1>11. ASSUME NEW a \in Ids, NEW b \in Ids
       PROVE  Linked(a, b)' = Linked(a, b) + IF a \in ids /\ b \in ids THEN 1 ELSE 0
    <2> DEFINE L == E(a, b) \ Unlinked
    <2>1. IsFiniteSet(E(a, b))
        BY <1>2, EvidenceFinite
    <2>2. IsFiniteSet(L) /\ u \notin L /\ Cardinality(L) = Linked(a, b)
        BY <1>8, <2>1, FS_Difference DEF Linked
    <2>3. Linked(a, b)' = Cardinality(E(a, b) \ Unlinked')
        BY <1>10 DEF Linked
    <2>4. u \in E(a, b) <=> a \in ids /\ b \in ids
        BY <1>7
    <2>5. <<d, k + 1>> \notin E(a, b)
        BY <1>9
    <2> HIDE DEF E, u, ids
    <2>6. CASE a \in ids /\ b \in ids
        <3>1. E(a, b) \ Unlinked' = L \cup {u}
            BY <1>8, <2>4, <2>5, <2>6
        <3>2. Cardinality(L \cup {u}) = Cardinality(L) + 1
            <4> HIDE DEF L
            <4> QED BY <2>2, FS_AddElement
        <3> QED BY <2>2, <2>3, <2>6, <3>1, <3>2
    <2>7. CASE ~(a \in ids /\ b \in ids)
        <3>1. E(a, b) \ Unlinked' = L
            BY <1>8, <2>4, <2>5, <2>7
        <3>2. Cardinality(L) \in Nat
            BY <2>2, FS_CardinalityType
        <3> QED BY <2>2, <2>3, <2>7, <3>1, <3>2
    <2> QED BY <2>6, <2>7
<1>12. \A o \in Callers : /\ task[o].kind \in {"idle", "process"}
                          /\ task'[o].kind \in {"idle", "process"}
    BY <1>2, <1>3, IdleOK DEF OthersProcess, OthersStay, Keeps
<1>13. cut \/ AllExact
    BY <1>12, EdgesBeside DEF BesideFact
<1>14. cut' \/ AllExact'
    <2>1. ASSUME AllExact, NEW p \in Ids \X Ids
          PROVE  ExactEdge(p)'
        <3>1. ExactEdge(p) /\ p[1] \in Ids /\ p[2] \in Ids
            BY <2>1 DEF AllExact
        <3>2. weight[p] = IF p[1] < p[2] THEN Linked(p[1], p[2]) ELSE 0
            BY <3>1 DEF ExactEdge
        <3>3. Linked(p[1], p[2])' = Linked(p[1], p[2])
                                       + IF p[1] \in ids /\ p[2] \in ids THEN 1 ELSE 0
            BY <1>11, <3>1
        <3> HIDE DEF ids
        <3>4. weight'[p] = IF p[1] < p[2] THEN Linked(p[1], p[2])' ELSE 0
            BY <1>6, <3>2, <3>3
        <3> QED BY <3>4 DEF ExactEdge
    <2> QED BY <1>4, <1>13, <2>1 DEF AllExact
<1> QED BY <1>12, <1>14, EdgesAfter DEF BesideFact

(* Nothing of what the edges depend on changes. *)
LEMMA SameEdges ==
    ASSUME EdgesInStep, UNCHANGED <<mentions, weight, task, cut>>
    PROVE  EdgesInStep'
<1>1. \A a, b : Linked(a, b)' = Linked(a, b)
    BY DEF Linked, ChunksOf, Unlinked
<1> QED BY <1>1 DEF EdgesInStep, ExactEdge

(* At the start there are no edges and no mentions. *)
LEMMA EdgesInitially == GraphInit => EdgesInStep
<1> SUFFICES ASSUME GraphInit PROVE EdgesInStep
    OBVIOUS
<1>1. \A a, b : Linked(a, b) = 0
    <2>1. \A a, b : (ChunksOf(a) \cap ChunksOf(b)) \ Unlinked = {}
        BY DEF GraphInit, ChunksOf
    <2> QED BY <2>1, FS_EmptySet DEF Linked
<1>2. \A c \in Callers : task[c].at # "rebuild"
    BY IdleOK DEF GraphInit
<1> QED BY <1>1, <1>2 DEF EdgesInStep, ExactEdge, GraphInit

(* Every step keeps the edges in step with the mentions. *)
LEMMA EdgesKept ==
    OneAtATime /\ InStep /\ InStep' /\ EdgesInStep /\ [GraphNext]_gvars => EdgesInStep'
<1> SUFFICES ASSUME OneAtATime, InStep, InStep', EdgesInStep, [GraphNext]_gvars
             PROVE  EdgesInStep'
    OBVIOUS
<1>1. CASE UNCHANGED gvars
    BY <1>1, SameEdges DEF gvars, tableVars
<1>2. ASSUME NEW c \in Callers, NEW d \in DocNos, BeginProcess(c, d) \/ BeginDelete(c, d)
      PROVE  EdgesInStep'
    BY <1>2, StartProcessEdges, StartEdges
<1>3. ASSUME NEW c \in Callers, NEW s \in Ids, NEW m \in Ids, BeginMerge(c, s, m)
      PROVE  EdgesInStep'
    BY <1>3, StartEdges
<1>4. ASSUME NEW c \in Callers,
             ProcessGoesOn(c) \/ DeleteGoesOn(c) \/ WipeEdges(c) \/ RebuildEdges(c)
      PROVE  EdgesInStep'
    BY <1>4, QuietEdges, RecordEdges, LinkEdges, DeleteEdges, WipeEdgesEdges, RebuildEdgesEdges
       DEF ProcessGoesOn
<1>5. ASSUME NEW c \in Callers, MergeGoesOn(c)
      PROVE  EdgesInStep'
    BY <1>5, MergeEdges, MoveEdgesEdges, DropEdges DEF MergeGoesOn
<1>6. ASSUME NEW c \in Callers, CutShort(c)
      PROVE  EdgesInStep'
    BY <1>6 DEF CutShort, EdgesInStep
<1>7. ASSUME NEW e \in Ids, NEW x \in ExtraAliases, AddAlias(e, x)
      PROVE  EdgesInStep'
    BY <1>7, SameEdges DEF AddAlias
<1> QED BY <1>1, <1>2, <1>3, <1>4, <1>5, <1>6, <1>7 DEF GraphNext

(* In quiet nothing is unlinked and nothing stale. *)
LEMMA EdgesInQuiet == InStep /\ EdgesInStep => EdgesExact
<1> SUFFICES ASSUME InStep, EdgesInStep, Quiet,
                    NEW p \in Ids \X Ids
             PROVE  weight[p] = IF p[1] < p[2] THEN Evidence(p[1], p[2]) ELSE 0
    BY DEF EdgesExact
<1>1. \A c \in Callers : task[c].kind = "idle"
    BY DEF InStep, Typed, CallOK, CallRecords, CallKinds, Quiet, In, ProcessSteps,
           DeleteSteps, MergeSteps
<1>2. ExactEdge(p)
    BY <1>1, EdgesBeside DEF BesideFact, AllExact, Quiet
<1>3. Unlinked = {}
    BY <1>1 DEF Unlinked
<1> QED BY <1>2, <1>3 DEF ExactEdge, Linked, Evidence

(* In quiet every edge carries exactly the evidence for it.                *)
THEOREM EdgesAreExact == ASSUME OneAtATime PROVE GraphSpec => []EdgesExact
<1>1. GraphSpec => []EdgesInStep
    BY EdgesInitially, EdgesKept, GraphInStep, PTL DEF GraphSpec
<1> QED BY <1>1, GraphInStep, EdgesInQuiet, PTL

-----------------------------------------------------------------------------
(* Counters and mentions. *)

CountsAround(r) ==
    /\ \A e \in alive : entity[e].count + MovedTo(r, e) >= Cardinality(CountedDocs(e))
    /\ r.kind = "merge" /\ r.at = "move_mentions" =>
          r.moved = Cardinality({n \in mentions : n[4] = r.from})

(* What the invariant says of a call beside which only processing runs.    *)
CountsFact ==
    \A c \in Callers :
        InStep /\ OthersProcess(c) => (CountsInStep <=> (cut \/ CountsAround(task[c])))

(* The documents that count are finitely many. *)
LEMMA CountedFinite ==
    ASSUME TablesOK, NEW e
    PROVE  /\ IsFiniteSet(CountedDocs(e)) /\ Cardinality(CountedDocs(e)) \in Nat
<1> DEFINE S == {n \in mentions : n[4] = e /\ <<n[1], n[2]>> \notin Uncounted
                                    /\ n[1] \notin Leaving}
           f == [m \in S |-> m[1]]
<1>1. IsFiniteSet(S)
    BY FS_Subset DEF TablesOK
<1>2. f \in Surjection(S, CountedDocs(e))
    BY DEF Surjection, CountedDocs
<1>3. IsFiniteSet(CountedDocs(e))
    <2> HIDE DEF S, f
    <2> QED BY <1>1, <1>2, FS_Surjection
<1> QED BY <1>3, FS_CardinalityType

(* A counter is a number, and what a merge owes it is not negative. *)
LEMMA CountTypes ==
    ASSUME InStep, NEW e \in alive
    PROVE  /\ entity[e].count \in Int
           /\ \A c \in Callers : MovedTo(task[c], e) \in Nat
<1>1. alive \subseteq Ids /\ entity \in [Ids -> EntityRecords]
    BY GraphAssumption DEF InStep, Typed, TablesOK, Ids
<1>2. entity[e] \in EntityRecords
    BY <1>1
<1>3. \A c \in Callers : task[c] \in CallRecords
    BY DEF InStep, Typed
<1>4. \A c \in Callers : task[c].moved \in Nat
    BY <1>3 DEF CallRecords
<1> QED BY <1>2, <1>4 DEF EntityRecords, MovedTo

(* The fact holds of every state, ... *)
LEMMA CountsBeside == CountsFact
<1> SUFFICES ASSUME NEW c \in Callers, InStep, OthersProcess(c)
             PROVE  CountsInStep <=> (cut \/ CountsAround(task[c]))
    BY DEF CountsFact
<1>1. \A o \in Callers \ {c} : task[o].kind \in {"idle", "process"}
    BY DEF OthersProcess
<1>2. \A o \in Callers \ {c} : \A e \in alive : MovedTo(task[o], e) = 0
    BY <1>1 DEF MovedTo
<1>3. ASSUME NEW e \in alive
      PROVE  (\E o \in Callers :
                 entity[e].count + MovedTo(task[o], e) >= Cardinality(CountedDocs(e)))
             <=> entity[e].count + MovedTo(task[c], e) >= Cardinality(CountedDocs(e))
    <2>1. /\ entity[e].count \in Int /\ \A o \in Callers : MovedTo(task[o], e) \in Nat
          /\ Cardinality(CountedDocs(e)) \in Nat
        BY CountTypes, CountedFinite DEF InStep, Typed
    <2> QED BY <1>2, <2>1
<1> QED BY <1>1, <1>3 DEF CountsInStep, CountsAround

(* ... also after a step. *)
LEMMA CountsAfter == CountsFact'
<1> QED BY CountsBeside, PTL

(* The step of a call. *)
LEMMA StepCounts ==
    ASSUME InStep, InStep', CountsInStep, NEW c \in Callers, OthersProcess(c), OthersStay(c),
           UNCHANGED cut, CountsAround(task[c]) => CountsAround(task[c])'
    PROVE  CountsInStep'
<1>1. OthersProcess(c)'
    BY DEF OthersProcess, OthersStay
<1>2. CountsFact /\ CountsFact'
    BY CountsBeside, CountsAfter
<1>3. cut \/ CountsAround(task[c])
    BY <1>2 DEF CountsFact
<1>4. CountsInStep' <=> (cut' \/ CountsAround(task[c])')
    BY <1>1, <1>2 DEF CountsFact
<1> QED BY <1>3, <1>4

(* Fewer documents count when mentions go, or when chunks or documents     *)
(* cease to count.                                                         *)
LEMMA FewerCounted ==
    ASSUME TablesOK, mentions' \subseteq mentions, Uncounted \subseteq Uncounted',
           Leaving \subseteq Leaving', NEW e
    PROVE  /\ CountedDocs(e)' \subseteq CountedDocs(e)
           /\ Cardinality(CountedDocs(e)') <= Cardinality(CountedDocs(e))
<1>1. CountedDocs(e)' \subseteq CountedDocs(e)
    BY DEF CountedDocs
<1> QED BY <1>1, CountedFinite, FS_Subset

(* The counters of living entities stay, and no more documents count.      *)
LEMMA QuietCounts ==
    ASSUME InStep, InStep', CountsInStep, NEW c \in Callers, OthersProcess(c), OthersStay(c),
           UNCHANGED cut, alive' \subseteq alive,
           \A e \in alive' : entity'[e].count = entity[e].count,
           \/ task[c].kind # "merge" \/ task[c].at # "add_count",
           \/ task'[c].kind # "merge" \/ task'[c].at # "move_mentions",
           mentions' \subseteq mentions, Uncounted \subseteq Uncounted',
           Leaving \subseteq Leaving'
    PROVE  CountsInStep'
<1>1. TablesOK /\ TablesOK'
    BY DEF InStep, Typed
<1>2. ASSUME CountsAround(task[c]), NEW e \in alive'
      PROVE  (entity[e].count + MovedTo(task[c], e) >= Cardinality(CountedDocs(e)))'
    <2>1. e \in alive
        BY <1>2
    <2>2. /\ entity[e].count + MovedTo(task[c], e) >= Cardinality(CountedDocs(e))
          /\ MovedTo(task[c], e) = 0
        BY <1>2, <2>1 DEF CountsAround, MovedTo
    <2>3. entity[e].count \in Int /\ Cardinality(CountedDocs(e)) \in Nat
        BY <1>1, <2>1, CountTypes, CountedFinite
    <2>4. Cardinality(CountedDocs(e)') <= Cardinality(CountedDocs(e))
        BY <1>1, FewerCounted
    <2>5. Cardinality(CountedDocs(e)') \in Nat
        <3>1. CountedDocs(e)' \subseteq CountedDocs(e)
            BY <1>1, FewerCounted
        <3> QED BY <1>1, <3>1, CountedFinite, FS_Subset, FS_CardinalityType
    <2>6. MovedTo(task'[c], e) \in Nat
        <3>1. task'[c] \in CallRecords
            BY DEF InStep, Typed
        <3> QED BY <3>1 DEF CallRecords, MovedTo
    <2> QED BY <2>2, <2>3, <2>4, <2>5, <2>6
<1>3. CountsAround(task[c]) => CountsAround(task[c])'
    BY <1>2 DEF CountsAround
<1> QED BY <1>3, StepCounts

(* When a call changes neither its document, its chunk nor whether they    *)
(* count, what counts stays the same.                                      *)
LEMMA SameCounted ==
    ASSUME NEW c \in Callers, OthersStay(c), task'[c].kind = task[c].kind,
           task'[c].doc = task[c].doc, task'[c].chunk = task[c].chunk,
           task[c].kind = "process" => (task'[c].at = "link" <=> task[c].at = "link"),
           task[c].kind = "delete" => (task'[c].at = "mentions" <=> task[c].at = "mentions")
    PROVE  Uncounted' = Uncounted /\ Leaving' = Leaving
<1>1. \A o \in Callers : /\ task'[o].kind = task[o].kind /\ task'[o].doc = task[o].doc
                         /\ task'[o].chunk = task[o].chunk
    BY DEF OthersStay
<1>2. \A o \in Callers :
         /\ task[o].kind = "process" => (task'[o].at = "link" <=> task[o].at = "link")
         /\ task[o].kind = "delete" => (task'[o].at = "mentions" <=> task[o].at = "mentions")
    BY DEF OthersStay
<1>3. {o \in Callers : task'[o].kind = "process" /\ task'[o].at # "link"}
         = {o \in Callers : task[o].kind = "process" /\ task[o].at # "link"}
    BY <1>1, <1>2
<1>4. {o \in Callers : task'[o].kind = "delete" /\ task'[o].at = "mentions"}
         = {o \in Callers : task[o].kind = "delete" /\ task[o].at = "mentions"}
    BY <1>1, <1>2
<1> QED BY <1>1, <1>3, <1>4 DEF Uncounted, Leaving

(* Of a call that runs alone: nothing is uncounted, and no document leaves *)
(* but its own.                                                            *)
LEMMA AloneCounted ==
    ASSUME NEW c \in Callers, OthersIdle(c), task[c].kind # "process"
    PROVE  /\ Uncounted = {}
           /\ Leaving = IF task[c].kind = "delete" /\ task[c].at = "mentions"
                        THEN {task[c].doc} ELSE {}
BY DEF OthersIdle, Uncounted, Leaving

(* Processing steps that count nothing: a chunk counts from the moment the *)
(* counters of its entities went up.                                       *)
LEMMA ProcessCounts ==
    ASSUME OneAtATime, InStep, InStep', CountsInStep, NEW c \in Callers,
           \/ \E d \in DocNos : BeginProcess(c, d)
           \/ Resolve(c) \/ LinkChunk(c)
    PROVE  CountsInStep'
<1>1. CASE \E d \in DocNos : BeginProcess(c, d)
    <2>1. PICK d \in DocNos : BeginProcess(c, d)
        BY <1>1
    <2>2. /\ OthersStay(c) /\ task'[c].kind = "process" /\ task'[c].at = "resolve"
          /\ UNCHANGED <<alive, entity, mentions, cut>>
        BY <2>1, ProcessStarts DEF BeginProcess, InStep, Typed, Calls
    <2>3. OthersProcess(c) /\ task[c].kind = "idle"
        BY <2>1, Company DEF BeginProcess
    <2>4. Uncounted \subseteq Uncounted' /\ Leaving \subseteq Leaving'
        BY <2>2, <2>3 DEF Uncounted, Leaving, OthersStay
    <2> QED BY <2>2, <2>3, <2>4, QuietCounts
<1>2. CASE Resolve(c)
    <2>1. task[c].at = "resolve" /\ task[c].at \in ProcessSteps
        BY <1>2 DEF Resolve, In, ProcessSteps
    <2>2. TablesOK /\ task \in Calls /\ task[c].kind = "process" /\ OthersProcess(c)
        BY <2>1, Processing
    <2>3. /\ OthersStay(c) /\ Keeps(task'[c], task[c]) /\ task'[c].at = "record"
          /\ task'[c].chunk = task[c].chunk
          /\ UNCHANGED <<alive, entity, mentions, cut>>
        BY <1>2, <2>2, ResolveEffect DEF Resolve, tableVars
    <2>4. Uncounted' = Uncounted /\ Leaving' = Leaving
        BY <2>1, <2>2, <2>3, SameCounted DEF Keeps
    <2> QED BY <2>2, <2>3, <2>4, QuietCounts DEF Keeps
<1>3. CASE LinkChunk(c)
    <2>1. task[c].at = "link" /\ task[c].at \in ProcessSteps
        BY <1>3 DEF LinkChunk, In, ProcessSteps
    <2>2. task \in Calls /\ task[c].kind = "process" /\ OthersProcess(c)
        BY <2>1, Processing
    <2>3. /\ OthersStay(c) /\ UNCHANGED <<alive, entity, mentions, cut>>
          /\ task'[c].kind \in {"idle", "process"}
        BY <1>3, <2>2, LinkEffect, IdleOK DEF LinkChunk, Keeps
    <2>4. Uncounted \subseteq Uncounted' /\ Leaving \subseteq Leaving'
        BY <2>1, <2>2, <2>3 DEF Uncounted, Leaving, OthersStay
    <2> QED BY <2>2, <2>3, <2>4, QuietCounts
<1> QED BY <1>1, <1>2, <1>3

(* A mention in a chunk that does not count yet adds no document.          *)
LEMMA MentionCounts ==
    ASSUME OneAtATime, InStep, InStep', CountsInStep, NEW c \in Callers,
           task[c].at = "record", NEW e \in Ids, insert_mention(c, e), UNCHANGED cut,
           \A a \in alive' : IF a \in alive THEN entity'[a].count = entity[a].count
                                            ELSE entity'[a].count = 0 /\ a = e
    PROVE  CountsInStep'
<1> DEFINE u == <<task[c].doc, task[c].chunk>>
           new == <<task[c].doc, task[c].chunk, task[c].place, e>>
<1>1. task[c].at \in ProcessSteps
    BY DEF ProcessSteps
<1>2. TablesOK /\ task \in Calls /\ task[c].kind = "process" /\ OthersProcess(c)
    BY <1>1, Processing
<1>3. /\ OthersStay(c) /\ Keeps(task'[c], task[c]) /\ task'[c].chunk = task[c].chunk
      /\ task'[c].at \in {"resolve", "count"}
    BY <1>2, MentionEffect
<1>4. Uncounted' = Uncounted /\ Leaving' = Leaving
    BY <1>2, <1>3, SameCounted DEF Keeps
<1>5. u \in Uncounted
    BY <1>2 DEF Uncounted
<1>6. mentions' = mentions \cup {new} /\ <<new[1], new[2]>> = u
    BY DEF insert_mention
<1>7. \A a : CountedDocs(a)' = CountedDocs(a)
    <2> HIDE DEF new, u
    <2> QED BY <1>4, <1>5, <1>6 DEF CountedDocs
<1>8. \A a : a \notin alive => CountedDocs(a) = {}
    <2>1. \A m \in mentions : m[4] \in alive
        BY <1>2 DEF TablesOK
    <2> QED BY <2>1 DEF CountedDocs
<1>9. task'[c].kind = "process"
    BY <1>2, <1>3 DEF Keeps
<1>10. ASSUME CountsAround(task[c]), NEW a \in alive'
       PROVE  (entity[a].count + MovedTo(task[c], a) >= Cardinality(CountedDocs(a)))'
    <2>1. MovedTo(task'[c], a) = 0
        BY <1>9 DEF MovedTo
    <2>2. CASE a \in alive
        <3>1. entity[a].count + MovedTo(task[c], a) >= Cardinality(CountedDocs(a))
            BY <1>10, <2>2 DEF CountsAround
        <3>2. MovedTo(task[c], a) = 0
            BY <1>2 DEF MovedTo
        <3> QED BY <1>7, <2>1, <2>2, <3>1, <3>2
    <2>3. CASE a \notin alive
        <3>1. CountedDocs(a)' = {} /\ entity'[a].count = 0
            BY <1>7, <1>8, <2>3
        <3> QED BY <2>1, <3>1, FS_EmptySet
    <2> QED BY <2>2, <2>3
<1>11. CountsAround(task[c]) => CountsAround(task[c])'
    BY <1>9, <1>10 DEF CountsAround
<1> QED BY <1>2, <1>3, <1>11, StepCounts

(* A recorded surface adds a mention and, it may be, an entity. *)
LEMMA RecordCounts ==
    ASSUME OneAtATime, InStep, InStep', CountsInStep, NEW c \in Callers,
           RecordKnown(c) \/ RecordNew(c)
    PROVE  CountsInStep'
<1>1. task[c].at = "record" /\ task[c].at \in ProcessSteps /\ UNCHANGED cut
    BY DEF RecordKnown, RecordNew, In, ProcessSteps
<1>2. TablesOK /\ task[c].kind = "process" /\ CallOK(task[c])
    BY <1>1, Processing
<1>3. alive \subseteq Ids /\ last \in Nat /\ entity \in [Ids -> EntityRecords]
    BY <1>2, GraphAssumption DEF TablesOK, Ids
<1>4. CASE RecordKnown(c)
    <2>1. task[c].found \in alive
        BY <1>1, <1>2, <1>4 DEF RecordKnown, CallOK
    <2>2. insert_mention(c, task[c].found) /\ UNCHANGED <<alive, entity>>
        BY <1>4, <2>1 DEF RecordKnown
    <2> QED BY <1>1, <1>3, <2>1, <2>2, MentionCounts
<1>5. CASE RecordNew(c)
    <2> DEFINE same == {e \in alive : entity[e].key = Key[Surface(c)]}
    <2>1. CASE same # {}
        <3> DEFINE e == CHOOSE i \in same : TRUE
        <3>1. e \in alive
            BY <2>1
        <3>2. insert_mention(c, e) /\ UNCHANGED alive
            BY <1>5, <2>1 DEF RecordNew
        <3>3. PICK name : entity' = [i \in Ids |->
                      IF i \in same THEN [entity[i] EXCEPT !.name = name] ELSE entity[i]]
            BY <1>5, <2>1 DEF RecordNew
        <3>4. ASSUME NEW a \in alive'
              PROVE  a \in alive /\ entity'[a].count = entity[a].count
            <4>1. a \in alive /\ entity[a] \in EntityRecords
                BY <1>3, <3>2
            <4>2. [entity[a] EXCEPT !.name = name].count = entity[a].count
                BY <4>1 DEF EntityRecords
            <4> HIDE DEF same
            <4> QED BY <1>3, <3>3, <4>1, <4>2
        <3> HIDE DEF e
        <3> QED BY <1>1, <1>3, <3>1, <3>2, <3>4, MentionCounts
    <2>2. CASE same = {}
        <3> DEFINE r == [key |-> Key[Surface(c)], name |-> Surface(c),
                         type |-> Type[Surface(c)], count |-> 0]
        <3>1. /\ insert_mention(c, last + 1) /\ last + 1 \in Ids
              /\ alive' = alive \cup {last + 1}
              /\ entity' = [entity EXCEPT ![last + 1] = r]
            BY <1>3, <1>5, <2>2, GraphAssumption DEF RecordNew, Ids
        <3>2. r.count = 0 /\ last + 1 \notin alive
            BY <1>2, <1>3 DEF TablesOK
        <3> HIDE DEF r
        <3>3. \A a \in alive' : IF a \in alive THEN entity'[a].count = entity[a].count
                                ELSE entity'[a].count = 0 /\ a = last + 1
            BY <1>3, <3>1, <3>2
        <3> QED BY <1>1, <3>1, <3>3, MentionCounts
    <2> QED BY <2>1, <2>2
<1> QED BY <1>4, <1>5

(* The counters of the entities of a chunk go up by one, and one document  *)
(* comes to count.                                                         *)
LEMMA CountChunkCounts ==
    ASSUME OneAtATime, InStep, InStep', CountsInStep, NEW c \in Callers, CountChunk(c)
    PROVE  CountsInStep'
<1> DEFINE d == task[c].doc  u == <<task[c].doc, task[c].chunk>>
<1>1. task[c].at = "count" /\ task[c].at \in ProcessSteps /\ "link" \in CallPlaces
    BY DEF CountChunk, In, ProcessSteps, CallPlaces
<1>2. /\ TablesOK /\ task \in Calls /\ task[c].kind = "process" /\ OthersProcess(c)
      /\ RecordedOnly(task[c])
    BY <1>1, Processing
<1>3. /\ OthersStay(c) /\ Keeps(task'[c], task[c]) /\ task'[c].at = "link"
      /\ UNCHANGED <<alive, mentions, cut>>
    BY <1>1, <1>2, GotoEffect DEF CountChunk
<1>4. task'[c].kind = "process" /\ alive \subseteq Ids
    BY <1>2, <1>3, GraphAssumption DEF Keeps, TablesOK, Ids
<1>5. \A v : v \in Uncounted => v \in Uncounted' \/ v = u
    BY <1>3 DEF Uncounted, OthersStay
<1>6. Leaving' = Leaving
    BY <1>2, <1>3, <1>4 DEF Leaving, OthersStay
<1>7. task[c].ids = MentionedBy(task[c].doc, task[c].chunk)
    BY <1>2 DEF RecordedOnly
<1>8. ASSUME CountsAround(task[c]), NEW e \in alive'
      PROVE  (entity[e].count + MovedTo(task[c], e) >= Cardinality(CountedDocs(e)))'
    <2>1. e \in alive /\ MovedTo(task'[c], e) = 0 /\ MovedTo(task[c], e) = 0
        BY <1>2, <1>3, <1>4, <1>8 DEF MovedTo
    <2>2. /\ entity[e].count \in Int /\ IsFiniteSet(CountedDocs(e))
          /\ Cardinality(CountedDocs(e)) \in Nat
        BY <1>2, <2>1, CountTypes, CountedFinite
    <2>3. entity[e].count >= Cardinality(CountedDocs(e))
        BY <1>8, <2>1, <2>2 DEF CountsAround
    <2>4. CASE e \in task[c].ids
        <3>1. entity'[e].count = entity[e].count + 1
            BY <1>2, <1>4, <2>1, <2>4, Bumped DEF CountChunk
        <3>2. CountedDocs(e)' \subseteq CountedDocs(e) \cup {d}
            <4>1. \A n : u = <<n[1], n[2]>> => n[1] = d
                OBVIOUS
            <4> HIDE DEF u
            <4> QED BY <1>3, <1>5, <1>6, <4>1 DEF CountedDocs
        <3>3. /\ IsFiniteSet(CountedDocs(e) \cup {d})
              /\ Cardinality(CountedDocs(e) \cup {d}) <= Cardinality(CountedDocs(e)) + 1
            <4> DEFINE S == CountedDocs(e)
            <4> HIDE DEF d, S
            <4>1. IsFiniteSet(S) /\ Cardinality(S) \in Nat
                BY <2>2 DEF S
            <4>2. /\ IsFiniteSet(S \cup {d})
                  /\ Cardinality(S \cup {d}) <= Cardinality(S) + 1
                BY <4>1, FS_AddElement
            <4> QED BY <4>2 DEF S
        <3>4. /\ IsFiniteSet(CountedDocs(e)')
              /\ Cardinality(CountedDocs(e)') <= Cardinality(CountedDocs(e) \cup {d})
            BY <3>2, <3>3, FS_Subset
        <3>5. Cardinality(CountedDocs(e)') \in Nat /\ Cardinality(CountedDocs(e) \cup {d}) \in Nat
            BY <3>3, <3>4, FS_CardinalityType
        <3> QED BY <2>1, <2>2, <2>3, <3>1, <3>3, <3>4, <3>5
    <2>5. CASE e \notin task[c].ids
        <3>1. entity'[e].count = entity[e].count
            BY <1>2, <1>4, <2>1, <2>5, Bumped DEF CountChunk
        <3>2. CountedDocs(e)' \subseteq CountedDocs(e)
            <4>1. \A n \in mentions : n[4] = e => <<n[1], n[2]>> # u
                BY <1>7, <2>5 DEF MentionedBy
            <4> HIDE DEF u
            <4> QED BY <1>3, <1>5, <1>6, <4>1 DEF CountedDocs
        <3>3. /\ IsFiniteSet(CountedDocs(e)')
              /\ Cardinality(CountedDocs(e)') <= Cardinality(CountedDocs(e))
            BY <2>2, <3>2, FS_Subset
        <3>4. Cardinality(CountedDocs(e)') \in Nat
            BY <3>3, FS_CardinalityType
        <3> QED BY <2>1, <2>2, <2>3, <3>1, <3>3, <3>4
    <2> QED BY <2>4, <2>5
<1>9. CountsAround(task[c]) => CountsAround(task[c])'
    BY <1>4, <1>8 DEF CountsAround
<1> QED BY <1>2, <1>3, <1>9, StepCounts

(* Steps of deletions and merges that leave counters and mentions, or take *)
(* away mentions that do not count.                                        *)
LEMMA AloneQuietCounts ==
    ASSUME OneAtATime, InStep, InStep', CountsInStep, NEW c \in Callers,
           \/ \E d \in DocNos : BeginDelete(c, d)
           \/ \E s, m \in Ids : BeginMerge(c, s, m)
           \/ RemoveMentions(c) \/ RemoveRow(c)
           \/ MoveAliases(c) \/ MoveEdges(c) \/ DropEntity(c)
           \/ WipeEdges(c) \/ RebuildEdges(c)
    PROVE  CountsInStep'
<1>1. TablesOK /\ task \in Calls /\ CallOK(task[c]) /\ task[c] \in CallRecords
    BY DEF InStep, Typed, Calls
<1>2. UNCHANGED <<entity, cut>> /\ alive' \subseteq alive /\ mentions' \subseteq mentions
    BY DEF BeginDelete, BeginMerge, RemoveMentions, RemoveRow, MoveAliases, MoveEdges,
           DropEntity, WipeEdges, RebuildEdges, tableVars
<1>3. CASE \/ \E d \in DocNos : BeginDelete(c, d)
           \/ \E s, m \in Ids : BeginMerge(c, s, m)
    <2>1. In(c, "idle") /\ OthersIdle(c)
        BY <1>3, Company DEF BeginDelete, BeginMerge, MayStart
    <2>2. task[c].kind = "idle"
        BY <1>1, <2>1
           DEF In, CallOK, CallRecords, CallKinds, ProcessSteps, DeleteSteps, MergeSteps
    <2>3. /\ OthersStay(c)
          /\ \/ task'[c].kind = "delete" /\ task'[c].at = "lower"
             \/ task'[c].kind = "merge" /\ task'[c].at = "move_aliases"
        BY <1>1, <1>3, DeleteStarts, MergeStarts
    <2>4. Uncounted = {} /\ Leaving = {}
        BY <2>1, <2>2, AloneCounted
    <2>5. OthersProcess(c)
        BY <2>1 DEF OthersIdle, OthersProcess
    <2> QED BY <1>2, <2>2, <2>3, <2>4, <2>5, QuietCounts
<1>4. CASE \/ RemoveMentions(c) \/ RemoveRow(c)
           \/ MoveAliases(c) \/ MoveEdges(c) \/ DropEntity(c)
           \/ WipeEdges(c) \/ RebuildEdges(c)
    <2>1. /\ task[c].at \in DeleteSteps \cup MergeSteps
          /\ task[c].at \notin {"add_count", "lower"}
        BY <1>4 DEF RemoveMentions, RemoveRow, MoveAliases, MoveEdges, DropEntity, WipeEdges,
                    RebuildEdges, In, DeleteSteps, MergeSteps
    <2>2. task[c].kind \in {"delete", "merge"} /\ OthersIdle(c) /\ OthersProcess(c)
        <3>1. task[c].kind \in {"delete", "merge"} /\ OthersIdle(c)
            BY <2>1, Alone
        <3> QED BY <3>1 DEF OthersIdle, OthersProcess
    <2>3. {"row", "wipe", "rebuild", "count_moved", "drop"} \subseteq CallPlaces
        BY DEF CallPlaces, DeleteSteps, MergeSteps
    <2>4. /\ OthersStay(c)
          /\ task'[c].at \in {"row", "wipe", "rebuild", "count_moved", "drop", "idle"}
        <3>1. CASE RemoveMentions(c) \/ RemoveRow(c) \/ MoveAliases(c) \/ MoveEdges(c)
            BY <1>1, <2>3, <3>1, GotoEffect, ReturnEffect, IdleOK
               DEF RemoveMentions, RemoveRow, MoveAliases, MoveEdges
        <3>2. CASE DropEntity(c)
            <4>1. task[c].at = "drop" /\ task[c].at \in MergeSteps \ {"wipe", "rebuild"}
                BY <3>2 DEF DropEntity, In, MergeSteps
            <4>2. task[c].kind = "merge" /\ alive \subseteq Ids
                BY <4>1, Alone
            <4>3. task[c].to \in Ids
                BY <1>1, <4>1, <4>2 DEF CallOK
            <4> QED BY <1>1, <3>2, <4>3, DropEffect
        <3>3. CASE WipeEdges(c) \/ RebuildEdges(c)
            BY <1>1, <2>3, <3>3, GotoEffect, ReturnEffect, IdleOK DEF WipeEdges, RebuildEdges
        <3> QED BY <1>4, <3>1, <3>2, <3>3
    <2>5. Uncounted = {}
        BY <2>2, AloneCounted
    <2>6. CASE Leaving = {}
        BY <1>2, <2>1, <2>2, <2>4, <2>5, <2>6, QuietCounts
    <2>7. CASE Leaving # {}
        <3>1. /\ task[c].kind = "delete" /\ task[c].at = "mentions"
              /\ Leaving = {task[c].doc}
            BY <2>2, <2>7, AloneCounted
        <3>2. RemoveMentions(c)
            BY <1>4, <3>1 DEF RemoveRow, MoveAliases, MoveEdges, DropEntity, WipeEdges,
                              RebuildEdges, In
        <3>3. mentions' = {m \in mentions : m[1] # task[c].doc} /\ UNCHANGED alive
            BY <3>2 DEF RemoveMentions
        <3>4. /\ OthersIdle(c)' /\ task'[c].at = "row" /\ Keeps(task'[c], task[c])
            BY <1>1, <2>2, <2>3, <3>2, GotoEffect
               DEF RemoveMentions, OthersIdle, OthersStay
        <3>5. Uncounted' = {} /\ Leaving' = {}
            BY <3>1, <3>4 DEF Uncounted, Leaving, OthersIdle, Keeps
        <3>6. \A e : CountedDocs(e)' = CountedDocs(e)
            BY <2>5, <3>1, <3>3, <3>5 DEF CountedDocs
        <3>7. \A e : MovedTo(task[c], e) = 0 /\ MovedTo(task'[c], e) = 0
            BY <3>1, <3>4 DEF MovedTo, Keeps
        <3>8. CountsAround(task[c]) => CountsAround(task[c])'
            BY <1>2, <3>1, <3>3, <3>4, <3>6, <3>7 DEF CountsAround, Keeps
        <3> QED BY <1>2, <2>2, <2>4, <3>8, StepCounts
    <2> QED BY <2>6, <2>7
<1> QED BY <1>3, <1>4

(* The counters go down together with a document that leaves, which is one *)
(* of the documents of each of them.                                       *)
LEMMA LowerCountsCounts ==
    ASSUME OneAtATime, InStep, InStep', CountsInStep, NEW c \in Callers, LowerCounts(c)
    PROVE  CountsInStep'
<1> DEFINE d == task[c].doc
<1>1. task[c].at = "lower" /\ task[c].at \in DeleteSteps /\ "mentions" \in CallPlaces
    BY DEF LowerCounts, In, DeleteSteps, CallPlaces
<1>2. /\ TablesOK /\ task \in Calls /\ task[c].kind = "delete" /\ OthersIdle(c)
      /\ CallOK(task[c]) /\ RecordedOnly(task[c]) /\ alive \subseteq Ids
    BY <1>1, Alone
<1>3. OthersProcess(c) /\ d \in kept
    BY <1>1, <1>2 DEF OthersIdle, OthersProcess, CallOK
<1>4. /\ OthersStay(c) /\ Keeps(task'[c], task[c]) /\ task'[c].at = "mentions"
      /\ UNCHANGED <<alive, mentions, cut>>
    BY <1>1, <1>2, <1>3, GotoEffect DEF LowerCounts
<1>5. Uncounted = {} /\ Leaving = {}
    BY <1>1, <1>2, AloneCounted
<1>6. Uncounted' = {} /\ Leaving' = {d}
    BY <1>2, <1>4 DEF OthersIdle, OthersStay, Keeps, Uncounted, Leaving
<1>7. task[c].ids = {m[4] : m \in {n \in mentions : n[1] = d}}
    BY <1>1, <1>2 DEF RecordedOnly
<1>8. \A e : CountedDocs(e)' = CountedDocs(e) \ {d}
    BY <1>4, <1>5, <1>6 DEF CountedDocs
<1>9. \A e \in task[c].ids : d \in CountedDocs(e)
    BY <1>5, <1>7 DEF CountedDocs
<1>10. ASSUME CountsAround(task[c]), NEW e \in alive'
       PROVE  (entity[e].count + MovedTo(task[c], e) >= Cardinality(CountedDocs(e)))'
    <2>1. e \in alive /\ MovedTo(task'[c], e) = 0 /\ MovedTo(task[c], e) = 0
        BY <1>2, <1>4, <1>10 DEF MovedTo, Keeps
    <2> DEFINE S == CountedDocs(e)
    <2>2. entity[e].count \in Int /\ IsFiniteSet(S) /\ Cardinality(S) \in Nat
        BY <1>2, <2>1, CountTypes, CountedFinite
    <2>3. entity[e].count >= Cardinality(S)
        BY <1>10, <2>1, <2>2 DEF CountsAround
    <2>4. S' = S \ {d}
        BY <1>8
    <2> HIDE DEF d, S
    <2>5. Cardinality(S \ {d}) = IF d \in S THEN Cardinality(S) - 1 ELSE Cardinality(S)
        BY <2>2, FS_RemoveElement
    <2>6. /\ e \in task[c].ids => entity'[e].count = entity[e].count + (-1) /\ d \in S
          /\ e \notin task[c].ids => entity'[e].count = entity[e].count
        BY <1>2, <1>9, <2>1, Bumped DEF LowerCounts, S
    <2>7. entity'[e].count >= Cardinality(S \ {d})
        BY <2>2, <2>3, <2>5, <2>6
    <2>8. entity'[e].count >= Cardinality(S)' /\ entity'[e].count \in Int
        BY <2>2, <2>4, <2>6, <2>7
    <2> QED BY <2>1, <2>8 DEF S
<1>11. CountsAround(task[c]) => CountsAround(task[c])'
    BY <1>2, <1>4, <1>10 DEF CountsAround, Keeps
<1> QED BY <1>3, <1>4, <1>11, StepCounts

(* A merge counts the mentions it is about to move. *)
LEMMA CountMovedCounts ==
    ASSUME OneAtATime, InStep, InStep', CountsInStep, NEW c \in Callers, CountMoved(c)
    PROVE  CountsInStep'
<1>1. task[c].at = "count_moved" /\ task[c].at \in MergeSteps \ {"wipe", "rebuild"}
    BY DEF CountMoved, In, MergeSteps
<1>2. TablesOK /\ task \in Calls /\ task[c].kind = "merge" /\ OthersIdle(c)
    BY <1>1, Alone
<1>3. /\ OthersStay(c) /\ Keeps(task'[c], task[c]) /\ task'[c].at = "move_mentions"
      /\ task'[c].moved = Cardinality({r \in mentions : r[4] = task[c].from})
      /\ UNCHANGED <<alive, entity, mentions, cut>>
    BY <1>2, CountMovedEffect DEF CountMoved, tableVars
<1>4. Uncounted' = Uncounted /\ Leaving' = Leaving
    BY <1>2, <1>3 DEF OthersIdle, OthersStay, Keeps, Uncounted, Leaving
<1>5. \A e : CountedDocs(e)' = CountedDocs(e)
    BY <1>3, <1>4 DEF CountedDocs
<1>6. \A e : MovedTo(task[c], e) = 0 /\ MovedTo(task'[c], e) = 0
    BY <1>1, <1>3 DEF MovedTo
<1>7. CountsAround(task[c]) => CountsAround(task[c])'
    BY <1>3, <1>5, <1>6 DEF CountsAround, Keeps
<1>8. OthersProcess(c)
    BY <1>2 DEF OthersIdle, OthersProcess
<1> QED BY <1>3, <1>7, <1>8, StepCounts

(* The documents that come with the moved mentions are at most as many as  *)
(* these.                                                                  *)
LEMMA MoveMentionsCounts ==
    ASSUME OneAtATime, InStep, InStep', CountsInStep, NEW c \in Callers, MoveMentions(c)
    PROVE  CountsInStep'
<1> DEFINE s == task[c].to  m == task[c].from
           N == {n \in mentions : n[4] = task[c].from}
           new(r) == <<r[1], r[2], r[3], s>>
<1>1. task[c].at = "move_mentions" /\ task[c].at \in MergeSteps \ {"wipe", "rebuild"}
    BY DEF MoveMentions, In, MergeSteps
<1>2. /\ TablesOK /\ task \in Calls /\ task[c] \in CallRecords
      /\ task[c].kind = "merge" /\ OthersIdle(c)
    BY <1>1, Alone
<1>3. /\ OthersStay(c) /\ Keeps(task'[c], task[c]) /\ task'[c].at = "add_count"
      /\ task'[c].moved = task[c].moved /\ UNCHANGED <<alive, entity, cut>>
    <2>1. "add_count" \in CallPlaces
        BY DEF CallPlaces, MergeSteps
    <2> QED BY <1>2, <2>1, GotoEffect DEF MoveMentions
<1>4. mentions' = {IF r[4] = m THEN new(r) ELSE r : r \in mentions}
    BY DEF MoveMentions
<1>5. Uncounted = {} /\ Leaving = {} /\ Uncounted' = {} /\ Leaving' = {}
    BY <1>1, <1>2, <1>3 DEF OthersIdle, OthersStay, Keeps, Uncounted, Leaving
<1>6. \A r : new(r)[4] = s /\ new(r)[1] = r[1]
    OBVIOUS
<1>7. \A e : CountedDocs(e)' \subseteq IF e = s THEN CountedDocs(e) \cup CountedDocs(m)
                                                ELSE CountedDocs(e)
    <2> HIDE DEF new, s, m
    <2>1. ASSUME NEW e, NEW n \in mentions', n[4] = e
          PROVE  n[1] \in IF e = s THEN CountedDocs(e) \cup CountedDocs(m) ELSE CountedDocs(e)
        <3>1. PICK r \in mentions : n = IF r[4] = m THEN new(r) ELSE r
            BY <1>4
        <3>2. CASE r[4] = m
            <4>1. n[1] = r[1] /\ e = s
                BY <1>6, <2>1, <3>1, <3>2
            <4>2. r[1] \in CountedDocs(m)
                BY <1>5, <3>2 DEF CountedDocs
            <4> QED BY <4>1, <4>2
        <3>3. CASE r[4] # m
            <4>1. n = r
                BY <3>1, <3>3
            <4>2. n[1] \in CountedDocs(e)
                BY <1>5, <2>1, <4>1 DEF CountedDocs
            <4> QED BY <4>2
        <3> QED BY <3>2, <3>3
    <2>2. \A e : CountedDocs(e)' = {n[1] : n \in {k \in mentions' : k[4] = e}}
        BY <1>5 DEF CountedDocs
    <2> QED BY <2>1, <2>2
<1>8. Cardinality(CountedDocs(m)) <= Cardinality(N) /\ Cardinality(N) \in Nat
    <2> DEFINE f == [n \in N |-> n[1]]
    <2>1. IsFiniteSet(N)
        BY <1>2, FS_Subset DEF TablesOK
    <2>2. f \in Surjection(N, CountedDocs(m))
        BY <1>5 DEF Surjection, CountedDocs
    <2> HIDE DEF N, f
    <2> QED BY <2>1, <2>2, FS_Surjection, FS_CardinalityType
<1>9. ASSUME CountsAround(task[c]), NEW e \in alive'
      PROVE  (entity[e].count + MovedTo(task[c], e) >= Cardinality(CountedDocs(e)))'
    <2> DEFINE S == CountedDocs(e)  T == CountedDocs(m)
    <2>1. /\ e \in alive /\ MovedTo(task[c], e) = 0
          /\ MovedTo(task'[c], e) = IF e = s THEN task[c].moved ELSE 0
        BY <1>1, <1>2, <1>3, <1>9 DEF MovedTo, Keeps
    <2>2. task[c].moved = Cardinality(N) /\ entity[e].count >= Cardinality(S)
        <3>1. entity[e].count + MovedTo(task[c], e) >= Cardinality(S)
            BY <1>9, <2>1 DEF CountsAround
        <3>2. entity[e].count \in Int /\ Cardinality(S) \in Nat
            BY <1>2, <2>1, CountTypes, CountedFinite
        <3>3. task[c].moved = Cardinality(N)
            BY <1>1, <1>2, <1>9 DEF CountsAround
        <3> QED BY <2>1, <3>1, <3>2, <3>3
    <2>3. /\ entity[e].count \in Int /\ entity'[e].count = entity[e].count
          /\ IsFiniteSet(S) /\ Cardinality(S) \in Nat
          /\ IsFiniteSet(T) /\ Cardinality(T) \in Nat
        BY <1>2, <1>3, <2>1, CountTypes, CountedFinite
    <2>4. CASE e = s
        <3>1. S' \subseteq S \cup T
            BY <1>7, <2>4
        <3> HIDE DEF S, T, N
        <3>2. /\ IsFiniteSet(S \cup T)
              /\ Cardinality(S \cup T) <= Cardinality(S) + Cardinality(T)
            <4>1. Cardinality(S \cap T) \in Nat
                BY <2>3, FS_Intersection, FS_CardinalityType
            <4>2. /\ IsFiniteSet(S \cup T)
                  /\ Cardinality(S \cup T) =
                        Cardinality(S) + Cardinality(T) - Cardinality(S \cap T)
                BY <2>3, FS_Union
            <4> QED BY <2>3, <4>1, <4>2
        <3>3. IsFiniteSet(S') /\ Cardinality(S') <= Cardinality(S \cup T)
            BY <3>1, <3>2, FS_Subset
        <3>4. Cardinality(S') \in Nat /\ Cardinality(S \cup T) \in Nat
            BY <3>2, <3>3, FS_CardinalityType
        <3>5. Cardinality(T) <= Cardinality(N) /\ Cardinality(N) \in Nat
            BY <1>8 DEF T
        <3>6. entity'[e].count + MovedTo(task'[c], e) >= Cardinality(S')
            BY <2>1, <2>2, <2>3, <2>4, <3>2, <3>3, <3>4, <3>5
        <3> QED BY <3>6 DEF S
    <2>5. CASE e # s
        <3>1. S' \subseteq S
            BY <1>7, <2>5
        <3> HIDE DEF S
        <3>2. IsFiniteSet(S') /\ Cardinality(S') <= Cardinality(S)
            BY <2>3, <3>1, FS_Subset
        <3>3. Cardinality(S') \in Nat
            BY <3>2, FS_CardinalityType
        <3>4. entity'[e].count + MovedTo(task'[c], e) >= Cardinality(S')
            BY <2>1, <2>2, <2>3, <2>5, <3>2, <3>3
        <3> QED BY <3>4 DEF S
    <2> QED BY <2>4, <2>5
<1>10. CountsAround(task[c]) => CountsAround(task[c])'
    BY <1>3, <1>9 DEF CountsAround
<1>11. OthersProcess(c)
    BY <1>2 DEF OthersIdle, OthersProcess
<1> QED BY <1>3, <1>10, <1>11, StepCounts

(* What was moved is added to the counter of the entity that stays.        *)
LEMMA AddCountCounts ==
    ASSUME OneAtATime, InStep, InStep', CountsInStep, NEW c \in Callers, AddCount(c)
    PROVE  CountsInStep'
<1> DEFINE s == task[c].to  n == task[c].moved
<1>1. task[c].at = "add_count" /\ task[c].at \in MergeSteps \ {"wipe", "rebuild"}
    BY DEF AddCount, In, MergeSteps
<1>2. /\ TablesOK /\ task \in Calls /\ task[c] \in CallRecords
      /\ task[c].kind = "merge" /\ OthersIdle(c) /\ alive \subseteq Ids
    BY <1>1, Alone
<1>3. /\ OthersStay(c) /\ Keeps(task'[c], task[c]) /\ task'[c].at = "move_edges"
      /\ UNCHANGED <<alive, mentions, cut>>
    <2>1. "move_edges" \in CallPlaces
        BY DEF CallPlaces, MergeSteps
    <2> QED BY <1>2, <2>1, GotoEffect DEF AddCount
<1>4. Uncounted' = Uncounted /\ Leaving' = Leaving
    BY <1>1, <1>2, <1>3 DEF OthersIdle, OthersStay, Keeps, Uncounted, Leaving
<1>5. \A e : CountedDocs(e)' = CountedDocs(e)
    BY <1>3, <1>4 DEF CountedDocs
<1>6. n \in Int
    BY <1>2 DEF CallRecords
<1>7. ASSUME CountsAround(task[c]), NEW e \in alive'
      PROVE  (entity[e].count + MovedTo(task[c], e) >= Cardinality(CountedDocs(e)))'
    <2>1. /\ e \in alive /\ MovedTo(task'[c], e) = 0
          /\ MovedTo(task[c], e) = IF e = s THEN n ELSE 0
        BY <1>1, <1>2, <1>3, <1>7 DEF MovedTo
    <2>2. entity[e].count + MovedTo(task[c], e) >= Cardinality(CountedDocs(e))
        BY <1>7, <2>1 DEF CountsAround
    <2>3. entity[e].count \in Int
        BY <2>1, CountTypes
    <2>4. entity'[e].count = IF e = s THEN entity[e].count + n ELSE entity[e].count
        BY <1>2, <1>6, <2>1, Bumped DEF AddCount
    <2>5. entity'[e].count + MovedTo(task'[c], e) = entity[e].count + MovedTo(task[c], e)
        BY <1>6, <2>1, <2>3, <2>4
    <2> QED BY <1>5, <2>2, <2>5
<1>8. CountsAround(task[c]) => CountsAround(task[c])'
    BY <1>3, <1>7 DEF CountsAround
<1>9. OthersProcess(c)
    BY <1>2 DEF OthersIdle, OthersProcess
<1> QED BY <1>3, <1>8, <1>9, StepCounts

(* Nothing of what the counters depend on changes. *)
LEMMA SameCounts ==
    ASSUME CountsInStep, UNCHANGED <<mentions, alive, entity, task, cut>>
    PROVE  CountsInStep'
<1>1. \A e : CountedDocs(e)' = CountedDocs(e)
    BY DEF CountedDocs, Uncounted, Leaving
<1> QED BY <1>1 DEF CountsInStep, MovedTo

(* Every step keeps the counters in step with the mentions. *)
LEMMA CountsKept ==
    OneAtATime /\ InStep /\ InStep' /\ CountsInStep /\ [GraphNext]_gvars => CountsInStep'
<1> SUFFICES ASSUME OneAtATime, InStep, InStep', CountsInStep, [GraphNext]_gvars
             PROVE  CountsInStep'
    OBVIOUS
<1>1. CASE UNCHANGED gvars
    BY <1>1, SameCounts DEF gvars, tableVars
<1>2. ASSUME NEW c \in Callers, NEW d \in DocNos, BeginProcess(c, d) \/ BeginDelete(c, d)
      PROVE  CountsInStep'
    BY <1>2, ProcessCounts, AloneQuietCounts
<1>3. ASSUME NEW c \in Callers, NEW s \in Ids, NEW m \in Ids, BeginMerge(c, s, m)
      PROVE  CountsInStep'
    BY <1>3, AloneQuietCounts
<1>4. ASSUME NEW c \in Callers, ProcessGoesOn(c) \/ DeleteGoesOn(c)
      PROVE  CountsInStep'
    BY <1>4, ProcessCounts, RecordCounts, CountChunkCounts, LowerCountsCounts,
       AloneQuietCounts DEF ProcessGoesOn, DeleteGoesOn
<1>5. ASSUME NEW c \in Callers, MergeGoesOn(c) \/ WipeEdges(c) \/ RebuildEdges(c)
      PROVE  CountsInStep'
    BY <1>5, CountMovedCounts, MoveMentionsCounts, AddCountCounts, AloneQuietCounts
       DEF MergeGoesOn
<1>6. ASSUME NEW c \in Callers, CutShort(c)
      PROVE  CountsInStep'
    BY <1>6 DEF CutShort, CountsInStep
<1>7. ASSUME NEW e \in Ids, NEW x \in ExtraAliases, AddAlias(e, x)
      PROVE  CountsInStep'
    BY <1>7, SameCounts DEF AddAlias
<1> QED BY <1>1, <1>2, <1>3, <1>4, <1>5, <1>6, <1>7 DEF GraphNext

(* In quiet every document counts and nothing is owed. *)
LEMMA CountsInQuiet == InStep /\ CountsInStep => CountCoversDocuments
<1> SUFFICES ASSUME InStep, CountsInStep, Quiet, NEW e \in alive
             PROVE  entity[e].count >= Cardinality(DocsOf(e))
    BY DEF CountCoversDocuments
<1>1. \A c \in Callers : task[c].kind = "idle"
    BY DEF InStep, Typed, CallOK, CallRecords, CallKinds, Quiet, In, ProcessSteps,
           DeleteSteps, MergeSteps
<1>2. Uncounted = {} /\ Leaving = {}
    BY <1>1 DEF Uncounted, Leaving
<1>3. CountedDocs(e) = DocsOf(e)
    BY <1>2 DEF CountedDocs, DocsOf
<1>4. PICK c \in Callers : entity[e].count + MovedTo(task[c], e) >= Cardinality(CountedDocs(e))
    BY DEF CountsInStep, Quiet
<1>5. entity[e].count \in Int /\ MovedTo(task[c], e) = 0
    BY <1>1, CountTypes DEF MovedTo
<1> QED BY <1>3, <1>4, <1>5

(* In quiet no counter is below the number of documents that mention the   *)
(* entity.                                                                 *)
THEOREM CountsCoverDocuments == ASSUME OneAtATime PROVE GraphSpec => []CountCoversDocuments
<1>1. GraphInit => CountsInStep
    BY DEF GraphInit, CountsInStep, Free
<1>2. GraphSpec => []CountsInStep
    BY <1>1, CountsKept, GraphInStep, PTL DEF GraphSpec
<1> QED BY <1>2, GraphInStep, CountsInQuiet, PTL

-----------------------------------------------------------------------------
(* Names. *)

Unmerged == \A c \in Callers : task[c].kind # "merge"

OneEntityPerKey ==
    \A a, b \in alive : entity[a].key = entity[b].key => a = b

(* A mention is of the entity that has the key of its surface, or has the  *)
(* surface as an alias.                                                    *)
MentionsNamed ==
    \A m \in mentions :
        LET x == Docs[m[1]][m[2]][m[3]] IN
        entity[m[4]].key = Key[x] \/ <<m[4], x>> \in aliases

NamesInStep ==
    merges \in Nat /\ (merges = 0 => Unmerged /\ OneEntityPerKey /\ MentionsNamed)

(* Keys and aliases stay, and there is no new mention. *)
LEMMA NamesStay ==
    ASSUME TablesOK, NamesInStep, UNCHANGED <<alive, merges>>,
           \A e \in alive : entity'[e].key = entity[e].key,
           aliases \subseteq aliases', mentions' \subseteq mentions,
           merges = 0 => Unmerged'
    PROVE  NamesInStep'
<1>1. \A m \in mentions : m[4] \in alive
    BY DEF TablesOK
<1> QED BY <1>1 DEF NamesInStep, OneEntityPerKey, MentionsNamed

(* A step of a call that is no merge leaves none. *)
LEMMA StaysUnmerged ==
    ASSUME NEW c \in Callers, OthersStay(c), Unmerged, task'[c].kind # "merge"
    PROVE  Unmerged'
BY DEF Unmerged, OthersStay

(* Calls that begin. *)
LEMMA StartNames ==
    ASSUME InStep, NamesInStep, NEW c \in Callers,
           \/ \E d \in DocNos : BeginProcess(c, d) \/ BeginDelete(c, d)
           \/ \E s, m \in Ids : BeginMerge(c, s, m)
    PROVE  NamesInStep'
<1>1. TablesOK /\ task \in Calls
    BY DEF InStep, Typed, Calls
<1>2. CASE \E d \in DocNos : BeginProcess(c, d) \/ BeginDelete(c, d)
    <2>1. UNCHANGED <<alive, merges, entity, aliases, mentions>>
        BY <1>2 DEF BeginProcess, BeginDelete, tableVars
    <2>2. OthersStay(c) /\ task'[c].kind # "merge"
        BY <1>1, <1>2, ProcessStarts, DeleteStarts
    <2>3. merges = 0 => Unmerged'
        BY <2>2, StaysUnmerged DEF NamesInStep
    <2> QED BY <1>1, <2>1, <2>3, NamesStay
<1>3. CASE \E s, m \in Ids : BeginMerge(c, s, m)
    <2>1. merges' = merges + 1
        BY <1>3 DEF BeginMerge
    <2> QED BY <2>1 DEF NamesInStep
<1> QED BY <1>2, <1>3

(* A new mention is of an entity that has the name. *)
LEMMA RecordNames ==
    ASSUME OneAtATime, InStep, NamesInStep, NEW c \in Callers, RecordKnown(c) \/ RecordNew(c)
    PROVE  NamesInStep'
<1> DEFINE x == Surface(c)
           same == {e \in alive : entity[e].key = Key[Surface(c)]}
<1>1. /\ task[c].at = "record" /\ task[c].at \in ProcessSteps
      /\ UNCHANGED merges
    BY DEF RecordKnown, RecordNew, In, ProcessSteps
<1>2. TablesOK /\ task \in Calls /\ task[c].kind = "process" /\ CallOK(task[c])
    BY <1>1, Processing
<1>3. alive \subseteq Ids /\ last \in Nat /\ entity \in [Ids -> EntityRecords]
    BY <1>2, GraphAssumption DEF TablesOK, Ids
<1>4. \A m \in mentions : m[4] \in alive
    BY <1>2 DEF TablesOK
<1>5. ASSUME NEW e \in Ids, insert_mention(c, e), merges = 0
      PROVE  /\ Unmerged'
             /\ \A m \in mentions' : \/ m \in mentions
                                     \/ m[4] = e /\ Docs[m[1]][m[2]][m[3]] = x
    <2>1. OthersStay(c) /\ task'[c].kind # "merge"
        BY <1>2, <1>5, MentionEffect DEF Keeps
    <2>2. Unmerged'
        BY <1>5, <2>1, StaysUnmerged DEF NamesInStep
    <2>3. \A m \in mentions' : \/ m \in mentions
                               \/ m = <<task[c].doc, task[c].chunk, task[c].place, e>>
        BY <1>5 DEF insert_mention
    <2>4. ASSUME NEW m, m = <<task[c].doc, task[c].chunk, task[c].place, e>>
          PROVE  m[4] = e /\ Docs[m[1]][m[2]][m[3]] = x
        BY <2>4 DEF Surface, Chunk
    <2> QED BY <2>2, <2>3, <2>4
<1> HIDE DEF x
<1>6. CASE RecordKnown(c)
    <2> DEFINE e == task[c].found
    <2>1. e \in alive
        BY <1>1, <1>2, <1>6 DEF RecordKnown, CallOK
    <2>2. /\ insert_mention(c, e) /\ aliases' = aliases \cup {<<e, x>>}
          /\ UNCHANGED <<alive, entity>>
        BY <1>6, <2>1 DEF RecordKnown, x
    <2> HIDE DEF e
    <2>3. ASSUME merges = 0
          PROVE  OneEntityPerKey' /\ MentionsNamed'
        <3>1. OneEntityPerKey /\ MentionsNamed
            BY <2>3 DEF NamesInStep
        <3>2. \A m \in mentions' : \/ m \in mentions
                                   \/ m[4] = e /\ Docs[m[1]][m[2]][m[3]] = x
            BY <1>3, <1>5, <2>1, <2>2, <2>3
        <3> QED BY <2>2, <3>1, <3>2 DEF OneEntityPerKey, MentionsNamed
    <2>4. merges = 0 => Unmerged'
        BY <1>3, <1>5, <2>1, <2>2
    <2> QED BY <1>1, <2>3, <2>4 DEF NamesInStep
<1>7. CASE RecordNew(c) /\ same # {}
    <2> DEFINE e == CHOOSE i \in same : TRUE
    <2>1. e \in alive /\ entity[e].key = Key[x]
        BY <1>7 DEF x
    <2>2. insert_mention(c, e) /\ UNCHANGED <<alive, aliases>>
        BY <1>7 DEF RecordNew
    <2> HIDE DEF e
    <2>3. PICK name : entity' = [i \in Ids |->
                      IF i \in same THEN [entity[i] EXCEPT !.name = name] ELSE entity[i]]
        BY <1>7 DEF RecordNew
    <2>4. ASSUME NEW a \in alive
          PROVE  entity'[a].key = entity[a].key
        <3>1. a \in Ids /\ entity[a] \in EntityRecords
            BY <1>3
        <3>2. [entity[a] EXCEPT !.name = name].key = entity[a].key
            BY <3>1 DEF EntityRecords
        <3> HIDE DEF same
        <3> QED BY <2>3, <3>1, <3>2
    <2>5. ASSUME merges = 0
          PROVE  OneEntityPerKey' /\ MentionsNamed'
        <3>1. OneEntityPerKey /\ MentionsNamed
            BY <2>5 DEF NamesInStep
        <3>2. \A m \in mentions' : \/ m \in mentions
                                   \/ m[4] = e /\ Docs[m[1]][m[2]][m[3]] = x
            BY <1>3, <1>5, <2>1, <2>2, <2>5
        <3> QED BY <1>4, <2>1, <2>2, <2>4, <3>1, <3>2 DEF OneEntityPerKey, MentionsNamed
    <2>6. merges = 0 => Unmerged'
        BY <1>3, <1>5, <2>1, <2>2
    <2> QED BY <1>1, <2>5, <2>6 DEF NamesInStep
<1>8. CASE RecordNew(c) /\ same = {}
    <2> DEFINE r == [key |-> Key[x], name |-> x, type |-> Type[x], count |-> 0]
    <2>1. /\ insert_mention(c, last + 1) /\ last + 1 \in Ids
          /\ alive' = alive \cup {last + 1} /\ aliases' = aliases
          /\ entity' = [entity EXCEPT ![last + 1] = r]
        BY <1>3, <1>8, GraphAssumption DEF RecordNew, Ids, x
    <2>2. r.key = Key[x] /\ last + 1 \notin alive
        BY <1>2, <1>3 DEF TablesOK
    <2> HIDE DEF r
    <2>3. \A a \in alive : entity[a].key # Key[x]
        BY <1>8 DEF x
    <2>4. /\ entity'[last + 1].key = Key[x]
          /\ \A a \in alive : entity'[a].key = entity[a].key
        BY <1>3, <2>1, <2>2
    <2>5. ASSUME merges = 0
          PROVE  OneEntityPerKey' /\ MentionsNamed'
        <3>1. OneEntityPerKey /\ MentionsNamed
            BY <2>5 DEF NamesInStep
        <3>2. \A m \in mentions' : \/ m \in mentions
                                   \/ m[4] = last + 1 /\ Docs[m[1]][m[2]][m[3]] = x
            BY <1>5, <2>1, <2>5
        <3>3. OneEntityPerKey'
            BY <2>1, <2>3, <2>4, <3>1 DEF OneEntityPerKey
        <3>4. MentionsNamed'
            BY <1>4, <2>1, <2>4, <3>1, <3>2 DEF MentionsNamed
        <3> QED BY <3>3, <3>4
    <2>6. merges = 0 => Unmerged'
        BY <1>5, <2>1
    <2> QED BY <1>1, <2>5, <2>6 DEF NamesInStep
<1> QED BY <1>6, <1>7, <1>8

(* The other steps name nothing anew; those of merges come after a merge   *)
(* began.                                                                  *)
LEMMA OtherNames ==
    ASSUME OneAtATime, InStep, NamesInStep, NEW c \in Callers,
           \/ Resolve(c) \/ CountChunk(c) \/ LinkChunk(c) \/ DeleteGoesOn(c) \/ MergeGoesOn(c)
           \/ WipeEdges(c) \/ RebuildEdges(c) \/ CutShort(c)
    PROVE  NamesInStep'
<1>1. TablesOK /\ task \in Calls /\ alive \subseteq Ids
    BY GraphAssumption DEF InStep, Typed, Calls, TablesOK, Ids
<1>2. UNCHANGED merges
    BY DEF Resolve, CountChunk, LinkChunk, DeleteGoesOn, LowerCounts, RemoveMentions, RemoveRow,
           MergeGoesOn, MoveAliases, CountMoved, MoveMentions, AddCount, MoveEdges, DropEntity,
           WipeEdges, RebuildEdges, CutShort, tableVars
<1>3. CASE merges # 0
    BY <1>2, <1>3 DEF NamesInStep
<1>4. CASE merges = 0
    <2>1. ~MergeGoesOn(c)
        <3>1. MergeGoesOn(c) => task[c].at \in MergeSteps \ {"wipe", "rebuild"}
            BY DEF MergeGoesOn, MoveAliases, CountMoved, MoveMentions, AddCount, MoveEdges,
                   DropEntity, In, MergeSteps
        <3>2. MergeGoesOn(c) => task[c].kind = "merge"
            BY <3>1, Alone
        <3> QED BY <1>4, <3>2 DEF NamesInStep, Unmerged
    <2>2. UNCHANGED <<alive, aliases>> /\ mentions' \subseteq mentions
        BY <2>1 DEF Resolve, CountChunk, LinkChunk, DeleteGoesOn, LowerCounts, RemoveMentions,
                    RemoveRow, WipeEdges, RebuildEdges, CutShort, tableVars
    <2>3. \A e \in alive : entity'[e].key = entity[e].key
        <3>1. CASE CountChunk(c) \/ LowerCounts(c)
            BY <1>1, <3>1, Bumped DEF CountChunk, LowerCounts
        <3>2. CASE ~(CountChunk(c) \/ LowerCounts(c))
            BY <2>1, <3>2 DEF Resolve, LinkChunk, DeleteGoesOn, RemoveMentions, RemoveRow,
                              WipeEdges, RebuildEdges, CutShort, tableVars
        <3> QED BY <3>1, <3>2
    <2>4. OthersStay(c) /\ task'[c].kind # "merge"
        <3>1. task[c].kind # "merge"
            BY <1>4 DEF NamesInStep, Unmerged
        <3>2. {"link", "mentions", "row", "wipe", "rebuild"} \subseteq CallPlaces
            BY DEF CallPlaces, DeleteSteps, ProcessSteps
        <3>3. CASE Resolve(c) \/ LinkChunk(c)
            BY <1>1, <3>1, <3>3, ResolveEffect, LinkEffect, IdleOK DEF Keeps
        <3>4. CASE CountChunk(c) \/ DeleteGoesOn(c) \/ WipeEdges(c) \/ RebuildEdges(c) \/ CutShort(c)
            BY <1>1, <3>1, <3>2, <3>4, GotoEffect, ReturnEffect, IdleOK
               DEF Keeps, CountChunk, DeleteGoesOn, LowerCounts, RemoveMentions, RemoveRow,
                   WipeEdges, RebuildEdges, CutShort
        <3> QED BY <2>1, <3>3, <3>4
    <2>5. Unmerged'
        BY <1>4, <2>4, StaysUnmerged DEF NamesInStep
    <2> QED BY <1>1, <1>2, <2>2, <2>3, <2>5, NamesStay
<1> QED BY <1>3, <1>4

(* Every step keeps the names. *)
LEMMA NamesKept == OneAtATime /\ InStep /\ NamesInStep /\ [GraphNext]_gvars => NamesInStep'
<1> SUFFICES ASSUME OneAtATime, InStep, NamesInStep, [GraphNext]_gvars PROVE NamesInStep'
    OBVIOUS
<1>1. CASE UNCHANGED gvars
    BY <1>1 DEF gvars, tableVars, NamesInStep, Unmerged, OneEntityPerKey, MentionsNamed
<1>2. ASSUME NEW c \in Callers,
             \/ \E d \in DocNos : BeginProcess(c, d) \/ BeginDelete(c, d)
             \/ \E s, m \in Ids : BeginMerge(c, s, m)
      PROVE  NamesInStep'
    BY <1>2, StartNames
<1>3. ASSUME NEW c \in Callers,
             \/ ProcessGoesOn(c) \/ DeleteGoesOn(c) \/ MergeGoesOn(c)
             \/ WipeEdges(c) \/ RebuildEdges(c) \/ CutShort(c)
      PROVE  NamesInStep'
    BY <1>3, RecordNames, OtherNames DEF ProcessGoesOn
<1>4. ASSUME NEW e \in Ids, NEW x \in ExtraAliases, AddAlias(e, x)
      PROVE  NamesInStep'
    BY <1>4 DEF AddAlias, NamesInStep, Unmerged, OneEntityPerKey, MentionsNamed
<1> QED BY <1>1, <1>2, <1>3, <1>4 DEF GraphNext

(* An entity that has the name of a mention, and alone, is what it         *)
(* resolves to.                                                            *)
LEMMA NamesResolve == TablesOK /\ NamesInStep => ResolutionStable
<1> SUFFICES ASSUME TablesOK, NamesInStep, merges = 0, NEW m \in mentions
             PROVE  LET x == Docs[m[1]][m[2]][m[3]] IN
                    \/ resolve_candidate(x) = {m[4]}
                    \/ entity[m[4]].key # Key[x] /\ \E o \in alive \ {m[4]} : Named(o, x)
    BY DEF ResolutionStable
<1> DEFINE x == Docs[m[1]][m[2]][m[3]]  e == m[4]
           byKey == {i \in alive : entity[i].key = Key[x]}
           byAlias == {r[1] : r \in {a \in aliases : a[2] \in Plain /\ Key[a[2]] = Key[x]}}
           bySurface == {r[1] : r \in {a \in aliases : a[2] = x}}
<1>1. /\ e \in alive /\ OneEntityPerKey
      /\ entity[e].key = Key[x] \/ <<e, x>> \in aliases
    BY DEF TablesOK, NamesInStep, MentionsNamed
<1>2. \A a \in aliases : a[1] \in alive
    BY DEF TablesOK
<1> HIDE DEF x, e
<1>3. CASE entity[e].key = Key[x]
    <2>1. byKey = {e}
        BY <1>1, <1>3 DEF OneEntityPerKey
    <2>2. resolve_candidate(x) = {e}
        BY <2>1 DEF resolve_candidate, resolve_surface
    <2> QED BY <2>2 DEF x, e
<1>4. CASE entity[e].key # Key[x] /\ ~\E o \in alive \ {e} : Named(o, x)
    <2>1. byKey = {}
        BY <1>4 DEF Named
    <2>2. byAlias \subseteq {e} /\ bySurface = {e}
        <3>1. \A a \in aliases : a[2] = x \/ (a[2] \in Plain /\ Key[a[2]] = Key[x]) => a[1] = e
            BY <1>2, <1>4 DEF Named
        <3>2. e \in bySurface
            <4>1. <<e, x>> \in aliases
                BY <1>1, <1>4
            <4>2. ASSUME NEW y, y = <<e, x>>
                  PROVE  y[1] = e /\ y[2] = x
                BY <4>2
            <4> QED BY <4>1, <4>2
        <3> QED BY <3>1, <3>2
    <2>3. resolve_candidate(x) = {e}
        BY <2>1, <2>2 DEF resolve_candidate, resolve_surface
    <2> QED BY <2>3 DEF x, e
<1> QED BY <1>3, <1>4 DEF x, e

(* A surface that has the key of the entity it was recorded for resolves   *)
(* to it ever after, and one that is an alias does so unless another       *)
(* entity got the name.                                                    *)
THEOREM ResolutionIsStable == ASSUME OneAtATime PROVE GraphSpec => []ResolutionStable
<1>1. GraphInit => NamesInStep
    BY IdleOK DEF GraphInit, NamesInStep, Unmerged, OneEntityPerKey, MentionsNamed
<1>2. GraphSpec => []NamesInStep
    BY <1>1, NamesKept, GraphInStep, PTL DEF GraphSpec
<1>3. InStep => TablesOK
    BY DEF InStep, Typed
<1> QED BY <1>2, <1>3, GraphInStep, NamesResolve, PTL
=============================================================================
