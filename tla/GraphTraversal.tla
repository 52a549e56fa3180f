---------------------------- MODULE GraphTraversal ----------------------------
(***************************************************************************)
(* traverse: a breadth-first walk over the relationships of an entity, one *)
(* SELECT per entity of the frontier.  Which of several edges of the same  *)
(* weight a SELECT returns first is up to SQLite.                          *)
(***************************************************************************)
EXTENDS Lists

CONSTANTS
    Entities,   \* the ids, of which the walk starts at the smallest
    MaxWeight,  \* bound on the weight of an edge
    Depths,     \* the arguments `depth` ...
    Limits      \* ... and `limit` of the calls

ASSUME WalkAssumption ==
    /\ Entities \subseteq Nat /\ Entities # {} /\ IsFiniteSet(Entities)
    /\ MaxWeight \in Nat /\ Depths \subseteq Int /\ Limits \subseteq Nat

Edges == {e \in Entities \X Entities : e[1] < e[2]}
Start == CHOOSE e \in Entities : \A f \in Entities : e <= f

VARIABLES
    edge,        \* edge[e]: the weight of edge e, 0 if there is none
    depth,       \* the levels still to do
    limit,
    visited,
    frontier,    \* the entities whose neighbours are still to be read
    next_level,  \* what this level has found: <<entity, edge>>
    levels,
    walk         \* "ready", "running" or "done"

walkVars == <<edge, depth, limit, visited, frontier, next_level, levels, walk>>

WalkInit ==
    /\ edge = [e \in Edges |-> 0]
    /\ depth = 0 /\ limit = 0
    /\ visited = {Start} /\ frontier = <<Start>>
    /\ next_level = <<>> /\ levels = <<>>
    /\ walk = "ready"

(* The graph is any graph, the call any call; the depth is clamped to 1..3. *)
traverse ==
    /\ walk = "ready"
    /\ walk' = "running"
    /\ edge' \in [Edges -> 0..MaxWeight]
    /\ \E d \in Depths : depth' = IF d < 1 THEN 1 ELSE IF d > 3 THEN 3 ELSE d
    /\ limit' \in Limits
    /\ UNCHANGED <<visited, frontier, next_level, levels>>

Other(e, n) == IF e[1] = n THEN e[2] ELSE e[1]
Incident(n) == {e \in Edges : edge[e] > 0 /\ n \in {e[1], e[2]}}

(* neighbors: the lists ORDER BY weight DESC LIMIT may return. *)
neighbors(n) ==
    LET full == {s \in SetToSeqs(Incident(n)) :
                    \A i, j \in 1..Len(s) : i < j => edge[s[i]] >= edge[s[j]]}
    IN  {Truncate(s, limit) : s \in full}

(* The entities a list of edges leads to from n that were not visited      *)
(* before, each with its edge.                                             *)
Discovered(list, n) ==
    LET new == Retain(list, {k \in 1..Len(list) : Other(list[k], n) \notin visited})
    IN  [i \in 1..Len(new) |-> <<Other(new[i], n), new[i]>>]

(* Mutant: visited is updated when the level ends, not at each entity. *)
ExpandUnmarked ==
    /\ walk = "running" /\ frontier # <<>>
    /\ \E list \in neighbors(Head(frontier)) :
          LET found == Discovered(list, Head(frontier)) IN
          /\ next_level' = next_level \o found
          /\ visited' = IF Len(frontier) > 1 THEN visited
                        ELSE visited \cup {f[1] : f \in ToSet(next_level')}
    /\ frontier' = Tail(frontier)
    /\ UNCHANGED <<edge, depth, limit, levels, walk>>

(* The neighbours of one entity. *)
Expand ==
    /\ walk = "running" /\ frontier # <<>>
    /\ \E list \in neighbors(Head(frontier)) :
          LET found == Discovered(list, Head(frontier)) IN
          /\ next_level' = next_level \o found
          /\ visited' = visited \cup {f[1] : f \in ToSet(found)}
    /\ frontier' = Tail(frontier)
    /\ UNCHANGED <<edge, depth, limit, levels, walk>>

(* A level that found nothing ends the walk; otherwise its entities, by id, *)
(* are the next frontier.                                                  *)
EndLevel ==
    /\ walk = "running" /\ frontier = <<>>
    /\ IF next_level = <<>>
       THEN walk' = "done" /\ UNCHANGED <<depth, frontier, levels>>
       ELSE /\ levels' = Append(levels, next_level)
            /\ frontier' = Listing({f[1] : f \in ToSet(next_level)}, Ascending)
            /\ depth' = depth - 1
            /\ walk' = IF depth = 1 THEN "done" ELSE "running"
    /\ next_level' = <<>>
    /\ UNCHANGED <<edge, limit, visited>>

WalkNext == traverse \/ Expand \/ EndLevel

WalkSpec == WalkInit /\ [][WalkNext]_walkVars

-----------------------------------------------------------------------------
(* Properties. *)

Found(k) == IF k = 0 THEN {Start} ELSE {f[1] : f \in ToSet(levels[k])}

Neighbours(S) == {e \in Entities : \E i \in Edges : edge[i] > 0 /\ \E n \in S : {e, n} = {i[1], i[2]}}

(* The entities at most k edges away from the start: at the end of a path. *)
Within(k) ==
    {p[k] : p \in {q \in [0..k -> Entities] :
                      /\ q[0] = Start
                      /\ \A i \in 1..k : q[i] = q[i - 1] \/ q[i] \in Neighbours({q[i - 1]})}}

(* What was visited is what the levels list, and no entity is listed twice. *)
FoundOnce ==
    /\ visited = UNION {Found(k) : k \in 0..Len(levels)}
    /\ \A k \in 1..Len(levels) : \A i \in 1..Len(levels[k]) :
           /\ levels[k][i][1] # Start
           /\ \A l \in 1..Len(levels) : \A j \in 1..Len(levels[l]) :
                  levels[k][i][1] = levels[l][j][1] => k = l /\ i = j

(* Each edge leads from the level before to the entity it is listed with.  *)
EdgesLead ==
    \A k \in 1..Len(levels) : \A f \in ToSet(levels[k]) :
        edge[f[2]] > 0 /\ f[1] \in {f[2][1], f[2][2]} /\ Other(f[2], f[1]) \in Found(k - 1)

LevelsBounded ==
    \A k \in 1..Len(levels) : Len(levels[k]) <= limit * Cardinality(Found(k - 1))

(* Where the limit cuts nothing off, the levels are the distances. *)
LevelsAreDistances ==
    (\A n \in Entities : Cardinality(Incident(n)) <= limit) =>
        \A k \in 1..Len(levels) : Found(k) = Within(k) \ Within(k - 1)

(* A finished traversal visits an entity once, under an edge that is there *)
(* and at the level of its distance, and no entity brings more neighbours  *)
(* than the limit.                                                         *)
TraversalSound ==
    walk = "done" => FoundOnce /\ EdgesLead /\ LevelsBounded /\ LevelsAreDistances
=============================================================================
