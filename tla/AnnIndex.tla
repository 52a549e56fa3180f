------------------------------- MODULE AnnIndex -------------------------------
(***************************************************************************)
(* The HNSW graph of ann.rs: nodes are inserted in the order of a hash of  *)
(* their ids, each at the level another hash gives it, and queries walk    *)
(* the graph.  Neither hash is modelled: any order is explored, and        *)
(* Level is a parameter.                                                   *)
(***************************************************************************)
EXTENDS Ranking

CONSTANTS
    Nodes,     \* node indices: the rank of the chunk id
    Layouts,   \* the corpora: functions from Nodes to Directions
    Level,     \* Level[x]: the highest layer of node x
    M,         \* degree of the upper layers, at least 2
    Beam,      \* the least width of a beam search (16 in the code)
    Queries    \* the directions searched for

M0 == 2 * M

ASSUME AnnAssumption ==
    /\ Nodes \subseteq Nat \ {0} /\ IsFiniteSet(Nodes) /\ Level \in [Nodes -> Nat]
    /\ M \in Nat /\ M >= 2 /\ Beam \in Nat /\ Beam >= M0
    /\ Layouts \subseteq [Nodes -> Directions] /\ Queries \subseteq Directions

VARIABLES
    layout,     \* the vectors
    inserted,   \* the nodes in the graph
    links,      \* links[x][l]: the neighbours of x at layer l, in order
    entry,      \* where searches begin, 0 in an empty graph
    max_level

annVars == <<layout, inserted, links, entry, max_level>>

AnnInit ==
    /\ layout \in Layouts
    /\ inserted = {}
    /\ links = [x \in Nodes |-> [l \in 0..Level[x] |-> <<>>]]
    /\ entry = 0 /\ max_level = 0

-----------------------------------------------------------------------------
dist(d, e) == 100 - cosine(d, e)

At(x) == layout[x]

(* Both heaps and every sort order nodes by distance and then by index. *)
Closer(q, x, y) ==
    \/ dist(q, At(x)) < dist(q, At(y))
    \/ dist(q, At(x)) = dist(q, At(y)) /\ x < y

Nearest(q, S) == CHOOSE x \in S : \A y \in S \ {x} : Closer(q, x, y)
Farthest(q, S) == CHOOSE x \in S : \A y \in S \ {x} : Closer(q, y, x)
Ranked(q, S) == Listing(S, {p \in S \X S : Closer(q, p[1], p[2])})

-----------------------------------------------------------------------------
(* Searching. *)

Links(x, l) == IF l <= Level[x] THEN links[x][l] ELSE <<>>

(* The nearest link of node ep, the first of several, if it is nearer.      *)
Nearer(ep, q, l) ==
    LET to == Links(ep, l)
        near == {i \in 1..Len(to) : dist(q, At(to[i])) < dist(q, At(ep))}
        first == CHOOSE i \in near : \A j \in near \ {i} :
                    \/ dist(q, At(to[i])) < dist(q, At(to[j]))
                    \/ dist(q, At(to[i])) = dist(q, At(to[j])) /\ i < j
    IN  IF near = {} THEN ep ELSE to[first]

(* Every move is to a nearer node: there are fewer moves than nodes. *)
greedy_step(ep, q, l) ==
    LET node[n \in 0..Cardinality(Nodes)] ==
            IF n = 0 THEN ep ELSE Nearer(node[n - 1], q, l)
    IN  node[Cardinality(Nodes)]

(* From layer `from` down to layer `to`. *)
Descend(ep, q, from, to) ==
    LET layers == IF from < to THEN 0 ELSE from + 1 - to
        node[n \in 0..layers] ==
            IF n = 0 THEN ep ELSE greedy_step(node[n - 1], q, from + 1 - n)
    IN  node[layers]

(* A neighbour not seen yet is kept if there is room or it beats the worst. *)
Offer(q, ef, s, x) ==
    LET seen == [s EXCEPT !.visited = @ \cup {x}]
        kept == s.best \cup {x}
    IN
    IF x \in s.visited THEN s
    ELSE IF /\ Cardinality(s.best) >= ef
            /\ dist(q, At(x)) >= dist(q, At(Farthest(q, s.best))) THEN seen
    ELSE [seen EXCEPT !.cand = @ \cup {x},
                      !.best = IF Cardinality(kept) > ef
                               THEN kept \ {Farthest(q, kept)} ELSE kept]

(* No candidate is left, or the nearest is worse than the worst kept. *)
Ended(q, ef, s) ==
    \/ s.cand = {}
    \/ /\ Cardinality(s.best) >= ef
       /\ dist(q, At(Nearest(q, s.cand))) > dist(q, At(Farthest(q, s.best)))

(* The nearest candidate's neighbours. *)
Visit(q, ef, l, s) ==
    LET c == Nearest(q, s.cand)
        seen[i \in 0..Len(Links(c, l))] ==
            IF i = 0 THEN [s EXCEPT !.cand = @ \ {c}]
            ELSE Offer(q, ef, seen[i - 1], Links(c, l)[i])
    IN  IF Ended(q, ef, s) THEN s ELSE seen[Len(Links(c, l))]

(* A node is a candidate once: there are at most as many visits as nodes.  *)
Walk(q, ef, l, start) ==
    LET s[n \in 0..Cardinality(Nodes)] ==
            IF n = 0 THEN start ELSE Visit(q, ef, l, s[n - 1])
    IN  s[Cardinality(Nodes)].best

(* The ef best nodes a beam search from eps finds, nearest first. *)
search_layer(q, eps, ef, l) ==
    Ranked(q, Walk(q, ef, l, [visited |-> eps, cand |-> eps,
                              best |-> ToSet(Truncate(Ranked(q, eps), ef))]))

Sim(q, x) == 100 - dist(q, At(x))

(* search: the k best of what the beam found, those that are similar. *)
search(q, k, ef) ==
    IF k = 0 \/ entry = 0 THEN <<>>
    ELSE LET width == CHOOSE w \in {ef, k, Beam} : \A v \in {ef, k, Beam} : v <= w
             found == search_layer(q, {Descend(entry, q, max_level, 1)}, width, 0)
         IN  Truncate(Retain(found, {i \in 1..Len(found) : Sim(q, found[i]) > 0}), k)

-----------------------------------------------------------------------------
(* Linking. *)

(* A candidate is diverse if no neighbour already chosen is nearer to it   *)
(* than it is to the centre.                                               *)
Diverse(q, chosen, x) ==
    \A i \in 1..Len(chosen) : dist(At(chosen[i]), At(x)) >= dist(q, At(x))

TakeDiverse(q, s, x, m) ==
    IF Len(s) < m /\ Diverse(q, s, x) THEN Append(s, x) ELSE s

PickDiverse(q, cands, m) ==
    LET s[i \in 0..Len(cands)] ==
            IF i = 0 THEN <<>> ELSE TakeDiverse(q, s[i - 1], cands[i], m)
    IN  s[Len(cands)]

(* At insertion the slots left are filled with the nearest of the rest. *)
select_neighbors(q, cands, m) ==
    LET chosen == PickDiverse(q, cands, m)
        pruned == Retain(cands, {i \in 1..Len(cands) : cands[i] \notin ToSet(chosen)})
    IN  IF Len(cands) <= m THEN cands ELSE Truncate(chosen \o pruned, m)

(* Mutant: the list may exceed its capacity by one. *)
link_late(g, from, to, l) ==
    LET cap == IF l = 0 THEN M0 ELSE M
        list == Append(g[from][l], to)
        ranked == Ranked(At(from), ToSet(list))
    IN
    IF to \in ToSet(g[from][l]) THEN g
    ELSE [g EXCEPT ![from][l] = IF Len(list) <= cap + 1 THEN list
                                ELSE PickDiverse(At(from), ranked, cap)]

(* link: append, and prune without refilling when the list is too long. *)
link(g, from, to, l) ==
    LET cap == IF l = 0 THEN M0 ELSE M
        list == Append(g[from][l], to)
        ranked == Ranked(At(from), ToSet(list))
    IN
    IF to \in ToSet(g[from][l]) THEN g
    ELSE [g EXCEPT ![from][l] = IF Len(list) <= cap THEN list
                                ELSE PickDiverse(At(from), ranked, cap)]

(* Links both ways between the new node and those chosen, one by one. *)
LinkAll(g, x, chosen, l) ==
    LET h[i \in 0..Len(chosen)] ==
            IF i = 0 THEN g ELSE link(link(h[i - 1], chosen[i], x, l), x, chosen[i], l)
    IN  h[Len(chosen)]

(* Beam search at one layer, links both ways, and on to the next layer.    *)
(* The searches see the links made so far in this insertion, which are at  *)
(* higher layers only.                                                     *)
LinkLayer(x, s, l) ==
    LET found == search_layer(At(x), s.eps, Beam, l)
    IN  [eps |-> ToSet(found), g |-> LinkAll(s.g, x, select_neighbors(At(x), found, M), l)]

(* The layers the new node shares with the graph, from the top. *)
LinkLayers(x, ep) ==
    LET top == Lesser(Level[x], max_level)
        s[n \in 0..(top + 1)] ==
            IF n = 0 THEN [eps |-> {ep}, g |-> links] ELSE LinkLayer(x, s[n - 1], (top + 1) - n)
    IN  s[top + 1].g

insert_node(x) ==
    /\ x \notin inserted
    /\ inserted' = inserted \cup {x}
    /\ IF entry = 0
       THEN entry' = x /\ max_level' = Level[x] /\ UNCHANGED links
       ELSE /\ links' = LinkLayers(x, Descend(entry, At(x), max_level, Level[x] + 1))
            /\ entry' = IF Level[x] > max_level THEN x ELSE entry
            /\ max_level' = IF Level[x] > max_level THEN Level[x] ELSE max_level
    /\ UNCHANGED layout

AnnNext == \E x \in Nodes : insert_node(x)

AnnSpec == AnnInit /\ [][AnnNext]_annVars

-----------------------------------------------------------------------------
(* Properties. *)

LinkSet(x, l) == ToSet(links[x][l])

(* A link at a layer joins two nodes that have the layer, which indexing   *)
(* relies on, and a list keeps to its capacity without repeating a node.   *)
LinksWellFormed ==
    \A x \in inserted : \A l \in 0..Level[x] :
        /\ \A y \in LinkSet(x, l) : y \in inserted \ {x} /\ Level[y] >= l
        /\ Len(links[x][l]) = Cardinality(LinkSet(x, l))
        /\ Len(links[x][l]) <= IF l = 0 THEN M0 ELSE M

(* Searches begin at a node of the top layer. *)
EntryOnTop ==
    inserted # {} => /\ entry \in inserted /\ Level[entry] = max_level
                     /\ \A x \in inserted : Level[x] <= max_level

(* The nodes that links of layer 0 lead to from S: what is in every set    *)
(* that has S and the links of its nodes.                                  *)
Reach(S) ==
    {x \in inserted : \A T \in SUBSET inserted :
        S \subseteq T /\ (\A y \in T : LinkSet(y, 0) \subseteq T) => x \in T}

SimilarTo(q) == {x \in inserted : Sim(q, x) > 0}

(* A beam as wide as the corpus returns exactly the best of the nodes that *)
(* the links lead to from where the descent ends.                          *)
WideBeamFindsReachable ==
    inserted # {} =>
        \A q \in Queries :
            search(q, 2, Cardinality(inserted))
                = Truncate(Ranked(q, SimilarTo(q) \cap Reach({Descend(entry, q, max_level, 1)})), 2)

(* The narrowest beam returns similar nodes, nearest first. *)
NarrowBeamRanked ==
    \A q \in Queries :
        LET found == search(q, 2, 1) IN
        Len(found) <= 2 /\ found = Ranked(q, ToSet(found)) /\ ToSet(found) \subseteq SimilarTo(q)

(* The graph stays one that can be searched while nodes are inserted and   *)
(* links pruned, and a search finds what its links lead to.                *)
AnnSound ==
    /\ LinksWellFormed /\ EntryOnTop
    /\ WideBeamFindsReachable /\ NarrowBeamRanked
=============================================================================
