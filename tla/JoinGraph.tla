------------------------------- MODULE JoinGraph -------------------------------
(***************************************************************************)
(* The relations a manifest declares between its components                *)
(* (sqlsink/relations.py): entities with their primary keys, references    *)
(* child -> parent to a key, and the routes along them.                    *)
(*                                                                         *)
(* A graph is [key, edges]: the primary key of each entity, a sequence of  *)
(* columns, and its edges in the order they are declared.                  *)
(***************************************************************************)
EXTENDS Naturals, Sequences, Functions, FiniteSetsExt

CONSTANT None

\* An entry of `references`, its optional fields filled in.
EdgeOf(ref) ==
    LET Field(name, default) == IF name \in DOMAIN ref THEN ref[name] ELSE default
    IN  [child |-> ref.child, parent |-> ref.parent, columns |-> ref.fields,
         cardinality |-> Field("cardinality", "many_to_one"),
         nullable |-> Field("nullable", FALSE),
         name |-> Field("name", None)]

\* graph_from_spec
GraphOf(keys, refs) == [key |-> keys, edges |-> [i \in DOMAIN refs |-> EdgeOf(refs[i])]]

Entities(g) == DOMAIN g.key

Label(e) == IF e.name # None THEN <<e.name>> ELSE <<e.child, e.columns, e.parent>>

-------------------------------------------------------------------------------
(* What JoinGraph() accepts *)

\* _check_edge
EdgeOK(g, e) ==
    /\ {e.child, e.parent} \subseteq Entities(g)
    /\ e.cardinality \in {"many_to_one", "one_to_one"}
    /\ ~e.nullable
    /\ Len(e.columns) = Len(g.key[e.parent])
    /\ e.child # e.parent

\* Bug: a node that was left is not marked, so the end of two routes is taken for a cycle.
LeftOpen(colour, node) == colour

Left(colour, node) == [colour EXCEPT ![node] = "done"]

\* What visit knows of an entity: `state` of the code, and that a cycle was met.
Colours == {"new", "open", "done", "cycle"}

\* The references of node in turn, those of the edges that start from it, each visited by inner.
ParentsVisited(g, inner, node, colour) ==
    LET after[i \in 0 .. Len(g.edges)] ==
            IF i = 0 THEN [colour EXCEPT ![node] = "open"]
            ELSE IF g.edges[i].child = node THEN inner[g.edges[i].parent][after[i - 1]]
                                            ELSE after[i - 1]
    IN  after[Len(g.edges)]

\* visit: the colours after it, "cycle" for all once a node is met that is still open; what it calls is inner.
Visited(g, inner) ==
    [node \in Entities(g) |-> [colour \in [Entities(g) -> Colours] |->
        CASE colour[node] \in {"done", "cycle"} -> colour
          [] colour[node] = "open" -> [n \in Entities(g) |-> "cycle"]
          [] colour[node] = "new" ->
                LET after == ParentsVisited(g, inner, node, colour)
                IN  IF after[node] = "cycle" THEN after ELSE Left(after, node)]]

\* The calls are nested once for each entity, and once more to find it open or done: none is nested deeper.
Visit(g) ==
    LET visit[n \in 0 .. Cardinality(Entities(g)) + 1] ==
            IF n = 0 THEN [node \in Entities(g) |-> [colour \in [Entities(g) -> Colours] |-> colour]]
            ELSE Visited(g, visit[n - 1])
    IN  visit[Cardinality(Entities(g)) + 1]

\* The entities in the order of the code; any will do.
Order(g) ==
    CHOOSE f \in [1 .. Cardinality(Entities(g)) -> Entities(g)] :
        \A n \in Entities(g) : \E i \in DOMAIN f : f[i] = n

\* _check_acyclic
FindsCycle(g) ==
    LET after[i \in 0 .. Cardinality(Entities(g))] ==
            IF i = 0 THEN [n \in Entities(g) |-> "new"] ELSE Visit(g)[Order(g)[i]][after[i - 1]]
    IN  \E n \in Entities(g) : after[Cardinality(Entities(g))][n] = "cycle"

EdgesOK(g) ==
    /\ \A e \in Range(g.edges) : EdgeOK(g, e)
    /\ IsInjective([i \in DOMAIN g.edges |-> Label(g.edges[i])])

GraphOK(g) == EdgesOK(g) /\ ~FindsCycle(g)

-------------------------------------------------------------------------------
(* Routes: sequences of hops, along an edge or against it *)

Hops(g) == [edge : Range(g.edges), forward : BOOLEAN]

From(hop) == IF hop.forward THEN hop.edge.child ELSE hop.edge.parent
To(hop) == IF hop.forward THEN hop.edge.parent ELSE hop.edge.child

\* Bug: a hop to a child is a fan-out whatever the edge says.
BackwardFansOut(hop) == ~hop.forward

HopFansOut(hop) == ~hop.forward /\ hop.edge.cardinality # "one_to_one"

\* Bug: only the last hop counts.
LastFansOut(path) == HopFansOut(path[Len(path)])

FansOut(path) == \E i \in DOMAIN path : HopFansOut(path[i])

Labels(path) == {Label(path[i].edge) : i \in DOMAIN path}

\* Where a path from source ends, and what it has passed.
EndOf(source, path) == IF path = <<>> THEN source ELSE To(path[Len(path)])
Seen(source, path) == {source} \union {To(path[i]) : i \in DOMAIN path}

Arrived(source, target, path) == path # <<>> /\ EndOf(source, path) = target

\* The hops to an entity that was not seen.
Onward(g, source, path) ==
    {h \in Hops(g) : From(h) = EndOf(source, path) /\ To(h) \notin Seen(source, path)}

\* walk: the paths that have arrived stay, the others go on by one hop.
Walked(g, source, target, paths) ==
    {p \in paths : Arrived(source, target, p)}
    \union UNION {{Append(p, h) : h \in Onward(g, source, p)} :
                    p \in {x \in paths : ~Arrived(source, target, x)}}

\* _paths
Paths(g, source, target, max) ==
    LET paths[n \in 0 .. max] ==
            IF n = 0 THEN {<<>>} ELSE Walked(g, source, target, paths[n - 1])
    IN  {p \in paths[max] : Arrived(source, target, p)}

\* path(): the one route, or the error raised.
Route(g, source, target, via, allowFanOut, max) ==
    LET candidates == {p \in Paths(g, source, target, max) : via \subseteq Labels(p)}
        safe == {p \in candidates : allowFanOut \/ ~FansOut(p)}
    IN  CASE candidates = {} -> "RelationError"
          [] candidates # {} /\ safe = {} -> "FanOutError"
          [] Cardinality(safe) > 1 -> "AmbiguousPathError"
          [] Cardinality(safe) = 1 -> "path"

Reachable(g, source, max) ==
    {t \in Entities(g) \ {source} : Route(g, source, t, {}, FALSE, max) = "path"}

Ambiguous(g, source, max) ==
    {t \in Entities(g) \ {source} : Route(g, source, t, {}, FALSE, max) = "AmbiguousPathError"}

-------------------------------------------------------------------------------
(* What they mean, said without them *)

\* No reference is without columns, as one to an entity without a key is.
AllHaveColumns(edges) == \A e \in edges : e.columns # <<>>

\* There is an order in which every edge goes up.
Acyclic(g) ==
    \E rank \in [Entities(g) -> 1 .. Cardinality(Entities(g))] :
        \A e \in Range(g.edges) : rank[e.child] < rank[e.parent]

Rows == {1, 2}

\* What the rows of child may reference: each one row of parent, all of them if no column says which.
References(edge) ==
    IF edge.columns = <<>> THEN {[r \in Rows |-> Rows]}
    ELSE {[r \in Rows |-> {f[r]}] :
            f \in {h \in [Rows -> Rows] : edge.cardinality = "one_to_one" => h[1] # h[2]}}

\* Whatever the contents, joining along hop gives at most one row for a row.
KeepsRows(hop) ==
    \A contents \in References(hop.edge) : \A r \in Rows :
        Cardinality({s \in Rows : IF hop.forward THEN s \in contents[r] ELSE r \in contents[s]}) <= 1

\* A step that keeps the grain.
GrainStep(g, from, to) == \E h \in Hops(g) : From(h) = from /\ To(h) = to /\ KeepsRows(h)

\* From one entity to another in k such steps.
Steps(g, source, target, k) ==
    \E w \in [0 .. k -> Entities(g)] :
        w[0] = source /\ w[k] = target /\ \A i \in 1 .. k : GrainStep(g, w[i - 1], w[i])

\* The entities at most n such steps from source.
Near(g, source, n) == {t \in Entities(g) : \E k \in 0 .. n : Steps(g, source, t, k)}

\* There are contents over which the joins of path give more than one row for one of its source.
Multiplies(path) ==
    \E contents \in [DOMAIN path -> UNION {References(path[i].edge) : i \in DOMAIN path}] :
        /\ \A i \in DOMAIN path : contents[i] \in References(path[i].edge)
        /\ \E r \in Rows :
            Cardinality({c \in [DOMAIN path -> Rows] :
                \A i \in DOMAIN path :
                    LET before == IF i = 1 THEN r ELSE c[i - 1]
                    IN  IF path[i].forward THEN c[i] \in contents[i][before]
                                           ELSE before \in contents[i][c[i]]}) > 1
===============================================================================
