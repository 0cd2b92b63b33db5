------------------------------- MODULE PureParts -------------------------------
(***************************************************************************)
(* The parts that compute and keep no state, over inputs read one item at  *)
(* a time: the references of a relation graph, the joins of a dataset, the *)
(* rows of two relations to compare.                                       *)
(* What was accepted is extended; the first declaration that is refused    *)
(* ends the reading, as the error of the code does.                        *)
(*                                                                         *)
(* The properties compare what is accepted, and what is derived from it,   *)
(* with what it means over contents.                                       *)
(***************************************************************************)
EXTENDS Manifests, Integers

CONSTANTS
    Keys,           \* the primary key of each entity of the graphs
    Refs,           \* the entries `references` may have
    MaxRefs,        \* bound: references of a graph
    MaxHops,        \* bound: the max_hops asked for
    Components,     \* the components of the joins datasets, the first their base
    Joins,          \* the entries `joins` may have
    MaxJoins,       \* bound: joins of a dataset
    Tables,         \* the contents each component may have, a set of sets of rows
    RowsToCompare,  \* the rows two relations may have, functions of "key" and "value"
    MaxRows,        \* bound: rows of each
    MaxBatch        \* bound: keys of a batch

Verify == INSTANCE Verification

ASSUME BoundsAssumption == MaxHops \in Nat
ASSUME KeysAssumption == IsFiniteSet(DOMAIN Keys)

\* Rows of two columns, of numbers or NULL where a column of numbers is compared.
ASSUME RowsAssumption ==
    \A row \in RowsToCompare : /\ row = [column \in {"key", "value"} |-> row[column]]
                               /\ row["value"] \in Int \union {None}

VARIABLES reading, refs, joins, compared
vars == <<reading, refs, joins, compared>>

Init ==
    /\ reading \in {"graph", "dataset", "relations"}
    /\ refs = <<>>
    /\ joins = <<>>
    /\ compared = [side \in {"reference", "view"} |-> EmptyBag]

Graph == GraphOf(Keys, refs)

Dataset == [name |-> "view", components |-> Components, base |-> Components[1].name, joins |-> joins,
            select |-> {}, sql |-> {}, materialize |-> "view"]

ReadReference(ref) ==
    /\ reading = "graph"
    /\ GraphOK(Graph)
    /\ Len(refs) < MaxRefs
    /\ refs' = Append(refs, ref)
    /\ UNCHANGED <<reading, joins, compared>>

ReadJoin(join) ==
    /\ reading = "dataset"
    /\ joins # <<>> => DatasetOK(Dataset)
    /\ Len(joins) < MaxJoins
    /\ joins' = Append(joins, join)
    /\ UNCHANGED <<reading, refs, compared>>

ReadRow(side, row) ==
    /\ reading = "relations"
    /\ Verify!Count(compared[side]) < MaxRows
    /\ compared' = [compared EXCEPT ![side] = @ (+) SetToBag({row})]
    /\ UNCHANGED <<reading, refs, joins>>

Next ==
    \/ \E ref \in Refs : ReadReference(ref)
    \/ \E join \in Joins : ReadJoin(join)
    \/ \E side \in DOMAIN compared, row \in RowsToCompare : ReadRow(side, row)

Spec == Init /\ [][Next]_vars

-------------------------------------------------------------------------------
(* Graphs *)

\* The depth-first search of _check_acyclic, which colours each entity once, refuses exactly the
\* references that no order of the entities satisfies: two routes to one entity are not a cycle.
AcyclicAgrees ==
    reading = "graph" /\ EdgesOK(Graph) => (FindsCycle(Graph) <=> ~Acyclic(Graph))

\* What Path.fan_out derives from the cardinalities of the hops is what joining along them does: a route
\* is a fan-out exactly if some contents give more than one row for a row of its source.  Routes over a
\* reference with no columns, which an entity without a key accepts, are left out.
GrainExact ==
    reading = "graph" /\ GraphOK(Graph) =>
        \A source, target \in Entities(Graph) :
            \A path \in Paths(Graph, source, target, MaxHops) :
                AllHaveColumns({path[i].edge : i \in DOMAIN path}) => (FansOut(path) <=> Multiplies(path))

\* reachable() and ambiguous() share out, for every limit on the hops, the entities that joins over any
\* contents can keep the grain of source on the way to: none is lost between them, and none is offered
\* through a fan-out, unless a reference has no columns.
ReachableOrAmbiguous ==
    reading = "graph" /\ GraphOK(Graph) =>
        \A source \in Entities(Graph), max \in 1 .. MaxHops :
            LET offered == Reachable(Graph, source, max) \union Ambiguous(Graph, source, max)
                near == Near(Graph, source, max) \ {source}
            IN  /\ near \subseteq offered
                /\ AllHaveColumns(Range(Graph.edges)) => offered \subseteq near

\* The comment on Entity: an entity without a primary key "can never be referenced".
KeylessNotReferenced ==
    reading = "graph" /\ GraphOK(Graph) => \A i \in DOMAIN Graph.edges : Graph.key[Graph.edges[i].parent] # <<>>

-------------------------------------------------------------------------------
(* Datasets *)

Names == {Components[i].name : i \in DOMAIN Components}

\* Tables are finite, and NULL is not a row.
ASSUME TablesAssumption == \A name \in Names : \A rows \in Tables[name] : IsFiniteSet(rows) /\ None \notin rows

\* The contents that staging accepts for each component.
Contents ==
    {c \in [Names -> UNION {Tables[n] : n \in Names}] :
        \A i \in DOMAIN Components :
            LET name == Components[i].name
            IN  c[name] \in Tables[name] /\ KeyHolds(Components[i], c[name])}

Accepted == reading = "dataset" /\ joins # <<>> /\ DatasetOK(Dataset)

\* _check_joins looks at keys only: without fan_out, the view gives at most one row for a row of the base,
\* over all contents whose keys hold, however the joins are chained.
JoinsKeepGrain ==
    Accepted /\ (\A i \in DOMAIN joins : ~joins[i].fanOut) =>
        \A c \in Contents : \A row \in c[Dataset.base] : Cardinality(ViewRows(Dataset, c, row)) <= 1

\* Each row of the base is in the view.
Kept(c) == \A row \in c[Dataset.base] : ViewRows(Dataset, c, row) # {}

\* What stage_view_dataset says: "rejects inner joins that would silently drop fact rows".
RowsKept == Accepted => \A c \in Contents : OrphanCount(Dataset, c) = 0 => Kept(c)

\* The component of a left join, whose row may be missing.
LeftJoined(name) == \E i \in DOMAIN joins : joins[i].component = name /\ joins[i].type = "left"

\* With no orphans counted, no row of the base is dropped, by one join or by several in a chain, unless an
\* inner join starts from a component that was left joined: orphan_count_v2 looks at whole components,
\* not at the rows that the joins before left.
RowsKeptUnlessLeft ==
    Accepted /\ (\A i \in DOMAIN joins : joins[i].type = "inner" => ~LeftJoined(LeftOf(Dataset, joins[i]))) =>
        \A c \in Contents : OrphanCount(Dataset, c) = 0 => Kept(c)

-------------------------------------------------------------------------------
(* Relations *)

Relation(side) == [columns |-> {"key", "value"}, rows |-> compared[side]]

Equal == compared["reference"] = compared["view"]

\* The verdict of compare_batched is that of one comparison of the two bags, whatever the batches: no row
\* of either side falls between them, one whose key is NULL or that only the view has included.
BatchedVerdictExact ==
    reading = "relations" =>
        \A size \in 1 .. MaxBatch :
            Verify!BatchesAgree(Relation("reference"), Relation("view"), {"key", "value"}, "key", size) <=> Equal

\* The same for compare_relations without a float column.  With one, a pair of errors that compensate each
\* other may be missed, and takes a group of four rows: of three values, their count, their least and
\* greatest and their sum leave no other.
GroupedVerdictExact ==
    reading = "relations" =>
        \A size \in 1 .. MaxBatch, floats \in {{}, {"value"}} :
            LET agree == Verify!RelationsAgree(Relation("reference"), Relation("view"), None, floats, "key", size)
            IN  /\ Equal => agree
                /\ floats = {} \/ Verify!Count(compared["view"]) < 4 => (agree => Equal)
===============================================================================
