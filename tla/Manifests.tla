------------------------------- MODULE Manifests --------------------------------
(***************************************************************************)
(* What a dataset of shared components may declare (sqlsink/manifest.py)   *)
(* and what the view of a joins dataset then is over contents that staging *)
(* accepts (sqlsink/view.py, sqlsink/sink_v2.py).                          *)
(*                                                                         *)
(* Identifiers, hashing and the text of the SQL are left out; a view_sql   *)
(* template is the set of the names it refers to.                          *)
(***************************************************************************)
EXTENDS JoinGraph, Functions, SequencesExt

\* Component.__post_init__
ComponentOK(c) ==
    /\ c.kind \in {"fact", "dimension", "bridge"}
    /\ c.kind = "dimension" => c.key # <<>>
    /\ c.source = None \/ c.table = None
    /\ c.priority # None => c.kind = "bridge"
    /\ IsInjective(c.key)
    /\ c.columns # None =>
        ToSet(c.key) \union (IF c.priority = None THEN {} ELSE {c.priority}) \subseteq ToSet(c.columns)

NamesOf(d) == {d.components[i].name : i \in DOMAIN d.components}

ComponentOf(d, name) == d.components[CHOOSE i \in DOMAIN d.components : d.components[i].name = name]

\* The entity a join starts from.
LeftOf(d, join) == IF join.left = None THEN d.base ELSE join.left

\* What the first n joins have brought in.
JoinedBy(d, n) == {d.base} \union {d.joins[i].component : i \in 1 .. n}

\* join.on is a set of pairs <<left column, column>>; do they cover the key of the component?
CoversKey(d, join) ==
    LET key == ComponentOf(d, join.component).key
    IN  key # <<>> /\ {p[2] : p \in join.on} = ToSet(key)

\* Bug: only a join from the base must keep its grain.
BaseKeepsGrain(d, join) == CoversKey(d, join) \/ join.fanOut \/ LeftOf(d, join) # d.base

KeepsGrain(d, join) == CoversKey(d, join) \/ join.fanOut

\* The checks of one join, in the order of their declaration.
JoinOK(d, n) ==
    LET join == d.joins[n]
    IN  /\ join.component \in NamesOf(d)
        /\ LeftOf(d, join) \in JoinedBy(d, n - 1)
        /\ join.component \notin JoinedBy(d, n - 1)
        /\ join.type \in {"inner", "left"}
        /\ join.on # {}
        /\ KeepsGrain(d, join)

\* The graph of the joins that cover a key.
JoinsGraph(d) ==
    LET EdgeOfJoin(join) ==
            LET key == ComponentOf(d, join.component).key
            IN  [child |-> LeftOf(d, join), parent |-> join.component,
                 columns |-> [i \in DOMAIN key |-> (CHOOSE p \in join.on : p[2] = key[i])[1]],
                 cardinality |-> "many_to_one", nullable |-> FALSE, name |-> None]
        covering == SelectSeq(d.joins, LAMBDA join : CoversKey(d, join))
    IN  [key |-> [name \in NamesOf(d) |-> ComponentOf(d, name).key],
         edges |-> [i \in DOMAIN covering |-> EdgeOfJoin(covering[i])]]

\* The components joined many-to-one from the base, all the way.
ManyToOne(d) ==
    FoldLeft(LAMBDA reached, j : IF CoversKey(d, j) /\ LeftOf(d, j) \in reached
                                 THEN reached \union {j.component} ELSE reached,
             {d.base}, d.joins)

\* DatasetV2._check_joins
JoinsOK(d) ==
    /\ d.base \in NamesOf(d)
    /\ \A n \in DOMAIN d.joins : JoinOK(d, n)
    /\ GraphOK(JoinsGraph(d))
    /\ \A name \in ManyToOne(d) \ {d.base} :
        Route(JoinsGraph(d), d.base, name, {}, FALSE, Len(d.joins)) = "path"
    /\ d.select \subseteq JoinedBy(d, Len(d.joins)) \union {None}

\* DatasetV2.__post_init__
DatasetOK(d) ==
    /\ Cardinality(NamesOf(d)) = Len(d.components)
    /\ \A i \in DOMAIN d.components : ComponentOK(d.components[i])
    /\ d.materialize \in {"view", "materialized"}
    /\ (d.sql = {}) # (d.joins = <<>>)
    /\ IF d.sql = {} THEN JoinsOK(d)
       ELSE /\ d.select = {} /\ d.base = None
            /\ \A template \in d.sql : /\ template.dialect \in {"duckdb", "postgresql", "default"}
                                       /\ template.refs \subseteq NamesOf(d)

-------------------------------------------------------------------------------
(* Contents: the rows of each component, a row a function of its columns *)

\* check_component_source
KeyHolds(component, rows) ==
    LET KeyOf(row) == [i \in DOMAIN component.key |-> row[component.key[i]]]
    IN  component.key # <<>> =>
        /\ \A row \in rows : None \notin Range(KeyOf(row))
        /\ \A r, s \in rows : KeyOf(r) = KeyOf(s) => r = s

\* NULL equals nothing.
Matches(join, left, row) ==
    \A p \in join.on : left[p[1]] # None /\ left[p[1]] = row[p[2]]

\* Bug: a key without a match is counted only if no key has one.
LostOfAll(left, right, join) == {l \in left : ~\E k \in left : \E r \in right : Matches(join, k, r)}

\* The rows of left without a match on the right side of join.
Lost(left, right, join) == {l \in left : ~\E r \in right : Matches(join, l, r)}

\* The distinct keys without a match of a join that drops their rows.
Orphans(d, contents, join) ==
    IF join.type # "inner" THEN 0
    ELSE Cardinality({[c \in {p[1] : p \in join.on} |-> l[c]] :
            l \in Lost(contents[LeftOf(d, join)], contents[join.component], join)})

\* orphan_count_v2
OrphanCount(d, contents) ==
    LET count[n \in 0 .. Len(d.joins)] ==
            IF n = 0 THEN 0 ELSE count[n - 1] + Orphans(d, contents, d.joins[n])
    IN  count[Len(d.joins)]

\* The rows of the component of a join that match what was found so far, None if a left join has none.
Matching(d, contents, join, found) ==
    LET matching == IF found[LeftOf(d, join)] = None THEN {}
                    ELSE {r \in contents[join.component] : Matches(join, found[LeftOf(d, join)], r)}
    IN  IF matching = {} /\ join.type = "left" THEN {None} ELSE matching

\* A row of the base, before any join.
Found(d, row) == [name \in {d.base} |-> row]

\* What was found, with a row of one more component.
With(found, component, row) ==
    [name \in DOMAIN found \union {component} |-> IF name = component THEN row ELSE found[name]]

\* What the rows found so far become by a join.
Joined(d, contents, join, rows) ==
    UNION {{With(f, join.component, r) : r \in Matching(d, contents, join, f)} : f \in rows}

\* What the view of a joins dataset gives for one row of its base: the row of each component, or None.
ViewRows(d, contents, row) ==
    LET rows[n \in 0 .. Len(d.joins)] ==
            IF n = 0 THEN {Found(d, row)} ELSE Joined(d, contents, d.joins[n], rows[n - 1])
    IN  rows[Len(d.joins)]
===============================================================================
