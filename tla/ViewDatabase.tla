---------------------------- MODULE ViewDatabase -----------------------------
(***************************************************************************)
(* The public side of manifest v2 datasets: components (tables), the view  *)
(* or materialized view of each dataset over them, their markers and the   *)
(* links between them, and publish_datasets(), which moves all of it in    *)
(* one transaction under the publish lock (sqlsink/publish.py).            *)
(*                                                                         *)
(* A version stands for the rows of a component and for the update_id that *)
(* fingerprints them.  The update_id of a dataset stands for its manifest, *)
(* which is fixed here, and for the versions of its components: it is a    *)
(* function from them to versions.                                         *)
(*                                                                         *)
(* A PostgreSQL view is bound to the tables it was created over: they keep *)
(* their rows, so what it reads is a function fixed when it is created.  A *)
(* DuckDB view (ByName) looks its tables up by name when it is read.       *)
(***************************************************************************)
CONSTANTS Components, Datasets,
          Uses,          \* Uses[d]: the components of dataset d; several may share one
          Versions,
          None,          \* no table, no relation, no marker row
          Flat,          \* a public table that is not the dataset's: it precedes the first publish
          ByName,        \* DuckDB: views resolve names, nothing cascades
          Materialized   \* the datasets whose manifest says materialize: materialized view

ASSUME UsesAssumption == Uses \in [Datasets -> SUBSET Components]
ASSUME NamesAssumption == Components \intersect Datasets = {}
ASSUME DialectAssumption == ByName \in BOOLEAN /\ Materialized \subseteq Datasets
ASSUME ValuesAssumption ==
    /\ None # Flat /\ None \notin Versions /\ Flat \notin Versions
    /\ \A d \in Datasets : {None, Flat} \intersect [Uses[d] -> Versions \union {None}] = {}

VARIABLES
    live,           \* live[c]: the rows of the public table of component c, or None
    marker,         \* marker[c]: update_id of c in _pipeline_meta_component_updates, or None
    relation,       \* relation[d]: what the public relation d was created over, Flat, or None
    datasetMarker,  \* datasetMarker[d]: update_id of d in ..._analytics_dataset_updates, or None
    links,          \* links[d]: the rows of d in ..._dataset_components, component -> version
    kept            \* kept[n]: the relation __old__n, or None

markers == <<marker, datasetMarker, links>>
publicVars == <<live, relation, markers, kept>>

Names == Components \union Datasets
Ids(d) == [Uses[d] -> Versions]

\* Types; a view is over all the components of its dataset, its links are some of them.
TypeOK ==
    /\ live \in [Components -> Versions \union {None}]
    /\ marker \in [Components -> Versions \union {None}]
    /\ \A f \in {relation, datasetMarker, links} : DOMAIN f = Datasets
    /\ \A d \in Datasets : /\ relation[d] \in Ids(d) \union {None, Flat}
                           /\ datasetMarker[d] \in Ids(d) \union {None}
                           /\ \E S \in SUBSET Uses[d] : links[d] \in [S -> Versions]
    /\ DOMAIN kept = Names
    /\ \A c \in Components : kept[c] \in Versions \union {None}
    /\ \A d \in Datasets : kept[d] \in Ids(d) \union {None, Flat}

DatabaseInit ==
    /\ live = [c \in Components |-> None] /\ marker = live
    /\ relation \in [Datasets -> {None, Flat}]
    /\ datasetMarker = [d \in Datasets |-> None]
    /\ links = [d \in Datasets |-> <<>>]
    /\ kept = [n \in Names |-> None]

-------------------------------------------------------------------------------
(* What is read, and what is intact *)

IsView(d) == relation[d] \notin {None, Flat}

BoundByName(d) == ByName /\ d \notin Materialized

\* What a reader of d gets, component by component; None where its table is missing.
Reads(d) == IF BoundByName(d) THEN [c \in Uses[d] |-> live[c]] ELSE relation[d]

\* The datasets whose relation reads the present table of c.
ReadersOf(c) == {d \in Datasets : IsView(d) /\ c \in Uses[d] /\ Reads(d)[c] = live[c]}

\* published_intact_v2
Intact(d) == IsView(d) /\ \A c \in Uses[d] : live[c] # None

-------------------------------------------------------------------------------
(* Receipts: what a stage job decided, from which marker *)

Receipts(S) == [status : {"current", "staged"}, version : S, from : S \union {None}]

Staging(current, version, from) ==
    [status |-> IF current THEN "current" ELSE "staged", version |-> version, from |-> from]

\* _stage_component under its lock, and stage_view_dataset
ComponentReceipt(c, version) ==
    Staging(marker[c] = version /\ live[c] # None, version, marker[c])

ViewReceipt(d, version) ==
    Staging(datasetMarker[d] = version /\ Intact(d), version, datasetMarker[d])

\* Those of all of d, staged from the sources src.
FreshReceipt(d, src) ==
    [parts |-> [c \in Uses[d] |-> ComponentReceipt(c, src[c])],
     whole |-> ViewReceipt(d, [c \in Uses[d] |-> src[c]])]

\* Bug: any row in the staging markers is good enough.
AnyStagingReusable(c, version, stg, staged) == staged[c] # None /\ stg[c] # None

\* Whose staging table serves this receipt of c: one that vouches for the version is reused.
StagingReusable(c, version, stg, staged) == staged[c] = version /\ stg[c] # None

\* merge_component_receipts: a staged receipt before a current one, the first of those.
PartsOf(c, receipts) == {receipts[d].parts[c] : d \in {e \in DOMAIN receipts : c \in Uses[e]}}

StagedParts(c, receipts) == {r \in PartsOf(c, receipts) : r.status = "staged"}

PartsAgree(receipts) ==
    \A c \in Components : \A r, s \in StagedParts(c, receipts) : r.version = s.version

Merges(receipts) ==
    LET used == UNION {Uses[d] : d \in DOMAIN receipts}
        candidates(c) == IF StagedParts(c, receipts) = {} THEN PartsOf(c, receipts)
                                                          ELSE StagedParts(c, receipts)
    IN  {m \in [used -> UNION {candidates(c) : c \in used}] : \A c \in used : m[c] \in candidates(c)}

-------------------------------------------------------------------------------
(* publish_datasets: one transaction, or nothing at all *)

\* Bug: the receipt is published whatever the marker says.
StagedAnyway(r, published, exists) == r.status = "staged"

\* _demote_published: is this receipt still to be published?
StillStaged(r, published, exists) == r.status = "staged" /\ ~(published = r.version /\ exists)

\* _assert_*_marker_unchanged_since_staging
Unchanged(r, published) == published \in {None, r.from}

\* Bug: the links are not read, so a dataset of another manifest is not found.
PassedDependents(swapped, passed) == {d \in passed : Uses[d] \intersect swapped # {}}

\* _assert_view_dependents_restaged: the datasets of the manifests passed, and of the links.
Dependents(swapped, passed) ==
    {d \in Datasets : (IF d \in passed THEN Uses[d] ELSE DOMAIN links[d]) \intersect swapped # {}}

\* _assert_components_live: after the swaps, the components have the versions the view claims.
ComponentsLive(r, published) == \A c \in DOMAIN r.version : published[c] = r.version[c]

\* park(): DuckDB drops a view, everything else is renamed.
Parkable(n) == n \in Components \/ ~ByName \/ n \in Materialized \/ relation[n] = Flat

Content(n) == IF n \in Components THEN live[n] ELSE relation[n]

ToSwap(merged) == {c \in DOMAIN merged : StillStaged(merged[c], marker[c], live[c] # None)}

ToRestage(receipts) ==
    {d \in DOMAIN receipts : StillStaged(receipts[d].whole, datasetMarker[d], relation[d] # None)}

After(swapped, new, old) == [c \in Components |-> IF c \in swapped THEN new[c] ELSE old[c]]

\* The names replaced: those there before.
Present(swapped, restaged) ==
    {c \in swapped : live[c] # None} \union {d \in restaged : relation[d] # None}

\* Bug: only the tables are looked up before they are set aside.
NoTableInTheWay(names) == \A n \in names \intersect Components : kept[n] = None

\* park() raises KeptOldExists when the name is taken.
NothingInTheWay(names) == \A n \in names : kept[n] = None

\* Everything the transaction checks; any failure rolls all of it back.
Publishable(receipts, merged, rows, keep) ==
    LET swapped == ToSwap(merged)
        restaged == ToRestage(receipts)
        versions == [c \in DOMAIN merged |-> merged[c].version]
    IN  /\ PartsAgree(receipts)
        /\ Dependents(swapped, DOMAIN receipts) \subseteq restaged
        /\ \A c \in swapped : Unchanged(merged[c], marker[c]) /\ rows[c] # None
        /\ \A d \in restaged :
            /\ Unchanged(receipts[d].whole, datasetMarker[d])
            /\ ComponentsLive(receipts[d].whole, After(swapped, versions, marker))
            /\ \A c \in Uses[d] : After(swapped, rows, live)[c] # None
        /\ keep => NothingInTheWay(Present(swapped, restaged))

\* The swaps, the views over the swapped tables, the markers and links of both.
Replace(receipts, merged, rows, keep) ==
    LET swapped == ToSwap(merged)
        restaged == ToRestage(receipts)
        versions == [c \in DOMAIN merged |-> merged[c].version]
        Restaged(new, old) == [d \in Datasets |-> IF d \in restaged THEN new[d] ELSE old[d]]
        ids == [d \in restaged |-> receipts[d].whole.version]
    IN  /\ kept' = [n \in Names |-> IF keep /\ n \in Present(swapped, restaged) /\ Parkable(n)
                                    THEN Content(n) ELSE kept[n]]
        /\ live' = After(swapped, rows, live)
        /\ marker' = After(swapped, versions, marker)
        /\ relation' = Restaged([d \in restaged |-> [c \in Uses[d] |-> live'[c]]], relation)
        /\ datasetMarker' = Restaged(ids, datasetMarker)
        /\ links' = Restaged(ids, links)

\* publish_datasets, over the manifests and receipts of DOMAIN receipts and the staging tables rows.
PublishDatasets(receipts, rows, keep) ==
    \E merged \in Merges(receipts) :
        Publishable(receipts, merged, rows, keep) /\ Replace(receipts, merged, rows, keep)

\* It raises: a PublishConflict, KeptOldExists, or a table that is not there.
Raises(receipts, rows, keep) ==
    \E merged \in Merges(receipts) : ~Publishable(receipts, merged, rows, keep)

\* The staging tables a publish of receipts renames away.
Consumed(receipts) == UNION {ToSwap(m) : m \in Merges(receipts)}

-------------------------------------------------------------------------------
(* Out of band: somebody drops a table, on PostgreSQL with CASCADE *)

DropComponent(c) ==
    /\ live[c] # None
    /\ live' = [live EXCEPT ![c] = None]
    /\ relation' = [d \in Datasets |-> IF ~ByName /\ d \in ReadersOf(c) THEN None ELSE relation[d]]
    /\ UNCHANGED <<markers, kept>>

DropRelation(d) ==
    /\ relation[d] # None
    /\ relation' = [relation EXCEPT ![d] = None]
    /\ UNCHANGED <<live, markers, kept>>

-------------------------------------------------------------------------------
(* What a publish promises *)

\* A component marker names the rows of its table, while the table exists.
ComponentsVouched == \A c \in Components : marker[c] # None /\ live[c] # None => live[c] = marker[c]

\* A dataset marker names what a reader gets, unless a table under a DuckDB view is missing.
DatasetsVouched ==
    \A d \in Datasets : datasetMarker[d] # None /\ IsView(d) =>
        \A c \in Uses[d] : Reads(d)[c] \in {datasetMarker[d][c], None}
===============================================================================
