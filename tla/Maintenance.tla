----------------------------- MODULE Maintenance ------------------------------
(***************************************************************************)
(* What operators do to published datasets between publishes: publish with *)
(* keep_old, roll back or clean up what was kept (sqlsink/keep_old.py),    *)
(* report what a complete registry no longer wants and prune it            *)
(* (sqlsink/reconcile.py).                                                 *)
(*                                                                         *)
(* Each of them is one transaction under the publish lock, a report reads  *)
(* without it.  Staging and publishing is one step: ViewDatasets is about  *)
(* what happens in between.  PostgreSQL finds the readers of a table by    *)
(* its identity; here they are the relations over its version.             *)
(***************************************************************************)
EXTENDS ViewDatabase

CONSTANTS Legacy,        \* the datasets whose name was a flat table at first
          PlainMarkers,  \* those of them that publish_tables published, with its marker
          Selections,    \* what an operator names in --name: sets of names
          Contents       \* Contents[c]: the versions the source of component c ever has

ASSUME LegacyAssumption == PlainMarkers \subseteq Legacy /\ Legacy \subseteq Datasets
ASSUME SelectionsAssumption == Selections \subseteq SUBSET Names
ASSUME ContentsAssumption == Contents \in [Components -> SUBSET Versions]

VARIABLES
    src,        \* src[c]: the version of the source of component c
    registry,   \* the datasets whose manifests are deployed now
    plain,      \* the names with a row in _pipeline_meta_table_updates
    report,     \* the last ReconciliationReport, or None
    undo        \* auxiliary: what a rollback of everything owes: what a publish with keep_old set
                \* aside, or all that was public before a rollback, over a coherent state, while
                \* nothing else happened to it

opVars == <<src, registry, report>>
vars == <<publicVars, opVars, plain, undo>>

Objects ==
    ({"plain", "plain_marker", "dataset", "dataset_marker"} \X Datasets)
    \union ({"component", "component_marker"} \X Components)
    \union ({"component_link"} \X Datasets \X Components)

\* Types; what is kept is never nothing at all.
MaintenanceTypeOK ==
    /\ TypeOK
    /\ src \in [Components -> Versions]
    /\ registry \subseteq Datasets /\ plain \subseteq PlainMarkers
    /\ report # None => report.desired \subseteq Datasets /\ report.obsolete \subseteq Objects
    /\ undo # None => DOMAIN undo \subseteq Names

Init ==
    /\ DatabaseInit
    /\ relation = [d \in Datasets |-> IF d \in Legacy THEN Flat ELSE None]
    /\ plain = PlainMarkers
    /\ src \in {f \in [Components -> Versions] : \A c \in Components : f[c] \in Contents[c]}
    /\ registry \in SUBSET Datasets \ {{}}
    /\ report = None /\ undo = None

NothingKept == \A n \in Names : kept[n] = None

\* Every view is over the public tables.
Coherent == \A d \in Datasets : IsView(d) => \A c \in Uses[d] : Reads(d)[c] = live[c]

-------------------------------------------------------------------------------
(* Publishing *)

PublishAll(keep) ==
    LET receipts == [d \in registry |-> FreshReceipt(d, src)]
    IN  /\ PublishDatasets(receipts, src, keep)
        /\ undo' = IF keep /\ NothingKept /\ Coherent
                   THEN [n \in {m \in Names : kept'[m] # None} |-> kept'[n]]
                   ELSE None
        /\ UNCHANGED <<opVars, plain>>

-------------------------------------------------------------------------------
(* keep_old.py *)

KeptOf(selection) == {n \in selection : kept[n] # None}

Restore(names, n) == IF n \in names THEN kept[n] ELSE Content(n)

\* Bug: only tables are set aside in turn, the views that are replaced are dropped.
TablesAside(names, n) ==
    IF n \notin names THEN kept[n]
    ELSE IF n \in Components THEN Content(n) ELSE None

\* What is kept once names were restored: what was public under them, but for the views DuckDB drops.
SetAside(names, n) ==
    IF n \notin names THEN kept[n]
    ELSE IF Parkable(n) THEN Content(n) ELSE None

\* Bug: the markers of components are not forgotten.
ForgetDatasetMarkers(names) ==
    /\ datasetMarker' = [d \in Datasets |-> IF d \in names THEN None ELSE datasetMarker[d]]
    /\ links' = [d \in Datasets |-> IF d \in names THEN <<>> ELSE links[d]]
    /\ plain' = plain \ names
    /\ UNCHANGED marker

\* Bug: those of datasets are not.
ForgetComponentMarkers(names) ==
    /\ marker' = [c \in Components |-> IF c \in names THEN None ELSE marker[c]]
    /\ links' = [d \in Datasets |-> IF d \in names THEN <<>> ELSE links[d]]
    /\ plain' = plain \ names
    /\ UNCHANGED datasetMarker

\* _forget_markers: by name, in every marker table and in the links.
ForgetMarkers(names) ==
    /\ marker' = [c \in Components |-> IF c \in names THEN None ELSE marker[c]]
    /\ datasetMarker' = [d \in Datasets |-> IF d \in names THEN None ELSE datasetMarker[d]]
    /\ links' = [d \in Datasets |-> IF d \in names THEN <<>> ELSE links[d]]
    /\ plain' = plain \ names

\* rollback_kept_old: what is public is set aside in turn.
Rollback(selection) ==
    LET names == KeptOf(selection)
    IN  /\ names # {}
        /\ live' = [c \in Components |-> Restore(names, c)]
        /\ relation' = [d \in Datasets |-> Restore(names, d)]
        /\ kept' = [n \in Names |-> SetAside(names, n)]
        /\ ForgetMarkers(names)
        /\ undo' = IF selection = Names /\ Coherent
                   THEN [n \in {m \in Names : Content(m) # None /\ (m \in names => Parkable(m))} |-> Content(n)]
                   ELSE None
        /\ UNCHANGED opVars

\* The kept table of c is what a view reads, not the public one.
ReadsKept(view, c) == view \notin {None, Flat} /\ c \in DOMAIN view /\ view[c] = kept[c] /\ kept[c] # live[c]

\* cleanup_kept_old: views first; PostgreSQL refuses to drop a table that something still reads.
Cleanup(selection) ==
    LET names == KeptOf(selection)
    IN  /\ names # {}
        /\ ~ByName => \A c \in names \intersect Components, d \in Datasets :
                        /\ ~ReadsKept(relation[d], c)
                        /\ d \in names \/ ~ReadsKept(kept[d], c)
        /\ kept' = [n \in Names |-> IF n \in names THEN None ELSE kept[n]]
        /\ undo' = None
        /\ UNCHANGED <<live, relation, markers, opVars, plain>>

-------------------------------------------------------------------------------
(* reconcile.py, on PostgreSQL only *)

\* Bug: the component markers of a manifest are forgotten.
DesiredWithoutComponentMarkers(wanted) ==
    ({"dataset", "dataset_marker"} \X wanted)
    \union ({"component"} \X UNION {Uses[d] : d \in wanted})
    \union UNION {{"component_link"} \X {d} \X Uses[d] : d \in wanted}

\* _desired_objects of the manifests of wanted; no plain table is in the registry.
DesiredObjects(wanted) ==
    ({"dataset", "dataset_marker"} \X wanted)
    \union ({"component", "component_marker"} \X UNION {Uses[d] : d \in wanted})
    \union UNION {{"component_link"} \X {d} \X Uses[d] : d \in wanted}

\* Bug: no links among them.
MarkerRowsWithoutLinks ==
    ({"plain_marker"} \X plain)
    \union ({"dataset_marker"} \X {d \in Datasets : datasetMarker[d] # None})
    \union ({"component_marker"} \X {c \in Components : marker[c] # None})

\* Bug: name and owner of a link swapped.
MarkerRowsSwapped ==
    MarkerRowsWithoutLinks \union UNION {{"component_link"} \X (DOMAIN links[d]) \X {d} : d \in Datasets}

MarkerRows ==
    ({"plain_marker"} \X plain)
    \union ({"dataset_marker"} \X {d \in Datasets : datasetMarker[d] # None})
    \union ({"component_marker"} \X {c \in Components : marker[c] # None})
    \union UNION {{"component_link"} \X {d} \X (DOMAIN links[d]) : d \in Datasets}

\* A public name counts if a marker or the registry knows it; its kind is told from the plain marker.
Inventory(wanted) ==
    LET known == {d \in Datasets : d \in plain \union wanted \/ datasetMarker[d] # None}
        there == {d \in known : relation[d] # None}
    IN  MarkerRows
        \union ({"plain"} \X (there \intersect plain))
        \union ({"dataset"} \X (there \ plain))
        \union ({"component"} \X {c \in Components : live[c] # None})

\* A report with nothing obsolete is not kept: pruning it changes nothing.
Reconcile ==
    /\ ~ByName
    /\ LET obsolete == Inventory(registry) \ DesiredObjects(registry)
       IN  report' = IF obsolete = {} THEN None ELSE [desired |-> registry, obsolete |-> obsolete]
    /\ UNCHANGED <<publicVars, src, registry, plain, undo>>

\* The public table of c is what a view reads.
ReadsLive(view, c) == view \notin {None, Flat} /\ c \in DOMAIN view /\ view[c] = live[c]

\* prune(execute=True): the report's objects, by name; a view that is not dropped makes it fail.
Prune ==
    LET dropped == {d \in Datasets : <<"dataset", d>> \in report.obsolete \/ <<"plain", d>> \in report.obsolete}
        tables == {c \in Components : <<"component", c>> \in report.obsolete}
    IN  /\ report # None
        /\ \A c \in tables, d \in Datasets :
            /\ d \in dropped \/ ~ReadsLive(relation[d], c)
            /\ ~ReadsLive(kept[d], c) \/ ReadsKept(kept[d], c) \/ kept[c] = live[c]
        /\ relation' = [d \in Datasets |-> IF d \in dropped THEN None ELSE relation[d]]
        /\ live' = [c \in Components |-> IF c \in tables THEN None ELSE live[c]]
        /\ marker' = [c \in Components |->
                        IF <<"component_marker", c>> \in report.obsolete THEN None ELSE marker[c]]
        /\ datasetMarker' = [d \in Datasets |->
                        IF <<"dataset_marker", d>> \in report.obsolete THEN None ELSE datasetMarker[d]]
        /\ links' = [d \in Datasets |->
                        [c \in {x \in DOMAIN links[d] : <<"component_link", d, x>> \notin report.obsolete} |->
                            links[d][c]]]
        /\ plain' = {d \in plain : <<"plain_marker", d>> \notin report.obsolete}
        /\ undo' = None
        /\ UNCHANGED <<kept, opVars>>

-------------------------------------------------------------------------------

ChangeSource(c) ==
    /\ \E v \in Contents[c] \ {src[c]} : src' = [src EXCEPT ![c] = v]
    /\ UNCHANGED <<publicVars, registry, plain, report, undo>>

Deploy ==
    /\ registry' \in SUBSET Datasets \ {{}, registry}
    /\ UNCHANGED <<publicVars, src, plain, report, undo>>

Next ==
    \/ \E keep \in BOOLEAN : PublishAll(keep)
    \/ \E selection \in Selections : Rollback(selection) \/ Cleanup(selection)
    \/ Reconcile \/ Prune
    \/ \E c \in Components : ChangeSource(c)
    \/ Deploy

Spec == Init /\ [][Next]_vars

-------------------------------------------------------------------------------
(* Properties *)

\* One generation: a kept relation is dropped by a cleanup only, or it is put back (KeptOldExists).
KeptNotLost ==
    [][\A n \in Names : kept[n] # None /\ kept'[n] # kept[n] =>
        \/ \E selection \in Selections : Cleanup(selection)
        \/ Content(n)' = kept[n]]_vars

\* Rolling back everything that is kept brings back what one publish with keep_old replaced, and doing
\* so again brings back all that was public before that rollback, but for the views DuckDB drops; each
\* view is over tables that are public again (keep_old.py, "the whole previous state is consistent",
\* "so the rollback can itself be undone by calling this again").
RollbackRestores ==
    [][(undo # None /\ Rollback(Names)) =>
        /\ \A n \in DOMAIN undo : Content(n)' = undo[n]
        /\ \A d \in DOMAIN undo \intersect Datasets :
            IsView(d)' => \A c \in Uses[d] : Reads(d)'[c] = live'[c]]_vars

\* Whatever was rolled back, cleaned up or pruned: a registry with every published dataset in it
\* can be published again, it is not refused (keep_old.py, "the next run re-stages and republishes them").
Republishable ==
    {d \in Datasets : IsView(d) \/ datasetMarker[d] # None} \subseteq registry =>
        ~Raises([d \in registry |-> FreshReceipt(d, src)], src, FALSE)

\* The markers of a dataset and of its components tell the same versions.
MarkersAgree ==
    \A d \in Datasets : datasetMarker[d] # None => \A c \in Uses[d] : marker[c] = datasetMarker[d][c]

\* The same, while no rollback has left a dataset marker without those of its components.
RepublishableWhileMarkersAgree == MarkersAgree => Republishable

\* What a prune must leave alone: the relations, the tables and the markers of these datasets.
Untouched(datasets) ==
    \A d \in datasets :
        /\ relation'[d] = relation[d] /\ datasetMarker'[d] = datasetMarker[d]
        /\ \A c \in Uses[d] : live'[c] = live[c] /\ marker'[c] = marker[c]

\* Prune leaves alone the published datasets that its report desired, whatever happened since the report
\* (plan-authoritative-pruning.md: prune is to "remove obsolete loader-owned objects and markers").
PruneKeepsPublished == [][Prune => Untouched({d \in report.desired : IsView(d)})]_vars

\* Prune leaves alone all that its report desired, published or not, of the datasets whose name was
\* never that of a table with a plain marker.
PruneKeepsDatasets == [][Prune => Untouched({d \in report.desired : d \notin PlainMarkers})]_vars
===============================================================================
