-------------------------- MODULE Maintenance_proofs --------------------------
(***************************************************************************)
(* Theorems about Maintenance for every set of datasets over every set of  *)
(* components and whatever operators select.                               *)
(***************************************************************************)
EXTENDS Maintenance, ViewDatabase_proofs

\* The links of a dataset are its marker's versions, and a flat table has no dataset marker.
LinksFollow ==
    \A d \in Datasets : /\ links[d] = IF datasetMarker[d] = None THEN <<>> ELSE datasetMarker[d]
                        /\ relation[d] = Flat => datasetMarker[d] = None

\* A report is of PostgreSQL, has nothing in it that its registry desired and, of a dataset, all
\* its marker rows or none.
ReportSound ==
    report # None =>
        /\ ~ByName
        /\ report.obsolete \intersect DesiredObjects(report.desired) = {}
        /\ \A d \in Datasets :
            /\ <<"plain", d>> \in report.obsolete => d \in PlainMarkers
            /\ \A c \in Uses[d] : <<"component_link", d, c>> \in report.obsolete
                                      <=> <<"dataset_marker", d>> \in report.obsolete

\* Where the markers of a dataset and of a component agree, the table is there.
LiveWhileAgreed ==
    \A d \in Datasets : datasetMarker[d] # None /\ relation[d] # None =>
        \A c \in Uses[d] : marker[c] = datasetMarker[d][c] => live[c] # None

\* What is public under n after everything that is kept is rolled back.
Due(n) == IF kept[n] # None THEN kept[n] ELSE Content(n)

\* It is what such a rollback owes, and the views among that are over the tables then public.
UndoSound ==
    undo # None =>
        /\ \A n \in DOMAIN undo : undo[n] = Due(n)
        /\ \A d \in DOMAIN undo \intersect Datasets :
               undo[d] \notin {None, Flat} /\ ~BoundByName(d) => \A c \in Uses[d] : undo[d][c] = Due(c)

PublicInv ==
    /\ TypeOK /\ ComponentsVouched /\ LinksFollow /\ LiveWhileAgreed
    /\ ~ByName => DatasetsVouched

IInv == MaintenanceTypeOK /\ PublicInv /\ ReportSound /\ UndoSound

\* The receipts of a run over the registry.
Fresh == [d \in registry |-> FreshReceipt(d, src)]

\* What is owed stays so while nothing public changes.
LEMMA StillOwed ==
    ASSUME UndoSound, UNCHANGED <<publicVars, undo>>
    PROVE  UndoSound'
  <1>1. \A n : Due(n)' = Due(n)
    BY DEF publicVars, Due, Content
  <1>2. \A d : BoundByName(d)' = BoundByName(d)
    BY DEF BoundByName
  <1>3. undo' = undo
    OBVIOUS
  <1>4. QED
    BY <1>1, <1>2, <1>3 DEF UndoSound

-------------------------------------------------------------------------------
(* Publishing *)

\* The receipts of a run over the registry are about the sources, one per component used.
LEMMA FreshWellFormed ==
    ASSUME MaintenanceTypeOK
    PROVE  /\ WellFormed(Fresh) /\ RowsStaged(Fresh, src)
           /\ src \in [Components -> Versions \union {None}]
           /\ DOMAIN Fresh = registry
           /\ \A d \in registry : /\ Fresh[d].whole = ViewReceipt(d, Over(src, d))
                                  /\ \A c \in Uses[d] : Fresh[d].parts[c] = ComponentReceipt(c, src[c])
  <1>1. TypeOK /\ registry \subseteq Datasets /\ src \in [Components -> Versions]
    BY DEF MaintenanceTypeOK
  <1>2. \A d \in registry :
            /\ FreshReceipt(d, src).parts \in [Uses[d] -> Receipts(Versions)]
            /\ FreshReceipt(d, src).whole \in Receipts(Ids(d))
            /\ \A c \in Uses[d] : FreshReceipt(d, src).parts[c].version = src[c]
            /\ \A c \in Uses[d] : FreshReceipt(d, src).parts[c] = ComponentReceipt(c, src[c])
            /\ FreshReceipt(d, src).whole = ViewReceipt(d, Over(src, d))
    BY <1>1, FreshReceiptType DEF Over
  <1>3. QED
    BY <1>1, <1>2 DEF Fresh, WellFormed, RowsStaged

\* A publish with any receipts over rows that are staged keeps what is public sound.
LEMMA PublishPublic ==
    ASSUME PublicInv, NEW receipts, WellFormed(receipts),
           NEW rows \in [Components -> Versions \union {None}], RowsStaged(receipts, rows),
           NEW keep \in BOOLEAN, PublishDatasets(receipts, rows, keep)
    PROVE  PublicInv'
  <1>1. LinksCover
    BY ValuesAssumption DEF PublicInv, TypeOK, LinksFollow, LinksCover, Ids
  <1>2. TypeOK' /\ ComponentsVouched' /\ (~ByName => DatasetsVouched')
    BY <1>1, PublishTypes, PublishVouchesComponents, PublishVouchesDatasets DEF PublicInv
  <1>3. ASSUME NEW d \in Datasets
        PROVE  /\ (links[d] = IF datasetMarker[d] = None THEN <<>> ELSE datasetMarker[d])'
               /\ relation'[d] = Flat => datasetMarker'[d] = None
               /\ datasetMarker'[d] # None /\ relation'[d] # None =>
                      \A c \in Uses[d] : marker'[c] = datasetMarker'[d][c] => live'[c] # None
    <2>1. CASE /\ relation'[d] = Over(live', d)
               /\ \A c \in Uses[d] : live'[c] # None
               /\ datasetMarker'[d] \in Ids(d) /\ links'[d] = datasetMarker'[d]
      <3>1. datasetMarker'[d] # None
        BY <2>1, ValuesAssumption DEF Ids
      <3>2. relation'[d] # Flat
        <4>1. \A c \in Uses[d] : live'[c] \in Versions
          BY <1>2, <2>1, UsesAssumption DEF TypeOK
        <4>2. Over(live', d) \in [Uses[d] -> Versions]
          BY <4>1 DEF Over
        <4>3. QED
          BY <2>1, <4>2, ValuesAssumption
      <3>3. QED
        BY <2>1, <3>1, <3>2
    <2>2. CASE /\ relation'[d] = relation[d]
               /\ datasetMarker'[d] = datasetMarker[d] /\ links'[d] = links[d]
               /\ d \in DOMAIN receipts \/ datasetMarker[d] # None =>
                      \A c \in Uses[d] : live'[c] = live[c] /\ marker'[c] = marker[c]
      BY <2>2 DEF PublicInv, LinksFollow, LiveWhileAgreed
    <2>3. QED
      BY ONLY <2>1, <2>2, <1>1, PublicInv, WellFormed(receipts), rows \in [Components -> Versions \union {None}],
         keep \in BOOLEAN, PublishDatasets(receipts, rows, keep), PublishViews DEF PublicInv
  <1>4. QED
    BY <1>2, <1>3 DEF PublicInv, LinksFollow, LiveWhileAgreed

\* What a publish with keep_old sets aside, over a database in which every view is over the
\* public tables and nothing was kept, are views and the tables they are over.
LEMMA PublishSetsAside ==
    ASSUME TypeOK, NothingKept, Coherent, NEW receipts, WellFormed(receipts),
           NEW rows \in [Components -> Versions \union {None}],
           PublishDatasets(receipts, rows, TRUE),
           NEW d \in Datasets, kept'[d] \notin {None, Flat}, NEW c \in Uses[d]
    PROVE  kept'[d][c] = Due(c)'
  <1>1. PICK swapped, restaged, versions : PublishedAs(swapped, restaged, versions, receipts, rows, TRUE)
    BY PublishEffect
  <1> DEFINE present == {x \in swapped : live[x] # None} \union {x \in restaged : relation[x] # None}
  <1>2. kept' = [n \in Names |-> IF Parkable(n) /\ n \in present THEN Content(n) ELSE kept[n]]
    BY <1>1 DEF PublishedAs
  <1>3. c \in Components /\ c \in Names /\ d \in Names /\ d \notin Components
    BY UsesAssumption, NamesAssumption DEF Names
  <1>4. kept[c] = None /\ kept[d] = None
    BY <1>3 DEF NothingKept
  <1>5. Parkable(d) /\ kept'[d] = relation[d] /\ IsView(d)
    BY <1>2, <1>3, <1>4 DEF Content, IsView
  <1>6. relation[d][c] = live[c] /\ live[c] \in Versions
    <2>1. Reads(d) = relation[d]
      BY <1>3, <1>5 DEF Parkable, Reads, BoundByName, IsView
    <2>2. relation[d] \in [Uses[d] -> Versions]
      BY <1>5 DEF IsView, TypeOK, Ids
    <2>3. QED
      BY <1>5, <2>1, <2>2 DEF Coherent
  <1>7. CASE c \in swapped
    BY <1>2, <1>3, <1>5, <1>6, <1>7, ValuesAssumption DEF Parkable, Content, Due
  <1>8. CASE c \notin swapped
    <2>1. c \notin present
      BY <1>1, <1>3, <1>8, NamesAssumption DEF PublishedAs, WellFormed
    <2>2. kept'[c] = None
      BY <1>2, <1>3, <1>4, <2>1
    <2>3. live'[c] = live[c]
      BY <1>1, <1>3, <1>8 DEF PublishedAs
    <2>4. QED
      BY <1>3, <1>5, <1>6, <2>2, <2>3 DEF Due, Content
  <1>9. QED
    BY <1>7, <1>8

\* publish_datasets over the registry, with or without keep_old.
LEMMA PublishStep == ASSUME IInv, NEW keep \in BOOLEAN, PublishAll(keep) PROVE IInv'
  <1>1. PublishDatasets(Fresh, src, keep) /\ UNCHANGED <<src, registry, report, plain>>
    BY DEF PublishAll, Fresh, opVars
  <1>2. /\ WellFormed(Fresh) /\ RowsStaged(Fresh, src)
        /\ src \in [Components -> Versions \union {None}]
    BY FreshWellFormed DEF IInv
  <1>3. PublicInv'
    BY <1>1, <1>2, PublishPublic DEF IInv
  <1>4. undo' # None => /\ keep /\ NothingKept /\ Coherent
                        /\ undo' = [n \in {m \in Names : kept'[m] # None} |-> kept'[n]]
    BY DEF PublishAll
  <1>5. MaintenanceTypeOK'
    BY <1>1, <1>3, <1>4 DEF IInv, MaintenanceTypeOK, PublicInv
  <1>6. UndoSound'
    <2>1. SUFFICES ASSUME undo' # None
                   PROVE  /\ \A n \in DOMAIN undo' : undo'[n] = Due(n)'
                          /\ \A d \in DOMAIN undo' \intersect Datasets :
                                 undo'[d] \notin {None, Flat} => \A c \in Uses[d] : undo'[d][c] = Due(c)'
      BY DEF UndoSound
    <2>2. \A n \in DOMAIN undo' : undo'[n] = kept'[n] /\ kept'[n] # None
      BY <1>4, <2>1
    <2>3. ASSUME NEW d \in DOMAIN undo' \intersect Datasets, undo'[d] \notin {None, Flat}, NEW c \in Uses[d]
          PROVE  undo'[d][c] = Due(c)'
      <3>1. kept'[d] \notin {None, Flat} /\ undo'[d] = kept'[d]
        BY <2>2, <2>3
      <3>2. PublishDatasets(Fresh, src, TRUE) /\ NothingKept /\ Coherent /\ TypeOK
        BY <1>1, <1>4, <2>1 DEF IInv, PublicInv
      <3>3. QED
        BY <1>2, <3>1, <3>2, PublishSetsAside
    <2>4. QED
      BY <2>2, <2>3 DEF Due
  <1>7. ReportSound'
    BY <1>1 DEF IInv, ReportSound, DesiredObjects
  <1>8. QED
    BY <1>3, <1>5, <1>6, <1>7 DEF IInv

-------------------------------------------------------------------------------
(* Rolling back and cleaning up *)

\* What is public before a rollback of everything, over a coherent state, is what a second one owes.
LEMMA RollbackOwes ==
    ASSUME TypeOK, NEW selection \in SUBSET Names, Rollback(selection)
    PROVE  UndoSound'
  <1>1. SUFFICES ASSUME undo' # None PROVE UndoSound'
    BY DEF UndoSound
  <1>2. PICK names : /\ names = KeptOf(Names)
                     /\ Coherent
                     /\ live' = [c \in Components |-> Restore(names, c)]
                     /\ relation' = [d \in Datasets |-> Restore(names, d)]
                     /\ kept' = [n \in Names |-> SetAside(names, n)]
                     /\ undo' = [n \in {m \in Names : Content(m) # None /\ (m \in names => Parkable(m))} |->
                                    Content(n)]
    BY <1>1 DEF Rollback
  <1>3. \A d \in Datasets : d \notin Components
    BY NamesAssumption
  <1>4. ASSUME NEW n \in Names PROVE n \notin names => Content(n)' = Content(n) /\ kept'[n] = None
    BY <1>2, <1>3 DEF Content, Restore, SetAside, KeptOf, Names
  <1>5. ASSUME NEW n \in Names, Content(n) # None, n \in names => Parkable(n) PROVE Due(n)' = Content(n)
    <2>1. CASE n \in names
      BY <1>2, <1>5, <2>1 DEF Due, SetAside
    <2>2. CASE n \notin names
      BY <1>4, <2>2 DEF Due
    <2>3. QED
      BY <2>1, <2>2
  <1>6. ASSUME NEW d \in DOMAIN undo' \intersect Datasets, undo'[d] \notin {None, Flat}, ~BoundByName(d),
               NEW c \in Uses[d]
        PROVE  undo'[d][c] = Due(c)'
    <2>1. undo'[d] = relation[d] /\ c \in Components /\ c \in Names
      BY <1>2, <1>3, <1>6, UsesAssumption DEF Content, Names
    <2>2. relation[d] \in [Uses[d] -> Versions]
      BY <1>6, <2>1 DEF TypeOK, Ids
    <2>3. relation[d][c] = live[c]
      BY <1>2, <1>6, <2>1 DEF Coherent, IsView, Reads
    <2>4. Content(c) = live[c] /\ Content(c) # None /\ Parkable(c)
      BY <2>1, <2>2, <2>3, ValuesAssumption DEF Content, Parkable
    <2>5. QED
      BY <1>5, <2>1, <2>3, <2>4
  <1>7. QED
    BY <1>2, <1>5, <1>6 DEF UndoSound, BoundByName

\* A rollback brings relations back and forgets the markers of those.
LEMMA RollbackStep == ASSUME IInv, NEW selection \in SUBSET Names, Rollback(selection) PROVE IInv'
  <1>1. PICK names : /\ names = KeptOf(selection)
                     /\ live' = [c \in Components |-> Restore(names, c)]
                     /\ relation' = [d \in Datasets |-> Restore(names, d)]
                     /\ kept' = [n \in Names |-> IF n \notin names THEN kept[n]
                                                 ELSE IF Parkable(n) THEN Content(n) ELSE None]
                     /\ ForgetMarkers(names)
                     /\ UNCHANGED opVars
    BY DEF Rollback, SetAside
  <1>2. \A d \in Datasets : d \notin Components
    BY NamesAssumption
  <1>3. names \subseteq Names /\ Components \subseteq Names /\ Datasets \subseteq Names
    BY <1>1 DEF KeptOf, Names
  <1>4. \A c \in Components : /\ live'[c] = IF c \in names THEN kept[c] ELSE live[c]
                              /\ marker'[c] = IF c \in names THEN None ELSE marker[c]
    BY <1>1 DEF Restore, Content, ForgetMarkers
  <1>5. \A d \in Datasets : /\ relation'[d] = IF d \in names THEN kept[d] ELSE relation[d]
                            /\ datasetMarker'[d] = IF d \in names THEN None ELSE datasetMarker[d]
                            /\ links'[d] = IF d \in names THEN <<>> ELSE links[d]
    BY <1>1, <1>2 DEF Restore, Content, ForgetMarkers
  <1>6. /\ DOMAIN live' = Components /\ live' = [c \in Components |-> live'[c]]
        /\ DOMAIN marker' = Components /\ marker' = [c \in Components |-> marker'[c]]
        /\ DOMAIN relation' = Datasets /\ DOMAIN datasetMarker' = Datasets /\ DOMAIN links' = Datasets
        /\ DOMAIN kept' = Names
    BY <1>1 DEF ForgetMarkers
  <1>7. TypeOK'
    <2>1. /\ live' \in [Components -> Versions \union {None}]
          /\ marker' \in [Components -> Versions \union {None}]
      BY <1>4, <1>6 DEF IInv, PublicInv, TypeOK
    <2>2. <<>> \in [{} -> Versions]
      OBVIOUS
    <2>3. ASSUME NEW d \in Datasets
          PROVE  /\ relation'[d] \in Ids(d) \union {None, Flat}
                 /\ datasetMarker'[d] \in Ids(d) \union {None}
                 /\ \E S \in SUBSET Uses[d] : links'[d] \in [S -> Versions]
      BY <1>5, <2>2 DEF IInv, PublicInv, TypeOK
    <2>4. \A c \in Components : kept'[c] \in Versions \union {None}
      BY <1>1, <1>3 DEF IInv, PublicInv, TypeOK, Content
    <2>5. \A d \in Datasets : kept'[d] \in Ids(d) \union {None, Flat}
      BY <1>1, <1>2, <1>3 DEF IInv, PublicInv, TypeOK, Content
    <2>6. QED
      BY <1>6, <2>1, <2>3, <2>4, <2>5 DEF TypeOK
  <1>8. ComponentsVouched'
    BY <1>4 DEF IInv, PublicInv, ComponentsVouched
  <1>9. LinksFollow'
    BY <1>5 DEF IInv, PublicInv, LinksFollow
  <1>10. LiveWhileAgreed'
    <2>1. ASSUME NEW d \in Datasets, datasetMarker'[d] # None, relation'[d] # None,
                 NEW c \in Uses[d], marker'[c] = datasetMarker'[d][c]
          PROVE  live'[c] # None
      <3>1. d \notin names /\ datasetMarker[d] # None /\ relation[d] # None
        BY <1>5, <2>1
      <3>2. c \in Components /\ datasetMarker[d][c] \in Versions
        BY <3>1, UsesAssumption DEF IInv, PublicInv, TypeOK, Ids
      <3>3. c \notin names /\ marker[c] = datasetMarker[d][c]
        BY <1>4, <1>5, <2>1, <3>1, <3>2, ValuesAssumption
      <3>4. QED
        BY <1>4, <3>1, <3>2, <3>3 DEF IInv, PublicInv, LiveWhileAgreed
    <2>2. QED
      BY <2>1 DEF LiveWhileAgreed
  <1>11. ~ByName => DatasetsVouched'
    BY <1>5 DEF IInv, PublicInv, DatasetsVouched, IsView, Reads, BoundByName
  <1>12. MaintenanceTypeOK'
    <2>1. undo' # None => DOMAIN undo' \subseteq Names
      BY DEF Rollback
    <2>2. QED
      BY <1>1, <1>7, <2>1 DEF IInv, MaintenanceTypeOK, opVars, ForgetMarkers
  <1>13. ReportSound' /\ UndoSound'
    BY <1>1, RollbackOwes DEF IInv, PublicInv, ReportSound, opVars, DesiredObjects
  <1>14. QED
    BY <1>7, <1>8, <1>9, <1>10, <1>11, <1>12, <1>13 DEF IInv, PublicInv

\* A step that leaves the public side alone, but for what is kept.
LEMMA PublicKept ==
    ASSUME PublicInv, UNCHANGED <<live, relation, markers>>,
           DOMAIN kept' = Names, \A n \in Names : kept'[n] \in {kept[n], None}
    PROVE  PublicInv'
  <1>1. TypeOK'
    BY DEF PublicInv, TypeOK, markers, Names
  <1>2. QED
    BY <1>1 DEF PublicInv, ComponentsVouched, DatasetsVouched, LinksFollow, LiveWhileAgreed, IsView, Reads, markers

\* cleanup_kept_old drops what is kept and leaves what is public alone.
LEMMA CleanupStep == ASSUME IInv, NEW selection \in SUBSET Names, Cleanup(selection) PROVE IInv'
  <1>1. /\ DOMAIN kept' = Names /\ \A n \in Names : kept'[n] \in {kept[n], None}
        /\ undo' = None
        /\ UNCHANGED <<live, relation, markers, opVars, plain>>
    BY DEF Cleanup
  <1>2. PublicInv'
    BY <1>1, PublicKept DEF IInv
  <1>3. QED
    BY <1>1, <1>2 DEF IInv, MaintenanceTypeOK, PublicInv, ReportSound, UndoSound, opVars, DesiredObjects

-------------------------------------------------------------------------------
(* Reconciling *)

\* What an inventory can list.
LEMMA InventoryIs ==
    ASSUME MaintenanceTypeOK, LinksFollow, NEW wanted \in SUBSET Datasets
    PROVE  /\ Inventory(wanted) \subseteq Objects
           /\ \A d \in Datasets :
               /\ <<"plain", d>> \in Inventory(wanted) => d \in plain
               /\ <<"dataset_marker", d>> \in Inventory(wanted) <=> datasetMarker[d] # None
               /\ \A c \in Uses[d] : <<"component_link", d, c>> \in Inventory(wanted)
                                         <=> datasetMarker[d] # None
  <1>1. \A d \in Datasets : DOMAIN links[d] = IF datasetMarker[d] = None THEN {} ELSE Uses[d]
    BY DEF MaintenanceTypeOK, TypeOK, LinksFollow, Ids
  <1>2. plain \subseteq Datasets
    BY LegacyAssumption DEF MaintenanceTypeOK
  <1>3. Inventory(wanted) \subseteq Objects
    BY <1>1, <1>2, UsesAssumption DEF Inventory, MarkerRows, Objects
  <1>4. ASSUME NEW d \in Datasets
        PROVE  /\ <<"plain", d>> \in Inventory(wanted) => d \in plain
               /\ <<"dataset_marker", d>> \in Inventory(wanted) <=> datasetMarker[d] # None
    BY DEF Inventory, MarkerRows
  <1>5. ASSUME NEW d \in Datasets, NEW c \in Uses[d]
        PROVE  <<"component_link", d, c>> \in Inventory(wanted) <=> datasetMarker[d] # None
    BY <1>1 DEF Inventory, MarkerRows
  <1>6. QED
    BY <1>3, <1>4, <1>5

\* What a registry wants.
LEMMA DesiredAre ==
    ASSUME NEW wanted \in SUBSET Datasets, NEW d \in Datasets
    PROVE  /\ <<"plain", d>> \notin DesiredObjects(wanted)
           /\ <<"dataset", d>> \in DesiredObjects(wanted) <=> d \in wanted
           /\ <<"dataset_marker", d>> \in DesiredObjects(wanted) <=> d \in wanted
           /\ \A c \in Uses[d] : <<"component_link", d, c>> \in DesiredObjects(wanted) <=> d \in wanted
           /\ d \in wanted => \A c \in Uses[d] : /\ <<"component", c>> \in DesiredObjects(wanted)
                                                 /\ <<"component_marker", c>> \in DesiredObjects(wanted)
  BY DEF DesiredObjects

\* A report changes nothing.
LEMMA ReconcileStep == ASSUME IInv, Reconcile PROVE IInv'
  <1>1. PICK obsolete :
            /\ obsolete = Inventory(registry) \ DesiredObjects(registry)
            /\ report' = IF obsolete = {} THEN None ELSE [desired |-> registry, obsolete |-> obsolete]
            /\ ~ByName
            /\ UNCHANGED <<publicVars, src, registry, plain, undo>>
    BY DEF Reconcile
  <1>2. registry \subseteq Datasets /\ plain \subseteq PlainMarkers
    BY DEF IInv, MaintenanceTypeOK
  <1>3. PublicInv'
    BY <1>1 DEF publicVars, markers, IInv, PublicInv, TypeOK, ComponentsVouched, DatasetsVouched, LinksFollow,
                LiveWhileAgreed, IsView, Reads
  <1>4. /\ obsolete \subseteq Objects
        /\ obsolete \intersect DesiredObjects(registry) = {}
        /\ \A d \in Datasets :
            /\ <<"plain", d>> \in obsolete => d \in PlainMarkers
            /\ \A c \in Uses[d] : <<"component_link", d, c>> \in obsolete <=> <<"dataset_marker", d>> \in obsolete
    <2>1. /\ Inventory(registry) \subseteq Objects
          /\ \A d \in Datasets :
              /\ <<"plain", d>> \in Inventory(registry) => d \in plain
              /\ <<"dataset_marker", d>> \in Inventory(registry) <=> datasetMarker[d] # None
              /\ \A c \in Uses[d] : <<"component_link", d, c>> \in Inventory(registry)
                                        <=> datasetMarker[d] # None
      BY <1>2, InventoryIs DEF IInv, PublicInv
    <2>2. \A d \in Datasets :
              /\ <<"dataset_marker", d>> \in DesiredObjects(registry) <=> d \in registry
              /\ \A c \in Uses[d] : <<"component_link", d, c>> \in DesiredObjects(registry) <=> d \in registry
      BY <1>2, DesiredAre
    <2>3. QED
      BY <1>1, <1>2, <2>1, <2>2
  <1>5. report' # None => report' = [desired |-> registry, obsolete |-> obsolete]
    BY <1>1
  <1>6. ReportSound'
    BY <1>1, <1>4, <1>5 DEF ReportSound, DesiredObjects
  <1>7. MaintenanceTypeOK'
    BY <1>1, <1>2, <1>3, <1>4, <1>5 DEF IInv, MaintenanceTypeOK, PublicInv, publicVars
  <1>8. UndoSound'
    BY <1>1, StillOwed DEF IInv
  <1>9. QED
    BY <1>3, <1>6, <1>7, <1>8 DEF IInv

Restricted(f, S) == [c \in S |-> f[c]]

\* No link is left, or all of them.
LEMMA RestrictedLinks ==
    ASSUME NEW f, NEW S
    PROVE  /\ S = {} => Restricted(f, S) = <<>>
           /\ \A T : f \in [S -> T] => Restricted(f, S) = f
  BY DEF Restricted

\* The links of d that the last report does not list.
LinksLeft(d) == {c \in DOMAIN links[d] : <<"component_link", d, c>> \notin report.obsolete}

\* What a prune leaves: an object of the report is gone, every other as it was.
LEMMA PruneEffect ==
    ASSUME Prune
    PROVE  /\ report # None /\ UNCHANGED <<kept, opVars>> /\ undo' = None
           /\ \A c \in Components :
               /\ live'[c] = IF <<"component", c>> \in report.obsolete THEN None ELSE live[c]
               /\ marker'[c] = IF <<"component_marker", c>> \in report.obsolete THEN None ELSE marker[c]
           /\ \A d \in Datasets :
               /\ relation'[d] = IF <<"dataset", d>> \in report.obsolete \/ <<"plain", d>> \in report.obsolete
                                 THEN None ELSE relation[d]
               /\ datasetMarker'[d] = IF <<"dataset_marker", d>> \in report.obsolete
                                      THEN None ELSE datasetMarker[d]
               /\ links'[d] = Restricted(links[d], LinksLeft(d))
           /\ plain' \subseteq plain
           /\ DOMAIN live' = Components /\ live' = [c \in Components |-> live'[c]]
           /\ DOMAIN marker' = Components /\ marker' = [c \in Components |-> marker'[c]]
           /\ DOMAIN relation' = Datasets /\ DOMAIN datasetMarker' = Datasets /\ DOMAIN links' = Datasets
           /\ \A c \in Components, d \in Datasets :
               <<"component", c>> \in report.obsolete /\ relation'[d] # None => ~ReadsLive(relation[d], c)
  <1>1. /\ report # None /\ UNCHANGED <<kept, opVars>> /\ undo' = None
        /\ plain' \subseteq plain
    BY DEF Prune
  <1>2. /\ \A c \in Components :
               /\ live'[c] = IF <<"component", c>> \in report.obsolete THEN None ELSE live[c]
               /\ marker'[c] = IF <<"component_marker", c>> \in report.obsolete THEN None ELSE marker[c]
        /\ DOMAIN live' = Components /\ live' = [c \in Components |-> live'[c]]
        /\ DOMAIN marker' = Components /\ marker' = [c \in Components |-> marker'[c]]
    BY DEF Prune
  <1>3. /\ \A d \in Datasets :
               /\ relation'[d] = IF <<"dataset", d>> \in report.obsolete \/ <<"plain", d>> \in report.obsolete
                                 THEN None ELSE relation[d]
               /\ datasetMarker'[d] = IF <<"dataset_marker", d>> \in report.obsolete
                                      THEN None ELSE datasetMarker[d]
        /\ DOMAIN relation' = Datasets /\ DOMAIN datasetMarker' = Datasets /\ DOMAIN links' = Datasets
    BY DEF Prune
  <1>4. \A d \in Datasets : links'[d] = Restricted(links[d], LinksLeft(d))
    BY DEF Prune, Restricted, LinksLeft
  <1>5. ASSUME NEW c \in Components, NEW d \in Datasets,
               <<"component", c>> \in report.obsolete, relation'[d] # None
        PROVE  ~ReadsLive(relation[d], c)
    BY <1>3, <1>5 DEF Prune
  <1>6. QED
    BY <1>1, <1>2, <1>3, <1>4, <1>5

\* Prune drops the relations and the markers that its report named.
LEMMA PruneStep == ASSUME IInv, Prune PROVE IInv'
  <1> USE PruneEffect
  <1>1. /\ UNCHANGED <<kept, src, registry, report>> /\ undo' = None /\ plain' \subseteq plain
        /\ \A c \in Components : live'[c] \in {live[c], None} /\ marker'[c] \in {marker[c], None}
        /\ \A d \in Datasets : relation'[d] \in {relation[d], None}
                               /\ datasetMarker'[d] \in {datasetMarker[d], None}
    BY DEF opVars
  <1>2. ReportSound /\ report # None /\ ~ByName
    BY DEF IInv, ReportSound
  <1>3. ASSUME NEW d \in Datasets
        PROVE  links'[d] = IF datasetMarker'[d] = None THEN <<>> ELSE datasetMarker'[d]
    <2>1. CASE datasetMarker[d] = None
      <3>1. LinksLeft(d) = {}
        BY <2>1 DEF IInv, PublicInv, LinksFollow, LinksLeft
      <3>2. Restricted(links[d], LinksLeft(d)) = <<>>
        BY ONLY <3>1, RestrictedLinks
      <3>3. QED
        BY <1>1, <2>1, <3>2
    <2>2. CASE datasetMarker[d] # None
      <3>1. links[d] = datasetMarker[d] /\ datasetMarker[d] \in [Uses[d] -> Versions]
        BY <2>2 DEF IInv, PublicInv, LinksFollow, TypeOK, Ids
      <3>2. CASE <<"dataset_marker", d>> \in report.obsolete
        <4>1. LinksLeft(d) = {}
          BY <1>2, <3>1, <3>2 DEF ReportSound, LinksLeft
        <4>2. Restricted(links[d], LinksLeft(d)) = <<>>
          BY ONLY <4>1, RestrictedLinks
        <4>3. QED
          BY <3>2, <4>2
      <3>3. CASE <<"dataset_marker", d>> \notin report.obsolete
        <4>1. LinksLeft(d) = Uses[d]
          BY <1>2, <3>1, <3>3 DEF ReportSound, LinksLeft
        <4>2. links[d] \in [Uses[d] -> Versions]
          BY ONLY <3>1
        <4>3. Restricted(links[d], Uses[d]) = links[d]
          BY ONLY <4>2, RestrictedLinks
        <4>4. links'[d] = links[d]
          BY <4>1, <4>3
        <4>5. QED
          BY <2>2, <3>1, <3>3, <4>4
      <3>4. QED
        BY <3>2, <3>3
    <2>3. QED
      BY <2>1, <2>2
  <1>4. TypeOK'
    <2>1. /\ live' \in [Components -> Versions \union {None}]
          /\ marker' \in [Components -> Versions \union {None}]
      BY <1>1 DEF IInv, PublicInv, TypeOK
    <2>2. <<>> \in [{} -> Versions]
      OBVIOUS
    <2>3. ASSUME NEW d \in Datasets
          PROVE  /\ relation'[d] \in Ids(d) \union {None, Flat}
                 /\ datasetMarker'[d] \in Ids(d) \union {None}
                 /\ \E S \in SUBSET Uses[d] : links'[d] \in [S -> Versions]
      <3>1. /\ relation[d] \in Ids(d) \union {None, Flat}
            /\ datasetMarker[d] \in Ids(d) \union {None}
        BY DEF IInv, PublicInv, TypeOK
      <3>2. /\ relation'[d] \in {relation[d], None}
            /\ datasetMarker'[d] \in {datasetMarker[d], None}
        BY ONLY <1>1
      <3>3. /\ relation'[d] \in Ids(d) \union {None, Flat}
            /\ datasetMarker'[d] \in Ids(d) \union {None}
        BY ONLY <3>1, <3>2
      <3>4. CASE datasetMarker'[d] = None
        <4>1. links'[d] = <<>>
          BY ONLY <1>3, <3>4
        <4>2. {} \in SUBSET Uses[d]
          OBVIOUS
        <4>3. QED
          BY ONLY <2>2, <3>3, <4>1, <4>2
      <3>5. CASE datasetMarker'[d] # None
        <4>1. links'[d] = datasetMarker'[d]
          BY ONLY <1>3, <3>5
        <4>2. links'[d] \in [Uses[d] -> Versions]
          BY ONLY <3>3, <3>5, <4>1 DEF Ids
        <4>3. Uses[d] \in SUBSET Uses[d]
          OBVIOUS
        <4>4. QED
          BY ONLY <3>3, <4>2, <4>3
      <3>6. QED
        BY ONLY <3>4, <3>5
    <2>4. QED
      BY <1>1, <2>1, <2>3 DEF IInv, PublicInv, TypeOK
  <1>5. ComponentsVouched'
    BY <1>1 DEF IInv, PublicInv, ComponentsVouched
  <1>6. LinksFollow'
    BY <1>1, <1>3, ValuesAssumption DEF IInv, PublicInv, LinksFollow
  <1>7. DatasetsVouched'
    BY <1>1, <1>2 DEF IInv, PublicInv, DatasetsVouched, IsView, Reads, BoundByName
  <1>8. LiveWhileAgreed'
    <2>1. ASSUME NEW d \in Datasets, datasetMarker'[d] # None, relation'[d] # None,
                 NEW c \in Uses[d], marker'[c] = datasetMarker'[d][c]
          PROVE  live'[c] # None
      <3>1. /\ datasetMarker'[d] = datasetMarker[d] /\ datasetMarker[d] # None
            /\ relation'[d] = relation[d] /\ IsView(d)
        BY <1>1, <2>1 DEF IsView, IInv, PublicInv, LinksFollow
      <3>2. c \in Components /\ datasetMarker[d][c] \in Versions
        BY <3>1, UsesAssumption DEF IInv, PublicInv, TypeOK, Ids
      <3>3. marker[c] = datasetMarker[d][c] /\ marker[c] # None
        BY <1>1, <2>1, <3>1, <3>2, ValuesAssumption
      <3>4. live[c] # None /\ live[c] = marker[c]
        BY <3>1, <3>2, <3>3 DEF IsView, IInv, PublicInv, LiveWhileAgreed, ComponentsVouched
      <3>5. DOMAIN relation[d] = Uses[d] /\ relation[d][c] \in Versions
        BY <3>1 DEF IsView, IInv, PublicInv, TypeOK, Ids
      <3>6. relation[d][c] = live[c]
        BY <1>2, <3>1, <3>3, <3>4, <3>5, ValuesAssumption DEF IInv, PublicInv, DatasetsVouched, Reads, BoundByName
      <3>7. ReadsLive(relation[d], c)
        BY <3>1, <3>5, <3>6 DEF ReadsLive, IsView
      <3>8. <<"component", c>> \notin report.obsolete
        BY <2>1, <3>2, <3>7
      <3>9. QED
        BY <3>2, <3>4, <3>8
    <2>2. QED
      BY <2>1 DEF LiveWhileAgreed
  <1>9. ReportSound' /\ UndoSound'
    BY <1>1, <1>2 DEF ReportSound, UndoSound, DesiredObjects
  <1>10. MaintenanceTypeOK'
    BY <1>1, <1>4 DEF IInv, MaintenanceTypeOK
  <1>11. QED
    BY <1>4, <1>5, <1>6, <1>7, <1>8, <1>9, <1>10 DEF IInv, PublicInv

-------------------------------------------------------------------------------
(* The invariant *)

\* New sources and another registry leave the database alone.
LEMMA OtherSteps ==
    ASSUME IInv, (\E c \in Components : ChangeSource(c)) \/ Deploy \/ UNCHANGED vars
    PROVE  IInv'
  <1>1. UNCHANGED <<publicVars, plain, report, undo>>
    BY DEF ChangeSource, Deploy, vars, opVars
  <1>2. src' \in [Components -> Versions] /\ registry' \subseteq Datasets
    <2> USE DEF IInv, MaintenanceTypeOK
    <2>1. ASSUME NEW c \in Components, ChangeSource(c) PROVE src' \in [Components -> Versions] /\ registry' = registry
      BY <2>1, ContentsAssumption DEF ChangeSource
    <2>2. CASE Deploy
      BY <2>2 DEF Deploy
    <2>3. CASE UNCHANGED vars
      BY <2>3 DEF vars, opVars
    <2>4. QED
      BY <2>1, <2>2, <2>3
  <1>3. PublicInv'
    BY <1>1 DEF publicVars, markers, IInv, PublicInv, TypeOK, ComponentsVouched, DatasetsVouched, LinksFollow,
                LiveWhileAgreed, IsView, Reads
  <1>4. MaintenanceTypeOK'
    BY <1>1, <1>2, <1>3 DEF IInv, MaintenanceTypeOK, PublicInv, publicVars
  <1>5. ReportSound' /\ UndoSound'
    BY <1>1, StillOwed DEF IInv, ReportSound, DesiredObjects
  <1>6. QED
    BY <1>3, <1>4, <1>5 DEF IInv

\* Nothing is published or kept at first.
LEMMA InvInit == ASSUME Init PROVE IInv
  <1> USE DEF Init, DatabaseInit
  <1>1. <<>> \in [{} -> Versions]
    OBVIOUS
  <1>2. TypeOK
    <2>1. \A d \in Datasets : \E S \in SUBSET Uses[d] : links[d] \in [S -> Versions]
      BY <1>1
    <2>2. QED
      BY <2>1, NamesAssumption DEF TypeOK, Names
  <1>3. MaintenanceTypeOK
    BY <1>2, ContentsAssumption DEF MaintenanceTypeOK
  <1>4. PublicInv
    BY <1>2 DEF PublicInv, ComponentsVouched, DatasetsVouched, LinksFollow, LiveWhileAgreed, IsView
  <1>5. ReportSound /\ UndoSound
    BY DEF ReportSound, UndoSound
  <1>6. QED
    BY <1>3, <1>4, <1>5 DEF IInv

\* The invariant is inductive.
LEMMA InvNext == ASSUME IInv, [Next]_vars PROVE IInv'
  <1>1. ASSUME NEW selection \in Selections PROVE selection \in SUBSET Names
    BY SelectionsAssumption
  <1>2. QED
    BY <1>1, PublishStep, RollbackStep, CleanupStep, ReconcileStep, PruneStep, OtherSteps DEF Next

\* The inductive invariant, for every registry and every order of the operators' calls.
THEOREM Invariant == Spec => []IInv
  BY InvInit, InvNext, PTL DEF Spec

-------------------------------------------------------------------------------
(* What the run checks on two datasets, for all *)

\* Every variable has its type, and an undo names nothing that is not kept.
THEOREM TypesCorrect == Spec => []MaintenanceTypeOK
  <1>1. IInv => MaintenanceTypeOK
    BY DEF IInv
  <1>2. QED
    BY <1>1, Invariant, PTL

\* Publishing, rolling back, cleaning up and pruning leave no component marker over other rows.
THEOREM ComponentMarkersVouch == Spec => []ComponentsVouched
  <1>1. IInv => ComponentsVouched
    BY DEF IInv, PublicInv
  <1>2. QED
    BY <1>1, Invariant, PTL

\* Nor, on PostgreSQL, a dataset marker over a view that reads something else.  On DuckDB a
\* rollback puts back a table under a view that resolves its name, and the marker stays.
THEOREM DatasetMarkersVouch == ASSUME ~ByName PROVE Spec => []DatasetsVouched
  <1>1. IInv => DatasetsVouched
    BY DEF IInv, PublicInv
  <1>2. QED
    BY <1>1, Invariant, PTL

\* Whatever operators did: while the markers of datasets agree with those of their components,
\* a registry that has every published dataset is published again, never refused.
THEOREM MarkersAgreeRepublishable == Spec => []RepublishableWhileMarkersAgree
  <1>1. ASSUME IInv PROVE RepublishableWhileMarkersAgree
    <2>1. SUFFICES ASSUME MarkersAgree,
                          {d \in Datasets : IsView(d) \/ datasetMarker[d] # None} \subseteq registry,
                          NEW merged \in Merges(Fresh)
                   PROVE  Publishable(Fresh, merged, src, FALSE)
      BY DEF RepublishableWhileMarkersAgree, Republishable, Raises, Fresh
    <2> DEFINE swapped == ToSwap(merged)
               restaged == ToRestage(Fresh)
               versions == [c \in DOMAIN merged |-> merged[c].version]
    <2>2. /\ WellFormed(Fresh) /\ DOMAIN Fresh = registry /\ registry \subseteq Datasets
          /\ src \in [Components -> Versions]
          /\ \A d \in registry : /\ Fresh[d].whole = ViewReceipt(d, Over(src, d))
                                 /\ \A c \in Uses[d] : Fresh[d].parts[c] = ComponentReceipt(c, src[c])
      BY <1>1, FreshWellFormed DEF IInv, MaintenanceTypeOK
    <2>3. \A c : ComponentReceipt(c, src[c]).version = src[c] /\ ComponentReceipt(c, src[c]).from = marker[c]
      BY DEF ComponentReceipt, Staging
    <2>4. ASSUME NEW c \in DOMAIN merged PROVE c \in Components /\ merged[c] = ComponentReceipt(c, src[c])
      <3>1. c \in Components /\ \E d \in DOMAIN Fresh : c \in Uses[d] /\ merged[c] = Fresh[d].parts[c]
        BY <2>2, MergedPart
      <3>2. QED
        BY <2>2, <3>1
    <2>5. DOMAIN merged = UNION {Uses[d] : d \in registry}
      BY <2>2, MergedDomain
    <2>6. swapped = {c \in DOMAIN merged : ~(marker[c] = src[c] /\ live[c] # None)}
      BY <2>4 DEF ToSwap, StillStaged, ComponentReceipt, Staging
    <2>7. ASSUME NEW d \in registry
          PROVE  /\ Fresh[d].whole.version = Over(src, d)
                 /\ Fresh[d].whole.from = datasetMarker[d]
                 /\ d \notin restaged => datasetMarker[d] = Over(src, d) /\ relation[d] # None
      <3>1. Fresh[d].whole = Staging(datasetMarker[d] = Over(src, d) /\ Intact(d), Over(src, d), datasetMarker[d])
        BY <2>2 DEF ViewReceipt
      <3>2. /\ Fresh[d].whole.version = Over(src, d)
            /\ Fresh[d].whole.from = datasetMarker[d]
            /\ Fresh[d].whole.status # "staged" => datasetMarker[d] = Over(src, d) /\ Intact(d)
        BY <3>1 DEF Staging
      <3>3. QED
        BY <2>2, <3>2 DEF ToRestage, StillStaged, Intact, IsView
    <2>8. PartsAgree(Fresh)
      <3>1. ASSUME NEW c \in Components, NEW r \in PartsOf(c, Fresh) PROVE r.version = src[c]
        BY <2>2, <2>3, <3>1 DEF PartsOf
      <3>2. QED
        BY <3>1 DEF PartsAgree, StagedParts
    <2>9. ASSUME NEW d \in registry, d \notin restaged, NEW c \in Uses[d] PROVE c \notin swapped
      <3>1. /\ datasetMarker[d] = Over(src, d) /\ relation[d] # None
            /\ d \in Datasets /\ c \in Components
        BY <2>2, <2>7, <2>9, UsesAssumption
      <3>2. datasetMarker[d] # None
        <4>1. Over(src, d) \in [Uses[d] -> Versions]
          BY <2>2, <3>1, UsesAssumption DEF Over
        <4>2. QED
          BY <3>1, <4>1, ValuesAssumption
      <3>3. marker[c] = src[c] /\ marker[c] = datasetMarker[d][c]
        BY <2>1, <3>1, <3>2 DEF MarkersAgree, Over
      <3>4. live[c] # None
        BY <1>1, <3>1, <3>2, <3>3 DEF IInv, PublicInv, LiveWhileAgreed
      <3>5. QED
        BY <2>6, <3>3, <3>4
    <2>10. ASSUME NEW d \in Datasets \ registry PROVE DOMAIN links[d] = {}
      BY <1>1, <2>1, <2>10 DEF IInv, PublicInv, LinksFollow
    <2>11. Dependents(swapped, registry) \subseteq restaged
      BY <2>9, <2>10 DEF Dependents
    <2>12. ASSUME NEW c \in DOMAIN merged
           PROVE  /\ c \in Components /\ src[c] # None
                  /\ merged[c].version = src[c] /\ merged[c].from = marker[c]
      BY <2>2, <2>3, <2>4, ValuesAssumption
    <2>13. ASSUME NEW c \in DOMAIN merged
           PROVE  After(swapped, versions, marker)[c] = src[c] /\ After(swapped, src, live)[c] # None
      BY <2>6, <2>12 DEF After
    <2>14. ASSUME NEW d \in restaged
           PROVE  /\ Unchanged(Fresh[d].whole, datasetMarker[d])
                  /\ ComponentsLive(Fresh[d].whole, After(swapped, versions, marker))
                  /\ \A c \in Uses[d] : After(swapped, src, live)[c] # None
      <3>1. d \in registry
        BY <2>2 DEF ToRestage
      <3>2. \A c \in Uses[d] : c \in DOMAIN merged
        BY <2>5, <3>1
      <3>3. ComponentsLive(Fresh[d].whole, After(swapped, versions, marker))
        <4>1. \A c \in DOMAIN Over(src, d) : c \in DOMAIN merged /\ Over(src, d)[c] = src[c]
          BY <3>2 DEF Over
        <4>2. QED
          BY <2>7, <2>13, <3>1, <4>1 DEF ComponentsLive
      <3>4. QED
        BY <2>7, <2>13, <3>1, <3>2, <3>3 DEF Unchanged
    <2>15. ASSUME NEW c \in swapped PROVE Unchanged(merged[c], marker[c]) /\ src[c] # None
      BY <2>6, <2>12 DEF Unchanged
    <2> HIDE DEF swapped, restaged, versions
    <2>16. QED
      BY <2>2, <2>8, <2>11, <2>14, <2>15 DEF Publishable, swapped, restaged, versions
  <1>2. QED
    BY <1>1, Invariant, PTL

\* One generation is kept: a publish with keep_old never overwrites one that is kept, and no
\* command but a cleanup drops one without making it public again.
THEOREM NothingKeptIsLost == Spec => KeptNotLost
  <1> DEFINE Survives == \A n \in Names : kept[n] # None /\ kept'[n] # kept[n] =>
                             \/ \E selection \in Selections : Cleanup(selection)
                             \/ Content(n)' = kept[n]
  <1>1. ASSUME IInv, [Next]_vars PROVE [Survives]_vars
    <2>1. ASSUME NEW keep \in BOOLEAN, PublishAll(keep), NEW n \in Names PROVE kept[n] # None => kept'[n] = kept[n]
      <3>1. PublishDatasets(Fresh, src, keep) /\ TypeOK /\ WellFormed(Fresh)
            /\ src \in [Components -> Versions \union {None}]
        BY <1>1, <2>1, FreshWellFormed DEF PublishAll, Fresh, IInv, PublicInv
      <3>2. PICK swapped, restaged, versions : PublishedAs(swapped, restaged, versions, Fresh, src, keep)
        BY <3>1, PublishEffect
      <3>3. QED
        BY <3>2 DEF PublishedAs
    <2>2. ASSUME NEW selection \in Selections, Rollback(selection), NEW n \in Names, kept'[n] # kept[n]
          PROVE  Content(n)' = kept[n]
      <3>1. n \in KeptOf(selection)
        BY <2>2 DEF Rollback, SetAside
      <3>2. QED
        BY <2>2, <3>1 DEF Rollback, Restore, Content, Names
    <2>3. CASE UNCHANGED kept
      BY <2>3
    <2>4. Reconcile \/ Prune \/ Deploy \/ (\E c \in Components : ChangeSource(c)) => UNCHANGED kept
      BY DEF Reconcile, Prune, Deploy, ChangeSource, publicVars
    <2> HIDE DEF Survives
    <2>5. Next => Survives
      BY <2>1, <2>2, <2>3, <2>4 DEF Next, Survives
    <2>6. QED
      BY <1>1, <2>5
  <1>2. QED
    BY <1>1, Invariant, PTL DEF Spec, KeptNotLost

\* Rolling back everything brings back what a publish with keep_old replaced, or else what was there
\* before the last such rollback, each view over the tables it was over.
THEOREM RollbackBringsBack == Spec => RollbackRestores
  <1>1. ASSUME IInv, undo # None, Rollback(Names)
        PROVE  /\ \A n \in DOMAIN undo : Content(n)' = undo[n]
               /\ \A d \in DOMAIN undo \intersect Datasets :
                      IsView(d)' => \A c \in Uses[d] : Reads(d)'[c] = live'[c]
    <2>1. ASSUME NEW n \in Names PROVE Content(n)' = Due(n)
      BY <1>1, NamesAssumption DEF Rollback, Restore, KeptOf, Content, Names, Due
    <2>2. DOMAIN undo \subseteq Names /\ \A n \in DOMAIN undo : undo[n] = Due(n)
      BY <1>1 DEF IInv, MaintenanceTypeOK, UndoSound
    <2>3. \A n \in DOMAIN undo : Content(n)' = undo[n]
      BY <2>1, <2>2
    <2>4. ASSUME NEW d \in DOMAIN undo \intersect Datasets, IsView(d)', NEW c \in Uses[d]
          PROVE  Reads(d)'[c] = live'[c]
      <3>1. c \in Components /\ c \in Names /\ d \notin Components
        BY <2>4, UsesAssumption, NamesAssumption DEF Names
      <3>2. CASE BoundByName(d)
        BY <3>2 DEF Reads, BoundByName
      <3>3. CASE ~BoundByName(d)
        <4>1. relation'[d] = undo[d] /\ undo[d] \notin {None, Flat}
          BY <2>3, <2>4, <3>1 DEF Content, IsView
        <4>2. undo[d][c] = Due(c)
          BY <1>1, <2>4, <3>3, <4>1 DEF IInv, UndoSound
        <4>3. live'[c] = Due(c)
          BY <2>1, <3>1 DEF Content
        <4>4. QED
          BY <3>3, <4>1, <4>2, <4>3 DEF Reads, BoundByName
      <3>4. QED
        BY <3>2, <3>3
    <2>5. QED
      BY <2>3, <2>4
  <1>2. QED
    BY <1>1, Invariant, PTL DEF Spec, RollbackRestores

\* A prune leaves alone what its report's registry desired, however long ago that was, of every
\* dataset whose name was never that of a plain table.
THEOREM PruneKeepsDesired == Spec => PruneKeepsDatasets
  <1>1. ASSUME IInv, Prune PROVE Untouched({d \in report.desired : d \notin PlainMarkers})
    <2>1. /\ report.desired \subseteq Datasets
          /\ report.obsolete \intersect DesiredObjects(report.desired) = {}
          /\ \A d \in Datasets : <<"plain", d>> \in report.obsolete => d \in PlainMarkers
      BY <1>1, PruneEffect DEF IInv, MaintenanceTypeOK, ReportSound
    <2>2. ASSUME NEW d \in report.desired, d \notin PlainMarkers
          PROVE  /\ relation'[d] = relation[d] /\ datasetMarker'[d] = datasetMarker[d]
                 /\ \A c \in Uses[d] : live'[c] = live[c] /\ marker'[c] = marker[c]
      <3>1. /\ <<"plain", d>> \notin report.obsolete
            /\ <<"dataset", d>> \notin report.obsolete
            /\ <<"dataset_marker", d>> \notin report.obsolete
            /\ \A c \in Uses[d] : /\ <<"component", c>> \notin report.obsolete
                                  /\ <<"component_marker", c>> \notin report.obsolete
        BY <2>1, <2>2, DesiredAre
      <3>2. QED
        BY <1>1, <2>1, <3>1, PruneEffect, UsesAssumption
    <2>3. QED
      BY <2>2 DEF Untouched
  <1>2. QED
    BY <1>1, Invariant, PTL DEF Spec, PruneKeepsDatasets
===============================================================================
