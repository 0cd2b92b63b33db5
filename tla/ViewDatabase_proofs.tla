------------------------- MODULE ViewDatabase_proofs -------------------------
(***************************************************************************)
(* Lemmas about the transaction of publish_datasets and about what happens *)
(* out of band, for every set of datasets over every set of components:    *)
(* what they keep of the types and of the promises of ViewDatabase.  The   *)
(* theorems about the workflow and about the operators' commands rest on   *)
(* them.                                                                   *)
(***************************************************************************)
EXTENDS ViewDatabase, TLAPS

\* Receipts of these shapes are passed, of datasets that there are.
WellFormed(receipts) ==
    /\ DOMAIN receipts \subseteq Datasets
    /\ \A d \in DOMAIN receipts : /\ receipts[d].parts \in [Uses[d] -> Receipts(Versions)]
                                  /\ receipts[d].whole \in Receipts(Ids(d))

\* A staging table holds the version of every staged receipt of it, or nothing.
RowsStaged(receipts, rows) ==
    \A d \in DOMAIN receipts : \A c \in Uses[d] :
        receipts[d].parts[c].status = "staged" => rows[c] \in {receipts[d].parts[c].version, None}

\* A view with a dataset marker has the links of all its components: they are how a publish
\* of another dataset finds it.
LinksCover == \A d \in Datasets : datasetMarker[d] # None => DOMAIN links[d] = Uses[d]

\* What a view of d created over these tables reads.
Over(tables, d) == [c \in Uses[d] |-> tables[c]]

-------------------------------------------------------------------------------
(* Receipts *)

\* The receipts of a fresh staging have their shapes.
LEMMA FreshReceiptType ==
    ASSUME TypeOK, NEW d \in Datasets, NEW src \in [Components -> Versions]
    PROVE  /\ FreshReceipt(d, src).parts \in [Uses[d] -> Receipts(Versions)]
           /\ FreshReceipt(d, src).whole \in Receipts(Ids(d))
           /\ \A c \in Uses[d] : FreshReceipt(d, src).parts[c].version = src[c]
           /\ \A c \in Uses[d] : FreshReceipt(d, src).parts[c] = ComponentReceipt(c, src[c])
           /\ FreshReceipt(d, src).whole = ViewReceipt(d, [c \in Uses[d] |-> src[c]])
  BY UsesAssumption DEF TypeOK, FreshReceipt, ComponentReceipt, ViewReceipt, Staging, Receipts, Ids

\* What is merged for a component is the receipt of one of its datasets.
LEMMA MergedPart ==
    ASSUME NEW receipts, WellFormed(receipts), NEW merged \in Merges(receipts), NEW c \in DOMAIN merged
    PROVE  /\ c \in Components
           /\ \E d \in DOMAIN receipts : c \in Uses[d] /\ merged[c] = receipts[d].parts[c]
           /\ merged[c] \in Receipts(Versions)
  <1>1. c \in UNION {Uses[d] : d \in DOMAIN receipts}
    BY DEF Merges
  <1>2. merged[c] \in PartsOf(c, receipts)
    BY <1>1 DEF Merges, StagedParts
  <1>3. PICK d \in DOMAIN receipts : c \in Uses[d] /\ merged[c] = receipts[d].parts[c]
    BY <1>2 DEF PartsOf
  <1>4. QED
    BY <1>3, UsesAssumption DEF WellFormed

\* Every component of a dataset that is passed has a merged receipt.
LEMMA MergedDomain ==
    ASSUME NEW receipts, NEW merged \in Merges(receipts)
    PROVE  DOMAIN merged = UNION {Uses[d] : d \in DOMAIN receipts}
  BY DEF Merges

-------------------------------------------------------------------------------
(* publish_datasets *)

\* What a publish makes of the database: the swapped components have the staged rows and the
\* version of a staged receipt of theirs, the restaged datasets are over the public tables
\* under the id of their receipt, nothing else is touched, and every dataset known to be over
\* a swapped component is restaged.
PublishedAs(swapped, restaged, versions, receipts, rows, keep) ==
    /\ swapped \subseteq Components /\ restaged \subseteq DOMAIN receipts
    /\ restaged = ToRestage(receipts)
    /\ \A c \in swapped :
           /\ \E d \in DOMAIN receipts : /\ c \in Uses[d]
                                         /\ receipts[d].parts[c].status = "staged"
                                         /\ receipts[d].parts[c].version = versions[c]
           /\ rows[c] # None /\ versions[c] \in Versions
           /\ live'[c] = rows[c] /\ marker'[c] = versions[c]
    /\ \A c \in Components \ swapped : live'[c] = live[c] /\ marker'[c] = marker[c]
    /\ \A d \in restaged :
           /\ relation'[d] = Over(live', d)
           /\ \A c \in Uses[d] : live'[c] # None /\ marker'[c] = receipts[d].whole.version[c]
           /\ datasetMarker'[d] = receipts[d].whole.version /\ links'[d] = receipts[d].whole.version
    /\ \A d \in Datasets \ restaged :
           /\ relation'[d] = relation[d]
           /\ datasetMarker'[d] = datasetMarker[d] /\ links'[d] = links[d]
           /\ (IF d \in DOMAIN receipts THEN Uses[d] ELSE DOMAIN links[d]) \intersect swapped = {}
    /\ live' = [c \in Components |-> live'[c]] /\ marker' = [c \in Components |-> marker'[c]]
    /\ \A f \in {relation', datasetMarker', links'} : DOMAIN f = Datasets
    /\ kept' = [n \in Names |->
                   IF /\ keep /\ Parkable(n)
                      /\ n \in {c \in swapped : live[c] # None} \union {d \in restaged : relation[d] # None}
                   THEN Content(n) ELSE kept[n]]
    /\ keep => \A n \in {c \in swapped : live[c] # None} \union {d \in restaged : relation[d] # None} :
                  kept[n] = None

\* A publish that is not rolled back is one of these.
LEMMA PublishEffect ==
    ASSUME TypeOK, NEW receipts, WellFormed(receipts), NEW rows \in [Components -> Versions \union {None}],
           NEW keep \in BOOLEAN, PublishDatasets(receipts, rows, keep)
    PROVE  \E swapped, restaged, versions : PublishedAs(swapped, restaged, versions, receipts, rows, keep)
  <1>1. PICK merged \in Merges(receipts) :
            Publishable(receipts, merged, rows, keep) /\ Replace(receipts, merged, rows, keep)
    BY DEF PublishDatasets
  <1> DEFINE swapped == ToSwap(merged)
             restaged == ToRestage(receipts)
             versions == [c \in DOMAIN merged |-> merged[c].version]
  <1>2. swapped \in SUBSET Components /\ restaged \in SUBSET (DOMAIN receipts)
    BY MergedPart DEF ToSwap, ToRestage
  <1>3. ASSUME NEW c \in swapped
        PROVE  /\ \E d \in DOMAIN receipts :
                      /\ c \in Uses[d]
                      /\ receipts[d].parts[c].status = "staged"
                      /\ receipts[d].parts[c].version = versions[c]
               /\ rows[c] # None
               /\ live'[c] = rows[c] /\ marker'[c] = versions[c]
               /\ versions[c] \in Versions
    <2>1. c \in DOMAIN merged /\ c \in Components /\ merged[c].status = "staged"
      BY <1>2 DEF ToSwap, StillStaged
    <2>2. PICK d \in DOMAIN receipts : c \in Uses[d] /\ merged[c] = receipts[d].parts[c]
      BY <2>1, MergedPart
    <2>3. versions[c] = merged[c].version /\ versions[c] \in Versions
      BY <2>1, MergedPart DEF Receipts
    <2>4. rows[c] # None
      BY <1>1 DEF Publishable
    <2>5. live'[c] = rows[c] /\ marker'[c] = versions[c]
      BY <1>1, <2>1 DEF Replace, After
    <2>6. QED
      BY <2>1, <2>2, <2>3, <2>4, <2>5
  <1>4. \A c \in Components \ swapped : live'[c] = live[c] /\ marker'[c] = marker[c]
    BY <1>1 DEF Replace, After
  <1>5. ASSUME NEW d \in restaged
        PROVE  /\ relation'[d] = Over(live', d)
               /\ \A c \in Uses[d] : live'[c] # None
               /\ \A c \in Uses[d] : marker'[c] = receipts[d].whole.version[c]
               /\ datasetMarker'[d] = receipts[d].whole.version
               /\ links'[d] = receipts[d].whole.version
    <2>1. d \in Datasets /\ d \in DOMAIN receipts
      BY <1>2 DEF WellFormed
    <2>2. /\ relation'[d] = Over(live', d)
          /\ datasetMarker'[d] = receipts[d].whole.version
          /\ links'[d] = receipts[d].whole.version
      BY <1>1, <2>1 DEF Replace, Over
    <2>3. live' = After(swapped, rows, live) /\ marker' = After(swapped, versions, marker)
      BY <1>1 DEF Replace
    <2>4. \A c \in Uses[d] : live'[c] # None
      BY <1>1, <2>3 DEF Publishable
    <2>5. ComponentsLive(receipts[d].whole, marker')
      BY <1>1, <2>3 DEF Publishable
    <2>6. DOMAIN receipts[d].whole.version = Uses[d]
      BY <2>1 DEF WellFormed, Receipts, Ids
    <2>7. \A c \in Uses[d] : marker'[c] = receipts[d].whole.version[c]
      BY <2>5, <2>6 DEF ComponentsLive
    <2>8. QED
      BY <2>2, <2>4, <2>7
  <1>6. Dependents(swapped, DOMAIN receipts) \subseteq restaged
    BY <1>1 DEF Publishable
  <1>7. ASSUME NEW d \in Datasets \ restaged
        PROVE  /\ relation'[d] = relation[d]
               /\ datasetMarker'[d] = datasetMarker[d] /\ links'[d] = links[d]
               /\ (IF d \in DOMAIN receipts THEN Uses[d] ELSE DOMAIN links[d]) \intersect swapped = {}
    BY <1>1, <1>6 DEF Replace, Dependents
  <1>8. live' = [c \in Components |-> live'[c]] /\ marker' = [c \in Components |-> marker'[c]]
    BY <1>1 DEF Replace, After
  <1>9. DOMAIN relation' = Datasets /\ DOMAIN datasetMarker' = Datasets /\ DOMAIN links' = Datasets
    BY <1>1 DEF Replace
  <1>10. kept' = [n \in Names |->
                     IF /\ keep /\ Parkable(n)
                        /\ n \in {c \in swapped : live[c] # None} \union {d \in restaged : relation[d] # None}
                     THEN Content(n) ELSE kept[n]]
    BY <1>1 DEF Replace, Present
  <1>11. keep => \A n \in {c \in swapped : live[c] # None} \union {d \in restaged : relation[d] # None} :
                    kept[n] = None
    BY <1>1 DEF Publishable, Present, NothingInTheWay
  <1>12. restaged = ToRestage(receipts)
    OBVIOUS
  <1> HIDE DEF swapped, restaged, versions
  <1>13. PublishedAs(swapped, restaged, versions, receipts, rows, keep)
    BY <1>2, <1>3, <1>4, <1>5, <1>7, <1>8, <1>9, <1>10, <1>11, <1>12 DEF PublishedAs
  <1>14. QED
    BY <1>13

\* A publish keeps the types.
LEMMA PublishTypes ==
    ASSUME TypeOK, NEW receipts, WellFormed(receipts), NEW rows \in [Components -> Versions \union {None}],
           NEW keep \in BOOLEAN, PublishDatasets(receipts, rows, keep)
    PROVE  TypeOK'
  <1>1. PICK swapped, restaged, versions : PublishedAs(swapped, restaged, versions, receipts, rows, keep)
    BY PublishEffect
  <1>2. /\ live' \in [Components -> Versions \union {None}]
        /\ marker' \in [Components -> Versions \union {None}]
    BY <1>1 DEF TypeOK, PublishedAs
  <1>3. ASSUME NEW d \in Datasets
        PROVE  /\ relation'[d] \in Ids(d) \union {None, Flat}
               /\ datasetMarker'[d] \in Ids(d) \union {None}
               /\ \E S \in SUBSET Uses[d] : links'[d] \in [S -> Versions]
    <2>1. CASE d \in restaged
      <3>1. receipts[d].whole.version \in Ids(d)
        <4>1. restaged \subseteq DOMAIN receipts
          BY <1>1 DEF PublishedAs
        <4>2. receipts[d].whole \in Receipts(Ids(d))
          BY <2>1, <4>1 DEF WellFormed
        <4>3. QED
          BY <4>2 DEF Receipts
      <3>2. relation'[d] = Over(live', d) /\ \A c \in Uses[d] : live'[c] # None
        BY <1>1, <2>1 DEF PublishedAs
      <3>3. \A c \in Uses[d] : live'[c] \in Versions
        BY <1>2, <3>2, UsesAssumption
      <3>4. relation'[d] \in Ids(d)
        BY <3>2, <3>3 DEF Ids, Over
      <3>5. QED
        BY <1>1, <2>1, <3>1, <3>4 DEF Ids, PublishedAs
    <2>2. CASE d \notin restaged
      BY <1>1, <2>2 DEF TypeOK, PublishedAs
    <2>3. QED
      BY <2>1, <2>2
  <1>4. DOMAIN kept' = Names
    BY <1>1 DEF PublishedAs
  <1>5. \A c \in Components : kept'[c] \in Versions \union {None}
    BY <1>1 DEF TypeOK, PublishedAs, Names, Content
  <1>6. \A d \in Datasets : kept'[d] \in Ids(d) \union {None, Flat}
    BY <1>1, NamesAssumption DEF TypeOK, PublishedAs, Names, Content
  <1>7. \A f \in {relation', datasetMarker', links'} : DOMAIN f = Datasets
    BY <1>1 DEF PublishedAs
  <1>8. QED
    BY <1>2, <1>3, <1>4, <1>5, <1>6, <1>7 DEF TypeOK

\* A publish of what the staging tables hold keeps the component markers true.
LEMMA PublishVouchesComponents ==
    ASSUME TypeOK, ComponentsVouched, NEW receipts, WellFormed(receipts),
           NEW rows \in [Components -> Versions \union {None}], RowsStaged(receipts, rows),
           NEW keep \in BOOLEAN, PublishDatasets(receipts, rows, keep)
    PROVE  ComponentsVouched'
  <1>1. PICK swapped, restaged, versions : PublishedAs(swapped, restaged, versions, receipts, rows, keep)
    BY PublishEffect
  <1>2. ASSUME NEW c \in swapped PROVE live'[c] = marker'[c]
    BY <1>1 DEF PublishedAs, RowsStaged
  <1>3. QED
    BY <1>1, <1>2 DEF ComponentsVouched, PublishedAs

\* And the dataset markers: a view that is not restaged is not over a swapped component.
LEMMA PublishVouchesDatasets ==
    ASSUME TypeOK, ComponentsVouched, DatasetsVouched, LinksCover, NEW receipts, WellFormed(receipts),
           NEW rows \in [Components -> Versions \union {None}], RowsStaged(receipts, rows),
           NEW keep \in BOOLEAN, PublishDatasets(receipts, rows, keep)
    PROVE  DatasetsVouched' /\ LinksCover'
  <1>1. PICK swapped, restaged, versions : PublishedAs(swapped, restaged, versions, receipts, rows, keep)
    BY PublishEffect
  <1>2. ComponentsVouched'
    BY PublishVouchesComponents
  <1>3. ASSUME NEW d \in restaged
        PROVE  /\ \A c \in Uses[d] : Reads(d)'[c] = datasetMarker'[d][c]
               /\ DOMAIN links'[d] = Uses[d]
    <2>1. d \in Datasets /\ Uses[d] \subseteq Components
      BY <1>1, UsesAssumption DEF PublishedAs, WellFormed
    <2>2. /\ relation'[d] = Over(live', d)
          /\ \A c \in Uses[d] : live'[c] # None /\ marker'[c] = datasetMarker'[d][c]
          /\ datasetMarker'[d] \in Ids(d) /\ links'[d] = datasetMarker'[d]
      BY <1>1 DEF PublishedAs, WellFormed, Receipts
    <2>3. \A c \in Uses[d] : live'[c] = marker'[c]
      BY <1>2, <2>1, <2>2, ValuesAssumption DEF ComponentsVouched, Ids
    <2>4. \A c \in Uses[d] : Reads(d)'[c] = live'[c]
      BY <2>2 DEF Reads, Over
    <2>5. QED
      BY <2>2, <2>3, <2>4 DEF Ids
  <1>4. ASSUME NEW d \in Datasets \ restaged, datasetMarker'[d] # None, IsView(d)', NEW c \in Uses[d]
        PROVE  Reads(d)'[c] \in {datasetMarker'[d][c], None}
    <2>1. Uses[d] \intersect swapped = {}
      BY <1>1, <1>4 DEF PublishedAs, LinksCover
    <2>2. IsView(d) /\ datasetMarker[d] # None /\ datasetMarker'[d] = datasetMarker[d]
      BY <1>1, <1>4 DEF PublishedAs, IsView
    <2>3. Reads(d)'[c] = Reads(d)[c]
      BY <1>1, <2>1, UsesAssumption DEF PublishedAs, Reads, BoundByName
    <2>4. QED
      BY <2>2, <2>3 DEF DatasetsVouched
  <1>5. DatasetsVouched'
    BY <1>3, <1>4 DEF DatasetsVouched
  <1>6. LinksCover'
    BY <1>1, <1>3 DEF LinksCover, PublishedAs
  <1>7. QED
    BY <1>5, <1>6

\* Restaged views are over the public tables, and no other view is over a swapped one.
LEMMA PublishViews ==
    ASSUME TypeOK, LinksCover, NEW receipts, WellFormed(receipts),
           NEW rows \in [Components -> Versions \union {None}],
           NEW keep \in BOOLEAN, PublishDatasets(receipts, rows, keep), NEW d \in Datasets
    PROVE  \/ /\ relation'[d] = Over(live', d)
              /\ \A c \in Uses[d] : live'[c] # None
              /\ datasetMarker'[d] \in Ids(d) /\ links'[d] = datasetMarker'[d]
           \/ /\ relation'[d] = relation[d]
              /\ datasetMarker'[d] = datasetMarker[d] /\ links'[d] = links[d]
              /\ d \in DOMAIN receipts \/ datasetMarker[d] # None =>
                     \A c \in Uses[d] : live'[c] = live[c] /\ marker'[c] = marker[c]
  <1>1. PICK swapped, restaged, versions : PublishedAs(swapped, restaged, versions, receipts, rows, keep)
    BY PublishEffect
  <1>2. CASE d \in restaged
    <2>1. d \in DOMAIN receipts
      BY <1>1, <1>2 DEF PublishedAs
    <2>2. receipts[d].whole.version \in Ids(d)
      BY <2>1 DEF WellFormed, Receipts
    <2>3. QED
      BY <1>1, <1>2, <2>2 DEF PublishedAs
  <1>3. CASE d \notin restaged
    <2>1. /\ relation'[d] = relation[d]
          /\ datasetMarker'[d] = datasetMarker[d] /\ links'[d] = links[d]
          /\ (IF d \in DOMAIN receipts THEN Uses[d] ELSE DOMAIN links[d]) \intersect swapped = {}
      BY <1>1, <1>3 DEF PublishedAs
    <2>2. d \in DOMAIN receipts \/ datasetMarker[d] # None => Uses[d] \intersect swapped = {}
      BY <2>1 DEF LinksCover
    <2>3. \A c \in Components \ swapped : live'[c] = live[c] /\ marker'[c] = marker[c]
      BY <1>1 DEF PublishedAs
    <2>4. QED
      BY <2>1, <2>2, <2>3, UsesAssumption
  <1>4. QED
    BY <1>2, <1>3

\* A component and its marker are the old ones or those of a staged receipt and its rows.
LEMMA PublishComponents ==
    ASSUME TypeOK, NEW receipts, WellFormed(receipts), NEW rows \in [Components -> Versions \union {None}],
           NEW keep \in BOOLEAN, PublishDatasets(receipts, rows, keep), NEW c \in Components
    PROVE  \/ live'[c] = live[c] /\ marker'[c] = marker[c]
           \/ \E d \in DOMAIN receipts :
                  /\ c \in Uses[d] /\ receipts[d].parts[c].status = "staged"
                  /\ live'[c] = rows[c] /\ rows[c] # None
                  /\ marker'[c] = receipts[d].parts[c].version
  <1>1. PICK swapped, restaged, versions : PublishedAs(swapped, restaged, versions, receipts, rows, keep)
    BY PublishEffect
  <1>2. QED
    BY <1>1 DEF PublishedAs

\* Receipts whose versions are public already: nothing is swapped or restaged, nothing can fail.
LEMMA ReplayOfPublished ==
    ASSUME NEW receipts, WellFormed(receipts), NEW rows,
           \A d \in DOMAIN receipts :
               /\ datasetMarker[d] = receipts[d].whole.version /\ relation[d] # None
               /\ \A c \in Uses[d] : marker[c] = receipts[d].parts[c].version /\ live[c] # None
    PROVE  ~Raises(receipts, rows, FALSE)
  <1>1. SUFFICES ASSUME NEW merged \in Merges(receipts) PROVE Publishable(receipts, merged, rows, FALSE)
    BY DEF Raises
  <1>2. ToSwap(merged) = {}
    BY MergedPart DEF ToSwap, StillStaged
  <1>3. ToRestage(receipts) = {}
    BY DEF ToRestage, StillStaged
  <1>4. PartsAgree(receipts)
    BY DEF PartsAgree, StagedParts, PartsOf
  <1>5. Dependents({}, DOMAIN receipts) = {}
    BY DEF Dependents
  <1>6. QED
    BY <1>2, <1>3, <1>4, <1>5 DEF Publishable

-------------------------------------------------------------------------------
(* Out of band *)

\* A lost table or relation keeps the types, and what the markers vouch for.
LEMMA LossKeeps ==
    ASSUME TypeOK, (\E c \in Components : DropComponent(c)) \/ (\E d \in Datasets : DropRelation(d))
    PROVE  /\ TypeOK'
           /\ ComponentsVouched => ComponentsVouched'
           /\ DatasetsVouched => DatasetsVouched'
           /\ LinksCover => LinksCover'
  <1>1. ASSUME NEW c \in Components, DropComponent(c)
        PROVE  /\ TypeOK'
               /\ ComponentsVouched => ComponentsVouched'
               /\ DatasetsVouched => DatasetsVouched'
               /\ LinksCover => LinksCover'
    <2> USE DEF DropComponent, markers
    <2>1. TypeOK'
      BY <1>1 DEF TypeOK
    <2>2. ComponentsVouched => ComponentsVouched'
      BY <1>1 DEF TypeOK, ComponentsVouched
    <2>3. DatasetsVouched => DatasetsVouched'
      BY <1>1, UsesAssumption DEF TypeOK, DatasetsVouched, IsView, Reads, BoundByName
    <2>4. LinksCover => LinksCover'
      BY <1>1 DEF LinksCover
    <2>5. QED
      BY <2>1, <2>2, <2>3, <2>4
  <1>2. ASSUME NEW d \in Datasets, DropRelation(d)
        PROVE  /\ TypeOK'
               /\ ComponentsVouched => ComponentsVouched'
               /\ DatasetsVouched => DatasetsVouched'
               /\ LinksCover => LinksCover'
    <2> USE DEF DropRelation, markers
    <2>1. TypeOK'
      BY <1>2 DEF TypeOK
    <2>2. ComponentsVouched => ComponentsVouched'
      BY <1>2 DEF ComponentsVouched
    <2>3. DatasetsVouched => DatasetsVouched'
      BY <1>2 DEF TypeOK, DatasetsVouched, IsView, Reads, BoundByName
    <2>4. LinksCover => LinksCover'
      BY <1>2 DEF LinksCover
    <2>5. QED
      BY <2>1, <2>2, <2>3, <2>4
  <1>3. QED
    BY <1>1, <1>2
===============================================================================
