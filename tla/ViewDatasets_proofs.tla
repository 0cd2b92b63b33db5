------------------------- MODULE ViewDatasets_proofs -------------------------
(***************************************************************************)
(* Theorems about ViewDatasets for every set of datasets, components and   *)
(* versions, on PostgreSQL and on DuckDB.                                  *)
(***************************************************************************)
EXTENDS ViewDatasets, ViewDatabase_proofs

\* Only a run has jobs.
JobsRun == ~running => toStage = {} /\ Idle

\* A staging marker names the rows of its table.
StagedVouched == \A c \in Components : staged[c] # None /\ stg[c] # None => stg[c] = staged[c]

\* A receipt is about the version its source still has, and what it staged is still staged.
PartFresh(r, c) == r.version = src[c] /\ (r.status = "staged" => stg[c] \in {src[c], None})

ReceiptsFresh ==
    \A d \in Datasets :
        /\ job[d] # None => \A c \in DOMAIN job[d] : PartFresh(job[d][c], c)
        /\ receipt[d] # None => /\ \A c \in Uses[d] : PartFresh(receipt[d].parts[c], c)
                                /\ receipt[d].whole.version = Wanted(d)

StagingInv == WorkflowTypeOK /\ JobsRun /\ StagedVouched /\ ReceiptsFresh

\* The links of a dataset are its marker's versions, and whatever is a view has a marker.
LinksFollow ==
    \A d \in Datasets : /\ links[d] = IF datasetMarker[d] = None THEN <<>> ELSE datasetMarker[d]
                        /\ IsView(d) => datasetMarker[d] # None

PublicInv == TypeOK /\ ComponentsVouched /\ DatasetsVouched /\ LinksFollow /\ ViewsFollow

IInv == StagingInv /\ PublicInv

-------------------------------------------------------------------------------
(* Steps *)

\* Every step is one of these.
LEMMA Steps ==
    ASSUME Next
    PROVE  \/ Plan \/ Publish \/ PublishFails \/ Lose \/ Crash \/ CalmDown
           \/ \E d \in Datasets : StartJob(d) \/ StageView(d) \/ Materialize(d)
           \/ \E d \in Datasets, c \in Components : StageComponent(d, c)
           \/ \E c \in Components : ChangeSource(c)
  BY DEF Next, Work, Job

-------------------------------------------------------------------------------
(* What is public *)

\* Publishing staged receipts keeps the markers true, the links with the markers and the views
\* over the public tables.
LEMMA PublishKeeps ==
    ASSUME PublicInv, NEW receipts, WellFormed(receipts),
           NEW rows \in [Components -> Versions \union {None}], RowsStaged(receipts, rows),
           PublishDatasets(receipts, rows, FALSE)
    PROVE  PublicInv'
  <1>1. LinksCover
    BY ValuesAssumption DEF PublicInv, TypeOK, LinksFollow, LinksCover, Ids
  <1>2. TypeOK' /\ ComponentsVouched' /\ DatasetsVouched'
    BY <1>1, PublishTypes, PublishVouchesComponents, PublishVouchesDatasets DEF PublicInv
  <1>3. ASSUME NEW d \in Datasets
        PROVE  /\ (links[d] = IF datasetMarker[d] = None THEN <<>> ELSE datasetMarker[d])'
               /\ IsView(d)' => datasetMarker'[d] # None
               /\ IsView(d)' => \A c \in Uses[d] : (Reads(d)[c] = live[c] \/ live[c] = None)'
    <2>1. CASE /\ relation'[d] = Over(live', d)
               /\ \A c \in Uses[d] : live'[c] # None
               /\ datasetMarker'[d] \in Ids(d) /\ links'[d] = datasetMarker'[d]
      <3>1. datasetMarker'[d] # None
        BY <2>1, ValuesAssumption DEF Ids
      <3>2. \A c \in Uses[d] : Reads(d)'[c] = live'[c]
        BY <2>1 DEF Reads, Over
      <3>3. QED
        BY <2>1, <3>1, <3>2
    <2>2. CASE /\ relation'[d] = relation[d]
               /\ datasetMarker'[d] = datasetMarker[d] /\ links'[d] = links[d]
               /\ d \in DOMAIN receipts \/ datasetMarker[d] # None =>
                      \A c \in Uses[d] : live'[c] = live[c] /\ marker'[c] = marker[c]
      <3>1. (links[d] = IF datasetMarker[d] = None THEN <<>> ELSE datasetMarker[d])'
        BY <2>2 DEF PublicInv, LinksFollow
      <3>2. ASSUME IsView(d)'
            PROVE  /\ datasetMarker'[d] # None
                   /\ \A c \in Uses[d] : (Reads(d)[c] = live[c] \/ live[c] = None)'
        <4>1. IsView(d) /\ datasetMarker[d] # None
          BY <2>2, <3>2 DEF PublicInv, LinksFollow, IsView
        <4>2. \A c \in Uses[d] : live'[c] = live[c]
          BY <2>2, <4>1
        <4>3. \A c \in Uses[d] : Reads(d)'[c] = Reads(d)[c]
          BY <2>2, <4>2 DEF Reads, BoundByName
        <4>4. \A c \in Uses[d] : Reads(d)[c] = live[c] \/ live[c] = None
          BY <4>1 DEF PublicInv, ViewsFollow
        <4>5. QED
          BY <2>2, <4>1, <4>2, <4>3, <4>4
      <3>3. QED
        BY <3>1, <3>2
    <2>3. QED
      BY ONLY <2>1, <2>2, <1>1, PublicInv, WellFormed(receipts), rows \in [Components -> Versions \union {None}],
         PublishDatasets(receipts, rows, FALSE), PublishViews DEF PublicInv
  <1>4. LinksFollow' /\ ViewsFollow'
    BY <1>3 DEF LinksFollow, ViewsFollow
  <1>5. QED
    BY <1>2, <1>4 DEF PublicInv

\* A relation that is lost takes the views over it along.
LEMMA LoseKeeps == ASSUME PublicInv, Lose PROVE PublicInv'
  <1>1. LinksFollow' /\ ViewsFollow'
    <2>1. ASSUME NEW c \in Components, DropComponent(c) PROVE LinksFollow' /\ ViewsFollow'
      BY <2>1, UsesAssumption
         DEF PublicInv, TypeOK, LinksFollow, ViewsFollow, IsView, Reads, BoundByName, DropComponent, markers
    <2>2. ASSUME NEW d \in Datasets, DropRelation(d) PROVE LinksFollow' /\ ViewsFollow'
      BY <2>2 DEF PublicInv, TypeOK, LinksFollow, ViewsFollow, IsView, Reads, BoundByName, DropRelation, markers
    <2>3. QED
      BY <2>1, <2>2 DEF Lose
  <1>2. QED
    BY <1>1, LossKeeps DEF PublicInv, Lose

-------------------------------------------------------------------------------
(* The two ways to publish *)

\* All receipts are on disk: they are those publish_datasets takes, and the staging tables
\* still hold what they staged.
LEMMA OnDisk ==
    ASSUME StagingInv, AllStaged
    PROVE  /\ WellFormed(receipt) /\ RowsStaged(receipt, stg)
           /\ stg \in [Components -> Versions \union {None}]
  <1>1. WellFormed(receipt)
    BY DEF StagingInv, WorkflowTypeOK, AllStaged, WellFormed
  <1>2. RowsStaged(receipt, stg)
    BY DEF StagingInv, ReceiptsFresh, PartFresh, AllStaged, RowsStaged, WorkflowTypeOK
  <1>3. QED
    BY <1>1, <1>2 DEF StagingInv, WorkflowTypeOK

\* A publish at the end of a run: its receipts are of rows that are staged.
LEMMA PublishStep == ASSUME IInv, Publish PROVE IInv'
  <1>1. PublishDatasets(receipt, stg, FALSE) /\ AllStaged
    BY DEF Publish
  <1>2. PublicInv'
    BY <1>1, OnDisk, PublishKeeps DEF IInv
  <1>3. WorkflowTypeOK'
    BY <1>2 DEF Publish, IInv, StagingInv, WorkflowTypeOK, PublicInv
  <1>4. JobsRun'
    BY <1>1 DEF Publish, AllStaged, JobsRun, Idle
  <1>5. StagedVouched'
    BY DEF Publish, IInv, StagingInv, StagedVouched
  <1>6. ReceiptsFresh'
    <2>1. UNCHANGED <<job, receipt, src>> /\ \A c \in Components : stg'[c] \in {stg[c], None}
      BY DEF Publish
    <2>2. ASSUME NEW d \in Datasets, NEW c \in Uses[d], NEW r, PartFresh(r, c) PROVE PartFresh(r, c)'
      BY <2>1, <2>2, UsesAssumption DEF PartFresh
    <2>3. \A d \in Datasets : job[d] = None
      BY <1>1 DEF AllStaged, Idle
    <2>4. QED
      BY <2>1, <2>2, <2>3 DEF IInv, StagingInv, ReceiptsFresh, Wanted
  <1>7. QED
    BY <1>2, <1>3, <1>4, <1>5, <1>6 DEF IInv, StagingInv

\* One call stages a dataset and publishes it: the rows it publishes are those it staged, or
\* those a staging marker vouches for.
LEMMA MaterializeStep == ASSUME IInv, NEW d \in Datasets, Materialize(d) PROVE IInv'
  <1> DEFINE receipts == [x \in {d} |-> FreshReceipt(d, src)]
             loaded == {c \in Uses[d] : receipts[d].parts[c].status = "staged"}
             rows == [c \in Components |-> IF c \in loaded /\ ~StagingReusable(c, src[c], stg, staged)
                                           THEN src[c] ELSE stg[c]]
  <1>1. /\ ~running
        /\ PublishDatasets(receipts, rows, FALSE)
        /\ stg' = [c \in Components |-> IF c \in Consumed(receipts) THEN None ELSE rows[c]]
        /\ staged' = [c \in Components |-> IF c \in loaded THEN src[c] ELSE staged[c]]
        /\ UNCHANGED <<src, planVars, jobVars, calm>>
    BY DEF Materialize
  <1>2. /\ FreshReceipt(d, src).parts \in [Uses[d] -> Receipts(Versions)]
        /\ FreshReceipt(d, src).whole \in Receipts(Ids(d))
        /\ \A c \in Uses[d] : FreshReceipt(d, src).parts[c].version = src[c]
    BY FreshReceiptType DEF IInv, StagingInv, WorkflowTypeOK
  <1>3. WellFormed(receipts)
    BY <1>2 DEF WellFormed
  <1>4. loaded \subseteq Components
    BY UsesAssumption
  <1>5. \A c \in loaded : rows[c] = src[c]
    <2>1. \A c \in loaded : c \in Components /\ src[c] # None
      BY <1>4, ValuesAssumption DEF IInv, StagingInv, WorkflowTypeOK
    <2>2. QED
      BY <1>4, <2>1 DEF StagingReusable, IInv, StagingInv, StagedVouched
  <1>6. \A c \in Components \ loaded : rows[c] = stg[c]
    OBVIOUS
  <1>7. rows \in [Components -> Versions \union {None}]
    BY <1>5, <1>6 DEF IInv, StagingInv, WorkflowTypeOK
  <1>8. RowsStaged(receipts, rows)
    BY <1>2, <1>5 DEF RowsStaged
  <1>9. \A c \in Components : rows[c] \in {src[c], stg[c]}
    OBVIOUS
  <1> HIDE DEF receipts, rows, loaded
  <1>10. PublicInv'
    BY <1>1, <1>3, <1>7, <1>8, PublishKeeps DEF IInv
  <1>11. WorkflowTypeOK'
    BY <1>1, <1>4, <1>7, <1>10 DEF planVars, jobVars, IInv, StagingInv, WorkflowTypeOK, PublicInv
  <1>12. JobsRun'
    BY <1>1 DEF planVars, jobVars, IInv, StagingInv, JobsRun, Idle
  <1>13. StagedVouched'
    BY <1>1, <1>4, <1>5, <1>6 DEF IInv, StagingInv, StagedVouched
  <1>14. ReceiptsFresh'
    <2>1. UNCHANGED <<job, receipt, src>> /\ \A c \in Components : stg'[c] \in {src[c], stg[c], None}
      BY <1>1, <1>9 DEF jobVars
    <2>2. ASSUME NEW x \in Datasets, NEW c \in Uses[x], NEW r, PartFresh(r, c) PROVE PartFresh(r, c)'
      BY <2>1, <2>2, UsesAssumption DEF PartFresh
    <2>3. \A x \in Datasets : job[x] = None
      BY <1>1 DEF IInv, StagingInv, JobsRun, Idle
    <2>4. QED
      BY <2>1, <2>2, <2>3 DEF IInv, StagingInv, ReceiptsFresh, Wanted
  <1>15. QED
    BY <1>10, <1>11, <1>12, <1>13, <1>14 DEF IInv, StagingInv

-------------------------------------------------------------------------------
(* Staging *)

\* A component is staged as its source is now, whoever staged it before.
LEMMA StageComponentStep ==
    ASSUME IInv, NEW d \in Datasets, NEW c \in Components, StageComponent(d, c)
    PROVE  IInv'
  <1>1. PICK r : /\ r = ComponentReceipt(c, src[c])
                 /\ job[d] # None /\ c \in Uses[d] \ DOMAIN job[d]
                 /\ Load(c, src[c], r)
                 /\ job' = [job EXCEPT ![d] = [x \in DOMAIN job[d] \union {c} |->
                                                  IF x = c THEN r ELSE job[d][x]]]
                 /\ UNCHANGED <<publicVars, src, planVars, receipt, touched, calm>>
    BY DEF StageComponent
  <1>2. r \in Receipts(Versions) /\ r.version = src[c]
    BY <1>1 DEF ComponentReceipt, Staging, Receipts, IInv, StagingInv, WorkflowTypeOK, TypeOK
  <1>3. /\ stg' \in [Components -> Versions \union {None}] /\ staged' \in [Components -> Versions \union {None}]
        /\ \A x \in Components : stg'[x] \in {src[x], stg[x]}
        /\ r.status = "staged" => stg'[c] = src[c]
        /\ StagedVouched'
    <2>1. CASE r.status = "current" \/ StagingReusable(c, src[c], stg, staged)
      BY <1>1, <1>2, <2>1, ValuesAssumption
         DEF Load, stagingVars, StagingReusable, IInv, StagingInv, WorkflowTypeOK, StagedVouched
    <2>2. CASE stg' = [stg EXCEPT ![c] = src[c]] /\ staged' = [staged EXCEPT ![c] = src[c]]
      BY <2>2 DEF IInv, StagingInv, WorkflowTypeOK, StagedVouched
    <2>3. QED
      BY ONLY <1>1, <2>1, <2>2 DEF Load
  <1>4. PublicInv'
    BY <1>1 DEF publicVars, markers, IInv, PublicInv, TypeOK, ComponentsVouched, DatasetsVouched, LinksFollow,
                ViewsFollow, IsView, Reads
  <1>5. \A x \in Datasets \ {d} : job'[x] = job[x]
    BY <1>1 DEF IInv, StagingInv, WorkflowTypeOK
  <1>6. PICK S \in SUBSET Uses[d] : job[d] \in [S -> Receipts(Versions)]
    BY <1>1 DEF IInv, StagingInv, WorkflowTypeOK
  <1>7. /\ S \union {c} \in SUBSET Uses[d]
        /\ job'[d] \in [S \union {c} -> Receipts(Versions)]
        /\ job'[d][c] = r /\ \A x \in S \ {c} : job'[d][x] = job[d][x]
    BY <1>1, <1>2, <1>6 DEF IInv, StagingInv, WorkflowTypeOK
  <1>8. WorkflowTypeOK'
    BY <1>1, <1>3, <1>4, <1>5, <1>7 DEF planVars, PublicInv, IInv, StagingInv, WorkflowTypeOK
  <1>9. JobsRun'
    BY <1>1 DEF planVars, IInv, StagingInv, JobsRun, Idle
  <1>10. ReceiptsFresh'
    <2>1. ASSUME NEW x \in Components, NEW p, PartFresh(p, x) PROVE PartFresh(p, x)'
      BY <1>1, <1>3, <2>1 DEF PartFresh
    <2>2. PartFresh(r, c)'
      BY <1>1, <1>2, <1>3 DEF PartFresh
    <2>3. \A x \in Datasets : job[x] # None => DOMAIN job[x] \subseteq Components
      BY UsesAssumption DEF IInv, StagingInv, WorkflowTypeOK
    <2>4. ASSUME NEW e \in Datasets, job'[e] # None, NEW x \in DOMAIN job'[e] PROVE PartFresh(job[e][x], x)'
      <3>1. CASE e = d /\ x = c
        BY <1>7, <2>2, <3>1
      <3>2. CASE e = d /\ x # c
        <4>1. x \in S /\ job'[d][x] = job[d][x] /\ x \in Components
          BY <1>6, <1>7, <2>4, <3>2, UsesAssumption
        <4>2. PartFresh(job[d][x], x)
          BY <1>1, <1>6, <4>1 DEF IInv, StagingInv, ReceiptsFresh
        <4>3. QED
          BY <1>1, <1>3, <3>2, <4>1, <4>2 DEF PartFresh
      <3>3. CASE e # d
        <4>1. job'[e] = job[e] /\ x \in Components /\ PartFresh(job[e][x], x)
          BY <1>5, <2>3, <2>4, <3>3 DEF IInv, StagingInv, ReceiptsFresh
        <4>2. QED
          BY <1>1, <1>3, <4>1 DEF PartFresh
      <3>4. QED
        BY <3>1, <3>2, <3>3
    <2>5. ASSUME NEW e \in Datasets, receipt'[e] # None
          PROVE  (\A x \in Uses[e] : PartFresh(receipt[e].parts[x], x))' /\ (receipt[e].whole.version = Wanted(e))'
      BY <1>1, <2>1, <2>5, UsesAssumption DEF IInv, StagingInv, ReceiptsFresh, Wanted
    <2>6. QED
      BY <2>4, <2>5 DEF ReceiptsFresh
  <1>11. QED
    BY <1>3, <1>4, <1>8, <1>9, <1>10 DEF IInv, StagingInv

\* Nothing public changes in a step that leaves the public side alone.
LEMMA PublicUnchanged == ASSUME PublicInv, UNCHANGED publicVars PROVE PublicInv'
  BY DEF publicVars, markers, PublicInv, TypeOK, ComponentsVouched, DatasetsVouched, LinksFollow, ViewsFollow,
         IsView, Reads

\* A job that starts has learnt nothing yet.
LEMMA StartJobStep == ASSUME IInv, NEW d \in Datasets, StartJob(d) PROVE IInv'
  <1>1. PublicInv'
    BY PublicUnchanged DEF StartJob, IInv
  <1>2. /\ running /\ running' /\ toStage' \subseteq toStage
        /\ job' \in [Datasets -> {job[x] : x \in Datasets} \union {<<>>}]
        /\ job'[d] = <<>> /\ receipt'[d] = None
        /\ \A x \in Datasets \ {d} : job'[x] = job[x] /\ receipt'[x] = receipt[x]
        /\ UNCHANGED <<src, stg, staged, recorded, touched, calm>>
    BY DEF StartJob, stagingVars, IInv, StagingInv, WorkflowTypeOK, JobsRun
  <1>3. <<>> \in [{} -> Receipts(Versions)] /\ DOMAIN <<>> = {}
    OBVIOUS
  <1>4. WorkflowTypeOK'
    <2>1. \E S \in SUBSET Uses[d] : job'[d] \in [S -> Receipts(Versions)]
      BY <1>2, <1>3
    <2>2. DOMAIN job' = Datasets /\ DOMAIN receipt' = Datasets
      BY DEF StartJob, IInv, StagingInv, WorkflowTypeOK
    <2>3. QED
      BY <1>1, <1>2, <2>1, <2>2 DEF IInv, StagingInv, WorkflowTypeOK, PublicInv
  <1>5. ReceiptsFresh'
    BY <1>2, <1>3 DEF IInv, StagingInv, ReceiptsFresh, PartFresh, Wanted
  <1>6. StagedVouched' /\ JobsRun'
    BY <1>2 DEF IInv, StagingInv, StagedVouched, JobsRun
  <1>7. QED
    BY <1>1, <1>4, <1>5, <1>6 DEF IInv, StagingInv

\* Staging a view writes a receipt over the sources, which are still while the job runs.
LEMMA StageViewStep == ASSUME IInv, NEW d \in Datasets, StageView(d) PROVE IInv'
  <1>1. PublicInv'
    BY PublicUnchanged DEF StageView, IInv
  <1>2. PICK whole : whole = ViewReceipt(d, Wanted(d))
    OBVIOUS
  <1>3. /\ job[d] # None /\ DOMAIN job[d] = Uses[d]
        /\ receipt'[d] = [parts |-> job[d], whole |-> whole]
        /\ job'[d] = None
        /\ DOMAIN job' = Datasets /\ DOMAIN receipt' = Datasets
        /\ \A x \in Datasets \ {d} : job'[x] = job[x] /\ receipt'[x] = receipt[x]
        /\ UNCHANGED <<src, stg, staged, running, toStage, recorded, calm>>
        /\ touched' = FALSE
    BY <1>2 DEF StageView, stagingVars, planVars, IInv, StagingInv, WorkflowTypeOK
  <1>4. job[d] \in [Uses[d] -> Receipts(Versions)]
    BY <1>3 DEF IInv, StagingInv, WorkflowTypeOK
  <1>5. whole \in Receipts(Ids(d)) /\ whole.version = Wanted(d)
    <2>1. Wanted(d) \in Ids(d)
      BY UsesAssumption DEF Wanted, Ids, IInv, StagingInv, WorkflowTypeOK
    <2>2. datasetMarker[d] \in Ids(d) \union {None}
      BY DEF IInv, PublicInv, TypeOK
    <2>3. QED
      BY <1>2, <2>1, <2>2 DEF ViewReceipt, Staging, Receipts
  <1>6. WorkflowTypeOK'
    <2>1. /\ receipt'[d].parts \in [Uses[d] -> Receipts(Versions)]
          /\ receipt'[d].whole \in Receipts(Ids(d))
      BY <1>3, <1>4, <1>5
    <2>2. ASSUME NEW x \in Datasets
          PROVE  /\ job'[x] # None => \E S \in SUBSET Uses[x] : job'[x] \in [S -> Receipts(Versions)]
                 /\ receipt'[x] # None => /\ receipt'[x].parts \in [Uses[x] -> Receipts(Versions)]
                                          /\ receipt'[x].whole \in Receipts(Ids(x))
      BY <1>3, <2>1 DEF IInv, StagingInv, WorkflowTypeOK
    <2>3. QED
      BY <1>1, <1>3, <2>2 DEF IInv, StagingInv, WorkflowTypeOK, PublicInv
  <1>7. ReceiptsFresh'
    BY <1>3, <1>5 DEF IInv, StagingInv, ReceiptsFresh, PartFresh, Wanted
  <1>8. StagedVouched' /\ JobsRun'
    BY <1>3 DEF IInv, StagingInv, StagedVouched, JobsRun, Idle
  <1>9. QED
    BY <1>1, <1>6, <1>7, <1>8 DEF IInv, StagingInv

-------------------------------------------------------------------------------
(* The rest, and the invariant *)

\* A source changes between runs, and takes the receipts about it with it.
LEMMA ChangeSourceStep == ASSUME IInv, NEW c \in Components, ChangeSource(c) PROVE IInv'
  <1>1. PublicInv'
    BY PublicUnchanged DEF ChangeSource, IInv
  <1>2. src' \in [Components -> Versions] /\ \A x \in Components \ {c} : src'[x] = src[x]
    BY ContentsAssumption DEF ChangeSource, IInv, StagingInv, WorkflowTypeOK
  <1>3. /\ ~running
        /\ DOMAIN receipt' = Datasets
        /\ \A d \in Datasets : receipt'[d] # None => c \notin Uses[d] /\ receipt'[d] = receipt[d]
        /\ UNCHANGED <<stg, staged, running, toStage, recorded, job, touched, calm>>
    BY DEF ChangeSource, stagingVars, planVars
  <1>4. WorkflowTypeOK'
    BY <1>1, <1>2, <1>3 DEF IInv, StagingInv, WorkflowTypeOK, PublicInv
  <1>5. ReceiptsFresh'
    <2>1. ASSUME NEW x \in Components \ {c}, NEW p, PartFresh(p, x) PROVE PartFresh(p, x)'
      BY <1>2, <1>3, <2>1 DEF PartFresh
    <2>2. ASSUME NEW d \in Datasets PROVE job'[d] = None
      BY <1>3 DEF IInv, StagingInv, JobsRun, Idle
    <2>3. ASSUME NEW d \in Datasets, receipt'[d] # None
          PROVE  (\A x \in Uses[d] : PartFresh(receipt[d].parts[x], x))' /\ (receipt[d].whole.version = Wanted(d))'
      <3>1. receipt'[d] = receipt[d] /\ Uses[d] \subseteq Components \ {c}
        BY <1>3, <2>3, UsesAssumption
      <3>2. Wanted(d)' = Wanted(d)
        BY <1>2, <3>1 DEF Wanted
      <3>3. QED
        BY <2>1, <2>3, <3>1, <3>2 DEF IInv, StagingInv, ReceiptsFresh
    <2>4. QED
      BY <2>2, <2>3 DEF ReceiptsFresh
  <1>6. StagedVouched' /\ JobsRun'
    BY <1>3 DEF IInv, StagingInv, StagedVouched, JobsRun, Idle
  <1>7. QED
    BY <1>1, <1>4, <1>5, <1>6 DEF IInv, StagingInv

\* The steps that leave receipts, jobs and staging tables alone, or only forget jobs.
LEMMA OtherSteps == ASSUME IInv, Plan \/ PublishFails \/ Lose \/ Crash \/ CalmDown \/ UNCHANGED vars PROVE IInv'
  <1>1. PublicInv'
    BY PublicUnchanged, LoseKeeps DEF Plan, PublishFails, Crash, CalmDown, vars, IInv
  <1>2. /\ UNCHANGED <<src, stg, staged, receipt>>
        /\ job' = job \/ job' = [d \in Datasets |-> None]
        /\ {running', touched', calm'} \subseteq BOOLEAN
        /\ toStage' \subseteq Datasets
        /\ recorded' \in [Datasets -> BOOLEAN]
        /\ JobsRun'
    <2> USE DEF stagingVars, planVars, jobVars, IInv, StagingInv, WorkflowTypeOK, JobsRun, Idle
    <2>1. CASE Plan
      BY <2>1 DEF Plan, StageNeeded, PublishedState, Intact, SnapshotIntact
    <2>2. CASE PublishFails
      BY <2>2 DEF PublishFails, AllStaged
    <2>3. CASE Lose
      BY <2>3 DEF Lose
    <2>4. CASE Crash
      BY <2>4 DEF Crash
    <2>5. CASE CalmDown
      BY <2>5 DEF CalmDown
    <2>6. CASE UNCHANGED vars
      BY <2>6 DEF vars
    <2>7. QED
      BY <2>1, <2>2, <2>3, <2>4, <2>5, <2>6
  <1>3. WorkflowTypeOK'
    BY <1>1, <1>2 DEF IInv, StagingInv, WorkflowTypeOK, PublicInv
  <1>4. ReceiptsFresh'
    BY <1>2 DEF IInv, StagingInv, ReceiptsFresh, PartFresh, Wanted
  <1>5. StagedVouched'
    BY <1>2 DEF IInv, StagingInv, StagedVouched
  <1>6. QED
    BY <1>1, <1>2, <1>3, <1>4, <1>5 DEF IInv, StagingInv

\* Nothing is published or staged at first.
LEMMA InvInit == ASSUME Init PROVE IInv
  <1> USE DEF Init, DatabaseInit
  <1>1. <<>> \in [{} -> Versions]
    OBVIOUS
  <1>2. TypeOK
    <2>1. \A d \in Datasets : \E S \in SUBSET Uses[d] : links[d] \in [S -> Versions]
      BY <1>1
    <2>2. QED
      BY <2>1, NamesAssumption DEF TypeOK, Names
  <1>3. WorkflowTypeOK
    BY <1>2, ContentsAssumption DEF WorkflowTypeOK
  <1>4. JobsRun /\ StagedVouched /\ ReceiptsFresh
    BY DEF JobsRun, Idle, StagedVouched, ReceiptsFresh
  <1>5. ComponentsVouched /\ DatasetsVouched /\ LinksFollow /\ ViewsFollow
    BY DEF ComponentsVouched, DatasetsVouched, LinksFollow, ViewsFollow, IsView
  <1>6. QED
    BY <1>2, <1>3, <1>4, <1>5 DEF IInv, StagingInv, PublicInv

\* The invariant is inductive.
LEMMA InvNext == ASSUME IInv, [Next]_vars PROVE IInv'
  BY ONLY IInv, [Next]_vars, Steps, PublishStep, MaterializeStep, StageComponentStep, StartJobStep,
     StageViewStep, ChangeSourceStep, OtherSteps

\* The inductive invariant, for every registry, on PostgreSQL and DuckDB.
THEOREM Invariant == Spec => []IInv
  BY InvInit, InvNext, PTL DEF Spec

-------------------------------------------------------------------------------
(* What the runs check on two datasets, for all *)

\* Every variable has its type, the receipts and the jobs included.
THEOREM TypesCorrect == Spec => []WorkflowTypeOK
  <1>1. IInv => WorkflowTypeOK
    BY DEF IInv, StagingInv
  <1>2. QED
    BY <1>1, Invariant, PTL

\* A component marker names the rows of its table, as long as the table is there: publishes
\* whose receipts were staged by several jobs, or by an earlier run, leave no other rows under
\* it.
THEOREM ComponentMarkersVouch == Spec => []ComponentsVouched
  <1>1. IInv => ComponentsVouched
    BY DEF IInv, PublicInv
  <1>2. QED
    BY <1>1, Invariant, PTL

\* A dataset marker names what a reader of its view gets.
THEOREM DatasetMarkersVouch == Spec => []DatasetsVouched
  <1>1. IInv => DatasetsVouched
    BY DEF IInv, PublicInv
  <1>2. QED
    BY <1>1, Invariant, PTL

\* No view is left over a table that another dataset's publish has replaced.
THEOREM ViewsAreOverPublicTables == Spec => []ViewsFollow
  <1>1. IInv => ViewsFollow
    BY DEF IInv, PublicInv
  <1>2. QED
    BY <1>1, Invariant, PTL

\* A publish that committed and whose job died is accepted when its receipts are published again.
THEOREM ReplayIsAccepted == Spec => []ReplayAccepted
  <1>1. ASSUME IInv PROVE ReplayAccepted
    <2>1. SUFFICES ASSUME \A d \in Datasets :
                      /\ receipt[d] # None
                      /\ datasetMarker[d] = receipt[d].whole.version /\ relation[d] # None
                      /\ \A c \in Uses[d] : marker[c] = receipt[d].parts[c].version /\ live[c] # None
                   PROVE  ~Raises(receipt, stg, FALSE)
      BY DEF ReplayAccepted
    <2>2. WellFormed(receipt) /\ DOMAIN receipt = Datasets
      BY <1>1, <2>1 DEF IInv, StagingInv, WorkflowTypeOK, WellFormed
    <2>3. QED
      BY <2>1, <2>2, ReplayOfPublished
  <1>2. QED
    BY <1>1, Invariant, PTL

-------------------------------------------------------------------------------
(* What readers see: the refinement of DatasetPublication *)

\* A dataset found current is still under the version that was found, and no marker is of a plain table.
CurrentInv ==
    \A d \in Datasets :
        /\ receipt[d] # None /\ receipt[d].whole.status = "current" =>
                datasetMarker[d] = receipt[d].whole.version
        /\ relation[d] = Flat => datasetMarker[d] = None

\* What a view reads is there or missing, component by component: it is not taken for no view.
LEMMA ViewReads ==
    ASSUME TypeOK, NEW d \in Datasets
    PROVE  /\ ReadersSee[d] = IF IsView(d) THEN Reads(d) ELSE relation[d]
           /\ IsView(d) => Reads(d) \in [Uses[d] -> Versions \union {None}]
           /\ Publication!IsView(d) <=> IsView(d)
  <1>1. ReadersSee[d] = IF IsView(d) THEN Reads(d) ELSE relation[d]
    BY DEF ReadersSee
  <1>2. ASSUME IsView(d) PROVE Reads(d) \in [Uses[d] -> Versions \union {None}]
    BY <1>2, UsesAssumption DEF TypeOK, IsView, Reads, Ids
  <1>3. Publication!IsView(d) <=> IsView(d)
    BY <1>1, <1>2, ValuesAssumption DEF Publication!IsView, IsView
  <1>4. QED
    BY <1>1, <1>2, <1>3

\* A publish of receipts about the present sources moves what it restages to them, and nobody who
\* shares a table with that is left behind.
LEMMA PublishMoves ==
    ASSUME PublicInv, src \in [Components -> Versions], NEW receipts, WellFormed(receipts),
           NEW rows \in [Components -> Versions \union {None}], RowsStaged(receipts, rows),
           PublishDatasets(receipts, rows, FALSE), UNCHANGED src,
           \A d \in DOMAIN receipts : receipts[d].whole.version = Wanted(d)
    PROVE  Publication!Move(ToRestage(receipts))
  <1>1. PICK swapped, restaged, versions : PublishedAs(swapped, restaged, versions, receipts, rows, FALSE)
    BY PublishEffect DEF PublicInv
  <1>2. ComponentsVouched'
    BY PublishVouchesComponents DEF PublicInv
  <1>3. restaged = ToRestage(receipts) /\ restaged \subseteq Datasets
    BY <1>1 DEF PublishedAs, WellFormed
  <1>4. ASSUME NEW d \in restaged
        PROVE  ReadersSee'[d] = Wanted(d) /\ \A c \in Uses[d] : live'[c] = src[c]
    <2>1. d \in Datasets /\ d \in DOMAIN receipts /\ Uses[d] \subseteq Components
      BY <1>1, <1>3, UsesAssumption DEF PublishedAs
    <2>2. /\ relation'[d] = Over(live', d)
          /\ \A c \in Uses[d] : live'[c] # None /\ marker'[c] = Wanted(d)[c]
      BY <1>1, <2>1 DEF PublishedAs
    <2>3. ASSUME NEW c \in Uses[d] PROVE live'[c] = src[c]
      <3>1. c \in Components /\ src[c] # None
        BY <2>1, ValuesAssumption
      <3>2. live'[c] # None /\ marker'[c] = src[c]
        BY <2>2 DEF Wanted
      <3>3. QED
        BY <1>2, <3>1, <3>2 DEF ComponentsVouched
    <2>4. Over(live', d) = Wanted(d)
      BY <2>3 DEF Over, Wanted
    <2>5. Wanted(d) \in [Uses[d] -> Versions \union {None}]
      BY <2>1 DEF Wanted
    <2>6. IsView(d)'
      BY <2>1, <2>2, <2>4, <2>5, ValuesAssumption DEF IsView
    <2>7. Reads(d)' = Wanted(d)
      BY <2>2, <2>4 DEF Reads, Over
    <2>8. QED
      BY <2>1, <2>3, <2>6, <2>7 DEF ReadersSee
  <1>5. ASSUME NEW d \in Datasets \ restaged, IsView(d)
        PROVE  \A c \in Uses[d] : live'[c] = live[c]
    <2>1. Uses[d] \subseteq Components /\ datasetMarker[d] # None
      BY <1>5, UsesAssumption DEF PublicInv, LinksFollow
    <2>2. DOMAIN links[d] = Uses[d]
      BY <2>1 DEF PublicInv, LinksFollow, TypeOK, Ids
    <2>3. Uses[d] \intersect swapped = {}
      BY <1>1, <2>2 DEF PublishedAs
    <2>4. QED
      BY <1>1, <2>1, <2>3 DEF PublishedAs
  <1>6. ASSUME NEW d \in Datasets \ restaged
        PROVE  ReadersSee'[d] = ReadersSee[d]
    <2>1. relation'[d] = relation[d]
      BY <1>1 DEF PublishedAs
    <2>2. IsView(d)' <=> IsView(d)
      BY <2>1 DEF IsView
    <2>3. IsView(d) => Reads(d)' = Reads(d)
      BY <1>5, <2>1 DEF Reads, BoundByName
    <2>4. QED
      BY <2>1, <2>2, <2>3 DEF ReadersSee
  <1>7. ASSUME NEW d \in Datasets \ restaged, Publication!IsView(d), NEW c \in Uses[d],
               NEW e \in restaged, c \in Uses[e]
        PROVE  ReadersSee[d][c] = src[c]
    <2>1. IsView(d) /\ ReadersSee[d] = Reads(d)
      BY <1>7, ViewReads DEF PublicInv
    <2>2. live[c] = src[c]
      BY <1>4, <1>5, <1>7, <2>1
    <2>3. src[c] # None
      BY <1>3, UsesAssumption, ValuesAssumption
    <2>4. QED
      BY <2>1, <2>2, <2>3 DEF PublicInv, ViewsFollow
  <1>8. ReadersSee' = [d \in Datasets |-> IF d \in restaged THEN Publication!Wanted(d) ELSE ReadersSee[d]]
    BY <1>3, <1>4, <1>6 DEF ReadersSee, Wanted, Publication!Wanted
  <1>9. QED
    BY <1>3, <1>7, <1>8 DEF Publication!Move

\* The publish of the registry: what is not restaged was found current, and is but for what was lost.
LEMMA PublishImplements ==
    ASSUME IInv, CurrentInv, Publish
    PROVE  CurrentInv' /\ Publication!Publish(ToRestage(receipt))
  <1>1. PublishDatasets(receipt, stg, FALSE) /\ AllStaged /\ UNCHANGED <<src, receipt>>
    BY DEF Publish
  <1>2. /\ WellFormed(receipt) /\ RowsStaged(receipt, stg) /\ stg \in [Components -> Versions \union {None}]
        /\ \A d \in Datasets : receipt[d] # None /\ receipt[d].whole.version = Wanted(d)
        /\ DOMAIN receipt = Datasets
    BY <1>1, OnDisk DEF IInv, StagingInv, AllStaged, ReceiptsFresh, WorkflowTypeOK
  <1>3. Publication!Move(ToRestage(receipt))
    BY <1>1, <1>2, PublishMoves DEF IInv, StagingInv, WorkflowTypeOK
  <1>4. ASSUME NEW d \in Datasets \ ToRestage(receipt)
        PROVE  /\ ReadersSee[d] # Flat
               /\ Publication!IsView(d) => \A c \in Uses[d] : ReadersSee[d][c] \in {src[c], None}
    <2>1. datasetMarker[d] = Wanted(d)
      <3>1. CASE receipt[d].whole.status = "current"
        BY <1>2, <3>1 DEF CurrentInv
      <3>2. CASE receipt[d].whole.status = "staged"
        BY <1>2, <3>2 DEF ToRestage, StillStaged
      <3>3. receipt[d].whole.status \in {"current", "staged"}
        BY <1>2 DEF WellFormed, Receipts
      <3>4. QED
        BY <3>1, <3>2, <3>3
    <2>2. datasetMarker[d] # None
      <3>1. Wanted(d) \in [Uses[d] -> Versions \union {None}]
        BY UsesAssumption DEF Wanted, IInv, StagingInv, WorkflowTypeOK
      <3>2. QED
        BY <2>1, <3>1, ValuesAssumption
    <2>3. relation[d] # Flat
      BY <2>2 DEF CurrentInv
    <2>4. /\ ReadersSee[d] = IF IsView(d) THEN Reads(d) ELSE relation[d]
          /\ Publication!IsView(d) <=> IsView(d)
          /\ IsView(d) => Reads(d) \in [Uses[d] -> Versions \union {None}]
      BY ViewReads DEF IInv, PublicInv
    <2>5. ReadersSee[d] # Flat
      BY <2>3, <2>4, ValuesAssumption
    <2>6. IsView(d) => \A c \in Uses[d] : Reads(d)[c] \in {src[c], None}
      BY <2>1, <2>2 DEF IInv, PublicInv, DatasetsVouched, Wanted
    <2>7. QED
      BY <2>4, <2>5, <2>6
  <1>5. CurrentInv'
    <2>1. PICK swapped, restaged, versions : PublishedAs(swapped, restaged, versions, receipt, stg, FALSE)
      BY <1>1, <1>2, PublishEffect DEF IInv, PublicInv
    <2>2. TypeOK'
      BY <1>1, <1>2, PublishTypes DEF IInv, PublicInv
    <2>3. ASSUME NEW d \in restaged, d \in Datasets
          PROVE  datasetMarker'[d] = receipt'[d].whole.version /\ relation'[d] # Flat
      <3>1. /\ datasetMarker'[d] = receipt[d].whole.version
            /\ relation'[d] = Over(live', d)
        BY <2>1, <2>3 DEF PublishedAs
      <3>2. Over(live', d) \in [Uses[d] -> Versions \union {None}]
        <4>1. live' \in [Components -> Versions \union {None}] /\ Uses[d] \subseteq Components
          BY <2>2, <2>3, UsesAssumption DEF TypeOK
        <4>2. QED
          BY <4>1 DEF Over
      <3>3. QED
        BY <1>1, <2>3, <3>1, <3>2, ValuesAssumption
    <2>4. \A d \in Datasets \ restaged : datasetMarker'[d] = datasetMarker[d] /\ relation'[d] = relation[d]
      BY <2>1 DEF PublishedAs
    <2>5. QED
      BY <1>1, <2>3, <2>4 DEF CurrentInv
  <1>6. QED
    BY <1>3, <1>4, <1>5 DEF Publication!Publish

\* What materialize_v2 publishes: fresh receipts of one dataset, over rows that are staged.
LEMMA MaterializeIs ==
    ASSUME IInv, NEW d \in Datasets, Materialize(d)
    PROVE  \E receipts, rows :
               /\ DOMAIN receipts = {d} /\ WellFormed(receipts) /\ receipts[d].whole.version = Wanted(d)
               /\ rows \in [Components -> Versions \union {None}] /\ RowsStaged(receipts, rows)
               /\ PublishDatasets(receipts, rows, FALSE)
  <1> DEFINE receipts == [x \in {d} |-> FreshReceipt(d, src)]
             loaded == {c \in Uses[d] : receipts[d].parts[c].status = "staged"}
             rows == [c \in Components |-> IF c \in loaded /\ ~StagingReusable(c, src[c], stg, staged)
                                           THEN src[c] ELSE stg[c]]
  <1>1. PublishDatasets(receipts, rows, FALSE)
    BY DEF Materialize
  <1>2. /\ FreshReceipt(d, src).parts \in [Uses[d] -> Receipts(Versions)]
        /\ FreshReceipt(d, src).whole \in Receipts(Ids(d))
        /\ \A c \in Uses[d] : FreshReceipt(d, src).parts[c].version = src[c]
        /\ FreshReceipt(d, src).whole = ViewReceipt(d, Wanted(d))
    BY FreshReceiptType DEF IInv, StagingInv, WorkflowTypeOK, Wanted
  <1>3. WellFormed(receipts) /\ DOMAIN receipts = {d}
    BY <1>2 DEF WellFormed
  <1>4. receipts[d].whole.version = Wanted(d)
    BY <1>2 DEF ViewReceipt, Staging
  <1>5. \A c \in loaded : c \in Components /\ src[c] \in Versions /\ src[c] # None
    BY UsesAssumption, ValuesAssumption DEF IInv, StagingInv, WorkflowTypeOK
  <1>6. \A c \in loaded : rows[c] = src[c]
    BY <1>5 DEF StagingReusable, IInv, StagingInv, StagedVouched
  <1>7. \A c \in Components \ loaded : rows[c] = stg[c]
    OBVIOUS
  <1>8. rows \in [Components -> Versions \union {None}]
    BY <1>5, <1>6, <1>7 DEF IInv, StagingInv, WorkflowTypeOK
  <1>9. RowsStaged(receipts, rows)
    BY <1>2, <1>6 DEF RowsStaged
  <1> HIDE DEF receipts, rows
  <1>10. QED
    BY <1>1, <1>3, <1>4, <1>8, <1>9

\* One dataset alone moves, or nothing does.
LEMMA MaterializeImplements ==
    ASSUME IInv, CurrentInv, NEW d \in Datasets, Materialize(d)
    PROVE  CurrentInv' /\ (Publication!Move({d}) \/ UNCHANGED <<src, ReadersSee>>)
  <1>1. PICK receipts, rows :
            /\ DOMAIN receipts = {d} /\ WellFormed(receipts) /\ receipts[d].whole.version = Wanted(d)
            /\ rows \in [Components -> Versions \union {None}] /\ RowsStaged(receipts, rows)
            /\ PublishDatasets(receipts, rows, FALSE)
    BY MaterializeIs
  <1>2. UNCHANGED <<src, receipt>>
    BY DEF Materialize, jobVars
  <1>3. Publication!Move(ToRestage(receipts))
    BY <1>1, <1>2, PublishMoves DEF IInv, StagingInv, WorkflowTypeOK
  <1>4. ToRestage(receipts) \in {{d}, {}}
    BY <1>1 DEF ToRestage
  <1>5. ASSUME ToRestage(receipts) = {} PROVE UNCHANGED <<src, ReadersSee>>
    BY <1>2, <1>3, <1>5 DEF Publication!Move, ReadersSee
  <1>6. CurrentInv'
    <2>1. PICK swapped, restaged, versions : PublishedAs(swapped, restaged, versions, receipts, rows, FALSE)
      BY <1>1, PublishEffect DEF IInv, PublicInv
    <2>2. TypeOK'
      BY <1>1, PublishTypes DEF IInv, PublicInv
    <2>3. restaged \subseteq {d}
      BY <1>1, <2>1 DEF PublishedAs
    <2>4. ASSUME d \in restaged
          PROVE  /\ receipt'[d] # None => datasetMarker'[d] = receipt'[d].whole.version
                 /\ relation'[d] # Flat
      <3>1. datasetMarker'[d] = Wanted(d) /\ relation'[d] = Over(live', d)
        BY <1>1, <2>1, <2>4 DEF PublishedAs
      <3>2. receipt[d] # None => receipt[d].whole.version = Wanted(d)
        BY DEF IInv, StagingInv, ReceiptsFresh
      <3>3. live' \in [Components -> Versions \union {None}] /\ Uses[d] \subseteq Components
        BY <2>2, UsesAssumption DEF TypeOK
      <3>4. Over(live', d) \in [Uses[d] -> Versions \union {None}]
        BY <3>3 DEF Over
      <3>5. QED
        BY <1>2, <3>1, <3>2, <3>4, ValuesAssumption
    <2>5. \A x \in Datasets \ restaged : datasetMarker'[x] = datasetMarker[x] /\ relation'[x] = relation[x]
      BY <2>1 DEF PublishedAs
    <2>6. QED
      BY <1>2, <2>3, <2>4, <2>5 DEF CurrentInv
  <1>7. QED
    BY <1>3, <1>4, <1>5, <1>6

\* A table is lost with the views over it, or leaves a hole in those that find it by name.
LEMMA DropComponentImplements ==
    ASSUME IInv, NEW c \in Components, DropComponent(c), UNCHANGED src
    PROVE  \E S \in SUBSET Datasets, dropped \in BOOLEAN : Publication!LoseTable(c, S, dropped)
  <1>1. /\ live \in [Components -> Versions \union {None}]
        /\ live' = [live EXCEPT ![c] = None]
        /\ relation' = [d \in Datasets |-> IF ~ByName /\ d \in ReadersOf(c) THEN None ELSE relation[d]]
    BY DEF DropComponent, IInv, PublicInv, TypeOK
  <1>2. \A d \in Datasets : /\ ReadersSee[d] = IF IsView(d) THEN Reads(d) ELSE relation[d]
                            /\ Publication!IsView(d) <=> IsView(d)
    BY ViewReads DEF IInv, PublicInv
  <1>3. CASE ByName
    <2> DEFINE S == {d \in Datasets \ Materialized : IsView(d) /\ c \in Uses[d]}
    <2>1. \A d \in Datasets : relation'[d] = relation[d]
      BY <1>1, <1>3
    <2>2. ASSUME NEW d \in S PROVE ReadersSee'[d] = [ReadersSee[d] EXCEPT ![c] = None]
      <3>1. Reads(d) = [x \in Uses[d] |-> live[x]] /\ Reads(d)' = [x \in Uses[d] |-> live'[x]]
        BY <1>3 DEF Reads, BoundByName
      <3>2. Reads(d)' = [Reads(d) EXCEPT ![c] = None]
        BY <1>1, <3>1, UsesAssumption
      <3>3. QED
        BY <1>2, <2>1, <3>2 DEF ReadersSee, IsView
    <2>3. ASSUME NEW d \in Datasets \ S PROVE ReadersSee'[d] = ReadersSee[d]
      <3>1. IsView(d) => Reads(d)' = Reads(d)
        BY <1>1, <2>1, <2>3, UsesAssumption DEF Reads, BoundByName
      <3>2. QED
        BY <2>1, <3>1 DEF ReadersSee, IsView
    <2>4. S \in SUBSET Datasets /\ \A d \in S : Publication!IsView(d) /\ c \in Uses[d]
      BY <1>2
    <2>5. ReadersSee' = [d \in Datasets |-> IF d \notin S THEN ReadersSee[d]
                                            ELSE IF FALSE THEN None ELSE [ReadersSee[d] EXCEPT ![c] = None]]
      BY <2>2, <2>3 DEF ReadersSee
    <2> HIDE DEF S
    <2>6. Publication!LoseTable(c, S, FALSE)
      BY <2>4, <2>5 DEF Publication!LoseTable
    <2>7. QED
      BY <2>4, <2>6
  <1>4. CASE ~ByName
    <2> DEFINE S == ReadersOf(c)
    <2>1. ASSUME NEW d \in Datasets, d \in S PROVE ReadersSee'[d] = None
      BY <1>1, <1>4, <2>1 DEF ReadersSee, IsView
    <2>2. ASSUME NEW d \in Datasets \ S PROVE ReadersSee'[d] = ReadersSee[d]
      BY <1>1, <1>4 DEF ReadersSee, IsView, Reads, BoundByName
    <2>3. S \in SUBSET Datasets /\ \A d \in S : Publication!IsView(d) /\ c \in Uses[d]
      BY <1>2 DEF ReadersOf
    <2> HIDE DEF S
    <2>4. ReadersSee' = [d \in Datasets |-> IF d \notin S THEN ReadersSee[d]
                                            ELSE IF TRUE THEN None ELSE [ReadersSee[d] EXCEPT ![c] = None]]
      BY <2>1, <2>2 DEF ReadersSee
    <2>5. Publication!LoseTable(c, S, TRUE)
      BY <2>3, <2>4 DEF Publication!LoseTable
    <2>6. QED
      BY <2>3, <2>5
  <1>5. QED
    BY <1>3, <1>4

\* Every step moves, loses or leaves what readers see.
LEMMA StepImplements ==
    ASSUME IInv, CurrentInv, [Next]_vars
    PROVE  CurrentInv' /\ [Publication!Next]_<<src, ReadersSee>>
  <1>1. CASE Publish
    <2>1. ToRestage(receipt) \in SUBSET Datasets
      BY <1>1 DEF Publish, ToRestage, IInv, StagingInv, WorkflowTypeOK
    <2>2. QED
      BY <1>1, <2>1, PublishImplements DEF Publication!Next
  <1>2. ASSUME NEW d \in Datasets, Materialize(d)
        PROVE  CurrentInv' /\ [Publication!Next]_<<src, ReadersSee>>
    BY <1>2, MaterializeImplements DEF Publication!Next
  <1>3. CASE Lose
    <2>1. UNCHANGED <<src, datasetMarker, receipt>> /\ \A d \in Datasets : relation'[d] \in {relation[d], None}
      BY <1>3 DEF Lose, DropComponent, DropRelation, markers, jobVars, IInv, PublicInv, TypeOK
    <2>2. CurrentInv'
      BY <2>1, ValuesAssumption DEF CurrentInv
    <2>3. ASSUME NEW c \in Components, DropComponent(c) PROVE Publication!Next
      BY <2>1, <2>3, DropComponentImplements DEF Publication!Next
    <2>4. ASSUME NEW d \in Datasets, DropRelation(d) PROVE Publication!Next
      <3>1. relation' = [relation EXCEPT ![d] = None] /\ UNCHANGED live
        BY <2>4 DEF DropRelation
      <3>2. \A x \in Datasets \ {d} : ReadersSee'[x] = ReadersSee[x]
        BY <3>1 DEF ReadersSee, IsView, Reads, BoundByName, IInv, PublicInv, TypeOK
      <3>3. ReadersSee'[d] = None
        BY <3>1 DEF ReadersSee, IsView, IInv, PublicInv, TypeOK
      <3>4. ReadersSee' = [ReadersSee EXCEPT ![d] = None]
        BY <3>2, <3>3 DEF ReadersSee
      <3>5. QED
        BY <2>1, <3>4 DEF Publication!Next, Publication!LoseRelation
    <2>5. QED
      BY <1>3, <2>2, <2>3, <2>4 DEF Lose
  <1>4. ASSUME NEW c \in Components, ChangeSource(c)
        PROVE  CurrentInv' /\ [Publication!Next]_<<src, ReadersSee>>
    <2>1. PICK v \in Contents[c] : src' = [src EXCEPT ![c] = v]
      BY <1>4 DEF ChangeSource
    <2>2. v \in Versions
      BY ContentsAssumption
    <2>3. UNCHANGED <<live, relation, datasetMarker>> /\ \A d \in Datasets : receipt'[d] \in {receipt[d], None}
      BY <1>4 DEF ChangeSource, publicVars, markers
    <2>4. UNCHANGED ReadersSee
      BY <2>3 DEF ReadersSee, IsView, Reads, BoundByName
    <2>5. QED
      BY <2>1, <2>2, <2>3, <2>4 DEF CurrentInv, Publication!Next, Publication!SourceChanges
  <1>5. ASSUME NEW d \in Datasets, StageView(d)
        PROVE  CurrentInv' /\ UNCHANGED <<src, ReadersSee>>
    <2>1. PICK whole : whole = ViewReceipt(d, Wanted(d))
      OBVIOUS
    <2>2. /\ UNCHANGED <<live, relation, datasetMarker, src>>
          /\ receipt'[d].whole = whole
          /\ \A x \in Datasets \ {d} : receipt'[x] = receipt[x]
      BY <1>5, <2>1 DEF StageView, publicVars, markers, IInv, StagingInv, WorkflowTypeOK
    <2>3. whole.status = "current" => datasetMarker[d] = whole.version
      BY <2>1 DEF ViewReceipt, Staging
    <2>4. UNCHANGED ReadersSee
      BY <2>2 DEF ReadersSee, IsView, Reads, BoundByName
    <2>5. QED
      BY <2>2, <2>3, <2>4 DEF CurrentInv
  <1>6. CASE \/ Plan \/ PublishFails \/ Crash \/ CalmDown \/ UNCHANGED vars
             \/ \E d \in Datasets : StartJob(d)
             \/ \E d \in Datasets, c \in Components : StageComponent(d, c)
    <2>1. UNCHANGED <<live, relation, datasetMarker, src>> /\ \A d \in Datasets : receipt'[d] \in {receipt[d], None}
      BY <1>6 DEF Plan, PublishFails, Crash, CalmDown, vars, StartJob, StageComponent, publicVars, markers, jobVars,
                  IInv, StagingInv, WorkflowTypeOK
    <2>2. UNCHANGED ReadersSee
      BY <2>1 DEF ReadersSee, IsView, Reads, BoundByName
    <2>3. QED
      BY <2>1, <2>2 DEF CurrentInv
  <1>7. QED
    BY <1>1, <1>2, <1>3, <1>4, <1>5, <1>6, Steps

\* Over any datasets and components, on PostgreSQL and DuckDB: what the readers of views see changes as
\* DatasetPublication promises, whoever stages, publishes or loses what.
THEOREM DatasetsImplementPublication == Spec => ImplementsPublication
  <1>1. Init => CurrentInv
    BY DEF Init, DatabaseInit, CurrentInv
  <1>2. Init => Publication!Init
    <2>1. SUFFICES ASSUME Init PROVE Publication!Init
      OBVIOUS
    <2>2. src \in [Components -> Versions]
      BY <2>1, ContentsAssumption DEF Init
    <2>3. ReadersSee = relation
      BY <2>1 DEF Init, DatabaseInit, ReadersSee, IsView
    <2>4. QED
      BY <2>1, <2>2, <2>3 DEF Init, DatabaseInit, Publication!Init
  <1>3. IInv /\ CurrentInv /\ [Next]_vars => CurrentInv' /\ [Publication!Next]_<<src, ReadersSee>>
    BY StepImplements
  <1>4. QED
    BY <1>1, <1>2, <1>3, Invariant, PTL DEF Spec, ImplementsPublication, Publication!Spec
===============================================================================
