---------------------------- MODULE ViewDatasets -----------------------------
(***************************************************************************)
(* Staging and publishing manifest v2 datasets: the rules stage_dataset    *)
(* and publish_datasets (rules/db_publish.smk), their scripts, stage_v2(), *)
(* materialize_v2() and sqlsink/sink_v2.py over the database of            *)
(* ViewDatabase.                                                           *)
(*                                                                         *)
(* The jobs of several datasets stage at once; one that stages a component *)
(* holds its staging lock from the first look to the commit, so that is    *)
(* one step.  The sources do not change while a job runs, and the publish  *)
(* job runs after the stage jobs, as the DAG orders them: a second         *)
(* workflow on the same database is not here.                              *)
(***************************************************************************)
EXTENDS ViewDatabase

CONSTANT Contents   \* Contents[c]: the versions the source of component c ever has

ASSUME ContentsAssumption == Contents \in [Components -> SUBSET Versions]

VARIABLES
    src,        \* src[c]: the version of the source of component c
    stg,        \* stg[c]: the rows of the staging table of c, or None
    staged,     \* staged[c]: update_id of c in _pipeline_meta_staged_component_updates, or None
    running,    \* a workflow runs: its jobs are planned
    toStage,    \* the datasets whose stage job has still to start in this run
    recorded,   \* recorded[d]: the param "published" of the job of d when it was last planned
    job,        \* job[d]: the component receipts the job of d has so far, None if it does not run
    receipt,    \* receipt[d]: the receipts of d on disk, None if missing or outdated
    touched,    \* .datasets_published is there, newer than every receipt
    calm        \* auxiliary: nothing disturbs the workflow any more

stagingVars == <<stg, staged>>
planVars == <<running, toStage, recorded>>
jobVars == <<job, receipt, touched>>
vars == <<publicVars, src, stagingVars, planVars, jobVars, calm>>

\* Types, the receipts' included.
WorkflowTypeOK ==
    /\ TypeOK
    /\ src \in [Components -> Versions]
    /\ stg \in [Components -> Versions \union {None}]
    /\ staged \in [Components -> Versions \union {None}]
    /\ {running, touched, calm} \subseteq BOOLEAN
    /\ toStage \subseteq Datasets
    /\ recorded \in [Datasets -> BOOLEAN]
    /\ DOMAIN job = Datasets /\ DOMAIN receipt = Datasets
    /\ \A d \in Datasets :
        /\ job[d] # None => \E S \in SUBSET Uses[d] : job[d] \in [S -> Receipts(Versions)]
        /\ receipt[d] # None => /\ receipt[d].parts \in [Uses[d] -> Receipts(Versions)]
                                /\ receipt[d].whole \in Receipts(Ids(d))

Init ==
    /\ DatabaseInit
    /\ src \in {f \in [Components -> Versions] : \A c \in Components : f[c] \in Contents[c]}
    /\ stg = [c \in Components |-> None] /\ staged = stg
    /\ job = [d \in Datasets |-> None] /\ receipt = job
    /\ running = FALSE /\ toStage = {} /\ touched = FALSE
    /\ recorded = [d \in Datasets |-> FALSE]
    /\ calm = FALSE

Idle == \A d \in Datasets : job[d] = None

\* Bug: the update_id is taken over every component of the registry.
WantedOfAll(d) == src

\* normalize_v2: the component update_ids of d, and with them its own.
Wanted(d) == [c \in Uses[d] |-> src[c]]

-------------------------------------------------------------------------------
(* What Snakemake plans *)

\* Bug: a materialized view is looked up among the tables and the views, and is not found.
PublishedAsView(d) == datasetMarker[d] # None /\ Intact(d) /\ d \notin Materialized

\* dataset_intact of the planning snapshot: the links are compared too.
SnapshotIntact(d) ==
    Intact(d) /\ DOMAIN links[d] = Uses[d] /\ \A c \in Uses[d] : marker[c] = links[d][c]

\* datasets_are_published, from the snapshot on PostgreSQL.
PublishedState(d) == datasetMarker[d] # None /\ IF ByName THEN Intact(d) ELSE SnapshotIntact(d)

\* Bug: the param is compared with the last run's, never with "ok".
RecordedChanged == {d \in Datasets : receipt[d] = None \/ recorded[d] # PublishedState(d)}

\* A receipt is missing or older than a source, or the param "published" is not the recorded "ok".
StageNeeded == {d \in Datasets : receipt[d] = None \/ ~recorded[d] \/ ~PublishedState(d)}

RunNeeded == StageNeeded # {} \/ ~touched

Plan ==
    /\ ~running /\ RunNeeded
    /\ running' = TRUE
    /\ toStage' = StageNeeded
    /\ recorded' = [d \in Datasets |-> IF d \in toStage' THEN PublishedState(d) ELSE recorded[d]]
    /\ UNCHANGED <<publicVars, src, stagingVars, jobVars, calm>>

-------------------------------------------------------------------------------
(* rule stage_dataset *)

\* Snakemake removes the outputs of a job before it runs it.
StartJob(d) ==
    /\ d \in toStage
    /\ toStage' = toStage \ {d}
    /\ job' = [job EXCEPT ![d] = <<>>]
    /\ receipt' = [receipt EXCEPT ![d] = None]
    /\ UNCHANGED <<publicVars, src, stagingVars, running, recorded, touched, calm>>

\* The staging table and its marker are left alone, reused, or replaced in one transaction.
Load(c, version, r) ==
    IF r.status = "current" \/ StagingReusable(c, version, stg, staged)
    THEN UNCHANGED stagingVars
    ELSE /\ stg' = [stg EXCEPT ![c] = version]
         /\ staged' = [staged EXCEPT ![c] = version]

StageComponent(d, c) ==
    /\ job[d] # None /\ c \in Uses[d] \ DOMAIN job[d]
    /\ LET r == ComponentReceipt(c, src[c])
       IN  /\ Load(c, src[c], r)
           /\ job' = [job EXCEPT ![d] = [x \in DOMAIN job[d] \union {c} |->
                                            IF x = c THEN r ELSE job[d][x]]]
    /\ UNCHANGED <<publicVars, src, planVars, receipt, touched, calm>>

\* stage_view_dataset writes nothing; the receipts go to disk and the job is done.
StageView(d) ==
    /\ job[d] # None /\ DOMAIN job[d] = Uses[d]
    /\ receipt' = [receipt EXCEPT ![d] = [parts |-> job[d], whole |-> ViewReceipt(d, Wanted(d))]]
    /\ job' = [job EXCEPT ![d] = None]
    /\ touched' = FALSE
    /\ UNCHANGED <<publicVars, src, stagingVars, planVars, calm>>

-------------------------------------------------------------------------------
(* rule publish_datasets, over the receipts on disk: those of this run, or *)
(* of an earlier one whose publish committed and whose job then died       *)

AllStaged == running /\ toStage = {} /\ Idle /\ \A d \in Datasets : receipt[d] # None

Publish ==
    /\ AllStaged
    /\ PublishDatasets(receipt, stg, FALSE)
    /\ stg' = [c \in Components |-> IF c \in Consumed(receipt) THEN None ELSE stg[c]]
    /\ running' = FALSE
    /\ touched' \in IF calm THEN {TRUE} ELSE BOOLEAN
    /\ UNCHANGED <<src, staged, toStage, recorded, job, receipt, calm>>

\* The publish raises and rolls back; the run ends.
PublishFails ==
    /\ AllStaged
    /\ Raises(receipt, stg, FALSE)
    /\ running' = FALSE
    /\ UNCHANGED <<publicVars, src, stagingVars, toStage, recorded, jobVars, calm>>

\* materialize_v2: one dataset staged and published by one call, with its manifest alone.
Materialize(d) ==
    LET receipts == [x \in {d} |-> FreshReceipt(d, src)]
        loaded == {c \in Uses[d] : receipts[d].parts[c].status = "staged"}
        rows == [c \in Components |-> IF c \in loaded /\ ~StagingReusable(c, src[c], stg, staged)
                                      THEN src[c] ELSE stg[c]]
    IN  /\ ~running
        /\ PublishDatasets(receipts, rows, FALSE)
        /\ stg' = [c \in Components |-> IF c \in Consumed(receipts) THEN None ELSE rows[c]]
        /\ staged' = [c \in Components |-> IF c \in loaded THEN src[c] ELSE staged[c]]
        /\ UNCHANGED <<src, planVars, jobVars, calm>>

-------------------------------------------------------------------------------
(* What disturbs a workflow *)

\* The Parquet is then newer than the receipts of its datasets.
ChangeSource(c) ==
    /\ ~calm /\ ~running
    /\ \E v \in Contents[c] \ {src[c]} : src' = [src EXCEPT ![c] = v]
    /\ receipt' = [d \in Datasets |-> IF c \in Uses[d] THEN None ELSE receipt[d]]
    /\ UNCHANGED <<publicVars, stagingVars, planVars, job, touched, calm>>

Lose ==
    /\ ~calm
    /\ (\E c \in Components : DropComponent(c)) \/ (\E d \in Datasets : DropRelation(d))
    /\ UNCHANGED <<src, stagingVars, planVars, jobVars, calm>>

\* A run dies, its jobs between two of their transactions; no receipt is left of those.
Crash ==
    /\ ~calm /\ running
    /\ running' = FALSE /\ toStage' = {}
    /\ job' = [d \in Datasets |-> None]
    /\ UNCHANGED <<publicVars, src, stagingVars, recorded, receipt, touched, calm>>

CalmDown == ~calm /\ calm' = TRUE /\ UNCHANGED <<publicVars, src, stagingVars, planVars, jobVars>>

Job(d) == StartJob(d) \/ StageView(d) \/ \E c \in Components : StageComponent(d, c)

Work == Plan \/ Publish \/ PublishFails \/ \E d \in Datasets : Job(d)

Next ==
    \/ Work
    \/ \E d \in Datasets : Materialize(d)
    \/ \E c \in Components : ChangeSource(c)
    \/ Lose \/ Crash \/ CalmDown

\* A run that is not killed goes on, and the workflow is run again while it has something to do.
Spec == Init /\ [][Next]_vars /\ WF_vars(Work) /\ WF_vars(CalmDown)

-------------------------------------------------------------------------------
(* Properties *)

\* A view reads the tables that are public, all of them, never a replaced one.
ViewsFollow ==
    \A d \in Datasets : IsView(d) => \A c \in Uses[d] : Reads(d)[c] = live[c] \/ live[c] = None

Served(d) == datasetMarker[d] = Wanted(d) /\ Intact(d) /\ Reads(d) = Wanted(d)

\* What a reader of each dataset gets.
ReadersSee == [d \in Datasets |-> IF IsView(d) THEN Reads(d) ELSE relation[d]]

Publication == INSTANCE DatasetPublication WITH reads <- ReadersSee

\* Readers see publishes as single steps, each to the sources as they are: jobs of several datasets that
\* stage shared components, receipts of an earlier run and publishes of one dataset alone implement
\* DatasetPublication, whatever is lost in between.
ImplementsPublication == Publication!Spec

\* Receipts whose versions are all public may be published once more: it is a no-op, not a conflict.
ReplayAccepted ==
    (\A d \in Datasets :
        /\ receipt[d] # None
        /\ datasetMarker[d] = receipt[d].whole.version /\ relation[d] # None
        /\ \A c \in Uses[d] : marker[c] = receipt[d].parts[c].version /\ live[c] # None)
    => ~Raises(receipt, stg, FALSE)

\* Whatever was lost, changed or killed: once nothing disturbs it any more, the workflow makes
\* every view read its sources again, under the marker that says so (sink_v2.py,
\* published_intact_v2: a dropped component or view is regenerated).
Regenerates == <>[](\A d \in Datasets : Served(d))

\* And it comes to have nothing to do: no job is planned for ever.
Stabilises == <>[](~running /\ ~RunNeeded)
===============================================================================
