------------------------------ MODULE Contours --------------------------------
(***************************************************************************)
(* Manifest v1 datasets: the compact facts of each, and the contours they  *)
(* share, which are one table (parts) or, keyed, two (the zones and their  *)
(* parts) with foreign keys to the zones.  stage() and publish_datasets()  *)
(* of sqlsink/sink.py, sink_postgres.py and publish.py.                    *)
(*                                                                         *)
(* One contour table, shared by all the datasets.  A run stages the        *)
(* datasets it was given the manifests of, all of them (rules              *)
(* stage_dataset and publish_datasets) or one (materialize()), and         *)
(* publishes them.  Every dataset of a run is staged again: what a job     *)
(* that Snakemake skips leaves to the publish is in ViewDatasets.          *)
(*                                                                         *)
(* On PostgreSQL a foreign key and a view follow the table they were made  *)
(* over, and its name is not what counts: "live" is the public one,        *)
(* "staged" the staging one, "old" one that was replaced.                  *)
(***************************************************************************)
CONSTANTS Datasets, Versions, None, Flat,
          FactContents,      \* FactContents[d]: the versions the facts of d ever have
          ContourContents,   \* those of the contours
          Orphaned,          \* <<f, c>>: facts f have a row with no contour in c
          Keyed,             \* the manifests say keyed: true
          Postgres,          \* FALSE: DuckDB has no such foreign keys, its views go by name
          Alone,             \* the datasets materialize() is called for, by themselves
          Losses             \* what somebody drops: kinds of relations

ASSUME ContentsAssumption ==
    FactContents \in [Datasets -> SUBSET Versions] /\ ContourContents \subseteq Versions
ASSUME OrphanedAssumption == Orphaned \subseteq Versions \X Versions
ASSUME DialectAssumption == {Keyed, Postgres} \subseteq BOOLEAN
ASSUME LossesAssumption == Losses \subseteq {"facts", "zone", "parts", "view"}
ASSUME AloneAssumption == Alone \subseteq Datasets
ASSUME ValuesAssumption == None \notin Versions /\ Flat \notin Versions /\ None # Flat

VARIABLES
    factSource,      \* factSource[d]: version of the fact Parquet of d
    contourSource,   \* version of the contour Parquet
    zone, parts,     \* versions in the public tables of the contours, or None
    stgZone, stgParts,
    contourMarker,   \* contour_sha256 in _pipeline_meta_contour_updates, or None
    stagedContour,   \* in _pipeline_meta_staged_contour_updates
    facts,           \* facts[d]: the compact table of d, or None
    stgFacts,
    datasetMarker,   \* datasetMarker[d]: <<facts, contours>> of its update_id, or None
    stagedDataset,
    view,            \* view[d]: None, Flat, or the public view of d
    passed,          \* the datasets of the present run, {} if there is none
    contourReceipt,  \* contourReceipt[d]: of its job, None before it
    receipt,         \* receipt[d]: its dataset receipt, None before
    calm             \* auxiliary: nothing disturbs any more

sources == <<factSource, contourSource>>
contourVars == <<zone, parts, contourMarker>>
stgContourVars == <<stgZone, stgParts, stagedContour>>
datasetVars == <<facts, datasetMarker, view>>
stgFactVars == <<stgFacts, stagedDataset>>
runVars == <<passed, contourReceipt, receipt>>
vars == <<sources, contourVars, stgContourVars, datasetVars, stgFactVars, runVars, calm>>

Nothing == [d \in Datasets |-> None]
OrNone(S) == S \union {None}
Unkeyed == [at |-> "none", zone |-> None]   \* no foreign key, or it was dropped with its zones
Keys == [at : {"live", "staged", "old"}, zone : Versions] \union {Unkeyed}
Compact == [rows : Versions, key : Keys]
View == [facts : Versions, parts : Versions, over : {"live", "old"}]
Staging(S) == [status : {"current", "staged"}, version : S, from : OrNone(S)]

\* Types, and no key to a staging zone table that is not there.
TypeOK ==
    /\ factSource \in [Datasets -> Versions]
    /\ {contourSource} \subseteq Versions
    /\ {zone, parts, stgZone, stgParts, contourMarker, stagedContour} \subseteq OrNone(Versions)
    /\ {facts, stgFacts} \subseteq [Datasets -> OrNone(Compact)]
    /\ {datasetMarker, stagedDataset} \subseteq [Datasets -> OrNone(Versions \X Versions)]
    /\ view \in [Datasets -> View \union {None, Flat}]
    /\ passed \subseteq Datasets
    /\ contourReceipt \in [Datasets -> OrNone(Staging(Versions))]
    /\ receipt \in [Datasets -> OrNone(Staging(Versions \X Versions))]
    /\ calm \in BOOLEAN
    /\ \A d \in Datasets : stgFacts[d] # None /\ stgFacts[d].key.at = "staged" => stgZone # None

Init ==
    /\ factSource \in {f \in [Datasets -> Versions] : \A d \in Datasets : f[d] \in FactContents[d]}
    /\ contourSource \in ContourContents
    /\ zone = None /\ parts = None /\ contourMarker = None
    /\ stgZone = None /\ stgParts = None /\ stagedContour = None
    /\ facts = Nothing /\ datasetMarker = Nothing
    /\ view \in [Datasets -> {None, Flat}]
    /\ stgFacts = Nothing /\ stagedDataset = Nothing
    /\ passed = {} /\ contourReceipt = Nothing /\ receipt = Nothing
    /\ calm = FALSE

-------------------------------------------------------------------------------

\* normalize: the update_id of d.
Wanted(d) == <<factSource[d], contourSource>>

IsView(d) == view[d] \notin {None, Flat}

\* published_intact
Intact(d) == facts[d] # None /\ parts # None /\ (Keyed => zone # None) /\ IsView(d)

IsCurrent(d) == datasetMarker[d] = Wanted(d) /\ Intact(d)

\* The facts and the contours a reader of d gets, None where a table is missing.
Reads(d) == IF Postgres THEN <<view[d].facts, view[d].parts>>
                        ELSE <<IF facts[d] = None THEN None ELSE facts[d].rows, parts>>

Referencing(table, name) == {d \in Datasets : table[d] # None /\ table[d].key.at = name}

-------------------------------------------------------------------------------
(* Staging *)

\* A run over the manifests of S.
StartRun(S) ==
    /\ passed = {}
    /\ passed' = S
    /\ contourReceipt' = Nothing /\ receipt' = Nothing
    /\ UNCHANGED <<sources, contourVars, stgContourVars, datasetVars, stgFactVars, calm>>

\* Bug: no look at the orphans when the contours need not be staged.
RejectedOfNewContours(d) ==
    ~IsCurrent(d) /\ Wanted(d) \in Orphaned /\ contourMarker # contourSource

\* check_no_orphans, before anything is written.
Rejected(d) == ~IsCurrent(d) /\ Wanted(d) \in Orphaned

\* The staging zones cannot be dropped while staged facts have a key to them.
ZoneHeld == Postgres /\ Keyed /\ Referencing(stgFacts, "staged") # {}

\* _stage_contours, under the lock of the contour table; current, reused or loaded again.
ContoursCurrent == contourMarker = contourSource /\ parts # None /\ (Keyed => zone # None)

ContoursReusable == stagedContour = contourSource /\ stgParts # None

StageContours(d) ==
    /\ d \in passed /\ contourReceipt[d] = None /\ ~Rejected(d)
    /\ contourReceipt' = [contourReceipt EXCEPT ![d] =
            [status |-> IF ContoursCurrent THEN "current" ELSE "staged",
             version |-> contourSource, from |-> None]]
    /\ IF ContoursCurrent \/ ContoursReusable
       THEN UNCHANGED stgContourVars
       ELSE /\ ~ZoneHeld
            /\ stgParts' = contourSource /\ stagedContour' = contourSource
            /\ stgZone' = IF Keyed THEN contourSource ELSE stgZone
    /\ UNCHANGED <<sources, contourVars, datasetVars, stgFactVars, passed, receipt, calm>>

\* Bug: the public zones whenever there are some.
PublicZoneReference ==
    IF contourMarker # None THEN [at |-> "live", zone |-> zone]
    ELSE IF stagedContour = contourSource THEN [at |-> "staged", zone |-> stgZone]
    ELSE Unkeyed

\* _zone_reference: the public zones if their marker says so, else the staging ones, else an error.
ZoneReference ==
    IF contourMarker = contourSource THEN [at |-> "live", zone |-> zone]
    ELSE IF stagedContour = contourSource THEN [at |-> "staged", zone |-> stgZone]
    ELSE Unkeyed

\* Bug: staged facts are reused whatever they were made from.
AnyFactsReusable(d) == stagedDataset[d] # None /\ stgFacts[d] # None

FactsReusable(d) == stagedDataset[d] = Wanted(d) /\ stgFacts[d] # None

\* stage_facts
StageFacts(d) ==
    /\ contourReceipt[d] # None /\ receipt[d] = None
    /\ receipt' = [receipt EXCEPT ![d] =
            [status |-> IF IsCurrent(d) THEN "current" ELSE "staged",
             version |-> Wanted(d), from |-> datasetMarker[d]]]
    /\ IF IsCurrent(d) \/ FactsReusable(d)
       THEN UNCHANGED stgFactVars
       ELSE /\ Keyed /\ Postgres => ZoneReference.zone # None
            /\ stgFacts' = [stgFacts EXCEPT ![d] =
                   [rows |-> factSource[d], key |-> IF Keyed /\ Postgres THEN ZoneReference ELSE Unkeyed]]
            /\ stagedDataset' = [stagedDataset EXCEPT ![d] = Wanted(d)]
    /\ UNCHANGED <<sources, contourVars, stgContourVars, datasetVars, passed, contourReceipt, calm>>

-------------------------------------------------------------------------------
(* Publishing: publish_datasets over the manifests and the receipts of passed *)

\* Bug: a marker that outlived its relation counts as published.
StillStagedByMarker(r, published, exists) == r.status = "staged" /\ published # r.version

StillStaged(r, published, exists) == r.status = "staged" /\ ~(published = r.version /\ exists)

AllStaged == passed # {} /\ \A d \in passed : receipt[d] # None

\* The contour receipts that are not demoted; the last of them is the one that counts.
ToSwap == {contourReceipt[d] : d \in {e \in passed : StillStaged(contourReceipt[e], contourMarker, parts # None)}}

ToRestage == {d \in passed : StillStaged(receipt[d], datasetMarker[d], view[d] # None)}

\* _assert_keyed_dependents_restaged, for the manifests passed.
KeyedDependentsRestaged == ToSwap # {} /\ Keyed => passed \subseteq ToRestage

Publishable ==
    /\ KeyedDependentsRestaged
    /\ ToSwap # {} => stgParts # None /\ (Keyed => stgZone # None)
    /\ \A d \in ToRestage : /\ datasetMarker[d] \in {None, receipt[d].from}
                            /\ stgFacts[d] # None
                            /\ ToSwap = {} => parts # None

\* A key, or a view, stays with its table when that is renamed.
KeyAfterSwap(at) == CASE at = "live" -> "old" [] at = "staged" -> "live" [] OTHER -> at

Follow(table, d) ==
    IF ToSwap = {} \/ table[d] = None \/ ~Keyed THEN table[d]
    ELSE [table[d] EXCEPT !.key.at = KeyAfterSwap(table[d].key.at)]

SwapContours ==
    IF ToSwap = {} THEN UNCHANGED <<contourVars, stgZone, stgParts>>
    ELSE /\ parts' = stgParts /\ stgParts' = None
         /\ IF Keyed THEN zone' = stgZone /\ stgZone' = None ELSE UNCHANGED <<zone, stgZone>>
         /\ \E r \in ToSwap : contourMarker' = r.version

\* Bug: the view is created before the contours are swapped.
ViewBeforeSwap(d) == [facts |-> stgFacts[d].rows, parts |-> parts, over |-> "live"]

\* What a view created in the publish reads.
NewView(d) == [facts |-> stgFacts[d].rows, parts |-> parts', over |-> "live"]

\* One transaction; the tables replaced are dropped after it if nothing holds them.
Publish ==
    /\ AllStaged /\ Publishable
    /\ SwapContours
    /\ facts' = [d \in Datasets |-> IF d \in ToRestage THEN Follow(stgFacts, d) ELSE Follow(facts, d)]
    /\ stgFacts' = [d \in Datasets |-> IF d \in ToRestage THEN None ELSE Follow(stgFacts, d)]
    /\ view' = [d \in Datasets |->
                  IF d \in ToRestage THEN NewView(d)
                  ELSE IF IsView(d) /\ ToSwap # {} THEN [view[d] EXCEPT !.over = "old"] ELSE view[d]]
    /\ datasetMarker' = [d \in Datasets |-> IF d \in ToRestage THEN receipt[d].version ELSE datasetMarker[d]]
    /\ passed' = {}
    /\ UNCHANGED <<sources, stagedContour, stagedDataset, contourReceipt, receipt, calm>>

\* A job or the publish raises, and the run ends.
JobFails(d) ==
    \/ contourReceipt[d] = None /\ Rejected(d)
    \/ contourReceipt[d] = None /\ ~ContoursCurrent /\ ~ContoursReusable /\ ZoneHeld
    \/ /\ contourReceipt[d] # None /\ receipt[d] = None /\ ~IsCurrent(d) /\ ~FactsReusable(d)
       /\ Keyed /\ Postgres /\ ZoneReference.zone = None

RunFails ==
    /\ (\E d \in passed : JobFails(d)) \/ (AllStaged /\ ~Publishable)
    /\ passed' = {}
    /\ UNCHANGED <<sources, contourVars, stgContourVars, datasetVars, stgFactVars, contourReceipt, receipt, calm>>

-------------------------------------------------------------------------------
(* What disturbs a run *)

Crash ==
    /\ ~calm /\ passed # {}
    /\ passed' = {}
    /\ UNCHANGED <<sources, contourVars, stgContourVars, datasetVars, stgFactVars, contourReceipt, receipt, calm>>

ChangeSource ==
    /\ ~calm /\ passed = {}
    /\ \/ \E d \in Datasets : \E v \in FactContents[d] \ {factSource[d]} :
            factSource' = [factSource EXCEPT ![d] = v] /\ UNCHANGED contourSource
       \/ \E v \in ContourContents \ {contourSource} : contourSource' = v /\ UNCHANGED factSource
    /\ UNCHANGED <<contourVars, stgContourVars, datasetVars, stgFactVars, runVars, calm>>

\* DROP ... CASCADE takes the views over a table, and the keys to it but not their tables.
DropFacts(d) ==
    /\ facts[d] # None
    /\ facts' = [facts EXCEPT ![d] = None]
    /\ view' = IF Postgres /\ IsView(d) THEN [view EXCEPT ![d] = None] ELSE view
    /\ UNCHANGED <<contourVars, stgFactVars, datasetMarker>>

DropParts ==
    /\ parts # None
    /\ parts' = None
    /\ view' = [d \in Datasets |->
                  IF Postgres /\ IsView(d) /\ view[d].over = "live" THEN None ELSE view[d]]
    /\ UNCHANGED <<zone, contourMarker, facts, datasetMarker, stgFactVars>>

WithoutKey(table) == [d \in Datasets |-> IF d \in Referencing(table, "live")
                                         THEN [table[d] EXCEPT !.key = Unkeyed] ELSE table[d]]

DropZone ==
    /\ zone # None
    /\ zone' = None
    /\ facts' = WithoutKey(facts) /\ stgFacts' = WithoutKey(stgFacts)
    /\ UNCHANGED <<parts, contourMarker, datasetMarker, view, stagedDataset>>

DropView(d) ==
    /\ view[d] # None
    /\ view' = [view EXCEPT ![d] = None]
    /\ UNCHANGED <<contourVars, facts, datasetMarker, stgFactVars>>

Lose ==
    /\ ~calm
    /\ \/ "facts" \in Losses /\ \E d \in Datasets : DropFacts(d)
       \/ "parts" \in Losses /\ DropParts
       \/ "zone" \in Losses /\ DropZone
       \/ "view" \in Losses /\ \E d \in Datasets : DropView(d)
    /\ UNCHANGED <<sources, stgContourVars, runVars, calm>>

CalmDown ==
    /\ ~calm /\ calm' = TRUE
    /\ UNCHANGED <<sources, contourVars, stgContourVars, datasetVars, stgFactVars, runVars>>

Work ==
    \/ StartRun(Datasets)
    \/ \E d \in Datasets : StageContours(d) \/ StageFacts(d)
    \/ Publish \/ RunFails

Next ==
    \/ Work
    \/ ~calm /\ \E d \in Alone : StartRun({d})
    \/ Crash \/ ChangeSource \/ Lose \/ CalmDown

\* A run that is not killed goes on, and the workflow is run again and again.
Spec == Init /\ [][Next]_vars /\ WF_vars(Work) /\ WF_vars(CalmDown)

-------------------------------------------------------------------------------
(* Properties *)

\* The markers name the rows of the tables they are about, those of the staging tables too.
MarkersVouch ==
    /\ contourMarker # None => parts \in {contourMarker, None} /\ (Keyed => zone \in {contourMarker, None})
    /\ stagedContour # None => stgParts \in {stagedContour, None} /\ (Keyed => stgZone \in {stagedContour, None})
    /\ \A d \in Datasets :
        /\ datasetMarker[d] # None /\ facts[d] # None => facts[d].rows = datasetMarker[d][1]
        /\ stagedDataset[d] # None /\ stgFacts[d] # None => stgFacts[d].rows = stagedDataset[d][1]

\* A view joins the facts and the contours its dataset marker names, so the join loses no row
\* (sink.stage, "no sink silently loses rows to the INNER join").
JoinsWhole ==
    \A d \in Datasets : datasetMarker[d] # None /\ IsView(d) =>
        \A i \in {1, 2} : Reads(d)[i] \in {datasetMarker[d][i], None}

\* No view joins facts to contours that lack some of their keys (sink.check_no_orphans).
NoRowsLost == \A d \in Datasets : IsView(d) => Reads(d) \notin Orphaned

\* The zones the facts of a dataset reference are those of the contours its view joins, so the
\* database has checked every row against them.
ReferencesChecked ==
    \A d \in Datasets : IsView(d) /\ facts[d] # None /\ facts[d].key # Unkeyed =>
        facts[d].key.zone = Reads(d)[2]

\* They are the public ones: no dataset is left pointing at zones that were replaced
\* (_assert_keyed_dependents_restaged).
ReferencesFollow ==
    \A d \in Datasets : facts[d] # None /\ facts[d].key.at = "old" => IsView(d) /\ view[d].over = "old"

Served(d) == IsCurrent(d) /\ Reads(d) = Wanted(d)

Rejectable == \E d \in Datasets : Wanted(d) \in Orphaned

\* What was lost comes back, and what changed is published.
Regenerates == <>[]Rejectable \/ <>[](\A d \in Datasets : Served(d))

\* The same, unless facts that were staged and not published hold the staging zones.
RegeneratesUnlessHeld == <>[]ZoneHeld \/ Regenerates
===============================================================================
