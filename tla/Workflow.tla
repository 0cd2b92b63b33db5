------------------------------ MODULE Workflow --------------------------------
(***************************************************************************)
(* What Snakemake decides to run, from what the storage plugin tells it:   *)
(* exists() and mtime() of the objects {t} (staged) and published/{t}, and *)
(* the receipts of retrieve_object() (snakemake_storage_plugin_sqlsink).   *)
(*                                                                         *)
(* One workflow runs at a time, over files nobody writes meanwhile.  On    *)
(* DuckDB its plugin reads the database; on PostgreSQL it answers from a   *)
(* snapshot that its process keeps until a storage hook drops it           *)
(* (sqlsink/planning.py).  A stage job and the publish job are one step    *)
(* each: PlainTables shows them alone, and what two workflows do to each   *)
(* other.                                                                  *)
(*                                                                         *)
(* Times are only compared: stamp ranks them, the latest event highest.    *)
(***************************************************************************)
EXTENDS FiniteSetsExt

CONSTANTS Tables,
          Versions,   \* contents of a table, numbered
          None,
          Cached,     \* PostgreSQL: the plugin answers from a snapshot
          Refresh,    \* publish_tables(refresh=...): the scripts leave it FALSE
          Reverts     \* a Parquet may go back to an earlier content

ASSUME TablesAssumption == IsFiniteSet(Tables)
ASSUME VersionsAssumption == Versions \subseteq Nat /\ None \notin Versions /\ None \notin {"current", "staged"}
ASSUME OptionsAssumption == {Cached, Refresh, Reverts} \subseteq BOOLEAN

VARIABLES
    file,       \* file[t]: the content of results/parquet/t.parquet
    live,       \* live[t]: the rows of the public table t, or None
    marker,     \* marker[t]: update_id of t in _pipeline_meta_table_updates, or None
    stg,        \* stg[t]: the rows of stg__t, or None
    staged,     \* staged[t]: update_id of t in _pipeline_meta_staged_updates, or None
    stamp,      \* stamp[<<"file" | "published" | "staged", t>>]: mtime, published_at, staged_at
    running,    \* a workflow runs: its jobs are planned
    toStage,    \* the tables whose stage_table job has still to run
    receipt,    \* receipt[t]: the status in the receipt of t, None before there is one
    snapshot,   \* of the PlanningState the process keeps: the tables it shows published, or None
    ending,     \* where the publish job is: "no", "committed", "stored" (its hooks have run)
    calm        \* auxiliary: nothing disturbs the workflow any more

database == <<live, marker, stg, staged>>
workflow == <<running, toStage, receipt>>
process == <<snapshot, ending>>
vars == <<file, database, stamp, workflow, process, calm>>

Times == {"file", "published", "staged"} \X Tables

\* Types of the database, of what a workflow has planned and of its process.
TypeOK ==
    /\ file \in [Tables -> Versions]
    /\ live \in [Tables -> Versions \union {None}]
    /\ marker \in [Tables -> Versions \union {None}]
    /\ stg \in [Tables -> Versions \union {None}]
    /\ staged \in [Tables -> Versions \union {None}]
    /\ stamp \in [Times -> 0 .. Cardinality(Times)]
    /\ running \in BOOLEAN
    /\ toStage \subseteq Tables
    /\ receipt \in [Tables -> {"current", "staged", None}]
    /\ snapshot # None => snapshot \subseteq Tables
    /\ ending \in {"no", "committed", "stored"}
    /\ calm \in BOOLEAN

Nothing == [t \in Tables |-> None]

\* Tables loaded before there were markers, when seed_markers.py has run for those of S: the
\* operator gives it tables that were found equal to their Parquet, it writes their markers.
Seeded(S) ==
    /\ live = [t \in Tables |-> IF t \in S THEN file[t] ELSE None]
    /\ marker = live
    /\ stamp = [i \in Times |-> IF i[1] = "published" /\ i[2] \in S THEN 1 ELSE 0]

Init ==
    /\ file \in [Tables -> Versions]
    /\ \E S \in SUBSET Tables : Seeded(S)
    /\ stg = Nothing /\ staged = Nothing
    /\ running = FALSE /\ toStage = {} /\ receipt = Nothing
    /\ snapshot = None /\ ending = "no"
    /\ calm = FALSE

\* Bug: the present time is not above the past ones.
StampedAlike(S) == [i \in Times |-> IF i \in S THEN Cardinality(Times) + 1 ELSE stamp[i]]

\* The stamps when those of S are set to the present time (one transaction, one now()).
Stamped(S) ==
    LET at == [i \in Times |-> IF i \in S THEN Cardinality(Times) + 1 ELSE stamp[i]]
    IN  [i \in Times |-> Cardinality({at[j] : j \in {k \in Times : at[k] < at[i]}})]

-------------------------------------------------------------------------------
(* The storage plugin *)

Current(t) == marker[t] = file[t] /\ live[t] # None

StagedAlready(t) == staged[t] = file[t] /\ stg[t] # None

\* exists() and mtime() of {t}: is_current, and the publish marker before the staging one.
Exists(t) == Current(t) \/ StagedAlready(t)

Mtime(t) == IF marker[t] # None THEN stamp[<<"published", t>>] ELSE stamp[<<"staged", t>>]

\* Bug: a marker is enough, its table may be gone.
PublishedMarked(t) == marker[t] # None /\ staged[t] \in {None, marker[t]}

\* exists() of published/{t}: its publish marker must be the staged one.
PublishedCurrent(t) ==
    marker[t] # None /\ live[t] # None /\ staged[t] \in {None, marker[t]}

PublishedMtime(t) == stamp[<<"published", t>>]

-------------------------------------------------------------------------------
(* Snakemake: a job runs if an output is missing, if an input is newer than *)
(* its oldest output, or if the job of an input runs.  The outputs of       *)
(* stage_table matter only to publish_tables: while {t} is missing, its     *)
(* Parquet is compared with the outputs of publish_tables.                  *)

Published == {t \in Tables : PublishedCurrent(t)}

\* What this process answers: from the shared snapshot if it has one.
SeenPublished == IF snapshot = None THEN Published ELSE snapshot

NewerThanPublished(time) ==
    Published # {} /\ time > Min({PublishedMtime(t) : t \in Published})

FileUpdated(t) ==
    LET written == stamp[<<"file", t>>]
    IN  IF Exists(t) THEN written > Mtime(t) ELSE NewerThanPublished(written)

PublishNeeded ==
    \/ Published # Tables
    \/ \E t \in Tables : Exists(t) /\ NewerThanPublished(Mtime(t))
    \/ \E t \in Tables : FileUpdated(t)

StageNeeded(t) == FileUpdated(t) \/ ~Exists(t)

Plan ==
    /\ ~running
    /\ PublishNeeded
    /\ running' = TRUE
    /\ toStage' = {t \in Tables : StageNeeded(t)}
    /\ snapshot' = IF Cached THEN Published ELSE None
    /\ UNCHANGED <<file, database, stamp, receipt, ending, calm>>

\* Snakemake asks for some exists() or mtime() while jobs run, and so reads a snapshot again.
Look ==
    /\ Cached /\ running /\ snapshot = None
    /\ snapshot' = Published
    /\ UNCHANGED <<file, database, stamp, workflow, ending, calm>>

-------------------------------------------------------------------------------
(* The jobs *)

\* stage_table, run by its job, or by retrieve_object() for the inputs of publish_tables
\* that no job of this run has staged; then the hook of the stored or retrieved object.
Stage(t) ==
    /\ running /\ ending = "no"
    /\ receipt[t] = None
    /\ t \in toStage \/ toStage = {}
    /\ toStage' = toStage \ {t}
    /\ receipt' = [receipt EXCEPT ![t] = IF Current(t) THEN "current" ELSE "staged"]
    /\ IF Exists(t)
       THEN UNCHANGED <<database, stamp>>
       ELSE /\ stg' = [stg EXCEPT ![t] = file[t]]
            /\ staged' = [staged EXCEPT ![t] = file[t]]
            /\ stamp' = Stamped({<<"staged", t>>})
            /\ UNCHANGED <<live, marker>>
    /\ snapshot' = None
    /\ UNCHANGED <<file, running, ending, calm>>

\* Bug: refresh stamps only the tables it publishes.
RefreshedInPart(S) == {<<"published", t>> : t \in S}

\* The markers whose published_at a publish of S sets.
Refreshed(S) == {<<"published", t>> : t \in IF Refresh THEN Tables ELSE S}

\* publish_tables, in a process of its own.
Publish ==
    /\ running
    /\ ending = "no" /\ ending' = "committed"
    /\ toStage = {}
    /\ \A t \in Tables : receipt[t] # None
    /\ LET S == {t \in Tables : receipt[t] = "staged" /\ ~Current(t)}
       IN  /\ live' = [t \in Tables |-> IF t \in S THEN stg[t] ELSE live[t]]
           /\ stg' = [t \in Tables |-> IF t \in S THEN None ELSE stg[t]]
           /\ marker' = [t \in Tables |-> IF t \in S THEN file[t] ELSE marker[t]]
           /\ stamp' = Stamped(Refreshed(S))
    /\ receipt' = Nothing
    /\ UNCHANGED <<file, staged, running, toStage, snapshot, calm>>

\* Bug: only the state of the inventory is dropped, not the shared one.
StoreKeepsSnapshot ==
    /\ ending = "committed" /\ ending' = "stored"
    /\ UNCHANGED <<file, database, stamp, workflow, snapshot, calm>>

\* store_object() of the outputs of publish_tables.
Store ==
    /\ ending = "committed" /\ ending' = "stored"
    /\ snapshot' = None
    /\ UNCHANGED <<file, database, stamp, workflow, calm>>

\* The process ends.  Snakemake fails the job if an output is not SeenPublished now; the
\* state is the same.
Finish ==
    /\ ending = "stored" /\ ending' = "no"
    /\ running' = FALSE
    /\ snapshot' = None
    /\ UNCHANGED <<file, database, stamp, toStage, receipt, calm>>

Work == Plan \/ Publish \/ Store \/ Finish \/ \E t \in Tables : Stage(t)

-------------------------------------------------------------------------------
(* The environment *)

\* Upstream writes a Parquet with another content.
Rewrite(t) ==
    /\ ~running
    /\ \E v \in Versions \ {file[t]} :
           /\ Reverts \/ v > file[t]
           /\ file' = [file EXCEPT ![t] = v]
    /\ stamp' = Stamped({<<"file", t>>})
    /\ UNCHANGED <<database, workflow, process, calm>>

\* A table is dropped out of band and its marker stays.
LoseTable(t) ==
    /\ live' = [live EXCEPT ![t] = None]
    /\ UNCHANGED <<file, marker, stg, staged, stamp, workflow, process, calm>>

\* A job fails or the workflow is killed: what is staged stays staged.
Abort ==
    /\ running
    /\ running' = FALSE
    /\ toStage' = {}
    /\ receipt' = Nothing
    /\ snapshot' = None /\ ending' = "no"
    /\ UNCHANGED <<file, database, stamp, calm>>

CalmDown == calm' = TRUE /\ UNCHANGED <<file, database, stamp, workflow, process>>

Disturb == ~calm /\ (CalmDown \/ Abort \/ \E t \in Tables : Rewrite(t) \/ LoseTable(t))

Next == Work \/ Look \/ Disturb

\* The workflow is run again and again, and a run that is not aborted goes on.
Spec == Init /\ [][Next]_vars /\ WF_vars(Work)

-------------------------------------------------------------------------------
(* Properties *)

UpToDate == \A t \in Tables : live[t] = file[t] /\ marker[t] = file[t]

Quiet == ~running /\ ~PublishNeeded

\* "Nothing to be done" is never said while the database does not hold the files: what
\* exists() and mtime() report misses no rewritten file, lost table or staging left behind.
QuietIsRight == Quiet => UpToDate

\* A run is reported to fail only if an output really is missing: the snapshot the process
\* keeps never hides what its own jobs have committed (planning.py, "invalidated by the
\* provider's write hooks").
FailsOnlyIfMissing == [][Finish /\ SeenPublished # Tables => Published # Tables]_vars

\* Once nothing changes any more, the workflow comes to have nothing to do: it neither
\* reruns its jobs nor fails for ever.
Settles == <>calm => <>[]Quiet

\* The Parquet of t went back to the published content after another was staged.
Reverted(t) == Current(t) /\ staged[t] \notin {None, file[t]}

\* The same, but for a table whose Parquet was reverted.
SettlesUnlessReverted == <>calm => <>[](Quiet \/ \E t \in Tables : Reverted(t))
===============================================================================
