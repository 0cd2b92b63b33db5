----------------------------- MODULE PlainTables ------------------------------
(***************************************************************************)
(* Staging and publishing of plain tables: sqlsink/stage.py (stage_table)  *)
(* and sqlsink/publish.py (publish_tables), run by workers that share one  *)
(* database.  A worker is one workflow run: it stages every table with one *)
(* job per table, the jobs in parallel, then publishes their receipts in   *)
(* one transaction.                                                        *)
(*                                                                         *)
(* A version stands for the rows of a table and for the update_id that     *)
(* fingerprints them (fingerprint.py hashes the Parquet; no collisions).   *)
(* The database variables are the committed state.  A transaction's writes *)
(* are applied by its commit; what it holds locked until then is relLock.  *)
(* Transactions run at the default READ COMMITTED isolation: each query of *)
(* a job reads the state committed by then.                                *)
(*                                                                         *)
(* Every error, lock timeout and crash is Fail, which rolls back.  Not     *)
(* here: keep_old, refresh (published_at) and ANALYZE.                     *)
(***************************************************************************)
CONSTANTS Tables, Releases, Versions, Workers,
          Content,         \* Content[r][t]: table t in release r of the Parquet files
          None,            \* no table, no marker row, no lock holder
          ExclusiveRuns,   \* deployment: one worker at a time, from its first job to its last
          StableFiles,     \* deployment: a Parquet does not change while a run reads it
          Replays          \* callers may publish again the receipts an earlier publish used

ASSUME ContentAssumption == Content \in [Releases -> [Tables -> Versions]]
ASSUME NoneAssumption == None \notin Versions /\ None \notin Workers
ASSUME DeploymentAssumption ==
    ExclusiveRuns \in BOOLEAN /\ StableFiles \in BOOLEAN /\ Replays \in BOOLEAN

VARIABLES
    \* the files of each worker's working directory
    release,      \* release[w]: the release its Parquet files hold
    \* the database
    live,         \* live[t]: the rows of the public table t, or None
    marker,       \* marker[t]: update_id of t in _pipeline_meta_table_updates
    stg,          \* stg[t]: the rows of the staging table stg__t, or None
    staged,       \* staged[t]: update_id of t in _pipeline_meta_staged_updates
    leftover,     \* the tables t of which a replaced t__old__<ts> was left behind
    relLock,      \* relLock[t]: whose transaction holds t and stg__t exclusively
    publishLock,  \* who holds the advisory lock PUBLISH_LOCK_KEY
    \* the workers
    run,          \* run[w]: what the worker is doing
    job,          \* job[w][t]: where stage_table is for t; "current" and "staged" are receipts
    uid,          \* uid[w][t]: the update_id hashed from the Parquet of t
    seen,         \* seen[w][t]: the marker read, marker_update_id_at_stage_time
    todo,         \* todo[w]: the staged receipts left after _demote_published
    swapped,      \* swapped[w]: the tables already renamed in the publish transaction
    old           \* old[w]: the replaced tables still to drop after the commit

files == <<release>>
database == <<live, marker, stg, staged, leftover>>
locks == <<relLock, publishLock>>
jobs == <<job, uid, seen>>
publication == <<todo, swapped, old>>
vars == <<files, database, locks, run, jobs, publication>>

Receipt == {"current", "staged"}
JobState == {"none", "hash", "readMarker", "checkLive", "readStaged", "checkStg",
             "load", "loading"} \union Receipt
Active == {"staging", "publishing", "cleaning"}
RunState == {"idle", "published"} \union Active

\* Types of the database, the runs and the files.
TypeOK ==
    /\ release \in [Workers -> Releases]
    /\ live \in [Tables -> Versions \union {None}]
    /\ marker \in [Tables -> Versions \union {None}]
    /\ stg \in [Tables -> Versions \union {None}]
    /\ staged \in [Tables -> Versions \union {None}]
    /\ leftover \in SUBSET Tables
    /\ relLock \in [Tables -> Workers \union {None}]
    /\ publishLock \in Workers \union {None}
    /\ run \in [Workers -> RunState]
    /\ job \in [Workers -> [Tables -> JobState]]
    /\ uid \in [Workers -> [Tables -> Versions \union {None}]]
    /\ seen \in [Workers -> [Tables -> Versions \union {None}]]
    /\ todo \in [Workers -> SUBSET Tables]
    /\ swapped \in [Workers -> SUBSET Tables]
    /\ old \in [Workers -> SUBSET Tables]

Init ==
    /\ release \in [Workers -> Releases]
    /\ live = [t \in Tables |-> None]
    /\ marker = [t \in Tables |-> None]
    /\ stg = [t \in Tables |-> None]
    /\ staged = [t \in Tables |-> None]
    /\ leftover = {}
    /\ relLock = [t \in Tables |-> None]
    /\ publishLock = None
    /\ run = [w \in Workers |-> "idle"]
    /\ job = [w \in Workers |-> [t \in Tables |-> "none"]]
    /\ uid = [w \in Workers |-> [t \in Tables |-> None]]
    /\ seen = [w \in Workers |-> [t \in Tables |-> None]]
    /\ todo = [w \in Workers |-> {}]
    /\ swapped = [w \in Workers |-> {}]
    /\ old = [w \in Workers |-> {}]

-------------------------------------------------------------------------------
(* Runs *)

MayRun(w) == ExclusiveRuns => \A v \in Workers \ {w} : run[v] \notin Active

\* A new workflow run: every table is staged (or found current) before publish_tables.
StartRun(w) ==
    /\ run[w] \notin Active
    /\ MayRun(w)
    /\ run' = [run EXCEPT ![w] = "staging"]
    /\ job' = [job EXCEPT ![w] = [t \in Tables |-> "hash"]]
    /\ uid' = [uid EXCEPT ![w] = [t \in Tables |-> None]]
    /\ seen' = [seen EXCEPT ![w] = [t \in Tables |-> None]]
    /\ UNCHANGED <<files, database, locks, publication>>

\* publish_tables is called again with the receipts of a publish that committed.
Replay(w) ==
    /\ Replays
    /\ run[w] = "published"
    /\ MayRun(w)
    /\ run' = [run EXCEPT ![w] = "staging"]
    /\ UNCHANGED <<files, database, locks, jobs, publication>>

\* Bug: publishing starts with the receipts there are.
ReadyInPart(w) == run[w] = "staging" /\ \E t \in Tables : job[w][t] \in Receipt

\* The rule is all or nothing: its inputs are the receipts of every table.
Ready(w) == run[w] = "staging" /\ \A t \in Tables : job[w][t] \in Receipt

-------------------------------------------------------------------------------
(* stage_table: one job per table *)

JobAt(w, t, state) == run[w] = "staging" /\ job[w][t] = state

Goto(w, t, state) == job' = [job EXCEPT ![w][t] = state]

StageHash(w, t) ==
    /\ JobAt(w, t, "hash")
    /\ uid' = [uid EXCEPT ![w][t] = Content[release[w]][t]]
    /\ Goto(w, t, "readMarker")
    /\ UNCHANGED <<files, database, locks, run, seen, publication>>

\* Bug: the receipt keeps the marker rows instead of the update_id of t's.
StageReadMarkerRows(w, t) ==
    /\ JobAt(w, t, "readMarker")
    /\ seen' = [seen EXCEPT ![w][t] = marker]
    /\ Goto(w, t, IF marker[t] = uid[w][t] THEN "checkLive" ELSE "readStaged")
    /\ UNCHANGED <<files, database, locks, run, uid, publication>>

StageReadMarker(w, t) ==
    /\ JobAt(w, t, "readMarker")
    /\ seen' = [seen EXCEPT ![w][t] = marker[t]]
    /\ Goto(w, t, IF marker[t] = uid[w][t] THEN "checkLive" ELSE "readStaged")
    /\ UNCHANGED <<files, database, locks, run, uid, publication>>

\* A marker alone is not enough: the table must still be there.
StageCheckLive(w, t) ==
    /\ JobAt(w, t, "checkLive")
    /\ Goto(w, t, IF live[t] # None THEN "current" ELSE "readStaged")
    /\ UNCHANGED <<files, database, locks, run, uid, seen, publication>>

\* Bug: any staging table found is reused.
ReusableAny(w, t) == TRUE

\* Reuse stg__t only if it was staged with this very fingerprint.
Reusable(w, t) == staged[t] = uid[w][t]

StageReadStaged(w, t) ==
    /\ JobAt(w, t, "readStaged")
    /\ Goto(w, t, IF Reusable(w, t) THEN "checkStg" ELSE "load")
    /\ UNCHANGED <<files, database, locks, run, uid, seen, publication>>

StageCheckStg(w, t) ==
    /\ JobAt(w, t, "checkStg")
    /\ Goto(w, t, IF stg[t] # None THEN "staged" ELSE "load")
    /\ UNCHANGED <<files, database, locks, run, uid, seen, publication>>

\* Bug: the staging marker is committed before the rows it describes.
StageOpenMarkFirst(w, t) ==
    /\ JobAt(w, t, "load")
    /\ relLock[t] = None
    /\ relLock' = [relLock EXCEPT ![t] = w]
    /\ staged' = [staged EXCEPT ![t] = uid[w][t]]
    /\ Goto(w, t, "loading")
    /\ UNCHANGED <<files, live, marker, stg, leftover, publishLock, run, uid, seen, publication>>

\* The staging transaction drops and creates stg__t: it waits for any other that holds it.
StageOpen(w, t) ==
    /\ JobAt(w, t, "load")
    /\ relLock[t] = None
    /\ relLock' = [relLock EXCEPT ![t] = w]
    /\ Goto(w, t, "loading")
    /\ UNCHANGED <<files, database, publishLock, run, uid, seen, publication>>

\* The rows are read from the file again, after it was hashed.
StageCommit(w, t) ==
    /\ JobAt(w, t, "loading")
    /\ stg' = [stg EXCEPT ![t] = Content[release[w]][t]]
    /\ staged' = [staged EXCEPT ![t] = uid[w][t]]
    /\ relLock' = [relLock EXCEPT ![t] = None]
    /\ Goto(w, t, "staged")
    /\ UNCHANGED <<files, live, marker, leftover, publishLock, run, uid, seen, publication>>

-------------------------------------------------------------------------------
(* publish_tables *)

StagedReceipts(w) == {t \in Tables : job[w][t] = "staged"}

\* Bug: a marker is enough to skip a receipt, its table may be gone.
AlreadyMarked(w, t) == marker[t] = uid[w][t]

\* _demote_published: the receipt's version is the live one, and its table exists.
AlreadyLive(w, t) == marker[t] = uid[w][t] /\ live[t] # None

\* Bug: the marker is not compared.
AnyMarker(w, t) == TRUE

\* _assert_marker_unchanged_since_staging
MarkerUnchanged(w, t) == marker[t] \in {None, seen[w][t]}

ForgetJobs(w) ==
    /\ job' = [job EXCEPT ![w] = [t \in Tables |-> "none"]]
    /\ uid' = [uid EXCEPT ![w] = [t \in Tables |-> None]]
    /\ seen' = [seen EXCEPT ![w] = [t \in Tables |-> None]]

\* The receipts stay on disk; they are forgotten where nobody reads them again.
Return(w) ==
    \/ Replays /\ run' = [run EXCEPT ![w] = "published"] /\ UNCHANGED jobs
    \/ ~Replays /\ run' = [run EXCEPT ![w] = "idle"] /\ ForgetJobs(w)

PublishNothing(w) ==
    /\ Ready(w)
    /\ StagedReceipts(w) = {}
    /\ Return(w)
    /\ UNCHANGED <<files, database, locks, publication>>

PublishBegin(w) ==
    /\ Ready(w)
    /\ StagedReceipts(w) # {}
    /\ publishLock = None
    /\ publishLock' = w
    /\ todo' = [todo EXCEPT ![w] = {t \in StagedReceipts(w) : ~AlreadyLive(w, t)}]
    /\ run' = [run EXCEPT ![w] = "publishing"]
    /\ UNCHANGED <<files, database, relLock, jobs, swapped, old>>

\* Rename t out of the way and stg__t to t, and write the marker, uncommitted.  The code
\* takes the receipts in their order; any order is allowed here.
PublishSwap(w, t) ==
    /\ run[w] = "publishing"
    /\ t \in todo[w] \ swapped[w]
    /\ MarkerUnchanged(w, t)
    /\ relLock[t] = None
    /\ stg[t] # None
    /\ relLock' = [relLock EXCEPT ![t] = w]
    /\ swapped' = [swapped EXCEPT ![w] = @ \union {t}]
    /\ UNCHANGED <<files, database, publishLock, run, jobs, todo, old>>

PublishCommit(w) ==
    /\ run[w] = "publishing"
    /\ swapped[w] = todo[w]
    /\ live' = [t \in Tables |-> IF t \in swapped[w] THEN stg[t] ELSE live[t]]
    /\ stg' = [t \in Tables |-> IF t \in swapped[w] THEN None ELSE stg[t]]
    /\ marker' = [t \in Tables |-> IF t \in swapped[w] THEN uid[w][t] ELSE marker[t]]
    /\ old' = [old EXCEPT ![w] = {t \in swapped[w] : live[t] # None}]
    /\ relLock' = [t \in Tables |-> IF relLock[t] = w THEN None ELSE relLock[t]]
    /\ publishLock' = None
    /\ todo' = [todo EXCEPT ![w] = {}]
    /\ swapped' = [swapped EXCEPT ![w] = {}]
    /\ run' = [run EXCEPT ![w] = "cleaning"]
    /\ UNCHANGED <<files, staged, leftover, jobs>>

\* _drop_old_tables, each table in its own transaction; a failure is logged and passed over.
DropOld(w, t) ==
    /\ run[w] = "cleaning"
    /\ t \in old[w]
    /\ old' = [old EXCEPT ![w] = @ \ {t}]
    /\ UNCHANGED <<files, database, locks, run, jobs, todo, swapped>>

DropOldFails(w, t) ==
    /\ run[w] = "cleaning"
    /\ t \in old[w]
    /\ old' = [old EXCEPT ![w] = @ \ {t}]
    /\ leftover' = leftover \union {t}
    /\ UNCHANGED <<files, live, marker, stg, staged, locks, run, jobs, todo, swapped>>

PublishReturns(w) ==
    /\ run[w] = "cleaning"
    /\ old[w] = {}
    /\ Return(w)
    /\ UNCHANGED <<files, database, locks, publication>>

\* The worker is gone: its transactions roll back, its locks are released, its receipts are
\* lost, and what it had still to drop stays.
Stop(w) ==
    /\ run' = [run EXCEPT ![w] = "idle"]
    /\ ForgetJobs(w)
    /\ todo' = [todo EXCEPT ![w] = {}]
    /\ swapped' = [swapped EXCEPT ![w] = {}]
    /\ old' = [old EXCEPT ![w] = {}]
    /\ leftover' = leftover \union old[w]
    /\ relLock' = [t \in Tables |-> IF relLock[t] = w THEN None ELSE relLock[t]]
    /\ publishLock' = IF publishLock = w THEN None ELSE publishLock
    /\ UNCHANGED <<files, live, marker, stg, staged>>

\* PublishConflict: the whole transaction rolls back.
PublishConflict(w) ==
    /\ run[w] = "publishing"
    /\ \E t \in todo[w] \ swapped[w] : ~MarkerUnchanged(w, t)
    /\ Stop(w)

\* ALTER TABLE stg__t RENAME fails: the staging table is gone.
StagingTableMissing(w) ==
    /\ run[w] = "publishing"
    /\ \E t \in todo[w] \ swapped[w] : relLock[t] = None /\ stg[t] = None
    /\ Stop(w)

-------------------------------------------------------------------------------
(* The environment *)

\* A statement fails, a lock wait times out, or the process dies.
Fail(w) == run[w] \in Active /\ Stop(w)

\* The rules upstream write the Parquet files of another release.
ReplaceFiles(w) ==
    /\ StableFiles => run[w] \notin Active
    /\ \E r \in Releases : release' = [release EXCEPT ![w] = r]
    /\ UNCHANGED <<database, locks, run, jobs, publication>>

\* A table is dropped out of band and its marker stays.
LoseTable(t) ==
    /\ relLock[t] = None
    /\ live' = [live EXCEPT ![t] = None]
    /\ UNCHANGED <<files, marker, stg, staged, leftover, locks, run, jobs, publication>>

-------------------------------------------------------------------------------

StageTable(w, t) ==
    \/ StageHash(w, t) \/ StageReadMarker(w, t) \/ StageCheckLive(w, t)
    \/ StageReadStaged(w, t) \/ StageCheckStg(w, t)
    \/ StageOpen(w, t) \/ StageCommit(w, t)

PublishTables(w) ==
    \/ PublishNothing(w) \/ PublishBegin(w) \/ PublishCommit(w)
    \/ PublishConflict(w) \/ StagingTableMissing(w) \/ PublishReturns(w)
    \/ \E t \in Tables : PublishSwap(w, t) \/ DropOld(w, t)

Work(w) == StartRun(w) \/ PublishTables(w) \/ \E t \in Tables : StageTable(w, t)

Disturbance ==
    \/ \E w \in Workers : Fail(w) \/ ReplaceFiles(w) \/ Replay(w)
    \/ \E w \in Workers, t \in Tables : DropOldFails(w, t)
    \/ \E t \in Tables : LoseTable(t)

Next == Disturbance \/ \E w \in Workers : Work(w)

Spec == Init /\ [][Next]_vars

-------------------------------------------------------------------------------
(* Properties *)

\* A marker vouches for what readers see: the public table of a marker row holds the very
\* rows that row fingerprints (is_current and _demote_published trust it without a read).
MarkerVouches == \A t \in Tables : live[t] # None => live[t] = marker[t]

\* The staging marker does the same for stg__t, which is why a staging table may be reused
\* by a later run and renamed into place without being read again.
StagedVouches == \A t \in Tables : stg[t] # None => stg[t] = staged[t]

\* Publishing is all or nothing: when publish_tables commits, the marker of every table it
\* was given, skipped ones included, is the one of its receipt (no partial state).
NoPartialState ==
    [][\A w \in Workers : run[w] = "publishing" /\ run'[w] = "cleaning" =>
           \A t \in Tables : marker'[t] = uid[w][t]]_vars

\* Nobody commits under a publish: until it ends, each table it renamed still has the
\* marker its receipt was staged from, and the staging table it renamed.
SwapStillValid ==
    \A w \in Workers : \A t \in swapped[w] :
        marker[t] \in {None, seen[w][t]} /\ stg[t] # None

\* Readers see whole releases: publishing implements ReleasePublication.
Publication == INSTANCE ReleasePublication WITH public <- live
ImplementsRelease == Publication!Spec
===============================================================================
