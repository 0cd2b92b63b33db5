# sqlsink in TLA+

A verification project for the SQL sink: Parquet tables are staged beside the public tables of a
database, published by renaming them into place in one transaction, and a private Snakemake storage
plugin decides from marker rows what has to be run again. The modules model that protocol, TLC checks
them on small instances, and TLAPS proves the main results for every instance.

Paths below are relative to `src/workflow/scripts/sqlsink/` unless they start with `src/`; "the
plugin" is `src/workflow/sql_storage_plugin/snakemake_storage_plugin_sqlsink/__init__.py`.

## 1. Inventory

| Component | State it keeps | Operations | Modelled by |
|---|---|---|---|
| Staging of plain tables (`stage.py`) | staging tables `stg__t`, `_pipeline_meta_staged_updates` | `stage_table`, `is_current` | PlainTables, Workflow |
| Publication of plain tables (`publish.py:1-261`) | public tables, `_pipeline_meta_table_updates`, replaced tables `t__old__<ts>` | `publish_tables` | PlainTables, Workflow, ReleasePublication |
| Publication of datasets, v2 (`publish.py:262-726`, `sink_v2.py`, `sink.py`) | components, public views, their markers, component links | `stage_component`, `stage_view_dataset`, `publish_datasets`, `materialize_v2` | ViewDatabase, ViewDatasets, DatasetPublication |
| Publication of datasets, v1 (`publish.py`, `sink_postgres.py`, `sink.py`) | contours (zones and their parts), compact facts, foreign keys, views, markers | `stage_contours`, `stage_facts`, `publish_datasets`, `materialize` | Contours |
| Kept generations (`keep_old.py`) | relations `__old__<name>` | `park`, `rollback_kept_old`, `cleanup_kept_old` | Maintenance (over ViewDatabase) |
| Reconciliation (`reconcile.py`) | a report, in the process | `reconcile`, `prune` | Maintenance |
| Storage plugin and rules (the plugin, `rules/db_publish.smk`) | receipts, the recorded param `published` | `exists`, `mtime`, `retrieve_object`, `store_object`, `_published_state` | Workflow (tables), ViewDatasets (datasets) |
| Planning snapshot (`planning.py`) | `_shared_states` | `read_planning_state`, invalidation | Workflow (`Look`, `Store`) |
| Locks and transactions (`engine.py`) | advisory locks, a lock file on DuckDB | `advisory_lock`, `engine.begin` | PlainTables (publish lock), ViewDatasets (staging lock) |
| Join graphs (`relations.py`) | none | `JoinGraph`, `path`, `reachable`, `ambiguous` | JoinGraph, PureParts |
| Manifests (`manifest.py`) | none | `DatasetV2`, its components and joins | Manifests, PureParts |
| View rendering (`view.py`) | none | `render_view_sql` | Manifests (`ViewRows`) |
| Verification (`verify.py`) | none | `compare_batched`, `compare_relations` | Verification, PureParts |
| Marker seeding (`src/workflow/scripts/seed_markers.py`) | markers | `seed_table` | Workflow (`Seeded`, an initial state) |
| Fingerprints, bulk loading, queries, grants, credentials, export | none shared | pure functions, text, I/O | not modelled (section 7) |

**How they interact.** There are no messages. Jobs of one Snakemake run, and other runs, share one
database. A stage job hands its *receipt* (status, fingerprint, and the publish marker seen while
staging) to the publish job through a file; a publish compares the receipt with the markers again,
under the publish lock. Operators act on the same database between runs. The plugin reads markers and
the catalog at any time and must not write.

**What is hard.** The state a decision was taken from is older than the action (hash, marker, table
existence, receipt, report, snapshot); a job or a process dies between two transactions; a table
disappears while its marker stays; a lock covers one transaction and not the check before it; views and
foreign keys follow tables where everything else goes by name; a rerun must find nothing to do, and not
for the wrong reason. `PROJECT.json` lists each hazard at its line, with the properties that watch it,
or a note saying why none does.

**What makes each part correct.**
- *Staging*: the staging marker fingerprints the rows of the staging table whatever was interrupted.
- *Publication*: all or nothing; a marker fingerprints the public table; nobody publishes over a
  version not seen while staging; readers see whole releases; failures only delay.
- *Plugin*: an object exists only when its content is right; a settled workflow has nothing to do; a
  cached answer fails no run.
- *Datasets*: a view reads the components or contours its marker names, the public ones; no join loses
  rows; the database has checked the facts against the zones they are joined to.
- *Kept generations*: one generation, never lost; a rollback restores a whole state, and is undone by another.
- *Reconciliation*: prune removes nothing that is desired.
- *Algorithms*: what they accept or answer, from keys and cardinalities alone, is so over contents.

## 2. Modules

**Plain tables**
- **ReleasePublication** - the abstract promise: the public tables move to one release in one step, or
  lose a table out of band. No staging, markers, locks or processes.
- **PlainTables** - `stage_table` and `publish_tables` run by workers over one database. One action per
  query or transaction of the code: `StageHash` (the fingerprint), `StageReadMarker`, `StageCheckLive`,
  `StageReadStaged`, `StageCheckStg` (the checks before staging, each a query of its own),
  `StageOpen`/`StageCommit` (the staging transaction), `PublishNothing`, `PublishBegin` (lock and
  `_demote_published`), `PublishSwap` (one receipt: marker check and renames), `PublishCommit`,
  `DropOld`/`DropOldFails` (after the commit), `PublishReturns`, and the failures `PublishConflict`,
  `StagingTableMissing` and `Fail`, which roll back. The environment: `ReplaceFiles`, `LoseTable`, and
  `Replay`, a publish called again with old receipts. Database variables hold the committed state; a
  transaction's writes appear at its commit and `relLock` shows what it keeps locked until then.
- **PlainTablesLiveness** - the same with an environment that calms down, and fairness.
- **Workflow** - one Snakemake run after another. The plugin's answers (`Exists`, `Mtime`,
  `PublishedCurrent`) are translated from it; what Snakemake decides from them (`PublishNeeded`,
  `StageNeeded`) is external and follows what the plugin's and `publish_tables`' documentation say of
  it: a missing output of a target job, an input newer than the *oldest* output, an input whose job
  runs. `Look` is a read of the snapshot the process keeps when `Cached`, `Store` the plugin's hook
  that drops it after a publish, `Finish` Snakemake's look at the outputs. `Seeded` adds the markers of
  `seed_markers.py` to the initial states. A stage job and a publish are single steps here, because
  PlainTables shows what happens inside and one workflow runs at a time. Times are only ever compared,
  so `stamp` ranks them, which makes the behaviours finite without a bound on time.

The *deployment* is given by constants of PlainTables. `ExclusiveRuns`: one workflow at a time, from
staging to publishing (Snakemake locks its working directory; two directories, or another caller, are
not excluded by any lock of the code). `StableFiles`: nobody writes a Parquet while a run reads it (the
DAG runs producers first). `Replays`: receipts are published again.

**Datasets**
- **DatasetPublication** - the abstract promise: what the readers of views see moves to the sources as
  they are, whole datasets in one step, leaving nobody behind who shares a table with them; tables and
  relations may be lost.
- **ViewDatabase** - the public side of v2 datasets: components `live[c]`, relations `relation[d]` (a view
  is the versions of the tables it was created over; `Flat` a plain table that was there before), what
  is kept of each, and the markers. `PublishDatasets` is the transaction of `publish_datasets`:
  merge of receipts, demotion, the checks that raise (`Publishable`), the swap with or without
  `keep_old`, links and markers. `ByName` is DuckDB, whose views bind by name; otherwise PostgreSQL,
  whose views follow tables and are dropped with them by CASCADE.
- **ViewDatasets** - the rules `stage_dataset` and `publish_datasets` over it: `Plan` (which jobs run),
  `StartJob`, `StageComponent` (under the staging lock from its first look to its commit, hence one
  step), `StageView`, `Publish`, `PublishFails`, and `Materialize`, a publish of one dataset by
  itself. `ChangeSource`, `Lose`, `Crash` disturb until `calm`.
- **Maintenance** - operators over ViewDatabase, one transaction each: `PublishAll` (with or without
  `keep_old`), `Rollback`, `Cleanup`, `Reconcile` (a report, no lock), `Prune` (of a report made
  earlier), `Deploy` (another registry). `undo` is auxiliary: the state that a rollback of
  everything should bring back, after a publish with `keep_old` or after another rollback.
- **Contours** - v1 datasets: compact facts of each and one contour table they share; `Keyed`, zones and
  parts with foreign keys. `StageContours` and `StageFacts` with every reuse, `Publish` with the checks
  and swaps of `publish_datasets`. A reference says whether it follows the public, the staging or a
  replaced table: a foreign key moves with a rename (`Follow`), a name does not.

**Algorithms**
- **JoinGraph**, **Manifests**, **Verification** - the functions of `relations.py`, `manifest.py` with
  the rows a rendered view gives, and `verify.py`, as operators; at the end of JoinGraph, what they
  mean said without them (an order for acyclicity, contents for the grain).
- **PureParts** - reads references, joins or rows one at a time, as long as what was read is
  accepted, so that TLC visits every small input; its properties compare answers and meanings.

`MC...` modules are the instances for TLC. The theorems about a module `M` are in `M_proofs` (section 5),
those about the algorithms in PureParts_proofs; ViewDatabase_proofs has what ViewDatasets_proofs and
Maintenance_proofs share, LeastNumber the induction the others use. No module declares a RECURSIVE
operator: `walk` of `_paths`, the joins of a view and the count of orphans are iterated over a number of
hops or joins, and the calls of `visit` in `_check_acyclic` are nested, by functions on the natural numbers.

## 3. Runs

| Run | Instance | Shows |
|---|---|---|
| `deployed` | 2 tables, 3 releases, 2 workers, exclusive | types; markers vouch for tables; a committed publish leaves every table at its receipt's version; refinement of ReleasePublication |
| `open` | 1 table, 3 releases, 2 workers at once, replays | what a publish checked stays true until it commits; the staging marker vouches, with any interleaving |
| `converges` | 2 tables, 3 releases, 1 worker, fair | after any finite disturbance the database reaches the release and stays there |
| `workflow` | 2 tables, 2 contents, `refresh=True`, cached snapshot, seeded or not | "nothing to do" is right, a run fails only for an output that is missing, and nothing to do is reached unless a Parquet was reverted |
| `shared` | 2 datasets, one shared component, one dataset materialized alone, PostgreSQL, fair | markers vouch for components and views, views read what is public, refinement of DatasetPublication, receipts may be replayed, everything lost comes back and jobs come to an end |
| `operated` | the same two, registries that change, rollbacks and clean-ups of all or of the component alone, one name with a plain marker | kept relations are not lost, a rollback restores a whole state and a second one undoes it, prune spares what is desired, and a registry stays publishable while markers agree |
| `contours` | 2 keyed datasets over one contour table, one may run alone, facts lost, fair | markers vouch, joins are whole and lose no row, foreign keys reference the contours that are joined, and all comes back unless staged facts hold the staging zones |
| `bounded` | see below | the algorithms: cycles, the grain of routes, what is reachable, joins and orphans, comparisons, each against its meaning over contents |
| `rerun` | 2 tables, no refresh, fair | *violation* of `Settles` |
| `rollback` | the two datasets, no earlier relations | *violation* of `Republishable` |
| `prune` | the two datasets, names of plain tables | *violation* of `PruneKeepsPublished` |
| `dropped` | `bounded` with fewer references and rows | *violation* of `RowsKept` |

**Further configurations**, kept beside the runs, each for one property that TLC finds violated:

| Configuration | Property | What the counterexample is |
|---|---|---|
| `MCPlainTables_vouches` | `MarkerVouches` | two workflows at once: `stg__t` is replaced between the other's receipt and its publish |
| `MCPlainTables_partial` | `NoPartialState` | two workflows at once: a receipt that was "current" is not checked again |
| `MCPlainTables_leftovers` | `LeftoversSwept` | a drop that failed is never tried again |
| `MCPlainTables_unstable` | `StagedVouches` | a Parquet replaced between its hash and its load |
| `Workflow_revert` | `Settles` | a Parquet staged, not published, and reverted |
| `MCViewDatasets_duckdb` | `Regenerates` | DuckDB: a component lost out of band |
| `MCMaintenance_duckdb` | `Republishable` | DuckDB: the rollback of `rollback`, over views by name |
| `MCContours_held` | `Regenerates` | staged facts hold the staging zones |
| `MCContours_zones` | `Regenerates` | a zone lost out of band |
| `MCContours_alone` | `ReferencesFollow` | a run over one dataset replaces what another's keys and view follow |
| `MCPureParts_keyless` | `KeylessNotReferenced` | a reference of no columns |

**Bounds.** Of the protocol modules nothing is counted, so the only bounds are the sizes of the constants.
- *Tables*: two are needed for a publish that is partly done, partly current; a third would only repeat
  the second, since jobs of different tables share nothing but the publish. Release `r2` changes one
  table, `r3` another, `r1` is where both come from: a run finds both tables changed, one, or none, and a
  content that comes back. Two workers give every pairwise race. In `open` one table is enough because
  its properties are about one table at a time; the third release lets a marker move twice.
- *Datasets*: a shared component that changes and one of a dataset's own is the smallest instance where
  a component has two readers and a dataset two components. Two versions make a stale one differ from
  the wanted one and let it come back.
- *Contours*: two datasets, so that one can follow contours another replaced; the facts of one change and
  their new version needs the new contours, so staging orders matter.
- *Algorithms*: three entities and three references give two routes between two entities and every cycle
  of two or three; routes have at most three hops. Joins: two over three components, so chains of two; one base row
  with NULLs and up to two rows in the others, enough to multiply or to drop it. Comparisons: three rows of two columns with NULLs on each side,
  batches of one and two keys; four rows in a group would be needed for errors that compensate.

Deadlock is checked in the runs of PlainTables and Maintenance (something can always be done there). The
others turn it off: once calm and up to date there really is nothing to do, and the reading of an
input ends.

**Fairness.** `CalmSpec` of PlainTablesLiveness asks weak fairness of each worker's work, `Spec` of
Workflow, ViewDatasets and Contours of the one workflow's: a process that is not killed takes its next
step, and the workflow is run again and again (by its users; the code has no scheduler). Lock waits end
because failures release locks. Failures, crashes, lost relations and new files are under no fairness
and stop once `calm`, which in the dataset modules comes by its own weak fairness, so that
`Regenerates` and `Stabilises` are about what follows. `PublishConflict`, a missing staging table and the
refusals of `publish_datasets` are not disturbances: the code itself raises those, so they are part of the
fair work and must not recur for ever.

## 4. Findings

Shown by runs:
- `rerun`: the publish script does not pass `refresh=True`; after publishing one table of two, the
  workflow reruns `publish_tables` for ever (`src/workflow/scripts/publish_tables.py:16`).
- `rollback`: a publish with `keep_old` that replaced a shared component and created a dataset over it is
  rolled back. The component's marker is deleted, the new dataset keeps its marker and links, because
  relations the publish created "are left alone". The next publish stages the component, takes the dataset
  for current, and `_assert_view_dependents_restaged` (`publish.py:458`) refuses it, every time.
- `prune`: `_inventory` (`reconcile.py:149`) takes a public relation for a plain table if a plain marker
  has its name; a migrated dataset keeps that marker, so prune drops its published view.
- `dropped`: `orphan_count_v2` (`sink_v2.py:116-130`) compares whole components join by join; an inner
  join from a component that was itself left joined drops base rows, with no orphan counted.

Shown by the further configurations:
- `vouches`, `partial`: with two workflows at once, a marker is committed for rows of another version, or
  a publish mixes two releases. Only Snakemake's lock of a working directory keeps that from happening: the
  staging locks of contours and components serialise loads with loads, not a load with a publish,
  and plain tables have none.
- `leftovers`: a replaced table whose drop failed is never swept, against the comment at `publish.py:214`.
- `revert`: a staging that was never published and is no longer wanted keeps `published/{t}` from
  existing; every run fails until the Parquet changes.
- `held`: facts staged over staging zones and never published keep those zones from being dropped; if the
  contours change then, `stage_contours` fails in every run. `zones`: when public zones are lost, the marker of
  the contours still equals their source, so `_zone_reference` points to the public zones that are gone.
- `duckdb` (ViewDatasets): after a component is lost on DuckDB its view stays, unreadable, and the repair
  is refused because a dataset that reads it is not restaged; `tests/test_v2_sink.py:384-391` only looks at
  `published_intact`.
- `alone`: `_assert_keyed_dependents_restaged` looks at the manifests passed, so a run over one dataset
  leaves the key and the view of another on replaced tables: whole, but old.
- `keyless`: `_check_edge` (`relations.py:152`) compares numbers of columns, so a reference with `fields: []` to an
  entity without a key is accepted, where `relations.py:47-48` says "`JoinGraph` rejects an edge into it". It
  matches every row of its parent, and `path` takes the hop for many-to-one: `GrainExact` leaves the routes over
  such references out, and `ReachableOrAmbiguous` does not claim of a graph with one that nothing is offered
  through a fan-out.

Seen while translating, not model-checked: `reachable()` also follows one-to-one references backwards,
against its docstring (the grain is kept); `_resolve_select` lets the base's copy win for any column
that is in several components, where the comment (`view.py:78-79`) speaks of join keys; `check_manifests` does not
compare the v1 manifests that share a contour table; `plan.md:7-8` says that direct `exists()` and `mtime()`
checks read fresh state, which holds between writes only, since the snapshot is cached.

## 5. Proofs

The theorems hold for all constants that satisfy the assumptions of the modules: any number of tables,
workers, releases, datasets and components, any contents. The assumptions are about the constants only:
what functions and sets they are, that `None` and the like are none of the values they stand beside, that
the tables of Workflow and the entities and the contents in PureParts are finite, that rows to compare have
a key and a value, an integer or NULL. Where a theorem assumes more, it says
so in its statement. TLC checked every inductive invariant as an invariant of the runs first.

**PlainTables_proofs**
- `TypeCorrect`, every deployment.
- `SwapsStayValid`, every deployment: between the swap of a table and the commit of its publish, neither
  its marker nor its staging table moves. Inductive invariant `SwapInv`: types, and `LockInv`, which ties
  a job in its load and a swapped table to the relation lock their worker holds. Without it, a stager
  could commit under a publish.
- `StagedMarkersVouch`, under `StableFiles` alone, with any workflows at once: `StagedInv` adds to `SwapInv`
  that the fingerprint of a table that is being staged is that of its file.
- `DeployedInvariant` and from it `MarkersVouch`, `PublishIsWhole`, `DeployedImplementsRelease`, under
  `Deployed` (exclusive runs, stable files, no replays). The invariant `IInv` adds to `SwapInv` that one worker is active (`OneActive`) and what it has learnt is
  still so (`Knows`): its fingerprint is that of its file, the marker it found equal still is, the
  staging marker it reused or wrote still is. `MarkerVouches` alone is not inductive: a commit preserves
  it only if the staging marker of each swapped table is the receipt's fingerprint. The refinement maps
  a commit to `Publish(release[w], swapped[w])` and every step but `LoseTable` to a stutter.

**Workflow_proofs**, for `Refresh`, `Cached`, `Reverts` and `Seeded` of any value
- `QuietMeansPublished`: when Snakemake finds nothing to do, every public table holds its Parquet.
  `QuietIsRight` follows from neither markers nor times alone. `IInv` has that rows are the ones their
  marker names (`RowsVouched`), that receipts of the running workflow are about the files as they are
  (`ReceiptsSound`), and, the heart of it, `WrittenAfter`: a file that differs from its marker was written
  after the table was published. A table whose output is not older than its input is then one
  whose marker is its file, given that the oldest output is the least of the stamps (`OldestIsLeast`) and
  that a new stamp keeps the order of the others (`StampedKeepsOrder`).
- `FailuresAreReal`: a run fails at its outputs only if one is missing. `SnapshotSound`: what a process has
  looked up since its hook dropped the snapshot can only have been lost since.

**ViewDatasets_proofs**, PostgreSQL and DuckDB
- `ComponentMarkersVouch`, `DatasetMarkersVouch`, `ViewsAreOverPublicTables`, `ReplayIsAccepted`. What is
  public is sound (`PublicInv`) only with what jobs carry to the publish (`StagingInv`): a staging marker
  names the rows of its table, and a receipt is about the version its source still has, also when
  several jobs stage one shared component and one of them finds it staged. `LinksFollow` ties the links
  of a dataset to its marker: without it a publish could take a dataset for current whose view reads a
  component that was replaced.
- `DatasetsImplementPublication`: the refinement maps what readers see (`ReadersSee`), on DuckDB through the
  names. A publish is `Publish(ToRestage(receipt))`, `Materialize` moves its dataset or nothing, a lost table
  takes views along (PostgreSQL) or leaves a hole in them (DuckDB). It needs `CurrentInv` besides: a
  receipt that found its dataset current, in this run or an earlier one, is still about the version that is
  published, so that what a publish leaves alone is at its sources. That nobody is left behind rests
  on `LinksFollow` and on the check of dependents.

**Maintenance_proofs**
- `ComponentMarkersVouch`; `DatasetMarkersVouch` on PostgreSQL only (`~ByName`): on DuckDB a rollback puts
  another table under a view that finds it by name, while the marker of the view stays.
- `MarkersAgreeRepublishable`: whatever operators did, a registry with all published datasets is not
  refused while markers agree. Needs `LiveWhileAgreed`: where the markers of a dataset and a component
  agree, the table is there.
- `NothingKeptIsLost`, `RollbackBringsBack`, `PruneKeepsDesired`, action properties. `UndoSound` says that what a
  rollback owes is what is kept or else public (`Due`), the views over tables that are due too: after a
  publish with `keep_old` (`PublishSetsAside`) and after a rollback of everything (`RollbackOwes`), which sets aside what
  it replaces. `ReportSound` says that a report names nothing its own registry desired, which is all that protects
  a dataset when the report is old.

**Contours_proofs**, keyed or not
- `MarkersNameRows`: the markers of contours, facts and staging name their rows, whatever is lost.
- `ViewsJoinWhole`, `NoRowIsLost`, under `Postgres \/ Alone = {}`: on PostgreSQL whatever is materialized
  alone, on DuckDB only while every run is over all datasets, for there `materialize` of one
  dataset replaces the contours under the others' views. `IInv` has `RunSound` (the receipts of a run
  are about its sources, and no receipt is of rejected facts), `PublishedSound` and `OverTheSame`.
- `ReferencesAreChecked`, no such assumption: a foreign key of public facts is to the zones of the contours
  that their view joins. Keys are followed through the renames by `SameRows` (a table is what it was but
  for where its key points).

**PureParts_proofs**
- `SharedOut`: `reachable` and `ambiguous` together are what is within reach along steps that keep the
  grain. Such a step is defined over contents (`KeepsRows`); it is a hop that is no fan-out (`FanOutLosesRows`)
  and, if the reference has columns, every such hop is one (`HopKeepsRows`). One way, if all references have
  columns, every route that was found and is no fan-out is such a walk (`RoutesSound`, which also
  has that routes are finitely many, so that `path` has one, several or none). The other, in any graph, a shortest walk
  visits no entity twice (`ShortestIsSimple`, by cutting it) and so the search follows it, hop by
  hop, and never stops at the target early (`RoutesComplete`).
- `FanOutIsExact`: with a fan-out some contents give two rows (`GrainLost` builds them); without one any
  two are equal, hop by hop (`GrainStays`).
- `ViewsKeepTheirGrain`, by induction on the joins: a join that covers a key which holds finds one row at
  most.
- `RowsAreKept`, by induction on the joins: the row of each component found so far is one of its rows, or
  NULL after a left join, so an inner join without orphans finds a match.
- `CyclesAreFound`: the search of `_check_acyclic` is right in both ways. `Visit` nests a call once more
  than there are entities, and `VisitsWell` shows that this is deep enough: each call opens an entity that
  was not open. A cycle is reported only if there is one: the entities that are open lie on one path, so an order
  of the entities would have to climb along it and come back (`EndsWell`). None is missed: an entity that is
  left has only parents that were left before it (`Sorted`, kept by `LoopsWell` along the edges), and the
  position at which it was left, counted out, is an order (`RankedIsAcyclic`).
- `BatchesAreExact`: a row is in the batch of its key (`KeyInBatch`), NULL has one of its own, and a batch counted
  over all columns is the rows themselves (`OverAll`), so batches that agree are bags that do
  (`BatchesEqual`). With the keys of one side only, `KeyInBatch` is false.
- `GroupsAreExact`: counts add up (`CountSplits`, `CountTakes`), and a sum is the same in whatever order it is taken
  (`SumTakes`). Up to three numbers are told by how many there are, the least, the greatest and their
  sum (`FewAreTold`), hence the rows of a group by what is compared of it, hence relations of fewer than four
  rows. With no float column a group is a row, and nothing bounds the rows. That equal relations agree holds
  for any rows.

**Induction.** The library's induction takes a predicate, which the provers cannot instantiate.
LeastNumber derives it for a *set* of natural numbers from the well-foundedness of less-than: a set with 0
and with every successor has all numbers (`InductionOnSet`). That the recursive functions exist (rows
after n joins, paths after n hops, orphans of n joins, calls nested n deep, sums over subsets) is proved with it and not assumed. tlapm does
not know `@@` and `:>`, nor functions of several arguments; the modules with theorems do without.

**Only model-checked.** `Converges`, `SettlesUnlessReverted`, `Regenerates`, `RegeneratesUnlessHeld` and
`Stabilises`: liveness under fairness is out of the prover's reach. All invariants and action properties of
the runs that hold, and the refinement, are theorems. The violated properties of section 4 are false, so there is
nothing to prove of them.

## 6. Abstractions

A version is both the rows and the `update_id`: SHA-256 is taken as injective, and the manifest, loader
and type-map versions that enter it as fixed. The marker tables exist from the start (`create_all`).
READ COMMITTED isolation, PostgreSQL's relation locks and transactional DDL are as documented by
PostgreSQL; a lock wait is an action that is not enabled, a timeout of one is `Fail`. PublishSwap may
take receipts in any order, which includes the code's. Columns of the markers other than the key, the
`update_id`, the receipt's earlier `update_id` and `published_at`/`staged_at` are left out, as are
logging, null counts and row counts.

*Datasets.* A view is the versions of the tables it was created over (PostgreSQL) or no more than its
names (DuckDB). In ViewDatasets and Contours one workflow runs at a time and sources are still while a
job runs; a publish is one step, as PlainTables shows the steps of one. In Contours every dataset of a
run is staged again, which is what happens when its receipt is missing; jobs that Snakemake skips are in
ViewDatasets. The refusal of orphans in v2 is in Manifests, not in ViewDatasets: it reads sources only. In Maintenance
staging and publishing is one step, and readers of a table are the relations over its version.

*Algorithms.* Identifiers are names that are well-formed; SQL is what it gives; a hash is what it hashes;
the tolerance of comparisons is below any difference.

## 7. Not modelled

- *Fingerprints* are assumed injective; *bulk loading* is part of the transaction that loads; *queries*,
  *export*, *grants* and `components.py` only read, or write files or text; *credentials* are one process's
  own state.
- `ANALYZE`, grants and comments of relations, `refresh` of dataset markers: no decision of the protocol
  reads them, except `published_at` of tables, which is in Workflow.
- v1 relations in reconciliation and in kept generations; the registry of plain tables in `reconcile`.
- Two workflows at once over datasets; seeding beside a publish; DuckDB's file lock, which matters only
  for two writing processes.
- `compare_schemas`, hash buckets, tolerance and memory limits of verification.
- What a manifest file may hold: v1 manifests, components shared by name and `check_manifests`, which are
  conditions on names and definitions that nothing beyond them follows from.

Hazards that no property covers: a contour swapped by a stale receipt (the receipts of a run in Contours
are its own); a dataset current by its relation though a component is gone (only `MCViewDatasets_duckdb` gets there,
and violates `Regenerates`); a publish between a report and its prune, whose objects the code prunes all the
same; float errors that compensate in a group of four rows, which the code accepts. `QuietIsRight` is
about fresh answers of the plugin, `FailsOnlyIfMissing` about cached ones.

## 8. What is left

Two workflows at once over datasets; v1 relations in Maintenance; an abstract specification of the
publication over contours.
