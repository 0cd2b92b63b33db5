--------------------------- MODULE Workflow_proofs ----------------------------
(***************************************************************************)
(* Theorems about Workflow for every finite set of tables, with and        *)
(* without a snapshot, a refresh and reverted files.                       *)
(***************************************************************************)
EXTENDS Workflow, LeastNumber, FiniteSetTheorems

\* Rows are the ones their marker names; a staged table is.
RowsVouched ==
    \A t \in Tables : /\ marker[t] # None /\ live[t] # None => live[t] = marker[t]
                      /\ stg[t] # None => stg[t] = staged[t]

\* Receipts are of the workflow that runs, before its publish, and about the files as they are.
ReceiptsSound ==
    /\ ~running \/ ending # "no" => \A t \in Tables : receipt[t] = None
    /\ ending # "no" => running
    /\ \A t \in Tables : /\ receipt[t] = "staged" => staged[t] = file[t] /\ stg[t] = file[t]
                         /\ receipt[t] = "current" => marker[t] = file[t]

\* A file that is not the published one was written after the table was published.
WrittenAfter ==
    \A t \in Tables : marker[t] \notin {None, file[t]} => stamp[<<"published", t>>] < stamp[<<"file", t>>]

\* What a process has looked up since its hooks ran can only have been lost.
SnapshotSound == ending = "stored" /\ snapshot # None => Published \subseteq snapshot

IInv == TypeOK /\ RowsVouched /\ ReceiptsSound /\ WrittenAfter /\ SnapshotSound
-------------------------------------------------------------------------------
(* Times *)

\* The oldest of some times is one of them and not after any.
LEMMA OldestIsLeast ==
    ASSUME NEW S \in SUBSET Nat, S # {}
    PROVE  Min(S) \in S /\ \A x \in S : Min(S) <= x
  BY LeastExists DEF Min

\* There are finitely many stamps.
LEMMA TimesFinite == IsFiniteSet(Times) /\ Cardinality(Times) \in Nat
  <1>1. IsFiniteSet({"file"} \union {"published"} \union {"staged"})
    BY FS_Singleton, FS_Union
  <1>2. Times = ({"file"} \union {"published"} \union {"staged"}) \X Tables
    BY DEF Times
  <1>3. IsFiniteSet(Times)
    BY <1>1, <1>2, FS_Product, TablesAssumption
  <1>4. QED
    BY <1>3, FS_CardinalityType

\* The time an event has before it is ranked: those of S are after all others.
At(S) == [i \in Times |-> IF i \in S THEN Cardinality(Times) + 1 ELSE stamp[i]]

\* Ranking the times keeps them within bounds, and what came before what.
LEMMA StampedOrders ==
    ASSUME stamp \in [Times -> 0 .. Cardinality(Times)], NEW S \in SUBSET Times
    PROVE  /\ Stamped(S) \in [Times -> 0 .. Cardinality(Times)]
           /\ \A i, j \in Times : At(S)[i] < At(S)[j] => Stamped(S)[i] < Stamped(S)[j]
  <1>1. PICK at : at = At(S) /\ at \in [Times -> Nat]
    <2>1. At(S) \in [Times -> Nat]
      <3>1. \A i \in Times : stamp[i] \in Nat /\ Cardinality(Times) + 1 \in Nat
        BY TimesFinite
      <3>2. QED
        BY <3>1 DEF At
    <2>2. QED
      BY <2>1
  <1> DEFINE Below(i) == {at[j] : j \in {k \in Times : at[k] < at[i]}}
  <1>2. Stamped(S) = [i \in Times |-> Cardinality(Below(i))]
    BY <1>1 DEF Stamped, At
  <1>3. ASSUME NEW i \in Times
        PROVE  /\ IsFiniteSet(Below(i))
               /\ Cardinality(Below(i)) \in Nat /\ Cardinality(Below(i)) <= Cardinality(Times)
    <2>1. PICK earlier : earlier = {k \in Times : at[k] < at[i]}
      OBVIOUS
    <2>2. IsFiniteSet(earlier) /\ Cardinality(earlier) <= Cardinality(Times) /\ Cardinality(earlier) \in Nat
      BY <2>1, TimesFinite, FS_Subset, FS_CardinalityType
    <2>3. [j \in earlier |-> at[j]] \in Surjection(earlier, Below(i))
      BY <2>1 DEF Surjection
    <2>4. IsFiniteSet(Below(i)) /\ Cardinality(Below(i)) <= Cardinality(earlier)
      BY <2>2, <2>3, FS_Surjection
    <2>5. Cardinality(Below(i)) \in Nat
      BY <2>4, FS_CardinalityType
    <2>6. QED
      BY <2>2, <2>4, <2>5, TimesFinite
  <1>4. ASSUME NEW i \in Times, NEW j \in Times, at[i] < at[j]
        PROVE  Cardinality(Below(i)) < Cardinality(Below(j))
    <2>1. at[i] \in Nat /\ at[j] \in Nat
      BY <1>1
    <2>2. Below(i) \subseteq Below(j)
      BY <1>1, <1>4
    <2>3. at[i] \in Below(j) /\ at[i] \notin Below(i)
      BY <1>1, <1>4
    <2> HIDE DEF Below
    <2>4. /\ Cardinality(Below(i)) <= Cardinality(Below(j))
          /\ Cardinality(Below(i)) # Cardinality(Below(j))
      BY <1>3, <2>2, <2>3, FS_Subset
    <2>5. QED
      BY <1>3, <2>4
  <1> HIDE DEF Below
  <1>5. QED
    BY <1>1, <1>2, <1>3, <1>4, TimesFinite

\* An event of now is after one that is not; of two events of the past the order stays.
LEMMA StampedKeepsOrder ==
    ASSUME stamp \in [Times -> 0 .. Cardinality(Times)], NEW S \in SUBSET Times,
           NEW i \in Times, NEW j \in Times, i \notin S, stamp[i] < stamp[j] \/ j \in S
    PROVE  Stamped(S)[i] < Stamped(S)[j]
  <1>1. /\ stamp[i] \in Nat /\ stamp[i] <= Cardinality(Times)
        /\ stamp[j] \in Nat /\ stamp[j] <= Cardinality(Times)
    BY TimesFinite
  <1>2. At(S)[i] < At(S)[j]
    BY <1>1, TimesFinite DEF At
  <1>3. QED
    BY <1>2, StampedOrders

-------------------------------------------------------------------------------
(* The jobs *)

\* A stage job makes its staged table the file's, or leaves it where it is so already.
LEMMA StageStep == ASSUME IInv, NEW t \in Tables, Stage(t) PROVE IInv'
  <1>1. /\ running /\ ending = "no" /\ receipt[t] = None
        /\ toStage' = toStage \ {t}
        /\ receipt' = [receipt EXCEPT ![t] = IF Current(t) THEN "current" ELSE "staged"]
        /\ snapshot' = None
        /\ UNCHANGED <<file, live, marker, running, ending, calm>>
    BY DEF Stage, database
  <1>2. \/ Exists(t) /\ UNCHANGED <<stg, staged, stamp>>
        \/ /\ stg' = [stg EXCEPT ![t] = file[t]]
           /\ staged' = [staged EXCEPT ![t] = file[t]]
           /\ stamp' = Stamped({<<"staged", t>>})
    BY DEF Stage, database
  <1>3. {<<"staged", t>>} \in SUBSET Times
    BY DEF Times
  <1>4. TypeOK'
    <2>1. stamp' \in [Times -> 0 .. Cardinality(Times)]
      BY <1>2, <1>3, StampedOrders DEF IInv, TypeOK
    <2>2. receipt' \in [Tables -> {"current", "staged", None}]
      BY <1>1 DEF IInv, TypeOK
    <2>3. stg' \in [Tables -> Versions \union {None}] /\ staged' \in [Tables -> Versions \union {None}]
      BY <1>2 DEF IInv, TypeOK
    <2>4. QED
      BY <1>1, <2>1, <2>2, <2>3 DEF IInv, TypeOK
  <1>5. ASSUME NEW u \in Tables
        PROVE  \/ stg'[u] = stg[u] /\ staged'[u] = staged[u]
               \/ u = t /\ stg'[u] = file[u] /\ staged'[u] = file[u]
    BY <1>2 DEF IInv, TypeOK
  <1>6. RowsVouched'
    BY <1>1, <1>5 DEF IInv, RowsVouched
  <1>7. ReceiptsSound'
    <2>1. ASSUME NEW u \in Tables, receipt'[u] = "staged" PROVE staged'[u] = file[u] /\ stg'[u] = file[u]
      <3>1. CASE u = t
        <4>1. ~Current(t)
          BY <1>1, <2>1, <3>1 DEF IInv, TypeOK
        <4>2. Exists(t) => staged[t] = file[t] /\ stg[t] = file[t]
          BY <4>1 DEF Exists, StagedAlready, IInv, RowsVouched
        <4>3. QED
          BY <1>2, <3>1, <4>2 DEF IInv, TypeOK
      <3>2. CASE u # t
        BY <1>1, <1>5, <2>1, <3>2 DEF IInv, TypeOK, ReceiptsSound
      <3>3. QED
        BY <3>1, <3>2
    <2>2. ASSUME NEW u \in Tables, receipt'[u] = "current" PROVE marker[u] = file[u]
      BY <1>1, <2>2 DEF IInv, TypeOK, ReceiptsSound, Current
    <2>3. QED
      BY <1>1, <2>1, <2>2 DEF ReceiptsSound
  <1>8. WrittenAfter'
    <2>1. ASSUME NEW u \in Tables, stamp[<<"published", u>>] < stamp[<<"file", u>>]
          PROVE  stamp'[<<"published", u>>] < stamp'[<<"file", u>>]
      <3>1. /\ <<"published", u>> \in Times /\ <<"file", u>> \in Times
            /\ <<"published", u>> \notin {<<"staged", t>>}
        BY DEF Times
      <3>2. QED
        BY <1>2, <1>3, <2>1, <3>1, StampedKeepsOrder DEF IInv, TypeOK
    <2>2. QED
      BY <1>1, <2>1 DEF IInv, WrittenAfter
  <1>9. SnapshotSound'
    BY <1>1 DEF SnapshotSound
  <1>10. QED
    BY <1>4, <1>6, <1>7, <1>8, <1>9 DEF IInv

\* After a publish every marker is the file's.
LEMMA PublishStep == ASSUME IInv, Publish PROVE IInv'
  <1>1. PICK S : S = {t \in Tables : receipt[t] = "staged" /\ ~Current(t)}
    OBVIOUS
  <1>2. /\ running /\ ending = "no" /\ ending' = "committed"
        /\ \A t \in Tables : receipt[t] # None
        /\ live' = [t \in Tables |-> IF t \in S THEN stg[t] ELSE live[t]]
        /\ stg' = [t \in Tables |-> IF t \in S THEN None ELSE stg[t]]
        /\ marker' = [t \in Tables |-> IF t \in S THEN file[t] ELSE marker[t]]
        /\ stamp' = Stamped(Refreshed(S))
        /\ receipt' = Nothing
        /\ UNCHANGED <<file, staged, running, toStage, snapshot, calm>>
    BY <1>1 DEF Publish
  <1>3. S \subseteq Tables /\ Refreshed(S) \in SUBSET Times
    BY <1>1 DEF Refreshed, Times
  <1>4. \A t \in Tables : marker'[t] = file[t]
    <2>1. ASSUME NEW t \in Tables, t \notin S PROVE marker[t] = file[t]
      BY <1>1, <1>2, <2>1 DEF IInv, TypeOK, ReceiptsSound, Current
    <2>2. QED
      BY <1>2, <2>1
  <1>5. \A t \in S : stg[t] = file[t]
    BY <1>1 DEF IInv, ReceiptsSound
  <1>6. TypeOK'
    <2>1. stamp' \in [Times -> 0 .. Cardinality(Times)]
      BY <1>2, <1>3, StampedOrders DEF IInv, TypeOK
    <2>2. /\ live' \in [Tables -> Versions \union {None}]
          /\ stg' \in [Tables -> Versions \union {None}]
          /\ marker' \in [Tables -> Versions \union {None}]
          /\ receipt' \in [Tables -> {"current", "staged", None}]
      BY <1>2 DEF IInv, TypeOK, Nothing
    <2>3. QED
      BY <1>2, <2>1, <2>2 DEF IInv, TypeOK
  <1>7. RowsVouched'
    BY <1>2, <1>4, <1>5 DEF IInv, RowsVouched
  <1>8. ReceiptsSound'
    BY <1>2, VersionsAssumption DEF IInv, ReceiptsSound, Nothing
  <1>9. WrittenAfter' /\ SnapshotSound'
    BY <1>2, <1>4 DEF WrittenAfter, SnapshotSound
  <1>10. QED
    BY <1>6, <1>7, <1>8, <1>9 DEF IInv

-------------------------------------------------------------------------------
(* The files and the tables, under the workflow *)

\* A file is rewritten between workflows, after all there was.
LEMMA RewriteStep == ASSUME IInv, NEW t \in Tables, Rewrite(t) PROVE IInv'
  <1>1. /\ ~running
        /\ stamp' = Stamped({<<"file", t>>})
        /\ UNCHANGED <<live, marker, stg, staged, running, toStage, receipt, snapshot, ending, calm>>
    BY DEF Rewrite, database, workflow, process
  <1>2. PICK v \in Versions : file' = [file EXCEPT ![t] = v]
    BY DEF Rewrite
  <1>3. {<<"file", t>>} \in SUBSET Times
    BY DEF Times
  <1>4. TypeOK'
    <2>1. stamp' \in [Times -> 0 .. Cardinality(Times)]
      BY <1>1, <1>3, StampedOrders DEF IInv, TypeOK
    <2>2. file' \in [Tables -> Versions]
      BY <1>2 DEF IInv, TypeOK
    <2>3. QED
      BY <1>1, <2>1, <2>2 DEF IInv, TypeOK
  <1>5. WrittenAfter'
    <2>1. ASSUME NEW u \in Tables, marker[u] # None, marker[u] # file'[u]
          PROVE  stamp'[<<"published", u>>] < stamp'[<<"file", u>>]
      <3>1. /\ <<"published", u>> \in Times /\ <<"file", u>> \in Times
            /\ <<"published", u>> \notin {<<"file", t>>}
        BY DEF Times
      <3>2. u = t \/ stamp[<<"published", u>>] < stamp[<<"file", u>>]
        BY <1>2, <2>1 DEF IInv, TypeOK, WrittenAfter
      <3>3. QED
        BY <1>1, <1>3, <3>1, <3>2, StampedKeepsOrder DEF IInv, TypeOK
    <2>2. QED
      BY <1>1, <2>1 DEF WrittenAfter
  <1>6. ReceiptsSound'
    BY <1>1, VersionsAssumption DEF IInv, ReceiptsSound
  <1>7. RowsVouched' /\ SnapshotSound'
    BY <1>1 DEF IInv, RowsVouched, SnapshotSound, Published, PublishedCurrent
  <1>8. QED
    BY <1>4, <1>5, <1>6, <1>7 DEF IInv

\* A table that is lost is published no longer.
LEMMA LoseStep == ASSUME IInv, NEW t \in Tables, LoseTable(t) PROVE IInv'
  <1>1. /\ live' = [live EXCEPT ![t] = None]
        /\ UNCHANGED <<file, marker, stg, staged, stamp, running, toStage, receipt, snapshot, ending, calm>>
    BY DEF LoseTable, workflow, process
  <1>2. \A u \in Tables : live'[u] \in {live[u], None}
    BY <1>1 DEF IInv, TypeOK
  <1>3. TypeOK'
    BY <1>1 DEF IInv, TypeOK
  <1>4. Published' \subseteq Published
    BY <1>1, <1>2 DEF Published, PublishedCurrent
  <1>5. RowsVouched' /\ ReceiptsSound' /\ WrittenAfter' /\ SnapshotSound'
    BY <1>1, <1>2, <1>4 DEF IInv, RowsVouched, ReceiptsSound, WrittenAfter, SnapshotSound
  <1>6. QED
    BY <1>3, <1>5 DEF IInv

\* Steps of the workflow and its process that leave the database and the files alone.
LEMMA ProcessSteps ==
    ASSUME IInv, Plan \/ Look \/ Store \/ Finish \/ Abort \/ CalmDown \/ UNCHANGED vars
    PROVE  IInv'
  <1>1. UNCHANGED <<file, live, marker, stg, staged, stamp>>
    BY DEF Plan, Look, Store, Finish, Abort, CalmDown, vars, database
  <1>2. Published \subseteq Tables /\ Published' = Published
    BY <1>1 DEF Published, PublishedCurrent
  <1>3. RowsVouched' /\ WrittenAfter'
    BY <1>1 DEF IInv, RowsVouched, WrittenAfter
  <1>4. CASE Plan
    <2>1. /\ ~running /\ running' = TRUE /\ snapshot' = (IF Cached THEN Published ELSE None)
          /\ toStage' \subseteq Tables
          /\ UNCHANGED <<receipt, ending, calm>>
      BY <1>4 DEF Plan
    <2>2. ending = "no"
      BY <2>1 DEF IInv, TypeOK, ReceiptsSound
    <2>3. TypeOK' /\ ReceiptsSound' /\ SnapshotSound'
      BY <1>1, <1>2, <2>1, <2>2 DEF IInv, TypeOK, ReceiptsSound, SnapshotSound
    <2>4. QED
      BY <1>3, <2>3 DEF IInv
  <1>5. CASE Look
    BY <1>1, <1>2, <1>3, <1>5 DEF Look, workflow, IInv, TypeOK, ReceiptsSound, SnapshotSound
  <1>6. CASE Store
    BY <1>1, <1>3, <1>6 DEF Store, workflow, IInv, TypeOK, ReceiptsSound, SnapshotSound
  <1>7. CASE Finish
    BY <1>1, <1>3, <1>7 DEF Finish, IInv, TypeOK, ReceiptsSound, SnapshotSound
  <1>8. CASE Abort
    BY <1>1, <1>3, <1>8, VersionsAssumption DEF Abort, IInv, TypeOK, ReceiptsSound, SnapshotSound, Nothing
  <1>9. CASE CalmDown \/ UNCHANGED vars
    <2>1. UNCHANGED <<running, toStage, receipt, snapshot, ending>> /\ calm' \in BOOLEAN
      BY <1>9 DEF CalmDown, vars, workflow, process, IInv, TypeOK
    <2>2. QED
      BY <1>1, <1>2, <1>3, <2>1 DEF IInv, TypeOK, ReceiptsSound, SnapshotSound
  <1>10. QED
    BY <1>4, <1>5, <1>6, <1>7, <1>8, <1>9

-------------------------------------------------------------------------------
(* The invariant *)

\* The seeded tables are those of their files, and nothing else is there.
LEMMA InvInit == ASSUME Init PROVE IInv
  <1>1. PICK S \in SUBSET Tables : Seeded(S)
    BY DEF Init
  <1>2. TypeOK
    <2>1. stamp \in [Times -> 0 .. Cardinality(Times)]
      <3>1. ASSUME NEW i \in Times PROVE 1 <= Cardinality(Times)
        BY TimesFinite, FS_EmptySet
      <3>2. \A i \in Times : stamp[i] \in {0, 1}
        BY <1>1 DEF Seeded
      <3>3. stamp = [i \in Times |-> stamp[i]]
        BY <1>1 DEF Seeded
      <3>4. QED
        BY <3>1, <3>2, <3>3, TimesFinite
    <2>2. live \in [Tables -> Versions \union {None}] /\ marker = live
      BY <1>1 DEF Init, Seeded
    <2>3. QED
      BY <2>1, <2>2 DEF Init, TypeOK, Nothing
  <1>3. RowsVouched /\ WrittenAfter
    BY <1>1, VersionsAssumption DEF Init, Seeded, RowsVouched, WrittenAfter, Nothing
  <1>4. ReceiptsSound /\ SnapshotSound
    BY VersionsAssumption DEF Init, ReceiptsSound, SnapshotSound, Nothing
  <1>5. QED
    BY <1>2, <1>3, <1>4 DEF IInv

\* Every step keeps it.
LEMMA InvNext == ASSUME IInv, [Next]_vars PROVE IInv'
  BY StageStep, PublishStep, RewriteStep, LoseStep, ProcessSteps DEF Next, Work, Disturb

\* The markers, the receipts and the stamps agree in every state.
THEOREM Invariant == Spec => []IInv
  BY InvInit, InvNext, PTL DEF Spec

-------------------------------------------------------------------------------
(* What the run checks on two tables, for all *)

\* Every variable has its type; the ranks of the times stay within their number.
THEOREM TypesCorrect == Spec => []TypeOK
  <1>1. IInv => TypeOK
    BY DEF IInv
  <1>2. QED
    BY <1>1, Invariant, PTL

\* When Snakemake finds nothing to do, every public table holds its Parquet and its marker
\* says so, whatever was rewritten, reverted, lost or left behind by runs that died.
THEOREM QuietMeansPublished == Spec => []QuietIsRight
  <1>1. ASSUME IInv, ~PublishNeeded, NEW t \in Tables PROVE live[t] = file[t] /\ marker[t] = file[t]
    <2>1. /\ Published = Tables
          /\ marker[t] # None /\ live[t] # None /\ staged[t] \in {None, marker[t]}
          /\ ~FileUpdated(t)
      BY <1>1 DEF PublishNeeded, Published, PublishedCurrent
    <2>2. ASSUME marker[t] # file[t] PROVE FALSE
      <3>1. file[t] # None
        BY VersionsAssumption, <1>1 DEF IInv, TypeOK
      <3>2. ~Exists(t)
        BY <2>1, <2>2, <3>1 DEF Exists, Current, StagedAlready
      <3>3. PICK times : times = {PublishedMtime(u) : u \in Published}
        OBVIOUS
      <3>4. times \in SUBSET Nat /\ PublishedMtime(t) \in times
        <4>1. \A u \in Tables : <<"published", u>> \in Times
          BY DEF Times
        <4>2. \A i \in Times : stamp[i] \in Nat
          BY <1>1, TimesFinite DEF IInv, TypeOK
        <4>3. \A u \in Tables : PublishedMtime(u) \in Nat
          BY <4>1, <4>2 DEF PublishedMtime
        <4>4. QED
          BY <2>1, <3>3, <4>3
      <3>5. Min(times) <= PublishedMtime(t) /\ Min(times) \in Nat
        BY <3>4, OldestIsLeast
      <3>6. PublishedMtime(t) < stamp[<<"file", t>>] /\ stamp[<<"file", t>>] \in Nat
        BY <1>1, <2>1, <2>2, TimesFinite DEF PublishedMtime, Times, IInv, TypeOK, WrittenAfter
      <3>7. NewerThanPublished(stamp[<<"file", t>>])
        <4>1. Min(times) < stamp[<<"file", t>>]
          <5>1. PublishedMtime(t) \in Nat
            BY ONLY <3>4
          <5>2. QED
            BY ONLY <3>5, <3>6, <5>1
        <4>2. Published # {}
          BY <2>1
        <4>3. times = {PublishedMtime(u) : u \in Published}
          BY ONLY <3>3
        <4>4. QED
          BY <3>5, <3>6, <4>1, <4>2, <4>3 DEF NewerThanPublished
      <3>8. QED
        BY <2>1, <3>2, <3>7 DEF FileUpdated
    <2>3. QED
      BY <1>1, <2>1, <2>2 DEF IInv, RowsVouched
  <1>2. IInv => QuietIsRight
    BY <1>1 DEF QuietIsRight, Quiet, UpToDate
  <1>3. QED
    BY <1>2, Invariant, PTL

\* A run that is reported to have failed for a missing output has one: a snapshot never hides
\* what the jobs of its process have committed.
THEOREM FailuresAreReal == Spec => FailsOnlyIfMissing
  <1>1. ASSUME IInv, [Next]_vars PROVE [Finish /\ SeenPublished # Tables => Published # Tables]_vars
    <2>1. ASSUME Finish, SeenPublished # Tables PROVE Published # Tables
      BY <1>1, <2>1 DEF IInv, TypeOK, SnapshotSound, Finish, SeenPublished
    <2>2. QED
      BY <2>1
  <1>2. QED
    BY <1>1, Invariant, PTL DEF Spec, FailsOnlyIfMissing
===============================================================================
