-------------------------- MODULE PlainTables_proofs --------------------------
(***************************************************************************)
(* Theorems about PlainTables for every set of tables, releases and        *)
(* workers.  SwapStillValid holds in every deployment, StagedVouches in    *)
(* every one with stable files.  That markers vouch for the rows, that no  *)
(* publish commits a partial state and that readers see whole releases is  *)
(* proved of the deployment in which the workflow runs one worker at a     *)
(* time over files that do not change under it.                            *)
(***************************************************************************)
EXTENDS PlainTables, TLAPS

\* The deployment Snakemake gives: its lock on the working directory, the DAG order
\* (files are produced before they are staged) and receipts staged by the same run.
Deployed == ExclusiveRuns /\ StableFiles /\ ~Replays

Loading == JobState \ (Receipt \union {"none"})
Hashed == JobState \ {"none", "hash"}

\* Only a run that stages has unfinished jobs; who loads or has swapped a table holds it.
LockInv ==
    /\ \A w \in Workers, t \in Tables :
           /\ job[w][t] \in Loading => run[w] = "staging"
           /\ job[w][t] = "loading" => relLock[t] = w
    /\ \A w \in Workers : \A t \in swapped[w] :
           run[w] = "publishing" /\ relLock[t] = w /\ t \in todo[w]

SwapInv == TypeOK /\ LockInv /\ SwapStillValid

\* One worker is active at a time.
OneActive ==
    \A w, v \in Workers : run[w] \in Active /\ run[v] \in Active => w = v

\* What a running worker knows of table t is still so: its fingerprint is that of its file,
\* a marker or a staging marker it relies on is still there.
KnowsTable(w, t) ==
    /\ run[w] \in Active /\ job[w][t] \in Hashed => uid[w][t] = Content[release[w]][t]
    /\ run[w] \in {"staging", "publishing"} =>
           /\ job[w][t] \in {"checkLive", "current"} => marker[t] = uid[w][t]
           /\ job[w][t] \in {"checkStg", "staged"} => staged[t] = uid[w][t]
    /\ run[w] = "publishing" =>
           /\ job[w][t] \in Receipt
           /\ t \in todo[w] => job[w][t] = "staged"
           /\ t \notin todo[w] => marker[t] = uid[w][t]

Knows == \A w \in Workers, t \in Tables : KnowsTable(w, t)

IInv == SwapInv /\ OneActive /\ Knows /\ StagedVouches /\ MarkerVouches

-------------------------------------------------------------------------------
(* Steps *)

\* Every step is one of these.
LEMMA Steps ==
    ASSUME Next
    PROVE  \/ \E w \in Workers :
                  \/ StartRun(w) \/ Replay(w) \/ PublishNothing(w) \/ PublishBegin(w)
                  \/ PublishCommit(w) \/ PublishReturns(w) \/ ReplaceFiles(w)
                  \/ run[w] \in Active /\ Stop(w)
           \/ \E w \in Workers, t \in Tables :
                  \/ StageHash(w, t) \/ StageReadMarker(w, t) \/ StageCheckLive(w, t)
                  \/ StageReadStaged(w, t) \/ StageCheckStg(w, t) \/ StageOpen(w, t)
                  \/ StageCommit(w, t) \/ PublishSwap(w, t) \/ DropOld(w, t)
                  \/ DropOldFails(w, t)
           \/ \E t \in Tables : LoseTable(t)
  BY DEF Next, Disturbance, Work, StageTable, PublishTables, Fail, PublishConflict,
         StagingTableMissing, Active

-------------------------------------------------------------------------------
(* Types *)

\* No worker runs at first.
LEMMA TypeInit == ASSUME Init PROVE TypeOK
  BY NoneAssumption, ContentAssumption DEF Init, TypeOK, RunState, JobState

\* Types are kept by every step.
LEMMA TypeNext == ASSUME TypeOK, [Next]_vars PROVE TypeOK'
  <1> USE NoneAssumption, ContentAssumption
      DEF TypeOK, RunState, JobState, Receipt, Active, files, database, locks, jobs,
          publication
  <1>1. ASSUME NEW w \in Workers, StartRun(w) PROVE TypeOK'
    BY <1>1 DEF StartRun
  <1>2. ASSUME NEW w \in Workers, Replay(w) PROVE TypeOK'
    BY <1>2 DEF Replay
  <1>3. ASSUME NEW w \in Workers, PublishNothing(w) PROVE TypeOK'
    <2>1. CASE run' = [run EXCEPT ![w] = "published"] /\ UNCHANGED jobs
      BY <1>3, <2>1 DEF PublishNothing
    <2>2. CASE run' = [run EXCEPT ![w] = "idle"] /\ ForgetJobs(w)
      BY <1>3, <2>2 DEF PublishNothing, ForgetJobs
    <2>3. QED
      BY ONLY <1>3, <2>1, <2>2 DEF PublishNothing, Return
  <1>4. ASSUME NEW w \in Workers, PublishBegin(w) PROVE TypeOK'
    BY <1>4 DEF PublishBegin, StagedReceipts
  <1>5. ASSUME NEW w \in Workers, PublishCommit(w) PROVE TypeOK'
    BY <1>5 DEF PublishCommit
  <1>6. ASSUME NEW w \in Workers, PublishReturns(w) PROVE TypeOK'
    <2>1. CASE run' = [run EXCEPT ![w] = "published"] /\ UNCHANGED jobs
      BY <1>6, <2>1 DEF PublishReturns
    <2>2. CASE run' = [run EXCEPT ![w] = "idle"] /\ ForgetJobs(w)
      BY <1>6, <2>2 DEF PublishReturns, ForgetJobs
    <2>3. QED
      BY ONLY <1>6, <2>1, <2>2 DEF PublishReturns, Return
  <1>7. ASSUME NEW w \in Workers, ReplaceFiles(w) PROVE TypeOK'
    BY <1>7 DEF ReplaceFiles
  <1>8. ASSUME NEW w \in Workers, Stop(w) PROVE TypeOK'
    BY <1>8 DEF Stop, ForgetJobs
  <1>9. ASSUME NEW w \in Workers, NEW t \in Tables, StageHash(w, t) PROVE TypeOK'
    BY <1>9 DEF StageHash, Goto
  <1>10. ASSUME NEW w \in Workers, NEW t \in Tables, StageReadMarker(w, t) PROVE TypeOK'
    BY <1>10 DEF StageReadMarker, Goto
  <1>11. ASSUME NEW w \in Workers, NEW t \in Tables,
                StageCheckLive(w, t) \/ StageReadStaged(w, t) \/ StageCheckStg(w, t)
         PROVE  TypeOK'
    <2>1. CASE StageCheckLive(w, t)
      BY <2>1 DEF StageCheckLive, Goto
    <2>2. CASE StageReadStaged(w, t)
      BY <2>2 DEF StageReadStaged, Goto
    <2>3. CASE StageCheckStg(w, t)
      BY <2>3 DEF StageCheckStg, Goto
    <2>4. QED
      BY ONLY <1>11, <2>1, <2>2, <2>3
  <1>12. ASSUME NEW w \in Workers, NEW t \in Tables, StageOpen(w, t) PROVE TypeOK'
    BY <1>12 DEF StageOpen, Goto
  <1>13. ASSUME NEW w \in Workers, NEW t \in Tables, StageCommit(w, t) PROVE TypeOK'
    BY <1>13 DEF StageCommit, Goto
  <1>14. ASSUME NEW w \in Workers, NEW t \in Tables, PublishSwap(w, t) PROVE TypeOK'
    BY <1>14 DEF PublishSwap
  <1>15. ASSUME NEW w \in Workers, NEW t \in Tables, DropOld(w, t) \/ DropOldFails(w, t)
         PROVE  TypeOK'
    <2>1. CASE DropOld(w, t)
      BY <2>1 DEF DropOld
    <2>2. CASE DropOldFails(w, t)
      BY <2>2 DEF DropOldFails
    <2>3. QED
      BY ONLY <1>15, <2>1, <2>2
  <1>16. ASSUME NEW t \in Tables, LoseTable(t) PROVE TypeOK'
    BY <1>16 DEF LoseTable
  <1>17. CASE UNCHANGED vars
    BY <1>17 DEF vars
  <1>18. QED
    BY ONLY TypeOK, [Next]_vars, <1>1, <1>2, <1>3, <1>4, <1>5, <1>6, <1>7, <1>8, <1>9,
       <1>10, <1>11, <1>12, <1>13, <1>14, <1>15, <1>16, <1>17, Steps

\* Every variable has its type, in every deployment.
THEOREM TypeCorrect == Spec => []TypeOK
  BY TypeInit, TypeNext, PTL DEF Spec

-------------------------------------------------------------------------------
(* A publish keeps what it has checked, in every deployment: the relations *)
(* it renamed are locked, and whoever else would change their marker or    *)
(* their staging table must hold that lock.                                *)

\* Nothing is locked at first.
LEMMA SwapInit == ASSUME Init PROVE SwapInv
  <1>1. TypeOK
    BY TypeInit
  <1>2. LockInv
    BY DEF Init, LockInv, Loading, Receipt, JobState
  <1>3. SwapStillValid
    BY DEF Init, SwapStillValid
  <1>4. QED
    BY <1>1, <1>2, <1>3 DEF SwapInv

\* Locks and swaps are kept together by every step.
LEMMA SwapNext == ASSUME SwapInv, [Next]_vars PROVE SwapInv'
  <1> USE NoneAssumption
      DEF LockInv, SwapStillValid, Loading, JobState, Receipt, Active, files, database,
          locks, jobs, publication
  <1> DEFINE I == LockInv /\ SwapStillValid
  <1>a. TypeOK /\ LockInv /\ SwapStillValid
    BY DEF SwapInv
  <1>b. TypeOK'
    BY TypeNext, <1>a
  <1>1. ASSUME NEW w \in Workers, StartRun(w) PROVE I'
    BY <1>a, <1>1 DEF StartRun, TypeOK
  <1>2. ASSUME NEW w \in Workers, Replay(w) PROVE I'
    BY <1>a, <1>2 DEF Replay, TypeOK
  <1>3. ASSUME NEW w \in Workers, PublishNothing(w) \/ PublishReturns(w) PROVE I'
    <2>1. /\ \A t \in Tables : job[w][t] \notin Loading
          /\ swapped[w] = {}
      BY <1>a, <1>3 DEF PublishNothing, PublishReturns, Ready, TypeOK
    <2>2. UNCHANGED <<database, locks, swapped, todo>>
      BY <1>3 DEF PublishNothing, PublishReturns
    <2>3. CASE run' = [run EXCEPT ![w] = "published"] /\ UNCHANGED jobs
      BY <1>a, <2>1, <2>2, <2>3 DEF TypeOK
    <2>4. CASE run' = [run EXCEPT ![w] = "idle"] /\ ForgetJobs(w)
      BY <1>a, <2>1, <2>2, <2>4 DEF TypeOK, ForgetJobs
    <2>5. QED
      BY ONLY <1>3, <2>3, <2>4 DEF PublishNothing, PublishReturns, Return
  <1>4. ASSUME NEW w \in Workers, PublishBegin(w) PROVE I'
    BY <1>a, <1>4 DEF PublishBegin, Ready, TypeOK
  <1>5. ASSUME NEW w \in Workers, PublishCommit(w) PROVE I'
    BY <1>a, <1>5 DEF PublishCommit, TypeOK
  <1>6. ASSUME NEW w \in Workers, ReplaceFiles(w) PROVE I'
    BY <1>a, <1>6 DEF ReplaceFiles
  <1>7. ASSUME NEW w \in Workers, Stop(w) PROVE I'
    BY <1>a, <1>7 DEF Stop, ForgetJobs, TypeOK
  <1>8. ASSUME NEW w \in Workers, NEW t \in Tables, StageHash(w, t) PROVE I'
    BY <1>a, <1>8 DEF StageHash, JobAt, Goto, TypeOK
  <1>9. ASSUME NEW w \in Workers, NEW t \in Tables, StageReadMarker(w, t) PROVE I'
    BY <1>a, <1>9 DEF StageReadMarker, JobAt, Goto, TypeOK
  <1>10. ASSUME NEW w \in Workers, NEW t \in Tables, StageCheckLive(w, t) PROVE I'
    BY <1>a, <1>10 DEF StageCheckLive, JobAt, Goto, TypeOK
  <1>11. ASSUME NEW w \in Workers, NEW t \in Tables, StageReadStaged(w, t) PROVE I'
    BY <1>a, <1>11 DEF StageReadStaged, JobAt, Goto, TypeOK
  <1>12. ASSUME NEW w \in Workers, NEW t \in Tables, StageCheckStg(w, t) PROVE I'
    BY <1>a, <1>12 DEF StageCheckStg, JobAt, Goto, TypeOK
  <1>13. ASSUME NEW w \in Workers, NEW t \in Tables, StageOpen(w, t) PROVE I'
    BY <1>a, <1>13 DEF StageOpen, JobAt, Goto, TypeOK
  <1>14. ASSUME NEW w \in Workers, NEW t \in Tables, StageCommit(w, t) PROVE I'
    BY <1>a, <1>14 DEF StageCommit, JobAt, Goto, TypeOK
  <1>15. ASSUME NEW w \in Workers, NEW t \in Tables, PublishSwap(w, t) PROVE I'
    BY <1>a, <1>15 DEF PublishSwap, MarkerUnchanged, TypeOK
  <1>16. ASSUME NEW w \in Workers, NEW t \in Tables, DropOld(w, t) PROVE I'
    BY <1>a, <1>16 DEF DropOld
  <1>17. ASSUME NEW w \in Workers, NEW t \in Tables, DropOldFails(w, t) PROVE I'
    BY <1>a, <1>17 DEF DropOldFails
  <1>18. ASSUME NEW t \in Tables, LoseTable(t) PROVE I'
    BY <1>a, <1>18 DEF LoseTable
  <1>19. ASSUME UNCHANGED vars PROVE I'
    BY <1>a, <1>19 DEF vars
  <1> HIDE DEF I
  <1>20. I'
    BY ONLY [Next]_vars, <1>1, <1>2, <1>3, <1>4, <1>5, <1>6, <1>7, <1>8, <1>9, <1>10,
       <1>11, <1>12, <1>13, <1>14, <1>15, <1>16, <1>17, <1>18, <1>19, Steps
  <1>21. QED
    BY ONLY <1>b, <1>20 DEF SwapInv, I

\* Nobody commits under a publish, whatever runs next to it: the marker check made for a
\* table, and the staging table it renamed, still hold when the transaction commits.
THEOREM SwapsStayValid == Spec => []SwapStillValid
  <1>1. SwapInv => SwapStillValid
    BY DEF SwapInv
  <1>2. QED
    BY <1>1, SwapInit, SwapNext, PTL DEF Spec

-------------------------------------------------------------------------------
(* Staging, by any number of workers at once: a load holds its relation    *)
(* from before its rows are written until its marker is.                   *)

\* While a table is staged from files that are stable, its fingerprint is that of its file.
Hashes ==
    \A w \in Workers, t \in Tables :
        job[w][t] \in Loading \ {"hash"} => uid[w][t] = Content[release[w]][t]

StagedInv == SwapInv /\ Hashes /\ StagedVouches

\* Every step keeps the staging markers true, if the files are stable.
LEMMA StagedNext == ASSUME StableFiles, StagedInv, [Next]_vars PROVE StagedInv'
  <1> USE NoneAssumption
      DEF Hashes, StagedVouches, Loading, JobState, Receipt, Active, files, database, locks, jobs, TypeOK
  <1> DEFINE J == Hashes /\ StagedVouches
  <1>a. TypeOK /\ LockInv /\ Hashes /\ StagedVouches
    BY DEF StagedInv, SwapInv
  <1>b. SwapInv'
    BY SwapNext DEF StagedInv
  <1>1. ASSUME NEW w \in Workers, StartRun(w) PROVE J'
    BY <1>a, <1>1 DEF StartRun
  <1>2. ASSUME NEW w \in Workers, Replay(w) \/ PublishBegin(w) PROVE J'
    BY <1>a, <1>2 DEF Replay, PublishBegin
  <1>3. ASSUME NEW w \in Workers, PublishNothing(w) \/ PublishReturns(w) PROVE J'
    <2>1. UNCHANGED <<files, database>>
      BY <1>3 DEF PublishNothing, PublishReturns
    <2>2. CASE UNCHANGED jobs
      BY <1>a, <2>1, <2>2
    <2>3. CASE ForgetJobs(w)
      BY <1>a, <2>1, <2>3 DEF ForgetJobs
    <2>4. QED
      BY ONLY <1>3, <2>2, <2>3 DEF PublishNothing, PublishReturns, Return
  <1>4. ASSUME NEW w \in Workers, PublishCommit(w) PROVE J'
    BY <1>a, <1>4 DEF PublishCommit
  <1>5. ASSUME NEW w \in Workers, ReplaceFiles(w) PROVE J'
    <2>1. \A t \in Tables : job[w][t] \notin Loading
      BY <1>a, <1>5 DEF ReplaceFiles, LockInv
    <2>2. QED
      BY <1>a, <1>5, <2>1 DEF ReplaceFiles
  <1>6. ASSUME NEW w \in Workers, Stop(w) PROVE J'
    BY <1>a, <1>6 DEF Stop, ForgetJobs
  <1>7. ASSUME NEW w \in Workers, NEW t \in Tables,
               \/ StageHash(w, t) \/ StageReadMarker(w, t) \/ StageCheckLive(w, t)
               \/ StageReadStaged(w, t) \/ StageCheckStg(w, t) \/ StageOpen(w, t)
        PROVE  J'
    <2> USE DEF JobAt, Goto
    <2>1. CASE StageHash(w, t)
      BY <1>a, <2>1 DEF StageHash
    <2>2. CASE StageReadMarker(w, t)
      BY <1>a, <2>2 DEF StageReadMarker
    <2>3. CASE StageCheckLive(w, t)
      BY <1>a, <2>3 DEF StageCheckLive
    <2>4. CASE StageReadStaged(w, t)
      BY <1>a, <2>4 DEF StageReadStaged
    <2>5. CASE StageCheckStg(w, t)
      BY <1>a, <2>5 DEF StageCheckStg
    <2>6. CASE StageOpen(w, t)
      BY <1>a, <2>6 DEF StageOpen
    <2>7. QED
      BY ONLY <1>7, <2>1, <2>2, <2>3, <2>4, <2>5, <2>6
  <1>8. ASSUME NEW w \in Workers, NEW t \in Tables, StageCommit(w, t) PROVE J'
    <2>1. uid[w][t] = Content[release[w]][t]
      BY <1>a, <1>8 DEF StageCommit, JobAt
    <2>2. StagedVouches'
      BY <1>a, <1>8, <2>1 DEF StageCommit
    <2>3. Hashes'
      BY <1>a, <1>8 DEF StageCommit, Goto
    <2>4. QED
      BY <2>2, <2>3
  <1>9. ASSUME NEW w \in Workers, NEW t \in Tables, PublishSwap(w, t) \/ DropOld(w, t) \/ DropOldFails(w, t)
         PROVE  J'
    BY <1>a, <1>9 DEF PublishSwap, DropOld, DropOldFails
  <1>10. ASSUME NEW t \in Tables, LoseTable(t) PROVE J'
    BY <1>a, <1>10 DEF LoseTable
  <1>11. ASSUME UNCHANGED vars PROVE J'
    BY <1>a, <1>11 DEF vars
  <1> HIDE DEF J
  <1>12. J'
    BY ONLY [Next]_vars, <1>1, <1>2, <1>3, <1>4, <1>5, <1>6, <1>7, <1>8, <1>9, <1>10, <1>11, Steps
  <1>13. QED
    BY ONLY <1>b, <1>12 DEF StagedInv, J

\* The staging marker fingerprints the rows of the staging table, so that stage_table may reuse it and
\* publish_tables may rename it into place: in every deployment with stable files, however many workflows
\* run at once and whatever receipts are published again.
THEOREM StagedMarkersVouch == StableFiles => (Spec => []StagedVouches)
  <1>1. SUFFICES ASSUME StableFiles PROVE Spec => []StagedVouches
    OBVIOUS
  <1>2. Init => StagedInv
    <2>1. ASSUME Init PROVE Hashes /\ StagedVouches
      BY <2>1 DEF Init, Hashes, StagedVouches, Loading, Receipt, JobState
    <2>2. QED
      BY <2>1, SwapInit DEF StagedInv
  <1>3. StagedInv /\ [Next]_vars => StagedInv'
    BY <1>1, StagedNext
  <1>4. StagedInv => StagedVouches
    BY DEF StagedInv
  <1>5. QED
    BY <1>2, <1>3, <1>4, PTL DEF Spec

-------------------------------------------------------------------------------
(* The deployed workflow. *)

\* No worker knows anything at first.
LEMMA DeployedInit == ASSUME Init PROVE IInv
  <1>1. SwapInv
    BY SwapInit
  <1>2. OneActive
    BY DEF Init, OneActive, Active
  <1>3. Knows
    BY DEF Init, Knows, KnowsTable, Active, Hashed
  <1>4. StagedVouches /\ MarkerVouches
    BY DEF Init, StagedVouches, MarkerVouches
  <1>5. QED
    BY <1>1, <1>2, <1>3, <1>4 DEF IInv

\* The invariant is inductive in the deployment.
LEMMA DeployedNext == ASSUME Deployed, IInv, [Next]_vars PROVE IInv'
  <1> USE NoneAssumption, ContentAssumption
      DEF OneActive, Knows, KnowsTable, StagedVouches, MarkerVouches, Hashed, JobState,
          Receipt, Active, files, database, locks, jobs, publication, TypeOK, Deployed
  <1> DEFINE J == OneActive /\ Knows /\ StagedVouches /\ MarkerVouches
  <1>a. /\ TypeOK /\ LockInv /\ SwapStillValid
        /\ OneActive /\ Knows /\ StagedVouches /\ MarkerVouches
    BY DEF IInv, SwapInv
  <1>b. SwapInv'
    BY SwapNext DEF IInv
  <1>1. ASSUME NEW w \in Workers, StartRun(w) PROVE J'
    BY <1>a, <1>1 DEF StartRun, MayRun
  <1>2. ASSUME NEW w \in Workers, PublishBegin(w) PROVE J'
    BY <1>a, <1>2 DEF PublishBegin, Ready, StagedReceipts, AlreadyLive
  <1>3. ASSUME NEW w \in Workers, PublishCommit(w) PROVE J'
    BY <1>a, <1>3 DEF PublishCommit
  <1>4. ASSUME NEW w \in Workers, ReplaceFiles(w) PROVE J'
    BY <1>a, <1>4 DEF ReplaceFiles
  <1>5. ASSUME NEW w \in Workers, Stop(w) PROVE J'
    BY <1>a, <1>5 DEF Stop, ForgetJobs
  <1>6. ASSUME NEW w \in Workers, NEW t \in Tables, StageHash(w, t) PROVE J'
    BY <1>a, <1>6 DEF StageHash, JobAt, Goto
  <1>7. ASSUME NEW w \in Workers, NEW t \in Tables, StageReadMarker(w, t) PROVE J'
    BY <1>a, <1>7 DEF StageReadMarker, JobAt, Goto
  <1>8. ASSUME NEW w \in Workers, NEW t \in Tables, StageCheckLive(w, t) PROVE J'
    BY <1>a, <1>8 DEF StageCheckLive, JobAt, Goto
  <1>9. ASSUME NEW w \in Workers, NEW t \in Tables, StageReadStaged(w, t) PROVE J'
    BY <1>a, <1>9 DEF StageReadStaged, Reusable, JobAt, Goto
  <1>10. ASSUME NEW w \in Workers, NEW t \in Tables, StageCheckStg(w, t) PROVE J'
    BY <1>a, <1>10 DEF StageCheckStg, JobAt, Goto
  <1>11. ASSUME NEW w \in Workers, NEW t \in Tables, StageOpen(w, t) PROVE J'
    BY <1>a, <1>11 DEF StageOpen, JobAt, Goto
  <1>12. ASSUME NEW w \in Workers, NEW t \in Tables, StageCommit(w, t) PROVE J'
    BY <1>a, <1>12 DEF StageCommit, JobAt, Goto
  <1>13. ASSUME NEW w \in Workers, NEW t \in Tables, PublishSwap(w, t) PROVE J'
    BY <1>a, <1>13 DEF PublishSwap
  <1>14. ASSUME NEW w \in Workers, NEW t \in Tables, DropOld(w, t) PROVE J'
    BY <1>a, <1>14 DEF DropOld
  <1>15. ASSUME NEW w \in Workers, NEW t \in Tables, DropOldFails(w, t) PROVE J'
    BY <1>a, <1>15 DEF DropOldFails
  <1>16. ASSUME NEW t \in Tables, LoseTable(t) PROVE J'
    BY <1>a, <1>16 DEF LoseTable
  <1>17. ASSUME NEW w \in Workers, PublishNothing(w) \/ PublishReturns(w) PROVE J'
    <2>1. run' = [run EXCEPT ![w] = "idle"] /\ ForgetJobs(w)
      BY <1>17 DEF PublishNothing, PublishReturns, Return
    <2>2. UNCHANGED <<files, database, locks, publication>>
      BY <1>17 DEF PublishNothing, PublishReturns
    <2>3. QED
      BY <1>a, <2>1, <2>2 DEF ForgetJobs
  <1>18. ASSUME UNCHANGED vars PROVE J'
    BY <1>a, <1>18 DEF vars
  <1>19. ASSUME NEW w \in Workers PROVE ~Replay(w)
    BY DEF Replay
  <1> HIDE DEF J
  <1>20. J'
    BY ONLY [Next]_vars, <1>1, <1>2, <1>3, <1>4, <1>5, <1>6, <1>7, <1>8, <1>9, <1>10,
       <1>11, <1>12, <1>13, <1>14, <1>15, <1>16, <1>17, <1>18, <1>19, Steps
  <1>21. QED
    BY ONLY <1>b, <1>20 DEF IInv, J

-------------------------------------------------------------------------------
(* What the deployed workflow promises. *)

\* In the deployed workflow IInv is an invariant: the markers a run relies on do not move
\* between the stage that reads them and the publish that writes them.
THEOREM DeployedInvariant == Deployed => (Spec => []IInv)
  <1>1. SUFFICES ASSUME Deployed PROVE Spec => []IInv
    OBVIOUS
  <1>2. IInv /\ [Next]_vars => IInv'
    BY <1>1, DeployedNext
  <1>3. QED
    BY <1>2, DeployedInit, PTL DEF Spec

\* The marker of a public table fingerprints the rows it holds, so that is_current and
\* _demote_published may trust it without reading the table.
THEOREM MarkersVouch == Deployed => (Spec => []MarkerVouches)
  <1>1. IInv => MarkerVouches
    BY DEF IInv
  <1>2. QED
    BY <1>1, DeployedInvariant, PTL

\* Only PublishCommit ends a publish in "cleaning".
LEMMA CommitStep ==
    ASSUME TypeOK, Next, NEW w \in Workers, run[w] = "publishing", run'[w] = "cleaning"
    PROVE  PublishCommit(w)
  <1> USE DEF TypeOK, jobs
  <1>1. ASSUME NEW v \in Workers, StartRun(v) PROVE FALSE
    BY <1>1 DEF StartRun, Active
  <1>2. ASSUME NEW v \in Workers, Replay(v) PROVE FALSE
    BY <1>2 DEF Replay
  <1>3. ASSUME NEW v \in Workers, PublishNothing(v) \/ PublishReturns(v) PROVE FALSE
    <2>1. run' = [run EXCEPT ![v] = "published"] \/ run' = [run EXCEPT ![v] = "idle"]
      BY <1>3 DEF PublishNothing, PublishReturns, Return
    <2>2. QED
      BY <2>1
  <1>4. ASSUME NEW v \in Workers, PublishBegin(v) PROVE FALSE
    BY <1>4 DEF PublishBegin
  <1>5. ASSUME NEW v \in Workers, PublishCommit(v) PROVE PublishCommit(w)
    BY <1>5 DEF PublishCommit
  <1>6. ASSUME NEW v \in Workers, Stop(v) PROVE FALSE
    BY <1>6 DEF Stop
  <1>7. ASSUME UNCHANGED run PROVE FALSE
    BY <1>7
  <1>8. ASSUME NEW v \in Workers, ReplaceFiles(v) PROVE UNCHANGED run
    BY <1>8 DEF ReplaceFiles
  <1>9. ASSUME NEW v \in Workers, NEW t \in Tables,
               \/ StageHash(v, t) \/ StageReadMarker(v, t) \/ StageCheckLive(v, t)
               \/ StageReadStaged(v, t) \/ StageCheckStg(v, t) \/ StageOpen(v, t)
               \/ StageCommit(v, t) \/ PublishSwap(v, t) \/ DropOld(v, t)
               \/ DropOldFails(v, t)
        PROVE  UNCHANGED run
    BY <1>9 DEF StageHash, StageReadMarker, StageCheckLive, StageReadStaged, StageCheckStg,
               StageOpen, StageCommit, PublishSwap, DropOld, DropOldFails
  <1>10. ASSUME NEW t \in Tables, LoseTable(t) PROVE UNCHANGED run
    BY <1>10 DEF LoseTable
  <1>11. QED
    BY ONLY Next, <1>1, <1>2, <1>3, <1>4, <1>5, <1>6, <1>7, <1>8, <1>9, <1>10, Steps

\* A publish that commits leaves every table it was given at the marker of its receipt.
THEOREM PublishIsWhole == Deployed => (Spec => NoPartialState)
  <1>1. SUFFICES ASSUME Deployed PROVE Spec => NoPartialState
    OBVIOUS
  <1> DEFINE Whole == \A w \in Workers :
                 run[w] = "publishing" /\ run'[w] = "cleaning" =>
                     \A t \in Tables : marker'[t] = uid[w][t]
  <1>2. ASSUME IInv, [Next]_vars PROVE [Whole]_vars
    <2>1. SUFFICES ASSUME Next, NEW w \in Workers,
                          run[w] = "publishing", run'[w] = "cleaning"
                   PROVE  \A t \in Tables : marker'[t] = uid[w][t]
      BY <1>2
    <2>2. PublishCommit(w)
      BY <1>2, <2>1, CommitStep DEF IInv, SwapInv
    <2>3. QED
      BY <1>2, <2>1, <2>2 DEF PublishCommit, IInv, Knows, KnowsTable
  <1>3. Spec => []IInv
    BY <1>1, DeployedInvariant
  <1>4. QED
    BY <1>2, <1>3, PTL DEF Spec, NoPartialState

\* Each step of the workflow publishes one whole release, loses a table, or changes nothing
\* a reader sees.
LEMMA StepImplements ==
    ASSUME IInv, [Next]_vars PROVE [Publication!Next]_live
  <1> USE DEF files, database, locks, publication
  <1>a. TypeOK /\ LockInv /\ SwapStillValid /\ Knows /\ StagedVouches /\ MarkerVouches
    BY DEF IInv, SwapInv
  <1> DEFINE Shown == Publication!Next \/ UNCHANGED live
  <1>1. ASSUME NEW w \in Workers, PublishCommit(w) PROVE Shown
    <2> DEFINE r == release[w]
               S == swapped[w]
    <2>1. r \in Releases /\ S \in SUBSET Tables
      BY <1>a DEF TypeOK
    <2>2. \A t \in Tables : uid[w][t] = Content[r][t]
      BY <1>a, <1>1 DEF PublishCommit, Knows, KnowsTable, Active, Hashed, JobState, Receipt
    <2>3. \A t \in Tables \ S : live[t] \in {None, Content[r][t]}
      BY <1>a, <1>1, <2>2 DEF PublishCommit, Knows, KnowsTable, MarkerVouches
    <2>4. \A t \in S : stg[t] = Content[r][t]
      BY <1>a, <1>1, <2>1, <2>2
         DEF LockInv, SwapStillValid, StagedVouches, PublishCommit, Knows, KnowsTable
    <2>5. live' = [t \in Tables |-> IF t \in S THEN Content[r][t] ELSE live[t]]
      BY <1>1, <2>4 DEF PublishCommit
    <2> HIDE DEF r, S
    <2>6. Publication!Publish(r, S)
      BY <2>3, <2>5 DEF Publication!Publish
    <2>7. QED
      BY <2>1, <2>6 DEF Publication!Next
  <1>2. ASSUME NEW t \in Tables, LoseTable(t) PROVE Shown
    BY <1>2 DEF LoseTable, Publication!Next, Publication!Lose
  <1>3. ASSUME NEW w \in Workers,
               \/ StartRun(w) \/ Replay(w) \/ PublishNothing(w) \/ PublishBegin(w)
               \/ PublishReturns(w) \/ ReplaceFiles(w) \/ Stop(w)
        PROVE  UNCHANGED live
    BY <1>3 DEF StartRun, Replay, PublishNothing, PublishBegin, PublishReturns, ReplaceFiles,
               Stop
  <1>4. ASSUME NEW w \in Workers, NEW t \in Tables,
               \/ StageHash(w, t) \/ StageReadMarker(w, t) \/ StageCheckLive(w, t)
               \/ StageReadStaged(w, t) \/ StageCheckStg(w, t) \/ StageOpen(w, t)
               \/ StageCommit(w, t) \/ PublishSwap(w, t) \/ DropOld(w, t)
               \/ DropOldFails(w, t)
        PROVE  UNCHANGED live
    BY <1>4 DEF StageHash, StageReadMarker, StageCheckLive, StageReadStaged, StageCheckStg,
               StageOpen, StageCommit, PublishSwap, DropOld, DropOldFails
  <1>5. ASSUME UNCHANGED vars PROVE UNCHANGED live
    BY <1>5 DEF vars
  <1>6. QED
    BY ONLY [Next]_vars, <1>1, <1>2, <1>3, <1>4, <1>5, Steps

\* Readers see whole releases: the deployed workflow implements ReleasePublication.
THEOREM DeployedImplementsRelease == Deployed => (Spec => ImplementsRelease)
  <1>1. SUFFICES ASSUME Deployed PROVE Spec => ImplementsRelease
    OBVIOUS
  <1>2. Init => Publication!Init
    BY DEF Init, Publication!Init
  <1>3. IInv /\ [Next]_vars => [Publication!Next]_live
    BY StepImplements
  <1>4. Spec => []IInv
    BY <1>1, DeployedInvariant
  <1>5. QED
    BY <1>2, <1>3, <1>4, PTL DEF Spec, ImplementsRelease, Publication!Spec
===============================================================================
