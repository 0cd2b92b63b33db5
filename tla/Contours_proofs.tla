--------------------------- MODULE Contours_proofs ----------------------------
(***************************************************************************)
(* Theorems about Contours for every set of datasets and versions, keyed   *)
(* or not, on PostgreSQL and on DuckDB, whatever is lost.                  *)
(***************************************************************************)
EXTENDS Contours, TLAPS

\* The staging contours are both there or both gone; markers name the rows under them.
ContoursVouch ==
    /\ contourMarker # None => parts \in {contourMarker, None} /\ (Keyed => zone \in {contourMarker, None})
    /\ contourMarker = None => parts = None /\ (Keyed => zone = None)
    /\ stgParts # None => stgParts = stagedContour
    /\ Keyed => stgZone = stgParts

\* A fact table has the rows its marker names, and keys to the zones its marker names, or none.
Vouched(table, mark, d) ==
    table[d] # None => /\ table[d].rows = mark[d][1]
                       /\ table[d].key # Unkeyed => Postgres /\ table[d].key.zone = mark[d][2]

FactsVouch == \A d \in Datasets : Vouched(facts, datasetMarker, d) /\ Vouched(stgFacts, stagedDataset, d)

\* A run is over all datasets, or one alone; its receipts are about the sources as they are,
\* none of which it rejects.
RunSound ==
    /\ passed \in {{}, Datasets} \union {{d} : d \in Alone}
    /\ \A d \in passed :
        /\ contourReceipt[d] # None =>
            /\ contourReceipt[d].version = contourSource
            /\ Wanted(d) \notin Orphaned
            /\ contourReceipt[d].status = "staged" => stgParts = contourSource
            /\ contourReceipt[d].status = "current" => contourMarker = contourSource
        /\ receipt[d] # None =>
            /\ contourReceipt[d] # None
            /\ receipt[d].version = Wanted(d)
            /\ receipt[d].status = "staged" => stagedDataset[d] = Wanted(d)
            /\ receipt[d].status = "current" => datasetMarker[d] = Wanted(d)

\* Nothing rejected is published, and a view on PostgreSQL is over what its marker names.
PublishedSound ==
    \A d \in Datasets :
        /\ datasetMarker[d] # None => datasetMarker[d] \notin Orphaned
        /\ IsView(d) => /\ datasetMarker[d] \in (Versions \X Versions) \ Orphaned
                        /\ Postgres => view[d].facts = datasetMarker[d][1] /\ view[d].parts = datasetMarker[d][2]

\* Where every run publishes all datasets, they are all over the same contours.
OverTheSame ==
    Alone = {} => \A d \in Datasets :
        datasetMarker[d] \in Versions \X Versions /\ parts # None => parts = datasetMarker[d][2]

IInv == TypeOK /\ ContoursVouch /\ FactsVouch /\ RunSound /\ PublishedSound /\ OverTheSame

-------------------------------------------------------------------------------
(* Tables and their keys *)

\* A table is as it was but for where its key points, if it still has it.
SameRows(new, old) ==
    /\ new \in OrNone(Compact)
    /\ new # None =>
        /\ old # None
        /\ new.rows = old.rows
        /\ new.key # Unkeyed => old.key # Unkeyed /\ new.key.zone = old.key.zone

\* The key of a table follows the zones it is to when these are renamed.
LEMMA FollowKeeps ==
    ASSUME NEW table \in [Datasets -> OrNone(Compact)], NEW d \in Datasets
    PROVE  /\ SameRows(Follow(table, d), table[d])
           /\ Follow(table, d) # None /\ Follow(table, d).key.at = "staged" =>
                  table[d] # None /\ table[d].key.at = "staged" /\ (ToSwap = {} \/ ~Keyed)
  <1>1. CASE Follow(table, d) = table[d] /\ (ToSwap = {} \/ table[d] = None \/ ~Keyed)
    BY <1>1 DEF SameRows
  <1>2. CASE table[d] # None /\ Follow(table, d) = [table[d] EXCEPT !.key.at = KeyAfterSwap(table[d].key.at)]
    <2>1. PICK at, rows, held : /\ rows \in Versions
                                /\ held \in Versions \union {None}
                                /\ table[d] = [rows |-> rows, key |-> [at |-> at, zone |-> held]]
                                /\ [at |-> at, zone |-> held] \in Keys
      <3>1. table[d] \in Compact
        BY <1>2 DEF OrNone
      <3>2. /\ table[d].rows \in Versions /\ table[d].key \in Keys
            /\ table[d] = [rows |-> table[d].rows, key |-> table[d].key]
        BY <3>1 DEF Compact
      <3>3. /\ table[d].key.zone \in Versions \union {None}
            /\ table[d].key = [at |-> table[d].key.at, zone |-> table[d].key.zone]
        BY <3>2 DEF Keys, Unkeyed
      <3>4. QED
        BY <3>2, <3>3
    <2>2. Follow(table, d) = [rows |-> rows, key |-> [at |-> KeyAfterSwap(at), zone |-> held]]
      BY <1>2, <2>1
    <2>3. \/ at = "none" /\ held = None /\ KeyAfterSwap(at) = "none"
          \/ at \in {"live", "staged", "old"} /\ held \in Versions /\ KeyAfterSwap(at) \in {"live", "old"}
      BY <2>1 DEF Keys, Unkeyed, KeyAfterSwap
    <2>4. [at |-> KeyAfterSwap(at), zone |-> held] \in Keys
      BY <2>3 DEF Keys, Unkeyed
    <2>5. [at |-> KeyAfterSwap(at), zone |-> held] # Unkeyed => [at |-> at, zone |-> held] # Unkeyed
      BY <2>3, ValuesAssumption DEF Unkeyed
    <2>6. KeyAfterSwap(at) # "staged"
      BY <2>3
    <2>7. QED
      BY <1>2, <2>1, <2>2, <2>4, <2>5, <2>6 DEF SameRows, Compact, OrNone
  <1>3. QED
    BY <1>1, <1>2 DEF Follow

\* Dropping the public zones takes the keys to them.
LEMMA WithoutKeyKeeps ==
    ASSUME NEW table \in [Datasets -> OrNone(Compact)], NEW d \in Datasets
    PROVE  /\ SameRows(WithoutKey(table)[d], table[d])
           /\ WithoutKey(table)[d] # None /\ WithoutKey(table)[d].key.at = "staged" =>
                  table[d] # None /\ table[d].key.at = "staged"
  <1>1. CASE d \in Referencing(table, "live")
    <2>1. table[d] # None /\ table[d] \in Compact
      BY <1>1 DEF Referencing, OrNone
    <2>2. WithoutKey(table)[d] = [rows |-> table[d].rows, key |-> Unkeyed] /\ table[d].rows \in Versions
      BY <1>1, <2>1 DEF WithoutKey, Compact
    <2>3. Unkeyed \in Keys /\ Unkeyed.at # "staged"
      BY DEF Unkeyed, Keys
    <2>4. QED
      BY <2>1, <2>2, <2>3 DEF SameRows, Compact, OrNone
  <1>2. CASE d \notin Referencing(table, "live")
    BY <1>2 DEF WithoutKey, SameRows
  <1>3. QED
    BY <1>1, <1>2

\* What a dataset marker vouches for stays so whatever becomes of the keys.
LEMMA VouchedKept ==
    ASSUME NEW d \in Datasets, NEW old, NEW new, SameRows(new, old), NEW mark,
           old # None => /\ old.rows = mark[1]
                         /\ old.key # Unkeyed => Postgres /\ old.key.zone = mark[2]
    PROVE  new # None => /\ new.rows = mark[1]
                         /\ new.key # Unkeyed => Postgres /\ new.key.zone = mark[2]
  BY DEF SameRows

-------------------------------------------------------------------------------
(* Staging *)

\* A run is started with no receipts yet.
LEMMA StartRunStep ==
    ASSUME IInv, NEW S \in {Datasets} \union {{d} : d \in Alone}, StartRun(S)
    PROVE  IInv'
  <1>1. S \subseteq Datasets
    BY AloneAssumption
  <1>2. TypeOK'
    BY <1>1 DEF IInv, TypeOK, StartRun, sources, contourVars, stgContourVars, datasetVars, stgFactVars,
                Nothing, OrNone
  <1>3. RunSound'
    BY <1>1 DEF IInv, StartRun, RunSound, Nothing
  <1>4. QED
    BY <1>2, <1>3 DEF IInv, StartRun, ContoursVouch, FactsVouch, Vouched, PublishedSound, OverTheSame, IsView,
                      sources, contourVars, stgContourVars, datasetVars, stgFactVars

\* The contours of a dataset that lacks none of them are staged, or as they were staged.
LEMMA StageContoursStep == ASSUME IInv, NEW d \in Datasets, StageContours(d) PROVE IInv'
  <1>1. /\ d \in passed
        /\ UNCHANGED <<sources, contourVars, datasetVars, stgFactVars, passed, receipt, calm>>
        /\ contourReceipt' = [contourReceipt EXCEPT ![d] =
               [status |-> IF ContoursCurrent THEN "current" ELSE "staged",
                version |-> contourSource, from |-> None]]
    BY DEF StageContours
  <1>2. \/ UNCHANGED stgContourVars /\ (ContoursCurrent \/ ContoursReusable)
        \/ /\ stgParts' = contourSource /\ stagedContour' = contourSource
           /\ stgZone' = IF Keyed THEN contourSource ELSE stgZone
    BY DEF StageContours
  <1>3. contourSource \in Versions /\ contourSource # None
    BY ValuesAssumption DEF IInv, TypeOK
  <1>4. /\ stgParts' = stgParts \/ stgParts' = contourSource
        /\ ContoursCurrent \/ stgParts' = contourSource
    BY <1>2 DEF stgContourVars, ContoursReusable, IInv, ContoursVouch
  <1>5. ContoursVouch'
    BY <1>1, <1>2 DEF contourVars, stgContourVars, IInv, ContoursVouch
  <1>6. Wanted(d) \notin Orphaned
    BY DEF StageContours, Rejected, IsCurrent, Intact, IInv, PublishedSound
  <1>7. TypeOK'
    <2>1. /\ [status |-> "current", version |-> contourSource, from |-> None] \in Staging(Versions)
          /\ [status |-> "staged", version |-> contourSource, from |-> None] \in Staging(Versions)
      BY <1>3 DEF Staging, OrNone
    <2>2. contourReceipt' \in [Datasets -> OrNone(Staging(Versions))]
      BY <1>1, <2>1 DEF IInv, TypeOK, OrNone
    <2>3. {stgZone', stgParts', stagedContour'} \subseteq OrNone(Versions) /\ (stgZone # None => stgZone' # None)
      BY <1>2, <1>3 DEF IInv, TypeOK, OrNone, stgContourVars
    <2>4. QED
      BY <1>1, <2>2, <2>3 DEF IInv, TypeOK, sources, contourVars, datasetVars, stgFactVars
  <1>8. RunSound'
    <2>1. ASSUME NEW e \in passed, e # d PROVE contourReceipt'[e] = contourReceipt[e]
      BY <1>1, <2>1 DEF IInv, TypeOK
    <2>2. /\ contourReceipt'[d].version = contourSource
          /\ contourReceipt'[d].status = "staged" => ~ContoursCurrent
          /\ contourReceipt'[d].status = "current" => ContoursCurrent
      BY <1>1 DEF IInv, TypeOK
    <2>3. contourReceipt[d] = None
      BY DEF StageContours
    <2>4. QED
      BY <1>1, <1>4, <1>6, <2>1, <2>2, <2>3 DEF IInv, RunSound, ContoursCurrent, Wanted, sources, contourVars,
                                          datasetVars, stgFactVars
  <1>9. QED
    BY <1>1, <1>5, <1>7, <1>8 DEF IInv, FactsVouch, Vouched, PublishedSound, OverTheSame, IsView,
                                 contourVars, datasetVars, stgFactVars

\* Facts are staged from the source, with keys to the contours of the source.
LEMMA StageFactsStep == ASSUME IInv, NEW d \in Datasets, StageFacts(d) PROVE IInv'
  <1>1. /\ contourReceipt[d] # None /\ receipt[d] = None
        /\ UNCHANGED <<sources, contourVars, stgContourVars, datasetVars, passed, contourReceipt, calm>>
        /\ receipt' = [receipt EXCEPT ![d] =
               [status |-> IF IsCurrent(d) THEN "current" ELSE "staged",
                version |-> Wanted(d), from |-> datasetMarker[d]]]
    BY DEF StageFacts
  <1> DEFINE key == IF Keyed /\ Postgres THEN ZoneReference ELSE Unkeyed
  <1>2. \/ UNCHANGED stgFactVars /\ (IsCurrent(d) \/ FactsReusable(d))
        \/ /\ Keyed /\ Postgres => ZoneReference.zone # None
           /\ stgFacts' = [stgFacts EXCEPT ![d] = [rows |-> factSource[d], key |-> key]]
           /\ stagedDataset' = [stagedDataset EXCEPT ![d] = Wanted(d)]
    BY DEF StageFacts
  <1>3. Wanted(d) \in Versions \X Versions /\ factSource[d] \in Versions /\ contourSource \in Versions
    BY DEF Wanted, IInv, TypeOK
  <1>4. ASSUME Keyed /\ Postgres => ZoneReference.zone # None
        PROVE  /\ key \in Keys
               /\ key # Unkeyed => Postgres /\ key.zone = contourSource
               /\ key.at = "staged" => stgZone # None
    <2>1. Unkeyed \in Keys /\ Unkeyed.at # "staged" /\ Unkeyed.zone = None
      BY DEF Unkeyed, Keys
    <2>2. CASE ~(Keyed /\ Postgres)
      BY <2>1, <2>2
    <2>3. CASE Keyed /\ Postgres
      <3>1. \/ ZoneReference = [at |-> "live", zone |-> zone] /\ contourMarker = contourSource
            \/ ZoneReference = [at |-> "staged", zone |-> stgZone] /\ stagedContour = contourSource
            \/ ZoneReference = Unkeyed
        BY DEF ZoneReference
      <3>2. key = ZoneReference
        BY <2>3
      <3>3. ZoneReference.zone = contourSource
        <4>1. zone # None /\ contourMarker = contourSource => zone = contourSource
          BY <1>3, <2>3, ValuesAssumption DEF IInv, ContoursVouch
        <4>2. stgZone # None /\ stagedContour = contourSource => stgZone = contourSource
          BY <2>3 DEF IInv, ContoursVouch
        <4>3. QED
          BY <1>4, <2>1, <2>3, <3>1, <4>1, <4>2
      <3>4. ZoneReference \in Keys /\ (ZoneReference.at = "staged" => stgZone # None)
        BY <1>3, <2>1, <3>1, <3>3, ValuesAssumption DEF Keys
      <3>5. QED
        BY <2>3, <3>2, <3>3, <3>4
    <2>4. QED
      BY <2>2, <2>3
  <1> HIDE DEF key
  <1>5. TypeOK'
    <2>1. [rows |-> factSource[d], key |-> key] \in Compact \/ UNCHANGED stgFactVars
      BY <1>2, <1>3, <1>4 DEF Compact
    <2>2. stgFacts' \in [Datasets -> OrNone(Compact)]
      BY <1>2, <2>1 DEF stgFactVars, IInv, TypeOK, OrNone
    <2>3. stagedDataset' \in [Datasets -> OrNone(Versions \X Versions)]
      BY <1>2, <1>3 DEF stgFactVars, IInv, TypeOK, OrNone
    <2>4. receipt' \in [Datasets -> OrNone(Staging(Versions \X Versions))]
      <3>1. datasetMarker[d] \in OrNone(Versions \X Versions)
        BY DEF IInv, TypeOK
      <3>2. \A s \in {"current", "staged"} :
                [status |-> s, version |-> Wanted(d), from |-> datasetMarker[d]] \in Staging(Versions \X Versions)
        BY <1>3, <3>1 DEF Staging
      <3>3. QED
        BY <1>1, <3>2 DEF IInv, TypeOK, OrNone
    <2>5. ASSUME NEW e \in Datasets, stgFacts'[e] # None, stgFacts'[e].key.at = "staged" PROVE stgZone # None
      <3>1. CASE stgFacts'[e] = stgFacts[e]
        BY <2>5, <3>1 DEF IInv, TypeOK
      <3>2. CASE stgFacts'[e] # stgFacts[e]
        BY <1>2, <1>4, <2>5, <3>2 DEF stgFactVars, IInv, TypeOK
      <3>3. QED
        BY <3>1, <3>2
    <2>6. QED
      BY <1>1, <2>2, <2>3, <2>4, <2>5 DEF IInv, TypeOK, sources, contourVars, stgContourVars, datasetVars
  <1>6. FactsVouch'
    <2>1. ASSUME NEW e \in Datasets PROVE Vouched(stgFacts, stagedDataset, e)'
      <3>1. CASE stgFacts'[e] = stgFacts[e] /\ stagedDataset'[e] = stagedDataset[e]
        BY <3>1 DEF IInv, FactsVouch, Vouched
      <3>2. CASE /\ Keyed /\ Postgres => ZoneReference.zone # None
                 /\ stgFacts'[e] = [rows |-> factSource[d], key |-> key]
                 /\ stagedDataset'[e] = Wanted(d)
        BY <1>4, <3>2 DEF Vouched, Wanted
      <3>3. QED
        BY <1>2, <3>1, <3>2 DEF stgFactVars, IInv, TypeOK
    <2>2. QED
      BY <1>1, <2>1 DEF FactsVouch, Vouched, datasetVars, IInv
  <1>7. RunSound'
    <2>1. ASSUME NEW e \in passed, e # d PROVE receipt'[e] = receipt[e] /\ stagedDataset'[e] = stagedDataset[e]
      BY <1>1, <1>2, <2>1 DEF stgFactVars, IInv, TypeOK
    <2>2. /\ receipt'[d].version = Wanted(d)
          /\ receipt'[d].status = "staged" => ~IsCurrent(d)
          /\ receipt'[d].status = "current" => IsCurrent(d)
      BY <1>1 DEF IInv, TypeOK
    <2>3. IsCurrent(d) \/ stagedDataset'[d] = Wanted(d)
      BY <1>2 DEF FactsReusable, stgFactVars, IInv, TypeOK
    <2>4. d \in passed => Wanted(d) \notin Orphaned
      BY <1>1 DEF IInv, RunSound
    <2>5. QED
      BY <1>1, <2>1, <2>2, <2>3, <2>4 DEF IInv, RunSound, Wanted, IsCurrent, sources, contourVars, stgContourVars,
                                    datasetVars
  <1>8. QED
    BY <1>1, <1>5, <1>6, <1>7 DEF IInv, ContoursVouch, PublishedSound, OverTheSame, IsView, contourVars,
                                 stgContourVars, datasetVars

-------------------------------------------------------------------------------
(* Publishing *)

\* Whatever is swapped and restaged, the marker and the contours left by a publish are those of
\* the source wherever one of its datasets was passed.
LEMMA ContoursAfterPublish ==
    ASSUME IInv, Publish
    PROVE  /\ ContoursVouch'
           /\ contourMarker' = contourSource
           /\ parts' \in {contourSource, None}
           /\ ToRestage # {} => parts' = contourSource
           /\ {zone', parts', stgZone', stgParts', contourMarker'} \subseteq OrNone(Versions)
           /\ ToSwap = {} \/ ~Keyed => stgZone' = stgZone
  <1>1. /\ passed # {} /\ passed \subseteq Datasets /\ contourSource \in Versions /\ contourSource # None
        /\ \A d \in passed : receipt[d] # None /\ contourReceipt[d] # None
        /\ UNCHANGED <<sources, stagedContour>>
    BY ValuesAssumption DEF Publish, AllStaged, IInv, TypeOK, RunSound
  <1>2. CASE ToSwap = {}
    <2>1. UNCHANGED <<contourVars, stgZone, stgParts>>
      BY <1>2 DEF Publish, SwapContours
    <2>2. PICK d \in passed : ~StillStaged(contourReceipt[d], contourMarker, parts # None)
      BY <1>1, <1>2 DEF ToSwap
    <2>3. contourReceipt[d].status \in {"current", "staged"} /\ contourReceipt[d].version = contourSource
      BY <1>1 DEF IInv, TypeOK, OrNone, Staging, RunSound
    <2>4. contourMarker = contourSource
      BY <1>1, <2>2, <2>3 DEF StillStaged, IInv, RunSound
    <2>5. ToRestage # {} => parts # None
      BY <1>2 DEF Publish, Publishable
    <2>6. QED
      BY <1>1, <2>1, <2>4, <2>5 DEF contourVars, IInv, ContoursVouch, TypeOK
  <1>3. CASE ToSwap # {}
    <2>1. /\ parts' = stgParts /\ stgParts' = None
          /\ IF Keyed THEN zone' = stgZone /\ stgZone' = None ELSE UNCHANGED <<zone, stgZone>>
          /\ \E r \in ToSwap : contourMarker' = r.version
          /\ stgParts # None /\ (Keyed => stgZone # None)
      BY <1>3 DEF Publish, SwapContours, Publishable
    <2>2. PICK d \in passed : /\ contourReceipt[d].status = "staged"
                              /\ contourMarker' = contourReceipt[d].version
      BY <2>1 DEF ToSwap, StillStaged
    <2>3. contourMarker' = contourSource /\ stgParts = contourSource
      BY <1>1, <2>2 DEF IInv, RunSound
    <2>4. QED
      BY <1>1, <1>3, <2>1, <2>3 DEF IInv, ContoursVouch, TypeOK, OrNone
  <1>4. QED
    BY <1>2, <1>3

\* What a publish leaves of a dataset: restaged, it is the source's; else it is as it was.
LEMMA DatasetAfterPublish ==
    ASSUME IInv, Publish, NEW d \in Datasets
    PROVE  /\ \/ /\ d \in ToRestage
                 /\ datasetMarker'[d] = Wanted(d)
                 /\ Wanted(d) \in (Versions \X Versions) \ Orphaned
                 /\ stagedDataset[d] = Wanted(d)
                 /\ stgFacts[d] # None /\ SameRows(facts'[d], stgFacts[d])
                 /\ stgFacts'[d] = None
                 /\ view'[d] = [facts |-> factSource[d], parts |-> contourSource, over |-> "live"]
              \/ /\ d \notin ToRestage
                 /\ datasetMarker'[d] = datasetMarker[d]
                 /\ SameRows(facts'[d], facts[d]) /\ SameRows(stgFacts'[d], stgFacts[d])
                 /\ \/ view'[d] = view[d]
                    \/ IsView(d) /\ view'[d] = [view[d] EXCEPT !.over = "old"]
           /\ d \in passed => datasetMarker'[d] = Wanted(d)
           /\ stgFacts'[d] # None /\ stgFacts'[d].key.at = "staged" =>
                  stgFacts[d] # None /\ stgFacts[d].key.at = "staged" /\ (ToSwap = {} \/ ~Keyed)
  <1>1. /\ facts \in [Datasets -> OrNone(Compact)] /\ stgFacts \in [Datasets -> OrNone(Compact)]
        /\ passed \subseteq Datasets /\ \A e \in passed : receipt[e] # None
    BY DEF IInv, TypeOK, Publish, AllStaged
  <1>2. /\ SameRows(Follow(stgFacts, d), stgFacts[d]) /\ SameRows(Follow(facts, d), facts[d])
        /\ Follow(stgFacts, d) # None /\ Follow(stgFacts, d).key.at = "staged" =>
               stgFacts[d] # None /\ stgFacts[d].key.at = "staged" /\ (ToSwap = {} \/ ~Keyed)
    BY <1>1, FollowKeeps
  <1>3. /\ facts'[d] = IF d \in ToRestage THEN Follow(stgFacts, d) ELSE Follow(facts, d)
        /\ stgFacts'[d] = IF d \in ToRestage THEN None ELSE Follow(stgFacts, d)
        /\ view'[d] = IF d \in ToRestage THEN NewView(d)
                      ELSE IF IsView(d) /\ ToSwap # {} THEN [view[d] EXCEPT !.over = "old"] ELSE view[d]
        /\ datasetMarker'[d] = IF d \in ToRestage THEN receipt[d].version ELSE datasetMarker[d]
    BY DEF Publish
  <1>4. CASE d \in ToRestage
    <2>1. d \in passed /\ receipt[d].status = "staged"
      BY <1>4 DEF ToRestage, StillStaged
    <2>2. receipt[d].version = Wanted(d) /\ Wanted(d) \notin Orphaned /\ stagedDataset[d] = Wanted(d)
      BY <1>1, <2>1 DEF IInv, RunSound
    <2>3. stgFacts[d] # None /\ stgFacts[d].rows = factSource[d]
      BY <1>4, <2>2 DEF Publish, Publishable, IInv, FactsVouch, Vouched, Wanted
    <2>4. parts' = contourSource
      BY <1>4, ContoursAfterPublish
    <2>5. Wanted(d) \in Versions \X Versions
      BY DEF Wanted, IInv, TypeOK
    <2>6. view'[d] = [facts |-> factSource[d], parts |-> contourSource, over |-> "live"]
      BY <1>3, <1>4, <2>3, <2>4 DEF NewView
    <2>7. QED
      BY <1>2, <1>3, <1>4, <2>2, <2>3, <2>5, <2>6
  <1>5. CASE d \notin ToRestage
    <2>1. d \in passed => datasetMarker[d] = Wanted(d)
      <3>1. ASSUME d \in passed PROVE datasetMarker[d] = Wanted(d)
        <4>1. receipt[d].status \in {"current", "staged"} /\ receipt[d].version = Wanted(d)
          BY <1>1, <3>1 DEF IInv, TypeOK, OrNone, Staging, RunSound
        <4>2. QED
          BY <1>1, <1>5, <3>1, <4>1 DEF ToRestage, StillStaged, IInv, RunSound
      <3>2. QED
        BY <3>1
    <2>2. QED
      BY <1>2, <1>3, <1>5, <2>1
  <1>6. QED
    BY <1>4, <1>5

\* A publish leaves every table vouched for, and every view over what its marker names.
LEMMA PublishStep == ASSUME IInv, Publish PROVE IInv'
  <1>1. /\ passed' = {}
        /\ UNCHANGED <<sources, stagedContour, stagedDataset, contourReceipt, receipt, calm>>
    BY DEF Publish
  <1>2. /\ DOMAIN facts' = Datasets /\ facts' = [d \in Datasets |-> facts'[d]]
        /\ DOMAIN stgFacts' = Datasets /\ stgFacts' = [d \in Datasets |-> stgFacts'[d]]
        /\ DOMAIN view' = Datasets /\ view' = [d \in Datasets |-> view'[d]]
        /\ DOMAIN datasetMarker' = Datasets /\ datasetMarker' = [d \in Datasets |-> datasetMarker'[d]]
    BY DEF Publish
  <1>3. \A d \in Datasets : IsView(d) => view[d] \in View
    BY DEF IsView, IInv, TypeOK
  <1>4. TypeOK'
    <2>1. \A d \in Datasets : facts'[d] \in OrNone(Compact) /\ stgFacts'[d] \in OrNone(Compact)
      BY DatasetAfterPublish DEF SameRows, OrNone
    <2>2. \A d \in Datasets : datasetMarker'[d] \in OrNone(Versions \X Versions)
      BY DatasetAfterPublish DEF IInv, TypeOK, OrNone
    <2>3. ASSUME NEW d \in Datasets PROVE view'[d] \in View \union {None, Flat}
      <3>1. [facts |-> factSource[d], parts |-> contourSource, over |-> "live"] \in View
        BY DEF View, IInv, TypeOK
      <3>2. view[d] \in View => [view[d] EXCEPT !.over = "old"] \in View
        BY DEF View
      <3>3. QED
        BY <1>3, <3>1, <3>2, DatasetAfterPublish DEF IInv, TypeOK
    <2>4. ASSUME NEW d \in Datasets, stgFacts'[d] # None, stgFacts'[d].key.at = "staged" PROVE stgZone' # None
      BY <2>4, DatasetAfterPublish, ContoursAfterPublish DEF IInv, TypeOK
    <2>5. {zone', parts', stgZone', stgParts', contourMarker'} \subseteq OrNone(Versions)
      BY ContoursAfterPublish
    <2>6. /\ facts' \in [Datasets -> OrNone(Compact)] /\ stgFacts' \in [Datasets -> OrNone(Compact)]
          /\ datasetMarker' \in [Datasets -> OrNone(Versions \X Versions)]
          /\ view' \in [Datasets -> View \union {None, Flat}]
      BY <1>2, <2>1, <2>2, <2>3
    <2>7. QED
      BY <1>1, <2>4, <2>5, <2>6 DEF IInv, TypeOK, sources
  <1>5. FactsVouch'
    <2>1. ASSUME NEW d \in Datasets
          PROVE  Vouched(facts, datasetMarker, d)' /\ Vouched(stgFacts, stagedDataset, d)'
      <3>1. Vouched(facts, datasetMarker, d) /\ Vouched(stgFacts, stagedDataset, d)
        BY DEF IInv, FactsVouch
      <3>2. CASE /\ datasetMarker'[d] = stagedDataset[d]
                 /\ SameRows(facts'[d], stgFacts[d]) /\ stgFacts'[d] = None
        BY <1>1, <3>1, <3>2, VouchedKept DEF Vouched
      <3>3. CASE /\ datasetMarker'[d] = datasetMarker[d]
                 /\ SameRows(facts'[d], facts[d]) /\ SameRows(stgFacts'[d], stgFacts[d])
        BY <1>1, <3>1, <3>3, VouchedKept DEF Vouched
      <3>4. QED
        BY <3>2, <3>3, DatasetAfterPublish
    <2>2. QED
      BY <2>1 DEF FactsVouch
  <1>6. PublishedSound'
    <2>1. ASSUME NEW d \in Datasets
          PROVE  /\ datasetMarker'[d] # None => datasetMarker'[d] \notin Orphaned
                 /\ IsView(d)' => /\ datasetMarker'[d] \in (Versions \X Versions) \ Orphaned
                                  /\ Postgres => /\ view'[d].facts = datasetMarker'[d][1]
                                                 /\ view'[d].parts = datasetMarker'[d][2]
      <3>1. CASE /\ datasetMarker'[d] = Wanted(d)
                 /\ Wanted(d) \in (Versions \X Versions) \ Orphaned
                 /\ view'[d] = [facts |-> factSource[d], parts |-> contourSource, over |-> "live"]
        BY <3>1 DEF Wanted
      <3>2. CASE datasetMarker'[d] = datasetMarker[d] /\ view'[d] = view[d]
        BY <3>2 DEF IsView, IInv, PublishedSound
      <3>3. CASE datasetMarker'[d] = datasetMarker[d] /\ IsView(d) /\ view'[d] = [view[d] EXCEPT !.over = "old"]
        <4>1. view'[d].facts = view[d].facts /\ view'[d].parts = view[d].parts
          BY <1>3, <3>3 DEF View
        <4>2. QED
          BY <3>3, <4>1 DEF IInv, PublishedSound
      <3>4. QED
        BY <3>1, <3>2, <3>3, DatasetAfterPublish
    <2>2. QED
      BY <2>1 DEF PublishedSound
  <1>7. OverTheSame'
    <2>1. ASSUME Alone = {}, NEW d \in Datasets, parts' # None PROVE parts' = datasetMarker'[d][2]
      <3>1. passed = Datasets
        BY <2>1 DEF IInv, RunSound, Publish, AllStaged
      <3>2. datasetMarker'[d] = Wanted(d) /\ parts' = contourSource
        BY <2>1, <3>1, DatasetAfterPublish, ContoursAfterPublish
      <3>3. QED
        BY <3>2 DEF Wanted
    <2>2. QED
      BY <2>1 DEF OverTheSame
  <1>8. RunSound'
    BY <1>1 DEF RunSound
  <1>9. QED
    BY <1>4, <1>5, <1>6, <1>7, <1>8, ContoursAfterPublish DEF IInv

-------------------------------------------------------------------------------
(* What disturbs a run *)

\* A run that ends, by itself or not, and a source that changes leave the tables alone.
LEMMA QuietSteps ==
    ASSUME IInv, RunFails \/ Crash \/ ChangeSource \/ CalmDown \/ UNCHANGED vars
    PROVE  IInv'
  <1>1. /\ UNCHANGED <<contourVars, stgContourVars, datasetVars, stgFactVars, contourReceipt, receipt>>
        /\ calm' \in BOOLEAN
        /\ passed' = {} \/ UNCHANGED <<sources, passed>>
    BY DEF IInv, TypeOK, RunFails, Crash, ChangeSource, CalmDown, vars, runVars
  <1>2. factSource' \in [Datasets -> Versions] /\ contourSource' \in Versions
    <2>1. CASE UNCHANGED sources
      BY <2>1 DEF sources, IInv, TypeOK
    <2>2. CASE ChangeSource
      BY <2>2, ContentsAssumption DEF ChangeSource, IInv, TypeOK
    <2>3. QED
      BY <2>1, <2>2 DEF RunFails, Crash, CalmDown, vars
  <1>3. TypeOK'
    BY <1>1, <1>2 DEF IInv, TypeOK, sources, contourVars, stgContourVars, datasetVars, stgFactVars
  <1>4. RunSound'
    <2>1. CASE passed' = {}
      BY <2>1 DEF RunSound
    <2>2. CASE UNCHANGED <<sources, passed>>
      BY <1>1, <2>2 DEF IInv, RunSound, Wanted, sources, contourVars, stgContourVars, datasetVars, stgFactVars
    <2>3. QED
      BY <1>1, <2>1, <2>2
  <1>5. QED
    BY <1>1, <1>3, <1>4 DEF IInv, ContoursVouch, FactsVouch, Vouched, PublishedSound, OverTheSame, IsView,
                           contourVars, stgContourVars, datasetVars, stgFactVars

\* A loss takes tables, views and keys away and changes none.
LEMMA LoseEffect ==
    ASSUME IInv, Lose
    PROVE  /\ UNCHANGED <<sources, stgContourVars, runVars, calm, contourMarker, datasetMarker, stagedDataset>>
           /\ zone' \in {zone, None} /\ parts' \in {parts, None}
           /\ DOMAIN facts' = Datasets /\ DOMAIN stgFacts' = Datasets /\ DOMAIN view' = Datasets
           /\ \A d \in Datasets : /\ SameRows(facts'[d], facts[d]) /\ SameRows(stgFacts'[d], stgFacts[d])
                                  /\ stgFacts'[d] # None /\ stgFacts'[d].key.at = "staged" =>
                                         stgFacts[d] # None /\ stgFacts[d].key.at = "staged"
                                  /\ view'[d] \in {view[d], None}
  <1>1. /\ facts \in [Datasets -> OrNone(Compact)] /\ stgFacts \in [Datasets -> OrNone(Compact)]
        /\ DOMAIN view = Datasets
    BY DEF IInv, TypeOK
  <1>2. \A d \in Datasets : SameRows(facts[d], facts[d]) /\ SameRows(stgFacts[d], stgFacts[d])
    BY <1>1 DEF SameRows
  <1>3. SameRows(None, None) /\ \A x : SameRows(None, x)
    BY DEF SameRows, OrNone
  <1>4. ASSUME NEW e \in Datasets, DropFacts(e)
        PROVE  /\ zone' = zone /\ parts' = parts
               /\ UNCHANGED <<contourMarker, datasetMarker, stgFacts, stagedDataset>>
               /\ DOMAIN facts' = Datasets /\ DOMAIN view' = Datasets
               /\ \A d \in Datasets : SameRows(facts'[d], facts[d]) /\ view'[d] \in {view[d], None}
    BY <1>1, <1>2, <1>3, <1>4 DEF DropFacts, contourVars, stgFactVars
  <1>5. ASSUME DropParts
        PROVE  /\ zone' = zone /\ parts' = None
               /\ UNCHANGED <<contourMarker, datasetMarker, facts, stgFacts, stagedDataset>>
               /\ DOMAIN view' = Datasets
               /\ \A d \in Datasets : view'[d] \in {view[d], None}
    BY <1>5 DEF DropParts, stgFactVars
  <1>6. ASSUME DropZone
        PROVE  /\ zone' = None /\ parts' = parts
               /\ UNCHANGED <<contourMarker, datasetMarker, stagedDataset, view>>
               /\ DOMAIN facts' = Datasets /\ DOMAIN stgFacts' = Datasets
               /\ \A d \in Datasets : /\ SameRows(facts'[d], facts[d]) /\ SameRows(stgFacts'[d], stgFacts[d])
                                      /\ stgFacts'[d] # None /\ stgFacts'[d].key.at = "staged" =>
                                             stgFacts[d] # None /\ stgFacts[d].key.at = "staged"
    <2>1. facts' = WithoutKey(facts) /\ stgFacts' = WithoutKey(stgFacts)
      BY <1>6 DEF DropZone
    <2>2. DOMAIN WithoutKey(facts) = Datasets /\ DOMAIN WithoutKey(stgFacts) = Datasets
      BY DEF WithoutKey
    <2>3. QED
      BY <1>1, <1>6, <2>1, <2>2, WithoutKeyKeeps DEF DropZone
  <1>7. ASSUME NEW e \in Datasets, DropView(e)
        PROVE  /\ zone' = zone /\ parts' = parts
               /\ UNCHANGED <<contourMarker, datasetMarker, facts, stgFacts, stagedDataset>>
               /\ DOMAIN view' = Datasets
               /\ \A d \in Datasets : view'[d] \in {view[d], None}
    BY <1>1, <1>7 DEF DropView, contourVars, stgFactVars
  <1>8. /\ UNCHANGED <<sources, stgContourVars, runVars, calm>>
        /\ (\E e \in Datasets : DropFacts(e) \/ DropView(e)) \/ DropParts \/ DropZone
    BY DEF Lose
  <1>9. CASE \E e \in Datasets : DropFacts(e)
    BY <1>1, <1>2, <1>4, <1>8, <1>9
  <1>10. CASE DropParts
    BY <1>1, <1>2, <1>5, <1>8, <1>10
  <1>11. CASE DropZone
    BY <1>1, <1>2, <1>6, <1>8, <1>11
  <1>12. CASE \E e \in Datasets : DropView(e)
    BY <1>1, <1>2, <1>7, <1>8, <1>12
  <1>13. QED
    BY <1>8, <1>9, <1>10, <1>11, <1>12

\* Nothing a loss leaves is over other rows than before.
LEMMA LoseStep == ASSUME IInv, Lose PROVE IInv'
  <1>1. TypeOK'
    <2>1. facts' \in [Datasets -> OrNone(Compact)] /\ stgFacts' \in [Datasets -> OrNone(Compact)]
      <3>1. \A d \in Datasets : facts'[d] \in OrNone(Compact) /\ stgFacts'[d] \in OrNone(Compact)
        BY LoseEffect DEF SameRows
      <3>2. facts' = [d \in Datasets |-> facts'[d]] /\ stgFacts' = [d \in Datasets |-> stgFacts'[d]]
        <4>1. facts' = [d \in DOMAIN facts' |-> facts'[d]] /\ stgFacts' = [d \in DOMAIN stgFacts' |-> stgFacts'[d]]
          BY DEF Lose, DropFacts, DropParts, DropZone, DropView, WithoutKey, stgFactVars, IInv, TypeOK
        <4>2. QED
          BY <4>1, LoseEffect
      <3>3. QED
        BY <3>1, <3>2
    <2>2. view' \in [Datasets -> View \union {None, Flat}]
      BY DEF Lose, DropFacts, DropParts, DropZone, DropView, IInv, TypeOK
    <2>3. {zone', parts'} \subseteq OrNone(Versions)
      BY LoseEffect DEF IInv, TypeOK, OrNone
    <2>4. QED
      BY <2>1, <2>2, <2>3, LoseEffect DEF IInv, TypeOK, sources, stgContourVars, runVars
  <1>2. ContoursVouch'
    BY LoseEffect DEF IInv, ContoursVouch, stgContourVars
  <1>3. FactsVouch'
    <2>1. ASSUME NEW d \in Datasets
          PROVE  Vouched(facts, datasetMarker, d)' /\ Vouched(stgFacts, stagedDataset, d)'
      BY LoseEffect, VouchedKept DEF Vouched, IInv, FactsVouch
    <2>2. QED
      BY <2>1 DEF FactsVouch
  <1>4. RunSound'
    BY LoseEffect DEF IInv, RunSound, Wanted, sources, stgContourVars, runVars
  <1>5. PublishedSound' /\ OverTheSame'
    BY LoseEffect DEF IInv, PublishedSound, OverTheSame, IsView
  <1>6. QED
    BY <1>1, <1>2, <1>3, <1>4, <1>5 DEF IInv

-------------------------------------------------------------------------------
(* The invariant *)

\* There is nothing public or staged at first.
LEMMA InvInit == ASSUME Init PROVE IInv
  <1>1. TypeOK
    <2>1. factSource \in [Datasets -> Versions] /\ contourSource \in Versions
      BY ContentsAssumption DEF Init
    <2>2. QED
      BY <2>1 DEF Init, TypeOK, Nothing, OrNone
  <1>2. QED
    BY <1>1 DEF Init, IInv, ContoursVouch, FactsVouch, Vouched, RunSound, PublishedSound, OverTheSame, IsView, Nothing

\* Every step keeps it.
LEMMA InvNext == ASSUME IInv, [Next]_vars PROVE IInv'
  BY StartRunStep, StageContoursStep, StageFactsStep, PublishStep, QuietSteps, LoseStep DEF Next, Work

\* The markers, the receipts and the tables agree in every state.
THEOREM Invariant == Spec => []IInv
  BY InvInit, InvNext, PTL DEF Spec

-------------------------------------------------------------------------------
(* What the runs check on two datasets, for all *)

\* Every variable has its type, and staged facts have no key to a staging table that is not there.
THEOREM TypesCorrect == Spec => []TypeOK
  <1>1. IInv => TypeOK
    BY DEF IInv
  <1>2. QED
    BY <1>1, Invariant, PTL

\* Whatever is dropped, whichever jobs die and whichever dataset is materialized by itself, the
\* markers name the rows of the public and of the staging tables.
THEOREM MarkersNameRows == Spec => []MarkersVouch
  <1>1. IInv => MarkersVouch
    BY DEF IInv, ContoursVouch, FactsVouch, Vouched, MarkersVouch
  <1>2. QED
    BY <1>1, Invariant, PTL

\* What a reader of a published dataset gets, where its view keeps to its tables or every run
\* is over all datasets: what the marker names, or nothing where a table is lost.
LEMMA ReadsMarked ==
    ASSUME IInv, Postgres \/ Alone = {}, NEW d \in Datasets, IsView(d)
    PROVE  /\ datasetMarker[d] \in (Versions \X Versions) \ Orphaned
           /\ Reads(d) \in (Versions \union {None}) \X (Versions \union {None})
           /\ Reads(d)[1] \in {datasetMarker[d][1], None} /\ Reads(d)[2] \in {datasetMarker[d][2], None}
           /\ Postgres => Reads(d) = datasetMarker[d]
  <1>1. datasetMarker[d] \in (Versions \X Versions) \ Orphaned
    BY DEF IInv, PublishedSound
  <1>2. CASE Postgres
    <2>1. Reads(d) = <<view[d].facts, view[d].parts>>
      BY <1>2 DEF Reads
    <2>2. Reads(d) = datasetMarker[d]
      BY <1>1, <1>2, <2>1 DEF IInv, PublishedSound
    <2>3. QED
      BY <1>1, <2>2
  <1>3. CASE ~Postgres
    <2> DEFINE rows == IF facts[d] = None THEN None ELSE facts[d].rows
    <2>1. Reads(d) = <<rows, parts>>
      BY <1>3 DEF Reads
    <2>2. rows \in {datasetMarker[d][1], None}
      BY DEF IInv, FactsVouch, Vouched
    <2>3. parts \in {datasetMarker[d][2], None}
      BY <1>1, <1>3 DEF IInv, OverTheSame
    <2>4. rows \in Versions \union {None} /\ parts \in Versions \union {None}
      BY <1>1, <2>2, <2>3
    <2> HIDE DEF rows
    <2>5. Reads(d)[1] = rows /\ Reads(d)[2] = parts
      BY <2>1
    <2>6. QED
      BY <1>1, <1>3, <2>1, <2>2, <2>3, <2>4, <2>5
  <1>4. QED
    BY <1>2, <1>3

\* A view joins the facts and the contours its marker names, on PostgreSQL whatever is published
\* alone; on DuckDB, whose views resolve names, while every run is over all datasets.
THEOREM ViewsJoinWhole == ASSUME Postgres \/ Alone = {} PROVE Spec => []JoinsWhole
  <1>1. IInv => JoinsWhole
    BY ReadsMarked DEF JoinsWhole
  <1>2. QED
    BY <1>1, Invariant, PTL

\* Under the same condition no view joins facts to contours that lack some of their keys, so
\* its INNER join loses no row.
THEOREM NoRowIsLost == ASSUME Postgres \/ Alone = {} PROVE Spec => []NoRowsLost
  <1>1. ASSUME IInv, NEW d \in Datasets, IsView(d) PROVE Reads(d) \notin Orphaned
    <2>1. CASE Reads(d)[1] # None /\ Reads(d)[2] # None
      <3>1. Reads(d) = datasetMarker[d] /\ datasetMarker[d] \notin Orphaned
        BY <1>1, <2>1, ReadsMarked
      <3>2. QED
        BY <3>1
    <2>2. CASE Reads(d)[1] = None \/ Reads(d)[2] = None
      BY <2>2, OrphanedAssumption, ValuesAssumption
    <2>3. QED
      BY <2>1, <2>2
  <1>2. IInv => NoRowsLost
    BY <1>1 DEF NoRowsLost
  <1>3. QED
    BY <1>2, Invariant, PTL

\* The foreign keys of public facts are to the zones of the contours their view joins, so the
\* database has checked every row that is read.
THEOREM ReferencesAreChecked == Spec => []ReferencesChecked
  <1>1. ASSUME IInv, NEW d \in Datasets, IsView(d), facts[d] # None, facts[d].key # Unkeyed
        PROVE  facts[d].key.zone = Reads(d)[2]
    <2>1. Postgres /\ facts[d].key.zone = datasetMarker[d][2]
      BY <1>1 DEF IInv, FactsVouch, Vouched
    <2>2. Reads(d) = datasetMarker[d]
      BY <1>1, <2>1, ReadsMarked
    <2>3. QED
      BY <2>1, <2>2
  <1>2. IInv => ReferencesChecked
    BY <1>1 DEF ReferencesChecked
  <1>3. QED
    BY <1>2, Invariant, PTL
===============================================================================
