--------------------------- MODULE MCViewDatasets -----------------------------
(***************************************************************************)
(* Two datasets: the component dim is shared, fact is one dataset's own.   *)
(***************************************************************************)
EXTENDS ViewDatasets, TLC

CONSTANTS dim, fact, summary, detail

SharedComponent == summary :> {dim} @@ detail :> {dim, fact}

DimChanges == dim :> {1, 2} @@ fact :> {1}
===============================================================================
