---------------------------- MODULE MCMaintenance -----------------------------
(***************************************************************************)
(* Two datasets: the component dim is shared and changes, fact is one      *)
(* dataset's own.  Operators act on everything that is kept, or on the     *)
(* component alone.                                                        *)
(***************************************************************************)
EXTENDS Maintenance, TLC

CONSTANTS dim, fact, summary, detail

SharedComponent == summary :> {dim} @@ detail :> {dim, fact}

DimChanges == dim :> {1, 2} @@ fact :> {1}

Everything == {Names}

TablesOrEverything == {Names, {dim}}
===============================================================================
