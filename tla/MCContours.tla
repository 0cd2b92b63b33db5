------------------------------ MODULE MCContours ------------------------------
(***************************************************************************)
(* Two datasets over one contour table; the new facts of the first need    *)
(* the new contours.                                                       *)
(***************************************************************************)
EXTENDS Contours, TLC

CONSTANTS sales, stock

OneChanges == sales :> {1, 2} @@ stock :> {1}

NoneChanges == sales :> {1} @@ stock :> {1}

NewNeedsNew == {<<2, 1>>}
===============================================================================
