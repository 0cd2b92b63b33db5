---------------------------- MODULE MCPlainTables -----------------------------
(***************************************************************************)
(* Two tables in up to three releases.  One release changes one table only *)
(* (a run then finds the other current), the other changes both.           *)
(***************************************************************************)
EXTENDS PlainTables, TLC

CONSTANTS t1, t2, r1, r2, r3, a1, a2, b1, b2

AllReleases ==
    r1 :> (t1 :> a1 @@ t2 :> b1) @@
    r2 :> (t1 :> a2 @@ t2 :> b1) @@
    r3 :> (t1 :> a1 @@ t2 :> b2)

ContentOfReleases == [r \in Releases |-> [t \in Tables |-> AllReleases[r][t]]]

WorkersAlike == Permutations(Workers)
===============================================================================
