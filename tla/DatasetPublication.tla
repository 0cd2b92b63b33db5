-------------------------- MODULE DatasetPublication ---------------------------
(***************************************************************************)
(* What the publication of datasets promises the readers of their views,   *)
(* with no staging, receipts, markers or links: what a view reads changes  *)
(* in two ways only.  A publish moves datasets to the sources as they are, *)
(* all in one step, and leaves nobody behind who shares a table with them; *)
(* a table or a view may be lost out of band.                              *)
(***************************************************************************)
CONSTANTS Components, Datasets,
          Uses,      \* Uses[d]: the components of dataset d
          Versions,
          None,      \* there is no relation, or no table under it
          Flat       \* a public table that is not the dataset's

VARIABLES src,       \* src[c]: the version of the source of component c
          reads      \* reads[d]: what a reader of d gets, component by component, or None, or Flat

Init ==
    /\ src \in [Components -> Versions]
    /\ reads \in [Datasets -> {None, Flat}]

IsView(d) == reads[d] \notin {None, Flat}

Wanted(d) == [c \in Uses[d] |-> src[c]]

(***************************************************************************)
(* The datasets S move.  Whoever else reads a table of theirs has read the *)
(* version of its source already.                                          *)
(***************************************************************************)
Move(S) ==
    /\ \A d \in Datasets \ S : IsView(d) =>
        \A c \in Uses[d] : (\E e \in S : c \in Uses[e]) => reads[d][c] = src[c]
    /\ reads' = [d \in Datasets |-> IF d \in S THEN Wanted(d) ELSE reads[d]]
    /\ UNCHANGED src

\* A publish of the registry: the datasets that do not move are current, but for what was lost.
Publish(S) ==
    /\ Move(S)
    /\ \A d \in Datasets \ S : /\ reads[d] # Flat
                               /\ IsView(d) => \A c \in Uses[d] : reads[d][c] \in {src[c], None}

SourceChanges(c) ==
    /\ \E v \in Versions : src' = [src EXCEPT ![c] = v]
    /\ UNCHANGED reads

\* A table is lost under views that read it: they are dropped with it, or cannot read it any more.
LoseTable(c, S, dropped) ==
    /\ \A d \in S : IsView(d) /\ c \in Uses[d]
    /\ reads' = [d \in Datasets |-> IF d \notin S THEN reads[d]
                                    ELSE IF dropped THEN None ELSE [reads[d] EXCEPT ![c] = None]]
    /\ UNCHANGED src

LoseRelation(d) == reads' = [reads EXCEPT ![d] = None] /\ UNCHANGED src

Next ==
    \/ \E S \in SUBSET Datasets : Publish(S)
    \/ \E d \in Datasets : Move({d}) \/ LoseRelation(d)
    \/ \E c \in Components : SourceChanges(c)
    \/ \E c \in Components, S \in SUBSET Datasets, dropped \in BOOLEAN : LoseTable(c, S, dropped)

Spec == Init /\ [][Next]_<<src, reads>>
===============================================================================
