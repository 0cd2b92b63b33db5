-------------------------- MODULE ReleasePublication --------------------------
(***************************************************************************)
(* What the publication of plain tables promises its readers, with no      *)
(* staging, markers, locks or processes: the public tables change in two   *)
(* ways only.  A publish moves the whole database to one release, in one   *)
(* step; a table may be lost out of band.                                  *)
(***************************************************************************)
CONSTANTS Tables,    \* the public tables
          Releases,  \* the generations of the Parquet files
          Content,   \* Content[r][t]: the rows of table t in release r
          None       \* the table does not exist

VARIABLE public      \* public[t]: the rows a reader of t sees, or None

Init == public = [t \in Tables |-> None]

(***************************************************************************)
(* Publish release r.  The tables outside S are not written: they already  *)
(* hold the release, or are missing (lost after they were found current).  *)
(***************************************************************************)
Publish(r, S) ==
    /\ \A t \in Tables \ S : public[t] \in {None, Content[r][t]}
    /\ public' = [t \in Tables |-> IF t \in S THEN Content[r][t] ELSE public[t]]

Lose(t) == public' = [public EXCEPT ![t] = None]

Next ==
    \/ \E r \in Releases, S \in SUBSET Tables : Publish(r, S)
    \/ \E t \in Tables : Lose(t)

Spec == Init /\ [][Next]_public
===============================================================================
