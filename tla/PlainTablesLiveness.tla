------------------------- MODULE PlainTablesLiveness --------------------------
(***************************************************************************)
(* PlainTables with an environment that may disturb the workers for any    *)
(* finite time (files replaced, tables dropped, failures, crashes) and     *)
(* then no more.                                                           *)
(***************************************************************************)
EXTENDS PlainTables

VARIABLE calm   \* auxiliary: the environment disturbs no more

CalmInit == Init /\ calm = FALSE

Disturb == ~calm /\ Disturbance /\ UNCHANGED calm

CalmDown == ~calm /\ calm' = TRUE /\ UNCHANGED vars

WorkOn(w) == Work(w) /\ UNCHANGED calm

CalmNext == Disturb \/ CalmDown \/ \E w \in Workers : WorkOn(w)

\* The workflow is run again and again, and a process that is not killed takes its next
\* step.  PublishConflict and a missing staging table are the code's own failures: they
\* are part of Work and may not go on forever either.
CalmSpec ==
    /\ CalmInit
    /\ [][CalmNext]_<<vars, calm>>
    /\ \A w \in Workers : WF_<<vars, calm>>(WorkOn(w))

\* The database holds the release of w's files and its markers say so.
UpToDate(w) ==
    \A t \in Tables : live[t] = Content[release[w]][t] /\ marker[t] = live[t]

\* Whatever was interrupted, dropped or left staged before, once nothing disturbs the
\* workflow any more, running it again brings the database to the release for good.
Converges == <>calm => \A w \in Workers : <>[]UpToDate(w)

\* A table left behind by a failed drop is cleaned up on a later run.
LeftoversSwept == \A t \in Tables : (calm /\ t \in leftover) ~> t \notin leftover
===============================================================================
