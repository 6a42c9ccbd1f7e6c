---------------------------- MODULE JobProgress ----------------------------
(***************************************************************************)
(* What the system promises to a client that submits a job and polls it:   *)
(* once the job is accepted its tasks are settled, each for good; the job  *)
(* row may call the job completed only when none is open, and may change   *)
(* its mind after; completion, once announced to the client, is never      *)
(* retracted, and in the end it is announced.                              *)
(***************************************************************************)
CONSTANT Tasks

VARIABLES
    accepted,   \* the job exists
    open,       \* the tasks not settled yet
    rowDone,    \* the job row calls the job completed
    announced   \* the client has been told that the job is completed

pvars == <<accepted, open, rowDone, announced>>

TypeOK ==
    /\ accepted \in BOOLEAN
    /\ open \subseteq Tasks
    /\ rowDone \in BOOLEAN
    /\ announced \in BOOLEAN

Init ==
    /\ accepted = FALSE
    /\ open = Tasks
    /\ rowDone = FALSE
    /\ announced = FALSE

Accept ==
    /\ ~accepted
    /\ accepted' = TRUE
    /\ UNCHANGED <<open, rowDone, announced>>

Settle(t) ==
    /\ accepted /\ t \in open
    /\ open' = open \ {t}
    /\ UNCHANGED <<accepted, rowDone, announced>>

\* The job row is a cache of the tasks' rows that may be written out of date.
RewriteRow ==
    /\ accepted /\ open = {}
    /\ rowDone' \in BOOLEAN
    /\ UNCHANGED <<accepted, open, announced>>

Announce ==
    /\ accepted /\ open = {}
    /\ announced' = TRUE
    /\ UNCHANGED <<accepted, open, rowDone>>

Next == Accept \/ (\E t \in Tasks : Settle(t)) \/ RewriteRow \/ Announce

Spec == Init /\ [][Next]_pvars

\* Every task of an accepted job is settled, and the client learns of it.
FairSpec ==
    /\ Spec
    /\ \A t \in Tasks : WF_pvars(Settle(t))
    /\ WF_pvars(Announce)
=============================================================================
