------------------------------- MODULE JobApi -------------------------------
(***************************************************************************)
(* GET /jobs/{id} beside the processing of the job: a client polls while   *)
(* the activities write.  A poll is two reads of the database, the job row *)
(* and then the counts of its tasks, and other sessions commit in between. *)
(***************************************************************************)
EXTENDS UrlWorkflow

VARIABLES
    poll,     \* the job status a poll in progress has read, or "idle"
    answer    \* the status the last poll answered, or "none"

apiVars == <<vars, poll, answer>>

PollTypeOK ==
    /\ poll \in {"idle"} \cup JobStatus
    /\ answer \in {"none"} \cup JobStatus

ApiInit == Init /\ poll = "idle" /\ answer = "none"

PollRead ==
    /\ committed /\ poll = "idle"
    /\ poll' = job.status
    /\ UNCHANGED <<vars, answer>>

\* The answer is the job row's status.
BrokenPollAnswer ==
    /\ poll # "idle"
    /\ answer' = poll
    /\ poll' = "idle"
    /\ UNCHANGED vars

\* The safety net: when every task is settled the answer is "completed",
\* whatever the job row says.
PollAnswer ==
    /\ poll # "idle"
    /\ answer' = IF /\ TasksWith("pending") = {}
                    /\ CountByStatus.completed + CountByStatus.failed >= Cardinality(Tasks)
                 THEN "completed" ELSE poll
    /\ poll' = "idle"
    /\ UNCHANGED vars

ApiNext ==
    \/ PollRead
    \/ PollAnswer
    \/ Next /\ UNCHANGED <<poll, answer>>

ApiSpec == ApiInit /\ [][ApiNext]_apiVars

\* The client keeps polling until it is told that the job is completed.
ApiFairSpec ==
    /\ ApiSpec
    /\ Fairness
    /\ WF_apiVars(PollRead /\ answer # "completed")
    /\ WF_apiVars(PollAnswer)

-----------------------------------------------------------------------------
\* A client that was told the job is completed is not told otherwise later, even
\* when the job row goes back to "running" under a late writer.
CompletionNeverRetracted ==
    [][answer = "completed" => answer' = "completed"]_apiVars

Promise == INSTANCE JobProgress
    WITH accepted <- committed,
         open <- TasksWith("pending"),
         rowDone <- (job.status = "completed"),
         announced <- (answer = "completed")

\* Every step of the system is a step of JobProgress, or changes nothing there.
KeepsPromise == Promise!Spec

\* Every accepted job is settled and its client is told so: the fairness of
\* JobProgress follows from that of the API, the workers and the server.
DeliversPromise == Promise!FairSpec
=============================================================================
