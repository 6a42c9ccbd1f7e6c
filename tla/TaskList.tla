------------------------------ MODULE TaskList ------------------------------
(***************************************************************************)
(* GET /jobs/{id}/tasks beside the processing of the job.  list_tasks      *)
(* reads the statuses of all tasks in one statement; for each task that    *)
(* was pending then it opens a second session and looks whether the task   *)
(* has records and summaries by now.  The entries of a listing do not      *)
(* depend on each other: the model follows one of them.                    *)
(***************************************************************************)
EXTENDS JobApi

VARIABLES
    entry,   \* the task the entry followed is about
    listed   \* its status: not asked for, read as pending, or as answered

listVars == <<apiVars, entry, listed>>

ListTypeOK == entry \in Tasks /\ listed \in {"none", "checking"} \cup TaskStatus

ListInit == ApiInit /\ entry \in Tasks /\ listed = "none"

\* A task that is not pending is listed as its row says.
ListRead ==
    /\ answer # "none" /\ poll = "idle" /\ listed = "none"
    /\ listed' = IF Settled(entry) THEN task[entry] ELSE "checking"
    /\ UNCHANGED <<apiVars, entry>>

\* Records are enough for the task to be listed as completed.
BrokenDerived(t) == IF recs[t] > 0 THEN "completed" ELSE "pending"

\* The status of a pending task as its records and their summaries tell it.
Derived(t) ==
    IF recs[t] = 0 THEN "pending" ELSE IF worded[t] THEN "completed" ELSE "failed"

ListCheck ==
    /\ listed = "checking"
    /\ listed' = Derived(entry)
    /\ UNCHANGED <<apiVars, entry>>

\* The bound on the clients: at most one poll, and one listing after it.
FirstPoll == PollRead /\ answer = "none"

ListNext ==
    \/ ListRead
    \/ ListCheck
    \/ (FirstPoll \/ PollAnswer) /\ UNCHANGED <<entry, listed>>
    \/ Next /\ UNCHANGED <<poll, answer, entry, listed>>

ListSpec == ListInit /\ [][ListNext]_listVars

\* The activities and the server are not held up by the clients.
ListFairSpec == ListSpec /\ Fairness

-----------------------------------------------------------------------------
\* A task listed as completed has been settled and has records and summaries to
\* show, although list_tasks derives that status from a later read of other rows,
\* in another session, than the read that found the task pending.
ListedMeansSummarized ==
    listed = "completed" => Settled(entry) /\ Summarized(entry)

\* A client that GET /jobs/{id} told of the job's completion is shown no pending
\* task by GET /jobs/{id}/tasks afterwards: the endpoints agree on the end of a job,
\* though one derives it from the counts and the other from the records.
ListAgreesWithAnswer ==
    answer = "completed" => listed \notin {"checking", "pending"}
=============================================================================
