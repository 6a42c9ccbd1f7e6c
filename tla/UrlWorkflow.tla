---------------------------- MODULE UrlWorkflow ----------------------------
(***************************************************************************)
(* One job from POST /jobs to its end: the API's transaction, one          *)
(* UrlWorkflow per task driving the activities, and the Temporal server    *)
(* that retries them and enforces their timeouts.                          *)
(*                                                                         *)
(* The server gives an attempt up when its start_to_close timeout elapses, *)
(* but the execution is not stopped by that: without heartbeats it keeps   *)
(* running in its worker, and writes when it gets there.                   *)
(***************************************************************************)
EXTENDS Activities

CONSTANTS
    MaxAttempts,   \* RETRY_POLICY.maximum_attempts: ACTIVITY_MAX_RETRIES
    Faults,        \* the kinds of fault the environment may inject
    MaxFaults      \* bound on the faults that befall executions

FaultKinds == {"timeout", "crash", "cancel", "db", "deadline", "refusedStart",
               "slowCommit", "apiCrash"}

ASSUME RetryAssumption == MaxAttempts \in Attempts
ASSUME FaultAssumption == Faults \subseteq FaultKinds /\ MaxFaults \in Nat

VARIABLES
    api,      \* where POST /jobs stands
    stage,    \* stage[t]: what the workflow of t waits for
    attempt,  \* attempt[t]: the number of the attempt it waits for
    result,   \* result[t]: the status in the workflow's result
    injected  \* how many faults were injected

wfVars == <<stage, attempt, result>>
vars == <<storeVars, actVars, api, wfVars, injected>>

ApiStates == {"flushed", "refused", "started", "committed", "aborted"}
Stages == {"none", "dropped", "enrich", "closed", "expired"} \cup Kinds
Over(t) == stage[t] \in {"dropped", "closed", "expired"}
Current(t) == <<t, stage[t], attempt[t]>>

\* The retry policy is not passed: every activity has the server's default.
BrokenMaxAttemptsOf(kind) == AttemptCap

\* finalize_task has no retry policy of its own: the server's default has no
\* maximum.  AttemptCap is the model's bound.
MaxAttemptsOf(kind) == IF kind = "finalize" THEN AttemptCap ELSE MaxAttempts

TypeOK ==
    /\ StoreTypeOK
    /\ ActTypeOK
    /\ api \in ApiStates
    /\ stage \in [Tasks -> Stages]
    /\ attempt \in [Tasks -> Attempts]
    /\ result \in [Tasks -> {"none", "completed", "failed"}]
    /\ injected \in Nat

Init ==
    /\ StoreInit
    /\ ActInit
    /\ api = "flushed"
    /\ stage = [t \in Tasks |-> "none"]
    /\ attempt = [t \in Tasks |-> 1]
    /\ result = [t \in Tasks |-> "none"]
    /\ injected = 0

-----------------------------------------------------------------------------
(* POST /jobs: the rows are flushed, then the workflow is started, then the
   transaction commits.                                                      *)

\* Temporal cannot be reached: the request fails and its rows are rolled back.
StartJobFails ==
    /\ api = "flushed"
    /\ api' = "refused"
    /\ UNCHANGED <<storeVars, actVars, wfVars, injected>>

StartJob ==
    /\ api = "flushed"
    /\ api' = "started"
    /\ UNCHANGED <<storeVars, actVars, wfVars, injected>>

CommitJob ==
    /\ api = "started"
    /\ api' = "committed"
    /\ committed' = TRUE
    /\ UNCHANGED <<job, task, recs, sums, worded, actVars, wfVars, injected>>

\* The API dies, or its commit fails, with the workflow already started.
ApiCrash ==
    /\ "apiCrash" \in Faults
    /\ api = "started"
    /\ api' = "aborted"
    /\ UNCHANGED <<storeVars, actVars, wfVars, injected>>

-----------------------------------------------------------------------------
(* UrlWorkflow.run *)

\* What is over needs no remembering once the workflow has seen its outcome.
Seen(t, e) == e = Current(t) /\ ~Live(e)

\* The workflow of t asks for attempt n of an activity, which a worker picks up.
Schedule(t, kind, n) ==
    /\ stage' = [stage EXCEPT ![t] = kind]
    /\ attempt' = [attempt EXCEPT ![t] = n]
    /\ pc' = [e \in Exec |-> IF e = <<t, kind, n>> THEN "body"
                             ELSE IF Seen(t, e) THEN "idle" ELSE pc[e]]
    /\ ret' = [e \in Exec |-> IF Seen(t, e) THEN "none" ELSE ret[e]]
    /\ UNCHANGED <<copy, seen>>

Finish(t, status) == result' = [result EXCEPT ![t] = status]

\* Every way out of _run_inner goes through the finally block.
Finally(t, status) == Finish(t, status) /\ Schedule(t, "finalize", 1)

\* JobWorkflow starts the child of t.  Unless the commit of POST /jobs is slow,
\* it is over before any child reaches the database.
StartChild(t) ==
    /\ stage[t] = "none"
    /\ \/ api \in {"committed", "aborted"}
       \/ api = "started" /\ "slowCommit" \in Faults
    /\ Schedule(t, "fetch", 1)
    /\ UNCHANGED <<storeVars, api, result, injected>>

ActivityReturned(t, kind) == stage[t] = kind /\ pc[Current(t)] = "returned"

FetchDone(t) ==
    /\ ActivityReturned(t, "fetch")
    /\ IF ret[Current(t)] = "failed"
       THEN Finally(t, "failed")
       ELSE Schedule(t, "parse", 1) /\ UNCHANGED result
    /\ UNCHANGED <<storeVars, api, injected>>

\* Only articles with a link are enriched, by a child workflow of its own.
EnterEnrich(t) ==
    /\ stage' = [stage EXCEPT ![t] = "enrich"]
    /\ attempt' = [attempt EXCEPT ![t] = 1]
    /\ UNCHANGED actVars

ParseDone(t) ==
    /\ ActivityReturned(t, "parse")
    /\ IF ret[Current(t)] = "failed"
       THEN Finally(t, "failed")
       ELSE /\ \/ recs[t] > 0 /\ EnterEnrich(t)
               \/ Schedule(t, "summarize", 1)
            /\ UNCHANGED result
    /\ UNCHANGED <<storeVars, api, injected>>

\* The child is done, or failed, or timed out: the pipeline goes on.
EnrichDone(t) ==
    /\ stage[t] = "enrich"
    /\ Schedule(t, "summarize", 1)
    /\ UNCHANGED <<storeVars, api, result, injected>>

\* The outcome of the activity is passed on untranslated.
BrokenSummarizeDone(t) ==
    /\ ActivityReturned(t, "summarize")
    /\ Finally(t, ret[Current(t)])
    /\ UNCHANGED <<storeVars, api, injected>>

SummarizeDone(t) ==
    /\ ActivityReturned(t, "summarize")
    /\ Finally(t, IF ret[Current(t)] = "ok" THEN "completed" ELSE "failed")
    /\ UNCHANGED <<storeVars, api, injected>>

FinalizeDone(t) ==
    /\ ActivityReturned(t, "finalize")
    /\ stage' = [stage EXCEPT ![t] = "closed"]
    /\ UNCHANGED <<storeVars, actVars, api, attempt, result, injected>>

\* An activity out of attempts fails the workflow, with nothing finalized.
BrokenNextAttempt(t) ==
    LET kind == stage[t] n == attempt[t] IN
    IF n < MaxAttemptsOf(kind)
    THEN Schedule(t, kind, n + 1) /\ UNCHANGED result
    ELSE /\ kind # "finalize"
         /\ Finish(t, "failed")
         /\ stage' = [stage EXCEPT ![t] = "closed"]
         /\ UNCHANGED <<attempt, actVars>>

\* The server retries a failed attempt, or hands the workflow an ActivityError.
NextAttempt(t) ==
    LET kind == stage[t] n == attempt[t] IN
    IF n < MaxAttemptsOf(kind)
    THEN Schedule(t, kind, n + 1) /\ UNCHANGED result
    ELSE kind # "finalize" /\ Finally(t, "failed")

\* The attempt raised, or its worker died and its timeout tells.
AttemptLost(t) ==
    /\ stage[t] \in Kinds
    /\ pc[Current(t)] \in {"raised", "dead"}
    /\ NextAttempt(t)
    /\ UNCHANGED <<storeVars, api, injected>>

-----------------------------------------------------------------------------
(* Timeouts, crashes, cancellations, database errors. *)

Inject(kind) ==
    /\ kind \in Faults
    /\ injected < MaxFaults
    /\ injected' = injected + 1

\* start_to_close elapses while the attempt still runs.
StartToCloseTimeout(t) ==
    /\ Inject("timeout")
    /\ stage[t] \in Kinds
    /\ Live(Current(t))
    /\ NextAttempt(t)
    /\ UNCHANGED <<storeVars, api>>

\* CHILD_WORKFLOW_TIMEOUT elapses: the server closes the workflow as timed out
\* and runs no more of its code, the finally block included.
Deadline(t) ==
    /\ Inject("deadline")
    /\ stage[t] \in Kinds \cup {"enrich"}
    /\ stage' = [stage EXCEPT ![t] = "expired"]
    /\ Finish(t, "failed")
    /\ UNCHANGED <<storeVars, actVars, api, attempt>>

\* start_child_workflow raises: JobWorkflow drops the exception, and the task with it.
DropChild(t) ==
    /\ Inject("refusedStart")
    /\ stage[t] = "none"
    /\ api \in {"started", "committed", "aborted"}
    /\ stage' = [stage EXCEPT ![t] = "dropped"]
    /\ UNCHANGED <<storeVars, actVars, api, attempt, result>>

\* The only answer that can be lost is one the workflow waits for.
Befalls(e) ==
    /\ \/ Inject("db") /\ DbError(e)
       \/ Inject("cancel") /\ Cancel(e)
       \/ Inject("crash") /\ Crash(e) /\ (Live(e) \/ e = Current(TaskOf(e)))
    /\ UNCHANGED <<api, wfVars>>

\* An execution that is under way goes on.
Work(e) ==
    /\ Live(e)
    /\ ActivityStep(e)
    /\ UNCHANGED <<api, wfVars, injected>>

-----------------------------------------------------------------------------
WorkflowStep(t) ==
    \/ StartChild(t)
    \/ FetchDone(t) \/ ParseDone(t) \/ EnrichDone(t)
    \/ SummarizeDone(t) \/ FinalizeDone(t)
    \/ AttemptLost(t)

Post == StartJobFails \/ StartJob \/ CommitJob \/ ApiCrash

Next ==
    \/ Post
    \/ \E t \in Tasks :
        WorkflowStep(t) \/ StartToCloseTimeout(t) \/ Deadline(t) \/ DropChild(t)
    \/ \E e \in Exec : Work(e) \/ Befalls(e)

Spec == Init /\ [][Next]_vars

\* The API finishes its request, and the server and the workers keep taking
\* steps.  No fault is ever forced to happen.
Fairness ==
    /\ WF_vars(CommitJob)
    /\ \A t \in Tasks : WF_vars(WorkflowStep(t))
    /\ \A e \in Exec : WF_vars(Work(e))

FairSpec == Spec /\ Fairness

-----------------------------------------------------------------------------
(* Safety *)

\* A job row that says COMPLETED is never ahead of the tasks: no task of the job
\* is pending then, although the row is written from counts that an earlier read
\* of another session made (summarize_records and finalize_task, second session).
CompletedRowMeansSettled ==
    job.status = "completed" => \A t \in Tasks : Settled(t)

\* A task that is still pending has no summary stored: summarize_records commits
\* the summaries and the task's status in one transaction.  list_tasks and
\* finalize_task, which look for summaries of pending tasks, rely on it.
NoSummariesWhilePending ==
    \A t \in Tasks : ~Settled(t) => sums[t] = 0

\* A task called completed has records and summaries to show for it, whichever of
\* summarize_records and finalize_task, racing with a timed-out attempt, said so.
CompletedMeansSummarized ==
    \A t \in Tasks : task[t] = "completed" => recs[t] > 0 /\ sums[t] > 0

\* A task is summarized no more often than the retry policy allows attempts, although
\* an attempt that timed out goes on and commits beside its retry.  With the default of
\* one attempt that is once, as get_summary expects of a record.
SummariesBounded == \A t \in Tasks : sums[t] <= MaxAttempts

\* The workflow of a job whose rows were never committed, which POST /jobs started all
\* the same, tells JobWorkflow of no completed task.
GhostsFail == api = "aborted" => \A t \in Tasks : result[t] # "completed"

\* When the workflow of a task has closed, its result is what the task's row says:
\* what JobWorkflow counts is what GET /jobs counts.  A fault can make the workflow
\* give up on a task that was completed, and never the reverse.
ResultAgreesWithRow ==
    committed => \A t \in Tasks : stage[t] = "closed" =>
        result[t] = task[t] \/ (injected > 0 /\ result[t] = "failed")

\* The counters of the job row never run ahead of the tasks, even when sessions
\* overwrite each other's columns: none counts a task that is not settled so.
RowNeverOvercounts ==
    /\ job.completed <= CountByStatus.completed
    /\ job.failed <= CountByStatus.failed

-----------------------------------------------------------------------------
(* Why the first three hold: inductive strengthenings of them *)

AllSettled == \A t \in Tasks : Settled(t)

\* Neither the job row nor a Job object in some session says COMPLETED early.
RowInv ==
    /\ CompletedRowMeansSettled
    /\ \A e \in Exec : copy[e].status = "completed" => AllSettled

Summarized(t) == recs[t] > 0 /\ sums[t] > 0

\* A summary with text is one of a stored record, and so is what finalize_task saw
\* when it chose to complete the task.
SummaryInv ==
    /\ NoSummariesWhilePending
    /\ CompletedMeansSummarized
    /\ \A t \in Tasks : worded[t] => Summarized(t)
    /\ \A e \in Exec : pc[e] = "markDone" => Summarized(TaskOf(e))

\* The inductive invariant behind the theorems about the rows: it ties what every
\* execution holds in its memory to what is stored.
IInv == RowInv /\ SummaryInv

-----------------------------------------------------------------------------
(* Action properties *)

\* A verdict on a task is not overturned by another activity of its workflow.
VerdictIsFinal ==
    [][\A t \in Tasks : Settled(t) => task'[t] = task[t]]_vars

-----------------------------------------------------------------------------
(* Liveness *)

\* Every task of an accepted job leaves "pending" in the end (finalize_task).
EveryTaskSettles == \A t \in Tasks : committed ~> Settled(t)

-----------------------------------------------------------------------------
(* What the documentation says and the code does not do *)

Quiet == (\A t \in Tasks : Over(t)) /\ (\A e \in Exec : ~Live(e))

\* When every workflow of the job has closed and no activity runs any more, the
\* job row says COMPLETED: `when completed + failed == total_tasks, job status ->
\* COMPLETED' (architecture_codebase.md:130-132).
RowConverges == committed /\ Quiet => job.status = "completed"
=============================================================================
