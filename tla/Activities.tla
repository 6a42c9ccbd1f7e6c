----------------------------- MODULE Activities -----------------------------
(***************************************************************************)
(* The four Temporal activities that change a job's rows: fetch_url,       *)
(* parse_records, summarize_records and finalize_task.  An execution is    *)
(* one attempt of one activity for one task.  It runs in a worker, and its *)
(* steps interleave with those of every other execution: a step is what    *)
(* happens between two awaits that touch the database.                     *)
(*                                                                         *)
(* pc[e] is where execution e stands:                                      *)
(*   body       at work, nothing of it committed yet                       *)
(*   failing    in the except block, about to mark the task failed         *)
(*   listing    finalize_task has read a pending task                      *)
(*   markDone, markFailed   finalize_task has chosen the status to write   *)
(*   load, count, select, write    in the session that updates the job row *)
(*   returned, raised   over, the outcome on its way to the server         *)
(*   dead       over, its worker gone                                      *)
(***************************************************************************)
EXTENDS JobStore

CONSTANTS
    AttemptCap,  \* bound on the attempts of one activity
    FeedFaults   \* feeds, S3 objects and summaries may fail

ASSUME AttemptAssumption == AttemptCap \in Nat \ {0}
ASSUME FeedAssumption == FeedFaults \in BOOLEAN

VARIABLES
    pc,    \* pc[e], as above
    ret,   \* ret[e]: the outcome e returns, or is on its way to return
    copy,  \* copy[e]: the Job object of e's job session
    seen   \* seen[e]: the job row its update has SELECTed

actVars == <<pc, ret, copy, seen>>

Kinds == {"fetch", "parse", "summarize", "finalize"}
Attempts == 1..AttemptCap
Exec == Tasks \X Kinds \X Attempts
TaskOf(e) == e[1]
KindOf(e) == e[2]

JobSteps == {"load", "count", "select", "write"}
Running == {"body", "failing", "listing", "markDone", "markFailed"} \cup JobSteps
PCs == {"idle", "returned", "raised", "dead"} \cup Running
Live(e) == pc[e] \in Running

ActTypeOK ==
    /\ pc \in [Exec -> PCs]
    /\ ret \in [Exec -> {"none", "ok", "failed"}]
    /\ copy \in [Exec -> JobRow]
    /\ seen \in [Exec -> JobRow]

ActInit ==
    /\ pc = [e \in Exec |-> "idle"]
    /\ ret = [e \in Exec |-> "none"]
    /\ copy = [e \in Exec |-> NewJob]
    /\ seen = [e \in Exec |-> NewJob]

At(e, kind, place) == KindOf(e) = kind /\ pc[e] = place
Goto(e, place) == pc' = [pc EXCEPT ![e] = place]
Outcome(e, r) == ret' = [ret EXCEPT ![e] = r]
Return(e, r) == Goto(e, "returned") /\ Outcome(e, r)
ForgetJob(e) ==
    /\ copy' = [copy EXCEPT ![e] = NewJob]
    /\ seen' = [seen EXCEPT ![e] = NewJob]

-----------------------------------------------------------------------------
(* fetch_url *)

\* The feed is fetched and stored in S3 under the task's key.
FetchStored(e) ==
    /\ At(e, "fetch", "body")
    /\ Return(e, "ok")
    /\ UNCHANGED <<storeVars, copy, seen>>

FetchRaises(e) ==
    /\ FeedFaults
    /\ At(e, "fetch", "body")
    /\ Goto(e, "failing")
    /\ UNCHANGED <<storeVars, ret, copy, seen>>

\* The handler marks the task failed, if it sees one; the job row is left alone.
FetchMarkFailed(e) ==
    /\ At(e, "fetch", "failing")
    /\ IF committed THEN SetTask(TaskOf(e), "failed") ELSE UNCHANGED task
    /\ Return(e, "failed")
    /\ UNCHANGED <<committed, job, recs, sums, worded, copy, seen>>

-----------------------------------------------------------------------------
(* parse_records *)

\* A feed may hold no article: then there is nothing to commit.
ParseCommit(e) ==
    /\ At(e, "parse", "body") /\ committed
    /\ \E n \in {0, 1} : recs' = [recs EXCEPT ![TaskOf(e)] = @ + n]
    /\ Return(e, "ok")
    /\ UNCHANGED <<committed, job, task, sums, worded, copy, seen>>

ParseRaises(e) ==
    /\ FeedFaults
    /\ At(e, "parse", "body") /\ committed
    /\ Goto(e, "failing")
    /\ UNCHANGED <<storeVars, ret, copy, seen>>

ParseMarkFailed(e) ==
    /\ At(e, "parse", "failing")
    /\ SetTask(TaskOf(e), "failed")
    /\ Return(e, "failed")
    /\ UNCHANGED <<committed, job, recs, sums, worded, copy, seen>>

\* Without a row there is nothing to do, and nothing went wrong.
BrokenNoTask(e) ==
    /\ At(e, "parse", "body") \/ At(e, "summarize", "body")
    /\ ~committed
    /\ Return(e, "ok")
    /\ UNCHANGED <<storeVars, copy, seen>>

\* parse_records and summarize_records return at once when the task's row is
\* not there to be read.
NoTask(e) ==
    /\ At(e, "parse", "body") \/ At(e, "summarize", "body")
    /\ ~committed
    /\ Return(e, "failed")
    /\ UNCHANGED <<storeVars, copy, seen>>

-----------------------------------------------------------------------------
(* summarize_records *)

\* The summaries are committed without the task's status.
BrokenSummarizeCommit(e) ==
    /\ At(e, "summarize", "body") /\ committed
    /\ recs[TaskOf(e)] > 0
    /\ sums' = [sums EXCEPT ![TaskOf(e)] = @ + 1]
    /\ UNCHANGED <<task, worded>>
    /\ Goto(e, "load") /\ Outcome(e, "ok")
    /\ UNCHANGED <<committed, job, recs, copy, seen>>

\* Summaries and the task's COMPLETED are one transaction.  A record without
\* text to summarize gets the empty summary.
SummarizeCommit(e) ==
    LET t == TaskOf(e) IN
    /\ At(e, "summarize", "body") /\ committed
    /\ recs[t] > 0
    /\ sums' = [sums EXCEPT ![t] = @ + 1]
    /\ \E text \in BOOLEAN : worded' = [worded EXCEPT ![t] = @ \/ text]
    /\ SetTask(t, "completed")
    /\ Goto(e, "load") /\ Outcome(e, "ok")
    /\ UNCHANGED <<committed, job, recs, copy, seen>>

\* No record to summarize, or no summary of any record.
SummarizeRaises(e) ==
    /\ At(e, "summarize", "body") /\ committed
    /\ recs[TaskOf(e)] = 0 \/ FeedFaults
    /\ Goto(e, "failing")
    /\ UNCHANGED <<storeVars, ret, copy, seen>>

\* The handler answers with success.
BrokenSummarizeMarkFailed(e) ==
    /\ At(e, "summarize", "failing")
    /\ SetTask(TaskOf(e), "failed")
    /\ Goto(e, "load") /\ Outcome(e, "ok")
    /\ UNCHANGED <<committed, job, recs, sums, worded, copy, seen>>

\* The handler leaves the task to finalize_task.
ReopeningMarkFailed(e) ==
    /\ At(e, "summarize", "failing")
    /\ SetTask(TaskOf(e), "pending")
    /\ Goto(e, "load") /\ Outcome(e, "failed")
    /\ UNCHANGED <<committed, job, recs, sums, worded, copy, seen>>

SummarizeMarkFailed(e) ==
    /\ At(e, "summarize", "failing")
    /\ SetTask(TaskOf(e), "failed")
    /\ Goto(e, "load") /\ Outcome(e, "failed")
    /\ UNCHANGED <<committed, job, recs, sums, worded, copy, seen>>

-----------------------------------------------------------------------------
(* finalize_task *)

\* The task is judged whatever its status.
BrokenFinalizeRead(e) ==
    /\ At(e, "finalize", "body")
    /\ IF committed
       THEN Goto(e, "listing") /\ UNCHANGED ret
       ELSE Return(e, "ok")
    /\ UNCHANGED <<storeVars, copy, seen>>

\* A task that is absent, or no longer pending, is none of finalize's business:
\* it returns without touching the job row either.
FinalizeRead(e) ==
    /\ At(e, "finalize", "body")
    /\ IF committed /\ ~Settled(TaskOf(e))
       THEN Goto(e, "listing") /\ UNCHANGED ret
       ELSE Return(e, "ok")
    /\ UNCHANGED <<storeVars, copy, seen>>

\* Records are enough for the task to be called completed.
BrokenFinalizeList(e) ==
    /\ At(e, "finalize", "listing")
    /\ Goto(e, IF recs[TaskOf(e)] > 0 THEN "markDone" ELSE "markFailed")
    /\ UNCHANGED <<storeVars, ret, copy, seen>>

FinalizeList(e) ==
    /\ At(e, "finalize", "listing")
    /\ Goto(e, IF recs[TaskOf(e)] > 0 /\ worded[TaskOf(e)]
               THEN "markDone" ELSE "markFailed")
    /\ UNCHANGED <<storeVars, ret, copy, seen>>

\* The write does not look whether the task is still pending.
FinalizeWrite(e) ==
    /\ At(e, "finalize", "markDone") \/ At(e, "finalize", "markFailed")
    /\ SetTask(TaskOf(e), IF pc[e] = "markDone" THEN "completed" ELSE "failed")
    /\ Goto(e, "load") /\ Outcome(e, "ok")
    /\ UNCHANGED <<committed, job, recs, sums, worded, copy, seen>>

-----------------------------------------------------------------------------
(* The second session of summarize_records and finalize_task: read the job,
   count its tasks, then update its row (SELECT, then flush and commit).     *)

LoadJob(e) ==
    /\ pc[e] = "load"
    /\ copy' = [copy EXCEPT ![e] = job]
    /\ Goto(e, "count")
    /\ UNCHANGED <<storeVars, ret, seen>>

CountTasks(e) ==
    /\ pc[e] = "count"
    /\ copy' = [copy EXCEPT ![e] = UpdateProgress(@, CountByStatus)]
    /\ Goto(e, "select")
    /\ UNCHANGED <<storeVars, ret, seen>>

SelectJob(e) ==
    /\ pc[e] = "select"
    /\ seen' = [seen EXCEPT ![e] = job]
    /\ Goto(e, "write")
    /\ UNCHANGED <<storeVars, ret, copy>>

WriteJob(e) ==
    /\ pc[e] = "write"
    /\ job' = Flush(seen[e], copy[e], job)
    /\ ForgetJob(e)
    /\ Goto(e, "returned")
    /\ UNCHANGED <<committed, task, recs, sums, worded, ret>>

JobUpdate(e) == LoadJob(e) \/ CountTasks(e) \/ SelectJob(e) \/ WriteJob(e)

ActivityStep(e) ==
    \/ FetchStored(e) \/ FetchRaises(e) \/ FetchMarkFailed(e)
    \/ ParseCommit(e) \/ ParseRaises(e) \/ ParseMarkFailed(e)
    \/ NoTask(e)
    \/ SummarizeCommit(e) \/ SummarizeRaises(e) \/ SummarizeMarkFailed(e)
    \/ FinalizeRead(e) \/ FinalizeList(e) \/ FinalizeWrite(e)
    \/ JobUpdate(e)

-----------------------------------------------------------------------------
(* What can befall a running execution from outside. *)

\* Whether e is between the commit of its task and its own return, inside the
\* try block that treats every exception as a failure of the task.
CompletedButTrying(e) ==
    KindOf(e) = "summarize" /\ pc[e] \in JobSteps /\ ret[e] = "ok"

\* The database refuses a statement.  In an activity's own session the handler's
\* update is refused too and the activity raises, unless it was the commit that
\* failed, after which the session works again; fetch_url's body uses no session.
\* A failure of the job session leads summarize_records to its handler, and
\* elsewhere is logged and swallowed.
DbError(e) ==
    /\ Live(e)
    /\ ~At(e, "fetch", "body")
    /\ ForgetJob(e)
    /\ \/ /\ pc[e] \notin JobSteps
          /\ Goto(e, "raised")
       \/ /\ At(e, "parse", "body") \/ At(e, "summarize", "body")
          /\ committed
          /\ Goto(e, "failing")
       \/ /\ pc[e] \in JobSteps
          /\ Goto(e, IF CompletedButTrying(e) THEN "failing" ELSE "returned")
    /\ UNCHANGED <<storeVars, ret>>

\* CancelledError at an await, when the worker shuts down or gives up on an
\* attempt that overran.  Only `except BaseException' catches it.
Cancel(e) ==
    /\ Live(e)
    /\ ForgetJob(e)
    /\ \/ /\ \/ (At(e, "parse", "body") \/ At(e, "summarize", "body")) /\ committed
             \/ CompletedButTrying(e)
          /\ Goto(e, "failing")
       \/ /\ ~CompletedButTrying(e)
          /\ Goto(e, "raised")
    /\ UNCHANGED <<storeVars, ret>>

\* The worker process is gone; an open transaction is rolled back.  So is an answer
\* that the server has not had: what the execution committed stays.
Crash(e) ==
    /\ Live(e) \/ pc[e] = "returned"
    /\ ForgetJob(e)
    /\ Goto(e, "dead")
    /\ UNCHANGED <<storeVars, ret>>
=============================================================================
