--------------------------- MODULE TaskProcessor ---------------------------
(***************************************************************************)
(* TaskProcessor.process_task: one task from fetch to job progress in one  *)
(* call.  The articles are fetched side by side, at most PerDomain at a    *)
(* time from one domain.  Repositories flush into a session that the       *)
(* caller commits; `row', `stored' and `summed' are what that session has. *)
(* The processor has a storage.                                            *)
(***************************************************************************)
EXTENDS Integers, FiniteSets

CONSTANTS
    Records,   \* the records of the feed that have a link
    Domains,
    PerDomain  \* CONCURRENT_PER_DOMAIN

ASSUME RecordAssumption == IsFiniteSet(Records)
ASSUME PermitAssumption == PerDomain \in Nat \ {0}

VARIABLES
    domain,    \* domain[r]: the host of record r's link
    stage,     \* where the call stands
    article,   \* article[r]: where the coroutine _fetch_one stands
    status,    \* the status of the Task in memory
    row,       \* the status in the task's row
    stored,    \* the records are inserted
    summed,    \* the summaries are inserted
    cancelled  \* the call was cancelled

vars == <<domain, stage, article, status, row, stored, summed, cancelled>>
sessionVars == <<row, stored, summed>>

Pipeline == {"fetch", "parse", "enrich", "store", "summarize", "update", "progress"}
PermanentBranch == {"rollback", "updateFailed", "progressFailed"}
Ends == {"returned", "raised"}

InFlight == {"fetching", "storing", "stored"}
Fallible == {"fetching", "storing"}
Over == {"done", "cancelled"}

Init ==
    /\ domain \in [Records -> Domains]
    /\ stage = "fetch"
    /\ article = [r \in Records |-> "waiting"]
    /\ status = "pending" /\ row = "pending"
    /\ stored = FALSE /\ summed = FALSE /\ cancelled = FALSE

-----------------------------------------------------------------------------
(* _fetch_full_contents *)

Goto(r, place) == stage = "enrich" /\ article' = [article EXCEPT ![r] = place]

\* A permit that is not given back.
LeakyBusy(d) == Cardinality({r \in Records : article[r] # "waiting" /\ domain[r] = d})

Busy(d) == Cardinality({r \in Records : article[r] \in InFlight /\ domain[r] = d})

Begin(r) ==
    /\ article[r] = "waiting"
    /\ Busy(domain[r]) < PerDomain
    /\ Goto(r, "fetching")

\* The page is there, and the text extracted from it is no garbage.
Extracted(r) == article[r] = "fetching" /\ Goto(r, "storing")

StoreStream(r) == article[r] = "storing" /\ Goto(r, "stored")

\* The record in memory gets the text and its key, which no await separates.
Keep(r) == article[r] = "stored" /\ Goto(r, "done")

\* There is no text, or an exception: except Exception lets the record go without
\* its article.
Swallow(r) == article[r] \in Fallible /\ Goto(r, "done")

\* Every coroutine still under way is cancelled with the call, and takes no other
\* step; one may also be answered by a cancellation of what it awaits.
CancelArticle(r) ==
    /\ article[r] \notin Over
    /\ cancelled \/ article[r] \in InFlight
    /\ Goto(r, "cancelled")

ArticleStep(r) ==
    /\ \/ /\ ~cancelled
          /\ \/ Begin(r) \/ Extracted(r) \/ StoreStream(r) \/ Keep(r) \/ Swallow(r)
       \/ CancelArticle(r)
    /\ UNCHANGED <<domain, stage, status, sessionVars, cancelled>>

\* urlparse raises before the semaphore is asked for: the exception is one of the
\* results of the gather, and is dropped there.  Nothing makes a link a bad one, so
\* this is no part of what an article does in the end.
BadLink(r) ==
    /\ ~cancelled
    /\ article[r] = "waiting"
    /\ Goto(r, "done")
    /\ UNCHANGED <<domain, stage, status, sessionVars, cancelled>>

\* gather raises the first exception and leaves the other coroutines alone.
BrokenGathered == \E r \in Records : article[r] \in Over

Gathered == \A r \in Records : article[r] \in Over

\* gather returns a child's CancelledError among its results.
MustRaise == cancelled \/ \E r \in Records : article[r] = "cancelled"

-----------------------------------------------------------------------------
(* process_task *)

MoveOn(from, to) == stage = from /\ stage' = to /\ UNCHANGED domain
Move(from, to) == MoveOn(from, to) /\ UNCHANGED cancelled

\* Awaits that change nothing here: fetch, parse, the gather, the rollback of a
\* session without changes, and the job's progress.
Proceed ==
    /\ \/ Move("fetch", "parse")
       \/ Move("parse", "enrich")
       \/ Gathered /\ ~MustRaise /\ Move("enrich", "store")
       \/ Move("rollback", "updateFailed")
       \/ \E s \in {"progress", "progressFailed"} : Move(s, "returned")
    /\ UNCHANGED <<article, status, sessionVars>>

\* A permanent failure of the feed; that of an article is swallowed.
PermanentFailure ==
    /\ Move("fetch", "rollback")
    /\ status' = "failed"
    /\ UNCHANGED <<article, sessionVars>>

StoreRecords ==
    /\ Move("store", "summarize")
    /\ stored' = TRUE
    /\ UNCHANGED <<article, status, row, summed>>

\* The task is called completed with an insert still to be awaited.
BrokenSummarize ==
    /\ Move("summarize", "update")
    /\ status' = "completed"
    /\ UNCHANGED <<article, row, stored, summed>>

Summarize ==
    /\ Move("summarize", "update")
    /\ summed' = TRUE
    /\ status' = "completed"
    /\ UNCHANGED <<article, row, stored>>

UpdateTask ==
    /\ \/ Move("update", "progress")
       \/ Move("updateFailed", "progressFailed")
    /\ row' = status
    /\ UNCHANGED <<article, status, stored, summed>>

Awaiting == (Pipeline \ {"enrich"}) \cup PermanentBranch

\* What the call awaits raises.  A RuntimeError other than a permanent failure is
\* raised again with the task left as it is; any other exception marks it failed.  In
\* the branch of the permanent failure there is no handler.
Raise ==
    /\ \E s \in Awaiting :
        /\ Move(s, "raised")
        /\ status' = status \/ (s \in Pipeline /\ status' = "failed")
    /\ UNCHANGED <<article, sessionVars>>

\* A cancellation, the one that comes out of the gather included.
RaiseCancelled ==
    /\ \/ \E s \in Awaiting : MoveOn(s, "raised")
       \/ Gathered /\ MustRaise /\ MoveOn("enrich", "raised")
    /\ cancelled' = TRUE
    /\ status' = "failed"
    /\ UNCHANGED <<article, sessionVars>>

\* The cancellation of a call that awaits its articles reaches them first.
CancelGather ==
    /\ stage = "enrich" /\ ~cancelled
    /\ cancelled' = TRUE
    /\ UNCHANGED <<domain, stage, article, status, sessionVars>>

TaskStep ==
    \/ Proceed \/ PermanentFailure \/ StoreRecords \/ Summarize \/ UpdateTask
    \/ Raise \/ RaiseCancelled

Next == TaskStep \/ CancelGather \/ \E r \in Records : ArticleStep(r) \/ BadLink(r)

Spec == Init /\ [][Next]_vars

\* Whatever the call and its coroutines await ends.
FairSpec ==
    /\ Spec
    /\ WF_vars(TaskStep)
    /\ \A r \in Records : WF_vars(ArticleStep(r))

-----------------------------------------------------------------------------
\* The call does not move on, and does not end, with a coroutine still under way.
NoneLeftBehind == stage # "enrich" => \A r \in Records : article[r] \notin InFlight

\* A cancellation that only a coroutine noticed is not lost among the results of
\* the gather: the call raises it and the task does not get as far as its records.
\* This is what the code does; docs/FIXES.md:39-41 has the records saved (see
\* PartialResultsSaved).
CancellationRaises == (\E r \in Records : article[r] = "cancelled") => ~stored

\* "completed" means records and summaries, in the row and in the Task that a caller
\* sees, whichever way the call ends; a task that failed in the row has none.  A task
\* is returned with the verdict of its row, and never without one.
ReturnedTaskIsStored ==
    /\ "completed" \in {status, row} => stored /\ summed
    /\ row = "failed" => status = "failed" /\ ~stored
    /\ stage = "returned" => status = row /\ row # "pending"

\* The call ends.
CallEnds == <>(stage \in Ends)

-----------------------------------------------------------------------------
(* What the documentation says and the code does not do *)

\* A cancellation in _fetch_full_contents does not lose the records whose articles were
\* over: "`CancelledError` is caught and partial results are saved" (docs/FIXES.md:39).
PartialResultsSaved ==
    /\ stage \in Ends
    /\ {"cancelled", "done"} \subseteq {article[r] : r \in Records}
    => stored
=============================================================================
