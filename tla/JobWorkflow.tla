---------------------------- MODULE JobWorkflow ----------------------------
(***************************************************************************)
(* JobWorkflow.run: the tasks of a job, numbered 1..size, are handed to    *)
(* child workflows batch by batch.  A run of the workflow starts the       *)
(* children of one batch, awaits their results, at most MaxConcurrentUrls  *)
(* at a time, and then continues as a new run with the tasks that remain   *)
(* and the counts so far.  The children live on their own.                 *)
(***************************************************************************)
EXTENDS Integers, FiniteSets

CONSTANTS
    MaxTasks,          \* bound on the size of a job
    BatchSize,         \* BATCH_SIZE
    MaxConcurrentUrls  \* MAX_CONCURRENT_URLS

ASSUME SizeAssumption == MaxTasks \in Nat
ASSUME BatchAssumption == BatchSize \in Nat \ {0}
ASSUME PermitAssumption == MaxConcurrentUrls \in Nat \ {0}

VARIABLES
    size,      \* how many tasks the job has
    child,     \* child[i]: the child workflow of task i
    first,     \* the first task of this run's argument `tasks'
    next,      \* the next task whose child is to be started
    phase,     \* where the run is: "starting", "awaiting" or "done"
    holding,   \* the children whose awaiter holds a permit of the semaphore
    collected, \* the children of the batch whose result has arrived
    previous,  \* the arguments previous_completed and previous_failed
    final      \* what the last run returned

vars == <<size, child, first, next, phase, holding, collected, previous, final>>

\* How a child may close: with a dict that says completed or failed, or with an
\* exception (its execution timeout, for one).
Outcomes == {"completed", "failed", "error"}

\* refused: start_child_workflow raised, and the exception was dropped.

AllTasks == 1..size
Last == IF first + BatchSize - 1 < size THEN first + BatchSize - 1 ELSE size
Batch == first..Last
Remaining == Last + 1..size

NoCount == [completed |-> 0, failed |-> 0]
NoResult == [total |-> 0, completed |-> 0, failed |-> 0]

Init ==
    /\ size \in 0..MaxTasks
    /\ child = [i \in 1..MaxTasks |-> "none"]
    /\ first = 1 /\ next = 1
    /\ phase = "starting"
    /\ holding = {} /\ collected = {}
    /\ previous = NoCount
    /\ final = NoResult

Among(S, status) == Cardinality({i \in S : child[i] \in status})

\* A job without URLs ends at once.
ReturnEmpty ==
    /\ phase = "starting"
    /\ AllTasks = {}
    /\ phase' = "done"
    /\ UNCHANGED <<size, child, first, next, holding, collected, previous, final>>

\* The child of the next task is started, or cannot be and is forgotten.
StartChild ==
    /\ phase = "starting"
    /\ next \in Batch
    /\ \E c \in {"running", "refused"} : child' = [child EXCEPT ![next] = c]
    /\ next' = next + 1
    /\ UNCHANGED <<size, first, phase, holding, collected, previous, final>>

Handles == {i \in Batch : child[i] \notin {"none", "refused"}}

BeginAwait ==
    /\ phase = "starting"
    /\ AllTasks # {} /\ next > Last
    /\ phase' = "awaiting"
    /\ UNCHANGED <<size, child, first, next, holding, collected, previous, final>>

\* Awaiters take the semaphore's permits in the order of the handles.
Acquire(i) ==
    /\ phase = "awaiting"
    /\ i \in Handles \ (holding \cup collected)
    /\ \A j \in Handles \ (holding \cup collected) : i <= j
    /\ Cardinality(holding) < MaxConcurrentUrls
    /\ holding' = holding \cup {i}
    /\ UNCHANGED <<size, child, first, next, phase, collected, previous, final>>

\* A permit that is not given back.
BrokenCollect(i) ==
    /\ i \in holding \ collected /\ child[i] \in Outcomes
    /\ collected' = collected \cup {i}
    /\ UNCHANGED <<size, child, first, next, phase, holding, previous, final>>

Collect(i) ==
    /\ i \in holding /\ child[i] \in Outcomes
    /\ collected' = collected \cup {i}
    /\ holding' = holding \ {i}
    /\ UNCHANGED <<size, child, first, next, phase, previous, final>>

\* Exceptions are not counted.
BrokenBatchCounts ==
    [completed |-> previous.completed + Among(collected, {"completed"}),
     failed |-> previous.failed + Among(collected, {"failed"})]

BatchCounts ==
    [completed |-> previous.completed + Among(collected, {"completed"}),
     failed |-> previous.failed + Among(collected, {"failed", "error"})]

\* The gather does not wait for the awaiters that have no permit yet.
BrokenGathered == phase = "awaiting" /\ holding = {}

Gathered == phase = "awaiting" /\ collected = Handles

\* The new run gets the tasks that remain and nothing else.
BrokenContinueAsNew ==
    /\ Gathered /\ Remaining # {}
    /\ first' = Last + 1
    /\ phase' = "starting"
    /\ holding' = {} /\ collected' = {}
    /\ previous' = NoCount
    /\ UNCHANGED <<size, child, next, final>>

ContinueAsNew ==
    /\ Gathered /\ Remaining # {}
    /\ first' = Last + 1
    /\ phase' = "starting"
    /\ holding' = {} /\ collected' = {}
    /\ previous' = BatchCounts
    /\ UNCHANGED <<size, child, next, final>>

\* The last run returns the number of tasks of its own batch as the total.
ReturnResult ==
    /\ Gathered /\ Remaining = {}
    /\ phase' = "done"
    /\ final' = [total |-> Cardinality(Batch),
                 completed |-> BatchCounts.completed,
                 failed |-> BatchCounts.failed]
    /\ UNCHANGED <<size, child, first, next, holding, collected, previous>>

\* The UrlWorkflow of task i closes, by itself or at its execution timeout.
CloseChild(i) ==
    /\ child[i] = "running"
    /\ \E o \in Outcomes : child' = [child EXCEPT ![i] = o]
    /\ UNCHANGED <<size, first, next, phase, holding, collected, previous, final>>

RunStep ==
    \/ ReturnEmpty \/ StartChild \/ BeginAwait
    \/ \E i \in AllTasks : Acquire(i) \/ Collect(i)
    \/ ContinueAsNew \/ ReturnResult

Next == RunStep \/ \E i \in AllTasks : CloseChild(i)

Spec == Init /\ [][Next]_vars

\* The workflow's worker takes its steps; every child has an execution timeout.
FairSpec ==
    /\ Spec
    /\ WF_vars(RunStep)
    /\ \A i \in 1..MaxTasks : WF_vars(CloseChild(i))

-----------------------------------------------------------------------------
\* However many tasks a job has, no more children run at a time than one batch
\* holds, because a run continues as new only when its whole batch has closed.
\* The semaphore is not what limits them: it limits the awaiters alone.
ChildrenBounded == Among(AllTasks, {"running"}) <= BatchSize

\* What one run hands to the next is the count of the children of every earlier
\* batch, each counted once, exceptions among the failed.
CountsCarried ==
    LET earlier == 1..first - 1 IN
    /\ previous.completed = Among(earlier, {"completed"})
    /\ previous.failed = Among(earlier, {"failed", "error"})

\* When the job workflow is done every task has been offered to a child, none is
\* still running, and the result counts each child that was started.
NothingLost ==
    phase = "done" =>
        /\ Among(AllTasks, {"none", "running"}) = 0
        /\ final.completed + final.failed = size - Among(AllTasks, {"refused"})

\* The job workflow ends, whatever the children and their starts come to.
JobEnds == <>(phase = "done")
=============================================================================
