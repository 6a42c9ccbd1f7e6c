--------------------------- MODULE Clients_proofs ---------------------------
(***************************************************************************)
(* Proofs about JobApi and TaskList, for any tasks, bounds and faults:     *)
(* every step of the system is one that JobProgress allows; a client that  *)
(* was told the job is completed is not told otherwise; what a listing     *)
(* says of a task that was pending when it began is not ahead of the rows, *)
(* and does not contradict what GET /jobs/{id} answered before.            *)
(***************************************************************************)
EXTENDS TaskList, UrlWorkflow_proofs

(***************************************************************************)
(* GET /jobs/{id}: what a client is told of the job.                       *)
(***************************************************************************)
\* Where an execution can stand only once it has read a committed row.
SawRow(e) ==
    \/ pc[e] \in JobSteps \cup {"listing", "markDone", "markFailed"}
    \/ pc[e] = "failing" /\ KindOf(e) # "fetch"

\* No execution works on rows that are not there.
NoGhosts == ~committed => \A e \in Exec : ~SawRow(e)

\* What a poll in progress has read, and the last answer, still hold.
PollInv ==
    /\ poll # "idle" => committed
    /\ poll = "completed" => AllSettled
    /\ answer = "completed" => committed /\ AllSettled

ApiInv == TypeOK /\ RowInv /\ NoGhosts /\ PollInv

-----------------------------------------------------------------------------
LEMMA NonePending == AllSettled <=> TasksWith("pending") = {}
BY DEF AllSettled, Settled, TasksWith

\* When no task is pending the counts add up to the number of tasks.
LEMMA SettledTellsCounts ==
    ASSUME TypeOK, AllSettled
    PROVE  CountByStatus.completed + CountByStatus.failed = Cardinality(Tasks)
<1> DEFINE C == TasksWith("completed")
           F == TasksWith("failed")
<1>1. C \in SUBSET Tasks /\ F \in SUBSET Tasks /\ C \cap F = {}
  BY DEF TasksWith
<1>2. C \cup F = Tasks
  BY DEF TasksWith, AllSettled, Settled, TypeOK, StoreTypeOK, TaskStatus
<1>3. IsFiniteSet(C) /\ IsFiniteSet(F)
  BY <1>1, TasksAssumption, FS_Subset
<1>4. Cardinality(C \cup F) = Cardinality(C) + Cardinality(F) - Cardinality(C \cap F)
  BY <1>3, FS_Union
<1>5. /\ Cardinality(C) \in Nat /\ Cardinality(F) \in Nat
      /\ Cardinality(C \cap F) = 0
  BY <1>1, <1>3, FS_CardinalityType, FS_EmptySet
<1>6. Cardinality(Tasks) = Cardinality(C \cup F)
  BY <1>2
<1>7. Cardinality(Tasks) = Cardinality(C) + Cardinality(F)
  BY <1>4, <1>5, <1>6
<1> QED
  BY <1>7 DEF CountByStatus

\* A job that exists exists for good, and only the commit of POST makes it.
LEMMA CommittedForGood ==
    ASSUME TypeOK, [Next]_vars
    PROVE  committed' = committed \/ (CommitJob /\ committed')
<1>1. CASE Post
  BY <1>1 DEF Post, StartJobFails, StartJob, CommitJob, ApiCrash, storeVars
<1>2. ASSUME NEW t \in Tasks,
             WorkflowStep(t) \/ StartToCloseTimeout(t) \/ Deadline(t) \/ DropChild(t)
      PROVE  committed' = committed
  BY <1>2, WorkflowType DEF StartToCloseTimeout, Deadline, DropChild, storeVars
<1>3. ASSUME NEW e \in Exec, Befalls(e) PROVE committed' = committed
  BY <1>3 DEF Befalls, DbError, Cancel, Crash, storeVars
<1>4. ASSUME NEW e \in Exec, Work(e) PROVE committed' = committed
  BY <1>4 DEF Work, ActivityStep, JobUpdate, storeVars, FetchStored,
     FetchRaises, FetchMarkFailed, ParseCommit, ParseRaises, ParseMarkFailed,
     NoTask, SummarizeCommit, SummarizeRaises, SummarizeMarkFailed,
     FinalizeRead, FinalizeList, FinalizeWrite, LoadJob, CountTasks, SelectJob,
     WriteJob
<1>5. CASE UNCHANGED vars
  BY <1>5 DEF vars, storeVars
<1> QED
  BY <1>1, <1>2, <1>3, <1>4, <1>5 DEF Next

LEMMA NoGhostsNext ==
    ASSUME TypeOK, NoGhosts, [Next]_vars
    PROVE  NoGhosts'
<1> SUFFICES ASSUME ~committed', NEW f \in Exec
             PROVE  ~SawRow(f)'
  BY DEF NoGhosts
<1>c. ~committed /\ ~SawRow(f) /\ pc \in [Exec -> PCs]
  BY CommittedForGood DEF NoGhosts, TypeOK, ActTypeOK
<1>k. ASSUME pc'[f] = pc[f] \/ pc'[f] \in {"idle", "body", "returned", "raised", "dead"}
      PROVE  ~SawRow(f)'
  BY <1>c, <1>k DEF SawRow, JobSteps, KindOf
<1>1. CASE Post
  BY <1>1, <1>k DEF Post, StartJobFails, StartJob, CommitJob, ApiCrash, actVars
<1>2. ASSUME NEW t \in Tasks,
             WorkflowStep(t) \/ StartToCloseTimeout(t) \/ Deadline(t) \/ DropChild(t)
      PROVE  ~SawRow(f)'
  <2>1. ASSUME NEW kind, NEW n, Schedule(t, kind, n) PROVE ~SawRow(f)'
    BY <2>1, <1>k DEF Schedule
  <2>2. UNCHANGED pc \/ \E kind, n : Schedule(t, kind, n)
    BY <1>2 DEF WorkflowStep, StartChild, FetchDone, ParseDone, EnterEnrich,
       EnrichDone, SummarizeDone, FinalizeDone, AttemptLost,
       StartToCloseTimeout, Deadline, DropChild, NextAttempt, Finally, actVars
  <2> QED
    BY <2>1, <2>2, <1>k
<1>3. ASSUME NEW e \in Exec, Befalls(e) PROVE ~SawRow(f)'
  <2>1. ~SawRow(e) /\ KindOf(e) \in Kinds
    BY <1>c DEF NoGhosts, KindOf, Exec
  <2>2. Goto(e, "raised") \/ Goto(e, "dead")
    BY <1>3, <1>c, <2>1 DEF Befalls, DbError, Cancel, Crash, CompletedButTrying,
       SawRow, At
  <2> QED
    BY <2>2, <1>c, <1>k DEF Goto
<1>4. ASSUME NEW e \in Exec, Work(e) PROVE ~SawRow(f)'
  <2>1. ~SawRow(e)
    BY <1>c DEF NoGhosts
  <2>2. \/ FetchStored(e) \/ FetchRaises(e) \/ FetchMarkFailed(e)
        \/ NoTask(e) \/ FinalizeRead(e)
    BY <1>4, <1>c, <2>1 DEF Work, ActivityStep, JobUpdate, SawRow, JobSteps, At,
       ParseCommit, ParseRaises, ParseMarkFailed, SummarizeCommit,
       SummarizeRaises, SummarizeMarkFailed, FinalizeList, FinalizeWrite,
       LoadJob, CountTasks, SelectJob, WriteJob
  <2>3. CASE FetchRaises(e)
    BY <2>3, <1>c, <1>k DEF FetchRaises, Goto, At, SawRow, JobSteps, KindOf
  <2>4. CASE ~FetchRaises(e)
    BY <2>2, <2>4, <1>c, <1>k DEF FetchStored, FetchMarkFailed, NoTask,
       FinalizeRead, Return, Goto
  <2> QED
    BY <2>3, <2>4
<1>5. CASE UNCHANGED vars
  BY <1>5, <1>k DEF vars, actVars
<1> QED
  BY <1>1, <1>2, <1>3, <1>4, <1>5 DEF Next

\* The counts of the safety net add up exactly when no task is pending, so an
\* answer is "completed" just when no task is pending.
LEMMA AnswerIsRight ==
    ASSUME ApiInv, PollAnswer
    PROVE  answer' = "completed" <=> AllSettled
BY NonePending, SettledTellsCounts, CountType, TasksAssumption, FS_CardinalityType
   DEF PollAnswer, ApiInv, PollInv

LEMMA ApiInvNext == ApiInv /\ [ApiNext]_apiVars => ApiInv'
<1> SUFFICES ASSUME ApiInv, [ApiNext]_apiVars PROVE ApiInv'
  OBVIOUS
<1>0. [Next]_vars
  BY DEF ApiNext, apiVars, PollRead, PollAnswer
<1>1. TypeOK' /\ RowInv' /\ NoGhosts'
  BY <1>0, NextType, RowInvNext, NoGhostsNext DEF ApiInv
<1>2. (committed => committed') /\ (AllSettled => AllSettled')
  BY <1>0, CommittedForGood, SettledForGood DEF AllSettled, ApiInv
<1>3. CASE PollRead
  <2>1. job.status = "completed" => AllSettled
    BY DEF ApiInv, RowInv, CompletedRowMeansSettled, AllSettled
  <2> QED
    BY <1>1, <1>2, <1>3, <2>1 DEF PollRead, ApiInv, PollInv
<1>4. CASE PollAnswer
  <2>1. committed /\ (answer' = "completed" => AllSettled) /\ poll' = "idle"
    BY <1>4, AnswerIsRight DEF PollAnswer, ApiInv, PollInv
  <2> QED
    BY <1>1, <1>2, <2>1 DEF ApiInv, PollInv
<1>5. CASE UNCHANGED <<poll, answer>>
  BY <1>1, <1>2, <1>5 DEF ApiInv, PollInv
<1> QED
  BY <1>3, <1>4, <1>5 DEF ApiNext, apiVars

LEMMA ApiInvInit == ApiInit => ApiInv
<1>1. Init => NoGhosts
  BY DEF Init, ActInit, NoGhosts, SawRow, JobSteps
<1> QED
  BY <1>1, InitType, RowInvInit DEF ApiInit, ApiInv, PollInv

-----------------------------------------------------------------------------
(* The client *)

LEMMA RetractionStep ==
    ASSUME ApiInv, [ApiNext]_apiVars
    PROVE  answer = "completed" => answer' = "completed"
<1>1. CASE PollAnswer
  BY <1>1, AnswerIsRight DEF ApiInv, PollInv
<1>2. CASE UNCHANGED answer
  BY <1>2
<1> QED
  BY <1>1, <1>2 DEF ApiNext, PollRead, apiVars

\* Once GET /jobs/{id} has answered "completed" it never answers anything else,
\* although the job row itself may go back to "running".
THEOREM NeverRetracted == ApiSpec => CompletionNeverRetracted
<1>1. ApiInv /\ [ApiNext]_apiVars
      => [answer = "completed" => answer' = "completed"]_apiVars
  BY RetractionStep
<1> QED
  BY <1>1, ApiInvInit, ApiInvNext, PTL DEF ApiSpec, CompletionNeverRetracted

-----------------------------------------------------------------------------
(* The system implements JobProgress *)

\* A step that writes a task's status settles that task, which is known, or
\* rewrites the verdict on one that is settled.
LEMMA SettleStep ==
    ASSUME ApiInv, Next, UNCHANGED <<poll, answer>>, task' # task
    PROVE  [Promise!Next]_(Promise!pvars)
<1>1. PICK e \in Exec :
        /\ task' = [task EXCEPT ![TaskOf(e)] = task'[TaskOf(e)]]
        /\ task'[TaskOf(e)] \in {"completed", "failed"}
  BY TaskWrites DEF ApiInv
<1> DEFINE t == TaskOf(e)
<1>2. t \in Tasks /\ task \in [Tasks -> TaskStatus]
  BY DEF TaskOf, Exec, ApiInv, TypeOK, StoreTypeOK
<1>3. TasksWith("pending")' = TasksWith("pending") \ {t}
  BY <1>1, <1>2 DEF TasksWith
<1>4. committed /\ committed' = committed /\ job' = job
  <2>1. PICK f \in Exec : Work(f)
    <3>1. CASE Post
      BY <3>1 DEF Post, StartJobFails, StartJob, CommitJob, ApiCrash, storeVars
    <3>2. ASSUME NEW u \in Tasks,
                 WorkflowStep(u) \/ StartToCloseTimeout(u) \/ Deadline(u) \/ DropChild(u)
          PROVE  FALSE
      BY <3>2, WorkflowType DEF ApiInv, StartToCloseTimeout, Deadline, DropChild, storeVars
    <3>3. ASSUME NEW f \in Exec, Befalls(f) PROVE FALSE
      BY <3>3 DEF Befalls, DbError, Cancel, Crash, storeVars
    <3> QED
      BY <3>1, <3>2, <3>3 DEF Next
  <2>2. \/ FetchMarkFailed(f) \/ ParseMarkFailed(f) \/ SummarizeCommit(f)
        \/ SummarizeMarkFailed(f) \/ FinalizeWrite(f)
    BY <2>1 DEF Work, ActivityStep, JobUpdate, storeVars, FetchStored,
       FetchRaises, ParseCommit, ParseRaises, NoTask, SummarizeRaises,
       FinalizeRead, FinalizeList, LoadJob, CountTasks, SelectJob, WriteJob
  <2>3. SawRow(f) => committed
    BY DEF ApiInv, NoGhosts
  <2>4. committed
    BY <2>2, <2>3 DEF FetchMarkFailed, ParseMarkFailed, SummarizeCommit,
       SummarizeMarkFailed, FinalizeWrite, SawRow, At
  <2> QED
    BY <2>2, <2>4 DEF FetchMarkFailed, ParseMarkFailed, SummarizeCommit,
       SummarizeMarkFailed, FinalizeWrite
<1>5. CASE t \in TasksWith("pending")
  <2>1. Promise!Settle(t)
    BY <1>3, <1>4, <1>5 DEF Promise!Settle
  <2> QED
    BY <2>1, <1>2 DEF Promise!Next
<1>6. CASE t \notin TasksWith("pending")
  BY <1>3, <1>4, <1>6 DEF Promise!pvars
<1> QED
  BY <1>5, <1>6

\* A step that writes the job row finds every task settled, or leaves what the row
\* says of completion as it is.
LEMMA RowStep ==
    ASSUME ApiInv, Next, UNCHANGED <<poll, answer>>, task' = task
    PROVE  [Promise!Next]_(Promise!pvars)
<1>1. TasksWith("pending")' = TasksWith("pending")
  BY DEF TasksWith
<1>2. CASE committed' # committed
  <2>1. CommitJob /\ committed' /\ ~committed
    BY <1>2, CommittedForGood DEF ApiInv, TypeOK, StoreTypeOK
  <2> QED
    BY <1>1, <2>1 DEF CommitJob, Promise!Next, Promise!Accept
<1>3. CASE committed' = committed /\ job' = job
  BY <1>1, <1>3 DEF Promise!pvars
<1>4. CASE committed' = committed /\ job' # job
  <2>1. PICK e \in Exec : WriteJob(e)
    <3>1. CASE Post
      BY <3>1, <1>4 DEF Post, StartJobFails, StartJob, CommitJob, ApiCrash, storeVars
    <3>2. ASSUME NEW u \in Tasks,
                 WorkflowStep(u) \/ StartToCloseTimeout(u) \/ Deadline(u) \/ DropChild(u)
          PROVE  FALSE
      BY <3>2, <1>4, WorkflowType DEF ApiInv, StartToCloseTimeout, Deadline, DropChild, storeVars
    <3>3. ASSUME NEW f \in Exec, Befalls(f) PROVE FALSE
      BY <3>3, <1>4 DEF Befalls, DbError, Cancel, Crash, storeVars
    <3>4. ASSUME NEW f \in Exec, Work(f) PROVE WriteJob(f)
      BY <3>4, <1>4 DEF Work, ActivityStep, JobUpdate, storeVars, FetchStored,
         FetchRaises, FetchMarkFailed, ParseCommit, ParseRaises, ParseMarkFailed,
         NoTask, SummarizeCommit, SummarizeRaises, SummarizeMarkFailed,
         FinalizeRead, FinalizeList, FinalizeWrite, LoadJob, CountTasks, SelectJob
    <3> QED
      BY <3>1, <3>2, <3>3, <3>4 DEF Next
  <2>2. committed
    BY <2>1 DEF WriteJob, ApiInv, NoGhosts, SawRow, JobSteps
  <2>3. (job.status = "completed") = (job'.status = "completed") \/ AllSettled
    BY <2>1 DEF WriteJob, Flush, Changed, ApiInv, RowInv,
       CompletedRowMeansSettled, AllSettled
  <2>4. CASE AllSettled
    <3>1. Promise!RewriteRow
      BY <1>1, <1>4, <2>2, <2>4, NonePending DEF Promise!RewriteRow
    <3> QED
      BY <3>1 DEF Promise!Next
  <2>5. CASE (job.status = "completed") = (job'.status = "completed")
    BY <1>1, <1>4, <2>5 DEF Promise!pvars
  <2> QED
    BY <2>3, <2>4, <2>5
<1> QED
  BY <1>2, <1>3, <1>4

LEMMA PromiseStep ==
    ASSUME ApiInv, [ApiNext]_apiVars
    PROVE  [Promise!Next]_(Promise!pvars)
<1>1. CASE PollRead \/ UNCHANGED apiVars
  BY <1>1 DEF PollRead, apiVars, vars, storeVars, Promise!pvars, TasksWith
<1>2. CASE PollAnswer
  <2>1. /\ UNCHANGED <<committed, job>> /\ committed
        /\ TasksWith("pending")' = TasksWith("pending")
    BY <1>2 DEF PollAnswer, vars, storeVars, TasksWith, ApiInv, PollInv
  <2>2. CASE AllSettled
    <3>1. Promise!Announce
      BY <1>2, <2>1, <2>2, AnswerIsRight, NonePending DEF Promise!Announce
    <3> QED
      BY <3>1 DEF Promise!Next
  <2>3. CASE ~AllSettled
    BY <1>2, <2>1, <2>3, AnswerIsRight DEF Promise!pvars, ApiInv, PollInv
  <2> QED
    BY <2>2, <2>3
<1>3. CASE Next /\ UNCHANGED <<poll, answer>>
  BY <1>3, SettleStep, RowStep
<1> QED
  BY <1>1, <1>2, <1>3 DEF ApiNext

\* The system implements JobProgress: whatever attempts, faults and sessions
\* interleave, tasks are settled once, the row calls the job completed only when
\* none is open, and the client is told so once and for all.
THEOREM Implements == ApiSpec => KeepsPromise
<1>1. ApiInit => Promise!Init
  BY DEF ApiInit, Init, StoreInit, NewJob, TasksWith, Promise!Init
<1>2. ApiInv /\ [ApiNext]_apiVars => [Promise!Next]_(Promise!pvars)
  BY PromiseStep
<1> QED
  BY <1>1, <1>2, ApiInvInit, ApiInvNext, PTL DEF ApiSpec, KeepsPromise, Promise!Spec

(***************************************************************************)
(* GET /jobs/{id}/tasks: what a client is told of one task.                *)
(***************************************************************************)
\* The client asks for the listing once it has the answer to its poll.
ClientInv ==
    /\ listed # "none" => poll = "idle" /\ answer # "none"
    /\ ListAgreesWithAnswer

ListInv == ApiInv /\ SummaryInv /\ ListTypeOK /\ ClientInv /\ ListedMeansSummarized

-----------------------------------------------------------------------------
\* Records and summaries are never taken away.
LEMMA SummarizedForGood ==
    ASSUME TypeOK, [Next]_vars, NEW t \in Tasks, Summarized(t)
    PROVE  Summarized(t)'
<1>1. recs \in [Tasks -> Nat] /\ sums \in [Tasks -> Nat]
  BY DEF TypeOK, StoreTypeOK
<1>2. CASE UNCHANGED <<recs, sums>>
  BY <1>2 DEF Summarized
<1>3. ASSUME NEW e \in Exec, Work(e) PROVE Summarized(t)'
  <2>1. CASE UNCHANGED <<recs, sums>>
    BY <2>1 DEF Summarized
  <2>2. CASE ParseCommit(e) \/ SummarizeCommit(e)
    BY <1>1, <2>2 DEF ParseCommit, SummarizeCommit, Summarized
  <2> QED
    BY <1>3, <2>1, <2>2 DEF Work, ActivityStep, JobUpdate, storeVars, FetchStored,
       FetchRaises, FetchMarkFailed, ParseRaises, ParseMarkFailed, NoTask,
       SummarizeRaises, SummarizeMarkFailed, FinalizeRead, FinalizeList,
       FinalizeWrite, LoadJob, CountTasks, SelectJob, WriteJob
<1> QED
  BY <1>2, <1>3, OthersLeaveSummaries DEF vars, storeVars

LEMMA ListInvInit == ListInit => ListInv
<1> SUFFICES ASSUME ListInit PROVE ListInv
  OBVIOUS
<1>1. ApiInv /\ SummaryInv /\ answer = "none"
  BY ApiInvInit, SummaryInvInit DEF ListInit, ApiInit
<1> QED
  BY <1>1 DEF ListInit, ListInv, ListTypeOK, ClientInv, ListedMeansSummarized,
     ListAgreesWithAnswer

LEMMA ListInvNext == ListInv /\ [ListNext]_listVars => ListInv'
<1> SUFFICES ASSUME ListInv, [ListNext]_listVars PROVE ListInv'
  OBVIOUS
<1>1. [ApiNext]_apiVars /\ [Next]_vars
  BY DEF ListNext, ListRead, ListCheck, FirstPoll, ApiNext, PollRead, PollAnswer,
     listVars, apiVars
<1>2. ApiInv' /\ SummaryInv'
  BY <1>1, ApiInvNext, SummaryInvNext DEF ListInv, ApiInv
<1>3. TypeOK /\ task \in [Tasks -> TaskStatus] /\ entry \in Tasks
  BY DEF ListInv, ApiInv, TypeOK, StoreTypeOK, ListTypeOK
<1>4. CASE ListRead
  <2>1. Settled(entry) /\ task[entry] = "completed" => Summarized(entry)
    BY <1>3 DEF ListInv, SummaryInv, CompletedMeansSummarized, Summarized
  <2>2. answer = "completed" => Settled(entry)
    BY <1>3 DEF ListInv, ApiInv, PollInv, AllSettled
  <2> QED
    BY <1>2, <1>3, <1>4, <2>1, <2>2 DEF ListRead, ListInv, ListTypeOK, ClientInv,
       ListAgreesWithAnswer, ListedMeansSummarized, Settled, Summarized, TaskStatus,
       apiVars, vars, storeVars
<1>5. CASE ListCheck
  <2>1. worded[entry] => Summarized(entry)
    BY <1>3 DEF ListInv, SummaryInv
  <2>2. Summarized(entry) => Settled(entry)
    BY <1>3 DEF ListInv, SummaryInv, NoSummariesWhilePending, Summarized
  <2> QED
    BY <1>2, <1>3, <1>5, <2>1, <2>2 DEF ListCheck, Derived, ListInv, ListTypeOK,
       ClientInv, ListAgreesWithAnswer, ListedMeansSummarized, Settled, Summarized,
       TaskStatus, apiVars, vars, storeVars
<1>6. CASE /\ UNCHANGED <<entry, listed>>
           /\ FirstPoll \/ PollAnswer \/ UNCHANGED <<poll, answer>>
  <2>1. ListedMeansSummarized'
    BY <1>1, <1>3, <1>6, SettledForGood, SummarizedForGood
       DEF ListInv, ListedMeansSummarized
  <2>2. ClientInv'
    BY <1>6 DEF FirstPoll, PollRead, PollAnswer, ListInv, ClientInv,
       ListAgreesWithAnswer
  <2> QED
    BY <1>2, <1>6, <2>1, <2>2 DEF ListInv, ListTypeOK
<1> QED
  BY <1>4, <1>5, <1>6 DEF ListNext, listVars, apiVars

\* What is listed as completed is settled and has its summaries, whatever commits
\* between the two sessions of list_tasks and whatever faults strike.
THEOREM ListedIsDone == ListSpec => []ListedMeansSummarized
<1>1. ListInv => ListedMeansSummarized
  BY DEF ListInv
<1> QED
  BY <1>1, ListInvInit, ListInvNext, PTL DEF ListSpec

\* The listing never contradicts the completion that GET /jobs/{id} announced.
THEOREM ListingAgrees == ListSpec => []ListAgreesWithAnswer
<1>1. ListInv => ListAgreesWithAnswer
  BY DEF ListInv, ClientInv
<1> QED
  BY <1>1, ListInvInit, ListInvNext, PTL DEF ListSpec
=============================================================================
