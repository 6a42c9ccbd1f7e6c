------------------------- MODULE UrlWorkflow_proofs -------------------------
(***************************************************************************)
(* Proofs about UrlWorkflow, for any finite set of tasks.  Under any       *)
(* faults and any number of attempts: type correctness, that a job row     *)
(* never says COMPLETED while a task is pending, how often a task is       *)
(* summarized.  Where every activity has one attempt and no timeout,       *)
(* cancellation or database error strikes: that the verdict on a task      *)
(* stands, that the job row never counts ahead of the tasks, and that the  *)
(* results of the workflows are what the rows say.                         *)
(***************************************************************************)
EXTENDS UrlWorkflow, FiniteSetTheorems, TLAPS

-----------------------------------------------------------------------------
(* Type correctness *)

\* The counts of count_by_status are natural numbers.
LEMMA CountType ==
    /\ CountByStatus.completed \in Nat
    /\ CountByStatus.failed \in Nat
<1>1. ASSUME NEW s PROVE IsFiniteSet(TasksWith(s))
  BY FS_Subset, TasksAssumption DEF TasksWith
<1>2. ASSUME NEW s PROVE Cardinality(TasksWith(s)) \in Nat
  BY <1>1, FS_CardinalityType
<1> QED
  BY <1>2 DEF CountByStatus

LEMMA ProgressType ==
    ASSUME NEW j \in JobRow
    PROVE  UpdateProgress(j, CountByStatus) \in JobRow
BY CountType DEF UpdateProgress, JobRow, JobStatus

LEMMA FlushType ==
    ASSUME NEW a \in JobRow, NEW b \in JobRow, NEW c \in JobRow
    PROVE  Flush(a, b, c) \in JobRow
BY DEF Flush, Changed, JobRow

LEMMA NewJobType == NewJob \in JobRow
BY DEF NewJob, JobRow, JobStatus

\* Scheduling an activity keeps the types of what it touches.
LEMMA ScheduleType ==
    ASSUME TypeOK, NEW t \in Tasks, NEW kind \in Kinds, NEW n \in Attempts,
           Schedule(t, kind, n)
    PROVE  /\ ActTypeOK'
           /\ stage' \in [Tasks -> Stages]
           /\ attempt' \in [Tasks -> Attempts]
<1>1. pc' \in [Exec -> PCs]
  BY DEF Schedule, TypeOK, ActTypeOK, PCs, Running, Live
<1>2. ret' \in [Exec -> {"none", "ok", "failed"}]
  BY DEF Schedule, TypeOK, ActTypeOK
<1>3. stage' \in [Tasks -> Stages] /\ attempt' \in [Tasks -> Attempts]
  BY DEF Schedule, TypeOK, Stages
<1> QED
  BY <1>1, <1>2, <1>3 DEF Schedule, TypeOK, ActTypeOK

\* A step of an activity keeps the types of the rows and of the executions.
LEMMA ActivityType ==
    ASSUME StoreTypeOK, ActTypeOK, NEW e \in Exec, ActivityStep(e)
    PROVE  StoreTypeOK' /\ ActTypeOK'
<1> USE DEF StoreTypeOK, ActTypeOK, storeVars, Goto, Outcome, Return
<1>e. TaskOf(e) \in Tasks
  BY DEF TaskOf, Exec
<1>p. ASSUME NEW p \in PCs, Goto(e, p) PROVE pc' \in [Exec -> PCs]
  BY <1>p
<1>q. /\ Running \subseteq PCs /\ JobSteps \subseteq PCs
      /\ {"idle", "returned", "raised", "dead"} \subseteq PCs
      /\ {"failing", "listing", "markDone", "markFailed", "load", "count",
          "select", "write"} \subseteq PCs
  BY DEF PCs, Running, JobSteps
<1>1. CASE FetchStored(e) \/ FetchRaises(e) \/ ParseRaises(e) \/ NoTask(e)
           \/ SummarizeRaises(e) \/ FinalizeRead(e) \/ FinalizeList(e)
  BY <1>1, <1>q DEF FetchStored, FetchRaises, ParseRaises, NoTask,
     SummarizeRaises, FinalizeRead, FinalizeList
<1>2. CASE FetchMarkFailed(e) \/ ParseMarkFailed(e) \/ SummarizeMarkFailed(e)
           \/ FinalizeWrite(e)
  <2>1. task' \in [Tasks -> TaskStatus]
    BY <1>2, <1>e DEF FetchMarkFailed, ParseMarkFailed, SummarizeMarkFailed,
       FinalizeWrite, SetTask, TaskStatus
  <2> QED
    BY <1>2, <1>q, <2>1 DEF FetchMarkFailed, ParseMarkFailed,
       SummarizeMarkFailed, FinalizeWrite
<1>3. CASE ParseCommit(e)
  BY <1>3, <1>q, <1>e DEF ParseCommit
<1>4. CASE SummarizeCommit(e)
  <2>1. task' \in [Tasks -> TaskStatus]
    BY <1>4, <1>e DEF SummarizeCommit, SetTask, TaskStatus
  <2>2. sums' \in [Tasks -> Nat]
    BY <1>4, <1>e DEF SummarizeCommit
  <2>3. worded' \in [Tasks -> BOOLEAN]
    BY <1>4, <1>e, Zenon DEF SummarizeCommit
  <2> QED
    BY <1>4, <1>q, <2>1, <2>2, <2>3 DEF SummarizeCommit
<1>5. CASE LoadJob(e)
  BY <1>5, <1>q DEF LoadJob
<1>6. CASE CountTasks(e)
  BY <1>6, <1>q, ProgressType DEF CountTasks
<1>7. CASE SelectJob(e)
  BY <1>7, <1>q DEF SelectJob
<1>8. CASE WriteJob(e)
  <2>1. job' \in JobRow
    BY <1>8, FlushType DEF WriteJob
  <2> QED
    BY <1>8, <1>q, <2>1, NewJobType DEF WriteJob, ForgetJob
<1> QED
  BY <1>1, <1>2, <1>3, <1>4, <1>5, <1>6, <1>7, <1>8 DEF ActivityStep, JobUpdate

\* So does what befalls an execution; the rows are not touched.
LEMMA BefallType ==
    ASSUME ActTypeOK, NEW e \in Exec, DbError(e) \/ Cancel(e) \/ Crash(e)
    PROVE  ActTypeOK' /\ UNCHANGED storeVars
<1>1. {"raised", "failing", "returned", "dead"} \subseteq PCs
  BY DEF PCs, Running
<1>2. pc' \in [Exec -> PCs]
  BY <1>1 DEF DbError, Cancel, Crash, Goto, ActTypeOK
<1> QED
  BY <1>2, NewJobType DEF DbError, Cancel, Crash, ForgetJob, ActTypeOK

\* The server's next attempt of the current activity is one there is room for.
LEMMA NextAttemptType ==
    ASSUME TypeOK, NEW t \in Tasks, stage[t] \in Kinds, NextAttempt(t)
    PROVE  /\ ActTypeOK'
           /\ stage' \in [Tasks -> Stages]
           /\ attempt' \in [Tasks -> Attempts]
           /\ result' \in [Tasks -> {"none", "completed", "failed"}]
<1>1. CASE attempt[t] < MaxAttemptsOf(stage[t])
  <2>1. attempt[t] + 1 \in Attempts
    BY <1>1, RetryAssumption, AttemptAssumption
       DEF MaxAttemptsOf, Attempts, TypeOK
  <2>2. Schedule(t, stage[t], attempt[t] + 1) /\ UNCHANGED result
    BY <1>1 DEF NextAttempt
  <2> QED
    BY <2>1, <2>2, ScheduleType DEF TypeOK
<1>2. CASE ~(attempt[t] < MaxAttemptsOf(stage[t]))
  <2>1. Schedule(t, "finalize", 1) /\ Finish(t, "failed")
    BY <1>2 DEF NextAttempt, Finally
  <2>2. 1 \in Attempts /\ "finalize" \in Kinds
    BY AttemptAssumption DEF Attempts, Kinds
  <2> QED
    BY <2>1, <2>2, ScheduleType DEF Finish, TypeOK
<1> QED
  BY <1>1, <1>2

\* A step of a workflow leaves the rows alone and keeps the types of the rest.
LEMMA WorkflowType ==
    ASSUME TypeOK, NEW t \in Tasks, WorkflowStep(t)
    PROVE  TypeOK' /\ UNCHANGED storeVars
<1>k. /\ 1 \in Attempts
      /\ Kinds = {"fetch", "parse", "summarize", "finalize"}
      /\ Kinds \subseteq Stages /\ {"enrich", "closed"} \subseteq Stages
  BY AttemptAssumption DEF Attempts, Kinds, Stages
<1>o. UNCHANGED storeVars => StoreTypeOK'
  BY DEF storeVars, StoreTypeOK, TypeOK
<1>f. ASSUME NEW s \in {"completed", "failed"}, Finally(t, s), UNCHANGED <<storeVars, api, injected>>
      PROVE  TypeOK'
  BY <1>f, <1>k, <1>o, ScheduleType DEF Finally, Finish, TypeOK
<1>s. ASSUME NEW kind \in Kinds, Schedule(t, kind, 1), UNCHANGED <<storeVars, api, result, injected>>
      PROVE  TypeOK'
  BY <1>s, <1>k, <1>o, ScheduleType DEF TypeOK
<1>1. CASE StartChild(t)
  BY <1>1, <1>s, <1>k DEF StartChild
<1>2. CASE FetchDone(t)
  BY <1>2, <1>s, <1>f, <1>k DEF FetchDone
<1>3. CASE ParseDone(t)
  <2>1. CASE ret[Current(t)] = "failed"
    BY <1>3, <2>1, <1>f DEF ParseDone
  <2>2. CASE Schedule(t, "summarize", 1) /\ UNCHANGED result
    BY <1>3, <2>2, <1>s, <1>k DEF ParseDone
  <2>3. CASE EnterEnrich(t) /\ UNCHANGED result
    BY <1>3, <2>3, <1>k, <1>o DEF ParseDone, EnterEnrich, TypeOK, ActTypeOK, actVars
  <2> QED
    BY <1>3, <2>1, <2>2, <2>3 DEF ParseDone
<1>4. CASE EnrichDone(t)
  BY <1>4, <1>s, <1>k DEF EnrichDone
<1>5. CASE SummarizeDone(t)
  BY <1>5, <1>f DEF SummarizeDone
<1>6. CASE FinalizeDone(t)
  BY <1>6, <1>k, <1>o DEF FinalizeDone, TypeOK, ActTypeOK, actVars
<1>7. CASE AttemptLost(t)
  BY <1>7, <1>o, NextAttemptType DEF AttemptLost, TypeOK
<1>8. UNCHANGED storeVars
  BY DEF WorkflowStep, StartChild, FetchDone, ParseDone, EnrichDone,
     SummarizeDone, FinalizeDone, AttemptLost
<1> QED
  BY <1>1, <1>2, <1>3, <1>4, <1>5, <1>6, <1>7, <1>8 DEF WorkflowStep

LEMMA InitType == Init => TypeOK
<1>0. StoreInit => committed \in BOOLEAN /\ worded \in [Tasks -> BOOLEAN]
  BY Zenon DEF StoreInit
<1>1. StoreInit => StoreTypeOK
  BY <1>0, NewJobType DEF StoreInit, StoreTypeOK, TaskStatus
<1>2. ActInit => ActTypeOK
  BY NewJobType DEF ActInit, ActTypeOK, PCs
<1>3. 1 \in Attempts
  BY AttemptAssumption DEF Attempts
<1> QED
  BY <1>1, <1>2, <1>3 DEF Init, TypeOK, ApiStates, Stages

LEMMA NextType == TypeOK /\ [Next]_vars => TypeOK'
<1> SUFFICES ASSUME TypeOK, [Next]_vars PROVE TypeOK'
  OBVIOUS
<1>o. UNCHANGED storeVars => StoreTypeOK'
  BY DEF storeVars, StoreTypeOK, TypeOK
<1>a. UNCHANGED actVars => ActTypeOK'
  BY DEF actVars, ActTypeOK, TypeOK
<1>1. CASE Post
  <2>1. StoreTypeOK'
    BY <1>1, <1>o DEF Post, StartJobFails, StartJob, CommitJob, ApiCrash,
       TypeOK, StoreTypeOK
  <2> QED
    BY <1>1, <2>1, <1>a DEF Post, StartJobFails, StartJob, CommitJob, ApiCrash,
       TypeOK, ApiStates, wfVars
<1>2. ASSUME NEW t \in Tasks, WorkflowStep(t) PROVE TypeOK'
  BY <1>2, WorkflowType
<1>3. ASSUME NEW t \in Tasks, StartToCloseTimeout(t) PROVE TypeOK'
  BY <1>3, <1>o, NextAttemptType DEF StartToCloseTimeout, Inject, TypeOK
<1>4. ASSUME NEW t \in Tasks, Deadline(t) PROVE TypeOK'
  BY <1>4, <1>o, <1>a DEF Deadline, Inject, Finish, TypeOK, Stages
<1>d. ASSUME NEW t \in Tasks, DropChild(t) PROVE TypeOK'
  BY <1>d, <1>o, <1>a DEF DropChild, Inject, TypeOK, Stages
<1>5. ASSUME NEW e \in Exec, Work(e) PROVE TypeOK'
  BY <1>5, ActivityType DEF Work, TypeOK, wfVars
<1>6. ASSUME NEW e \in Exec, Befalls(e) PROVE TypeOK'
  <2>1. DbError(e) \/ Cancel(e) \/ Crash(e)
    BY <1>6 DEF Befalls
  <2>2. injected' \in Nat
    BY <1>6 DEF Befalls, Inject, TypeOK
  <2>3. ActTypeOK' /\ StoreTypeOK'
    BY <2>1, <1>o, BefallType DEF TypeOK
  <2> QED
    BY <1>6, <2>2, <2>3 DEF Befalls, TypeOK, wfVars
<1>7. CASE UNCHANGED vars
  BY <1>7, <1>o, <1>a DEF vars, wfVars, TypeOK
<1> QED
  BY <1>1, <1>2, <1>3, <1>4, <1>d, <1>5, <1>6, <1>7 DEF Next

\* Every reachable state is well typed, whatever the tasks, the bounds and the
\* faults.
THEOREM TypeCorrect == Spec => []TypeOK
<1> QED
  BY InitType, NextType, PTL DEF Spec

-----------------------------------------------------------------------------
(* The job row is never ahead of its tasks *)

\* When the completed and the failed tasks together are as many as the job has,
\* none is pending: the two sets are disjoint and fill Tasks.
LEMMA CountsTellAllSettled ==
    ASSUME TypeOK,
           CountByStatus.completed + CountByStatus.failed = Cardinality(Tasks)
    PROVE  AllSettled
<1> DEFINE C == TasksWith("completed")
           F == TasksWith("failed")
<1>1. C \in SUBSET Tasks /\ F \in SUBSET Tasks /\ C \cap F = {}
  BY DEF TasksWith
<1>2. IsFiniteSet(C) /\ IsFiniteSet(F) /\ IsFiniteSet(Tasks)
  BY <1>1, TasksAssumption, FS_Subset
<1>3. Cardinality(C \cup F) = Cardinality(C) + Cardinality(F) - Cardinality(C \cap F)
  BY <1>2, FS_Union
<1>4. /\ Cardinality(C) \in Nat /\ Cardinality(F) \in Nat
      /\ Cardinality(C \cap F) = 0
  BY <1>1, <1>2, FS_CardinalityType, FS_EmptySet
<1>5. Cardinality(C \cup F) = Cardinality(Tasks)
  BY <1>3, <1>4 DEF CountByStatus
<1>6. C \cup F \in SUBSET Tasks
  BY <1>1
<1>7. C \cup F = Tasks
  BY <1>2, <1>5, <1>6, FS_Subset
<1> QED
  BY <1>7 DEF AllSettled, Settled, TasksWith

\* The steps that write a task's status, with the status they write.
LEMMA TaskWrites ==
    ASSUME TypeOK, [Next]_vars, task' # task
    PROVE  \E e \in Exec :
              /\ task' = [task EXCEPT ![TaskOf(e)] = task'[TaskOf(e)]]
              /\ task'[TaskOf(e)] \in {"completed", "failed"}
<1>1. CASE Post
  BY <1>1 DEF Post, StartJobFails, StartJob, CommitJob, ApiCrash, storeVars
<1>2. ASSUME NEW t \in Tasks,
             WorkflowStep(t) \/ StartToCloseTimeout(t) \/ Deadline(t) \/ DropChild(t)
      PROVE  FALSE
  <2>1. UNCHANGED storeVars
    BY <1>2, WorkflowType DEF StartToCloseTimeout, Deadline, DropChild
  <2> QED
    BY <2>1 DEF storeVars
<1>3. ASSUME NEW e \in Exec, Befalls(e) PROVE FALSE
  BY <1>3 DEF Befalls, DbError, Cancel, Crash, storeVars
<1>4. ASSUME NEW e \in Exec, Work(e)
      PROVE  /\ task' = [task EXCEPT ![TaskOf(e)] = task'[TaskOf(e)]]
             /\ task'[TaskOf(e)] \in {"completed", "failed"}
  <2>e. TaskOf(e) \in Tasks /\ task \in [Tasks -> TaskStatus]
    BY DEF TaskOf, Exec, TypeOK, StoreTypeOK
  <2>1. \E s \in {"completed", "failed"} : SetTask(TaskOf(e), s)
    BY <1>4 DEF Work, ActivityStep, JobUpdate, storeVars, FetchStored,
       FetchRaises, FetchMarkFailed, ParseCommit, ParseRaises, ParseMarkFailed,
       NoTask, SummarizeCommit, SummarizeRaises, SummarizeMarkFailed,
       FinalizeRead, FinalizeList, FinalizeWrite,
       LoadJob, CountTasks, SelectJob, WriteJob
  <2> QED
    BY <2>e, <2>1 DEF SetTask
<1>5. CASE UNCHANGED vars
  BY <1>5 DEF vars, storeVars
<1> QED
  BY <1>1, <1>2, <1>3, <1>4, <1>5 DEF Next

\* No task ever becomes pending again.
LEMMA SettledForGood ==
    ASSUME TypeOK, [Next]_vars
    PROVE  \A t \in Tasks : Settled(t) => Settled(t)'
<1>1. CASE task' = task
  BY <1>1 DEF Settled
<1>2. CASE task' # task
  BY <1>2, TaskWrites DEF Settled, TypeOK, StoreTypeOK
<1> QED
  BY <1>1, <1>2

\* What a session holds as "completed" was settled when it was computed.
LEMMA ProgressTellsSettled ==
    ASSUME TypeOK, NEW j \in JobRow, j.status = "completed" => AllSettled,
           UpdateProgress(j, CountByStatus).status = "completed"
    PROVE  AllSettled
BY CountsTellAllSettled DEF UpdateProgress

LEMMA RowInvNext ==
    ASSUME TypeOK, RowInv, [Next]_vars
    PROVE  RowInv'
<1>s. AllSettled => AllSettled'
  BY SettledForGood DEF AllSettled
<1>n. ASSUME NEW e \in Exec, ForgetJob(e), NEW f \in Exec,
             copy'[f].status = "completed"
      PROVE  AllSettled'
  BY <1>n, <1>s DEF ForgetJob, NewJob, RowInv, TypeOK, ActTypeOK
<1>k. ASSUME UNCHANGED <<job, copy>> PROVE RowInv'
  BY <1>k, <1>s DEF RowInv, CompletedRowMeansSettled, AllSettled
<1>1. CASE Post
  BY <1>1, <1>k DEF Post, StartJobFails, StartJob, CommitJob, ApiCrash,
     storeVars, actVars
<1>2. ASSUME NEW t \in Tasks,
             WorkflowStep(t) \/ StartToCloseTimeout(t) \/ Deadline(t) \/ DropChild(t)
      PROVE  RowInv'
  <2>1. UNCHANGED storeVars
    BY <1>2, WorkflowType DEF StartToCloseTimeout, Deadline, DropChild
  <2>2. UNCHANGED copy
    BY <1>2 DEF WorkflowStep, StartChild, FetchDone, ParseDone, EnterEnrich,
       EnrichDone, SummarizeDone, FinalizeDone, AttemptLost,
       StartToCloseTimeout, Deadline, DropChild, NextAttempt, Finally, Schedule, actVars
  <2> QED
    BY <2>1, <2>2, <1>k DEF storeVars
<1>3. ASSUME NEW e \in Exec, Befalls(e) PROVE RowInv'
  <2>1. ForgetJob(e) /\ UNCHANGED storeVars
    BY <1>3 DEF Befalls, DbError, Cancel, Crash
  <2> QED
    BY <2>1, <1>n, <1>s DEF RowInv, CompletedRowMeansSettled, AllSettled, storeVars
<1>4. ASSUME NEW e \in Exec, Work(e) PROVE RowInv'
  <2>1. CASE LoadJob(e)
    BY <2>1, <1>s DEF LoadJob, RowInv, CompletedRowMeansSettled, AllSettled,
       storeVars, TypeOK, ActTypeOK
  <2>2. CASE CountTasks(e)
    <3>1. copy[e] \in JobRow /\ (copy[e].status = "completed" => AllSettled)
      BY DEF TypeOK, ActTypeOK, RowInv
    <3>2. copy'[e].status = "completed" => AllSettled'
      BY <2>2, <3>1, <1>s, ProgressTellsSettled DEF CountTasks, TypeOK, ActTypeOK
    <3> QED
      BY <2>2, <3>2, <1>s DEF CountTasks, RowInv, CompletedRowMeansSettled,
         AllSettled, storeVars, TypeOK, ActTypeOK
  <2>3. CASE WriteJob(e)
    <3>1. job'.status = "completed" => AllSettled
      BY <2>3 DEF WriteJob, Flush, Changed, RowInv, CompletedRowMeansSettled, AllSettled
    <3> QED
      BY <2>3, <3>1, <1>n, <1>s DEF WriteJob, RowInv, CompletedRowMeansSettled, AllSettled
  <2>4. CASE ~(LoadJob(e) \/ CountTasks(e) \/ WriteJob(e))
    <3>1. UNCHANGED <<job, copy>>
      BY <1>4, <2>4 DEF Work, ActivityStep, JobUpdate, storeVars, FetchStored,
         FetchRaises, FetchMarkFailed, ParseCommit, ParseRaises, ParseMarkFailed,
         NoTask, SummarizeCommit, SummarizeRaises, SummarizeMarkFailed,
         FinalizeRead, FinalizeList, FinalizeWrite, SelectJob
    <3> QED
      BY <3>1, <1>k
  <2> QED
    BY <2>1, <2>2, <2>3, <2>4
<1>5. CASE UNCHANGED vars
  BY <1>5, <1>k DEF vars, storeVars, actVars
<1> QED
  BY <1>1, <1>2, <1>3, <1>4, <1>5 DEF Next

LEMMA RowInvInit == Init => RowInv
BY DEF Init, StoreInit, ActInit, NewJob, RowInv, CompletedRowMeansSettled

\* A job row that says COMPLETED is right that no task is pending, however the
\* sessions that count the tasks and write the row interleave, and whatever
\* timed-out or cancelled attempts still write.
THEOREM RowNeverAhead == Spec => []CompletedRowMeansSettled
<1>1. Init => TypeOK /\ RowInv
  BY InitType, RowInvInit
<1>2. (TypeOK /\ RowInv) /\ [Next]_vars => (TypeOK /\ RowInv)'
  BY NextType, RowInvNext
<1>3. RowInv => CompletedRowMeansSettled
  BY DEF RowInv
<1> QED
  BY <1>1, <1>2, <1>3, PTL DEF Spec

-----------------------------------------------------------------------------
(* Tasks and their summaries *)

\* Outside of the activities nothing changes the rows or reaches "markDone".
LEMMA OthersLeaveSummaries ==
    ASSUME TypeOK, Next, \A e \in Exec : ~Work(e)
    PROVE  /\ UNCHANGED <<task, recs, sums, worded>>
           /\ \A e \in Exec : pc'[e] = "markDone" => pc[e] = "markDone"
<1>1. CASE Post
  BY <1>1 DEF Post, StartJobFails, StartJob, CommitJob, ApiCrash, storeVars, actVars
<1>2. ASSUME NEW t \in Tasks,
             WorkflowStep(t) \/ StartToCloseTimeout(t) \/ Deadline(t) \/ DropChild(t)
      PROVE  /\ UNCHANGED <<task, recs, sums, worded>>
             /\ \A e \in Exec : pc'[e] = "markDone" => pc[e] = "markDone"
  <2>1. UNCHANGED storeVars
    BY <1>2, WorkflowType DEF StartToCloseTimeout, Deadline, DropChild
  <2>2. ASSUME NEW kind, NEW n, Schedule(t, kind, n)
        PROVE  \A e \in Exec : pc'[e] = "markDone" => pc[e] = "markDone"
    BY <2>2 DEF Schedule
  <2>3. UNCHANGED pc \/ \E kind, n : Schedule(t, kind, n)
    BY <1>2 DEF WorkflowStep, StartChild, FetchDone, ParseDone, EnterEnrich,
       EnrichDone, SummarizeDone, FinalizeDone, AttemptLost,
       StartToCloseTimeout, Deadline, DropChild, NextAttempt, Finally, actVars
  <2> QED
    BY <2>1, <2>2, <2>3 DEF storeVars
<1>3. ASSUME NEW e \in Exec, Befalls(e)
      PROVE  /\ UNCHANGED <<task, recs, sums, worded>>
             /\ \A f \in Exec : pc'[f] = "markDone" => pc[f] = "markDone"
  BY <1>3 DEF Befalls, DbError, Cancel, Crash, Goto, storeVars, TypeOK, ActTypeOK
<1> QED
  BY <1>1, <1>2, <1>3 DEF Next

LEMMA SummaryInvNext ==
    ASSUME TypeOK, SummaryInv, [Next]_vars
    PROVE  SummaryInv'
<1> USE DEF NoSummariesWhilePending, CompletedMeansSummarized, Summarized, Settled
<1>t. /\ task \in [Tasks -> TaskStatus]
      /\ recs \in [Tasks -> Nat]
      /\ sums \in [Tasks -> Nat]
      /\ worded \in [Tasks -> BOOLEAN]
      /\ pc \in [Exec -> PCs]
  BY DEF TypeOK, StoreTypeOK, ActTypeOK
<1>1. ASSUME NEW e \in Exec, Work(e) PROVE SummaryInv'
  <2>e. TaskOf(e) \in Tasks /\ \A f \in Exec : TaskOf(f) \in Tasks
    BY DEF TaskOf, Exec
  <2>1. CASE FetchMarkFailed(e) \/ ParseMarkFailed(e) \/ SummarizeMarkFailed(e)
             \/ (FinalizeWrite(e) /\ pc[e] # "markDone")
    BY <2>1, <2>e, <1>t DEF FetchMarkFailed, ParseMarkFailed, SummarizeMarkFailed,
       FinalizeWrite, SetTask, Goto, Return, SummaryInv
  <2>2. CASE FinalizeWrite(e) /\ pc[e] = "markDone"
    BY <2>2, <2>e, <1>t DEF FinalizeWrite, SetTask, Goto, SummaryInv
  <2>3. CASE ParseCommit(e)
    BY <2>3, <2>e, <1>t DEF ParseCommit, Return, Goto, SummaryInv
  <2>4. CASE SummarizeCommit(e)
    BY <2>4, <2>e, <1>t DEF SummarizeCommit, SetTask, Goto, SummaryInv
  <2>5. CASE FinalizeList(e)
    BY <2>5, <2>e, <1>t DEF FinalizeList, Goto, SummaryInv, storeVars
  <2>6. CASE FetchStored(e) \/ FetchRaises(e) \/ ParseRaises(e) \/ NoTask(e)
             \/ SummarizeRaises(e) \/ FinalizeRead(e) \/ JobUpdate(e)
    <3>1. UNCHANGED <<task, recs, sums, worded>>
      BY <2>6 DEF FetchStored, FetchRaises, ParseRaises, NoTask, SummarizeRaises,
         FinalizeRead, JobUpdate, LoadJob, CountTasks, SelectJob, WriteJob, storeVars
    <3>2. \A f \in Exec : pc'[f] = "markDone" => pc[f] = "markDone"
      BY <2>6, <1>t DEF FetchStored, FetchRaises, ParseRaises, NoTask,
         SummarizeRaises, FinalizeRead, JobUpdate, LoadJob, CountTasks,
         SelectJob, WriteJob, Goto, Return
    <3> QED
      BY <3>1, <3>2 DEF SummaryInv
  <2> QED
    BY <1>1, <2>1, <2>2, <2>3, <2>4, <2>5, <2>6 DEF Work, ActivityStep
<1>2. CASE Next /\ \A e \in Exec : ~Work(e)
  BY <1>2, OthersLeaveSummaries DEF SummaryInv
<1>3. CASE UNCHANGED vars
  BY <1>3 DEF vars, storeVars, actVars, SummaryInv
<1> QED
  BY <1>1, <1>2, <1>3

LEMMA SummaryInvInit == Init => SummaryInv
BY DEF Init, StoreInit, ActInit, SummaryInv, NoSummariesWhilePending,
   CompletedMeansSummarized, Settled, Summarized

\* The rows, and what every execution remembers of them, stay consistent.
THEOREM Consistent == Spec => []IInv
<1>1. Init => TypeOK /\ IInv
  BY InitType, RowInvInit, SummaryInvInit DEF IInv
<1>2. (TypeOK /\ IInv) /\ [Next]_vars => (TypeOK /\ IInv)'
  BY NextType, RowInvNext, SummaryInvNext DEF IInv
<1> QED
  BY <1>1, <1>2, PTL DEF Spec

\* No task is pending with a summary stored: list_tasks and finalize_task, when
\* they find summaries of a task they read as pending, have seen a race.
THEOREM PendingHasNoSummaries == Spec => []NoSummariesWhilePending
<1>1. IInv => NoSummariesWhilePending
  BY DEF IInv, SummaryInv
<1> QED
  BY <1>1, Consistent, PTL

\* A task is called completed only with records and summaries stored for it.
THEOREM CompletedHasSummaries == Spec => []CompletedMeansSummarized
<1>1. IInv => CompletedMeansSummarized
  BY DEF IInv, SummaryInv
<1> QED
  BY <1>1, Consistent, PTL


-----------------------------------------------------------------------------
(* Attempts and summaries *)

Before == {"none", "fetch", "parse", "enrich"}

\* The attempts at summarizing t that have not committed yet.
Bodies(t) == {n \in Attempts : pc[<<t, "summarize", n>>] = "body"}

\* How many attempts at summarizing t the server has asked for, at most.
Asked(t) ==
    CASE stage[t] \in Before -> 0
      [] stage[t] = "summarize" -> attempt[t]
      [] OTHER -> MaxAttempts

\* Every attempt that was asked for commits at most one batch of summaries.
SumsInv ==
    \A t \in Tasks :
        /\ stage[t] = "summarize" => attempt[t] <= MaxAttempts
        /\ sums[t] + Cardinality(Bodies(t)) <= Asked(t)

\* What may follow where the workflow of t stands.
Follows(t, kind, n) ==
    \/ kind = "finalize"
    \/ kind = "fetch" /\ stage[t] = "none" /\ n = 1
    \/ kind = "parse" /\ stage[t] = "fetch" /\ n = 1
    \/ kind = "summarize" /\ stage[t] \in {"parse", "enrich"} /\ n = 1
    \/ kind = stage[t] /\ n = attempt[t] + 1 /\ n <= MaxAttemptsOf(kind)

Stops(t) ==
    /\ UNCHANGED pc
    /\ \/ stage[t] = "parse" /\ stage' = [stage EXCEPT ![t] = "enrich"]
       \/ stage' = [stage EXCEPT ![t] = "closed"]
       \/ stage' = [stage EXCEPT ![t] = "expired"]
       \/ stage[t] = "none" /\ stage' = [stage EXCEPT ![t] = "dropped"]
    /\ \A u \in Tasks : u # t => attempt'[u] = attempt[u]

LEMMA BodiesType ==
    ASSUME NEW t
    PROVE  IsFiniteSet(Bodies(t)) /\ Cardinality(Bodies(t)) \in Nat
<1>1. IsFiniteSet(Attempts)
  BY FS_Interval, AttemptAssumption DEF Attempts
<1>2. IsFiniteSet(Bodies(t))
  BY <1>1, FS_Subset DEF Bodies
<1> QED
  BY <1>2, FS_CardinalityType

LEMMA AskedType ==
    ASSUME TypeOK, SumsInv, NEW t \in Tasks
    PROVE  Asked(t) \in Nat /\ Asked(t) <= MaxAttempts /\ MaxAttempts \in Nat \ {0}
BY RetryAssumption, AttemptAssumption DEF TypeOK, SumsInv, Asked, Attempts

\* The server's next attempt of the activity in progress, or finalize_task.
LEMMA NextAttemptFollows ==
    ASSUME TypeOK, NEW t \in Tasks, stage[t] \in Kinds, NextAttempt(t)
    PROVE  \E kind \in Kinds, n \in Attempts : Schedule(t, kind, n) /\ Follows(t, kind, n)
<1>1. CASE attempt[t] < MaxAttemptsOf(stage[t])
  <2>1. /\ attempt[t] + 1 \in Attempts
        /\ attempt[t] + 1 <= MaxAttemptsOf(stage[t])
    BY <1>1, RetryAssumption, AttemptAssumption DEF MaxAttemptsOf, Attempts, TypeOK
  <2> QED
    BY <1>1, <2>1 DEF NextAttempt, Follows
<1>2. CASE ~(attempt[t] < MaxAttemptsOf(stage[t]))
  BY <1>2, AttemptAssumption DEF NextAttempt, Finally, Follows, Kinds, Attempts
<1> QED
  BY <1>1, <1>2

\* What a workflow and the server do: ask for the activity that follows, or none.
LEMMA WorkflowMoves ==
    ASSUME TypeOK, NEW t \in Tasks,
           WorkflowStep(t) \/ StartToCloseTimeout(t) \/ Deadline(t) \/ DropChild(t)
    PROVE  /\ UNCHANGED storeVars
           /\ \/ Stops(t)
              \/ \E kind \in Kinds, n \in Attempts : Schedule(t, kind, n) /\ Follows(t, kind, n)
<1>0. 1 \in Attempts /\ Kinds = {"fetch", "parse", "summarize", "finalize"}
  BY AttemptAssumption DEF Attempts, Kinds
<1>1. CASE StartChild(t)
  BY <1>0, <1>1 DEF StartChild, Follows
<1>2. CASE FetchDone(t)
  BY <1>0, <1>2 DEF FetchDone, ActivityReturned, Finally, Follows
<1>3. CASE ParseDone(t)
  <2>1. CASE EnterEnrich(t)
    BY <1>3, <2>1 DEF ParseDone, ActivityReturned, EnterEnrich, Stops, actVars, TypeOK
  <2>2. CASE ~EnterEnrich(t)
    BY <1>0, <1>3, <2>2 DEF ParseDone, ActivityReturned, Finally, Follows
  <2> QED
    BY <1>3, <2>1, <2>2 DEF ParseDone
<1>4. CASE EnrichDone(t)
  BY <1>0, <1>4 DEF EnrichDone, Follows
<1>5. CASE SummarizeDone(t)
  BY <1>0, <1>5 DEF SummarizeDone, Finally, Follows
<1>6. CASE FinalizeDone(t)
  BY <1>6 DEF FinalizeDone, Stops, actVars
<1>7. CASE AttemptLost(t)
  BY <1>7, NextAttemptFollows DEF AttemptLost
<1>8. CASE StartToCloseTimeout(t)
  BY <1>8, NextAttemptFollows DEF StartToCloseTimeout
<1>9. CASE Deadline(t)
  BY <1>9 DEF Deadline, Stops, actVars
<1>10. CASE DropChild(t)
  BY <1>10 DEF DropChild, Stops, actVars
<1> QED
  BY <1>1, <1>2, <1>3, <1>4, <1>5, <1>6, <1>7, <1>8, <1>9, <1>10 DEF WorkflowStep

\* Asking for an attempt adds it to those at work, and may only end others.
LEMMA ScheduleBodies ==
    ASSUME TypeOK, NEW t \in Tasks, NEW kind \in Kinds, NEW n \in Attempts,
           Schedule(t, kind, n)
    PROVE  /\ \A u \in Tasks : u # t \/ kind # "summarize" => Bodies(u)' \subseteq Bodies(u)
           /\ Bodies(t)' \subseteq Bodies(t) \cup {n}
<1>1. \A u \in Tasks, m \in Attempts :
        pc'[<<u, "summarize", m>>] = "body" =>
            \/ pc[<<u, "summarize", m>>] = "body"
            \/ u = t /\ kind = "summarize" /\ m = n
  <2>1. \A u \in Tasks, m \in Attempts : <<u, "summarize", m>> \in Exec
    BY DEF Exec, Kinds
  <2> QED
    BY <2>1 DEF Schedule
<1> QED
  BY <1>1 DEF Bodies

\* A step after which no more attempts are at work, and more may have been asked for.
LEMMA FewerBodies ==
    ASSUME TypeOK, SumsInv, NEW t \in Tasks,
           sums'[t] = sums[t], Bodies(t)' \subseteq Bodies(t), Asked(t)' \in Nat,
           Asked(t) <= Asked(t)'
    PROVE  sums'[t] + Cardinality(Bodies(t)') <= Asked(t)'
<1>1. /\ Cardinality(Bodies(t)') <= Cardinality(Bodies(t))
      /\ Cardinality(Bodies(t)') \in Nat /\ Cardinality(Bodies(t)) \in Nat
  BY BodiesType, FS_Subset, FS_CardinalityType
<1>2. sums[t] \in Nat /\ Asked(t) \in Nat /\ sums[t] + Cardinality(Bodies(t)) <= Asked(t)
  BY AskedType DEF TypeOK, StoreTypeOK, SumsInv
<1> QED
  BY <1>1, <1>2

LEMMA StopsKeepsSums ==
    ASSUME TypeOK, SumsInv, NEW t \in Tasks, Stops(t), UNCHANGED storeVars
    PROVE  SumsInv'
<1> SUFFICES ASSUME NEW u \in Tasks
             PROVE  /\ stage'[u] = "summarize" => attempt'[u] <= MaxAttempts
                    /\ sums'[u] + Cardinality(Bodies(u)') <= Asked(u)'
  BY DEF SumsInv
<1>1. Bodies(u)' = Bodies(u) /\ sums'[u] = sums[u]
  BY DEF Stops, Bodies, storeVars
<1>2. Asked(u) \in Nat /\ Asked(u) <= MaxAttempts /\ MaxAttempts \in Nat
  BY AskedType
<1>3. CASE u = t
  <2>1. /\ stage'[u] \in {"enrich", "closed", "expired", "dropped"}
        /\ stage'[u] = "enrich" => stage[u] = "parse"
    BY <1>3 DEF Stops, TypeOK
  <2>2. Asked(u)' \in Nat /\ Asked(u) <= Asked(u)'
    BY <1>2, <2>1 DEF Asked, Before
  <2> QED
    BY <1>1, <2>1, <2>2, FewerBodies
<1>4. CASE u # t
  <2>1. stage'[u] = stage[u] /\ attempt'[u] = attempt[u]
    BY <1>4 DEF Stops, TypeOK
  <2>2. Asked(u)' = Asked(u)
    BY <2>1 DEF Asked
  <2> QED
    BY <1>1, <1>2, <2>1, <2>2, FewerBodies DEF SumsInv
<1> QED
  BY <1>3, <1>4

LEMMA ScheduleKeepsSums ==
    ASSUME TypeOK, SumsInv, NEW t \in Tasks, NEW kind \in Kinds, NEW n \in Attempts,
           Schedule(t, kind, n), Follows(t, kind, n), UNCHANGED storeVars
    PROVE  SumsInv'
<1> SUFFICES ASSUME NEW u \in Tasks
             PROVE  /\ stage'[u] = "summarize" => attempt'[u] <= MaxAttempts
                    /\ sums'[u] + Cardinality(Bodies(u)') <= Asked(u)'
  BY DEF SumsInv
<1>1. sums'[u] = sums[u]
  BY DEF storeVars
<1>2. Asked(u) \in Nat /\ Asked(u) <= MaxAttempts /\ MaxAttempts \in Nat \ {0}
  BY AskedType
<1>3. CASE u # t
  <2>1. stage'[u] = stage[u] /\ attempt'[u] = attempt[u]
    BY <1>3 DEF Schedule, TypeOK
  <2>2. Asked(u)' = Asked(u) /\ Bodies(u)' \subseteq Bodies(u)
    BY <1>3, <2>1, ScheduleBodies DEF Asked
  <2> QED
    BY <1>1, <1>2, <2>1, <2>2, FewerBodies DEF SumsInv
<1>4. CASE u = t /\ kind # "summarize"
  <2>1. stage'[u] = kind
    BY <1>4 DEF Schedule, TypeOK
  <2>2. Bodies(u)' \subseteq Bodies(u)
    BY <1>4, ScheduleBodies
  <2>3. Asked(u)' \in Nat /\ Asked(u) <= Asked(u)'
    <3>1. CASE kind \in Before
      <4>1. stage[u] \in Before
        BY <1>4, <3>1 DEF Follows, Before
      <4> QED
        BY <2>1, <3>1, <4>1 DEF Asked, Before
    <3>2. CASE kind \notin Before
      <4>1. Asked(u)' = MaxAttempts
        BY <1>4, <2>1, <3>2 DEF Asked
      <4> QED
        BY <1>2, <4>1
    <3> QED
      BY <3>1, <3>2
  <2> QED
    BY <1>1, <1>4, <2>1, <2>2, <2>3, FewerBodies
<1>5. CASE u = t /\ kind = "summarize"
  <2>1. stage'[u] = "summarize" /\ attempt'[u] = n /\ Asked(u)' = n
    BY <1>5 DEF Schedule, TypeOK, Asked, Before
  <2>2. Asked(u) + 1 = n /\ n <= MaxAttempts
    <3>1. CASE stage[t] \in {"parse", "enrich"} /\ n = 1
      BY <1>2, <1>5, <3>1 DEF Asked, Before
    <3>2. CASE stage[t] = "summarize" /\ n = attempt[t] + 1 /\ n <= MaxAttemptsOf("summarize")
      BY <1>2, <1>5, <3>2 DEF Asked, Before, MaxAttemptsOf, TypeOK, Attempts
    <3> QED
      BY <1>5, <3>1, <3>2 DEF Follows
  <2>3. /\ Cardinality(Bodies(u)') <= Cardinality(Bodies(u)) + 1
        /\ Cardinality(Bodies(u)') \in Nat /\ Cardinality(Bodies(u)) \in Nat
    <3>1. Bodies(u)' \subseteq Bodies(u) \cup {n}
      BY <1>5, ScheduleBodies
    <3>2. /\ IsFiniteSet(Bodies(u)) /\ Cardinality(Bodies(u)) \in Nat
          /\ IsFiniteSet(Bodies(u) \cup {n})
          /\ Cardinality(Bodies(u) \cup {n}) \in
                {Cardinality(Bodies(u)), Cardinality(Bodies(u)) + 1}
      BY BodiesType, FS_AddElement
    <3>3. /\ IsFiniteSet(Bodies(u)')
          /\ Cardinality(Bodies(u)') <= Cardinality(Bodies(u) \cup {n})
      BY <3>1, <3>2, FS_Subset
    <3>4. Cardinality(Bodies(u)') \in Nat
      BY <3>3, FS_CardinalityType
    <3> QED
      BY <3>2, <3>3, <3>4
  <2>4. sums[u] \in Nat /\ n \in Nat /\ sums[u] + Cardinality(Bodies(u)) <= Asked(u)
    BY DEF TypeOK, StoreTypeOK, SumsInv, Attempts
  <2> QED
    BY <1>1, <1>2, <2>1, <2>2, <2>3, <2>4
<1> QED
  BY <1>3, <1>4, <1>5

\* An execution goes on or is struck: no attempt begins, and a commit ends one.
LEMMA ExecutionKeepsSums ==
    ASSUME TypeOK, SumsInv, NEW e \in Exec, Work(e) \/ Befalls(e)
    PROVE  SumsInv'
<1> SUFFICES ASSUME NEW u \in Tasks
             PROVE  /\ stage'[u] = "summarize" => attempt'[u] <= MaxAttempts
                    /\ sums'[u] + Cardinality(Bodies(u)') <= Asked(u)'
  BY DEF SumsInv
<1>1. UNCHANGED wfVars /\ Asked(u)' = Asked(u) /\ Asked(u) \in Nat
  BY AskedType DEF Work, Befalls, wfVars, Asked
<1>2. stage'[u] = "summarize" => attempt'[u] <= MaxAttempts
  BY <1>1 DEF wfVars, SumsInv
<1>3. \E p \in PCs \ {"body"} : Goto(e, p)
  BY DEF Work, Befalls, DbError, Cancel, Crash, ActivityStep, JobUpdate, FetchStored,
     FetchRaises, FetchMarkFailed, ParseCommit, ParseRaises, ParseMarkFailed, NoTask,
     SummarizeCommit, SummarizeRaises, SummarizeMarkFailed, FinalizeRead, FinalizeList,
     FinalizeWrite, LoadJob, CountTasks, SelectJob, WriteJob, Return, PCs, Running, JobSteps
<1>4. /\ \A f \in Exec : f # e => pc'[f] = pc[f]
      /\ pc'[e] # "body"
  BY <1>3 DEF Goto, TypeOK, ActTypeOK
<1>5. \A n \in Attempts : <<u, "summarize", n>> \in Exec
  BY DEF Exec, Kinds
<1>6. Bodies(u)' \subseteq Bodies(u)
  BY <1>4, <1>5 DEF Bodies
<1>7. CASE sums'[u] = sums[u]
  BY <1>1, <1>2, <1>6, <1>7, FewerBodies
<1>8. CASE sums'[u] # sums[u]
  <2>1. SummarizeCommit(e)
    BY <1>8 DEF Work, Befalls, DbError, Cancel, Crash, ActivityStep, JobUpdate, FetchStored,
       FetchRaises, FetchMarkFailed, ParseCommit, ParseRaises, ParseMarkFailed, NoTask,
       SummarizeRaises, SummarizeMarkFailed, FinalizeRead, FinalizeList,
       FinalizeWrite, LoadJob, CountTasks, SelectJob, WriteJob, storeVars
  <2>2. u = TaskOf(e) /\ sums'[u] = sums[u] + 1 /\ sums[u] \in Nat
    BY <1>8, <2>1 DEF SummarizeCommit, TypeOK, StoreTypeOK
  <2>3. PICK n \in Attempts : e = <<u, "summarize", n>>
    BY <2>1, <2>2 DEF SummarizeCommit, At, Exec, TaskOf, KindOf
  <2>4. n \in Bodies(u) /\ Bodies(u)' = Bodies(u) \ {n}
    BY <1>4, <1>5, <2>1, <2>3 DEF SummarizeCommit, At, Bodies
  <2>5. /\ Cardinality(Bodies(u)') = Cardinality(Bodies(u)) - 1
        /\ Cardinality(Bodies(u)) \in Nat
    BY <2>4, BodiesType, FS_RemoveElement
  <2> QED
    BY <1>1, <1>2, <2>2, <2>5 DEF SumsInv
<1> QED
  BY <1>7, <1>8

LEMMA SumsInvInit == Init => SumsInv
<1> SUFFICES ASSUME Init, NEW t \in Tasks
             PROVE  stage[t] = "none" /\ sums[t] = 0 /\ Cardinality(Bodies(t)) = 0
  BY DEF SumsInv, Asked, Before
<1>1. Bodies(t) = {}
  BY DEF Init, ActInit, Bodies, Exec, Kinds
<1> QED
  BY <1>1, FS_EmptySet DEF Init, StoreInit

LEMMA SumsInvNext == TypeOK /\ SumsInv /\ [Next]_vars => SumsInv'
<1> SUFFICES ASSUME TypeOK, SumsInv, [Next]_vars PROVE SumsInv'
  OBVIOUS
<1>0. ASSUME UNCHANGED <<sums, pc, stage, attempt>> PROVE SumsInv'
  BY <1>0 DEF SumsInv, Bodies, Asked
<1>1. CASE Post
  BY <1>0, <1>1 DEF Post, StartJobFails, StartJob, CommitJob, ApiCrash,
     storeVars, actVars, wfVars
<1>2. ASSUME NEW t \in Tasks,
             WorkflowStep(t) \/ StartToCloseTimeout(t) \/ Deadline(t) \/ DropChild(t)
      PROVE  SumsInv'
  BY <1>2, WorkflowMoves, StopsKeepsSums, ScheduleKeepsSums
<1>3. ASSUME NEW e \in Exec, Work(e) \/ Befalls(e) PROVE SumsInv'
  BY <1>3, ExecutionKeepsSums
<1>4. CASE UNCHANGED vars
  BY <1>0, <1>4 DEF vars, storeVars, actVars, wfVars
<1> QED
  BY <1>1, <1>2, <1>3, <1>4 DEF Next

\* A task gets no more batches of summaries than summarize_records has attempts,
\* although each of them may go on after its timeout, and whatever befalls them.
THEOREM AttemptsBoundSummaries == Spec => []SummariesBounded
<1>1. Init => TypeOK /\ SumsInv
  BY InitType, SumsInvInit
<1>2. (TypeOK /\ SumsInv) /\ [Next]_vars => (TypeOK /\ SumsInv)'
  BY NextType, SumsInvNext
<1>3. TypeOK /\ SumsInv => SummariesBounded
  <2> SUFFICES ASSUME TypeOK, SumsInv, NEW t \in Tasks PROVE sums[t] <= MaxAttempts
    BY DEF SummariesBounded
  <2> QED
    BY AskedType, BodiesType DEF TypeOK, StoreTypeOK, SumsInv
<1> QED
  BY <1>1, <1>2, <1>3, PTL DEF Spec

-----------------------------------------------------------------------------
(* A job that does not exist *)

\* Without its rows no execution of summarize_records answers with success.
GhostInv ==
    /\ committed <=> api = "committed"
    /\ ~committed =>
        /\ \A e \in Exec : KindOf(e) = "summarize" => ret[e] # "ok"
        /\ \A t \in Tasks : result[t] # "completed"

LEMMA CurrentParts ==
    ASSUME TypeOK, NEW t \in Tasks
    PROVE  /\ TaskOf(Current(t)) = t /\ KindOf(Current(t)) = stage[t]
           /\ stage[t] \in Kinds => Current(t) \in Exec
BY DEF Current, TaskOf, KindOf, Exec, TypeOK

LEMMA GhostInvNext == TypeOK /\ GhostInv /\ [Next]_vars => GhostInv'
<1> SUFFICES ASSUME TypeOK, GhostInv, [Next]_vars PROVE GhostInv'
  OBVIOUS
<1>0. ASSUME UNCHANGED <<committed, api, ret, result>> PROVE GhostInv'
  BY <1>0 DEF GhostInv
<1>1. CASE Post
  BY <1>0, <1>1 DEF Post, StartJobFails, StartJob, CommitJob, ApiCrash, GhostInv,
     storeVars, actVars, wfVars
<1>2. ASSUME NEW t \in Tasks,
             WorkflowStep(t) \/ StartToCloseTimeout(t) \/ Deadline(t) \/ DropChild(t)
      PROVE  GhostInv'
  <2>1. UNCHANGED <<committed, api>>
    BY <1>2, WorkflowMoves DEF storeVars, WorkflowStep, StartChild, FetchDone, ParseDone,
       EnrichDone, SummarizeDone, FinalizeDone, AttemptLost, StartToCloseTimeout, Deadline,
       DropChild
  <2>2. \A e \in Exec : ret'[e] \in {ret[e], "none"}
    BY <1>2 DEF WorkflowStep, StartChild, FetchDone, ParseDone, EnterEnrich, EnrichDone,
       SummarizeDone, FinalizeDone, AttemptLost, StartToCloseTimeout, Deadline, DropChild,
       NextAttempt, Finally, Schedule, actVars
  <2>3. ASSUME ~committed PROVE \A u \in Tasks : result'[u] \in {result[u], "failed"}
    <3>1. CASE SummarizeDone(t)
      <4>1. Current(t) \in Exec /\ KindOf(Current(t)) = "summarize"
        BY <3>1, CurrentParts DEF SummarizeDone, ActivityReturned, Kinds
      <4>2. ret[Current(t)] # "ok"
        BY <2>3, <4>1 DEF GhostInv
      <4> QED
        BY <3>1, <4>2 DEF SummarizeDone, Finally, Finish, TypeOK
    <3>2. CASE ~SummarizeDone(t)
      BY <1>2, <3>2 DEF WorkflowStep, StartChild, FetchDone, ParseDone, EnrichDone,
         FinalizeDone, AttemptLost, StartToCloseTimeout, Deadline, DropChild,
         NextAttempt, Finally, Finish, TypeOK
    <3> QED
      BY <3>1, <3>2
  <2> QED
    BY <2>1, <2>2, <2>3 DEF GhostInv
<1>3. ASSUME NEW e \in Exec, Befalls(e) PROVE GhostInv'
  BY <1>0, <1>3 DEF Befalls, DbError, Cancel, Crash, storeVars, wfVars
<1>4. ASSUME NEW e \in Exec, Work(e) PROVE GhostInv'
  <2>1. UNCHANGED <<committed, api, result>>
    BY <1>4 DEF Work, ActivityStep, JobUpdate, storeVars, wfVars, FetchStored,
       FetchRaises, FetchMarkFailed, ParseCommit, ParseRaises, ParseMarkFailed,
       NoTask, SummarizeCommit, SummarizeRaises, SummarizeMarkFailed,
       FinalizeRead, FinalizeList, FinalizeWrite, LoadJob, CountTasks, SelectJob, WriteJob
  <2>2. ASSUME ~committed, NEW f \in Exec, KindOf(f) = "summarize", ret'[f] = "ok"
        PROVE  ret[f] = "ok"
    BY <1>4, <2>2 DEF Work, ActivityStep, JobUpdate, At, Return, Outcome, Goto, FetchStored,
       FetchRaises, FetchMarkFailed, ParseCommit, ParseRaises, ParseMarkFailed,
       NoTask, SummarizeCommit, SummarizeRaises, SummarizeMarkFailed, TypeOK, ActTypeOK,
       FinalizeRead, FinalizeList, FinalizeWrite, LoadJob, CountTasks, SelectJob, WriteJob
  <2> QED
    BY <2>1, <2>2 DEF GhostInv
<1>5. CASE UNCHANGED vars
  BY <1>0, <1>5 DEF vars, storeVars, actVars, wfVars
<1> QED
  BY <1>1, <1>2, <1>3, <1>4, <1>5 DEF Next

\* When POST /jobs fails after it has started the workflow, no child reports a completed
\* task, under every fault and however slow the commit that never came.
THEOREM GhostsNeverComplete == Spec => []GhostsFail
<1>1. Init => GhostInv
  BY DEF Init, StoreInit, ActInit, GhostInv
<1>2. TypeOK /\ GhostInv /\ [Next]_vars => GhostInv'
  BY GhostInvNext
<1>3. GhostInv => GhostsFail
  BY DEF GhostInv, GhostsFail
<1> QED
  BY <1>1, <1>2, <1>3, TypeCorrect, PTL DEF Spec

-----------------------------------------------------------------------------
(* One execution of a task at a time *)

\* One attempt per activity, and nothing strikes that leaves an execution running
\* which the workflow has given up, or that raises in a job session.
Calm == MaxAttempts = 1 /\ Faults \cap {"timeout", "cancel", "db"} = {}

\* e is the execution that the workflow of its task waits for.
Awaited(e) == e = Current(TaskOf(e))

Quiescent(t) == \A e \in Exec : TaskOf(e) = t => ~Live(e)

OneAtATime ==
    /\ \A e \in Exec : Live(e) => Awaited(e) \/ stage[TaskOf(e)] = "expired"
    /\ \A e, f \in Exec : TaskOf(e) = TaskOf(f) /\ Live(e) /\ Live(f) => e = f

\* e stands where it may still judge its task.
ToJudge(e) ==
    \/ KindOf(e) \in {"fetch", "parse"} /\ Live(e)
    \/ KindOf(e) = "summarize" /\ pc[e] = "body"
    \/ pc[e] \in {"failing", "listing", "markDone", "markFailed"}

\* e has fetched or parsed the feed of its task.
Passed(e) ==
    KindOf(e) \in {"fetch", "parse"} /\ Awaited(e) /\ pc[e] = "returned" /\ ret[e] # "failed"

\* While the pipeline has more to say about a task the task is pending.
Undecided ==
    /\ \A t \in Tasks : stage[t] \in {"none", "enrich"} => ~Settled(t)
    /\ \A e \in Exec : ToJudge(e) \/ Passed(e) => ~Settled(TaskOf(e))

OrderInv == OneAtATime /\ Undecided

LEMMA ExecParts ==
    ASSUME NEW e \in Exec
    PROVE  TaskOf(e) \in Tasks /\ KindOf(e) \in Kinds /\ e = <<TaskOf(e), KindOf(e), e[3]>>
BY DEF Exec, TaskOf, KindOf

LEMMA AwaitedKind ==
    ASSUME TypeOK, NEW e \in Exec, Awaited(e)
    PROVE  stage[TaskOf(e)] = KindOf(e)
BY ExecParts, CurrentParts DEF Awaited

\* When the awaited execution is over, or none is awaited, nothing of the task runs.
LEMMA NothingRuns ==
    ASSUME TypeOK, OrderInv, NEW t \in Tasks, stage[t] # "expired",
           stage[t] \in Kinds => ~Live(Current(t))
    PROVE  Quiescent(t)
BY AwaitedKind, ExecParts DEF OrderInv, OneAtATime, Quiescent, Awaited

\* What the server asks for once nothing of the task runs: finalize_task, or the
\* next activity of a task that is pending.
LEMMA ScheduleKeepsOrder ==
    ASSUME TypeOK, OrderInv, NEW t \in Tasks, NEW kind \in Kinds, NEW n \in Attempts,
           Schedule(t, kind, n), UNCHANGED storeVars, Quiescent(t),
           kind = "finalize" \/ ~Settled(t)
    PROVE  OrderInv'
<1> DEFINE x == <<t, kind, n>>
<1>1. x \in Exec /\ TaskOf(x) = t /\ KindOf(x) = kind
  BY DEF Exec, TaskOf, KindOf
<1>2. /\ stage'[t] = kind /\ Current(t)' = x
      /\ \A u \in Tasks : u # t => stage'[u] = stage[u] /\ Current(u)' = Current(u)
  BY DEF Schedule, TypeOK, Current
<1>3. /\ pc'[x] = "body"
      /\ \A e \in Exec : TaskOf(e) # t => pc'[e] = pc[e] /\ ret'[e] = ret[e]
      /\ \A e \in Exec : TaskOf(e) = t /\ e # x => pc'[e] = pc[e] \/ pc'[e] = "idle"
  <2>1. \A e \in Exec : Seen(t, e) => TaskOf(e) = t
    BY CurrentParts DEF Seen
  <2> QED
    BY <1>1, <2>1 DEF Schedule, Seen, Live, Quiescent, TypeOK, ActTypeOK
<1>4. \A e \in Exec : Live(e)' => e = x \/ (TaskOf(e) # t /\ Live(e))
  BY <1>1, <1>3 DEF Live, Quiescent, Running, JobSteps
<1>5. \A e \in Exec : TaskOf(e) # t => (Awaited(e)' <=> Awaited(e)) /\ (ToJudge(e)' <=> ToJudge(e))
  BY <1>2, <1>3, ExecParts DEF Awaited, ToJudge, Live
<1>6. UNCHANGED task
  BY DEF storeVars
<1>7. OneAtATime'
  BY <1>1, <1>2, <1>4, <1>5, ExecParts DEF OrderInv, OneAtATime, Awaited
<1>8. Undecided'
  <2>1. ASSUME NEW u \in Tasks, stage'[u] \in {"none", "enrich"} PROVE ~Settled(u)'
    BY <1>2, <1>6, <2>1 DEF OrderInv, Undecided, Settled, Kinds
  <2>2. ASSUME NEW e \in Exec, TaskOf(e) # t, (ToJudge(e) \/ Passed(e))' PROVE ~Settled(TaskOf(e))'
    BY <1>3, <1>5, <1>6, <2>2 DEF OrderInv, Undecided, Settled, Passed
  <2>3. ASSUME NEW e \in Exec, TaskOf(e) = t, ToJudge(e)' PROVE ~Settled(TaskOf(e))'
    <3>1. e = x
      BY <1>4, <2>3 DEF ToJudge, Live, Running
    <3>2. kind # "finalize"
      BY <1>1, <1>3, <2>3, <3>1 DEF ToJudge
    <3> QED
      BY <1>6, <2>3, <3>2 DEF Settled
  <2>4. ASSUME NEW e \in Exec, TaskOf(e) = t, Passed(e)' PROVE FALSE
    BY <1>2, <1>3, <2>4 DEF Passed, Awaited
  <2> QED
    BY <2>1, <2>2, <2>3, <2>4 DEF Undecided
<1> QED
  BY <1>7, <1>8 DEF OrderInv

\* The workflow ends, is ended or enters the enrichment of a pending task.
LEMMA StopsKeepsOrder ==
    ASSUME TypeOK, OrderInv, NEW t \in Tasks, Stops(t), UNCHANGED <<storeVars, actVars>>,
           stage'[t] = "expired" \/ Quiescent(t),
           stage'[t] = "enrich" => ~Settled(t)
    PROVE  OrderInv'
<1>1. /\ stage'[t] \notin Kinds \cup {"none"}
      /\ \A u \in Tasks : u # t => stage'[u] = stage[u] /\ Current(u)' = Current(u)
  BY DEF Stops, TypeOK, Current, Kinds
<1>2. \A e \in Exec : TaskOf(e) = t => ~Awaited(e)'
  BY <1>1, ExecParts DEF Awaited, Current
<1>3. \A e \in Exec : TaskOf(e) # t => (Awaited(e)' <=> Awaited(e))
  BY <1>1, ExecParts DEF Awaited
<1>4. UNCHANGED <<pc, ret, task>>
  BY DEF storeVars, actVars
<1>5. OneAtATime'
  BY <1>1, <1>3, <1>4, ExecParts DEF OrderInv, OneAtATime, Live, Quiescent
<1>6. Undecided'
  BY <1>1, <1>2, <1>3, <1>4, ExecParts DEF OrderInv, Undecided, Settled, ToJudge, Passed, Live
<1> QED
  BY <1>5, <1>6 DEF OrderInv

LEMMA WorkflowKeepsOrder ==
    ASSUME Calm, TypeOK, OrderInv, NEW t \in Tasks, WorkflowStep(t)
    PROVE  OrderInv'
<1>0. /\ 1 \in Attempts /\ {"fetch", "parse", "summarize", "finalize"} = Kinds
      /\ UNCHANGED storeVars
  BY AttemptAssumption, WorkflowType DEF Attempts, Kinds
<1>1. ASSUME NEW kind, ActivityReturned(t, kind), kind \in Kinds
      PROVE  /\ Quiescent(t)
             /\ kind \in {"fetch", "parse"} /\ ret[Current(t)] # "failed" => ~Settled(t)
  <2>1. stage[t] \in Kinds /\ ~Live(Current(t)) /\ Current(t) \in Exec
    BY <1>1, CurrentParts DEF ActivityReturned, Live, Running, JobSteps
  <2>2. Quiescent(t)
    BY <1>0, <2>1, NothingRuns
  <2>3. kind \in {"fetch", "parse"} /\ ret[Current(t)] # "failed" => Passed(Current(t))
    BY <1>1, CurrentParts DEF ActivityReturned, Passed, Awaited
  <2> QED
    BY <2>1, <2>2, <2>3, CurrentParts DEF OrderInv, Undecided
<1>2. CASE StartChild(t)
  <2>1. Quiescent(t) /\ ~Settled(t)
    BY <1>0, <1>2, NothingRuns DEF StartChild, OrderInv, Undecided
  <2> QED
    BY <1>0, <1>2, <2>1, ScheduleKeepsOrder DEF StartChild
<1>3. CASE FetchDone(t)
  BY <1>0, <1>1, <1>3, ScheduleKeepsOrder DEF FetchDone, Finally
<1>4. CASE ParseDone(t)
  <2>1. CASE EnterEnrich(t)
    <3>1. Stops(t) /\ stage'[t] = "enrich"
      BY <1>4, <2>1 DEF ParseDone, ActivityReturned, EnterEnrich, Stops, actVars, TypeOK
    <3>2. Quiescent(t) /\ ~Settled(t)
      <4>1. ret[Current(t)] # "failed"
        BY <1>4, <2>1 DEF ParseDone, EnterEnrich, Finally, Schedule, TypeOK
      <4> QED
        BY <1>0, <1>1, <1>4, <4>1 DEF ParseDone
    <3> QED
      BY <1>0, <2>1, <3>1, <3>2, StopsKeepsOrder DEF EnterEnrich
  <2>2. CASE ~EnterEnrich(t)
    BY <1>0, <1>1, <1>4, <2>2, ScheduleKeepsOrder DEF ParseDone, Finally
  <2> QED
    BY <2>1, <2>2
<1>5. CASE EnrichDone(t)
  <2>1. Quiescent(t) /\ ~Settled(t)
    BY <1>0, <1>5, NothingRuns DEF EnrichDone, OrderInv, Undecided
  <2> QED
    BY <1>0, <1>5, <2>1, ScheduleKeepsOrder DEF EnrichDone
<1>6. CASE SummarizeDone(t)
  BY <1>0, <1>1, <1>6, ScheduleKeepsOrder DEF SummarizeDone, Finally
<1>7. CASE FinalizeDone(t)
  <2>1. Stops(t) /\ stage'[t] = "closed"
    BY <1>7 DEF FinalizeDone, Stops, actVars, TypeOK
  <2>2. Quiescent(t)
    BY <1>0, <1>1, <1>7 DEF FinalizeDone
  <2> QED
    BY <1>0, <1>7, <2>1, <2>2, StopsKeepsOrder DEF FinalizeDone
<1>8. CASE AttemptLost(t)
  <2>1. Quiescent(t)
    BY <1>0, <1>8, NothingRuns DEF AttemptLost, Live, Running, JobSteps
  <2>2. \E n \in Attempts : Schedule(t, "finalize", n)
    <3>1. CASE attempt[t] < MaxAttemptsOf(stage[t])
      BY <1>8, <3>1, AttemptAssumption
         DEF Calm, AttemptLost, NextAttempt, MaxAttemptsOf, TypeOK, Attempts
    <3>2. CASE ~(attempt[t] < MaxAttemptsOf(stage[t]))
      BY <1>0, <1>8, <3>2 DEF AttemptLost, NextAttempt, Finally
    <3> QED
      BY <3>1, <3>2
  <2> QED
    BY <1>0, <2>1, <2>2, ScheduleKeepsOrder
<1> QED
  BY <1>2, <1>3, <1>4, <1>5, <1>6, <1>7, <1>8 DEF WorkflowStep

\* A step of an activity, as far as the verdict on its task is concerned.
LEMMA ActivityJudges ==
    ASSUME TypeOK, OrderInv, NEW e \in Exec, Work(e)
    PROVE  /\ Live(e) /\ UNCHANGED wfVars
           /\ \A f \in Exec : f # e => pc'[f] = pc[f] /\ ret'[f] = ret[f]
           /\ \A t \in Tasks : t # TaskOf(e) => task'[t] = task[t]
           /\ task' # task => ToJudge(e)
           /\ task' # task => ~ToJudge(e)'
           /\ task' # task /\ KindOf(e) \in {"fetch", "parse"} => ret'[e] = "failed"
           /\ ToJudge(e)' => ToJudge(e) \/ ~Settled(TaskOf(e))
           /\ KindOf(e) \in {"fetch", "parse"} => ToJudge(e)
<1> USE DEF TypeOK, ActTypeOK, StoreTypeOK, Goto, Outcome, Return, At, ToJudge, storeVars, SetTask,
            Live, Running, JobSteps
<1>0. /\ Live(e) /\ UNCHANGED wfVars /\ ActivityStep(e)
      /\ KindOf(e) \in Kinds
  BY ExecParts DEF Work
<1>1. CASE FetchStored(e) \/ FetchRaises(e) \/ FetchMarkFailed(e)
  BY <1>0, <1>1 DEF FetchStored, FetchRaises, FetchMarkFailed
<1>2. CASE ParseCommit(e) \/ ParseRaises(e) \/ ParseMarkFailed(e) \/ NoTask(e)
  BY <1>0, <1>2 DEF ParseCommit, ParseRaises, ParseMarkFailed, NoTask
<1>3. CASE SummarizeCommit(e) \/ SummarizeRaises(e) \/ SummarizeMarkFailed(e)
  BY <1>0, <1>3 DEF SummarizeCommit, SummarizeRaises, SummarizeMarkFailed
<1>4. CASE FinalizeRead(e) \/ FinalizeList(e) \/ FinalizeWrite(e)
  BY <1>0, <1>4 DEF FinalizeRead, FinalizeList, FinalizeWrite
<1>5. CASE JobUpdate(e)
  BY <1>0, <1>5 DEF JobUpdate, LoadJob, CountTasks, SelectJob, WriteJob
<1> QED
  BY <1>0, <1>1, <1>2, <1>3, <1>4, <1>5 DEF ActivityStep

LEMMA ActivityKeepsOrder ==
    ASSUME TypeOK, OrderInv, NEW e \in Exec, Work(e)
    PROVE  OrderInv'
<1>1. /\ Live(e) /\ UNCHANGED <<stage, attempt>>
      /\ \A f \in Exec : f # e => pc'[f] = pc[f] /\ ret'[f] = ret[f]
  BY ActivityJudges DEF wfVars
<1>2. /\ \A f \in Exec : Live(f)' => Live(f)
      /\ \A f \in Exec : Awaited(f)' <=> Awaited(f)
  BY <1>1 DEF Live, Awaited, Current
<1>3. OneAtATime'
  BY <1>1, <1>2 DEF OrderInv, OneAtATime
<1>4. stage[TaskOf(e)] \notin {"none", "enrich"}
  BY <1>1, AwaitedKind, ExecParts DEF OrderInv, OneAtATime, Kinds
\* No other execution of the task runs, or has passed and is awaited.
<1>5. ASSUME NEW f \in Exec, f # e, TaskOf(f) = TaskOf(e)
      PROVE  ~(ToJudge(f) \/ Passed(f))'
  <2>1. ~Live(f)
    BY <1>1, <1>5 DEF OrderInv, OneAtATime
  <2>2. ~Awaited(f)
    <3>1. CASE Awaited(e)
      BY <1>5, <3>1 DEF Awaited
    <3>2. CASE stage[TaskOf(e)] = "expired"
      BY <1>5, <3>2, AwaitedKind, ExecParts DEF Kinds
    <3> QED
      BY <1>1, <3>1, <3>2 DEF OrderInv, OneAtATime
  <2> QED
    BY <1>1, <1>2, <1>5, <2>1, <2>2 DEF ToJudge, Passed, Live, Running
<1>6. ASSUME NEW f \in Exec, TaskOf(f) # TaskOf(e), (ToJudge(f) \/ Passed(f))'
      PROVE  ~Settled(TaskOf(f))'
  BY <1>1, <1>2, <1>6, ActivityJudges, ExecParts
     DEF OrderInv, Undecided, ToJudge, Passed, Live, Settled
<1>7. ASSUME (ToJudge(e) \/ Passed(e))' PROVE ~Settled(TaskOf(e))'
  <2>1. UNCHANGED task
    BY <1>7, ActivityJudges DEF Passed
  <2>2. ~Settled(TaskOf(e))
    BY <1>7, ActivityJudges DEF OrderInv, Undecided, Passed
  <2> QED
    BY <2>1, <2>2 DEF Settled
<1>8. Undecided'
  <2>1. ASSUME NEW t \in Tasks, stage'[t] \in {"none", "enrich"} PROVE ~Settled(t)'
    BY <1>1, <1>4, <2>1, ActivityJudges DEF OrderInv, Undecided, Settled
  <2> QED
    BY <1>5, <1>6, <1>7, <2>1 DEF Undecided
<1> QED
  BY <1>3, <1>8 DEF OrderInv

\* A crash ends an execution, or loses an answer.
LEMMA CrashKeepsOrder ==
    ASSUME Calm, TypeOK, OrderInv, NEW e \in Exec, Befalls(e)
    PROVE  OrderInv'
<1>1. /\ UNCHANGED <<stage, attempt, task, ret>>
      /\ pc' = [pc EXCEPT ![e] = "dead"]
  BY DEF Calm, Befalls, Inject, Crash, Goto, wfVars, storeVars
<1>2. /\ \A f \in Exec : Awaited(f)' <=> Awaited(f)
      /\ \A f \in Exec : pc'[f] = IF f = e THEN "dead" ELSE pc[f]
  BY <1>1 DEF Awaited, Current, TypeOK, ActTypeOK
<1>3. /\ \A f \in Exec : Live(f)' => Live(f)
      /\ \A f \in Exec : (ToJudge(f) \/ Passed(f))' => ToJudge(f) \/ Passed(f)
  BY <1>1, <1>2 DEF Live, Running, JobSteps, ToJudge, Passed
<1> QED
  BY <1>1, <1>2, <1>3 DEF OrderInv, OneAtATime, Undecided, Settled

LEMMA OrderInvInit == Init => OrderInv
BY DEF Init, StoreInit, ActInit, OrderInv, OneAtATime, Undecided, Live, Running, JobSteps,
   ToJudge, Passed, Settled

LEMMA OrderInvNext == Calm /\ TypeOK /\ OrderInv /\ [Next]_vars => OrderInv'
<1> SUFFICES ASSUME Calm, TypeOK, OrderInv, [Next]_vars PROVE OrderInv'
  OBVIOUS
<1>0. ASSUME UNCHANGED <<task, pc, ret, stage, attempt>> PROVE OrderInv'
  BY <1>0 DEF OrderInv, OneAtATime, Undecided, Live, ToJudge, Passed, Awaited, Current, Settled
<1>1. CASE Post
  BY <1>0, <1>1 DEF Post, StartJobFails, StartJob, CommitJob, ApiCrash,
     storeVars, actVars, wfVars
<1>2. ASSUME NEW t \in Tasks, WorkflowStep(t) PROVE OrderInv'
  BY <1>2, WorkflowKeepsOrder
<1>3. ASSUME NEW t \in Tasks, StartToCloseTimeout(t) PROVE OrderInv'
  BY <1>3 DEF StartToCloseTimeout, Inject, Calm
<1>4. ASSUME NEW t \in Tasks, Deadline(t) PROVE OrderInv'
  <2>1. Stops(t) /\ stage'[t] = "expired"
    BY <1>4 DEF Deadline, Stops, actVars, TypeOK
  <2> QED
    BY <1>4, <2>1, StopsKeepsOrder DEF Deadline
<1>d. ASSUME NEW t \in Tasks, DropChild(t) PROVE OrderInv'
  <2>1. Stops(t) /\ stage'[t] = "dropped"
    BY <1>d DEF DropChild, Stops, actVars, TypeOK
  <2>2. \A e \in Exec : TaskOf(e) = t => ~Live(e)
    BY <1>d, ExecParts DEF DropChild, OrderInv, OneAtATime, Awaited, Current, Kinds
  <2>3. Quiescent(t)
    BY <2>2, ExecParts DEF Quiescent
  <2> QED
    BY <1>d, <2>1, <2>3, StopsKeepsOrder DEF DropChild
<1>5. ASSUME NEW e \in Exec, Work(e) PROVE OrderInv'
  BY <1>5, ActivityKeepsOrder
<1>6. ASSUME NEW e \in Exec, Befalls(e) PROVE OrderInv'
  BY <1>6, CrashKeepsOrder
<1>7. CASE UNCHANGED vars
  BY <1>0, <1>7 DEF vars, storeVars, actVars, wfVars
<1> QED
  BY <1>1, <1>2, <1>3, <1>4, <1>d, <1>5, <1>6, <1>7 DEF Next

\* Only an execution that may still judge its task writes the task's status.
LEMMA JudgedOnce ==
    ASSUME TypeOK, OrderInv, [Next]_vars
    PROVE  \A t \in Tasks : Settled(t) => task'[t] = task[t]
<1>1. CASE \E e \in Exec : Work(e)
  <2>1. PICK e \in Exec : Work(e)
    BY <1>1
  <2> QED
    BY <2>1, ActivityJudges DEF OrderInv, Undecided
<1>2. CASE Next /\ \A e \in Exec : ~Work(e)
  BY <1>2, OthersLeaveSummaries
<1>3. CASE UNCHANGED vars
  BY <1>3 DEF vars, storeVars
<1> QED
  BY <1>1, <1>2, <1>3

LEMMA OrderHolds == ASSUME Calm PROVE Spec => [](TypeOK /\ OrderInv)
<1>1. Init => TypeOK /\ OrderInv
  BY InitType, OrderInvInit
<1>2. (TypeOK /\ OrderInv) /\ [Next]_vars => (TypeOK /\ OrderInv)'
  BY NextType, OrderInvNext
<1> QED
  BY <1>1, <1>2, PTL DEF Spec

\* The verdict on a task stands, although summarize_records, its handler and
\* finalize_task all write it and none looks at it again before it writes: with one
\* attempt per activity, crashes and execution timeouts do not let two of them in.
THEOREM VerdictStands ==
    ASSUME Calm
    PROVE  Spec => VerdictIsFinal
<1>1. TypeOK /\ OrderInv /\ [Next]_vars
        => [\A t \in Tasks : Settled(t) => task'[t] = task[t]]_vars
  BY JudgedOnce
<1> QED
  BY <1>1, OrderHolds, PTL DEF Spec, VerdictIsFinal

-----------------------------------------------------------------------------
(* The counters of the job row *)

\* Neither the row nor a Job object in some session counts what is not there.
CountInv ==
    /\ RowNeverOvercounts
    /\ \A e \in Exec :
        /\ copy[e].completed <= CountByStatus.completed
        /\ copy[e].failed <= CountByStatus.failed

\* Verdicts that stand are counted for good.
LEMMA CountsGrow ==
    ASSUME TypeOK, TypeOK', \A t \in Tasks : Settled(t) => task'[t] = task[t]
    PROVE  /\ CountByStatus.completed <= CountByStatus'.completed
           /\ CountByStatus.failed <= CountByStatus'.failed
           /\ {CountByStatus.completed, CountByStatus.failed,
               CountByStatus'.completed, CountByStatus'.failed} \subseteq Nat
<1>1. ASSUME NEW s \in {"completed", "failed"}
      PROVE  /\ Cardinality(TasksWith(s)) <= Cardinality(TasksWith(s)')
             /\ Cardinality(TasksWith(s)) \in Nat /\ Cardinality(TasksWith(s)') \in Nat
  <2>1. TasksWith(s) \subseteq TasksWith(s)'
    BY DEF TasksWith, Settled
  <2>2. IsFiniteSet(TasksWith(s)')
    BY TasksAssumption, FS_Subset DEF TasksWith
  <2> QED
    BY <2>1, <2>2, FS_Subset, FS_CardinalityType
<1> QED
  BY <1>1 DEF CountByStatus

\* The steps that change the row or a Job object of a session.
LEMMA CountInvNext ==
    ASSUME TypeOK, TypeOK', OrderInv, CountInv, [Next]_vars
    PROVE  CountInv'
<1>c. /\ CountByStatus.completed <= CountByStatus'.completed
      /\ CountByStatus.failed <= CountByStatus'.failed
      /\ {CountByStatus.completed, CountByStatus.failed,
          CountByStatus'.completed, CountByStatus'.failed} \subseteq Nat
  BY JudgedOnce, CountsGrow
<1>t. /\ job \in JobRow /\ job' \in JobRow
      /\ copy \in [Exec -> JobRow] /\ copy' \in [Exec -> JobRow]
  BY DEF TypeOK, StoreTypeOK, ActTypeOK
\* It is enough that what is new was right before the step.
<1>n. ASSUME job'.completed <= CountByStatus.completed,
             job'.failed <= CountByStatus.failed,
             \A e \in Exec : /\ copy'[e].completed <= CountByStatus.completed
                             /\ copy'[e].failed <= CountByStatus.failed
      PROVE  CountInv'
  <2>1. ASSUME NEW e \in Exec PROVE copy'[e] \in JobRow
    BY <1>t
  <2> QED
    BY <1>c, <1>t, <1>n, <2>1 DEF CountInv, RowNeverOvercounts, JobRow
<1>k. ASSUME UNCHANGED job,
             \A e \in Exec : copy'[e] = copy[e] \/ copy'[e] = NewJob
      PROVE  CountInv'
  BY <1>c, <1>n, <1>k DEF CountInv, RowNeverOvercounts, NewJob
<1>1. CASE Post
  BY <1>1, <1>k DEF Post, StartJobFails, StartJob, CommitJob, ApiCrash,
     storeVars, actVars
<1>2. ASSUME NEW t \in Tasks,
             WorkflowStep(t) \/ StartToCloseTimeout(t) \/ Deadline(t) \/ DropChild(t)
      PROVE  CountInv'
  <2>1. UNCHANGED storeVars
    BY <1>2, WorkflowMoves
  <2>2. UNCHANGED copy
    BY <1>2 DEF WorkflowStep, StartChild, FetchDone, ParseDone, EnterEnrich,
       EnrichDone, SummarizeDone, FinalizeDone, AttemptLost,
       StartToCloseTimeout, Deadline, DropChild, NextAttempt, Finally, Schedule, actVars
  <2> QED
    BY <2>1, <2>2, <1>k DEF storeVars
<1>3. ASSUME NEW e \in Exec, Befalls(e) PROVE CountInv'
  <2>1. ForgetJob(e) /\ UNCHANGED storeVars
    BY <1>3 DEF Befalls, DbError, Cancel, Crash
  <2> QED
    BY <2>1, <1>t, <1>k DEF ForgetJob, storeVars
<1>4. ASSUME NEW e \in Exec, Work(e) PROVE CountInv'
  <2>1. CASE LoadJob(e)
    BY <2>1, <1>t, <1>n DEF LoadJob, CountInv, RowNeverOvercounts, storeVars
  <2>2. CASE CountTasks(e)
    BY <2>2, <1>c, <1>t, <1>n DEF CountTasks, UpdateProgress, CountInv,
       RowNeverOvercounts, storeVars
  <2>3. CASE WriteJob(e)
    <3>1. /\ job'.completed \in {job.completed, copy[e].completed}
          /\ job'.failed \in {job.failed, copy[e].failed}
      BY <2>3 DEF WriteJob, Flush, Changed
    <3>2. \A f \in Exec : copy'[f] = copy[f] \/ copy'[f] = NewJob
      BY <2>3, <1>t DEF WriteJob, ForgetJob
    <3> QED
      BY <3>1, <3>2, <1>c, <1>n DEF CountInv, RowNeverOvercounts, NewJob
  <2>4. CASE ~(LoadJob(e) \/ CountTasks(e) \/ WriteJob(e))
    <3>1. UNCHANGED <<job, copy>>
      BY <1>4, <2>4 DEF Work, ActivityStep, JobUpdate, storeVars, FetchStored,
         FetchRaises, FetchMarkFailed, ParseCommit, ParseRaises, ParseMarkFailed,
         NoTask, SummarizeCommit, SummarizeRaises, SummarizeMarkFailed,
         FinalizeRead, FinalizeList, FinalizeWrite, SelectJob
    <3> QED
      BY <3>1, <1>k
  <2> QED
    BY <2>1, <2>2, <2>3, <2>4
<1>5. CASE UNCHANGED vars
  BY <1>5, <1>k DEF vars, storeVars, actVars
<1> QED
  BY <1>1, <1>2, <1>3, <1>4, <1>5 DEF Next

LEMMA CountInvInit == Init => CountInv
<1> SUFFICES ASSUME Init PROVE CountInv
  OBVIOUS
<1>1. CountByStatus.completed \in Nat /\ CountByStatus.failed \in Nat
  BY CountType
<1> QED
  BY <1>1 DEF Init, StoreInit, ActInit, NewJob, CountInv, RowNeverOvercounts

\* The counters of the job row never count a task that is not settled so, whichever
\* session writes its older counts last: they were right once, and verdicts stand.
THEOREM NeverOvercounts ==
    ASSUME Calm
    PROVE  Spec => []RowNeverOvercounts
<1>1. Init => CountInv
  BY CountInvInit
<1>2. CountInv /\ (TypeOK /\ OrderInv) /\ (TypeOK /\ OrderInv)' /\ [Next]_vars => CountInv'
  BY CountInvNext
<1>3. CountInv => RowNeverOvercounts
  BY DEF CountInv
<1> QED
  BY <1>1, <1>2, <1>3, OrderHolds, PTL DEF Spec

-----------------------------------------------------------------------------
(* The results of the workflows *)

\* No child reaches the database before the commit of POST /jobs is over.
Prompt == "slowCommit" \notin Faults

\* What runs, runs for a job whose POST is over; what is lost was struck.
StartInv ==
    /\ committed <=> api = "committed"
    /\ \A t \in Tasks : stage[t] \notin {"none", "dropped"} => api \in {"committed", "aborted"}
    /\ \A e \in Exec : pc[e] \in {"raised", "dead"} => injected > 0

Answered(e) == pc[e] \in JobSteps \cup {"returned"}

\* What e answers is what it wrote.
AnswerFits(e) ==
    /\ KindOf(e) # "finalize" /\ ret[e] = "failed" => task[TaskOf(e)] = "failed"
    /\ KindOf(e) = "summarize" =>
            task[TaskOf(e)] = IF ret[e] = "ok" THEN "completed" ELSE "failed"

ResultFits(t) ==
    \/ result[t] = "completed" /\ task[t] = "completed"
    \/ result[t] = "failed" /\ (task[t] = "failed" \/ injected > 0)

AnswerInv ==
    committed =>
        /\ \A e \in Exec : Awaited(e) /\ Answered(e) => AnswerFits(e)
        /\ \A t \in Tasks : stage[t] \in {"finalize", "closed"} => ResultFits(t)

LEMMA StartInvInit == Init => StartInv /\ AnswerInv
BY DEF Init, StoreInit, ActInit, StartInv, AnswerInv

LEMMA StartInvNext == Prompt /\ TypeOK /\ StartInv /\ [Next]_vars => StartInv'
<1> SUFFICES ASSUME Prompt, TypeOK, StartInv, [Next]_vars PROVE StartInv'
  OBVIOUS
<1>1. CASE Post
  BY <1>1 DEF Post, StartJobFails, StartJob, CommitJob, ApiCrash, StartInv,
     storeVars, actVars, wfVars
<1>2. ASSUME NEW t \in Tasks,
             WorkflowStep(t) \/ StartToCloseTimeout(t) \/ Deadline(t) \/ DropChild(t)
      PROVE  StartInv'
  <2>1. /\ UNCHANGED <<storeVars, api>> /\ injected \in Nat
        /\ injected' = injected \/ injected' = injected + 1
    BY <1>2, WorkflowMoves DEF WorkflowStep, StartChild, FetchDone, ParseDone, EnrichDone,
       SummarizeDone, FinalizeDone, AttemptLost, StartToCloseTimeout, Deadline, DropChild,
       Inject, TypeOK
  <2>2. /\ \A u \in Tasks : u # t => stage'[u] = stage[u]
        /\ \A e \in Exec : pc'[e] \in {"raised", "dead"} => pc[e] \in {"raised", "dead"}
    <3>1. CASE Stops(t)
      BY <3>1 DEF Stops, TypeOK
    <3>2. ASSUME NEW kind \in Kinds, NEW n \in Attempts, Schedule(t, kind, n)
          PROVE  /\ \A u \in Tasks : u # t => stage'[u] = stage[u]
                 /\ \A e \in Exec : pc'[e] \in {"raised", "dead"} => pc[e] \in {"raised", "dead"}
      BY <3>2 DEF Schedule, TypeOK
    <3> QED
      BY <1>2, <3>1, <3>2, WorkflowMoves
  <2>3. stage'[t] \notin {"none", "dropped"} => api \in {"committed", "aborted"}
    BY <1>2 DEF StartInv, TypeOK, WorkflowStep, StartChild, FetchDone, ParseDone, EnrichDone, SummarizeDone,
       FinalizeDone, AttemptLost, ActivityReturned, StartToCloseTimeout, Deadline, DropChild,
       Kinds, Prompt
  <2> QED
    BY <2>1, <2>2, <2>3 DEF StartInv, storeVars
<1>3. ASSUME NEW e \in Exec, Befalls(e) PROVE StartInv'
  <2>1. /\ UNCHANGED <<storeVars, api, wfVars>>
        /\ injected \in Nat /\ injected' = injected + 1
    BY <1>3 DEF Befalls, DbError, Cancel, Crash, Inject, TypeOK
  <2> QED
    BY <2>1 DEF StartInv, storeVars, wfVars
<1>4. ASSUME NEW e \in Exec, Work(e) PROVE StartInv'
  <2>1. UNCHANGED <<committed, api, wfVars, injected>>
    BY <1>4 DEF Work, ActivityStep, JobUpdate, storeVars, FetchStored,
       FetchRaises, FetchMarkFailed, ParseCommit, ParseRaises, ParseMarkFailed,
       NoTask, SummarizeCommit, SummarizeRaises, SummarizeMarkFailed,
       FinalizeRead, FinalizeList, FinalizeWrite, LoadJob, CountTasks, SelectJob, WriteJob
  <2>2. \A f \in Exec : pc'[f] \in {"raised", "dead"} => pc[f] \in {"raised", "dead"}
    BY <1>4 DEF Work, ActivityStep, JobUpdate, FetchStored, Goto, Return, TypeOK, ActTypeOK,
       FetchRaises, FetchMarkFailed, ParseCommit, ParseRaises, ParseMarkFailed,
       NoTask, SummarizeCommit, SummarizeRaises, SummarizeMarkFailed,
       FinalizeRead, FinalizeList, FinalizeWrite, LoadJob, CountTasks, SelectJob, WriteJob
  <2> QED
    BY <2>1, <2>2 DEF StartInv, wfVars
<1>5. CASE UNCHANGED vars
  BY <1>5 DEF vars, storeVars, actVars, wfVars, StartInv
<1> QED
  BY <1>1, <1>2, <1>3, <1>4, <1>5 DEF Next

\* The workflow goes to finalize_task with a result that fits.
LEMMA ScheduleKeepsAnswers ==
    ASSUME TypeOK, AnswerInv, NEW t \in Tasks, NEW kind \in Kinds, NEW n \in Attempts,
           Schedule(t, kind, n), UNCHANGED <<storeVars, injected>>,
           \A u \in Tasks : u # t => result'[u] = result[u],
           committed /\ kind = "finalize" => ResultFits(t)'
    PROVE  AnswerInv'
<1>1. /\ stage'[t] = kind /\ Current(t)' = <<t, kind, n>>
      /\ \A u \in Tasks : u # t => stage'[u] = stage[u] /\ Current(u)' = Current(u)
  BY DEF Schedule, TypeOK, Current
<1>2. /\ \A e \in Exec : TaskOf(e) # t => pc'[e] = pc[e] /\ ret'[e] = ret[e]
      /\ \A e \in Exec : e = <<t, kind, n>> => pc'[e] = "body"
  <2>1. \A e \in Exec : Seen(t, e) => TaskOf(e) = t
    BY CurrentParts DEF Seen
  <2>2. TaskOf(<<t, kind, n>>) = t
    BY DEF TaskOf
  <2> QED
    BY <2>1, <2>2 DEF Schedule
<1> SUFFICES ASSUME committed'
             PROVE  /\ \A e \in Exec : (Awaited(e) /\ Answered(e) => AnswerFits(e))'
                    /\ \A u \in Tasks : (stage[u] \in {"finalize", "closed"} => ResultFits(u))'
  BY DEF AnswerInv
<1>3. ASSUME NEW e \in Exec, TaskOf(e) = t, Awaited(e)', Answered(e)' PROVE FALSE
  BY <1>1, <1>2, <1>3 DEF Awaited, Answered, JobSteps
<1>4. ASSUME NEW e \in Exec, TaskOf(e) # t, Awaited(e)', Answered(e)' PROVE AnswerFits(e)'
  BY <1>1, <1>2, <1>4, ExecParts DEF AnswerInv, Awaited, Answered, AnswerFits, storeVars
<1>5. ASSUME NEW u \in Tasks, stage'[u] \in {"finalize", "closed"} PROVE ResultFits(u)'
  BY <1>1, <1>5 DEF AnswerInv, ResultFits, storeVars, Kinds
<1> QED
  BY <1>3, <1>4, <1>5

LEMMA StopsKeepsAnswers ==
    ASSUME TypeOK, AnswerInv, NEW t \in Tasks, Stops(t), UNCHANGED <<storeVars, actVars>>,
           injected' \in Nat, injected' >= injected,
           \A u \in Tasks : u # t => result'[u] = result[u],
           stage'[t] = "closed" => stage[t] = "finalize" /\ result'[t] = result[t]
    PROVE  AnswerInv'
<1>1. /\ stage'[t] \notin Kinds
      /\ \A u \in Tasks : u # t => stage'[u] = stage[u] /\ Current(u)' = Current(u)
  BY DEF Stops, TypeOK, Current, Kinds
<1>2. UNCHANGED <<pc, ret, task, committed>>
  BY DEF storeVars, actVars
<1> SUFFICES ASSUME committed
             PROVE  /\ \A e \in Exec : (Awaited(e) /\ Answered(e) => AnswerFits(e))'
                    /\ \A u \in Tasks : (stage[u] \in {"finalize", "closed"} => ResultFits(u))'
  BY <1>2 DEF AnswerInv
<1>3. ASSUME NEW e \in Exec, Awaited(e)', Answered(e)' PROVE AnswerFits(e)'
  <2>1. TaskOf(e) # t
    BY <1>1, <1>3, ExecParts DEF Awaited, Current
  <2> QED
    BY <1>1, <1>2, <1>3, <2>1, ExecParts DEF AnswerInv, Awaited, Answered, AnswerFits
<1>4. ASSUME NEW u \in Tasks, stage'[u] \in {"finalize", "closed"} PROVE ResultFits(u)'
  <2>1. ResultFits(u) /\ result'[u] = result[u]
    BY <1>1, <1>4 DEF AnswerInv, Kinds
  <2>2. injected > 0 => injected' > 0
    BY DEF TypeOK
  <2> QED
    BY <1>2, <2>1, <2>2 DEF ResultFits
<1> QED
  BY <1>3, <1>4

LEMMA WorkflowKeepsAnswers ==
    ASSUME TypeOK, StartInv, AnswerInv, NEW t \in Tasks, WorkflowStep(t)
    PROVE  AnswerInv'
<1>0. /\ 1 \in Attempts /\ {"fetch", "parse", "summarize", "finalize"} = Kinds
      /\ UNCHANGED <<storeVars, injected>> /\ injected \in Nat
      /\ \A u \in Tasks : u # t => result'[u] = result[u]
  BY AttemptAssumption, WorkflowType
     DEF Attempts, Kinds, TypeOK, WorkflowStep, StartChild, FetchDone, ParseDone, EnrichDone,
     SummarizeDone, FinalizeDone, AttemptLost, NextAttempt, Finally, Finish
<1>1. ASSUME NEW kind \in Kinds, NEW n \in Attempts, Schedule(t, kind, n), kind # "finalize"
      PROVE  AnswerInv'
  BY <1>0, <1>1, ScheduleKeepsAnswers
<1>2. ASSUME NEW s, Finally(t, s),
             committed => s = task[t] \/ (s = "failed" /\ injected > 0),
             s \in {"completed", "failed"}
      PROVE  AnswerInv'
  <2>1. result'[t] = s /\ task' = task
    BY <1>0, <1>2 DEF Finally, Finish, TypeOK, storeVars
  <2>2. committed => ResultFits(t)'
    BY <1>0, <1>2, <2>1 DEF ResultFits
  <2> QED
    BY <1>0, <1>2, <2>2, ScheduleKeepsAnswers DEF Finally
<1>3. ASSUME NEW kind \in Kinds, ActivityReturned(t, kind), committed
      PROVE  AnswerFits(Current(t))
  BY <1>3, CurrentParts DEF ActivityReturned, AnswerInv, Awaited, Answered
<1>4. CASE StartChild(t) \/ EnrichDone(t)
  BY <1>0, <1>1, <1>4 DEF StartChild, EnrichDone
<1>5. CASE FetchDone(t)
  <2>1. CASE ret[Current(t)] = "failed"
    BY <1>0, <1>2, <1>3, <1>5, <2>1, CurrentParts DEF FetchDone, ActivityReturned, AnswerFits
  <2>2. CASE ret[Current(t)] # "failed"
    BY <1>0, <1>1, <1>5, <2>2 DEF FetchDone
  <2> QED
    BY <2>1, <2>2
<1>6. CASE ParseDone(t)
  <2>1. CASE ret[Current(t)] = "failed"
    BY <1>0, <1>2, <1>3, <1>6, <2>1, CurrentParts DEF ParseDone, ActivityReturned, AnswerFits
  <2>2. CASE EnterEnrich(t) /\ ret[Current(t)] # "failed"
    <3>1. Stops(t) /\ stage'[t] = "enrich"
      BY <1>6, <2>2 DEF ParseDone, ActivityReturned, EnterEnrich, Stops, actVars, TypeOK
    <3> QED
      BY <1>0, <2>2, <3>1, StopsKeepsAnswers DEF EnterEnrich
  <2>3. CASE Schedule(t, "summarize", 1)
    BY <1>0, <1>1, <2>3
  <2> QED
    BY <1>6, <2>1, <2>2, <2>3 DEF ParseDone
<1>7. CASE SummarizeDone(t)
  BY <1>0, <1>2, <1>3, <1>7, CurrentParts DEF SummarizeDone, ActivityReturned, AnswerFits
<1>8. CASE FinalizeDone(t)
  <2>1. Stops(t) /\ stage'[t] = "closed" /\ stage[t] = "finalize" /\ result' = result
    BY <1>8 DEF FinalizeDone, ActivityReturned, Stops, actVars, TypeOK
  <2> QED
    BY <1>0, <1>8, <2>1, StopsKeepsAnswers DEF FinalizeDone
<1>9. CASE AttemptLost(t)
  <2>1. injected > 0 /\ stage[t] \in Kinds
    BY <1>9, CurrentParts DEF AttemptLost, StartInv
  <2>2. CASE attempt[t] < MaxAttemptsOf(stage[t])
    <3>1. Schedule(t, stage[t], attempt[t] + 1) /\ UNCHANGED result /\ attempt[t] + 1 \in Attempts
      BY <1>9, <2>2, RetryAssumption, AttemptAssumption
         DEF AttemptLost, NextAttempt, MaxAttemptsOf, Attempts, TypeOK
    <3>2. committed /\ stage[t] = "finalize" => ResultFits(t)'
      BY <1>0, <3>1 DEF AnswerInv, ResultFits, storeVars
    <3> QED
      BY <1>0, <2>1, <3>1, <3>2, ScheduleKeepsAnswers
  <2>3. CASE ~(attempt[t] < MaxAttemptsOf(stage[t]))
    BY <1>2, <1>9, <2>1, <2>3 DEF AttemptLost, NextAttempt
  <2> QED
    BY <2>2, <2>3
<1> QED
  BY <1>4, <1>5, <1>6, <1>7, <1>8, <1>9 DEF WorkflowStep

\* An activity answers what it writes, in the same transaction or after it.
LEMMA ActivityAnswers ==
    ASSUME TypeOK, committed, NEW e \in Exec, Work(e), Answered(e)'
    PROVE  \/ Answered(e) /\ ret'[e] = ret[e] /\ task' = task
           \/ KindOf(e) = "finalize"
           \/ AnswerFits(e)'
<1> USE DEF TypeOK, ActTypeOK, StoreTypeOK, Goto, Outcome, Return, At, SetTask, storeVars,
            Answered, JobSteps, AnswerFits
<1>0. ActivityStep(e) /\ TaskOf(e) \in Tasks
  BY ExecParts DEF Work
<1>1. CASE FetchStored(e) \/ FetchRaises(e) \/ FetchMarkFailed(e)
  BY <1>0, <1>1 DEF FetchStored, FetchRaises, FetchMarkFailed
<1>2. CASE ParseCommit(e) \/ ParseRaises(e) \/ ParseMarkFailed(e) \/ NoTask(e)
  BY <1>0, <1>2 DEF ParseCommit, ParseRaises, ParseMarkFailed, NoTask
<1>3. CASE SummarizeCommit(e) \/ SummarizeRaises(e) \/ SummarizeMarkFailed(e)
  BY <1>0, <1>3 DEF SummarizeCommit, SummarizeRaises, SummarizeMarkFailed
<1>4. CASE FinalizeRead(e) \/ FinalizeList(e) \/ FinalizeWrite(e)
  BY <1>0, <1>4 DEF FinalizeRead, FinalizeList, FinalizeWrite
<1>5. CASE JobUpdate(e)
  BY <1>0, <1>5 DEF JobUpdate, LoadJob, CountTasks, SelectJob, WriteJob
<1> QED
  BY <1>0, <1>1, <1>2, <1>3, <1>4, <1>5 DEF ActivityStep

LEMMA ActivityKeepsAnswers ==
    ASSUME TypeOK, OrderInv, AnswerInv, UNCHANGED committed, NEW e \in Exec, Work(e)
    PROVE  AnswerInv'
<1> SUFFICES ASSUME committed
             PROVE  /\ \A f \in Exec : (Awaited(f) /\ Answered(f) => AnswerFits(f))'
                    /\ \A u \in Tasks : (stage[u] \in {"finalize", "closed"} => ResultFits(u))'
  BY DEF AnswerInv
<1>1. /\ Live(e) /\ UNCHANGED <<stage, attempt, result, injected>>
      /\ \A f \in Exec : f # e => pc'[f] = pc[f] /\ ret'[f] = ret[f]
      /\ \A u \in Tasks : u # TaskOf(e) => task'[u] = task[u]
  BY ActivityJudges DEF Work, wfVars
<1>2. \A f \in Exec : Awaited(f)' <=> Awaited(f)
  BY <1>1 DEF Awaited, Current
<1>3. \A u \in Tasks : Settled(u) => task'[u] = task[u]
  BY JudgedOnce DEF Next
<1>4. ASSUME NEW f \in Exec, f # e, Awaited(f)', Answered(f)' PROVE AnswerFits(f)'
  <2>1. AnswerFits(f) /\ Awaited(f)
    BY <1>1, <1>2, <1>4 DEF AnswerInv, Answered
  <2>2. TaskOf(f) # TaskOf(e)
    <3>1. CASE Awaited(e)
      BY <1>4, <2>1, <3>1 DEF Awaited
    <3>2. CASE stage[TaskOf(e)] = "expired"
      BY <2>1, <3>2, AwaitedKind, ExecParts DEF Kinds
    <3> QED
      BY <1>1, <3>1, <3>2 DEF OrderInv, OneAtATime
  <2> QED
    BY <1>1, <1>4, <2>1, <2>2, ExecParts DEF AnswerFits
<1>5. ASSUME Awaited(e)', Answered(e)' PROVE AnswerFits(e)'
  <2>1. CASE Answered(e) /\ ret'[e] = ret[e] /\ task' = task
    BY <1>2, <1>5, <2>1 DEF AnswerInv, AnswerFits
  <2>2. CASE KindOf(e) = "finalize"
    BY <2>2 DEF AnswerFits
  <2> QED
    BY <1>5, <2>1, <2>2, ActivityAnswers
<1>6. ASSUME NEW u \in Tasks, stage'[u] \in {"finalize", "closed"} PROVE ResultFits(u)'
  BY <1>1, <1>3, <1>6 DEF AnswerInv, ResultFits, Settled
<1> QED
  BY <1>4, <1>5, <1>6

LEMMA AnswerInvNext ==
    ASSUME Calm, TypeOK, OrderInv, StartInv, AnswerInv, [Next]_vars
    PROVE  AnswerInv'
<1>1. CASE Post
  <2>1. CASE committed' = committed
    BY <1>1, <2>1 DEF Post, StartJobFails, StartJob, CommitJob, ApiCrash, AnswerInv, Awaited,
       Current, Answered, AnswerFits, ResultFits, storeVars, actVars, wfVars
  <2>2. CASE committed' # committed
    <3>1. CommitJob
      BY <1>1, <2>2 DEF Post, StartJobFails, StartJob, ApiCrash, storeVars
    <3>2. \A t \in Tasks : stage'[t] \in {"none", "dropped"}
      BY <3>1 DEF CommitJob, StartInv, wfVars
    <3>3. \A e \in Exec : ~Awaited(e)'
      BY <3>2, ExecParts DEF Awaited, Current, Kinds
    <3> QED
      BY <3>2, <3>3 DEF AnswerInv
  <2> QED
    BY <2>1, <2>2
<1>2. ASSUME NEW t \in Tasks, WorkflowStep(t) PROVE AnswerInv'
  BY <1>2, WorkflowKeepsAnswers
<1>3. ASSUME NEW t \in Tasks, StartToCloseTimeout(t) PROVE AnswerInv'
  BY <1>3 DEF StartToCloseTimeout, Inject, Calm
<1>4. ASSUME NEW t \in Tasks, Deadline(t) PROVE AnswerInv'
  <2>1. Stops(t) /\ stage'[t] = "expired"
    BY <1>4 DEF Deadline, Stops, actVars, TypeOK
  <2>2. injected' \in Nat /\ injected' >= injected /\ \A u \in Tasks : u # t => result'[u] = result[u]
    BY <1>4 DEF Deadline, Inject, Finish, TypeOK
  <2> QED
    BY <1>4, <2>1, <2>2, StopsKeepsAnswers DEF Deadline
<1>d. ASSUME NEW t \in Tasks, DropChild(t) PROVE AnswerInv'
  <2>1. Stops(t) /\ stage'[t] = "dropped"
    BY <1>d DEF DropChild, Stops, actVars, TypeOK
  <2>2. injected' \in Nat /\ injected' >= injected /\ result' = result
    BY <1>d DEF DropChild, Inject, TypeOK
  <2> QED
    BY <1>d, <2>1, <2>2, StopsKeepsAnswers DEF DropChild
<1>5. ASSUME NEW e \in Exec, Work(e) PROVE AnswerInv'
  <2>1. UNCHANGED committed
    BY <1>5 DEF Work, ActivityStep, JobUpdate, storeVars, FetchStored,
       FetchRaises, FetchMarkFailed, ParseCommit, ParseRaises, ParseMarkFailed,
       NoTask, SummarizeCommit, SummarizeRaises, SummarizeMarkFailed,
       FinalizeRead, FinalizeList, FinalizeWrite, LoadJob, CountTasks, SelectJob, WriteJob
  <2> QED
    BY <1>5, <2>1, ActivityKeepsAnswers
<1>6. ASSUME NEW e \in Exec, Befalls(e) PROVE AnswerInv'
  <2>1. /\ UNCHANGED <<storeVars, wfVars, ret>> /\ injected' > 0
        /\ pc' = [pc EXCEPT ![e] = "dead"]
    BY <1>6 DEF Calm, Befalls, Inject, Crash, Goto, TypeOK
  <2>2. \A f \in Exec : Answered(f)' => Answered(f)
    BY <2>1 DEF Answered, JobSteps, TypeOK, ActTypeOK
  <2> QED
    BY <2>1, <2>2 DEF AnswerInv, Awaited, Current, AnswerFits, ResultFits, storeVars, wfVars
<1>7. CASE UNCHANGED vars
  BY <1>7 DEF vars, storeVars, actVars, wfVars, AnswerInv, Awaited, Current, Answered,
     AnswerFits, ResultFits
<1> QED
  BY <1>1, <1>2, <1>3, <1>4, <1>d, <1>5, <1>6, <1>7 DEF Next

\* When the workflow of a task has closed, JobWorkflow is told what the row says; a
\* crash can make the workflow give up on a task that was completed, never the reverse.
THEOREM ResultsAgree ==
    ASSUME Calm, Prompt
    PROVE  Spec => []ResultAgreesWithRow
<1>1. Init => StartInv /\ AnswerInv
  BY StartInvInit
<1>2. (TypeOK /\ OrderInv) /\ (StartInv /\ AnswerInv) /\ [Next]_vars => (StartInv /\ AnswerInv)'
  BY StartInvNext, AnswerInvNext
<1>3. StartInv /\ AnswerInv => ResultAgreesWithRow
  BY DEF AnswerInv, ResultFits, ResultAgreesWithRow
<1> QED
  BY <1>1, <1>2, <1>3, OrderHolds, PTL DEF Spec
=============================================================================
