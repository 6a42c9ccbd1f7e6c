------------------------------ MODULE JobStore ------------------------------
(***************************************************************************)
(* The Postgres rows of one job, as the repositories and the domain        *)
(* entities read and write them.  Every session runs in READ COMMITTED, so *)
(* a read returns what is committed when it runs and a transaction's       *)
(* writes appear together at its commit.                                   *)
(*                                                                         *)
(* A repository's update SELECTs the row again and assigns every attribute *)
(* of the domain object to it; SQLAlchemy then sends an UPDATE of the      *)
(* columns whose value differs from the SELECTed one.  No version column   *)
(* and no SELECT ... FOR UPDATE guards the row.                            *)
(***************************************************************************)
EXTENDS Integers, FiniteSets

CONSTANT Tasks          \* the tasks of the job, one per URL

ASSUME TasksAssumption == IsFiniteSet(Tasks) /\ Tasks # {}

VARIABLES
    committed,  \* the transaction of POST /jobs has committed: the rows exist
    job,        \* the row of the job
    task,       \* task[t]: the status column of t's row
    recs,       \* recs[t]: how many batches of records are committed for t
    sums,       \* sums[t]: how many batches of summaries are committed for t
    worded      \* worded[t]: some summary of t has a non-empty text

storeVars == <<committed, job, task, recs, sums, worded>>

\* TaskStatus.RUNNING is declared in the code and never assigned.
TaskStatus == {"pending", "completed", "failed"}
JobStatus == {"pending", "running", "completed", "failed"}
JobRow == [status : JobStatus, completed : Nat, failed : Nat]

StoreTypeOK ==
    /\ committed \in BOOLEAN
    /\ job \in JobRow
    /\ task \in [Tasks -> TaskStatus]
    /\ recs \in [Tasks -> Nat]
    /\ sums \in [Tasks -> Nat]
    /\ worded \in [Tasks -> BOOLEAN]

\* What create_job's transaction holds once flushed: the job already RUNNING.
NewJob == [status |-> "running", completed |-> 0, failed |-> 0]

StoreInit ==
    /\ committed = FALSE
    /\ job = NewJob
    /\ task = [t \in Tasks |-> "pending"]
    /\ recs = [t \in Tasks |-> 0]
    /\ sums = [t \in Tasks |-> 0]
    /\ worded = [t \in Tasks |-> FALSE]

TasksWith(status) == {t \in Tasks : task[t] = status}
Settled(t) == task[t] # "pending"

\* A counter that takes what is not completed for failed.
BrokenCountByStatus ==
    [completed |-> Cardinality(TasksWith("completed")),
     failed |-> Cardinality(TasksWith("failed") \cup TasksWith("pending"))]

CountByStatus ==
    [completed |-> Cardinality(TasksWith("completed")),
     failed |-> Cardinality(TasksWith("failed"))]

\* An off-by-one in the comparison with the number of tasks.
BrokenUpdateProgress(j, n) ==
    [status |-> IF n.completed + n.failed >= Cardinality(Tasks) - 1
                THEN "completed" ELSE j.status,
     completed |-> n.completed, failed |-> n.failed]

\* Job.update_progress: it may set COMPLETED and never resets the status.
UpdateProgress(j, n) ==
    [status |-> IF n.completed + n.failed = Cardinality(Tasks)
                THEN "completed" ELSE j.status,
     completed |-> n.completed, failed |-> n.failed]

\* The flush of an update: of the row cur, the columns in which the domain
\* object differs from the row the update had SELECTed.
Changed(selected, object, cur) == IF object = selected THEN cur ELSE object

Flush(selected, object, cur) ==
    [status |-> Changed(selected.status, object.status, cur.status),
     completed |-> Changed(selected.completed, object.completed, cur.completed),
     failed |-> Changed(selected.failed, object.failed, cur.failed)]

SetTask(t, status) == task' = [task EXCEPT ![t] = status]
=============================================================================
