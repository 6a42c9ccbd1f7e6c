# A formal model of the XML feed summarizer

The program takes a list of feed URLs (`POST /jobs`), fetches and parses each
feed, fetches the full articles, summarizes them, and lets clients poll the job.
The work is driven by Temporal workflows, the state lives in Postgres and S3.
This directory holds TLA+ models of that machinery, the TLC configurations that
check them, and TLAPS proofs.  Paths below are relative to the repository.

## 1. The system

| Part | Code | State it keeps | Operations |
|---|---|---|---|
| API | `src/api`, `src/application/services/job_service.py` | none | `POST /jobs`: insert rows, start the workflow, commit.  `GET /jobs/{id}`: read row and counts, derive a status.  `GET /jobs/{id}/tasks`: read the tasks, look at the records of each pending one in a second session.  Record views: reads only, one of them from S3 as well |
| Rows | `src/infrastructure/repositories`, `src/domain/entities` | `jobs`, `tasks`, `records`, `summaries` | get, create, update, count_by_status, update_progress |
| JobWorkflow | `workflows.py:31-96` | remaining tasks, counts so far | start a batch of children, await them under a semaphore, continue as new |
| UrlWorkflow | `workflows.py:99-184` | place in the pipeline | fetch, parse, enrich (child), summarize; `finally`: finalize_task |
| EnrichmentWorkflow | `workflows.py:188-232` | totals | batches of five fetch_article activities |
| Activities | `activities.py` | one or two database sessions each | fetch_url, parse_records, fetch_article, summarize_records, finalize_task |
| S3Storage | `s3_storage.py` | lazily made client, its lock, the bucket | store, store_stream, retrieve, get_bytes |
| AioHttpFetcher | `aiohttp_fetcher.py` | an HTTP session | fetch with retries |
| TaskProcessor | `task_processor.py` | articles under way, permits per domain | the pipeline before Temporal; only tests call it |
| Processes | `worker.py`, `run_worker.py`, `db/session.py`, `main.py` | per process: a connection pool, an S3Storage, the slots of its worker | begin a request or an activity, check connections out and in |
| Temporal server | external | workflow histories, timers | schedules attempts, retries, times out |

How they interact.  `POST /jobs` flushes the rows, starts `JobWorkflow` through
the Temporal client and only then commits.  `JobWorkflow` starts one
`UrlWorkflow` per task.  The workflows share no memory with the activities: they
exchange arguments and result dicts through the server, while the activities
share the rows with one another and with the API.  Each activity runs in some
worker process; a timeout of the server does not stop an execution that has
begun, because no activity sends heartbeats.

What is hard here, and what should hold all the same:

* **Sessions interleave.**  The job row is a cache of the tasks' rows, rewritten
  by read, count, read, write, in a session of its own after the session that settled the
  task, with no lock and no version column.  It must never call a job completed
  too early (it may be late, see the findings).
* **Attempts outlive their timeouts.**  A timed-out `summarize_records` still
  commits, beside its retry or beside `finalize_task`.
* **Crashes and cancellations** strike between a commit and the next step; the
  handlers `except BaseException` of two activities and `except Exception` of
  the others treat a cancellation differently.
* **Order of POST.**  The workflow exists before its rows do.
* **Retries that never end.**  `finalize_task` has no retry policy of its own:
  the server's default retries it without limit.
* **Counts across runs** of `JobWorkflow`, and children that cannot be started.
* **The S3 client** is visible before its bucket exists.
* **Views over two reads.**  `list_tasks` finds a task pending in one session and
  derives another status from rows it reads later, in a second session.
* **Connections.**  A call may hold one connection while it waits for another, or
  for S3; a wait that times out raises inside a handler or a session block.
* **Pages** are cut from rows in no particular order, each page from its own.

`PROJECT.json` lists every hazard with its line and the properties aimed at it.

## 2. The modules

```
JobStore  <--  Activities  <--  UrlWorkflow  <--  JobApi  -- implements --> JobProgress
                                     ^              ^
                          UrlWorkflow_proofs     TaskList
                                     ^              ^
                                     +--- Clients_proofs (JobApi, TaskList)
S3Storage    <--+
RecordPages  <--+--  Processes  -- implements --> S3Storage
                         ^
                  Processes_proofs (S3Storage, RecordPages, Processes)
JobWorkflow   Enrichment   Fetcher   TimeBudget   TaskProcessor      (each on its own,
    each with its <name>_proofs)
MCUrlWorkflow, MCJobApi, MCTaskList, MCProcesses                    (instances for TLC)
```

**JobStore** - the rows.  `job` has the status and the two counters, `task[t]` the
status of a task, `recs[t]` and `sums[t]` count the committed batches of records
and of summaries (the tables have no uniqueness constraint, so a second attempt
adds a second batch), `worded[t]` says that some summary has text.  `committed` is
the commit of `POST /jobs`.  Sessions are READ COMMITTED.  A repository's `update`
SELECTs the row again and assigns every attribute; SQLAlchemy's identity map holds
its rows weakly, so this SELECT reads the database, and the flush sends the columns
that differ from what was just SELECTed.  `Flush` is this rule, column by column.

**Activities** - one action per stretch between two database awaits.  `pc`,
`ret`, `copy` and `seen` are the local state of an execution: where it stands, the
outcome it is about to return, its `Job` object, the row its `update` SELECTed.
`UPDATE` and `COMMIT` at the end of a session are one step: the transaction's
effect is visible at its commit.  A task's `update` is one step as well, since the
status is its only modelled column and the written value does not depend on the
SELECTed one.  `DbError`, `Cancel` and `Crash` say what each `try` block makes of a
refused statement, of a `CancelledError` and of the death of the worker.  A worker may
also die when the handler has committed and the server has no answer yet (`pc` is
`returned`): what was committed stays, and the attempt counts as lost.

**UrlWorkflow** - composes the activities with the API's transaction, one
workflow per task, and the server's retries and timeouts.  An attempt that timed
out stays in `pc` and keeps stepping.  Faults are drawn from the constant
`Faults`: `timeout`, `crash`, `cancel`, `db`, `deadline` (the execution timeout),
`refusedStart` (`start_child_workflow` raises and `DropChild` loses the task), `slowCommit`
(a child reaches the database before the commit of POST does) and `apiCrash`.
`MaxFaults` bounds the first six kinds together.

**JobApi** - adds the polling client of `GET /jobs/{id}`: two reads with other
sessions' commits between them, then the derived status.  **JobProgress** is the
abstract specification of what the client is promised: tasks of an accepted job
are settled one by one and for good, completion is announced only when none is
open, is never retracted, and comes in the end.  The row may call the job completed only
when none is open, and may change its mind after: that is what the code's lost
update does, and the reason for the derived status.  `JobApi` implements `JobProgress`
under the mapping `accepted <- committed`, `open <- pending tasks`, `rowDone <-`
the row's status, `announced <-` the last answer.

**TaskList** - adds a client of `GET /jobs/{id}/tasks`.  The tasks are one statement
(`ListRead`); what was pending then is looked up in its records afterwards
(`ListCheck`), with other sessions' commits in between.  The entries of a listing do
not depend on each other, so one is followed, about a task chosen at the start.

**JobWorkflow** - one run after another over the tasks `1..size`; `first` is
where a run's arguments begin, `previous` the counts it was given.  Children close
on their own, completed, failed or with an exception.

**Enrichment** - `fetch_article` in three steps (fetch, S3 store, row), the
batches of `EnrichmentWorkflow`, its execution timeout and the parent that
summarizes from the rows afterwards.  Here `EnrichDone` of `UrlWorkflow` is opened
up: that module takes the enrichment to end in any way at any time, which is what
this one shows of it.

**S3Storage** - double-checked creation of the client; each `await` is a
boundary between steps, so the fast path may run while the bucket is being made.

**RecordPages** - the rows of the records table, as a set, and a client that pages
through the records of a job.  The statement has no ORDER BY, so `Pages` has the slices
of the job's records in every order, and each page takes its own, whether or not
something was written since the last: pages may repeat and skip records.

**Processes** - composes the two.  The API and the workers, each with its pool and
its S3Storage.  A call is a request or an activity; `todo` is what it has left to do
of what it takes and gives back, in the order of the code: connections, S3 calls, the
statements on records.  Which rows it reads and writes otherwise is the subject of
the other modules.  `Out(p)` is the set of connections that calls have out of p's pool.
`Handler` says how each `except` goes on, and with which sessions;
`PoolTimeout` is the exception of a pool that had no connection for 30 seconds.
`Registered` and `SlotsOf` are the branches of `run_queue_worker`.

**Fetcher** - one `fetch`: requests, the sleeps between them and the exception it
ends with.  The clock counts seconds; how long a request takes is a choice.
Statuses are grouped by what the code makes of them.

**TimeBudget** - the clock of one `UrlWorkflow` whose stages take up to their
timeouts, with the pauses of `RETRY_POLICY`, against the execution timeout that
`config.py` derives.  Activities find a worker at once: time in queues has no limit.

**TaskProcessor** - the pipeline before Temporal.  Its articles are coroutines side
by side under one semaphore per domain; exceptions and cancellations strike at
every await.  `Raise` follows the handlers: a RuntimeError that is no permanent failure
leaves the task as it is, other exceptions mark it failed in memory.  Only tests call it.

## 3. The runs

| Run | Instance | Shows |
|---|---|---|
| `faults` | 2 tasks, 1 attempt (2 for finalize_task), 1 fault of any kind, refused starts included, slow or failing commit | the safety invariants of the rows, the inductive invariant, and that a job which was never committed has no completed task |
| `recovery` | 1 task, 2 attempts (3 for finalize_task), 2 worker faults, one poll and one listing, fairness | no task is summarized more often than there are attempts, although those that timed out go on; every task of a committed job is settled; what the listing calls completed is; the listing shows nothing pending after the poll was told the end |
| `api` | 2 tasks, 1 crash, feeds may fail, fairness | the system implements `JobProgress`; answers are never retracted; verdicts stand; counters never run ahead; the workflows' results are what the rows say |
| `job_workflow` | up to 5 tasks, batches of 2, 1 permit | bounded children, exact counts, nothing lost, the job ends |
| `enrichment` | up to 3 records, batches of 2, 2 attempts, 2 faults | no row with a key without its object; what was enriched is used; exact totals; summaries are made in the end |
| `s3_storage` | the API and a worker, up to 3 calls each in nine mixes, 2 connections, 2 slots (3 where the code sets none), errors and cancellations anywhere | one client per process, no client without a bucket once the lock is free, no lock left behind; no connection lost; activities never refused one but for finalize_task; pages that add up; every call ends |
| `fetcher` | the defaults, latencies up to the timeout, two values of Retry-After | how long a fetch may take and when it gives up; it ends |
| `time_budget` | 4 attempts, up to 20 records | the execution timeout covers the stages, their retries and a first finalize_task |
| `task_processor` | 3 articles, 2 domains, 2 permits | no coroutine left behind, no task called completed without its records and summaries in the session, none returned without the verdict of its row |

`PatienceBound` puts a number on a hazard: with the defaults a fetch may take 105
seconds before any Retry-After, and `ACTIVITY_TIMEOUT` is 60.  What an abandoned
attempt does after that is part of `faults`.

Findings, each a run whose one property TLC refutes:

| Run | The documentation | The code |
|---|---|---|
| `lost_update` | two sessions make the job row converge (`docs/FIXES.md:264`) | of two job sessions the one that counted first may write last, over COMPLETED |
| `late_content` | enrichment completes before summaries are made (`docs/FIXES.md:232`) | a running fetch_article outlives the enrichment's timeout |
| `cancelled_articles` | a `CancelledError` among the articles "is caught and partial results are saved", and does not cascade (`docs/FIXES.md:39-41`, `docs/EVOLUTION_AND_ANTIPATTERNS.md:223`) | it is raised again out of the gather's results, and the records are never stored |

The first does not mislead a client: `get_job` derives its status from the
counts, and that is what `CompletionNeverRetracted` and `DeliversPromise` check.
`CancellationRaises` states what the code does where `cancelled_articles` refutes the
documentation; it is proved, and no run asks for it.

Other disagreements, met while modelling and visible in the modules, without a
run of their own:

* A task that fails in fetch or parse leaves the job row alone, and finalize_task
  skips it; `docs/architecture_codebase.md:121-132` has job progress updated in
  every `finally`.
* finalize_task does not run after the execution timeout (`Deadline`), and the task stays
  pending; `docs/FIXES.md:297` says that it "always executes, regardless of how the workflow
  terminates".
* finalize_task looks at the status once, lists the records and writes without looking again
  (`FinalizeWrite`): it may write failed over the verdict of a summarize_records that timed
  out.  `docs/EVOLUTION_AND_ANTIPATTERNS.md:670` has it skip a task with a status.
* `total` in the result of the last `JobWorkflow` is the size of the last batch
  (`ReturnResult`), beside counts of all batches; `docs/architecture_codebase.md:152` says that
  "the final execution knows the total".
* `process_task` raises a RuntimeError of the fetch again, with the task still pending
  (`Raise`); `tests/test_task_processor.py:57-70` expects a failed task.
* After the last 429 `fetch` catches its own `ClientResponseError` and raises a
  RuntimeError (`Handle`); `docs/FIXES.md:77` promises the former.
* From `ACTIVITY_MAX_RETRIES=5` on the pauses between attempts may exceed the margin of
  `CHILD_WORKFLOW_TIMEOUT`, which `config.py:35` wants to cover all stages.
  `FourAttemptsFit` proves that four attempts do fit.
* While its summaries are being made, a task with stored records is listed as
  "failed", and as "completed" after; `docs/FIXES.md:330-336` calls the derived
  status the more accurate one.  `Derived` has it; only "completed" is final.
* `docs/PERFORMANCE_TUNING.md:131` lets activities beyond the connections "queue up".  They
  do for 30 seconds, then the pool raises (`PoolTimeout`); and the worker of
  finalize_task takes the SDK's 100 activities at a time with 90 connections.
* A `POST /jobs` without URLs leaves its row "running", which no session rewrites;
  `get_job` derives "completed" from the counts.
* Read in the source and not modelled: `PostgresRecordRepository.get` loads a
  joined collection and asks for `scalar_one_or_none()` without `unique()`, which
  SQLAlchemy 2 refuses, while `docs/architecture_codebase.md:391` has the endpoint;
  `DatabaseSessionManager.dispose` calls `close()` on a sessionmaker, which has none.

### Bounds, and why they are enough

* Two tasks: what tasks do to each other goes through the job row alone, and a
  lost update needs two sessions.  With two tasks a session can see none, one or both settled.
* `AttemptCap` is one more than the faults in the fair runs, so that it never
  cuts a recovery short; where the code retries without limit (finalize_task) it
  is the model's only bound.
* One fault of each kind with two tasks, two faults with one task: a second
  fault is needed to hit a retry, or the finalize_task that follows the first.
* Five tasks in batches of two give a first, a middle and a last and shorter
  batch.  Three records in batches of two likewise.
* Three attempts in `fetcher` give a first, a middle and a last one; four in
  `time_budget` are the most for which its property holds.  Durations are the shortest
  and the longest: the properties are upper bounds.
* Three articles with two permits per domain: one waits when all have one domain.
* One poll and one listing after it, in `recovery`: each property is about one listing,
  and at most one earlier answer.  `api` polls without limit.
* Two connections and three calls: one call too many for the pool.  The mixes of
  calls (`Mixes` in `MCProcesses`) are chosen so that each kind of call meets those that share a
  pool, an S3 client or the records table with it; a worker has one queue, so only
  activities of that queue share its process.
* Pages of one record out of two, beside a record of another job: a first, a middle and
  a short page, with an insertion before or between them, each in any order.
* Batches of records are counted without a bound; attempts bound them.

`CHECK_DEADLOCK FALSE` is set everywhere because all of these systems stop: when
the job is done nothing is left to do.

### Fairness

`Fairness` is weak fairness of the commit of POST, of each workflow's steps (the
server redelivers workflow tasks until a worker answers) and of each execution's
steps (an activity's awaits end: the fetcher and the database have timeouts).  No
fault is ever forced; a crashed execution takes no steps and is retried because
the server's timer, part of `AttemptLost`, is fair.  In `api` the client keeps
polling.  In `JobWorkflow` each child closes because it has an execution timeout.
In `ListFairSpec` the clients are under no fairness.  In `Processes` some call goes on
as long as one can: the event loop runs what is ready, threads end, and the pool's
timeout ends a wait.  Its fairness forces no failure and names no call, so a property
that holds under it holds for any order in which the loop serves them.

### What the runs leave out on purpose

`VerdictIsFinal` and `ResultAgreesWithRow` are not asked under database errors,
timeouts and cancellations, where the code breaks them (the latter says what
remains true after a crash): an error in the job
session of `summarize_records` overturns its committed COMPLETED
(`activities.py:272`), a timed-out attempt commits after finalize_task has judged,
and a crash between the commit and the answer makes the workflow's result "failed"
for a completed task.  `VerdictIsFinal` is asked of one attempt per activity, the
default of `ACTIVITY_MAX_RETRIES` (`config.py:40`): with more, a crash after the handler
of `fetch_url` committed FAILED and before its answer brings a retry, which may succeed
and complete the task.  `EveryTaskSettles` is not asked under `slowCommit` or
`apiCrash`: a workflow whose activities all ran before the commit finds no task and leaves it
pending.  Nor under `deadline` or `refusedStart`: both leave the task pending for good, the
latter because `JobWorkflow` drops the exception of `start_child_workflow`
(`workflows.py:59-60`).  `DeliversPromise` likewise assumes that every child starts and meets
no deadline.  `JobWorkflow`, where a refused start is no fault but a choice, shows that the
job itself ends and counts the other tasks.  `PagesAddUp` does not say which records a client
of several pages has received, since the code leaves that open.

## 4. The proofs

Every safety and action property that a passing run checks is stated by a theorem, for
every value of the constants.  The assumptions are the named `ASSUME`s of the modules,
which TLC evaluates in the runs; where a theorem needs more, its own ASSUME says so.

### The rows and the workflows: `UrlWorkflow_proofs`

For any finite non-empty set of tasks, any `AttemptCap`, `MaxAttempts`, `MaxFaults`,
`FeedFaults` and set of faults:

* `TypeCorrect`: `Spec => []TypeOK`.
* `RowNeverAhead`: `Spec => []CompletedRowMeansSettled`.  The property is not
  inductive: a session that holds a completed `Job` object could write it while a
  task is pending.  `RowInv` adds that no object in memory says COMPLETED unless all
  tasks are settled, which is preserved because (a) a settled task never becomes
  pending again, (b) counts that add up to the number of tasks leave none pending
  (a cardinality argument), and (c) `Flush` writes a status taken from the row or
  from the object.
* `PendingHasNoSummaries`, `CompletedHasSummaries`: from `SummaryInv`, which adds
  that a summary with text belongs to a stored record and that an execution about
  to mark its task completed (`markDone`) has seen such a summary.  Here the race of
  finalize_task with a timed-out summarize_records is settled: what finalize_task
  saw stays true.
* `Consistent`: the conjunction `IInv`, checked by TLC in `faults` as well.
* `AttemptsBoundSummaries`: a task has at most `MaxAttempts` batches of summaries.
  `SumsInv` counts what is stored together with the executions that may still store:
  an abandoned attempt is still counted, so the attempts the server asked for bound the
  sum.
* `GhostsNeverComplete`: `Spec => []GhostsFail`.  `GhostInv` adds that there are rows
  only once POST has committed them, and that until then no execution of summarize_records
  answers with success.

Three properties hold only under some of the faults, and the theorems assume just
those.  `Calm` is one attempt per activity and no `timeout`, `cancel` or `db`; crashes,
deadlines, slow commits and API crashes remain.  `Prompt` excludes `slowCommit`.  Section 3 says
how the code breaks the properties otherwise.

* `VerdictStands`: under `Calm`, `Spec => VerdictIsFinal`.  `OrderInv` says that only
  the execution its workflow waits for is alive, and that a task is pending as long as
  some execution has yet to judge it or a stage has yet to come.
* `NeverOvercounts`: under `Calm`.  `CountInv` adds that no `Job` object in some session
  counts more than there is; with verdicts that stand, what was counted stays counted,
  so a stale object can only lag behind.
* `ResultsAgree`: under `Calm` and `Prompt`.  `StartInv` has no child reach the database
  before the commit; `AnswerInv` relates what an execution is about to answer to the row
  it wrote, and the result of a workflow to its task's row.

### The clients: `Clients_proofs`

For the same constants and every fault.

* `NeverRetracted`: `ApiSpec => CompletionNeverRetracted`.  The answer is made from
  a row and counts that were read at different times.  `PollInv` says what a poll
  between its two reads may hold: if the row it saw says COMPLETED no task is
  pending now, and that after an answer "completed" all tasks are settled, which
  stays so.  `NoGhosts` adds that no execution works on rows that POST has not
  committed.
* `Implements`: `ApiSpec => KeepsPromise`, the refinement of `JobProgress` without
  its fairness.  Each step of the system settles at most one task, writes the row
  or answers the client.  The liveness half of `DeliversPromise` stays with the run
  `api`.
* `ListedIsDone`: what is listed as completed stays settled and with summaries.
  The step that matters is `ListCheck`, which takes a task to be completed from its
  records although it read it as pending: that a summary with text is stored only
  with the task's settlement is `NoSummariesWhilePending`.
* `ListingAgrees`: from the invariant of `NeverRetracted`; a listing begins after
  the answer, when no task is pending any more.

### The processes: `Processes_proofs`

For any processes, callers, mixes of calls, sizes of pools and slots, records and limit.

* S3Storage alone, for any set of calls: `StorageInv` adds to the three properties where
  a call that holds the lock stands: it alone is past the second check, and the client is
  unset until it has made one.  From it follow `ClientMadeOnce`, `BucketBehindClient`
  (without failures) and `LockNeverLeftBehind`.
* `UsesStorage`: `ProcSpec => Spec`, the specification of S3Storage: each step of
  a call is one of S3Storage's or leaves its state alone.  `StorageSafeInUse`: so the
  three properties hold for the calls the program makes.
* `NoConnectionLost`: `ProcSpec => []PoolKept`.  Not inductive, since nothing in it
  relates what a call holds to what it has left to do.  `States` is a table, for each kind of
  call, of the places it can be in with the connections it holds there, handlers included;
  `Stands` says that every call is in its table, and `PlaceFollows`, by cases over the
  table, that each step goes from a place to a place.  `PoolInv` adds that the connections
  out of a pool are a finite set whose size, with the free ones, is the pool's.
* `ActivitiesServed`: `ProcSpec => []WorkersServed`.  `SlotInv` bounds the active calls of
  a worker by its slots.  A worker serves one queue, and an activity holds at most one
  connection, none when it asks for one: the connections that are out map one to one into
  the other active calls, so fewer than `PoolSize` are out.
* `EveryPageCounts`: `ProcSpec => PagesAddUp`, an action property.  `PageInv`: until a
  short page has come, the client has exactly `offset` entries, no more than its job has
  records, which are never deleted.  A page of any order has as many entries as the slice of
  a list of all of them (`PageHas`), so the short page brings the number up to theirs, however
  many were inserted between the pages.  A job that fits in one page is received as a list
  of its records, each once (`ListsAll`).
* `ProcTypesKept`: `ProcSpec => []ProcTypeOK`, from all of the above.

### JobWorkflow, Enrichment, TaskProcessor

`JobWorkflow_proofs` is for any number of tasks, batch size, permits and order in which
children close.  `RunInv` has `BatchInv` (which children a run has started, and that those
of earlier runs are closed), `CollectInv` (which handles hold a permit or are done) and
`ResultInv` (what the last run returns).

* `CountsAreCarried`: the step that matters is continue-as-new: the tasks before the new
  `first` are those before the old one and the batch, which are disjoint, so their counts add up.
* `OneBatchRuns`: the permits bound the handles awaited, the batch those that run.
* `NoTaskLost`: when the workflow is done the two counts are of complementary sets.

`Enrichment_proofs` is for any number of records, batch size, number of attempts and
faults.

* `TypesKept`: `Spec => []TypeOK`.
* `KeysHaveObjects`: from `StoreInv`, what an execution knows to be stored where
  it stands, retries and abandoned attempts alike.
* `EveryRecordHasItsTurn`: from `LoopInv`, where the loop over the batches stands.
* `EnrichedBeforeSummarized`: from `ParentInv` (the parent goes on only when its
  child is over, and no outcome changes then) on top of both.
* `TotalsAreExact`: the finished records and those of the batch are disjoint, so
  the cardinalities add up.

`TaskProcessor_proofs` is for any articles, domains and permits.  `CallInv` follows the
call through its stages: `ArticleInv` (no coroutine is alive once the gather is over, and a
cancellation that any of them saw raises), `SessionInv` (what the session has stored at each
stage, and how the Task in memory relates to it when an exception leaves it as it was).  From it follow `ArticlesOverFirst`,
`CancellationNeverLost` and `ReturnedIsStored`.

### Time

* `Fetcher_proofs`, for any number of retries, timeout and latencies.  `TimeInv` bounds the clock
  before each request by the patience of the attempts so far; the sleeps double, so the
  proof needs 2^(n+1) = 2 * 2^n.  `^` is primitive to the provers; it is found as the number of
  subsets of a set of n elements.  From it follow `BoundedPatience` and `GivesUp`.
* `TimeBudget_proofs`: `FourAttemptsFit`, with up to four attempts the derived timeout covers
  the stages, the pauses between attempts and a first finalize_task, for every
  `ACTIVITY_TIMEOUT`, number of records and durations.  `TimeInv` bounds the clock at the beginning
  of each stage and attempt.  With five the pauses are 15 seconds for each of three stages,
  and the margin leaves 30 beside finalize_task: TLC finds the property violated.

### Only model-checked

The temporal properties: `EveryTaskSettles`, `DeliversPromise` with its fairness, `JobEnds`,
`SummarizedAtLast`, `EveryCallEnds`, `FetchEnds`, `CallEnds`.  They need leads-to and ENABLED,
which tlapm does not prove.  The three findings are counterexamples of TLC.

## 5. Abstractions, and what is not modelled

* Texts, URLs, timestamps, error messages, `attempts`, S3 keys.  Feeds and
  summaries are choices: a feed has articles or none, a summary has text or none.
* A lost acknowledgement of a COMMIT (the transaction applied, the client told
  otherwise) is not modelled; `DbError` refuses the statement.
* Time, except in `Fetcher` and `TimeBudget`: elsewhere timeouts are choices.
* A connection that Postgres refuses because the pools of all processes exceed its
  own limit is a failed statement (`Fails`); the sum of the pools is not counted.
* The parser and the summary strategies turn text into text and keep nothing between
  calls.  The activities take their result as a choice: articles or none, a summary with text or
  without, an exception.
* `main.py`'s container and migrations: construction of objects and schema.
* `create`, `save_summary` and `get_summary` of the record repository: no caller.

## 6. Plan

1. Done: rows, activities, UrlWorkflow, API, JobWorkflow, enrichment, S3 client;
   the theorems of section 4.
2. Done: time budgets (`Fetcher`, `TimeBudget`), `TaskProcessor`.
3. Done: `list_tasks` (`TaskList`), the paging of records (`RecordPages`), the
   processes with their pools, slots and S3 clients (`Processes`).
4. Done: a theorem for every safety and action property of the passing runs.
5. The abstract side of enrichment: that `Enrichment` implements the one step
   `EnrichDone` stands for, with a proof of its safety half.
