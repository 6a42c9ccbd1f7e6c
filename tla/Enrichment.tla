----------------------------- MODULE Enrichment -----------------------------
(***************************************************************************)
(* The enrichment stage of one UrlWorkflow: EnrichmentWorkflow hands the   *)
(* records that have a link, numbered 1..size, to fetch_article activities *)
(* batch by batch.  fetch_article stores the article in S3 and then its    *)
(* text and key in the record's row.  Afterwards the parent has            *)
(* summarize_records read the rows.                                        *)
(*                                                                         *)
(* Neither the timeout of an activity nor that of the workflow stops an    *)
(* execution that has begun.                                               *)
(***************************************************************************)
EXTENDS Integers, FiniteSets

CONSTANTS
    MaxRecords,   \* bound on the records of a task: max_articles
    BatchSize,    \* ENRICHMENT_BATCH_SIZE
    MaxAttempts,  \* RETRY_POLICY.maximum_attempts
    Faults,       \* the kinds of fault the environment may inject
    MaxFaults     \* bound on their number

FaultKinds == {"timeout", "crash", "cancel", "expire"}

ASSUME RecordAssumption == MaxRecords \in Nat \ {0}
ASSUME BatchAssumption == BatchSize \in Nat \ {0}
ASSUME AttemptAssumption == MaxAttempts \in Nat \ {0}
ASSUME FaultAssumption == Faults \subseteq FaultKinds /\ MaxFaults \in Nat

VARIABLES
    size,     \* how many records parse_records reported with a link
    flow,     \* the EnrichmentWorkflow: "none", "running", "done" or "gone"
    first,    \* the first record of the current batch
    attempt,  \* attempt[r]: the attempt the server waits for, 0 before the first
    outcome,  \* outcome[r]: what the workflow was told of r
    tally,    \* total_enriched and total_failed
    pc,       \* pc[e]: where an execution of fetch_article stands
    object,   \* object[r]: the article is in S3
    content,  \* content[r]: the row has the text, and the key of the object
    parent,   \* the UrlWorkflow: "waiting", "summarizing" or "over"
    used,     \* used[r]: r was summarized from its content
    injected

vars == <<size, flow, first, attempt, outcome, tally, pc, object, content,
          parent, used, injected>>
storeVars == <<object, content>>
flowVars == <<size, flow, first, attempt, outcome, tally>>
parentVars == <<parent, used>>

Records == 1..MaxRecords
Exec == Records \X (1..MaxAttempts)
RecordOf(e) == e[1]
Current(r) == <<r, attempt[r]>>

Running == {"fetching", "storing", "writing"}
Answers == {"completed", "skipped", "failed"}
PCs == {"idle", "dead", "raised"} \cup Running \cup Answers

TypeOK ==
    /\ size \in Records
    /\ flow \in {"none", "running", "done", "gone"}
    /\ first \in Nat
    /\ attempt \in [Records -> 0..MaxAttempts]
    /\ outcome \in [Records -> {"none", "error"} \cup Answers]
    /\ tally \in [enriched : Nat, failed : Nat]
    /\ pc \in [Exec -> PCs]
    /\ object \in [Records -> BOOLEAN]
    /\ content \in [Records -> BOOLEAN]
    /\ parent \in {"waiting", "summarizing", "over"}
    /\ used \in [Records -> BOOLEAN]
    /\ injected \in 0..MaxFaults

Init ==
    /\ size \in Records
    /\ flow = "none" /\ first = 1
    /\ attempt = [r \in Records |-> 0]
    /\ outcome = [r \in Records |-> "none"]
    /\ tally = [enriched |-> 0, failed |-> 0]
    /\ pc = [e \in Exec |-> "idle"]
    /\ object = [r \in Records |-> FALSE]
    /\ content = [r \in Records |-> FALSE]
    /\ parent = "waiting"
    /\ used = [r \in Records |-> FALSE]
    /\ injected = 0

Inject(kind) ==
    /\ kind \in Faults /\ injected < MaxFaults
    /\ injected' = injected + 1

-----------------------------------------------------------------------------
(* fetch_article *)

Goto(e, place) == pc' = [pc EXCEPT ![e] = place]

\* The page is fetched and its text is extracted, or is garbage and skipped.
FetchPage(e) ==
    /\ pc[e] = "fetching"
    /\ \E p \in {"storing", "skipped"} : Goto(e, p)
    /\ UNCHANGED <<flowVars, storeVars, parentVars, injected>>

\* The row is written before the object is stored.
BrokenStoreObject(e) ==
    /\ pc[e] = "storing"
    /\ content' = [content EXCEPT ![RecordOf(e)] = TRUE]
    /\ Goto(e, "writing")
    /\ UNCHANGED <<flowVars, object, parentVars, injected>>

StoreObject(e) ==
    /\ pc[e] = "storing"
    /\ object' = [object EXCEPT ![RecordOf(e)] = TRUE]
    /\ Goto(e, "writing")
    /\ UNCHANGED <<flowVars, content, parentVars, injected>>

WriteContent(e) ==
    /\ pc[e] = "writing"
    /\ content' = [content EXCEPT ![RecordOf(e)] = TRUE]
    /\ Goto(e, "completed")
    /\ UNCHANGED <<flowVars, object, parentVars, injected>>

\* Any exception, of the fetch, of S3 or of the database, is an answer too.  What
\* was stored before it stays.
ArticleFails(e) ==
    /\ pc[e] \in Running
    /\ Goto(e, "failed")
    /\ UNCHANGED <<flowVars, storeVars, parentVars, injected>>

ArticleStep(e) ==
    FetchPage(e) \/ StoreObject(e) \/ WriteContent(e) \/ ArticleFails(e)

\* The worker dies, or cancels the execution: CancelledError is no Exception.
Befalls(e) ==
    /\ pc[e] \in Running
    /\ \/ Inject("crash") /\ Goto(e, "dead")
       \/ Inject("cancel") /\ Goto(e, "raised")
    /\ UNCHANGED <<flowVars, storeVars, parentVars>>

-----------------------------------------------------------------------------
(* EnrichmentWorkflow.run *)

Last == IF first + BatchSize - 1 < size THEN first + BatchSize - 1 ELSE size
Batch == first..Last

\* UrlWorkflow starts its child, which schedules its first batch, or the start
\* fails and the parent goes on without it.
StartEnrichment ==
    /\ flow = "none"
    /\ \/ /\ flow' = "running"
          /\ attempt' = [r \in Records |-> IF r \in Batch THEN 1 ELSE 0]
          /\ pc' = [e \in Exec |-> IF e[1] \in Batch /\ e[2] = 1
                                   THEN "fetching" ELSE pc[e]]
       \/ flow' = "gone" /\ UNCHANGED <<attempt, pc>>
    /\ UNCHANGED <<size, first, outcome, tally, storeVars, parentVars, injected>>

\* One attempt too many.
OverrunNextAttempt(r) ==
    IF attempt[r] <= MaxAttempts
    THEN /\ attempt' = [attempt EXCEPT ![r] = @ + 1]
         /\ pc' = [pc EXCEPT ![<<r, attempt[r] + 1>>] = "fetching"]
         /\ UNCHANGED outcome
    ELSE /\ outcome' = [outcome EXCEPT ![r] = "error"]
         /\ UNCHANGED <<attempt, pc>>

\* An attempt that is over without an answer, or timed out, is tried again while
\* the policy allows and is an ActivityError then.
NextAttempt(r) ==
    IF attempt[r] < MaxAttempts
    THEN /\ attempt' = [attempt EXCEPT ![r] = @ + 1]
         /\ pc' = [pc EXCEPT ![<<r, attempt[r] + 1>>] = "fetching"]
         /\ UNCHANGED outcome
    ELSE /\ outcome' = [outcome EXCEPT ![r] = "error"]
         /\ UNCHANGED <<attempt, pc>>

Awaited(r) == flow = "running" /\ r \in Batch /\ outcome[r] = "none"

ArticleAnswered(r) ==
    /\ Awaited(r)
    /\ pc[Current(r)] \in Answers
    /\ outcome' = [outcome EXCEPT ![r] = pc[Current(r)]]
    /\ UNCHANGED <<size, flow, first, attempt, tally, pc, storeVars, parentVars, injected>>

ArticleLost(r) ==
    /\ Awaited(r)
    /\ pc[Current(r)] \in {"dead", "raised"}
    /\ NextAttempt(r)
    /\ UNCHANGED <<size, flow, first, tally, storeVars, parentVars, injected>>

StartToCloseTimeout(r) ==
    /\ Inject("timeout")
    /\ Awaited(r)
    /\ pc[Current(r)] \in Running
    /\ NextAttempt(r)
    /\ UNCHANGED <<size, flow, first, tally, storeVars, parentVars>>

Among(S, outcomes) == Cardinality({r \in S : outcome[r] \in outcomes})

\* Exceptions are not counted.
BrokenBatchTally ==
    [enriched |-> tally.enriched + Among(Batch, {"completed"}),
     failed |-> tally.failed + Among(Batch, {"failed"})]

BatchTally ==
    [enriched |-> tally.enriched + Among(Batch, {"completed"}),
     failed |-> tally.failed + Among(Batch, {"failed", "error"})]

\* A last batch that is not full is dropped.
BrokenIsLast == Last + BatchSize > size

IsLast == Last = size

\* A batch ends when all of it was answered; the next begins, or none is left.
EndBatch ==
    /\ flow = "running"
    /\ \A r \in Batch : outcome[r] # "none"
    /\ tally' = BatchTally
    /\ first' = Last + 1
    /\ IF IsLast
       THEN flow' = "done" /\ UNCHANGED <<attempt, pc>>
       ELSE LET batch == {r \in Records : Last < r /\ r <= Last + BatchSize /\ r <= size} IN
            /\ attempt' = [r \in Records |-> IF r \in batch THEN 1 ELSE attempt[r]]
            /\ pc' = [e \in Exec |-> IF e[1] \in batch /\ e[2] = 1
                                     THEN "fetching" ELSE pc[e]]
            /\ UNCHANGED flow
    /\ UNCHANGED <<size, outcome, storeVars, parentVars, injected>>

\* enrichment_timeout: 30 seconds a record, 300 at most.
Expire ==
    /\ Inject("expire")
    /\ flow = "running"
    /\ flow' = "gone"
    /\ UNCHANGED <<size, first, attempt, outcome, tally, pc, storeVars, parentVars>>

-----------------------------------------------------------------------------
(* The parent *)

\* The parent does not await its child's result.
BrokenGoOn ==
    /\ parent = "waiting" /\ flow # "none"
    /\ parent' = "summarizing"
    /\ UNCHANGED <<flowVars, pc, storeVars, used, injected>>

\* The exception of a child that timed out, or was not started, is not caught.
HaltingGoOn ==
    /\ parent = "waiting" /\ flow = "done"
    /\ parent' = "summarizing"
    /\ UNCHANGED <<flowVars, pc, storeVars, used, injected>>

\* The result of the child, or an exception in its place, lets the parent go on.
GoOn ==
    /\ parent = "waiting" /\ flow \in {"done", "gone"}
    /\ parent' = "summarizing"
    /\ UNCHANGED <<flowVars, pc, storeVars, used, injected>>

\* summarize_records reads the rows; without content it takes the description.
Summarize ==
    /\ parent = "summarizing"
    /\ used' = content
    /\ parent' = "over"
    /\ UNCHANGED <<flowVars, pc, storeVars, injected>>

FlowStep ==
    \/ StartEnrichment \/ EndBatch \/ GoOn \/ Summarize
    \/ \E r \in Records : ArticleAnswered(r) \/ ArticleLost(r)

Next ==
    \/ FlowStep
    \/ \E e \in Exec : ArticleStep(e) \/ Befalls(e)
    \/ \E r \in Records : StartToCloseTimeout(r)
    \/ Expire

Spec == Init /\ [][Next]_vars

\* The workflows take their steps, and an execution that runs comes to an end.
FairSpec ==
    /\ Spec
    /\ WF_vars(FlowStep)
    /\ \A e \in Exec : WF_vars(ArticleStep(e))

-----------------------------------------------------------------------------
\* A row that has a key has the object of that key in S3, whatever stopped the
\* execution between the two stores: get_record offers the key for download.
ContentHasObject == \A r \in Records : content[r] => object[r]

\* A record the workflow was told is enriched is summarized from its content: the
\* parent awaits the child before summarize_records reads the rows.
EnrichedIsUsed ==
    parent = "over" => \A r \in Records : outcome[r] = "completed" => used[r]

\* The totals count every record of the finished batches once, as the outcomes
\* have it: activities that raised or timed out are among the failed.
TallyExact ==
    LET finished == {r \in Records : r < first} IN
    /\ tally.enriched = Among(finished, {"completed"})
    /\ tally.failed = Among(finished, {"failed", "error"})

\* When the workflow is done every record with a link had its turn, the last and
\* shorter batch included.
AllTried == flow = "done" => \A r \in 1..size : outcome[r] # "none"

\* Summaries are made in the end, whatever becomes of the enrichment.
SummarizedAtLast == <>(parent = "over")

\* The rows are complete when summarize_records has read them: `the pipeline must
\* remain sequential: enrichment completes, then summarize reads from DB'
\* (FIXES.md:232).
NoLateContent == [][parent = "over" => content' = content]_vars
=============================================================================
