------------------------- MODULE Enrichment_proofs -------------------------
(***************************************************************************)
(* Proofs about Enrichment, for any number of records, batch size, number  *)
(* of attempts and faults: what fetch_article stores, what the workflow is *)
(* told of it and what the parent makes of it agree.                       *)
(***************************************************************************)
EXTENDS Enrichment, FiniteSetTheorems, TLAPS

\* What an execution knows to be stored when it stands where it stands.
StoreInv ==
    /\ ContentHasObject
    /\ \A e \in Exec :
          /\ pc[e] = "writing" => object[RecordOf(e)]
          /\ pc[e] = "completed" => content[RecordOf(e)]

\* The parent moves on after its child is over, and no outcome changes then.
ParentInv ==
    /\ \A r \in Records : outcome[r] = "completed" => content[r]
    /\ parent # "waiting" => flow \in {"done", "gone"}
    /\ EnrichedIsUsed

\* Where the loop over the batches stands.
LoopInv ==
    /\ flow \in {"none", "running"} => first <= size
    /\ flow = "none" => first = 1 /\ parent = "waiting"
    /\ flow = "done" => first > size
    /\ \A r \in Records : r < first => outcome[r] # "none"
    /\ \A r \in Records : flow = "running" /\ r \in Batch => attempt[r] # 0

-----------------------------------------------------------------------------
LEMMA ExecRecord ==
    ASSUME NEW e \in Exec
    PROVE  RecordOf(e) \in Records
BY DEF Exec, RecordOf

LEMMA BatchBounds ==
    ASSUME TypeOK, first <= size
    PROVE  /\ Last \in Nat /\ first <= Last /\ Last <= size
           /\ \A r \in Batch : r \in Nat /\ first <= r /\ r <= Last
           /\ \A r \in Records : first <= r /\ r <= Last => r \in Batch
BY BatchAssumption, RecordAssumption DEF TypeOK, Last, Batch, Records

LEMMA NextAttemptType ==
    ASSUME TypeOK, NEW r \in Records, NextAttempt(r)
    PROVE  /\ attempt' \in [Records -> 0..MaxAttempts]
           /\ outcome' \in [Records -> {"none", "error"} \cup Answers]
           /\ pc' \in [Exec -> PCs]
<1>1. "fetching" \in PCs
  BY DEF PCs, Running
<1> QED
  BY <1>1, AttemptAssumption DEF NextAttempt, TypeOK

LEMMA TypeInit == Init => TypeOK
<1> SUFFICES ASSUME Init PROVE TypeOK
  OBVIOUS
<1>1. /\ object \in [Records -> BOOLEAN]
      /\ content \in [Records -> BOOLEAN]
      /\ used \in [Records -> BOOLEAN]
  BY Zenon DEF Init
<1> QED
  BY <1>1, AttemptAssumption, FaultAssumption DEF Init, TypeOK, PCs, Answers

LEMMA TypeNext == TypeOK /\ [Next]_vars => TypeOK'
<1> SUFFICES ASSUME TypeOK, [Next]_vars PROVE TypeOK'
  OBVIOUS
<1> USE DEF flowVars, storeVars, parentVars
<1>i. ASSUME NEW kind, Inject(kind) PROVE injected' \in 0..MaxFaults
  BY <1>i, FaultAssumption DEF Inject, TypeOK
<1>p. Running \subseteq PCs /\ Answers \subseteq PCs /\ {"dead", "raised"} \subseteq PCs
  BY DEF PCs
<1>1. ASSUME NEW e \in Exec, ArticleStep(e) PROVE TypeOK'
  <2>1. pc' \in [Exec -> PCs]
    BY <1>1, <1>p DEF ArticleStep, FetchPage, StoreObject, WriteContent,
       ArticleFails, Goto, TypeOK, Running, Answers
  <2>2. object' \in [Records -> BOOLEAN] /\ content' \in [Records -> BOOLEAN]
    BY <1>1, Zenon DEF ArticleStep, FetchPage, StoreObject, WriteContent,
       ArticleFails, TypeOK
  <2> QED
    BY <1>1, <2>1, <2>2 DEF ArticleStep, FetchPage, StoreObject, WriteContent,
       ArticleFails, TypeOK
<1>2. ASSUME NEW e \in Exec, Befalls(e) PROVE TypeOK'
  BY <1>2, <1>i, <1>p DEF Befalls, Goto, TypeOK
<1>3. CASE StartEnrichment
  BY <1>3, <1>p, AttemptAssumption DEF StartEnrichment, TypeOK, Running
<1>4. CASE EndBatch
  <2>1. tally' \in [enriched : Nat, failed : Nat] /\ first' \in Nat
    <3>1. Batch \subseteq Int /\ Last \in Nat
      BY BatchAssumption, RecordAssumption DEF TypeOK, Last, Batch, Records
    <3>2. IsFiniteSet(Batch)
      BY <3>1, FS_Interval DEF Batch, TypeOK
    <3>3. ASSUME NEW S PROVE Among(Batch, S) \in Nat
      BY <3>2, FS_Subset, FS_CardinalityType DEF Among
    <3> QED
      BY <1>4, <3>1, <3>3 DEF EndBatch, BatchTally, TypeOK
  <2>2. attempt' \in [Records -> 0..MaxAttempts] /\ pc' \in [Exec -> PCs]
    BY <1>4, <1>p, AttemptAssumption DEF EndBatch, TypeOK, Running
  <2> QED
    BY <1>4, <2>1, <2>2 DEF EndBatch, TypeOK
<1>5. CASE GoOn \/ Expire
  BY <1>5, <1>i DEF GoOn, Expire, TypeOK
<1>6. CASE Summarize
  BY <1>6 DEF Summarize, TypeOK
<1>7. ASSUME NEW r \in Records, ArticleAnswered(r) PROVE TypeOK'
  BY <1>7 DEF ArticleAnswered, TypeOK
<1>8. ASSUME NEW r \in Records, ArticleLost(r) \/ StartToCloseTimeout(r) PROVE TypeOK'
  BY <1>8, <1>i, NextAttemptType DEF ArticleLost, StartToCloseTimeout, TypeOK
<1>9. CASE UNCHANGED vars
  BY <1>9 DEF vars, TypeOK
<1> QED
  BY <1>1, <1>2, <1>3, <1>4, <1>5, <1>6, <1>7, <1>8, <1>9 DEF Next, FlowStep

\* Each variable keeps its type, the cursor of the batches and the tallies included.
THEOREM TypesKept == Spec => []TypeOK
<1> QED
  BY TypeInit, TypeNext, PTL DEF Spec

-----------------------------------------------------------------------------
(* What is stored *)

\* Scheduling and cancelling executions brings none to "writing" or "completed".
LEMMA OthersKeepStore ==
    ASSUME TypeOK, Next, \A e \in Exec : ~ArticleStep(e)
    PROVE  /\ UNCHANGED storeVars
           /\ \A e \in Exec : pc'[e] \in {"writing", "completed"} => pc'[e] = pc[e]
<1> USE DEF flowVars, storeVars, parentVars, TypeOK
<1>1. ASSUME NEW e \in Exec, Befalls(e)
      PROVE  /\ UNCHANGED storeVars
             /\ \A f \in Exec : pc'[f] \in {"writing", "completed"} => pc'[f] = pc[f]
  BY <1>1 DEF Befalls, Goto
<1>2. CASE StartEnrichment \/ EndBatch
  BY <1>2 DEF StartEnrichment, EndBatch
<1>3. CASE GoOn \/ Expire \/ Summarize
  BY <1>3 DEF GoOn, Expire, Summarize
<1>4. ASSUME NEW r \in Records,
             ArticleAnswered(r) \/ ArticleLost(r) \/ StartToCloseTimeout(r)
      PROVE  /\ UNCHANGED storeVars
             /\ \A f \in Exec : pc'[f] \in {"writing", "completed"} => pc'[f] = pc[f]
  BY <1>4 DEF ArticleAnswered, ArticleLost, StartToCloseTimeout, NextAttempt
<1> QED
  BY <1>1, <1>2, <1>3, <1>4 DEF Next, FlowStep

LEMMA StoreInvNext ==
    ASSUME TypeOK, StoreInv, [Next]_vars
    PROVE  StoreInv'
<1> USE ExecRecord DEF StoreInv, ContentHasObject, TypeOK
<1>1. ASSUME NEW e \in Exec, ArticleStep(e) PROVE StoreInv'
  <2>1. CASE FetchPage(e) \/ ArticleFails(e)
    BY <2>1 DEF FetchPage, ArticleFails, Goto, storeVars
  <2>2. CASE StoreObject(e)
    BY <2>2 DEF StoreObject, Goto
  <2>3. CASE WriteContent(e)
    BY <2>3 DEF WriteContent, Goto
  <2> QED
    BY <1>1, <2>1, <2>2, <2>3 DEF ArticleStep
<1>2. CASE Next /\ \A e \in Exec : ~ArticleStep(e)
  BY <1>2, OthersKeepStore DEF storeVars
<1>3. CASE UNCHANGED vars
  BY <1>3 DEF vars
<1> QED
  BY <1>1, <1>2, <1>3

LEMMA StoreInvInit == Init => StoreInv
BY ExecRecord DEF Init, StoreInv, ContentHasObject

\* A key in a record's row is the key of an object in S3, wherever the executions
\* of fetch_article, first attempts and retries, were stopped.
THEOREM KeysHaveObjects == Spec => []ContentHasObject
<1>1. Init => TypeOK /\ StoreInv
  BY TypeInit, StoreInvInit
<1>2. (TypeOK /\ StoreInv) /\ [Next]_vars => (TypeOK /\ StoreInv)'
  BY TypeNext, StoreInvNext
<1>3. StoreInv => ContentHasObject
  BY DEF StoreInv
<1> QED
  BY <1>1, <1>2, <1>3, PTL DEF Spec

-----------------------------------------------------------------------------
(* The batches *)

LEMMA LoopInvInit == Init => LoopInv
BY RecordAssumption DEF Init, LoopInv, Records

LEMMA NextAttemptLoop ==
    ASSUME TypeOK, NEW r \in Records, NextAttempt(r)
    PROVE  /\ \A q \in Records : attempt[q] # 0 => attempt'[q] # 0
           /\ \A q \in Records : outcome[q] # "none" => outcome'[q] # "none"
BY DEF NextAttempt, TypeOK

LEMMA EndBatchLoop ==
    ASSUME TypeOK, LoopInv, EndBatch
    PROVE  LoopInv'
<1> USE DEF TypeOK
<1>0. size \in Nat /\ first \in Nat /\ BatchSize \in Nat /\ BatchSize > 0
  BY BatchAssumption, RecordAssumption DEF Records
<1>1. first <= size /\ flow = "running"
  BY DEF EndBatch, LoopInv
<1>2. /\ Last \in Nat /\ first <= Last /\ Last <= size
      /\ \A r \in Records : first <= r /\ r <= Last => r \in Batch
  BY <1>1, BatchBounds
<1>3. first' = Last + 1 /\ size' = size /\ outcome' = outcome
  BY DEF EndBatch
<1>4. \A r \in Records : r < first' => outcome'[r] # "none"
  <2> SUFFICES ASSUME NEW r \in Records, r < first' PROVE outcome[r] # "none"
    BY <1>3
  <2>1. CASE r < first
    BY <2>1 DEF LoopInv
  <2>2. CASE ~(r < first)
    <3>1. r \in Batch
      BY <1>0, <1>2, <1>3, <2>2, RecordAssumption DEF Records
    <3> QED
      BY <3>1 DEF EndBatch
  <2> QED
    BY <2>1, <2>2
<1>5. CASE IsLast
  <2>1. flow' = "done" /\ first' > size'
    BY <1>0, <1>3, <1>5 DEF EndBatch, IsLast
  <2> QED
    BY <1>4, <2>1 DEF LoopInv
<1>6. CASE ~IsLast
  <2>1. flow' = "running" /\ first' <= size'
    BY <1>0, <1>1, <1>2, <1>3, <1>6 DEF EndBatch, IsLast
  <2>2. ASSUME NEW r \in Records, r \in Batch' PROVE attempt'[r] # 0
    <3>1. Last < r /\ r <= Last + BatchSize /\ r <= size
      BY <1>0, <1>2, <1>3, <2>2 DEF Batch, Last, Records
    <3> QED
      BY <1>6, <3>1 DEF EndBatch
  <2> QED
    BY <1>4, <2>1, <2>2 DEF LoopInv
<1> QED
  BY <1>5, <1>6

LEMMA LoopInvNext ==
    ASSUME TypeOK, LoopInv, [Next]_vars
    PROVE  LoopInv'
<1> USE DEF flowVars, storeVars, parentVars, TypeOK
<1>1. ASSUME NEW e \in Exec, ArticleStep(e) \/ Befalls(e) PROVE LoopInv'
  <2>1. UNCHANGED flowVars /\ (UNCHANGED parent)
    BY <1>1 DEF ArticleStep, FetchPage, StoreObject, WriteContent, ArticleFails, Befalls
  <2> QED
    BY <2>1 DEF LoopInv, Batch, Last
<1>2. CASE StartEnrichment
  <2>1. UNCHANGED <<size, first, outcome, parent>>
    BY <1>2 DEF StartEnrichment
  <2>2. Batch' = Batch
    BY <2>1 DEF Batch, Last
  <2>3. CASE flow' = "running"
    <3>1. \A r \in Records : r \in Batch => attempt'[r] = 1
      BY <1>2, <2>3 DEF StartEnrichment
    <3> QED
      BY <1>2, <2>1, <2>2, <2>3, <3>1 DEF LoopInv, StartEnrichment
  <2>4. CASE flow' = "gone"
    BY <1>2, <2>1, <2>4 DEF LoopInv, StartEnrichment
  <2> QED
    BY <1>2, <2>3, <2>4 DEF StartEnrichment
<1>3. CASE GoOn \/ Expire \/ Summarize
  BY <1>3 DEF GoOn, Expire, Summarize, LoopInv, Batch, Last
<1>4. ASSUME NEW r \in Records,
             ArticleAnswered(r) \/ ArticleLost(r) \/ StartToCloseTimeout(r)
      PROVE  LoopInv'
  <2>1. flow = "running" /\ UNCHANGED <<flow, size, first, parent>>
    BY <1>4 DEF ArticleAnswered, ArticleLost, StartToCloseTimeout, Awaited
  <2>2. /\ \A q \in Records : attempt[q] # 0 => attempt'[q] # 0
        /\ \A q \in Records : outcome[q] # "none" => outcome'[q] # "none"
    <3>1. CASE ArticleAnswered(r)
      BY <3>1 DEF ArticleAnswered, Answers
    <3> QED
      BY <1>4, <3>1, NextAttemptLoop DEF ArticleLost, StartToCloseTimeout
  <2>3. Batch' = Batch
    BY <2>1 DEF Batch, Last
  <2> QED
    BY <2>1, <2>2, <2>3 DEF LoopInv
<1>5. CASE UNCHANGED vars
  BY <1>5 DEF vars, LoopInv, Batch, Last
<1> QED
  BY <1>1, <1>2, <1>3, <1>4, <1>5, EndBatchLoop DEF Next, FlowStep

\* When the workflow is done it was told something of every record, the ones of the
\* last and shorter batch included.
THEOREM EveryRecordHasItsTurn == Spec => []AllTried
<1>1. Init => TypeOK /\ LoopInv
  BY TypeInit, LoopInvInit
<1>2. (TypeOK /\ LoopInv) /\ [Next]_vars => (TypeOK /\ LoopInv)'
  BY TypeNext, LoopInvNext
<1>3. TypeOK /\ LoopInv => AllTried
  BY RecordAssumption DEF TypeOK, LoopInv, AllTried, Records
<1> QED
  BY <1>1, <1>2, <1>3, PTL DEF Spec

-----------------------------------------------------------------------------
(* What is used *)

\* No outcome changes, and no content is lost, but while the child runs.
LEMMA OutcomesSettle ==
    ASSUME TypeOK, StoreInv, LoopInv, [Next]_vars
    PROVE  /\ \A r \in Records : content[r] => content'[r]
           /\ outcome' # outcome => flow = "running" /\ flow' = flow /\ parent' = parent
           /\ \A r \in Records : outcome'[r] = "completed" =>
                 outcome[r] = "completed" \/ content[r]
<1> USE DEF flowVars, storeVars, parentVars, TypeOK
<1> DEFINE Goal == /\ \A r \in Records : content[r] => content'[r]
                   /\ outcome' # outcome =>
                         flow = "running" /\ flow' = flow /\ parent' = parent
                   /\ \A r \in Records : outcome'[r] = "completed" =>
                         outcome[r] = "completed" \/ content[r]
<1>1. ASSUME NEW e \in Exec, ArticleStep(e) \/ Befalls(e) PROVE Goal
  BY <1>1 DEF ArticleStep, FetchPage, StoreObject, WriteContent, ArticleFails, Befalls
<1>2. CASE StartEnrichment \/ EndBatch
  BY <1>2 DEF StartEnrichment, EndBatch
<1>3. CASE GoOn \/ Expire \/ Summarize
  BY <1>3 DEF GoOn, Expire, Summarize
<1>4. ASSUME NEW r \in Records, ArticleAnswered(r) PROVE Goal
  <2>1. attempt[r] # 0
    BY <1>4 DEF ArticleAnswered, Awaited, LoopInv
  <2>2. Current(r) \in Exec /\ RecordOf(Current(r)) = r
    BY <2>1 DEF Current, Exec, RecordOf
  <2> QED
    BY <1>4, <2>2 DEF ArticleAnswered, Awaited, StoreInv
<1>5. ASSUME NEW r \in Records, ArticleLost(r) \/ StartToCloseTimeout(r) PROVE Goal
  BY <1>5 DEF ArticleLost, StartToCloseTimeout, NextAttempt, Awaited
<1>6. CASE UNCHANGED vars
  BY <1>6 DEF vars
<1> QED
  BY <1>1, <1>2, <1>3, <1>4, <1>5, <1>6 DEF Next, FlowStep

LEMMA ParentInvInit == Init => ParentInv
BY DEF Init, ParentInv, EnrichedIsUsed

\* The child stays over, and the parent moves on only when it is.
LEMMA ParentWaits ==
    ASSUME TypeOK, [Next]_vars
    PROVE  /\ flow \in {"done", "gone"} => flow' = flow
           /\ parent' # parent => parent # "waiting" \/ flow \in {"done", "gone"}
           /\ parent' = "over" => (parent = "over" /\ used' = used) \/ used' = content
<1> USE DEF flowVars, storeVars, parentVars, TypeOK
<1>1. ASSUME NEW e \in Exec, ArticleStep(e) \/ Befalls(e)
      PROVE  UNCHANGED <<flow, parentVars>>
  BY <1>1 DEF ArticleStep, FetchPage, StoreObject, WriteContent, ArticleFails, Befalls
<1>2. CASE StartEnrichment \/ EndBatch \/ Expire
  BY <1>2 DEF StartEnrichment, EndBatch, Expire
<1>3. CASE GoOn \/ Summarize
  BY <1>3 DEF GoOn, Summarize
<1>4. ASSUME NEW r \in Records,
             ArticleAnswered(r) \/ ArticleLost(r) \/ StartToCloseTimeout(r)
      PROVE  UNCHANGED <<flow, parentVars>>
  BY <1>4 DEF ArticleAnswered, ArticleLost, StartToCloseTimeout
<1>5. CASE UNCHANGED vars
  BY <1>5 DEF vars
<1> QED
  BY <1>1, <1>2, <1>3, <1>4, <1>5 DEF Next, FlowStep

LEMMA ParentInvNext ==
    ASSUME TypeOK, StoreInv, LoopInv, ParentInv, [Next]_vars
    PROVE  ParentInv'
<1>1. \A r \in Records : outcome'[r] = "completed" => content'[r]
  BY OutcomesSettle DEF ParentInv
<1>2. parent' # "waiting" => flow' \in {"done", "gone"}
  BY ParentWaits DEF ParentInv
<1>3. ASSUME parent' = "over", NEW r \in Records, outcome'[r] = "completed"
      PROVE  used'[r]
  <2>1. flow' \in {"done", "gone"}
    BY <1>2, <1>3
  <2>2. outcome' = outcome
    BY <2>1, OutcomesSettle
  <2>3. outcome[r] = "completed" /\ content[r]
    BY <1>3, <2>2 DEF ParentInv
  <2> QED
    BY <1>3, <2>3, ParentWaits DEF ParentInv, EnrichedIsUsed
<1> QED
  BY <1>1, <1>2, <1>3 DEF ParentInv, EnrichedIsUsed

\* What the child reported as enriched is in the rows before the parent's
\* summarize_records reads them.  (What it reported as failed may be too, later.)
THEOREM EnrichedBeforeSummarized == Spec => []EnrichedIsUsed
<1> DEFINE Inv == TypeOK /\ StoreInv /\ LoopInv /\ ParentInv
<1>1. Init => Inv
  BY TypeInit, StoreInvInit, LoopInvInit, ParentInvInit
<1>2. Inv /\ [Next]_vars => Inv'
  BY TypeNext, StoreInvNext, LoopInvNext, ParentInvNext
<1>3. Inv => EnrichedIsUsed
  BY DEF ParentInv
<1> QED
  BY <1>1, <1>2, <1>3, PTL DEF Spec

-----------------------------------------------------------------------------
(* The totals *)

TallyInv == first >= 1 /\ TallyExact

Finished == {r \in Records : r < first}

LEMMA TallyInvInit == Init => TallyInv
<1> SUFFICES ASSUME Init PROVE TallyInv
  OBVIOUS
<1>1. \A S : {r \in Finished : outcome[r] \in S} = {}
  BY DEF Init, Finished, Records
<1>2. \A S : Among(Finished, S) = 0
  BY <1>1, FS_EmptySet DEF Among
<1> QED
  BY <1>2 DEF Init, TallyInv, TallyExact, Finished

LEMMA AmongType ==
    ASSUME TypeOK, NEW R \in SUBSET Records, NEW S
    PROVE  IsFiniteSet({r \in R : outcome[r] \in S}) /\ Among(R, S) \in Nat
<1>1. IsFiniteSet(Records)
  BY FS_Interval, RecordAssumption DEF Records
<1>2. IsFiniteSet({r \in R : outcome[r] \in S})
  BY <1>1, FS_Subset
<1> QED
  BY <1>2, FS_CardinalityType DEF Among

\* The finished records and those of the batch are disjoint.
LEMMA AmongBoth ==
    ASSUME TypeOK, LoopInv, TallyInv, EndBatch, NEW S
    PROVE  Among(Finished', S) = Among(Finished, S) + Among(Batch, S)
<1>1. first <= size /\ size \in Records
  BY DEF EndBatch, LoopInv, TypeOK
<1>2. /\ Last \in Nat /\ first <= Last /\ Last <= size
      /\ \A r \in Batch : r \in Nat /\ first <= r /\ r <= Last
      /\ \A r \in Records : first <= r /\ r <= Last => r \in Batch
  BY <1>1, BatchBounds
<1>3. /\ Batch \subseteq Records /\ Finished \subseteq Records
      /\ Finished' = Finished \cup Batch /\ Finished \cap Batch = {}
  BY <1>1, <1>2, RecordAssumption DEF EndBatch, TallyInv, TypeOK, Records, Finished
<1> DEFINE A == {r \in Finished : outcome[r] \in S}
           B == {r \in Batch : outcome[r] \in S}
<1>4. {r \in Finished' : outcome[r] \in S} = A \cup B /\ A \cap B = {}
  BY <1>3
<1>5. /\ IsFiniteSet(A) /\ Cardinality(A) \in Nat
      /\ IsFiniteSet(B) /\ Cardinality(B) \in Nat
  BY <1>3, AmongType DEF Among
<1>6. Cardinality(A \cup B) = Cardinality(A) + Cardinality(B) - Cardinality(A \cap B)
  BY <1>5, FS_Union
<1>7. Cardinality(A \cup B) = Cardinality(A) + Cardinality(B)
  <2>1. Cardinality(A \cap B) = 0
    BY <1>4, FS_EmptySet
  <2> HIDE DEF A, B
  <2> QED
    BY <1>5, <1>6, <2>1
<1>8. /\ Among(Finished', S) = Cardinality(A \cup B)
      /\ Among(Finished, S) = Cardinality(A)
      /\ Among(Batch, S) = Cardinality(B)
  BY <1>4, Zenon DEF Among
<1> QED
  BY <1>7, <1>8, Zenon

LEMMA EndBatchTally ==
    ASSUME TypeOK, LoopInv, TallyInv, EndBatch
    PROVE  TallyInv'
<1>1. \A S : Among(Finished', S) = Among(Finished, S) + Among(Batch, S)
  BY AmongBoth
<1>2. outcome' = outcome /\ tally' = BatchTally /\ first' = Last + 1
  BY DEF EndBatch
<1>3. first' >= 1
  BY <1>2, BatchAssumption, RecordAssumption DEF TypeOK, Last, Records
<1>4. /\ tally.enriched = Among(Finished, {"completed"})
      /\ tally.failed = Among(Finished, {"failed", "error"})
  BY DEF TallyInv, TallyExact, Finished
<1>5. /\ tally'.enriched = Among(Finished', {"completed"})
      /\ tally'.failed = Among(Finished', {"failed", "error"})
  BY <1>1, <1>2, <1>4 DEF BatchTally
<1> QED
  BY <1>2, <1>3, <1>5 DEF TallyInv, TallyExact, Finished, Among

\* What becomes of a record is known before its batch is over, and stays.
LEMMA OthersKeepTally ==
    ASSUME TypeOK, TallyInv, [Next]_vars, ~EndBatch
    PROVE  TallyInv'
<1> USE DEF flowVars, storeVars, parentVars, TypeOK
<1>1. first' = first /\ tally' = tally /\ \A r \in Records : r < first => outcome'[r] = outcome[r]
  <2>1. ASSUME NEW e \in Exec, ArticleStep(e) \/ Befalls(e) PROVE UNCHANGED flowVars
    BY <2>1 DEF ArticleStep, FetchPage, StoreObject, WriteContent, ArticleFails, Befalls
  <2>2. CASE StartEnrichment \/ GoOn \/ Expire \/ Summarize
    BY <2>2 DEF StartEnrichment, GoOn, Expire, Summarize
  <2>3. ASSUME NEW q \in Records,
               ArticleAnswered(q) \/ ArticleLost(q) \/ StartToCloseTimeout(q)
        PROVE  first' = first /\ tally' = tally /\ \A r \in Records : r < first => outcome'[r] = outcome[r]
    <3>1. q \in Batch /\ UNCHANGED <<first, tally>>
      BY <2>3 DEF ArticleAnswered, ArticleLost, StartToCloseTimeout, Awaited
    <3>2. first <= q
      BY <3>1, BatchAssumption DEF Batch, Last, Records
    <3>3. \A r \in Records : r # q => outcome'[r] = outcome[r]
      BY <2>3 DEF ArticleAnswered, ArticleLost, StartToCloseTimeout, NextAttempt
    <3> QED
      BY <3>1, <3>2, <3>3 DEF Records
  <2>4. CASE UNCHANGED vars
    BY <2>4 DEF vars
  <2> QED
    BY <2>1, <2>2, <2>3, <2>4 DEF Next, FlowStep
<1>2. \A S : {r \in Finished : outcome'[r] \in S} = {r \in Finished : outcome[r] \in S}
  BY <1>1 DEF Finished
<1> QED
  BY <1>1, <1>2 DEF TallyInv, TallyExact, Among, Finished

\* total_enriched and total_failed count every record of the finished batches once.
THEOREM TotalsAreExact == Spec => []TallyExact
<1> DEFINE Inv == TypeOK /\ LoopInv /\ TallyInv
<1>1. Init => Inv
  BY TypeInit, LoopInvInit, TallyInvInit
<1>2. Inv /\ [Next]_vars => Inv'
  BY TypeNext, LoopInvNext, EndBatchTally, OthersKeepTally
<1>3. Inv => TallyExact
  BY DEF TallyInv
<1> QED
  BY <1>1, <1>2, <1>3, PTL DEF Spec
=============================================================================
