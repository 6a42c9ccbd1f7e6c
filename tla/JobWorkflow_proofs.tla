------------------------- MODULE JobWorkflow_proofs -------------------------
(***************************************************************************)
(* Proofs about JobWorkflow, for jobs, batches and semaphores of any size: *)
(* how many children run at a time, that the counts handed from run to run *)
(* are exact, and that the last run leaves no task out.                    *)
(***************************************************************************)
EXTENDS JobWorkflow, FiniteSetTheorems, TLAPS

ChildStates == {"none", "running", "refused"} \cup Outcomes
Counts == [completed : Nat, failed : Nat]
NotCompleted == {"failed", "error"}

TypeOK ==
    /\ size \in 0..MaxTasks
    /\ child \in [1..MaxTasks -> ChildStates]
    /\ first \in Nat \ {0} /\ next \in Nat
    /\ phase \in {"starting", "awaiting", "done"}
    /\ previous \in Counts

\* Where a run stands: the children of earlier batches are closed, those of the
\* batch are started in their order, and none of a later batch exists.
BatchInv ==
    /\ first = 1 \/ first <= size
    /\ next \in first..Last + 1
    /\ phase # "starting" => next = Last + 1
    /\ \A i \in 1..MaxTasks :
        /\ i < first => child[i] \notin {"none", "running"}
        /\ i < next => child[i] # "none"
        /\ i >= next => child[i] = "none"

\* What a run has collected: results of its own batch, each of a child that closed.
CollectInv ==
    /\ holding \subseteq Handles \ collected /\ collected \subseteq Handles
    /\ \A i \in collected : child[i] \in Outcomes
    /\ phase = "starting" => holding = {} /\ collected = {}

\* What the last run returned: the counts of all children.
ResultInv ==
    IF phase = "done"
    THEN /\ Remaining = {} /\ collected = Handles
         /\ final.completed = Among(AllTasks, {"completed"})
         /\ final.failed = Among(AllTasks, NotCompleted)
    ELSE final = NoResult

RunInv == TypeOK /\ BatchInv /\ CollectInv /\ CountsCarried /\ ResultInv

-----------------------------------------------------------------------------
(* Counting children *)

LEMMA AmongType ==
    ASSUME NEW a \in Int, NEW b \in Int, NEW status
    PROVE  /\ IsFiniteSet({i \in a..b : child[i] \in status})
           /\ Among(a..b, status) \in Nat
<1>1. IsFiniteSet(a..b)
  BY FS_Interval
<1>2. IsFiniteSet({i \in a..b : child[i] \in status})
  BY <1>1, FS_Subset
<1> QED
  BY <1>2, FS_CardinalityType DEF Among

\* The children up to Last are those of the earlier batches and those of this one.
LEMMA AmongSplit ==
    ASSUME first \in Nat \ {0}, Last \in Nat, first <= Last + 1, NEW status
    PROVE  Among(1..Last, status) = Among(1..first - 1, status) + Among(Batch, status)
<1> DEFINE A == {i \in 1..first - 1 : child[i] \in status}
           B == {i \in Batch : child[i] \in status}
<1>0. 1 \in Int /\ first \in Int /\ first - 1 \in Int /\ Last \in Int
  OBVIOUS
<1>1. IsFiniteSet(A) /\ IsFiniteSet(B)
  <2>1. IsFiniteSet(A)
    BY ONLY <1>0, AmongType
  <2>2. IsFiniteSet(B)
    BY ONLY <1>0, AmongType DEF Batch
  <2> QED
    BY <2>1, <2>2
<1>2. A \cap B = {} /\ A \cup B = {i \in 1..Last : child[i] \in status}
  BY DEF Batch
<1>3. Cardinality(A \cup B) = Cardinality(A) + Cardinality(B) - Cardinality(A \cap B)
  BY <1>1, FS_Union
<1>4. Cardinality(A) \in Nat /\ Cardinality(B) \in Nat /\ Cardinality(A \cap B) = 0
  BY <1>1, <1>2, FS_CardinalityType, FS_EmptySet
<1>5. /\ Among(1..Last, status) = Cardinality(A \cup B)
      /\ Among(1..first - 1, status) = Cardinality(A)
      /\ Among(Batch, status) = Cardinality(B)
  BY <1>2 DEF Among
<1> QED
  BY <1>3, <1>4, <1>5

\* The children a run has collected, when its gather is over, are those it started.
LEMMA CollectedAll ==
    ASSUME RunInv, collected = Handles, NEW status \in SUBSET Outcomes
    PROVE  Among(collected, status) = Among(Batch, status)
<1>1. {i \in collected : child[i] \in status} = {i \in Batch : child[i] \in status}
  BY DEF Handles, Outcomes
<1> QED
  BY <1>1 DEF Among

LEMMA LastType ==
    ASSUME RunInv
    PROVE  Last \in Nat /\ first <= Last + 1 /\ Last <= size
BY SizeAssumption, BatchAssumption DEF RunInv, TypeOK, BatchInv, Last

\* With a batch collected, the counts are those of all children so far.
LEMMA BatchCountsExact ==
    ASSUME RunInv, Gathered
    PROVE  /\ BatchCounts \in Counts
           /\ BatchCounts.completed = Among(1..Last, {"completed"})
           /\ BatchCounts.failed = Among(1..Last, NotCompleted)
<1>1. ASSUME NEW status \in SUBSET Outcomes
      PROVE  /\ Among(1..Last, status) = Among(1..first - 1, status) + Among(collected, status)
             /\ Among(1..Last, status) \in Nat
  <2>1. Among(1..Last, status) = Among(1..first - 1, status) + Among(Batch, status)
    BY AmongSplit, LastType DEF RunInv, TypeOK
  <2>2. Among(1..Last, status) \in Nat
    <3>1. 1 \in Int /\ Last \in Int
      BY LastType
    <3> QED
      BY ONLY <3>1, AmongType
  <2> QED
    BY <2>1, <2>2, CollectedAll DEF Gathered
<1>2. {"completed"} \in SUBSET Outcomes /\ NotCompleted \in SUBSET Outcomes
  BY DEF Outcomes, NotCompleted
<1>3. /\ BatchCounts.completed = previous.completed + Among(collected, {"completed"})
      /\ BatchCounts.failed = previous.failed + Among(collected, NotCompleted)
      /\ BatchCounts = [completed |-> BatchCounts.completed, failed |-> BatchCounts.failed]
  BY DEF BatchCounts, NotCompleted
<1>4. /\ previous.completed = Among(1..first - 1, {"completed"})
      /\ previous.failed = Among(1..first - 1, NotCompleted)
  BY DEF RunInv, CountsCarried, NotCompleted
<1>5. /\ BatchCounts.completed = Among(1..Last, {"completed"})
      /\ BatchCounts.failed = Among(1..Last, NotCompleted)
  BY <1>1, <1>2, <1>3, <1>4
<1> QED
  BY <1>1, <1>2, <1>3, <1>5 DEF Counts

-----------------------------------------------------------------------------
(* The invariant *)

LEMMA RunInvInit == Init => RunInv
<1> SUFFICES ASSUME Init PROVE RunInv
  OBVIOUS
<1>1. TypeOK
  BY SizeAssumption DEF Init, TypeOK, ChildStates, Counts, NoCount
<1>2. BatchInv
  BY SizeAssumption, BatchAssumption DEF Init, BatchInv, Last
<1>3. CollectInv /\ ResultInv
  BY DEF Init, CollectInv, ResultInv
<1>4. CountsCarried
  <2>1. ASSUME NEW status PROVE Among(1..first - 1, status) = 0
    <3>1. {i \in 1..first - 1 : child[i] \in status} = {}
      BY DEF Init
    <3> QED
      BY <3>1, FS_EmptySet DEF Among
  <2> QED
    BY <2>1 DEF Init, CountsCarried, NoCount
<1> QED
  BY <1>1, <1>2, <1>3, <1>4 DEF RunInv

\* A step that leaves the arguments of the run and the closed children alone.
LEMMA CountsKept ==
    ASSUME RunInv, UNCHANGED <<first, previous>>,
           \A i \in 1..first - 1 : child'[i] = child[i]
    PROVE  CountsCarried'
<1>1. ASSUME NEW status PROVE Among(1..first - 1, status)' = Among(1..first - 1, status)
  <2>1. {i \in 1..first - 1 : child'[i] \in status} = {i \in 1..first - 1 : child[i] \in status}
    OBVIOUS
  <2> QED
    BY <2>1 DEF Among
<1> QED
  BY <1>1 DEF RunInv, CountsCarried

LEMMA ReturnEmptyKeeps == ASSUME RunInv, ReturnEmpty PROVE RunInv'
<1> USE DEF ReturnEmpty
<1>0. size = 0
  BY DEF AllTasks, RunInv, TypeOK
<1>1. first = 1 /\ Last = 0 /\ next = 1
  BY <1>0, BatchAssumption DEF RunInv, TypeOK, BatchInv, Last
<1>2. TypeOK'
  BY DEF RunInv, TypeOK
<1>3. BatchInv'
  BY <1>0, <1>1 DEF RunInv, BatchInv, Last
<1>4. CollectInv'
  BY DEF RunInv, CollectInv, Handles, Batch, Last
<1>5. ResultInv'
  <2>1. ASSUME NEW status PROVE Among(AllTasks, status)' = 0
    <3>1. {i \in AllTasks' : child'[i] \in status} = {}
      BY <1>0 DEF AllTasks
    <3> QED
      BY <3>1, FS_EmptySet DEF Among
  <2>2. (Remaining = {} /\ collected = Handles)'
    <3>1. collected = {}
      BY DEF RunInv, CollectInv
    <3> QED
      BY <1>0, <1>1, <3>1 DEF Remaining, Handles, Batch, Last
  <2>3. final' = NoResult
    BY DEF RunInv, ResultInv
  <2> QED
    BY <2>1, <2>2, <2>3 DEF ResultInv, NoResult
<1>6. CountsCarried'
  BY CountsKept
<1> QED
  BY <1>2, <1>3, <1>4, <1>5, <1>6 DEF RunInv

LEMMA StartChildKeeps == ASSUME RunInv, StartChild PROVE RunInv'
<1> USE DEF StartChild
<1>1. /\ size \in Nat /\ MaxTasks \in Nat /\ size <= MaxTasks
      /\ next \in Nat /\ first \in Nat \ {0} /\ first <= next
      /\ next <= Last /\ Last \in Nat /\ Last <= size
  BY LastType, SizeAssumption DEF RunInv, TypeOK, BatchInv, Batch
<1>2. child' \in [1..MaxTasks -> ChildStates]
  BY DEF RunInv, TypeOK, ChildStates
<1>3. \A i \in 1..MaxTasks : i # next => child'[i] = child[i]
  BY DEF RunInv, TypeOK
<1>4. child'[next] \in {"running", "refused"}
  BY <1>1 DEF RunInv, TypeOK
<1>5. TypeOK'
  BY <1>1, <1>2 DEF RunInv, TypeOK
<1>6. BatchInv'
  BY <1>1, <1>3, <1>4 DEF RunInv, BatchInv, Last
<1>7. CollectInv'
  BY DEF RunInv, CollectInv
<1>8. ResultInv'
  BY DEF RunInv, ResultInv
<1>9. CountsCarried'
  BY <1>1, <1>3, CountsKept
<1> QED
  BY <1>5, <1>6, <1>7, <1>8, <1>9 DEF RunInv

\* Steps of a run that leave its arguments, the children and the result alone.
LEMMA AwaitKeeps ==
    ASSUME RunInv, UNCHANGED <<size, child, first, next, previous, final>>,
           phase # "done", phase' = "awaiting", next = Last + 1,
           holding' \subseteq Handles \ collected', collected' \subseteq Handles,
           \A i \in collected' : child[i] \in Outcomes
    PROVE  RunInv'
<1>1. TypeOK'
  BY DEF RunInv, TypeOK
<1>2. BatchInv'
  BY DEF RunInv, BatchInv, Last
<1>3. CollectInv'
  BY DEF RunInv, CollectInv, Handles, Batch, Last
<1>4. ResultInv'
  BY DEF RunInv, ResultInv
<1>5. CountsCarried'
  BY CountsKept
<1> QED
  BY <1>1, <1>2, <1>3, <1>4, <1>5 DEF RunInv

LEMMA BeginAwaitKeeps == ASSUME RunInv, BeginAwait PROVE RunInv'
<1>1. next = Last + 1
  BY LastType DEF BeginAwait, RunInv, TypeOK, BatchInv
<1>2. holding \subseteq Handles \ collected /\ collected \subseteq Handles
      /\ \A i \in collected : child[i] \in Outcomes
  BY DEF RunInv, CollectInv
<1> QED
  BY <1>1, <1>2, AwaitKeeps DEF BeginAwait

LEMMA AcquireKeeps == ASSUME RunInv, NEW i \in AllTasks, Acquire(i) PROVE RunInv'
<1>1. next = Last + 1
  BY DEF Acquire, RunInv, BatchInv
<1>2. holding' \subseteq Handles \ collected' /\ collected' \subseteq Handles
      /\ \A j \in collected' : child[j] \in Outcomes
  BY DEF Acquire, RunInv, CollectInv
<1> QED
  BY <1>1, <1>2, AwaitKeeps DEF Acquire

LEMMA CollectKeeps == ASSUME RunInv, NEW i \in AllTasks, Collect(i) PROVE RunInv'
<1>1. phase = "awaiting"
  BY DEF Collect, RunInv, TypeOK, CollectInv, ResultInv
<1>2. next = Last + 1
  BY <1>1 DEF RunInv, BatchInv
<1>3. holding' \subseteq Handles \ collected' /\ collected' \subseteq Handles
      /\ \A j \in collected' : child[j] \in Outcomes
  BY DEF Collect, RunInv, CollectInv
<1> QED
  BY <1>1, <1>2, <1>3, AwaitKeeps DEF Collect

\* The heart of the matter: what is handed on is what the closed batch adds.
LEMMA ContinueAsNewKeeps == ASSUME RunInv, ContinueAsNew PROVE RunInv'
<1> USE DEF ContinueAsNew
<1>1. /\ size \in Nat /\ MaxTasks \in Nat /\ size <= MaxTasks
      /\ first \in Nat \ {0} /\ Last \in Nat /\ Last < size
      /\ next = Last + 1 /\ first <= Last
  BY LastType, SizeAssumption, BatchAssumption
     DEF Gathered, Remaining, RunInv, TypeOK, BatchInv, Last
<1>2. BatchCounts \in Counts
  BY BatchCountsExact
<1>3. TypeOK'
  BY <1>1, <1>2 DEF RunInv, TypeOK
<1>4. Last' \in Nat /\ Last' >= Last + 1
  BY <1>1, BatchAssumption DEF Last
<1>5. \A i \in 1..MaxTasks : i <= Last => child[i] \notin {"none", "running"}
  <2>1. \A i \in Batch : child[i] \in Outcomes \cup {"refused"}
    BY <1>1 DEF Gathered, Handles, Batch, RunInv, BatchInv, CollectInv
  <2> QED
    BY <1>1, <2>1 DEF RunInv, BatchInv, Batch, Outcomes
<1>6. BatchInv'
  <2>1. first' = Last + 1 /\ first' <= size' /\ next' \in first'..Last' + 1
    <3>1. first' = Last + 1 /\ next' = Last + 1 /\ size' = size
      BY <1>1
    <3>2. Last + 1 <= size
      BY <1>1
    <3>3. Last + 1 \in (Last + 1)..(Last' + 1)
      <4>1. ASSUME NEW n \in Nat, n >= Last + 1 PROVE Last + 1 \in (Last + 1)..(n + 1)
        BY <1>1, <4>1
      <4> QED
        BY <1>4, <4>1
    <3> QED
      BY <3>1, <3>2, <3>3
  <2>2. \A i \in 1..MaxTasks :
          /\ i < first' => child'[i] \notin {"none", "running"}
          /\ i < next' => child'[i] # "none"
          /\ i >= next' => child'[i] = "none"
    BY <1>1, <1>5 DEF RunInv, BatchInv
  <2> QED
    BY <2>1, <2>2 DEF BatchInv
<1>7. CollectInv'
  BY DEF CollectInv
<1>8. ResultInv'
  BY DEF RunInv, ResultInv, Gathered
<1>9. CountsCarried'
  <2>1. ASSUME NEW status PROVE Among(1..first - 1, status)' = Among(1..Last, status)
    <3>1. first' - 1 = Last
      BY <1>1
    <3> QED
      BY <3>1 DEF Among
  <2>2. /\ previous'.completed = Among(1..Last, {"completed"})
        /\ previous'.failed = Among(1..Last, NotCompleted)
    BY BatchCountsExact
  <2> QED
    BY <2>1, <2>2 DEF CountsCarried, NotCompleted
<1> QED
  BY <1>3, <1>6, <1>7, <1>8, <1>9 DEF RunInv

LEMMA ReturnResultKeeps == ASSUME RunInv, ReturnResult PROVE RunInv'
<1> USE DEF ReturnResult
<1>1. TypeOK'
  BY DEF RunInv, TypeOK
<1>2. BatchInv'
  BY DEF RunInv, BatchInv, Last, Gathered
<1>3. CollectInv'
  BY DEF RunInv, CollectInv, Handles, Batch, Last
<1>4. ResultInv'
  <2>1. Last = size
    BY LastType, SizeAssumption DEF Remaining, RunInv, TypeOK
  <2>2. /\ BatchCounts.completed = Among(AllTasks, {"completed"})
        /\ BatchCounts.failed = Among(AllTasks, NotCompleted)
    BY <2>1, BatchCountsExact DEF AllTasks
  <2>3. /\ final'.completed = Among(AllTasks, {"completed"})
        /\ final'.failed = Among(AllTasks, NotCompleted)
    BY <2>2
  <2>4. ASSUME NEW status PROVE Among(AllTasks, status)' = Among(AllTasks, status)
    BY DEF Among, AllTasks
  <2>5. (Remaining = {} /\ collected = Handles)'
    BY DEF Gathered, Remaining, Handles, Batch, Last
  <2> QED
    BY <2>3, <2>4, <2>5 DEF ResultInv
<1>5. CountsCarried'
  BY CountsKept
<1> QED
  BY <1>1, <1>2, <1>3, <1>4, <1>5 DEF RunInv

LEMMA CloseChildKeeps ==
    ASSUME RunInv, NEW i \in AllTasks, CloseChild(i)
    PROVE  RunInv'
<1> USE DEF CloseChild
<1>1. /\ size \in Nat /\ MaxTasks \in Nat /\ size <= MaxTasks
      /\ first \in Nat \ {0} /\ next \in Nat /\ Last \in Nat
      /\ i \in 1..MaxTasks /\ i <= size
  BY LastType, SizeAssumption DEF RunInv, TypeOK, AllTasks
<1>2. first <= i /\ i < next
  BY <1>1 DEF RunInv, BatchInv
<1>3. /\ child' \in [1..MaxTasks -> ChildStates]
      /\ child'[i] \in Outcomes
      /\ \A j \in 1..MaxTasks : j # i => child'[j] = child[j]
  BY <1>1 DEF RunInv, TypeOK, ChildStates
<1>4. TypeOK'
  BY <1>3 DEF RunInv, TypeOK
<1>5. BatchInv'
  BY <1>1, <1>2, <1>3 DEF RunInv, BatchInv, Last, Outcomes
<1>6. Handles' = Handles
  <2>1. Batch \subseteq 1..MaxTasks /\ Batch' = Batch
    BY <1>1, LastType DEF Batch, Last
  <2> QED
    BY <1>3, <2>1 DEF Handles, Outcomes
<1>7. i \in Handles /\ i \notin collected
  <2>1. i \in Batch
    BY <1>1, <1>2, LastType DEF Batch, RunInv, BatchInv
  <2> QED
    BY <2>1 DEF Handles, RunInv, CollectInv, Outcomes
<1>8. CollectInv'
  <2>1. collected \subseteq 1..MaxTasks
    BY <1>1, LastType DEF RunInv, CollectInv, Handles, Batch
  <2> QED
    BY <1>3, <1>6, <2>1 DEF RunInv, CollectInv
<1>9. ResultInv'
  BY <1>7 DEF RunInv, ResultInv
<1>10. CountsCarried'
  BY <1>1, <1>2, <1>3, LastType, CountsKept DEF RunInv, TypeOK, BatchInv
<1> QED
  BY <1>4, <1>5, <1>8, <1>9, <1>10 DEF RunInv

LEMMA RunInvNext == RunInv /\ [Next]_vars => RunInv'
<1> SUFFICES ASSUME RunInv, [Next]_vars PROVE RunInv'
  OBVIOUS
<1>1. CASE ReturnEmpty
  BY <1>1, ReturnEmptyKeeps
<1>2. CASE StartChild
  BY <1>2, StartChildKeeps
<1>3. CASE BeginAwait
  BY <1>3, BeginAwaitKeeps
<1>4. ASSUME NEW i \in AllTasks, Acquire(i) PROVE RunInv'
  BY <1>4, AcquireKeeps
<1>5. ASSUME NEW i \in AllTasks, Collect(i) PROVE RunInv'
  BY <1>5, CollectKeeps
<1>6. CASE ContinueAsNew
  BY <1>6, ContinueAsNewKeeps
<1>7. CASE ReturnResult
  BY <1>7, ReturnResultKeeps
<1>8. ASSUME NEW i \in AllTasks, CloseChild(i) PROVE RunInv'
  BY <1>8, CloseChildKeeps
<1>9. CASE UNCHANGED vars
  <2>1. TypeOK' /\ BatchInv'
    BY <1>9 DEF vars, RunInv, TypeOK, BatchInv, Last
  <2>2. CollectInv' /\ CountsCarried' /\ ResultInv'
    BY <1>9 DEF vars, RunInv, CollectInv, CountsCarried, ResultInv, Handles,
       Batch, Last, Remaining, AllTasks, Among
  <2> QED
    BY <2>1, <2>2 DEF RunInv
<1> QED
  BY <1>1, <1>2, <1>3, <1>4, <1>5, <1>6, <1>7, <1>8, <1>9 DEF Next, RunStep

LEMMA RunInvHolds == Spec => []RunInv
<1> QED
  BY RunInvInit, RunInvNext, PTL DEF Spec

-----------------------------------------------------------------------------
(* The theorems *)

\* What a run hands to the next counts the children of every earlier batch once,
\* however many batches there are and in whatever order their children close.
THEOREM CountsAreCarried == Spec => []CountsCarried
<1>1. RunInv => CountsCarried
  BY DEF RunInv
<1> QED
  BY <1>1, RunInvHolds, PTL

\* Never more children run than one batch has: those that run are of the batch.
THEOREM OneBatchRuns == Spec => []ChildrenBounded
<1>1. RunInv => ChildrenBounded
  <2> SUFFICES ASSUME RunInv PROVE ChildrenBounded
    OBVIOUS
  <2> DEFINE R == {i \in AllTasks : child[i] \in {"running"}}
  <2>1. /\ size \in Nat /\ size <= MaxTasks /\ first \in Nat \ {0} /\ next \in Nat
        /\ Last \in Nat /\ next <= Last + 1 /\ first <= Last + 1
        /\ Last - first + 1 <= BatchSize
    BY LastType, SizeAssumption, BatchAssumption DEF RunInv, TypeOK, BatchInv, Last
  <2>2. R \in SUBSET Batch
    BY <2>1, SizeAssumption DEF RunInv, BatchInv, Batch, AllTasks
  <2>3. IsFiniteSet(Batch) /\ Cardinality(Batch) <= BatchSize /\ Cardinality(Batch) \in Nat
    <3>1. /\ IsFiniteSet(first..Last)
          /\ Cardinality(first..Last) = IF first > Last THEN 0 ELSE Last - first + 1
      BY <2>1, FS_Interval
    <3> QED
      BY <2>1, <3>1, BatchAssumption DEF Batch
  <2>4. IsFiniteSet(R) /\ Cardinality(R) <= Cardinality(Batch)
    BY <2>2, <2>3, FS_Subset
  <2>5. Cardinality(R) \in Nat
    BY <2>4, FS_CardinalityType
  <2> QED
    BY <2>3, <2>4, <2>5, BatchAssumption DEF ChildrenBounded, Among
<1> QED
  BY <1>1, RunInvHolds, PTL

\* When the job workflow is done every task had its turn and no child is left
\* running, and its result has each child that was started in one of its counts.
THEOREM NoTaskLost == Spec => []NothingLost
<1>1. RunInv => NothingLost
  <2> SUFFICES ASSUME RunInv, phase = "done" PROVE NothingLost
    BY DEF NothingLost
  <2> DEFINE C == {i \in AllTasks : child[i] \in {"completed"}}
             F == {i \in AllTasks : child[i] \in NotCompleted}
             R == {i \in AllTasks : child[i] \in {"refused"}}
             Z == {i \in AllTasks : child[i] \in {"none", "running"}}
  <2>1. /\ size \in Nat /\ size <= MaxTasks /\ MaxTasks \in Nat /\ Last = size
        /\ next = Last + 1 /\ first \in Nat \ {0}
    BY LastType, SizeAssumption DEF RunInv, TypeOK, BatchInv, ResultInv, Remaining
  <2>2. ASSUME NEW i \in AllTasks PROVE child[i] \in Outcomes \cup {"refused"}
    <3>1. i \in 1..MaxTasks /\ i < next /\ child[i] \in ChildStates
      BY <2>1 DEF AllTasks, RunInv, TypeOK
    <3>2. CASE i < first
      BY <3>1, <3>2 DEF RunInv, BatchInv, ChildStates
    <3>3. CASE ~(i < first)
      <4>1. i \in Batch
        BY <2>1, <3>1, <3>3 DEF Batch
      <4>2. child[i] # "none"
        BY <3>1 DEF RunInv, BatchInv
      <4> QED
        BY <4>1, <4>2 DEF Handles, RunInv, CollectInv, ResultInv
    <3> QED
      BY <3>2, <3>3
  <2>3. /\ Z = {} /\ C \cup F \cup R = AllTasks
        /\ C \cap F = {} /\ (C \cup F) \cap R = {}
    BY <2>2 DEF Outcomes, NotCompleted
  <2>4. IsFiniteSet(AllTasks) /\ Cardinality(AllTasks) = size
    <3>1. IsFiniteSet(1..size) /\ Cardinality(1..size) = IF 1 > size THEN 0 ELSE size - 1 + 1
      BY <2>1, FS_Interval
    <3> QED
      BY <2>1, <3>1 DEF AllTasks
  <2>5. IsFiniteSet(C) /\ IsFiniteSet(F) /\ IsFiniteSet(R)
    BY <2>4, FS_Subset
  <2>6. /\ Cardinality(C) \in Nat /\ Cardinality(F) \in Nat /\ Cardinality(R) \in Nat
        /\ Cardinality({}) = 0
    BY <2>5, FS_CardinalityType, FS_EmptySet
  <2>7. /\ IsFiniteSet(C \cup F)
        /\ Cardinality(C \cup F) = Cardinality(C) + Cardinality(F) - Cardinality(C \cap F)
    BY <2>5, FS_Union
  <2>8. Cardinality((C \cup F) \cup R)
           = Cardinality(C \cup F) + Cardinality(R) - Cardinality((C \cup F) \cap R)
    BY <2>5, <2>7, FS_Union
  <2>9. Cardinality(C) + Cardinality(F) = size - Cardinality(R)
    BY <2>1, <2>3, <2>4, <2>6, <2>7, <2>8
  <2>10. /\ Among(AllTasks, {"none", "running"}) = 0
         /\ Among(AllTasks, {"refused"}) = Cardinality(R)
         /\ Among(AllTasks, {"completed"}) = Cardinality(C)
         /\ Among(AllTasks, NotCompleted) = Cardinality(F)
    BY <2>3, <2>6 DEF Among
  <2>11. /\ final.completed = Cardinality(C)
         /\ final.failed = Cardinality(F)
    BY <2>10 DEF RunInv, ResultInv
  <2> QED
    BY <2>9, <2>10, <2>11 DEF NothingLost
<1> QED
  BY <1>1, RunInvHolds, PTL
=============================================================================
