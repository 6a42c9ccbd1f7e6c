------------------------ MODULE TaskProcessor_proofs ------------------------
(***************************************************************************)
(* Proofs about TaskProcessor, for any finite set of records, any domains  *)
(* and any number of permits: the articles are over before the call moves  *)
(* on, a cancellation ends it, and what is returned is stored.             *)
(***************************************************************************)
EXTENDS TaskProcessor, TLAPS

Places == {"waiting"} \cup InFlight \cup Over
Stages == Pipeline \cup PermanentBranch \cup Ends
Statuses == {"pending", "completed", "failed"}

TypeOK ==
    /\ stage \in Stages
    /\ article \in [Records -> Places]
    /\ status \in Statuses /\ row \in Statuses
    /\ stored \in BOOLEAN /\ summed \in BOOLEAN /\ cancelled \in BOOLEAN

SomeCancelled == \E r \in Records : article[r] = "cancelled"

\* The coroutines live in one stage.  The stage before the insert of the records
\* is entered without a cancelled one, and nothing is inserted until then.
ArticleInv ==
    /\ NoneLeftBehind
    /\ CancellationRaises
    /\ stage \in {"fetch", "parse", "enrich", "store"} => ~stored
    /\ stage = "store" => ~SomeCancelled

\* What the session has at each stage, and how the Task in memory relates to it.
SessionInv ==
    /\ ReturnedTaskIsStored
    /\ stage \in {"fetch", "parse", "enrich", "store", "summarize"} => status = "pending"
    /\ stage \in {"fetch", "parse", "enrich", "store", "summarize", "update"} => row = "pending"
    /\ stage = "summarize" => stored
    /\ stage = "update" => stored /\ summed /\ status = "completed"
    /\ stage \in PermanentBranch => status = "failed" /\ ~stored
    /\ stage \in {"progress", "progressFailed"} => row = status /\ row # "pending"

CallInv == TypeOK /\ ArticleInv /\ SessionInv

-----------------------------------------------------------------------------
(* The coroutines *)

\* A step of a coroutine is one of the gather, and changes nothing but its place.
LEMMA CoroutineStep ==
    ASSUME TypeOK, NEW r \in Records, ArticleStep(r) \/ BadLink(r)
    PROVE  /\ stage = "enrich"
           /\ \E place \in Places : article' = [article EXCEPT ![r] = place]
           /\ UNCHANGED <<stage, status, row, stored, summed, cancelled>>
<1> USE DEF Goto, sessionVars
<1>1. {"fetching", "storing", "stored", "done", "cancelled"} \subseteq Places
  BY DEF Places, InFlight, Over
<1>2. CASE Begin(r)
  BY <1>1, <1>2 DEF Begin, ArticleStep, BadLink, CancelArticle
<1>3. CASE Extracted(r) \/ StoreStream(r) \/ Keep(r) \/ Swallow(r)
  BY <1>1, <1>3 DEF Extracted, StoreStream, Keep, Swallow, ArticleStep, BadLink
<1>4. CASE CancelArticle(r) \/ BadLink(r)
  BY <1>1, <1>4 DEF CancelArticle, BadLink, ArticleStep
<1>5. ArticleStep(r) => UNCHANGED <<stage, status, row, stored, summed, cancelled>>
  BY DEF ArticleStep
<1> QED
  BY <1>2, <1>3, <1>4, <1>5 DEF ArticleStep, BadLink

LEMMA CoroutineKeeps ==
    ASSUME CallInv, NEW r \in Records, ArticleStep(r) \/ BadLink(r)
    PROVE  CallInv'
<1>1. /\ stage = "enrich"
      /\ \E place \in Places : article' = [article EXCEPT ![r] = place]
      /\ UNCHANGED <<stage, status, row, stored, summed, cancelled>>
  BY CoroutineStep DEF CallInv
<1>2. TypeOK'
  BY <1>1 DEF CallInv, TypeOK
<1>3. ArticleInv'
  BY <1>1 DEF CallInv, ArticleInv, NoneLeftBehind, CancellationRaises
<1>4. SessionInv'
  BY <1>1 DEF CallInv, SessionInv, ReturnedTaskIsStored
<1> QED
  BY <1>2, <1>3, <1>4 DEF CallInv

-----------------------------------------------------------------------------
(* The stages of the call *)

\* The gather is left with every coroutine over, and for the insert of the
\* records with none of them cancelled.
LEMMA LeavingGather ==
    ASSUME CallInv, TaskStep, stage = "enrich"
    PROVE  /\ Gathered
           /\ stage' \in {"store", "raised"}
           /\ stage' = "store" => ~SomeCancelled
BY DEF TaskStep, Proceed, PermanentFailure, StoreRecords, Summarize, UpdateTask, Raise,
   RaiseCancelled, Move, MoveOn, Awaiting, Pipeline, PermanentBranch, MustRaise,
   SomeCancelled

\* The stages follow one another, or lead to "raised"; the articles stay.
LEMMA StageStep ==
    ASSUME CallInv, TaskStep
    PROVE  /\ article' = article
           /\ stage' \in Stages
           /\ stage' = "store" => stage = "enrich"
           /\ stage' = "enrich" => stage = "parse"
           /\ stage' \in {"fetch", "parse"} => stage = "fetch"
BY DEF TaskStep, Proceed, PermanentFailure, StoreRecords, Summarize, UpdateTask, Raise,
   RaiseCancelled, Move, MoveOn, Stages, Pipeline, PermanentBranch, Ends

LEMMA TaskStepKeepsArticles ==
    ASSUME CallInv, TaskStep
    PROVE  ArticleInv'
<1>1. NoneLeftBehind'
  <2>1. stage' # "enrich" => \A r \in Records : article[r] \notin InFlight
    BY LeavingGather DEF CallInv, ArticleInv, NoneLeftBehind, Gathered, Over, InFlight
  <2> QED
    BY <2>1, StageStep DEF NoneLeftBehind
<1>2. stored' # stored => stage = "store" /\ stage' = "summarize"
  BY DEF TaskStep, Proceed, PermanentFailure, StoreRecords, Summarize, UpdateTask, Raise,
     RaiseCancelled, Move, MoveOn, sessionVars
<1>3. CancellationRaises'
  <2>1. stage = "store" => ~SomeCancelled
    BY DEF CallInv, ArticleInv
  <2> QED
    BY <1>2, <2>1, StageStep
       DEF CallInv, TypeOK, ArticleInv, CancellationRaises, SomeCancelled
<1>4. stage' \in {"fetch", "parse", "enrich", "store"} => ~stored'
  BY <1>2, StageStep DEF CallInv, ArticleInv
<1>5. (stage = "store" => ~SomeCancelled)'
  BY LeavingGather, StageStep DEF SomeCancelled
<1> QED
  BY <1>1, <1>3, <1>4, <1>5 DEF ArticleInv

LEMMA TaskStepKeepsSession ==
    ASSUME CallInv, TaskStep
    PROVE  TypeOK' /\ SessionInv'
<1> USE DEF CallInv, TypeOK, SessionInv, ReturnedTaskIsStored, Move, MoveOn, sessionVars,
            Statuses, Pipeline, PermanentBranch
<1>0. stage' \in Stages /\ article' = article
  BY StageStep
<1>1. CASE Proceed
  BY <1>0, <1>1 DEF Proceed
<1>2. CASE PermanentFailure
  BY <1>0, <1>2 DEF PermanentFailure, ArticleInv
<1>3. CASE StoreRecords
  BY <1>0, <1>3 DEF StoreRecords
<1>4. CASE Summarize
  BY <1>0, <1>4 DEF Summarize
<1>5. CASE UpdateTask
  BY <1>0, <1>5 DEF UpdateTask
<1>6. CASE Raise
  BY <1>0, <1>6 DEF Raise, Awaiting
<1>7. CASE RaiseCancelled
  BY <1>0, <1>7 DEF RaiseCancelled, Awaiting
<1> QED
  BY <1>1, <1>2, <1>3, <1>4, <1>5, <1>6, <1>7 DEF TaskStep

-----------------------------------------------------------------------------
(* The invariant *)

LEMMA CallInvInit == Init => CallInv
<1> SUFFICES ASSUME Init PROVE CallInv
  OBVIOUS
<1>1. TypeOK
  BY DEF Init, TypeOK, Stages, Pipeline, Places, Statuses
<1>2. ArticleInv
  BY DEF Init, ArticleInv, NoneLeftBehind, CancellationRaises, InFlight
<1>3. SessionInv
  BY DEF Init, SessionInv, ReturnedTaskIsStored, PermanentBranch
<1> QED
  BY <1>1, <1>2, <1>3 DEF CallInv

LEMMA CallInvNext == CallInv /\ [Next]_vars => CallInv'
<1> SUFFICES ASSUME CallInv, [Next]_vars PROVE CallInv'
  OBVIOUS
<1>1. CASE TaskStep
  BY <1>1, TaskStepKeepsArticles, TaskStepKeepsSession DEF CallInv
<1>2. ASSUME UNCHANGED <<stage, article, status, sessionVars>>, cancelled' \in BOOLEAN
      PROVE  CallInv'
  BY <1>2 DEF CallInv, TypeOK, ArticleInv, SessionInv, NoneLeftBehind, SomeCancelled,
     CancellationRaises, ReturnedTaskIsStored, sessionVars
<1>3. CASE CancelGather
  BY <1>2, <1>3 DEF CancelGather
<1>4. ASSUME NEW r \in Records, ArticleStep(r) \/ BadLink(r) PROVE CallInv'
  BY <1>4, CoroutineKeeps
<1>5. CASE UNCHANGED vars
  BY <1>2, <1>5 DEF vars, CallInv, TypeOK, sessionVars
<1> QED
  BY <1>1, <1>3, <1>4, <1>5 DEF Next

LEMMA CallInvHolds == Spec => []CallInv
<1> QED
  BY CallInvInit, CallInvNext, PTL DEF Spec

-----------------------------------------------------------------------------
(* The theorems *)

\* However many articles a feed has, no coroutine of _fetch_full_contents is under
\* way when the call goes on, returns or raises: the gather waits for all of them.
THEOREM ArticlesOverFirst == Spec => []NoneLeftBehind
<1>1. CallInv => NoneLeftBehind
  BY DEF CallInv, ArticleInv
<1> QED
  BY <1>1, CallInvHolds, PTL

\* A cancellation that only one coroutine noticed keeps the records from being
\* inserted, although gather returns it as a result among others.
THEOREM CancellationNeverLost == Spec => []CancellationRaises
<1>1. CallInv => CancellationRaises
  BY DEF CallInv, ArticleInv
<1> QED
  BY <1>1, CallInvHolds, PTL

\* A row or a Task in memory says completed with records and summaries inserted in the
\* same session, even when the call raises after that; a failed row has none; a task that
\* is returned has the verdict of its row.
THEOREM ReturnedIsStored == Spec => []ReturnedTaskIsStored
<1>1. CallInv => ReturnedTaskIsStored
  BY DEF CallInv, SessionInv
<1> QED
  BY <1>1, CallInvHolds, PTL
=============================================================================
