------------------------- MODULE TimeBudget_proofs -------------------------
(***************************************************************************)
(* Proof about TimeBudget, for any ACTIVITY_TIMEOUT, number of records and *)
(* durations, and up to four attempts of each activity.                    *)
(***************************************************************************)
EXTENDS TimeBudget, TLAPS

\* The pauses before attempt n of an activity.
Pauses(n) == CASE n = 1 -> 0 [] n = 2 -> 1 [] n = 3 -> 3 [] OTHER -> 7

\* What the attempts before the n-th may take, and what they all may.
Spent(n) == (n - 1) * ActivityTimeout + Pauses(n)
Budget == ActivityTimeout * MaxAttempts + 7

\* The most a stage can find on the clock when it begins.
Before(s) ==
    CASE s = "fetch" -> 0
      [] s = "parse" -> Budget
      [] s = "enrich" -> 2 * Budget
      [] s = "summarize" -> 2 * Budget + EnrichmentBudget
      [] OTHER -> 3 * Budget + EnrichmentBudget

TimeInv ==
    /\ stage \in Stages /\ attempt \in 1..MaxAttempts
    /\ records \in Nat /\ clock \in Nat
    /\ stage \in ActivityStages => clock <= Before(stage) + Spent(attempt)
    /\ stage \in {"enrich", "finalize"} => clock <= Before(stage)
    /\ clock <= 3 * Budget + EnrichmentBudget + FinalizeTimeout

LEMMA TakesAtMost ==
    ASSUME NEW limit \in Nat, NEW d \in Takes(limit)
    PROVE  d \in Nat /\ d <= limit
BY DurationAssumption DEF Takes

\* An attempt more, with the pause before it, and the last one, within the budget.
LEMMA AttemptsFit ==
    ASSUME MaxAttempts <= 4, NEW n \in 1..MaxAttempts
    PROVE  /\ Budget \in Nat /\ Spent(n) \in Nat /\ Spent(1) = 0
           /\ Spent(n) + ActivityTimeout <= Budget
           /\ n < MaxAttempts =>
                LET pause == IF 2^(n - 1) < 30 THEN 2^(n - 1) ELSE 30
                IN  pause \in Nat /\ Spent(n + 1) = Spent(n) + ActivityTimeout + pause
<1> DEFINE T == ActivityTimeout
<1>1. T \in Nat /\ MaxAttempts \in {1, 2, 3, 4} /\ n \in {1, 2, 3, 4} /\ n <= MaxAttempts
  BY TimeoutAssumption, AttemptAssumption
<1>2. T * 1 = T /\ T * 2 = 2 * T /\ T * 3 = 3 * T /\ T * 4 = 4 * T
  BY <1>1
<1>3. n * T <= T * MaxAttempts /\ T * MaxAttempts \in Nat
  BY <1>1, <1>2
<1>4. Spent(1) = 0 /\ Spent(2) = T + 1 /\ Spent(3) = 2 * T + 3 /\ Spent(4) = 3 * T + 7
  BY <1>1 DEF Spent, Pauses
<1>5. 2^0 = 1 /\ 2^1 = 2 /\ 2^2 = 4
  OBVIOUS
<1>6. CASE n = 1
  BY <1>1, <1>3, <1>4, <1>5, <1>6 DEF Budget
<1>7. CASE n = 2
  BY <1>1, <1>3, <1>4, <1>5, <1>7 DEF Budget
<1>8. CASE n = 3
  BY <1>1, <1>3, <1>4, <1>5, <1>8 DEF Budget
<1>9. CASE n = 4
  BY <1>1, <1>3, <1>4, <1>9 DEF Budget
<1> QED
  BY <1>1, <1>6, <1>7, <1>8, <1>9

LEMMA TimeInvNext ==
    ASSUME MaxAttempts <= 4, TimeInv, [Next]_vars
    PROVE  TimeInv'
<1> USE DEF TimeInv, EnrichmentBudget, FinalizeTimeout
<1>1. /\ Budget \in Nat /\ Spent(attempt) \in Nat /\ Spent(1) = 0
      /\ Spent(attempt) + ActivityTimeout <= Budget
      /\ ActivityTimeout \in Nat /\ 1 \in 1..MaxAttempts
  BY AttemptsFit, TimeoutAssumption, AttemptAssumption
<1>2. \A s \in Stages : Before(s) \in Nat
  BY <1>1 DEF Before, Stages, ActivityStages
<1>3. CASE ActivityEnds
  <2>1. PICK d \in Takes(ActivityTimeout) : clock' = clock + d
    BY <1>3 DEF ActivityEnds
  <2>2. d \in Nat /\ d <= ActivityTimeout
    BY <1>1, <2>1, TakesAtMost
  <2>3. /\ stage \in ActivityStages /\ stage' \in After(stage) /\ attempt' = 1
        /\ records' \in Nat
    BY <1>3, RecordAssumption DEF ActivityEnds, EnterStage
  <2>4. clock' \in Nat /\ clock' <= Before(stage) + Budget
    BY <1>1, <1>2, <2>1, <2>2, <2>3
  <2>5. /\ stage' \in Stages /\ stage' # "closed"
        /\ Before(stage) + Budget <= Before(stage')
        /\ Before(stage') <= 3 * Budget + EnrichmentBudget
    BY <1>1, <2>3 DEF After, Before, Stages, ActivityStages
  <2> QED
    BY <1>1, <1>2, <2>3, <2>4, <2>5 DEF Before, Spent, Budget
<1>4. CASE Retry
  <2>1. stage \in ActivityStages /\ attempt < MaxAttempts /\ attempt' = attempt + 1
        /\ UNCHANGED <<stage, records>>
    BY <1>4 DEF Retry, MayRetry
  <2>2. PICK d \in Takes(ActivityTimeout) : clock' = clock + d + Interval
    BY <1>4 DEF Retry
  <2>3. d \in Nat /\ d <= ActivityTimeout
    BY <1>1, <2>2, TakesAtMost
  <2>4. Interval \in Nat /\ Spent(attempt + 1) = Spent(attempt) + ActivityTimeout + Interval
    BY <2>1, AttemptsFit DEF Interval
  <2>5. attempt' \in 1..MaxAttempts
    BY <2>1, AttemptAssumption
  <2>6. clock' \in Nat /\ clock' <= Before(stage) + Spent(attempt')
    BY <1>1, <1>2, <2>1, <2>2, <2>3, <2>4
  <2>7. Spent(attempt') + ActivityTimeout <= Budget /\ Spent(attempt') \in Nat
    BY <2>5, AttemptsFit
  <2>8. Before(stage) + Budget <= 3 * Budget + EnrichmentBudget
    BY <1>1, <2>1 DEF Before, ActivityStages
  <2>9. clock' <= 3 * Budget + EnrichmentBudget + FinalizeTimeout
    BY <1>1, <1>2, <2>6, <2>7, <2>8
  <2> QED
    BY <2>1, <2>5, <2>6, <2>9 DEF Before, Spent, Budget, ActivityStages
<1>5. CASE EnrichmentEnds
  <2>1. EnrichmentTimeout \in Nat /\ EnrichmentTimeout <= 300
    BY DEF EnrichmentTimeout
  <2>2. PICK d \in Takes(EnrichmentTimeout) : clock' = clock + d
    BY <1>5 DEF EnrichmentEnds
  <2>3. d \in Nat /\ d <= 300
    BY <2>1, <2>2, TakesAtMost
  <2>4. stage = "enrich" /\ stage' = "summarize" /\ attempt' = 1 /\ records' = records
    BY <1>5 DEF EnrichmentEnds, EnterStage
  <2> QED
    BY <1>1, <2>2, <2>3, <2>4 DEF Before, Spent, Budget, Stages, ActivityStages
<1>6. CASE FinalizeEnds
  <2>1. PICK d \in Takes(FinalizeTimeout) : clock' = clock + d
    BY <1>6 DEF FinalizeEnds
  <2>2. d \in Nat /\ d <= 30
    BY <2>1, TakesAtMost
  <2>3. stage = "finalize" /\ stage' = "closed" /\ attempt' = 1 /\ records' = records
    BY <1>6 DEF FinalizeEnds, EnterStage
  <2> QED
    BY <1>1, <2>1, <2>2, <2>3 DEF Before, Budget, Stages, ActivityStages
<1>7. CASE UNCHANGED vars
  BY <1>7 DEF vars, Before, Spent, Budget
<1> QED
  BY <1>3, <1>4, <1>5, <1>6, <1>7 DEF Next

\* With up to four attempts for each activity CHILD_WORKFLOW_TIMEOUT leaves room for
\* every stage, the pauses between the attempts included, and a first finalize_task,
\* whatever ACTIVITY_TIMEOUT_SECONDS is set to.
THEOREM FourAttemptsFit ==
    ASSUME MaxAttempts <= 4
    PROVE  Spec => []FinalizedInTime
<1>1. 1 \in 1..MaxAttempts /\ Budget \in Nat /\ Spent(1) = 0
  BY AttemptAssumption, AttemptsFit
<1>2. Init => TimeInv
  BY <1>1 DEF Init, TimeInv, Before, Stages, ActivityStages, EnrichmentBudget, FinalizeTimeout
<1>3. TimeInv /\ [Next]_vars => TimeInv'
  BY TimeInvNext
<1>4. ChildTimeout = 3 * (ActivityTimeout * MaxAttempts) + 360
  BY TimeoutAssumption, AttemptAssumption
     DEF ChildTimeout, NumActivities, EnrichmentBudget, Margin
<1>5. ActivityTimeout * MaxAttempts \in Nat
  BY TimeoutAssumption, AttemptAssumption
<1>6. TimeInv => FinalizedInTime
  BY <1>4, <1>5 DEF TimeInv, FinalizedInTime, Budget, EnrichmentBudget, FinalizeTimeout
<1> QED
  BY <1>2, <1>3, <1>6, PTL DEF Spec
=============================================================================
