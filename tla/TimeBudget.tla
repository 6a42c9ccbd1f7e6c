----------------------------- MODULE TimeBudget -----------------------------
(***************************************************************************)
(* The time, in seconds, one UrlWorkflow takes for its stages, against the *)
(* execution timeout it is started with, which config.py derives from the  *)
(* timeouts of the stages.  A stage may take any time up to its limit; an  *)
(* activity that takes longer is tried again.  Whoever executes a stage is *)
(* found at once: no limit covers the wait in a task queue.                *)
(***************************************************************************)
EXTENDS Integers

CONSTANTS
    ActivityTimeout,  \* ACTIVITY_TIMEOUT
    MaxAttempts,      \* MAX_ACTIVITY_RETRIES
    MaxRecords,       \* bound on the records of a task: max_articles
    Durations         \* how long a stage may take, up to its limit

ASSUME TimeoutAssumption == ActivityTimeout \in Nat
ASSUME AttemptAssumption == MaxAttempts \in Nat \ {0}
ASSUME RecordAssumption == MaxRecords \in Nat
ASSUME DurationAssumption == Durations \subseteq Nat

VARIABLES
    stage,    \* the stage of the workflow
    attempt,  \* the attempt of its activity
    records,  \* how many records with a link were parsed
    clock     \* the seconds since the workflow began

vars == <<stage, attempt, records, clock>>

EnrichmentBudget == 300
Margin == 60
FinalizeTimeout == 30
NumActivities == 3

\* The attempts of an activity are forgotten.
BrokenChildTimeout == ActivityTimeout * NumActivities + EnrichmentBudget + Margin

ChildTimeout == ActivityTimeout * MaxAttempts * NumActivities + EnrichmentBudget + Margin

ActivityStages == {"fetch", "parse", "summarize"}
Stages == ActivityStages \cup {"enrich", "finalize", "closed"}

TypeOK ==
    /\ stage \in Stages
    /\ attempt \in 1..MaxAttempts
    /\ records \in 0..MaxRecords
    /\ clock \in Nat

Init ==
    /\ stage = "fetch"
    /\ attempt = 1
    /\ records = 0
    /\ clock = 0

\* A stage ends in time, or at its limit.
Takes(limit) == {d \in Durations : d <= limit} \cup {limit}

EnterStage(s) == stage' = s /\ attempt' = 1

\* The pause before the next attempt: a second, doubled each time, 30 at most.
Interval == IF 2^(attempt - 1) < 30 THEN 2^(attempt - 1) ELSE 30

\* An activity answers, or fails the workflow's pipeline.
After(s) ==
    CASE s = "fetch" -> {"parse", "finalize"}
      [] s = "parse" -> {"enrich", "summarize", "finalize"}
      [] OTHER -> {"finalize"}

ActivityEnds ==
    /\ stage \in ActivityStages
    /\ \E d \in Takes(ActivityTimeout) : clock' = clock + d
    /\ \E s \in After(stage) :
          /\ EnterStage(s)
          /\ IF s = "enrich" THEN records' \in 1..MaxRecords ELSE UNCHANGED records

MayRetry == attempt < MaxAttempts

\* The attempt raises or times out, and the policy has one left.
Retry ==
    /\ stage \in ActivityStages
    /\ MayRetry
    /\ attempt' = attempt + 1
    /\ \E d \in Takes(ActivityTimeout) : clock' = clock + d + Interval
    /\ UNCHANGED <<stage, records>>

EnrichmentTimeout == IF records * 30 < 300 THEN records * 30 ELSE 300

\* The enrichment ends, or its execution timeout ends it.
EnrichmentEnds ==
    /\ stage = "enrich"
    /\ \E d \in Takes(EnrichmentTimeout) : clock' = clock + d
    /\ EnterStage("summarize")
    /\ UNCHANGED records

\* The first attempt of finalize_task ends, with or without an answer.
FinalizeEnds ==
    /\ stage = "finalize"
    /\ \E d \in Takes(FinalizeTimeout) : clock' = clock + d
    /\ EnterStage("closed")
    /\ UNCHANGED records

Next == ActivityEnds \/ Retry \/ EnrichmentEnds \/ FinalizeEnds

Spec == Init /\ [][Next]_vars

-----------------------------------------------------------------------------
\* The execution timeout covers the stages, retries and their pauses included, and
\* the first attempt of finalize_task after them: the server closes no workflow
\* whose activities found a worker at once.
FinalizedInTime == clock <= ChildTimeout
=============================================================================
