--------------------------- MODULE Fetcher_proofs ---------------------------
(***************************************************************************)
(* Proofs about Fetcher, for any number of retries, any latencies and any  *)
(* Retry-After: how long a call takes at most, and when it gives up.       *)
(***************************************************************************)
EXTENDS Fetcher, FiniteSetTheorems, TLAPS

(***************************************************************************)
(* A power of two is the number of subsets of a set, which doubles with    *)
(* every element that is added.                                            *)
(***************************************************************************)
LEMMA SubsetsDouble ==
    ASSUME NEW S, IsFiniteSet(S), NEW x, x \notin S
    PROVE  Cardinality(SUBSET (S \cup {x})) = 2 * Cardinality(SUBSET S)
<1> DEFINE Old == SUBSET S
           All == SUBSET (S \cup {x})
           New == {T \in All : x \in T}
           f == [T \in Old |-> T \cup {x}]
<1>1. IsFiniteSet(Old)
  BY FS_SUBSET
<1>2. f \in Bijection(Old, New)
  <2>1. f \in [Old -> New]
    OBVIOUS
  <2>2. \A T, U \in Old : f[T] = f[U] => T = U
    OBVIOUS
  <2>3. \A U \in New : \E T \in Old : f[T] = U
    <3>1. \A U \in New : U \ {x} \in Old /\ f[U \ {x}] = U
      OBVIOUS
    <3> QED
      BY <3>1
  <2> QED
    BY <2>1, <2>2, <2>3 DEF Bijection, Injection, Surjection, IsInjective
<1>3. IsFiniteSet(New) /\ Cardinality(New) = Cardinality(Old)
  BY <1>1, <1>2, FS_Bijection DEF ExistsBijection
<1>4. Old \cap New = {} /\ All = Old \cup New
  OBVIOUS
<1>5. Cardinality(Old \cup New) = Cardinality(Old) + Cardinality(New) - Cardinality(Old \cap New)
  BY <1>1, <1>3, FS_Union
<1>6. Cardinality(Old) \in Nat /\ Cardinality(Old \cap New) = 0
  BY <1>1, <1>4, FS_CardinalityType, FS_EmptySet
<1> HIDE DEF Old, New, All
<1>7. Cardinality(All) = 2 * Cardinality(Old)
  BY <1>3, <1>4, <1>5, <1>6
<1> QED
  BY <1>7 DEF Old, All

LEMMA PowerDoubles ==
    ASSUME NEW n \in Nat
    PROVE  /\ 2^n \in Nat /\ 2^n >= 1
           /\ 2^(n + 1) = 2 * 2^n
<1>1. /\ IsFiniteSet(1..n) /\ Cardinality(1..n) = n
      /\ IsFiniteSet(1..(n + 1)) /\ Cardinality(1..(n + 1)) = n + 1
  BY FS_Interval
<1>2. 1..(n + 1) = (1..n) \cup {n + 1} /\ n + 1 \notin 1..n
  OBVIOUS
<1>3. Cardinality(SUBSET (1..n)) = 2^n /\ Cardinality(SUBSET (1..(n + 1))) = 2^(n + 1)
  BY <1>1, FS_SUBSET
<1>4. Cardinality(SUBSET (1..(n + 1))) = 2 * Cardinality(SUBSET (1..n))
  BY <1>1, <1>2, SubsetsDouble
<1>5. IsFiniteSet(SUBSET (1..n)) /\ SUBSET (1..n) # {}
  BY <1>1, FS_SUBSET
<1>6. Cardinality(SUBSET (1..n)) \in Nat /\ Cardinality(SUBSET (1..n)) # 0
  BY <1>5, FS_CardinalityType, FS_EmptySet
<1> QED
  BY <1>3, <1>4, <1>6

(***************************************************************************)
(* The call.                                                               *)
(***************************************************************************)
\* What n requests, each with its backoff after it, may take.
Patience(n) == n * RequestTimeout + 5 * (2^n - 1)

\* Before its request an attempt has at most the patience of those before it behind
\* it, and the sleep that follows stays within its own.
TimeInv ==
    /\ attempt \in 0..(MaxRetries - 1)
    /\ clock \in Nat /\ delay \in Nat /\ hinted \in Nat
    /\ place = "asking" => clock <= Patience(attempt) + hinted
    /\ place = "sleeping" => MayRetry /\ clock + delay <= Patience(attempt + 1) + hinted
    /\ PatienceBound

LEMMA PatienceGrows ==
    ASSUME NEW n \in Nat
    PROVE  /\ Patience(n) \in Nat /\ 2^n \in Nat /\ 2^n >= 1
           /\ Patience(n + 1) = Patience(n) + RequestTimeout + 5 * 2^n
           /\ (n + 1) * RequestTimeout + 5 * (2^n - 1) = Patience(n) + RequestTimeout
<1>1. 2^n \in Nat /\ 2^n >= 1 /\ 2^(n + 1) = 2 * 2^n
  BY PowerDoubles
<1>2. (n + 1) * RequestTimeout = n * RequestTimeout + RequestTimeout /\ n * RequestTimeout \in Nat
  BY TimeAssumption
<1> QED
  BY <1>1, <1>2, TimeAssumption DEF Patience

\* Neither backoff is longer than five seconds doubled for each attempt before.
LEMMA BackoffBounded ==
    ASSUME NEW n \in Nat
    PROVE  BackoffBase * 2^n \in Nat /\ BackoffBase * 2^n <= 5 * 2^n
<1>1. 2^n \in Nat
  BY PowerDoubles
<1>2. BackoffBase \in {0, 1, 2, 3, 4, 5}
  BY TimeAssumption
<1> QED
  BY <1>1, <1>2

\* PatienceBound in terms of Patience.
LEMMA BoundAgain ==
    ASSUME NEW n \in Nat, NEW t \in Nat, NEW h \in Nat
    PROVE  t <= (n + 1) * RequestTimeout + 5 * (2^n - 1) + h
              <=> t <= Patience(n) + RequestTimeout + h
<1> DEFINE b == (n + 1) * RequestTimeout + 5 * (2^n - 1)
<1>1. b = Patience(n) + RequestTimeout
  BY PatienceGrows
<1> QED
  BY <1>1

\* The one request an attempt makes is answered, or fails, in time.
LEMMA AnswerInTime ==
    ASSUME TimeInv, NEW what, Answered(what)
    PROVE  /\ attempt' = attempt /\ clock' \in Nat
           /\ clock' <= Patience(attempt) + RequestTimeout + hinted
<1>1. PICK d \in Latencies : clock' = clock + d
  BY DEF Answered
<1>2. d \in Nat /\ d <= RequestTimeout /\ RequestTimeout \in Nat
  BY TimeAssumption
<1>3. attempt \in Nat /\ clock \in Nat /\ hinted \in Nat /\ Patience(attempt) \in Nat
  BY PatienceGrows, RetriesAssumption DEF TimeInv
<1>4. clock <= Patience(attempt) + hinted /\ attempt' = attempt
  BY DEF TimeInv, Answered
<1> QED
  BY <1>1, <1>2, <1>3, <1>4

\* A sleep no longer than the backoff that doubles from five seconds, or than the
\* server asked for, keeps the bound when the call wakes.
LEMMA SleepInTime ==
    ASSUME TimeInv, attempt' = attempt, clock' \in Nat, MayRetry,
           clock' <= Patience(attempt) + RequestTimeout + hinted,
           NEW s \in Nat, Sleep(s),
           NEW m \in Nat, hinted' = hinted + m, s <= 5 * 2^attempt + m
    PROVE  TimeInv'
<1> DEFINE P == Patience(attempt)
           Q == Patience(attempt + 1)
           w == 2^attempt
<1>1. attempt \in Nat /\ hinted \in Nat /\ RequestTimeout \in Nat
  BY RetriesAssumption, TimeAssumption DEF TimeInv
<1>2. P \in Nat /\ w \in Nat /\ w >= 1 /\ Q = P + RequestTimeout + 5 * w
  BY <1>1, PatienceGrows
<1>3. clock' + s <= Q + hinted' /\ clock' <= P + RequestTimeout + hinted'
  <2>1. \A p, q, v, t, h, a \in Nat :
            /\ q = p + RequestTimeout + 5 * v /\ t <= p + RequestTimeout + h
            /\ a <= 5 * v + m
            => t + a <= q + (h + m) /\ t <= p + RequestTimeout + (h + m)
    BY <1>1
  <2>2. Q \in Nat
    BY <1>1, PatienceGrows
  <2>3. s <= 5 * w + m /\ clock' <= P + RequestTimeout + hinted
    OBVIOUS
  <2> HIDE DEF P, Q, w
  <2> QED
    BY <1>1, <1>2, <2>1, <2>2, <2>3
<1>4. PatienceBound'
  BY <1>1, <1>3, BoundAgain DEF PatienceBound
<1>5. place' = "sleeping" /\ delay' = s
  BY DEF Sleep
<1>6. attempt' \in 0..(MaxRetries - 1) /\ delay' \in Nat /\ hinted' \in Nat
  BY <1>1, <1>5 DEF TimeInv
<1>7. MayRetry' /\ Patience(attempt + 1)' = Q
  BY DEF MayRetry, Patience
<1>8. clock' + delay' <= Patience(attempt + 1)' + hinted'
  BY <1>3, <1>5, <1>7
<1> QED
  BY <1>4, <1>5, <1>6, <1>7, <1>8 DEF TimeInv

\* So does a call that is over.
LEMMA EndInTime ==
    ASSUME TimeInv, attempt' = attempt, clock' \in Nat,
           clock' <= Patience(attempt) + RequestTimeout + hinted,
           place' \in Ends, UNCHANGED <<delay, hinted>>
    PROVE  TimeInv'
<1>1. attempt \in Nat /\ hinted \in Nat
  BY RetriesAssumption DEF TimeInv
<1>2. PatienceBound'
  BY <1>1, BoundAgain DEF PatienceBound
<1> QED
  BY <1>2 DEF TimeInv, Ends

LEMMA HandledInTime ==
    ASSUME TimeInv, NEW what, Answered(what), Handle, UNCHANGED hinted
    PROVE  TimeInv'
<1>1. /\ attempt' = attempt /\ clock' \in Nat
      /\ clock' <= Patience(attempt) + RequestTimeout + hinted
  BY AnswerInTime
<1>2. attempt \in Nat /\ hinted \in Nat
  BY RetriesAssumption DEF TimeInv
<1>3. CASE MayRetry
  <2>1. Sleep(BackoffBase * 2^attempt)
    BY <1>3 DEF Handle
  <2>2. /\ BackoffBase * 2^attempt \in Nat
        /\ BackoffBase * 2^attempt <= 5 * 2^attempt + 0
    BY <1>2, BackoffBounded, PowerDoubles
  <2>3. hinted' = hinted + 0
    BY <1>2
  <2> QED
    BY <1>1, <1>3, <2>1, <2>2, <2>3, SleepInTime
<1>4. CASE ~MayRetry
  BY <1>1, <1>4, EndInTime DEF Handle, Raise, Ends
<1> QED
  BY <1>3, <1>4

LEMMA TimeNext == TimeInv /\ [Next]_vars => TimeInv'
<1> SUFFICES ASSUME TimeInv, [Next]_vars PROVE TimeInv'
  OBVIOUS
<1>1. attempt \in Nat /\ hinted \in Nat /\ clock \in Nat /\ delay \in Nat
  BY RetriesAssumption DEF TimeInv
<1>2. CASE Body
  BY <1>2, AnswerInTime, EndInTime DEF Body, Ends
<1>3. CASE Permanent
  BY <1>3, AnswerInTime, EndInTime DEF Permanent, Raise, Ends
<1>4. CASE RequestFails
  BY <1>4, HandledInTime DEF RequestFails
<1>5. CASE RateLimited
  <2>1. /\ attempt' = attempt /\ clock' \in Nat
        /\ clock' <= Patience(attempt) + RequestTimeout + hinted
    BY <1>5, AnswerInTime DEF RateLimited
  <2>2. 2^attempt \in Nat
    BY <1>1, PowerDoubles
  <2>3. CASE MayRetry /\ Sleep(5 * 2^attempt) /\ UNCHANGED hinted
    <3>1. /\ 5 * 2^attempt \in Nat /\ 5 * 2^attempt <= 5 * 2^attempt + 0
          /\ hinted' = hinted + 0
      BY <1>1, <2>2, <2>3
    <3> QED
      BY <2>1, <2>3, <3>1, SleepInTime
  <2>4. ASSUME MayRetry, NEW s \in RetryAfters, Sleep(s), hinted' = hinted + s PROVE TimeInv'
    <3>1. s \in Nat /\ s <= 5 * 2^attempt + s
      BY <2>2, TimeAssumption
    <3> QED
      BY <2>1, <2>4, <3>1, SleepInTime
  <2>5. CASE ~MayRetry
    BY <1>5, <2>5, HandledInTime DEF RateLimited
  <2> QED
    BY <1>5, <2>3, <2>4, <2>5 DEF RateLimited
<1>6. CASE Wake
  <2>1. /\ place = "sleeping" /\ place' = "asking"
        /\ attempt' = attempt + 1 /\ clock' = clock + delay
        /\ UNCHANGED <<delay, hinted>>
    BY <1>6 DEF Wake
  <2>2. MayRetry /\ clock + delay <= Patience(attempt + 1) + hinted
    BY <2>1 DEF TimeInv
  <2>3. Patience(attempt + 1) \in Nat /\ RequestTimeout \in Nat
    BY <1>1, PatienceGrows, TimeAssumption
  <2>4. clock' \in Nat /\ attempt' \in Nat
        /\ clock' <= Patience(attempt') + RequestTimeout + hinted'
    BY <1>1, <2>1, <2>2, <2>3
  <2>5. PatienceBound'
    BY <1>1, <2>1, <2>4, BoundAgain DEF PatienceBound
  <2> QED
    BY <1>1, <2>1, <2>2, <2>4, <2>5, RetriesAssumption DEF TimeInv, MayRetry, Patience
<1>7. CASE Cancel
  <2>1. clock <= Patience(attempt) + RequestTimeout + hinted
    BY <1>1, BoundAgain DEF TimeInv, PatienceBound
  <2> QED
    BY <1>1, <1>7, <2>1, EndInTime DEF Cancel, Raise, Ends
<1>8. CASE UNCHANGED vars
  BY <1>8 DEF vars, TimeInv, PatienceBound, Patience, MayRetry
<1> QED
  BY <1>2, <1>3, <1>4, <1>5, <1>6, <1>7, <1>8 DEF Next, Step

LEMMA TimeInit == Init => TimeInv
<1> SUFFICES ASSUME Init PROVE TimeInv
  OBVIOUS
<1>1. attempt = 0 /\ clock = 0 /\ hinted = 0 /\ delay = 0 /\ place = "asking"
  BY DEF Init
<1>2. Patience(0) \in Nat /\ RequestTimeout \in Nat
  BY PatienceGrows, TimeAssumption
<1>3. PatienceBound
  BY <1>1, <1>2, BoundAgain DEF PatienceBound
<1> QED
  BY <1>1, <1>2, <1>3, RetriesAssumption DEF TimeInv

\* However the servers answer and whatever they ask for, a call takes no longer than
\* its requests may, a backoff that doubles from five seconds, and the hints.
THEOREM BoundedPatience == Spec => []PatienceBound
<1>1. TimeInv => PatienceBound
  BY DEF TimeInv
<1> QED
  BY <1>1, TimeInit, TimeNext, PTL DEF Spec

\* A call gives up on a passing failure only after its last attempt, and at once on a
\* permanent one.
THEOREM GivesUp == Spec => []GivesUpInTime
<1>1. Init => GivesUpInTime
  BY DEF Init, GivesUpInTime
<1>2. TimeInv /\ GivesUpInTime /\ [Next]_vars => GivesUpInTime'
  <2> SUFFICES ASSUME TimeInv, GivesUpInTime, [Next]_vars PROVE GivesUpInTime'
    OBVIOUS
  <2> USE DEF GivesUpInTime
  <2>1. CASE Body
    BY <2>1 DEF Body, Answered
  <2>2. CASE Permanent
    BY <2>2 DEF Permanent, Answered, Raise
  <2>3. ASSUME Handle, attempt' = attempt, answer' # "permanent" PROVE GivesUpInTime'
    BY <2>3, RetriesAssumption DEF Handle, Sleep, Raise, MayRetry, TimeInv
  <2>4. CASE RateLimited
    <3>1. CASE MayRetry
      BY <2>4, <3>1 DEF RateLimited, Answered, Sleep
    <3> QED
      BY <2>3, <2>4, <3>1 DEF RateLimited, Answered
  <2>5. CASE RequestFails
    BY <2>3, <2>5 DEF RequestFails, Answered
  <2>6. CASE Wake
    BY <2>6 DEF Wake
  <2>7. CASE Cancel
    BY <2>7 DEF Cancel, Raise
  <2>8. CASE UNCHANGED vars
    BY <2>8 DEF vars
  <2> QED
    BY <2>1, <2>2, <2>4, <2>5, <2>6, <2>7, <2>8 DEF Next, Step
<1> QED
  BY <1>1, <1>2, TimeInit, TimeNext, PTL DEF Spec
=============================================================================
