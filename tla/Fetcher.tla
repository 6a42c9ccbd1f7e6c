------------------------------ MODULE Fetcher ------------------------------
(***************************************************************************)
(* AioHttpFetcher.fetch: one call, with the time it takes in seconds.  A   *)
(* request is answered, or fails, within RequestTimeout.  The call sleeps  *)
(* between its requests, as long as its own backoff or the server says.    *)
(***************************************************************************)
EXTENDS Integers

CONSTANTS
    MaxRetries,      \* max_retries
    RequestTimeout,  \* timeout_seconds
    BackoffBase,     \* backoff_base
    Latencies,       \* how long a request may take
    RetryAfters      \* the numbers of seconds in the servers' Retry-After headers

ASSUME RetriesAssumption == MaxRetries \in Nat \ {0}
ASSUME TimeAssumption ==
    /\ RequestTimeout \in Nat
    /\ BackoffBase \in 0..5
    /\ Latencies \subseteq 0..RequestTimeout
    /\ RetryAfters \subseteq Nat

VARIABLES
    place,    \* where the call stands
    attempt,  \* the loop's variable
    delay,    \* how long it sleeps
    answer,   \* what the last request was answered: a status, or an exception
    raised,   \* the class of the exception the call ended with
    clock,    \* the seconds since the call began
    hinted    \* the seconds of them slept because a server said so

vars == <<place, attempt, delay, answer, raised, clock, hinted>>

Ends == {"returned", "raised"}

Init ==
    /\ place = "asking"
    /\ attempt = 0
    /\ delay = 0
    /\ answer = "none"
    /\ raised = "none"
    /\ clock = 0
    /\ hinted = 0

MayRetry == attempt < MaxRetries - 1

Sleep(seconds) ==
    /\ place' = "sleeping"
    /\ delay' = seconds
    /\ UNCHANGED raised

Raise(class) ==
    /\ place' = "raised"
    /\ raised' = class
    /\ UNCHANGED delay

\* except Exception: sleep and try again, or leave the loop and raise.
Handle ==
    IF MayRetry THEN Sleep(BackoffBase * 2^attempt) ELSE Raise("RuntimeError")

Answered(what) ==
    /\ place = "asking"
    /\ answer' = what
    /\ \E d \in Latencies : clock' = clock + d
    /\ UNCHANGED attempt

\* Any status but 403, 404, 410 and 429; a server error's body is a body too.
Body ==
    /\ Answered("body")
    /\ place' = "returned"
    /\ UNCHANGED <<delay, raised, hinted>>

\* The exception of a permanent failure is handled like the others.
BrokenPermanent == Answered("permanent") /\ Handle /\ UNCHANGED hinted

\* 403, 404, 410: the handler knows its own exception by its text and lets it pass.
Permanent == Answered("permanent") /\ Raise("RuntimeError") /\ UNCHANGED hinted

\* The first backoff is the second's.
BrokenRateLimited ==
    /\ Answered("rate limited")
    /\ IF MayRetry
       THEN \/ Sleep(5 * 2^(attempt + 1)) /\ UNCHANGED hinted
            \/ \E s \in RetryAfters : Sleep(s) /\ hinted' = hinted + s
       ELSE Handle /\ UNCHANGED hinted

\* 429: sleep as long as Retry-After says, if it is a number, or else a backoff that
\* doubles.  After the last request a ClientResponseError is raised, inside the try
\* block whose handler takes it.
RateLimited ==
    /\ Answered("rate limited")
    /\ IF MayRetry
       THEN \/ Sleep(5 * 2^attempt) /\ UNCHANGED hinted
            \/ \E s \in RetryAfters : Sleep(s) /\ hinted' = hinted + s
       ELSE Handle /\ UNCHANGED hinted

\* The request fails: a connection error, the timeout, a body that cannot be decoded.
RequestFails == Answered("exception") /\ Handle /\ UNCHANGED hinted

\* The loop's variable does not move on.
BrokenWake ==
    /\ place = "sleeping"
    /\ place' = "asking"
    /\ clock' = 0
    /\ UNCHANGED <<attempt, delay, answer, raised, hinted>>

Wake ==
    /\ place = "sleeping"
    /\ place' = "asking"
    /\ attempt' = attempt + 1
    /\ clock' = clock + delay
    /\ UNCHANGED <<delay, answer, raised, hinted>>

\* The activity is cancelled while the call awaits a response or the end of a sleep.
Cancel ==
    /\ place \in {"asking", "sleeping"}
    /\ Raise("CancelledError")
    /\ UNCHANGED <<attempt, answer, clock, hinted>>

Step == Body \/ Permanent \/ RateLimited \/ RequestFails \/ Wake

Next == Step \/ Cancel

Spec == Init /\ [][Next]_vars

\* Requests are answered or time out, and sleeps end.
FairSpec == Spec /\ WF_vars(Step)

-----------------------------------------------------------------------------
\* A call takes no longer than its requests may take, a backoff that doubles from
\* five seconds, and what the servers asked for: nothing is slept after the last
\* request.
PatienceBound ==
    clock <= (attempt + 1) * RequestTimeout + 5 * (2^attempt - 1) + hinted

\* A call that is over has asked as long as it made sense: it gave up on a passing
\* failure only after the last attempt, and on a permanent one at once.
GivesUpInTime ==
    /\ answer = "permanent" => place = "raised"
    /\ place = "raised" /\ raised # "CancelledError" /\ answer # "permanent" =>
          attempt = MaxRetries - 1

\* A call ends, whatever it is answered.
FetchEnds == <>(place \in Ends)
=============================================================================
