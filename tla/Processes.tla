----------------------------- MODULE Processes -----------------------------
(***************************************************************************)
(* The processes: the API and the queue workers.  Each has one event loop, *)
(* one pool of database connections and one S3Storage.  A call is a        *)
(* request or an activity; this module follows what it takes and gives     *)
(* back: the slot of its worker, connections, the S3 client.               *)
(*                                                                         *)
(* A session checks a connection out of the pool at its first statement    *)
(* and returns it at its commit or its end.                                *)
(***************************************************************************)
EXTENDS S3Storage, RecordPages

CONSTANTS
    Workloads,     \* what the calls may be: functions from Calls to kinds
    PoolSize,      \* pool_size + max_overflow
    WorkerSlots,   \* max_concurrent_activities where run_queue_worker sets it
    DefaultSlots   \* what the Temporal SDK takes where it does not

VARIABLES
    kind,     \* kind[c]: the operation c is a call of
    begun,    \* the calls that have begun
    todo,     \* todo[c]: what is left for c to do
    held,     \* held[c]: how many connections c has checked out
    free,     \* free[p]: how many connections the pool of p has left
    refused   \* the calls whose wait for a connection timed out (history)

procVars == <<vars, pageVars, kind, begun, todo, held, free, refused>>
callVars == <<kind, begun, todo, held, free, refused>>

\* What a call does, in order: "get" checks out a connection, "s3" is one call of
\* S3Storage, "page", "insert" and "update" are statements on the records, the
\* last two with their commit; the others are the end or the commit of a session.
\* list_tasks is the one of a job with a pending task; without one it is a get_job.
Program == [
    idle |-> <<>>,
    create_job |-> <<"get", "close">>,
    get_job |-> <<"get", "close">>,
    list_tasks |-> <<"get", "get", "close", "close">>,
    list_records |-> <<"get", "page", "close">>,
    get_record |-> <<"get", "s3", "close">>,
    fetch_url |-> <<"s3">>,
    parse_records |-> <<"get", "s3", "insert">>,
    fetch_article |-> <<"s3", "get", "update">>,
    summarize_records |-> <<"get", "save", "get", "count">>,
    finalize_task |-> <<"get", "save", "get", "count">>]

Ops == {"get", "close", "save", "mark", "count", "s3", "page", "insert", "update"}

\* The job session is opened inside the transaction of the first.
BrokenProgramOf(k) ==
    IF k = "summarize_records" THEN <<"get", "get", "count", "save">> ELSE Program[k]

ProgramOf(k) == Program[k]

\* The task_queue with which the workflows schedule an activity.
QueueOf == [
    fetch_url |-> "fetch", parse_records |-> "parse", fetch_article |-> "enrichment",
    summarize_records |-> "summarize", finalize_task |-> "url-workflow"]
Activities == DOMAIN QueueOf

\* run_queue_worker: what a worker of each queue registers, and how many of them it
\* takes at a time; the worker of UrlWorkflow gives no number of its own.
Registered(queue) ==
    CASE queue = "fetch" -> {"fetch_url"}
      [] queue = "parse" -> {"parse_records"}
      [] queue = "enrichment" -> {"fetch_article"}
      [] queue = "summarize" -> {"summarize_records"}
      [] queue = "url-workflow" -> {"finalize_task"}
      [] OTHER -> {}

SlotsOf(queue) == IF queue = "url-workflow" THEN DefaultSlots ELSE WorkerSlots

\* A worker process serves one queue; the API serves requests only.
OneQueue(load) ==
    \A c, d \in Calls : Proc(c) = Proc(d) /\ "idle" \notin {load[c], load[d]} =>
        IF load[c] \in Activities
        THEN load[d] \in Activities /\ QueueOf[load[c]] = QueueOf[load[d]]
        ELSE load[d] \notin Activities

ASSUME ProcessAssumption ==
    /\ Workloads \subseteq {load \in [Calls -> DOMAIN Program] : OneQueue(load)}
    /\ {PoolSize, WorkerSlots, DefaultSlots} \subseteq Nat \ {0}

ProcTypeOK ==
    /\ TypeOK /\ PagesTypeOK
    /\ kind \in Workloads
    /\ begun \in SUBSET Calls /\ refused \in SUBSET begun
    /\ todo \in [Calls -> Seq(Ops)]
    /\ held \in [Calls -> Nat]
    /\ free \in [Processes -> 0..PoolSize]

ProcInit ==
    /\ Init /\ PagesInit
    /\ kind \in Workloads
    /\ begun = {} /\ refused = {}
    /\ todo = [c \in Calls |-> ProgramOf(kind[c])]
    /\ held = [c \in Calls |-> 0]
    /\ free = [p \in Processes |-> PoolSize]

Over(c) == todo[c] = <<>>
At(c, op) == c \in begun /\ ~Over(c) /\ Head(todo[c]) = op
Active(p) == {c \in begun : Proc(c) = p /\ ~Over(c)}

Goon(c, rest) == todo' = [todo EXCEPT ![c] = rest]
Done(c) == Goon(c, Tail(todo[c]))

\* The connections that are out of the pool of p, by who holds them.
Out(p) == UNION {{c} \X (1..held[c]) : c \in {p} \X Callers}

\* c has n connections more than before.
Take(c, n) ==
    /\ held' = [held EXCEPT ![c] = @ + n]
    /\ free' = [free EXCEPT ![Proc(c)] = @ - n]

-----------------------------------------------------------------------------
\* A request begins at once, an activity when its worker has a slot for it.
Begin(c) ==
    /\ c \notin begun /\ ~Over(c)
    /\ kind[c] \in Activities =>
        /\ kind[c] \in Registered(QueueOf[kind[c]])
        /\ Cardinality(Active(Proc(c))) < SlotsOf(QueueOf[kind[c]])
    /\ begun' = begun \cup {c}
    /\ UNCHANGED <<vars, pageVars, kind, todo, held, free, refused>>

\* A pool that opens one connection after another, whatever its size.
BrokenCheckout(c) ==
    /\ At(c, "get")
    /\ Take(c, 1) /\ Done(c)
    /\ UNCHANGED <<vars, pageVars, kind, begun, refused>>

Checkout(c) ==
    /\ At(c, "get") /\ free[Proc(c)] > 0
    /\ Take(c, 1) /\ Done(c)
    /\ UNCHANGED <<vars, pageVars, kind, begun, refused>>

\* A client of list_records asks again until it has seen a short page.
Close(c) ==
    /\ \E op \in {"close", "save", "mark", "count"} : At(c, op)
    /\ Take(c, -1)
    /\ IF kind[c] = "list_records" /\ more THEN Goon(c, ProgramOf(kind[c])) ELSE Done(c)
    /\ UNCHANGED <<vars, pageVars, kind, begun, refused>>

ReadPage(c) ==
    /\ At(c, "page")
    /\ FetchPage /\ Done(c)
    /\ UNCHANGED <<vars, kind, begun, held, free, refused>>

Write(c) ==
    /\ \/ At(c, "insert") /\ (WriteRows(Records) \/ UNCHANGED pageVars)
       \/ At(c, "update") /\ WriteRows({})
    /\ Take(c, -1) /\ Done(c)
    /\ UNCHANGED <<vars, kind, begun, refused>>

\* Nothing to do: no such row, a settled task, a record without key, a poor article.
Returns(c) ==
    /\ At(c, "page") \/ At(c, "save") \/ (At(c, "s3") /\ pc[c] = "start")
    /\ kind[c] # "fetch_url"
    /\ Take(c, -held[c]) /\ Goon(c, <<>>)
    /\ UNCHANGED <<vars, pageVars, kind, begun, refused>>

S3Step(c) == At(c, "s3") /\ Step(c) /\ UNCHANGED <<pageVars, callVars>>

S3Fault(c) ==
    /\ At(c, "s3")
    /\ EnsureFails(c) \/ Cancel(c)
    /\ UNCHANGED <<pageVars, callVars>>

S3Answers(c) ==
    /\ At(c, "s3") /\ pc[c] = "done"
    /\ Done(c)
    /\ UNCHANGED <<vars, pageVars, kind, begun, held, free, refused>>

\* How c may go on after an exception or a cancellation: with its handler, or with
\* nothing when there is none or the handler fails in its turn.
Handler(c) ==
    CASE kind[c] = "fetch_url" /\ At(c, "s3") -> {<<"get", "mark">>, <<>>}
      [] kind[c] = "get_record" /\ At(c, "s3") -> {<<"close">>, <<>>}
      [] kind[c] = "parse_records" /\ (At(c, "s3") \/ At(c, "insert")) -> {<<"mark">>}
      [] kind[c] = "summarize_records" /\ At(c, "save") -> {<<"mark", "get", "close">>}
      [] kind[c] = "summarize_records" /\ (At(c, "count") \/ todo[c] = <<"get", "count">>) ->
            {<<"get", "mark", "get", "close">>}
      [] OTHER -> {<<>>}

\* A session that is left by an exception is not closed.
BrokenRaise(c) == \E rest \in Handler(c) : Goon(c, rest) /\ UNCHANGED <<held, free>>

\* The handler keeps the session it stands in; the sessions that are left end.
Raise(c) ==
    \E rest \in Handler(c) :
        /\ Goon(c, rest)
        /\ IF rest # <<>> /\ Head(rest) # "get"
           THEN UNCHANGED <<held, free>> ELSE Take(c, -held[c])

S3Raises(c) ==
    /\ At(c, "s3") /\ pc[c] = "failed"
    /\ Raise(c)
    /\ UNCHANGED <<vars, pageVars, kind, begun, refused>>

\* The wait for a connection has no limit.
EndlessWait(c) == At(c, "get") /\ free[Proc(c)] = 0 /\ UNCHANGED procVars

PoolTimeout(c) ==
    /\ At(c, "get") /\ free[Proc(c)] = 0
    /\ Raise(c)
    /\ refused' = refused \cup {c}
    /\ UNCHANGED <<vars, pageVars, kind, begun>>

\* The database or the feed's server refuses, or the worker cancels its activity.
Fails(c) ==
    /\ S3Faults
    /\ c \in begun /\ ~Over(c) /\ (At(c, "s3") => pc[c] = "start")
    /\ Raise(c)
    /\ UNCHANGED <<vars, pageVars, kind, begun, refused>>

Progress(c) ==
    \/ Begin(c) \/ Checkout(c) \/ PoolTimeout(c) \/ Close(c)
    \/ ReadPage(c) \/ Write(c)
    \/ S3Step(c) \/ S3Answers(c) \/ S3Raises(c)

ProcNext == \E c \in Calls : Progress(c) \/ Returns(c) \/ S3Fault(c) \/ Fails(c)

ProcSpec == ProcInit /\ [][ProcNext]_procVars

\* As long as some call can go on, one does; no failure is forced to happen.
ProcFairSpec == ProcSpec /\ WF_procVars(\E c \in Calls : Progress(c))

-----------------------------------------------------------------------------
\* No connection is lost to a pool, or counted twice, whichever way a call ends: it
\* has what its calls do not hold, and a call that is over holds none.
PoolKept ==
    /\ \A p \in Processes : free[p] + Cardinality(Out(p)) = PoolSize
    /\ \A c \in Calls : Over(c) => held[c] = 0

\* With no more slots than connections an activity never waits for a connection in
\* vain: each holds one at a time, handlers and job sessions included.  What the
\* pool may refuse are requests of the API, and finalize_task.
WorkersServed ==
    WorkerSlots <= PoolSize =>
        \A c \in refused : kind[c] \in Activities => kind[c] = "finalize_task"

\* Every call comes to its end: list_tasks requests that hold one connection each
\* and wait for another, and callers whose S3 client is never made, included.
EveryCallEnds == <>(\A c \in Calls : Over(c))
=============================================================================
