----------------------------- MODULE S3Storage -----------------------------
(***************************************************************************)
(* S3Storage: a process has one instance, whose boto3 client is made on    *)
(* first use under a lock, with the bucket created after it.  Callers are  *)
(* coroutines; every call of boto3 runs in a thread and is awaited.  All   *)
(* processes share the one S3 server.                                      *)
(***************************************************************************)
EXTENDS Integers, FiniteSets

CONSTANTS
    Processes,  \* processes that import the storage: API and workers
    Callers,    \* the calls of store, retrieve... made in each process
    S3Faults    \* S3 may refuse requests, callers may be cancelled

ASSUME S3Assumption == S3Faults \in BOOLEAN

VARIABLES
    client,  \* client[p]: self._client is set
    made,    \* made[p]: how often it was set
    lock,    \* lock[p]: the caller that holds self._client_lock, or NoCall
    bucket,  \* the bucket exists
    pc,      \* pc[c]: where call c stands
    upset    \* a call was cancelled or S3 refused one (history)

vars == <<client, made, lock, bucket, pc, upset>>

Calls == Processes \X Callers
NoCall == <<>>
Proc(c) == c[1]

Places == {"start", "locking", "making", "listing", "creating", "sending",
           "done", "failed"}

TypeOK ==
    /\ client \in [Processes -> BOOLEAN]
    /\ made \in [Processes -> Nat]
    /\ lock \in [Processes -> Calls \cup {NoCall}]
    /\ bucket \in BOOLEAN
    /\ pc \in [Calls -> Places]
    /\ upset \in BOOLEAN

Init ==
    /\ client = [p \in Processes |-> FALSE]
    /\ made = [p \in Processes |-> 0]
    /\ lock = [p \in Processes |-> NoCall]
    /\ bucket \in BOOLEAN
    /\ pc = [c \in Calls |-> "start"]
    /\ upset = FALSE

Goto(c, place) == pc' = [pc EXCEPT ![c] = place]
Release(c) == lock' = [lock EXCEPT ![Proc(c)] = NoCall]

\* The first check, without the lock.
FastPath(c) ==
    /\ pc[c] = "start"
    /\ Goto(c, IF client[Proc(c)] THEN "sending" ELSE "locking")
    /\ UNCHANGED <<client, made, lock, bucket, upset>>

\* The second check is left out.
BrokenLock(c) ==
    /\ pc[c] = "locking" /\ lock[Proc(c)] = NoCall
    /\ Goto(c, "making") /\ lock' = [lock EXCEPT ![Proc(c)] = c]
    /\ UNCHANGED <<client, made, bucket, upset>>

\* Under the lock: another caller may have made the client meanwhile.
Lock(c) ==
    /\ pc[c] = "locking" /\ lock[Proc(c)] = NoCall
    /\ IF client[Proc(c)]
       THEN Goto(c, "sending") /\ UNCHANGED lock
       ELSE Goto(c, "making") /\ lock' = [lock EXCEPT ![Proc(c)] = c]
    /\ UNCHANGED <<client, made, bucket, upset>>

\* The lock is given back before the bucket is looked for.
BrokenMakeClient(c) ==
    /\ pc[c] = "making"
    /\ client' = [client EXCEPT ![Proc(c)] = TRUE]
    /\ made' = [made EXCEPT ![Proc(c)] = @ + 1]
    /\ Goto(c, "listing") /\ Release(c)
    /\ UNCHANGED <<bucket, upset>>

\* The client is there for the fast path from now on, its bucket perhaps not.
MakeClient(c) ==
    /\ pc[c] = "making"
    /\ client' = [client EXCEPT ![Proc(c)] = TRUE]
    /\ made' = [made EXCEPT ![Proc(c)] = @ + 1]
    /\ Goto(c, "listing")
    /\ UNCHANGED <<lock, bucket, upset>>

\* _ensure_bucket: look for the bucket ...
ListBuckets(c) ==
    /\ pc[c] = "listing"
    /\ IF bucket
       THEN Goto(c, "sending") /\ Release(c)
       ELSE Goto(c, "creating") /\ UNCHANGED lock
    /\ UNCHANGED <<client, made, bucket, upset>>

\* A bucket that is there already ends the call with its lock held.
BrokenCreateBucket(c) ==
    /\ pc[c] = "creating"
    /\ bucket' = TRUE
    /\ Goto(c, "sending")
    /\ IF bucket THEN UNCHANGED lock ELSE Release(c)
    /\ UNCHANGED <<client, made, upset>>

\* ... and create it.  If another process was faster the error is swallowed.
CreateBucket(c) ==
    /\ pc[c] = "creating"
    /\ bucket' = TRUE
    /\ Goto(c, "sending") /\ Release(c)
    /\ UNCHANGED <<client, made, upset>>

\* An exception of list_buckets or create_bucket is logged and swallowed.
EnsureFails(c) ==
    /\ S3Faults /\ upset' = TRUE
    /\ pc[c] \in {"listing", "creating"}
    /\ Goto(c, "sending") /\ Release(c)
    /\ UNCHANGED <<client, made, bucket>>

\* put_object and get_object need the bucket.
Send(c) ==
    /\ pc[c] = "sending"
    /\ Goto(c, IF bucket THEN "done" ELSE "failed")
    /\ UNCHANGED <<client, made, lock, bucket, upset>>

\* The cancelled caller, or one whose call of boto3 raised, leaves the lock as the
\* exception passes; a request that is with its thread already may still be served.
Cancel(c) ==
    /\ S3Faults /\ upset' = TRUE
    /\ pc[c] \in {"locking", "making", "listing", "creating", "sending"}
    /\ Goto(c, "failed")
    /\ IF lock[Proc(c)] = c THEN Release(c) ELSE UNCHANGED lock
    /\ \/ UNCHANGED bucket
       \/ pc[c] = "creating" /\ bucket' = TRUE
    /\ UNCHANGED <<client, made>>

Step(c) ==
    \/ FastPath(c) \/ Lock(c) \/ MakeClient(c) \/ ListBuckets(c)
    \/ CreateBucket(c) \/ Send(c)

Next == \E c \in Calls : Step(c) \/ EnsureFails(c) \/ Cancel(c)

Spec == Init /\ [][Next]_vars

-----------------------------------------------------------------------------
\* A process sets its client once: callers that came while it was being made get
\* that client, and none replaces it.
MadeOnce == \A p \in Processes : made[p] <= 1

\* Without failures, a client seen with the lock free comes with a bucket: only
\* the fast path, which does not look at the lock, can see the one without the
\* other (store and retrieve in that window meet NoSuchBucket).
ClientMeansBucket ==
    ~upset => \A p \in Processes : client[p] /\ lock[p] = NoCall => bucket

\* The lock is held exactly by the caller that is making the client or its bucket.
LockHeldByMaker ==
    \A c \in Calls : lock[Proc(c)] = c <=> pc[c] \in {"making", "listing", "creating"}
=============================================================================
