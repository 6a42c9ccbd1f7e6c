-------------------------- MODULE Processes_proofs --------------------------
(***************************************************************************)
(* Proofs about S3Storage and Processes, for any processes and callers.    *)
(***************************************************************************)
EXTENDS Processes, FiniteSetTheorems, SequenceTheorems, TLAPS

(***************************************************************************)
(* S3Storage: the lock is held by the one caller that makes the client,    *)
(* the client is made once, and a client that can be seen with the lock    *)
(* free has its bucket.                                                    *)
(***************************************************************************)
\* What _client says while a caller is at work under the lock, and how often it
\* was set.
ClientInv ==
    /\ \A p \in Processes : made[p] = IF client[p] THEN 1 ELSE 0
    /\ \A c \in Calls : pc[c] = "making" => ~client[Proc(c)]

LockInv == TypeOK /\ LockHeldByMaker /\ ClientInv
StorageInv == LockInv /\ ClientMeansBucket

\* A call is not the mark of a free lock.
LEMMA CallIsSome ==
    ASSUME NEW c \in Calls
    PROVE  c # NoCall /\ Proc(c) \in Processes
<1>1. c = <<c[1], c[2]>> /\ c[1] \in Processes
  BY DEF Calls
<1>2. \A x, y : <<x, y>> # << >>
  OBVIOUS
<1> QED
  BY <1>1, <1>2 DEF NoCall, Proc

LEMMA TypeNext == TypeOK /\ [Next]_vars => TypeOK'
<1> SUFFICES ASSUME TypeOK, [Next]_vars PROVE TypeOK'
  OBVIOUS
<1> USE DEF TypeOK
<1>1. ASSUME NEW c \in Calls, Step(c) \/ EnsureFails(c) \/ Cancel(c)
      PROVE  TypeOK'
  <2>1. ASSUME NEW place \in Places, Goto(c, place) PROVE pc' \in [Calls -> Places]
    BY <2>1 DEF Goto
  <2>2. pc' \in [Calls -> Places]
    BY <1>1, <2>1 DEF Step, FastPath, Lock, MakeClient, ListBuckets,
       CreateBucket, Send, EnsureFails, Cancel, Places
  <2>3. client' \in [Processes -> BOOLEAN] /\ bucket' \in BOOLEAN /\ upset' \in BOOLEAN
    BY <1>1, Zenon DEF Step, FastPath, Lock, MakeClient, ListBuckets,
       CreateBucket, Send, EnsureFails, Cancel
  <2>4. made' \in [Processes -> Nat]
    BY <1>1 DEF Step, FastPath, Lock, MakeClient, ListBuckets,
       CreateBucket, Send, EnsureFails, Cancel
  <2>5. lock' \in [Processes -> Calls \cup {NoCall}]
    BY <1>1, CallIsSome DEF Step, FastPath, Lock, MakeClient, ListBuckets,
       CreateBucket, Send, EnsureFails, Cancel, Release
  <2> QED
    BY <2>2, <2>3, <2>4, <2>5
<1>2. CASE UNCHANGED vars
  BY <1>2 DEF vars
<1> QED
  BY <1>1, <1>2 DEF Next

\* The lock passes from nobody to the caller that finds no client, and back when
\* that caller leaves the block, by whatever way.
LEMMA LockNext ==
    ASSUME LockInv, [Next]_vars
    PROVE  LockInv'
<1>t. TypeOK' /\ TypeOK
  BY TypeNext DEF LockInv
<1>1. ASSUME NEW c \in Calls, Step(c) \/ EnsureFails(c) \/ Cancel(c)
      PROVE  LockHeldByMaker' /\ ClientInv'
  <2> USE <1>t, CallIsSome
      DEF LockInv, TypeOK, LockHeldByMaker, ClientInv, Goto, Release
  <2>1. CASE FastPath(c) \/ Send(c)
    BY <2>1 DEF FastPath, Send
  <2>2. CASE Lock(c)
    BY <2>2 DEF Lock
  <2>3. CASE MakeClient(c)
    <3>1. lock[Proc(c)] = c /\ ~client[Proc(c)] /\ made[Proc(c)] = 0
      BY <2>3 DEF MakeClient
    <3>2. LockHeldByMaker'
      BY <2>3 DEF MakeClient
    <3>3. \A d \in Calls : pc'[d] = "making" => Proc(d) # Proc(c)
      BY <2>3, <3>1 DEF MakeClient
    <3> QED
      BY <2>3, <3>1, <3>2, <3>3 DEF MakeClient
  <2>4. CASE ListBuckets(c) \/ CreateBucket(c) \/ EnsureFails(c)
    BY <2>4 DEF ListBuckets, CreateBucket, EnsureFails
  <2>5. CASE Cancel(c)
    BY <2>5 DEF Cancel
  <2> QED
    BY <1>1, <2>1, <2>2, <2>3, <2>4, <2>5 DEF Step
<1>2. CASE UNCHANGED vars
  BY <1>2, <1>t DEF vars, LockInv, LockHeldByMaker, ClientInv
<1> QED
  BY <1>1, <1>2, <1>t DEF Next, LockInv

LEMMA BucketNext ==
    ASSUME StorageInv, [Next]_vars
    PROVE  ClientMeansBucket'
<1> USE CallIsSome
    DEF StorageInv, LockInv, TypeOK, LockHeldByMaker, ClientMeansBucket
<1>1. ASSUME NEW c \in Calls, FastPath(c) \/ Send(c) PROVE ClientMeansBucket'
  BY <1>1 DEF FastPath, Send
<1>2. ASSUME NEW c \in Calls, Lock(c) PROVE ClientMeansBucket'
  BY <1>2 DEF Lock
<1>3. ASSUME NEW c \in Calls, MakeClient(c) PROVE ClientMeansBucket'
  <2>1. lock'[Proc(c)] # NoCall
    BY <1>3 DEF MakeClient
  <2> QED
    BY <1>3, <2>1 DEF MakeClient
<1>4. ASSUME NEW c \in Calls, ListBuckets(c) \/ CreateBucket(c)
      PROVE  ClientMeansBucket'
  BY <1>4 DEF ListBuckets, CreateBucket, Release
<1>5. ASSUME NEW c \in Calls, EnsureFails(c) \/ Cancel(c) PROVE ClientMeansBucket'
  BY <1>5 DEF EnsureFails, Cancel
<1>6. CASE UNCHANGED vars
  BY <1>6 DEF vars
<1> QED
  BY <1>1, <1>2, <1>3, <1>4, <1>5, <1>6 DEF Next, Step

LEMMA StorageInit == Init => StorageInv
<1> SUFFICES ASSUME Init PROVE StorageInv
  OBVIOUS
<1>1. client \in [Processes -> BOOLEAN] /\ bucket \in BOOLEAN /\ upset \in BOOLEAN
  BY Zenon DEF Init
<1>2. TypeOK
  BY <1>1 DEF Init, TypeOK, Places
<1>3. LockHeldByMaker
  BY CallIsSome DEF Init, LockHeldByMaker
<1> QED
  BY <1>2, <1>3 DEF Init, StorageInv, LockInv, ClientInv, ClientMeansBucket

\* The invariant the theorems below are read off from.
THEOREM StorageSafe == Spec => []StorageInv
<1>1. StorageInv /\ [Next]_vars => StorageInv'
  BY LockNext, BucketNext DEF StorageInv
<1> QED
  BY <1>1, StorageInit, PTL DEF Spec

\* Between them, all the callers of a process make one client, however they
\* interleave around the check, the lock and the second check.
THEOREM ClientMadeOnce == Spec => []MadeOnce
<1>1. StorageInv => MadeOnce
  BY DEF StorageInv, LockInv, ClientInv, MadeOnce
<1> QED
  BY <1>1, StorageSafe, PTL

\* While nothing has failed, whoever sees the client and the lock free may count
\* on the bucket.
THEOREM BucketBehindClient == Spec => []ClientMeansBucket
<1>1. StorageInv => ClientMeansBucket
  BY DEF StorageInv
<1> QED
  BY <1>1, StorageSafe, PTL

\* The lock is held by the caller at work under it and by no other, and is not
\* left behind by one that was cancelled or got an exception.
THEOREM LockNeverLeftBehind == Spec => []LockHeldByMaker
<1>1. StorageInv => LockHeldByMaker
  BY DEF StorageInv, LockInv
<1> QED
  BY <1>1, StorageSafe, PTL

(***************************************************************************)
(* The processes use S3Storage: every step of theirs is one of S3Storage,  *)
(* or leaves it alone.                                                     *)
(***************************************************************************)
LEMMA ProcStep == ProcNext => [Next]_vars
<1> SUFFICES ASSUME NEW c \in Calls,
                    Progress(c) \/ Returns(c) \/ S3Fault(c) \/ Fails(c)
             PROVE  [Next]_vars
  BY DEF ProcNext
<1>1. CASE S3Step(c) \/ S3Fault(c)
  BY <1>1 DEF S3Step, S3Fault, Next
<1>2. CASE Returns(c) \/ Fails(c) \/ (Progress(c) /\ ~S3Step(c))
  BY <1>2 DEF Returns, Fails, Progress, Begin, Checkout, PoolTimeout, Close, ReadPage,
     Write, S3Answers, S3Raises
<1> QED
  BY <1>1, <1>2

\* The processes use S3Storage as its specification says it is used, whatever else
\* their calls do and however they end.
THEOREM UsesStorage == ProcSpec => Spec
<1>1. ProcInit => Init
  BY DEF ProcInit
<1>2. [ProcNext]_procVars => [Next]_vars
  BY ProcStep DEF procVars
<1> QED
  BY <1>1, <1>2, PTL DEF ProcSpec, Spec

\* In every process the client is made at most once and its lock is held by the call
\* that makes it; without failures a client that is there has its bucket.
THEOREM StorageSafeInUse ==
    ProcSpec => []MadeOnce /\ []LockHeldByMaker /\ []ClientMeansBucket
<1> QED
  BY UsesStorage, ClientMadeOnce, LockNeverLeftBehind, BucketBehindClient, PTL

(***************************************************************************)
(* The pools: a call stands at one of a few places of its program or of    *)
(* its handlers, and each goes with the connections it holds there.        *)
(***************************************************************************)

\* What a call of each kind has left to do, with the connections it holds.
States == [
    idle |-> {<<<<>>, 0>>},
    create_job |-> {<<<<"get", "close">>, 0>>, <<<<"close">>, 1>>, <<<<>>, 0>>},
    get_job |-> {<<<<"get", "close">>, 0>>, <<<<"close">>, 1>>, <<<<>>, 0>>},
    list_tasks |-> {
        <<<<"get", "get", "close", "close">>, 0>>, <<<<"get", "close", "close">>, 1>>,
        <<<<"close", "close">>, 2>>, <<<<"close">>, 1>>, <<<<>>, 0>>},
    list_records |-> {
        <<<<"get", "page", "close">>, 0>>, <<<<"page", "close">>, 1>>,
        <<<<"close">>, 1>>, <<<<>>, 0>>},
    get_record |-> {
        <<<<"get", "s3", "close">>, 0>>, <<<<"s3", "close">>, 1>>,
        <<<<"close">>, 1>>, <<<<>>, 0>>},
    fetch_url |-> {
        <<<<"s3">>, 0>>, <<<<"get", "mark">>, 0>>, <<<<"mark">>, 1>>, <<<<>>, 0>>},
    parse_records |-> {
        <<<<"get", "s3", "insert">>, 0>>, <<<<"s3", "insert">>, 1>>,
        <<<<"insert">>, 1>>, <<<<"mark">>, 1>>, <<<<>>, 0>>},
    fetch_article |-> {
        <<<<"s3", "get", "update">>, 0>>, <<<<"get", "update">>, 0>>,
        <<<<"update">>, 1>>, <<<<>>, 0>>},
    summarize_records |-> {
        <<<<"get", "save", "get", "count">>, 0>>, <<<<"save", "get", "count">>, 1>>,
        <<<<"get", "count">>, 0>>, <<<<"count">>, 1>>,
        <<<<"mark", "get", "close">>, 1>>, <<<<"get", "close">>, 0>>, <<<<"close">>, 1>>,
        <<<<"get", "mark", "get", "close">>, 0>>, <<<<>>, 0>>},
    finalize_task |-> {
        <<<<"get", "save", "get", "count">>, 0>>, <<<<"save", "get", "count">>, 1>>,
        <<<<"get", "count">>, 0>>, <<<<"count">>, 1>>, <<<<>>, 0>>}]

Stands == \A c \in Calls : <<todo[c], held[c]>> \in States[kind[c]]

Releases == {"close", "save", "mark", "count", "insert", "update"}

\* From a place in the table a call goes on to another of the same kind, whatever it
\* does there.  Handlers that keep a session find it; an activity holds at most one
\* connection, and none when it asks for one; the end holds none.
Follows(k, s, h) ==
    /\ s \in Seq(Ops) /\ h \in Nat
    /\ k \in Activities => h <= 1
    /\ s = <<>> => h = 0
    /\ s # <<>> =>
        /\ Head(s) = "get" => <<Tail(s), h + 1>> \in States[k]
        /\ Head(s) = "get" /\ k \in Activities => h = 0
        /\ Head(s) \in Releases => h >= 1 /\ <<Tail(s), h - 1>> \in States[k]
        /\ Head(s) \in {"page", "s3"} => <<Tail(s), h>> \in States[k]
        /\ k = "get_record" /\ Head(s) = "s3" => h = 1
        /\ k = "list_records" /\ Head(s) \in Releases => h = 1
        /\ k = "parse_records" /\ Head(s) \in {"s3", "insert"} => h = 1

LEMMA PlaceFollows ==
    ASSUME NEW k \in DOMAIN Program, NEW s, NEW h, <<s, h>> \in States[k]
    PROVE  Follows(k, s, h)
<1> USE DEF States, Follows, Ops, Releases, Activities, QueueOf
<1>1. CASE k = "idle"
  BY <1>1
<1>2. CASE k = "create_job"
  <2>1. /\ Follows("create_job", <<"get", "close">>, 0)
        /\ Follows("create_job", <<"close">>, 1)
        /\ Follows("create_job", <<>>, 0)
    OBVIOUS
  <2> HIDE DEF Follows
  <2> QED
    BY <1>2, <2>1
<1>3. CASE k = "get_job"
  <2>1. /\ Follows("get_job", <<"get", "close">>, 0)
        /\ Follows("get_job", <<"close">>, 1)
        /\ Follows("get_job", <<>>, 0)
    OBVIOUS
  <2> HIDE DEF Follows
  <2> QED
    BY <1>3, <2>1
<1>4. CASE k = "list_tasks"
  <2>1. /\ Follows("list_tasks", <<"get", "get", "close", "close">>, 0)
        /\ Follows("list_tasks", <<"get", "close", "close">>, 1)
        /\ Follows("list_tasks", <<"close", "close">>, 2)
        /\ Follows("list_tasks", <<"close">>, 1)
        /\ Follows("list_tasks", <<>>, 0)
    OBVIOUS
  <2> HIDE DEF Follows
  <2> QED
    BY <1>4, <2>1
<1>5. CASE k = "list_records"
  <2>1. /\ Follows("list_records", <<"get", "page", "close">>, 0)
        /\ Follows("list_records", <<"page", "close">>, 1)
        /\ Follows("list_records", <<"close">>, 1)
        /\ Follows("list_records", <<>>, 0)
    OBVIOUS
  <2> HIDE DEF Follows
  <2> QED
    BY <1>5, <2>1
<1>6. CASE k = "get_record"
  <2>1. /\ Follows("get_record", <<"get", "s3", "close">>, 0)
        /\ Follows("get_record", <<"s3", "close">>, 1)
        /\ Follows("get_record", <<"close">>, 1)
        /\ Follows("get_record", <<>>, 0)
    OBVIOUS
  <2> HIDE DEF Follows
  <2> QED
    BY <1>6, <2>1
<1>7. CASE k = "fetch_url"
  <2>1. /\ Follows("fetch_url", <<"s3">>, 0)
        /\ Follows("fetch_url", <<"get", "mark">>, 0)
        /\ Follows("fetch_url", <<"mark">>, 1)
        /\ Follows("fetch_url", <<>>, 0)
    OBVIOUS
  <2> HIDE DEF Follows
  <2> QED
    BY <1>7, <2>1
<1>8. CASE k = "parse_records"
  <2>1. /\ Follows("parse_records", <<"get", "s3", "insert">>, 0)
        /\ Follows("parse_records", <<"s3", "insert">>, 1)
        /\ Follows("parse_records", <<"insert">>, 1)
        /\ Follows("parse_records", <<"mark">>, 1)
        /\ Follows("parse_records", <<>>, 0)
    OBVIOUS
  <2> HIDE DEF Follows
  <2> QED
    BY <1>8, <2>1
<1>9. CASE k = "fetch_article"
  <2>1. /\ Follows("fetch_article", <<"s3", "get", "update">>, 0)
        /\ Follows("fetch_article", <<"get", "update">>, 0)
        /\ Follows("fetch_article", <<"update">>, 1)
        /\ Follows("fetch_article", <<>>, 0)
    OBVIOUS
  <2> HIDE DEF Follows
  <2> QED
    BY <1>9, <2>1
<1>10. CASE k = "summarize_records"
  <2>1. /\ Follows("summarize_records", <<"get", "save", "get", "count">>, 0)
        /\ Follows("summarize_records", <<"save", "get", "count">>, 1)
        /\ Follows("summarize_records", <<"get", "count">>, 0)
        /\ Follows("summarize_records", <<"count">>, 1)
        /\ Follows("summarize_records", <<"mark", "get", "close">>, 1)
        /\ Follows("summarize_records", <<"get", "close">>, 0)
        /\ Follows("summarize_records", <<"close">>, 1)
        /\ Follows("summarize_records", <<"get", "mark", "get", "close">>, 0)
        /\ Follows("summarize_records", <<>>, 0)
    OBVIOUS
  <2> HIDE DEF Follows
  <2> QED
    BY <1>10, <2>1
<1>11. CASE k = "finalize_task"
  <2>1. /\ Follows("finalize_task", <<"get", "save", "get", "count">>, 0)
        /\ Follows("finalize_task", <<"save", "get", "count">>, 1)
        /\ Follows("finalize_task", <<"get", "count">>, 0)
        /\ Follows("finalize_task", <<"count">>, 1)
        /\ Follows("finalize_task", <<>>, 0)
    OBVIOUS
  <2> HIDE DEF Follows
  <2> QED
    BY <1>11, <2>1
<1> QED
  BY <1>1, <1>2, <1>3, <1>4, <1>5, <1>6, <1>7, <1>8, <1>9, <1>10, <1>11 DEF Program

LEMMA ProgramStands ==
    ASSUME NEW k \in DOMAIN Program
    PROVE  <<ProgramOf(k), 0>> \in States[k] /\ <<<<>>, 0>> \in States[k]
BY DEF Program, ProgramOf, States

\* The pools and what the calls hold of them.
PoolInv ==
    /\ kind \in Workloads
    /\ begun \in SUBSET Calls
    /\ todo \in [Calls -> Seq(Ops)]
    /\ held \in [Calls -> Nat]
    /\ free \in [Processes -> Nat]
    /\ Stands
    /\ \A c \in Calls \ begun : held[c] = 0
    /\ \A p \in Processes :
        IsFiniteSet(Out(p)) /\ free[p] + Cardinality(Out(p)) = PoolSize

\* Call c goes on to rest, with n connections more.
Moves(c, rest, n) ==
    /\ ~Over(c)
    /\ Goon(c, rest) /\ Take(c, n)
    /\ <<rest, held[c] + n>> \in States[kind[c]]
    /\ n <= 1 /\ (n = 1 => free[Proc(c)] > 0)

LEMMA KindOfCall ==
    ASSUME PoolInv, NEW c \in Calls
    PROVE  /\ kind[c] \in DOMAIN Program
           /\ Proc(c) \in Processes
           /\ Follows(kind[c], todo[c], held[c])
<1>1. kind[c] \in DOMAIN Program
  BY ProcessAssumption DEF PoolInv
<1> QED
  BY <1>1, CallIsSome, PlaceFollows DEF PoolInv, Stands

LEMMA RaiseMoves ==
    ASSUME PoolInv, NEW c \in begun, ~Over(c), Raise(c)
    PROVE  \E rest : \E n \in Int : Moves(c, rest, n)
<1> DEFINE k == kind[c]
           s == todo[c]
           h == held[c]
<1>1. c \in Calls /\ h \in Nat /\ held \in [Calls -> Nat] /\ free \in [Processes -> Nat]
  BY DEF PoolInv
<1>2. Follows(k, s, h) /\ k \in DOMAIN Program /\ Proc(c) \in Processes
  BY <1>1, KindOfCall
<1>3. PICK rest \in Handler(c) :
        /\ Goon(c, rest)
        /\ IF rest # <<>> /\ Head(rest) # "get"
           THEN UNCHANGED <<held, free>> ELSE Take(c, -held[c])
  BY DEF Raise
<1>4. CASE rest = <<>>
  <2>1. h + (-h) = 0 /\ -h \in Int /\ -h <= 0
    BY <1>1
  <2>2. <<rest, h + (-h)>> \in States[k]
    BY <1>2, <1>4, <2>1, ProgramStands
  <2>3. Moves(c, rest, -h)
    BY <1>1, <1>3, <1>4, <2>1, <2>2 DEF Moves
  <2> QED
    BY <2>1, <2>3
<1>5. CASE rest # <<>> /\ Head(rest) = "get"
  <2>1. \/ k = "fetch_url" /\ rest = <<"get", "mark">>
        \/ k = "summarize_records" /\ rest = <<"get", "mark", "get", "close">>
    BY <1>3, <1>5 DEF Handler
  <2>2. h + (-h) = 0 /\ -h \in Int /\ -h <= 0
    BY <1>1
  <2>3. <<rest, h + (-h)>> \in States[k]
    BY <2>1, <2>2 DEF States
  <2>4. Moves(c, rest, -h)
    BY <1>1, <1>3, <1>5, <2>2, <2>3 DEF Moves
  <2> QED
    BY <2>2, <2>4
<1>6. CASE rest # <<>> /\ Head(rest) # "get"
  <2>1. \/ k = "get_record" /\ Head(s) = "s3" /\ rest = <<"close">>
        \/ k = "parse_records" /\ Head(s) \in {"s3", "insert"} /\ rest = <<"mark">>
        \/ k = "summarize_records" /\ Head(s) = "save" /\ rest = <<"mark", "get", "close">>
    BY <1>3, <1>6 DEF Handler, At
  <2>2. h = 1 /\ <<rest, 1>> \in States[k]
    <3>1. h = 1
      BY <1>2, <2>1 DEF Over, Follows, Releases, Activities, QueueOf
    <3>2. <<rest, 1>> \in States[k]
      BY <2>1 DEF States
    <3> QED
      BY <3>1, <3>2
  <2>3. Take(c, 0)
    BY <1>1, <1>2, <1>3, <1>6 DEF Take
  <2>4. Moves(c, rest, 0)
    BY <1>3, <2>2, <2>3 DEF Moves
  <2> QED
    BY <2>4
<1> QED
  BY <1>4, <1>5, <1>6

\* Every step either begins a call, or is one of S3Storage, or moves one call.
LEMMA StepMoves ==
    ASSUME PoolInv, NEW c \in Calls,
           Progress(c) \/ Returns(c) \/ S3Fault(c) \/ Fails(c)
    PROVE  \/ Begin(c)
           \/ UNCHANGED callVars
           \/ /\ c \in begun /\ UNCHANGED <<kind, begun>>
              /\ \E rest : \E n \in Int : Moves(c, rest, n)
<1> DEFINE k == kind[c]
           s == todo[c]
           h == held[c]
           Moved == \E rest : \E n \in Int : Moves(c, rest, n)
<1>1. h \in Nat /\ held \in [Calls -> Nat] /\ free \in [Processes -> Nat]
  BY DEF PoolInv
<1>2. Follows(k, s, h) /\ k \in DOMAIN Program /\ Proc(c) \in Processes
  BY <1>1, KindOfCall
<1>3. CASE S3Step(c) \/ S3Fault(c)
  BY <1>3 DEF S3Step, S3Fault
<1>4. CASE Checkout(c)
  <2>1. <<Tail(s), h + 1>> \in States[k] /\ c \in begun
    BY <1>2, <1>4 DEF Checkout, At, Over, Follows
  <2>2. Moves(c, Tail(s), 1)
    BY <1>4, <2>1 DEF Checkout, At, Done, Moves
  <2> QED
    BY <1>4, <2>1, <2>2 DEF Checkout
<1>5. CASE Close(c)
  <2>1. c \in begun /\ s # <<>> /\ Head(s) \in Releases
    BY <1>5 DEF Close, At, Over, Releases
  <2>2. h >= 1 /\ <<Tail(s), h - 1>> \in States[k]
    BY <1>2, <2>1 DEF Follows
  <2>3. CASE k = "list_records" /\ more
    <3>1. h = 1
      BY <1>2, <2>1, <2>3 DEF Follows
    <3>2. <<ProgramOf(k), h + (-1)>> \in States[k]
      BY <1>2, <3>1, ProgramStands
    <3>3. Moves(c, ProgramOf(k), -1)
      BY <1>5, <2>3, <3>2 DEF Close, At, Moves
    <3> QED
      BY <1>5, <2>1, <3>3 DEF Close
  <2>4. CASE ~(k = "list_records" /\ more)
    <3>1. <<Tail(s), h + (-1)>> \in States[k]
      BY <1>1, <2>2
    <3>2. Moves(c, Tail(s), -1)
      BY <1>5, <2>4, <3>1 DEF Close, At, Done, Moves
    <3> QED
      BY <1>5, <2>1, <3>2 DEF Close
  <2> QED
    BY <2>3, <2>4
<1>6. CASE Write(c)
  <2>1. c \in begun /\ s # <<>> /\ Head(s) \in Releases
    BY <1>6 DEF Write, At, Over, Releases
  <2>2. <<Tail(s), h + (-1)>> \in States[k]
    BY <1>1, <1>2, <2>1 DEF Follows
  <2>3. Moves(c, Tail(s), -1)
    BY <1>6, <2>2 DEF Write, At, Done, Moves
  <2> QED
    BY <1>6, <2>1, <2>3 DEF Write
<1>7. CASE ReadPage(c) \/ S3Answers(c)
  <2>1. c \in begun /\ s # <<>> /\ Head(s) \in {"page", "s3"}
    BY <1>7 DEF ReadPage, S3Answers, At, Over
  <2>2. <<Tail(s), h + 0>> \in States[k]
    <3>1. <<Tail(s), h>> \in States[k]
      BY <1>2, <2>1 DEF Follows
    <3>2. h + 0 = h
      BY <1>1
    <3> QED
      BY <3>1, <3>2
  <2>3. Take(c, 0)
    BY <1>1, <1>2, <1>7 DEF Take, ReadPage, S3Answers
  <2>4. ~Over(c) /\ Goon(c, Tail(s)) /\ UNCHANGED <<kind, begun>>
    BY <1>7 DEF ReadPage, S3Answers, At, Done
  <2>5. Moves(c, Tail(s), 0)
    BY <2>2, <2>3, <2>4 DEF Moves
  <2> QED
    BY <2>1, <2>4, <2>5
<1>8. CASE Returns(c)
  <2>1. h + (-h) = 0 /\ -h \in Int /\ -h <= 0
    BY <1>1
  <2>2. <<<<>>, h + (-h)>> \in States[k]
    BY <1>2, <2>1, ProgramStands
  <2>3. Moves(c, <<>>, -h)
    BY <1>8, <2>1, <2>2 DEF Returns, At, Moves
  <2> QED
    BY <1>8, <2>1, <2>3 DEF Returns, At
<1>9. CASE S3Raises(c) \/ PoolTimeout(c) \/ Fails(c)
  <2>1. c \in begun /\ ~Over(c) /\ Raise(c) /\ UNCHANGED <<kind, begun>>
    BY <1>9 DEF S3Raises, PoolTimeout, Fails, At
  <2> QED
    BY <2>1, RaiseMoves
<1> QED
  BY <1>3, <1>4, <1>5, <1>6, <1>7, <1>8, <1>9 DEF Progress

LEMMA OutOf ==
    ASSUME NEW p
    PROVE  \A x : x \in Out(p) <=>
              \E c \in {p} \X Callers : \E i \in 1..held[c] : x = <<c, i>>
BY DEF Out

LEMMA OutOfNext ==
    ASSUME NEW p
    PROVE  \A x : x \in Out(p)' <=>
              \E c \in {p} \X Callers : \E i \in 1..held'[c] : x = <<c, i>>
BY DEF Out

LEMMA OneMore ==
    ASSUME NEW S, NEW x, IsFiniteSet(S), x \notin S
    PROVE  IsFiniteSet(S \cup {x}) /\ Cardinality(S \cup {x}) = Cardinality(S) + 1
BY FS_AddElement

LEMMA PairsWith ==
    ASSUME NEW x, NEW S, IsFiniteSet(S)
    PROVE  IsFiniteSet({x} \X S) /\ Cardinality({x} \X S) = Cardinality(S)
<1>1. IsFiniteSet({x}) /\ Cardinality({x}) = 1
  BY FS_Singleton
<1>2. IsFiniteSet({x} \X S) /\ Cardinality({x} \X S) = 1 * Cardinality(S)
  BY <1>1, FS_Product
<1>3. Cardinality(S) \in Nat
  BY FS_CardinalityType
<1> QED
  BY <1>2, <1>3

LEMMA SomeLess ==
    ASSUME NEW S, NEW T \in SUBSET S, IsFiniteSet(S)
    PROVE  IsFiniteSet(S \ T) /\ Cardinality(S \ T) = Cardinality(S) - Cardinality(T)
<1>1. S \cap T = T
  OBVIOUS
<1> QED
  BY <1>1, FS_Difference

\* Taking a connection adds it to those that are out of its pool, giving some back
\* removes them, and the other pools do not notice.
LEMMA TakeOut ==
    ASSUME NEW c \in Calls, NEW n \in Int, n <= 1,
           held \in [Calls -> Nat], held[c] + n \in Nat,
           Take(c, n),
           NEW p \in Processes, IsFiniteSet(Out(p))
    PROVE  /\ IsFiniteSet(Out(p)')
           /\ Cardinality(Out(p)') =
                Cardinality(Out(p)) + (IF p = Proc(c) THEN n ELSE 0)
<1> DEFINE h == held[c]
<1>1. /\ c \in {Proc(c)} \X Callers
      /\ \A d \in {p} \X Callers : d \in Calls /\ Proc(d) = p
      /\ \A d \in Calls : held'[d] = IF d = c THEN h + n ELSE held[d]
      /\ h \in Nat
  BY DEF Calls, Proc, Take
<1>2. CASE p # Proc(c)
  <2>1. \A d \in {p} \X Callers : held'[d] = held[d]
    BY <1>1, <1>2
  <2>2. \A x : x \in Out(p)' <=> x \in Out(p)
    BY <2>1, OutOf, OutOfNext
  <2>3. Out(p)' = Out(p)
    BY <2>2
  <2> QED
    BY <1>2, <2>3, FS_CardinalityType
<1>3. CASE p = Proc(c) /\ n = 1
  <2>1. \A x : x \in Out(p)' <=> x \in Out(p) \/ x = <<c, h + 1>>
    BY <1>1, <1>3, OutOf, OutOfNext
  <2>2. <<c, h + 1>> \notin Out(p)
    BY <1>1, OutOf
  <2>3. Out(p)' = Out(p) \cup {<<c, h + 1>>}
    BY <2>1
  <2>4. IsFiniteSet(Out(p)') /\ Cardinality(Out(p)') = Cardinality(Out(p)) + 1
    BY <2>2, <2>3, OneMore
  <2> QED
    BY <1>3, <2>4
<1>4. CASE p = Proc(c) /\ n <= 0
  <2> DEFINE Back == {c} \X (h + n + 1..h)
  <2>1. \A x : x \in Out(p)' <=> x \in Out(p) /\ x \notin Back
    BY <1>1, <1>4, OutOf, OutOfNext
  <2>2. Back \in SUBSET Out(p)
    BY <1>1, <1>4, OutOf
  <2>3. IsFiniteSet(h + n + 1..h) /\ Cardinality(h + n + 1..h) = -n
    <3>1. h + n + 1 \in Int /\ h \in Int /\ h - (h + n + 1) + 1 = -n
      BY <1>1
    <3>2. h + n + 1 > h <=> -n = 0
      BY <1>1, <1>4
    <3> HIDE DEF h
    <3> QED
      BY <3>1, <3>2, FS_Interval
  <2>5. Cardinality(Back) = -n
    BY <2>3, PairsWith
  <2>6. Out(p)' = Out(p) \ Back
    BY <2>1
  <2> HIDE DEF Back
  <2>7. /\ IsFiniteSet(Out(p) \ Back)
        /\ Cardinality(Out(p) \ Back) = Cardinality(Out(p)) - Cardinality(Back)
    BY <2>2, SomeLess
  <2>8. Cardinality(Out(p)) \in Nat
    BY FS_CardinalityType
  <2> QED
    BY <1>4, <2>5, <2>6, <2>7, <2>8
<1> QED
  BY <1>2, <1>3, <1>4

LEMMA PoolInit == ProcInit => PoolInv
<1> SUFFICES ASSUME ProcInit PROVE PoolInv
  OBVIOUS
<1>1. /\ kind \in Workloads /\ begun = {}
      /\ todo = [c \in Calls |-> ProgramOf(kind[c])]
      /\ held = [c \in Calls |-> 0]
      /\ free = [p \in Processes |-> PoolSize]
  BY DEF ProcInit
<1>2. PoolSize \in Nat /\ kind \in [Calls -> DOMAIN Program]
  BY <1>1, ProcessAssumption
<1>3. Stands
  BY <1>1, <1>2, ProgramStands DEF Stands
<1>4. todo \in [Calls -> Seq(Ops)]
  <2>1. \A c \in Calls : todo[c] \in Seq(Ops)
    BY <1>2, <1>3, PlaceFollows DEF Stands, Follows
  <2> QED
    BY <1>1, <2>1
<1>5. ASSUME NEW p \in Processes
      PROVE  IsFiniteSet(Out(p)) /\ free[p] + Cardinality(Out(p)) = PoolSize
  <2>1. \A d \in {p} \X Callers : held[d] = 0
    BY <1>1, <1>5 DEF Calls
  <2>2. Out(p) = {}
    BY <2>1, OutOf
  <2> QED
    BY <1>1, <1>2, <2>2, FS_EmptySet
<1>6. begun \in SUBSET Calls /\ held \in [Calls -> Nat] /\ free \in [Processes -> Nat]
  BY <1>1, <1>2
<1> QED
  BY <1>1, <1>3, <1>4, <1>5, <1>6 DEF PoolInv

LEMMA MoveKeeps ==
    ASSUME PoolInv, NEW c \in begun, UNCHANGED <<kind, begun>>,
           NEW rest, NEW n \in Int, Moves(c, rest, n)
    PROVE  PoolInv'
<1> USE DEF PoolInv
<1>1. c \in Calls /\ kind[c] \in DOMAIN Program /\ Proc(c) \in Processes
  BY KindOfCall
<1>2. Follows(kind[c], rest, held[c] + n)
  BY <1>1, PlaceFollows DEF Moves
<1>3. rest \in Seq(Ops) /\ held[c] + n \in Nat
  BY <1>2 DEF Follows
<1>4. todo' \in [Calls -> Seq(Ops)] /\ held' \in [Calls -> Nat]
  BY <1>1, <1>3 DEF Moves, Goon, Take
<1>5. Stands'
  BY <1>1 DEF Stands, Moves, Goon, Take
<1>6. \A d \in Calls \ begun : held'[d] = 0
  BY <1>1 DEF Moves, Take
<1>7. ASSUME NEW p \in Processes
      PROVE  /\ IsFiniteSet(Out(p)') /\ free'[p] + Cardinality(Out(p)') = PoolSize
             /\ free'[p] \in Nat
  <2>1. /\ IsFiniteSet(Out(p)')
        /\ Cardinality(Out(p)') = Cardinality(Out(p)) + (IF p = Proc(c) THEN n ELSE 0)
    BY <1>1, <1>3, TakeOut DEF Moves
  <2>2. free'[p] = free[p] - (IF p = Proc(c) THEN n ELSE 0)
    BY <1>1 DEF Moves, Take
  <2>3. Cardinality(Out(p)) \in Nat /\ free[p] \in Nat
    BY FS_CardinalityType
  <2>4. n <= 1 /\ (n = 1 => free[Proc(c)] > 0)
    BY DEF Moves
  <2> QED
    BY <2>1, <2>2, <2>3, <2>4
<1>8. free' \in [Processes -> Nat]
  BY <1>1, <1>7 DEF Moves, Take
<1> QED
  BY <1>4, <1>5, <1>6, <1>7, <1>8

LEMMA PoolRests ==
    ASSUME PoolInv, UNCHANGED <<kind, todo, held, free>>,
           begun' \in SUBSET Calls, begun \subseteq begun'
    PROVE  PoolInv'
<1>1. \A p : Out(p)' = Out(p)
  BY DEF Out
<1>2. Stands'
  BY DEF PoolInv, Stands
<1> QED
  BY <1>1, <1>2 DEF PoolInv

LEMMA PoolNext == PoolInv /\ [ProcNext]_procVars => PoolInv'
<1> SUFFICES ASSUME PoolInv, [ProcNext]_procVars PROVE PoolInv'
  OBVIOUS
<1>1. CASE UNCHANGED callVars
  BY <1>1, PoolRests DEF callVars, PoolInv
<1>2. ASSUME NEW c \in Calls, Begin(c) PROVE PoolInv'
  BY <1>2, PoolRests DEF Begin, PoolInv
<1>3. CASE ProcNext
  BY <1>1, <1>2, <1>3, StepMoves, MoveKeeps DEF ProcNext
<1> QED
  BY <1>1, <1>3 DEF procVars, callVars

\* Whichever way calls end, by an answer, an exception, a refusal of the pool or a
\* cancellation, every connection is in its pool or held by one call, and those of a
\* call that is over are back.
THEOREM NoConnectionLost == ProcSpec => []PoolKept
<1>1. PoolInv => PoolKept
  <2> SUFFICES ASSUME PoolInv PROVE PoolKept
    OBVIOUS
  <2>1. \A c \in Calls : Over(c) => held[c] = 0
    BY KindOfCall DEF Follows, Over
  <2> QED
    BY <2>1 DEF PoolInv, PoolKept
<1> QED
  BY <1>1, PoolInit, PoolNext, PTL DEF ProcSpec

-----------------------------------------------------------------------------
\* A worker has no more activities at a time than it has slots.
SlotsKept ==
    \A c \in Calls : kind[c] \in Activities =>
        Cardinality(Active(Proc(c))) <= SlotsOf(QueueOf[kind[c]])

SlotInv == IsFiniteSet(begun) /\ SlotsKept

LEMMA IdleDoesNothing ==
    ASSUME PoolInv, NEW c \in Calls, kind[c] = "idle"
    PROVE  Over(c) /\ held[c] = 0
<1>1. \A s, h : <<s, h>> \in States["idle"] => s = <<>> /\ h = 0
  BY DEF States
<1> QED
  BY <1>1 DEF PoolInv, Stands, Over

\* Calls of one process that do anything are all requests, or activities of one queue.
LEMMA SameQueue ==
    ASSUME PoolInv, NEW c \in Calls, NEW d \in Calls, Proc(c) = Proc(d),
           kind[c] \in Activities, kind[d] # "idle"
    PROVE  kind[d] \in Activities /\ QueueOf[kind[d]] = QueueOf[kind[c]]
<1>1. OneQueue(kind) /\ kind[c] # "idle"
  BY ProcessAssumption DEF PoolInv, Activities, QueueOf
<1> QED
  BY <1>1 DEF OneQueue

LEMMA SlotsOfQueue ==
    ASSUME NEW k \in Activities
    PROVE  /\ SlotsOf(QueueOf[k]) \in Nat
           /\ k # "finalize_task" => SlotsOf(QueueOf[k]) = WorkerSlots
BY ProcessAssumption DEF SlotsOf, QueueOf, Activities

LEMMA SlotNext == PoolInv /\ SlotInv /\ [ProcNext]_procVars => SlotInv'
<1> SUFFICES ASSUME PoolInv, SlotInv, [ProcNext]_procVars PROVE SlotInv'
  OBVIOUS
<1>1. CASE UNCHANGED callVars
  <2>1. \A p : Active(p)' = Active(p)
    BY <1>1 DEF callVars, Active, Over
  <2> QED
    BY <1>1, <2>1 DEF callVars, SlotInv, SlotsKept
<1>2. ASSUME NEW c \in Calls, Begin(c) PROVE SlotInv'
  <2>1. /\ IsFiniteSet(begun) /\ begun' = begun \cup {c} /\ c \notin begun /\ ~Over(c)
        /\ UNCHANGED <<kind, todo>>
    BY <1>2 DEF Begin, SlotInv
  <2>2. IsFiniteSet(begun')
    BY <2>1, FS_AddElement
  <2>3. kind[c] # "idle"
    BY <2>1, IdleDoesNothing
  <2>4. ASSUME NEW d \in Calls, kind[d] \in Activities
        PROVE  Cardinality(Active(Proc(d))') <= SlotsOf(QueueOf[kind[d]])
    <3>1. CASE Proc(d) # Proc(c)
      <4>1. Active(Proc(d))' = Active(Proc(d))
        BY <2>1, <3>1 DEF Active, Over
      <4> QED
        BY <2>4, <4>1 DEF SlotInv, SlotsKept
    <3>2. CASE Proc(d) = Proc(c)
      <4>1. kind[c] \in Activities /\ QueueOf[kind[c]] = QueueOf[kind[d]]
        BY <2>3, <2>4, <3>2, SameQueue
      <4>2. Cardinality(Active(Proc(d))) < SlotsOf(QueueOf[kind[d]])
        BY <1>2, <3>2, <4>1 DEF Begin
      <4>3. IsFiniteSet(Active(Proc(d)))
        BY <2>1, FS_Subset DEF Active
      <4>4. Active(Proc(d))' = Active(Proc(d)) \cup {c} /\ c \notin Active(Proc(d))
        BY <2>1, <3>2 DEF Active, Over
      <4>5. Cardinality(Active(Proc(d))') = Cardinality(Active(Proc(d))) + 1
        BY <4>3, <4>4, OneMore
      <4>6. Cardinality(Active(Proc(d))) \in Nat /\ SlotsOf(QueueOf[kind[d]]) \in Nat
        BY <2>4, <4>3, FS_CardinalityType, SlotsOfQueue
      <4> QED
        BY <4>2, <4>5, <4>6
    <3> QED
      BY <3>1, <3>2
  <2> QED
    BY <2>1, <2>2, <2>4 DEF SlotInv, SlotsKept
<1>3. ASSUME NEW c \in begun, UNCHANGED <<kind, begun>>,
             NEW rest, NEW n \in Int, Moves(c, rest, n)
      PROVE  SlotInv'
  <2>1. IsFiniteSet(begun) /\ begun' = begun
    BY <1>3 DEF SlotInv
  <2>2. ASSUME NEW d \in Calls, kind[d] \in Activities
        PROVE  Cardinality(Active(Proc(d))') <= SlotsOf(QueueOf[kind[d]])
    <3>1. Active(Proc(d))' \in SUBSET Active(Proc(d))
      BY <1>3 DEF PoolInv, Active, Over, Moves, Goon
    <3>2. IsFiniteSet(Active(Proc(d)))
      BY <2>1, FS_Subset DEF Active
    <3>3. Cardinality(Active(Proc(d))') <= Cardinality(Active(Proc(d)))
      BY <3>1, <3>2, FS_Subset
    <3>4. /\ Cardinality(Active(Proc(d))) \in Nat /\ Cardinality(Active(Proc(d))') \in Nat
          /\ SlotsOf(QueueOf[kind[d]]) \in Nat
      BY <2>2, <3>1, <3>2, FS_Subset, FS_CardinalityType, SlotsOfQueue
    <3> QED
      BY <2>2, <3>3, <3>4 DEF SlotInv, SlotsKept
  <2> QED
    BY <1>3, <2>1, <2>2 DEF SlotInv, SlotsKept
<1>4. CASE ProcNext
  BY <1>1, <1>2, <1>3, <1>4, StepMoves DEF ProcNext
<1> QED
  BY <1>1, <1>4 DEF procVars, callVars

\* An activity that asks for a connection holds none, and the others of its worker
\* hold one each at most: with no more slots than connections there is one left.
LEMMA ActivityServed ==
    ASSUME PoolInv, SlotInv, WorkerSlots <= PoolSize,
           NEW c \in Calls, At(c, "get"),
           kind[c] \in Activities, kind[c] # "finalize_task"
    PROVE  free[Proc(c)] > 0
<1> DEFINE p == Proc(c)
           A == Active(p) \ {c}
           f == [x \in Out(p) |-> x[1]]
<1>1. held[c] = 0 /\ c \in Active(p) /\ p \in Processes
  BY KindOfCall DEF At, Over, Follows, Active
<1>2. ASSUME NEW d \in {p} \X Callers, NEW i \in 1..held[d]
      PROVE  d \in A /\ i = 1
  <2>1. d \in Calls /\ Proc(d) = p /\ held[d] >= 1 /\ held[d] \in Nat
    BY <1>1 DEF Calls, Proc, PoolInv
  <2>2. Follows(kind[d], todo[d], held[d])
    BY <2>1, KindOfCall
  <2>3. kind[d] # "idle"
    BY <2>1, IdleDoesNothing
  <2>4. kind[d] \in Activities
    BY <2>1, <2>3, SameQueue
  <2>5. held[d] = 1
    BY <2>1, <2>2, <2>4 DEF Follows
  <2>6. ~Over(d) /\ d \in begun
    BY <2>1, <2>2 DEF Follows, Over, PoolInv
  <2> QED
    BY <1>1, <2>1, <2>5, <2>6 DEF Active
<1>3. f \in Injection(Out(p), A)
  <2>1. \A x \in Out(p) : \E d \in A : x = <<d, 1>>
    BY <1>2, OutOf
  <2>2. f \in [Out(p) -> A]
    BY <2>1
  <2>3. \A x, y \in Out(p) : f[x] = f[y] => x = y
    BY <2>1
  <2> QED
    BY <2>2, <2>3 DEF Injection, IsInjective
<1>4. IsFiniteSet(Active(p))
  BY FS_Subset DEF SlotInv, Active
<1>5. IsFiniteSet(A) /\ Cardinality(A) = Cardinality(Active(p)) - 1
  BY <1>1, <1>4, FS_RemoveElement
<1>6. Cardinality(Out(p)) <= Cardinality(A)
  BY <1>3, <1>5, FS_Injection
<1>7. Cardinality(Active(p)) <= WorkerSlots
  BY SlotsOfQueue DEF SlotInv, SlotsKept
<1>8. /\ Cardinality(Active(p)) \in Nat /\ Cardinality(Out(p)) \in Nat
      /\ WorkerSlots \in Nat /\ PoolSize \in Nat
      /\ free[p] \in Nat /\ free[p] + Cardinality(Out(p)) = PoolSize
  BY <1>1, <1>4, FS_CardinalityType, ProcessAssumption DEF PoolInv
<1> QED
  BY <1>5, <1>6, <1>7, <1>8

LEMMA ServedNext == PoolInv /\ SlotInv /\ WorkersServed /\ [ProcNext]_procVars => WorkersServed'
<1> SUFFICES ASSUME PoolInv, SlotInv, WorkersServed, [ProcNext]_procVars PROVE WorkersServed'
  OBVIOUS
<1>1. kind' = kind
  BY DEF ProcNext, Progress, procVars, callVars, Begin, Checkout, PoolTimeout, Close,
     ReadPage, Write, S3Step, S3Answers, S3Raises, Returns, S3Fault, Fails
<1>2. ASSUME NEW c \in Calls, PoolTimeout(c) PROVE WorkersServed'
  <2>1. At(c, "get") /\ free[Proc(c)] = 0 /\ refused' = refused \cup {c}
    BY <1>2 DEF PoolTimeout
  <2>2. WorkerSlots <= PoolSize /\ kind[c] \in Activities => kind[c] = "finalize_task"
    BY <2>1, ActivityServed
  <2> QED
    BY <1>1, <2>1, <2>2 DEF WorkersServed
<1>3. CASE refused' = refused
  BY <1>1, <1>3 DEF WorkersServed
<1>4. ASSUME NEW c \in Calls,
             Progress(c) \/ Returns(c) \/ S3Fault(c) \/ Fails(c), ~PoolTimeout(c)
      PROVE  refused' = refused
  BY <1>4 DEF Progress, callVars, Begin, Checkout, Close,
     ReadPage, Write, S3Step, S3Answers, S3Raises, Returns, S3Fault, Fails
<1> QED
  BY <1>2, <1>3, <1>4 DEF ProcNext, procVars

\* With no more slots than connections no activity but finalize_task is ever refused
\* a connection by the pool of its worker, its handlers and job sessions included.
THEOREM ActivitiesServed == ProcSpec => []WorkersServed
<1>1. ProcInit => SlotInv /\ WorkersServed
  <2> SUFFICES ASSUME ProcInit PROVE SlotInv /\ WorkersServed
    OBVIOUS
  <2>1. begun = {} /\ refused = {} /\ kind \in [Calls -> DOMAIN Program]
    BY ProcessAssumption DEF ProcInit
  <2>2. \A p : Active(p) = {}
    BY <2>1 DEF Active
  <2> QED
    BY <2>1, <2>2, FS_EmptySet, SlotsOfQueue DEF SlotInv, SlotsKept, WorkersServed
<1> QED
  BY <1>1, PoolInit, PoolNext, SlotNext, ServedNext, PTL DEF ProcSpec

(***************************************************************************)
(* list_records: whatever order its statements choose, a page holds what   *)
(* is left of the job's records behind its offset, up to the limit, and    *)
(* the table never loses a row.                                            *)
(***************************************************************************)
LEMMA StoredFinite ==
    ASSUME NEW S \in SUBSET (Records \cup Others)
    PROVE  IsFiniteSet(S \cap Records) /\ Cardinality(S \cap Records) \in Nat
<1>1. IsFiniteSet(S \cap Records)
  BY PageAssumption, FS_Subset
<1> QED
  BY <1>1, FS_CardinalityType

\* A list of n different elements of a set of n elements has all of them.
LEMMA ListsAll ==
    ASSUME NEW S, IsFiniteSet(S), NEW s \in SetToSeqs(S)
    PROVE  /\ s \in Seq(S) /\ Len(s) = Cardinality(S)
           /\ IsInjective(s) /\ Range(s) = S
<1> DEFINE n == Cardinality(S)
<1>1. n \in Nat
  BY FS_CardinalityType
<1>2. s \in [1..n -> S] /\ \A i, j \in 1..n : i # j => s[i] # s[j]
  BY DEF SetToSeqs
<1>3. DOMAIN s = 1..n /\ IsInjective(s)
  BY <1>2 DEF IsInjective
<1>4. s \in Seq(S) /\ Len(s) = n
  <2> HIDE DEF n
  <2> QED
    BY <1>1, <1>2
<1>5. Range(s) \in SUBSET S
  BY <1>2 DEF Range
<1>6. Cardinality(Range(s)) = n /\ IsFiniteSet(Range(s))
  <2>1. s \in Surjection(1..n, Range(s)) /\ s \in Injection(1..n, Range(s))
    BY <1>2 DEF Range, Surjection, Injection, IsInjective
  <2>2. ExistsBijection(1..n, Range(s))
    BY <2>1 DEF ExistsBijection, Bijection
  <2>3. Cardinality(1..n) = n /\ IsFiniteSet(1..n)
    BY <1>1, FS_Interval
  <2> QED
    BY <1>1, <2>2, <2>3, FS_Bijection
<1>7. Range(s) = S
  BY <1>5, <1>6, FS_Subset
<1> QED
  BY <1>3, <1>4, <1>7

LEMMA PageHas ==
    ASSUME PagesTypeOK, NEW page \in Pages
    PROVE  LET n == Cardinality(Stored) IN
           /\ page \in Seq(Records)
           /\ Len(page) = IF offset + Limit < n THEN Limit
                          ELSE IF offset <= n THEN n - offset ELSE 0
           /\ offset = 0 /\ n <= Limit => IsInjective(page) /\ Range(page) = Stored
<1>1. PICK s \in SetToSeqs(Stored) : page = Slice(s)
  BY DEF Pages
<1> DEFINE n == Cardinality(Stored)
           m == IF offset + Limit < n THEN offset + Limit ELSE n
<1>2. IsFiniteSet(Stored) /\ n \in Nat
  BY StoredFinite DEF Stored, PagesTypeOK
<1>3. s \in Seq(Stored) /\ Len(s) = n /\ IsInjective(s) /\ Range(s) = Stored
  BY <1>1, <1>2, ListsAll
<1>4. offset \in Nat /\ Limit \in Nat /\ Limit > 0 /\ m \in 0..n
  BY <1>2, PageAssumption DEF PagesTypeOK
<1>5. page = SubSeq(s, offset + 1, m)
  BY <1>1, <1>3 DEF Slice
<1>6. s \in Seq(Records)
  BY <1>3 DEF Stored
<1> HIDE DEF n
<1>7. /\ page \in Seq(Records)
      /\ Len(page) = IF offset + 1 <= m THEN m - (offset + 1) + 1 ELSE 0
  <2>1. \A i \in (offset + 1)..m : s[i] \in Records
    BY <1>3, <1>4, <1>6
  <2>2. offset + 1 \in Int /\ m \in Int
    BY <1>2, <1>4
  <2> HIDE DEF m
  <2> QED
    BY <1>5, <2>1, <2>2, SubSeqProperties
<1>8. ASSUME offset = 0, n <= Limit PROVE page = s
  <2>1. page = SubSeq(s, 1, Len(s))
    BY <1>3, <1>4, <1>5, <1>8, <1>2
  <2> QED
    BY <1>6, <2>1, SubSeqFull
<1> QED
  BY <1>2, <1>3, <1>4, <1>7, <1>8 DEF n

\* Until the client is shown a short page it has as many entries as its offset, and its
\* job has at least as many records.
PageInv ==
    /\ PagesTypeOK
    /\ offset = 0 => got = <<>>
    /\ more => Len(got) = offset /\ offset <= Cardinality(Stored)

LEMMA PagesInitInv == PagesInit => PageInv
<1> SUFFICES ASSUME PagesInit PROVE PageInv
  OBVIOUS
<1>1. PagesTypeOK
  BY PageAssumption DEF PagesInit, PagesTypeOK
<1>2. Cardinality(Stored) \in Nat
  BY <1>1, StoredFinite DEF Stored, PagesTypeOK
<1> QED
  BY <1>1, <1>2 DEF PagesInit, PageInv

LEMMA FetchKeeps ==
    ASSUME PageInv, FetchPage
    PROVE  /\ PageInv'
           /\ more /\ ~more' =>
                /\ Len(got') = Cardinality(Stored)
                /\ offset = 0 => IsInjective(got') /\ Range(got') = Stored
<1>1. PICK page \in Pages :
        /\ got' = got \o page /\ offset' = offset + Limit
        /\ more' = (more /\ Len(page) = Limit) /\ UNCHANGED rows
  BY DEF FetchPage
<1> DEFINE n == Cardinality(Stored)
<1>2. /\ got \in Seq(Records) /\ offset \in Nat /\ more \in BOOLEAN /\ PagesTypeOK
      /\ Limit \in Nat /\ Limit > 0 /\ n \in Nat /\ Stored' = Stored
  <2>1. /\ got \in Seq(Records) /\ offset \in Nat /\ more \in BOOLEAN /\ PagesTypeOK
        /\ Limit \in Nat /\ Limit > 0 /\ rows \in SUBSET (Records \cup Others)
    BY PageAssumption DEF PageInv, PagesTypeOK
  <2>2. n \in Nat
    BY <2>1, StoredFinite DEF Stored
  <2> QED
    BY <1>1, <2>1, <2>2 DEF Stored
<1>3. /\ page \in Seq(Records)
      /\ Len(page) = IF offset + Limit < n THEN Limit ELSE IF offset <= n THEN n - offset ELSE 0
      /\ offset = 0 /\ n <= Limit => IsInjective(page) /\ Range(page) = Stored
  BY <1>2, PageHas
<1>4. got' \in Seq(Records) /\ Len(got') = Len(got) + Len(page) /\ Len(got) \in Nat
  <2>1. got \in Seq(Records) /\ page \in Seq(Records) /\ got' = got \o page
    BY <1>1, <1>2, <1>3
  <2> QED
    BY <2>1
<1>5. PagesTypeOK' /\ offset' # 0
  BY <1>1, <1>2, <1>4 DEF PagesTypeOK
<1> HIDE DEF n
<1>p. /\ Len(page) = IF offset + Limit < n THEN Limit ELSE IF offset <= n THEN n - offset ELSE 0
      /\ more => Len(got) = offset /\ offset <= n
  BY <1>3 DEF PageInv, n
<1>6. ASSUME more' PROVE Len(got') = offset' /\ offset' <= n
  <2>1. more /\ Len(page) = Limit /\ offset' = offset + Limit
    BY <1>1, <1>6
  <2> QED
    BY <1>2, <1>p, <1>4, <2>1
<1>7. ASSUME more, ~more' PROVE Len(got') = n /\ (offset = 0 => n <= Limit)
  <2>1. Len(page) # Limit
    BY <1>1, <1>7
  <2> QED
    BY <1>2, <1>p, <1>4, <1>7, <2>1
<1>8. offset = 0 => got' = page
  BY <1>1, <1>3 DEF PageInv
<1> QED
  BY <1>2, <1>3, <1>5, <1>6, <1>7, <1>8 DEF PageInv, n

LEMMA WriteKeeps ==
    ASSUME PageInv, NEW new \in SUBSET Records, WriteRows(new)
    PROVE  PageInv'
<1>1. PagesTypeOK' /\ Stored \subseteq Stored' /\ UNCHANGED <<got, offset, more>>
  BY DEF PageInv, PagesTypeOK, WriteRows, Stored
<1>2. IsFiniteSet(Stored') /\ Cardinality(Stored') \in Nat /\ Cardinality(Stored) \in Nat
  BY <1>1, StoredFinite DEF PageInv, PagesTypeOK, Stored
<1>3. Cardinality(Stored) <= Cardinality(Stored')
  BY <1>1, <1>2, FS_Subset
<1>4. offset \in Nat
  BY DEF PageInv, PagesTypeOK
<1> QED
  BY <1>1, <1>2, <1>3, <1>4 DEF PageInv

\* The steps that touch the pages or the table.
LEMMA PageSteps ==
    ASSUME [ProcNext]_procVars
    PROVE  \/ UNCHANGED pageVars
           \/ FetchPage
           \/ \E new \in SUBSET Records : WriteRows(new)
<1>1. ASSUME NEW c \in Calls, ReadPage(c) PROVE FetchPage
  BY <1>1 DEF ReadPage
<1>2. ASSUME NEW c \in Calls, Write(c)
      PROVE  UNCHANGED pageVars \/ \E new \in SUBSET Records : WriteRows(new)
  <2>1. WriteRows(Records) \/ WriteRows({}) \/ UNCHANGED pageVars
    BY <1>2 DEF Write
  <2> QED
    BY <2>1
<1>3. ASSUME NEW c \in Calls, ~ReadPage(c), ~Write(c),
             Progress(c) \/ Returns(c) \/ S3Fault(c) \/ Fails(c)
      PROVE  UNCHANGED pageVars
  BY <1>3 DEF Progress, Begin, Checkout, PoolTimeout, Close, S3Step, S3Answers, S3Raises,
     Returns, S3Fault, Fails
<1> QED
  BY <1>1, <1>2, <1>3 DEF ProcNext, procVars

LEMMA PagesNext == PageInv /\ [ProcNext]_procVars => PageInv'
<1> SUFFICES ASSUME PageInv, [ProcNext]_procVars PROVE PageInv'
  OBVIOUS
<1>1. CASE UNCHANGED pageVars
  BY <1>1 DEF pageVars, PageInv, PagesTypeOK, Stored
<1> QED
  BY <1>1, PageSteps, FetchKeeps, WriteKeeps

\* For any limit and any order that any statement chooses: when the client is shown a short
\* page it has as many entries as its job has records then, whatever was inserted between
\* its pages, and a job of one page is shown to it exactly.
THEOREM EveryPageCounts == ProcSpec => PagesAddUp
<1>1. ProcInit => PageInv
  BY PagesInitInv DEF ProcInit
<1>2. PageInv /\ [ProcNext]_procVars =>
        [more /\ ~more' =>
            /\ Len(got') = Cardinality(Stored)
            /\ offset = 0 => IsInjective(got') /\ Range(got') = Stored]_pageVars
  BY FetchKeeps, PageSteps DEF WriteRows
<1> QED
  BY <1>1, <1>2, PagesNext, PTL DEF ProcSpec, PagesAddUp

-----------------------------------------------------------------------------
RefusedInv == refused \in SUBSET begun

LEMMA RefusedNext == RefusedInv /\ [ProcNext]_procVars => RefusedInv'
<1> SUFFICES ASSUME RefusedInv, [ProcNext]_procVars PROVE RefusedInv'
  OBVIOUS
<1> USE DEF RefusedInv
<1>1. ASSUME NEW c \in Calls, PoolTimeout(c) PROVE RefusedInv'
  BY <1>1 DEF PoolTimeout, At
<1>2. ASSUME NEW c \in Calls, ~PoolTimeout(c),
             Progress(c) \/ Returns(c) \/ S3Fault(c) \/ Fails(c)
      PROVE  refused' = refused /\ begun \subseteq begun'
  BY <1>2 DEF Progress, callVars, Begin, Checkout, Close,
     ReadPage, Write, S3Step, S3Answers, S3Raises, Returns, S3Fault, Fails
<1> QED
  BY <1>1, <1>2 DEF ProcNext, procVars

\* Each variable of the processes keeps its type, and no pool has more connections
\* than it began with.
THEOREM ProcTypesKept == ProcSpec => []ProcTypeOK
<1>1. ProcInit => RefusedInv
  BY DEF ProcInit, RefusedInv
<1>2. ProcInit => PageInv
  BY PagesInitInv DEF ProcInit
<1>3. StorageInv /\ PageInv /\ PoolInv /\ RefusedInv => ProcTypeOK
  <2> SUFFICES ASSUME StorageInv, PageInv, PoolInv, RefusedInv
               PROVE  ProcTypeOK
    OBVIOUS
  <2>1. \A p \in Processes : free[p] \in 0..PoolSize
    <3> SUFFICES ASSUME NEW p \in Processes PROVE free[p] \in 0..PoolSize
      OBVIOUS
    <3>1. /\ free[p] \in Nat /\ PoolSize \in Nat /\ Cardinality(Out(p)) \in Nat
          /\ free[p] + Cardinality(Out(p)) = PoolSize
      BY ProcessAssumption, FS_CardinalityType DEF PoolInv
    <3> QED
      BY <3>1
  <2> QED
    BY <2>1 DEF StorageInv, LockInv, PageInv, PoolInv, RefusedInv, ProcTypeOK
<1> QED
  BY <1>1, <1>2, <1>3, UsesStorage, StorageSafe, PagesNext, PoolInit, PoolNext, RefusedNext,
     PTL DEF ProcSpec
=============================================================================
