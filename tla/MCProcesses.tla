---------------------------- MODULE MCProcesses ----------------------------
(* Instances of Processes for TLC. *)
EXTENDS Processes

CONSTANTS api, worker, c1, c2, c3, r1, r2, other

TwoProcesses == {api, worker}
ThreeCallers == {c1, c2, c3}
TwoRecords == {r1, r2}
OtherRecord == {other}
FirstRecord == {r1}

\* The API's calls a, and w for each call of a worker, which serves one queue.
Load(a1, a2, a3, w1, w2, w3) ==
    [c \in Calls |->
        IF Proc(c) = api
        THEN CASE c[2] = c1 -> a1 [] c[2] = c2 -> a2 [] OTHER -> a3
        ELSE CASE c[2] = c1 -> w1 [] c[2] = c2 -> w2 [] OTHER -> w3]

Mixes ==
    {Load("get_job", "get_job", "create_job", "idle", "idle", "idle"),
     Load("list_tasks", "list_tasks", "create_job", "idle", "idle", "idle"),
     Load("get_record", "get_record", "idle", "fetch_url", "fetch_url", "idle"),
     Load("get_record", "list_tasks", "list_tasks", "idle", "idle", "idle"),
     Load("list_records", "idle", "idle", "parse_records", "parse_records", "idle"),
     Load("list_records", "idle", "idle", "fetch_article", "fetch_article", "idle"),
     Load("idle", "idle", "idle", "summarize_records", "summarize_records", "summarize_records"),
     Load("idle", "idle", "idle", "finalize_task", "finalize_task", "finalize_task"),
     Load("idle", "idle", "idle", "parse_records", "parse_records", "parse_records")}
=============================================================================
