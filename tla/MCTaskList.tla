---------------------------- MODULE MCTaskList ----------------------------
(* Instances of TaskList for TLC. *)
EXTENDS TaskList

CONSTANT t1

OneTask == {t1}
WorkerFaults == {"timeout", "crash", "cancel", "db"}
=============================================================================
