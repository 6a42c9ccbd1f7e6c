------------------------------ MODULE MCJobApi ------------------------------
(* Instances of JobApi for TLC: see the cfg files. *)
EXTENDS JobApi

CONSTANTS t1, t2

TwoTasks == {t1, t2}
CrashOnly == {"crash"}
=============================================================================
