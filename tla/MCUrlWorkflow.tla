--------------------------- MODULE MCUrlWorkflow ---------------------------
(* Instances of UrlWorkflow for TLC: see the cfg files. *)
EXTENDS UrlWorkflow, TLC

CONSTANTS t1, t2

TwoTasks == {t1, t2}

AllFaults == FaultKinds
NoFaults == {}

\* Tasks are interchangeable in every safety property.
Symmetry == Permutations(Tasks)
=============================================================================
