--------------------------- MODULE MCControlPlane ---------------------------
(* Instances of ControlPlane for TLC. *)
EXTENDS ControlPlane

\* r has p's pid, in another second.
Distinct == [p \in Procs |-> [pid |-> IF p = "q" THEN 2 ELSE 1, started |-> IF p = "r" THEN 2 ELSE 1]]

TaskKinds == [t \in Tasks |-> IF t = "s" THEN "subagent" ELSE "delegate"]
=============================================================================
