---------------------------- MODULE MCSopEngine ----------------------------
(* Instances of SopEngine for TLC. *)
EXTENDS SopEngine, TLC

CONSTANTS r1, r2, r3, a, b

OneSop == [r \in Runs |-> a]

CheckpointSteps == [s \in Sops |-> <<"capability", "checkpoint">>]
MixedSteps      == [s \in Sops |-> IF s = a THEN <<"gated">> ELSE <<"checkpoint">>]

Zero == [s \in Sops |-> 0]
One  == [s \in Sops |-> 1]
Two  == [s \in Sops |-> 2]

Parallel == [s \in Sops |-> "Parallel"]
=============================================================================
