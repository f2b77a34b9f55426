---------------------------- MODULE MCSopCheckpoint ----------------------------
(* Instances of SopCheckpoint for TLC. *)
EXTENDS SopCheckpoint, TLC

CONSTANTS r1, r2, r3, a, b

\* Two runs of one SOP and a third of the other.
OneOfB == [r \in Runs |-> IF r = r1 THEN b ELSE a]
OneOfA == [r \in Runs |-> IF r = r1 THEN a ELSE b]

GateAndCheckpoint == [s \in Sops |-> IF s = a THEN <<"gated">> ELSE <<"checkpoint">>]
WorkThenGate      == [s \in Sops |-> IF s = a THEN <<"execute", "gated">>
                                              ELSE <<"capability", "checkpoint">>]

Zero == [s \in Sops |-> 0]
One  == [s \in Sops |-> 1]
Two  == [s \in Sops |-> 2]

Parallel == [s \in Sops |-> "Parallel"]
Mixed    == [s \in Sops |-> IF s = a THEN "Hold" ELSE "Parallel"]

Symmetry == Permutations({r2, r3})
=============================================================================
