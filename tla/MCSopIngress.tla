---------------------------- MODULE MCSopIngress ----------------------------
(* Instances of SopIngress for TLC. *)
EXTENDS SopIngress, TLC

CONSTANTS e1, e2, m1, m2, m3, a, b, c

\* Two SOPs that begin with a gate and one that begins with a step; the third
\* message matches more SOPs than may execute at once, unless one coalesces.
AllInOrder == <<a, b, c>>
ThreeMatches == m1 :> {a, b} @@ m2 :> {b} @@ m3 :> {a, b, c}
Policies == [s \in Sops |-> CASE s = a -> "Coalesce" [] s = b -> "Hold" [] OTHER -> "Parallel"]
GatesFirst == [s \in Sops |-> IF s = c THEN "step" ELSE "gate"]
One == [s \in Sops |-> 1]
Pools == [s \in Sops |-> IF s = b THEN 1 ELSE 0]

\* A step and a gate in one batch.
StepThenGate == <<c, a>>
OneBatch == m1 :> {c, a}
=============================================================================
