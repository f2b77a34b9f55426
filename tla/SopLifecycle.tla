---------------------------- MODULE SopLifecycle ----------------------------
(***************************************************************************)
(* What the SOP engine promises to whoever reads its run store (a          *)
(* dashboard, an approval channel, the engine itself after a restart): the *)
(* life cycle of a run as its durable snapshots tell it, and the execution *)
(* slots that go with it.                                                  *)
(*                                                                         *)
(* A run that is saved as executing owns a slot.  A slot to execute in is  *)
(* only taken when one is free, so no more runs execute than the caps      *)
(* allow.  A run that waits for a person leaves the wait by being resumed  *)
(* in a slot or by being ended.  A requested cancellation ends the run,    *)
(* and an ended run owns nothing and changes no more.                      *)
(***************************************************************************)
EXTENDS Naturals, FiniteSets

CONSTANTS Runs, Sops, SopOf, MaxConcurrent, MaxTotal

\* What theorems about the life cycle assume of its constants.
Constants ==
  /\ IsFiniteSet(Runs)
  /\ SopOf \in [Runs -> Sops]
  /\ MaxConcurrent \in [Sops -> Nat]
  /\ MaxTotal \in Nat

Waiting == {"WaitingApproval", "PausedCheckpoint"}
Working == {"Pending", "Running"}
Owning  == Working \cup {"CancelRequested"}
Ended   == {"Completed", "Failed", "Cancelled"}

VARIABLES
  status,  \* what the store says of a run
  slots    \* the runs that own an execution slot

vars == <<status, slots>>

Init ==
  /\ status = [r \in Runs |-> "none"]
  /\ slots = {}

OwnersOf(s) == {r \in slots : SopOf[r] = s}

SlotFree(r) ==
  /\ Cardinality(OwnersOf(SopOf[r])) < MaxConcurrent[SopOf[r]]
  /\ Cardinality(slots) < MaxTotal

Becomes(r, next) ==
  /\ status' = [status EXCEPT ![r] = next]
  /\ slots' \in {slots \ {r}, slots \cup {r}}
  /\ next \in Owning => r \in slots'
  /\ next \in Ended  => r \notin slots'

\* A new run, in a slot it may give back at once.
Begin(r) ==
  /\ status[r] = "none"
  /\ r \notin slots
  /\ SlotFree(r)
  /\ \E next \in {"none", "Failed"} \cup Working \cup Waiting : Becomes(r, next)

\* A run works in its slot, waits or ends.
Work(r) ==
  /\ status[r] \in {"none"} \cup Working
  /\ r \in slots
  /\ \E next \in Owning \cup Waiting \cup Ended : Becomes(r, next)

\* A waiting run is resumed in a slot: it works, or waits again or ends at once.
Resume(r) ==
  /\ status[r] \in Waiting
  /\ r \notin slots
  /\ SlotFree(r)
  /\ \E next \in Waiting \cup Working \cup {"Completed"} : Becomes(r, next)

\* A waiting run is ended, whether or not a slot is free.
Dismiss(r) ==
  /\ status[r] \in Waiting
  /\ \E next \in {"Failed", "Cancelled"} : Becomes(r, next)

\* A waiting run that could not be ended keeps the slot it was to end in.
Reserve(r) ==
  /\ status[r] \in Waiting
  /\ slots' = slots \cup {r}
  /\ UNCHANGED status

FinishCancelling(r) ==
  /\ status[r] = "CancelRequested"
  /\ \E next \in {"Failed", "Cancelled"} : Becomes(r, next)

\* Maintenance: slots nobody executes in are freed, old runs forgotten.
Sweep ==
  \E idle \in SUBSET {r \in slots : status[r] \notin Owning},
     old  \in SUBSET {r \in Runs : status[r] \in Ended} :
       /\ slots' = slots \ idle
       /\ status' = [r \in Runs |-> IF r \in old THEN "none" ELSE status[r]]

\* A restart ends the runs whose cancellation was requested.
Recover ==
  \E ended \in SUBSET {r \in Runs : status[r] = "CancelRequested"},
     idle  \in SUBSET {r \in slots : status[r] \notin Owning} :
       /\ slots' = slots \ (ended \cup idle)
       /\ status' = [r \in Runs |-> IF r \in ended THEN "Cancelled" ELSE status[r]]

Next ==
  \/ \E r \in Runs : Begin(r) \/ Work(r) \/ Resume(r) \/ Dismiss(r) \/ Reserve(r)
                  \/ FinishCancelling(r)
  \/ Sweep
  \/ Recover

Spec == Init /\ [][Next]_vars

-----------------------------------------------------------------------------

TypeOK ==
  /\ status \in [Runs -> {"none"} \cup Owning \cup Waiting \cup Ended]
  /\ slots \subseteq Runs

\* The runs that execute or are about to: all but those that wait.
Occupying == {r \in slots : status[r] \notin Waiting}

\* Whoever executes owns a slot, and no more runs execute than the caps allow, though
\* waiting runs may own slots beyond them (try_claim_run, holds_exec_claim).
SlotsWithinCaps ==
  /\ \A r \in Runs : status[r] \in Owning => r \in slots
  /\ \A s \in Sops : Cardinality({r \in Occupying : SopOf[r] = s}) <= MaxConcurrent[s]
  /\ Cardinality(Occupying) <= MaxTotal
=============================================================================
