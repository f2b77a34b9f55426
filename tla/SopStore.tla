------------------------------ MODULE SopStore ------------------------------
(***************************************************************************)
(* The run store of the SOP engine: the durable snapshot of every run, the *)
(* execution claims with their leases, and the calls the engine makes on   *)
(* them (omnesagent-runtime/src/sop/store).                                *)
(*                                                                         *)
(* A store call either commits or fails and changes nothing.  Calls that   *)
(* fail are counted in faults, so that a model bounds how often the store  *)
(* misbehaves (MaxFaults).  Revisions are not kept: with one engine every  *)
(* save is one past what the store holds (next_run_revision), so the       *)
(* revision guard only refuses when the preceding read failed, which is a  *)
(* failed call here.                                                       *)
(***************************************************************************)
EXTENDS Naturals, FiniteSets

CONSTANTS
  Runs,           \* run identifiers
  Sops,           \* loaded SOP definitions
  SopOf,          \* the SOP a run is started for
  NumSteps,       \* steps of an SOP, numbered 1..NumSteps
  KindOf,         \* SOP -> step -> "execute" | "gated" | "capability" | "checkpoint"
  MaxConcurrent,  \* max_concurrent of an SOP
  MaxTotal,       \* max_concurrent_total
  MaxPending,     \* max_pending_approvals of an SOP, 0 for unbounded
  MaxFaults,      \* bound: store calls that fail and crashes, over a behaviour
  NoRun           \* "no such run"

Steps == 1..NumSteps

\* Steps an agent executes, at once or once a gate is approved; steps of a
\* deterministic SOP.
AgentKinds         == {"execute", "gated"}
DeterministicKinds == {"capability", "checkpoint"}

Parked    == {"WaitingApproval", "PausedCheckpoint"}
Executing == {"Pending", "Running", "CancelRequested"}  \* holds_exec_claim
Terminal  == {"Completed", "Failed", "Cancelled"}

ASSUME StoreAssumption ==
  /\ IsFiniteSet(Runs)
  /\ SopOf \in [Runs -> Sops]
  /\ NumSteps \in Nat \ {0}
  /\ KindOf \in [Sops -> [Steps -> AgentKinds] \cup [Steps -> DeterministicKinds]]
  /\ MaxConcurrent \in [Sops -> Nat]
  /\ MaxTotal \in Nat
  /\ MaxPending \in [Sops -> Nat]
  /\ MaxFaults \in Nat
  /\ NoRun \notin [status  : Parked \cup Executing \cup Terminal, step : Steps,
                   results : SUBSET Steps, cleared : BOOLEAN]

(***************************************************************************)
(* SopRun.  results abstracts step_results to the checkpoints that have    *)
(* one, all that is ever read of it here (terminal_rollback_marker_is_     *)
(* stale); cleared is a history field: the gate of the current visit of    *)
(* step was approved.  It is saved with the record because the approval's  *)
(* gate_resolved row commits with it.                                      *)
(***************************************************************************)
RunRecord == [status  : Parked \cup Executing \cup Terminal, step : Steps,
              results : SUBSET Steps, cleared : BOOLEAN]

(***************************************************************************)
(* A claim row is absent, has a live lease, or has a lease that ran out    *)
(* (and still counts until it is reaped).                                  *)
(***************************************************************************)
Leases == {"none", "fresh", "lapsed"}

VARIABLES
  stored,  \* sop_runs: the last durable snapshot of a run
  claims,  \* sop_claims: the lease of a run's execution claim
  marked,  \* claims whose holder is RETAINED_TERMINAL_ROLLBACK_HOLDER
  faults   \* store calls that failed, and crashes, so far

storeVars == <<stored, claims, marked, faults>>

StoreTypeOK ==
  /\ stored \in [Runs -> RunRecord \cup {NoRun}]
  /\ claims \in [Runs -> Leases]
  /\ marked \subseteq Runs
  /\ faults \in 0..MaxFaults

StoreInit ==
  /\ stored = [r \in Runs |-> NoRun]
  /\ claims = [r \in Runs |-> "none"]
  /\ marked = {}
  /\ faults = 0

-----------------------------------------------------------------------------
(* Queries.  A view is a map from runs to records: the store's own, or the *)
(* engine's cache when the store cannot be read.                           *)

Known(view)          == {r \in Runs : view[r] # NoRun}
InStatus(view, stat) == {r \in Known(view) : view[r].status \in stat}
OfSop(s, rs)         == {r \in rs : SopOf[r] = s}

Claimed  == {r \in Runs : claims[r] # "none"}

\* Broken on purpose: forgets the runs that are being cancelled.
RestorableUncancelled == InStatus(stored, Parked \cup {"Pending", "Running"})

\* load_active_runs: what a restart rebuilds.
Restorable == InStatus(stored, Parked \cup Executing)

\* Broken on purpose: a lapsed lease counts as a free slot.
CanClaimLapsed(r) ==
  LET live == {q \in Claimed : claims[q] = "fresh"}
  IN /\ claims[r] = "none"
     /\ r \notin InStatus(stored, Terminal)
     /\ Cardinality(OfSop(SopOf[r], live)) < MaxConcurrent[SopOf[r]]
     /\ Cardinality(live) < MaxTotal

\* Broken on purpose: only the SOP's own cap is enforced.
CanClaimOfSop(r) ==
  /\ claims[r] = "none"
  /\ r \notin InStatus(stored, Terminal)
  /\ Cardinality(OfSop(SopOf[r], Claimed)) < MaxConcurrent[SopOf[r]]

\* Broken on purpose: a run's own claim does not stand in its way.
CanReclaim(r) ==
  /\ r \notin InStatus(stored, Terminal)
  /\ Cardinality(OfSop(SopOf[r], Claimed \ {r})) < MaxConcurrent[SopOf[r]]
  /\ Cardinality(Claimed \ {r}) < MaxTotal

\* try_claim_run: the atomic admission test, on live rows whatever their lease.
CanClaim(r) ==
  /\ claims[r] = "none"
  /\ r \notin InStatus(stored, Terminal)
  /\ Cardinality(OfSop(SopOf[r], Claimed)) < MaxConcurrent[SopOf[r]]
  /\ Cardinality(Claimed) < MaxTotal

\* Broken on purpose: runs held back from the pool count as members.
PoolFullWithPending(s, view) ==
  /\ MaxPending[s] > 0
  /\ Cardinality(OfSop(s, InStatus(view, Parked \cup {"Pending"}))) >= MaxPending[s]

\* pending_pool_full_reason: every parked run of the SOP, r itself included.
PoolFull(s, view) ==
  /\ MaxPending[s] > 0
  /\ Cardinality(OfSop(s, InStatus(view, Parked))) >= MaxPending[s]

\* Broken on purpose: off by one.
PoolOverfullFor(r) ==
  /\ MaxPending[SopOf[r]] > 0
  /\ Cardinality(OfSop(SopOf[r], InStatus(stored, Parked)) \ {r})
       > MaxPending[SopOf[r]]

\* save_run_with_pending_capacity: as above, but r does not count itself.
PoolFullFor(r) ==
  /\ MaxPending[SopOf[r]] > 0
  /\ Cardinality(OfSop(SopOf[r], InStatus(stored, Parked)) \ {r})
       >= MaxPending[SopOf[r]]

\* n store calls of this step failed.
Failures(n) ==
  /\ faults + n <= MaxFaults
  /\ faults' = faults + n
=============================================================================
