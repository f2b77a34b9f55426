----------------------------- MODULE SopEngine -----------------------------
(***************************************************************************)
(* The SOP engine (omnesagent-runtime/src/sop/engine.rs) and the drivers   *)
(* and maintenance loop around it.                                         *)
(*                                                                         *)
(* A run takes an execution claim, executes steps under a driver, parks at *)
(* approval gates and checkpoints (giving its claim back once the parked   *)
(* snapshot is durable), and ends.  One mutex guards the engine, so each   *)
(* engine call is one action; a maintenance tick holds the mutex but makes *)
(* many store calls, so it is split per run and a crash may fall between.  *)
(* Agent turns run outside the mutex, and any agent may advance any run,   *)
(* whoever drives it.                                                      *)
(*                                                                         *)
(* Where a step goes next is left open here: any routing decision may      *)
(* follow any result.                                                      *)
(***************************************************************************)
EXTENDS SopStore

CONSTANTS
  Policy,            \* admission_policy of an SOP
  TimeoutAction,     \* approval_timeout_action
  MaxFinished,       \* max_finished_runs, 0 for unbounded
  HeartbeatMayFail,  \* whether a claim heartbeat can be lost
  RestoreMayFail,    \* whether a restart can fail to read or re-claim a run
  ToolsCutIn,        \* SOPs whose runs sop_advance is called on while they are driven
  MaxDrivers         \* bound: drivers of a run at a time

ASSUME EngineAssumption ==
  /\ Policy \in [Sops -> {"Parallel", "Hold", "Coalesce", "Drop"}]
  /\ TimeoutAction \in {"Escalate", "Cancel", "AutoApprove"}
  /\ MaxFinished \in Nat
  /\ HeartbeatMayFail \in BOOLEAN
  /\ RestoreMayFail \in BOOLEAN
  /\ ToolsCutIn \subseteq Sops
  /\ MaxDrivers \in Nat

VARIABLES
  active,          \* active_runs: the engine's cache of live runs
  pendingPersist,  \* claims_pending_persist: parked, but the snapshot is not saved
  retained,        \* claims_retained_after_terminal_rollback
  cancelReady,     \* cancellation_finalization_ready
  budgetReady,     \* step_budget_finalization_ready
  driver,          \* the actions the run's drivers have in hand
  tick,            \* phase of the maintenance tick
  todo             \* runs the current phase still has to visit

trackVars == <<pendingPersist, retained, cancelReady, budgetReady>>
tickVars  == <<tick, todo>>
vars == <<storeVars, active, trackVars, driver, tickVars>>

(***************************************************************************)
(* A driver holds the action some engine call returned: to work on step,   *)
(* whose gate was approved before (cleared, a history field) or has none.  *)
(* A headless driver takes it to the step boundary (ready) and into an     *)
(* agent turn (turn).  An action a tool got is queued in the agent turn it *)
(* was called in (queued), which works on it with no step boundary before. *)
(* Drivers of a run at the same point with the same action are one.        *)
(***************************************************************************)
Held == [step : Steps, cleared : BOOLEAN, at : {"ready", "turn", "queued"}]

Phases  == {"idle", "timeouts", "parks", "pends", "budgets", "cancels"}

TypeOK ==
  /\ StoreTypeOK
  /\ active \in [Runs -> RunRecord \cup {NoRun}]
  /\ pendingPersist \subseteq Runs
  /\ retained \subseteq Runs
  /\ cancelReady \subseteq Runs
  /\ budgetReady \subseteq Runs
  /\ driver \in [Runs -> SUBSET Held]
  /\ tick \in Phases
  /\ todo \subseteq Runs

Init ==
  /\ StoreInit
  /\ active = [r \in Runs |-> NoRun]
  /\ pendingPersist = {}
  /\ retained = {}
  /\ cancelReady = {}
  /\ budgetReady = {}
  /\ driver = [r \in Runs |-> {}]
  /\ tick = "idle"
  /\ todo = {}

-----------------------------------------------------------------------------
(* Records *)

KindAt(r, s) == KindOf[SopOf[r]][s]
Gate(r, s)   == KindAt(r, s) \in {"gated", "checkpoint"}  \* pending_step_blocks_direct_advance
Deterministic(r) == KindAt(r, 1) \in DeterministicKinds

Is(r, stat) == active[r] # NoRun /\ active[r].status \in stat

\* The step_results that matter: an entry for a checkpoint step.
WithResult(r, m, s) ==
  IF KindAt(r, s) = "checkpoint" THEN [m EXCEPT !.results = @ \cup {s}] ELSE m

At(m, s) == [m EXCEPT !.status = "Running", !.step = s, !.cleared = FALSE]

ParkedAt(r, m) ==
  [m EXCEPT !.status = IF KindAt(r, m.step) = "checkpoint"
                       THEN "PausedCheckpoint" ELSE "WaitingApproval"]

\* mark_step_pending records a Skipped result for the step it waits at.
PendedAt(r, m, s) == [WithResult(r, At(m, s), s) EXCEPT !.status = "Pending"]

-----------------------------------------------------------------------------
(* Engine steps over the store.  c is where a call on run r stands: the    *)
(* lease r holds, its durable row, and how many store calls failed.        *)

Calls == [lease : Leases, row : RunRecord \cup {NoRun}, failed : Nat]

Holds(r) == [lease |-> claims[r], row |-> stored[r], failed |-> 0]
Takes(r) == [Holds(r) EXCEPT !.lease = "fresh"]  \* the claim was just taken
Fail(c)  == [c EXCEPT !.failed = @ + 1]

\* heartbeat_claim: an UPDATE, so nothing where there is no row.
Renewals(lease) ==
  IF lease = "none" THEN {"none"}
  ELSE {"fresh"} \cup (IF HeartbeatMayFail THEN {lease} ELSE {})

SetLease(r, lease) == claims' = [claims EXCEPT ![r] = lease]
Cache(r, m)        == active' = [active EXCEPT ![r] = m]
Save(r, m)         == stored' = [stored EXCEPT ![r] = m]

(***************************************************************************)
(* Who makes a call, w: the driver it is (was), and where the action that  *)
(* the call returns is then in hand (next).                                *)
(***************************************************************************)
Driver(d) == [was |-> {d}, next |-> IF d.at = "queued" THEN "queued" ELSE "ready"]
Headless  == [was |-> {}, next |-> "ready"]  \* spawn_headless_run_driver
Queue     == [was |-> {}, next |-> "queued"]  \* enqueue_live_action, in an agent turn
Nobody    == [was |-> {}, next |-> "none"]    \* ... outside of one

Callers == {Headless, Queue, Nobody}

GoesOn(r, w, m) ==
  LET action == [step |-> m.step, cleared |-> m.cleared, at |-> w.next]
      left   == driver[r] \ w.was
  IN IF w.next = "none"
     THEN driver' = [driver EXCEPT ![r] = left]
     ELSE /\ driver' = [driver EXCEPT ![r] = left \cup {action}]
          /\ Cardinality(left) < MaxDrivers

Leaves(r, w) == driver' = [driver EXCEPT ![r] = @ \ w.was]

\* release_claim, whose failure is only logged.
Release(r, c, lease) ==
  \/ SetLease(r, "none") /\ marked' = marked \ {r} /\ Failures(c.failed)
  \/ SetLease(r, lease) /\ UNCHANGED marked /\ Failures(c.failed + 1)

\* persist_active: renew the claim, then save best-effort.
Persist(r, m, c) ==
  /\ Cache(r, m)
  /\ \E lease \in Renewals(c.lease) : SetLease(r, lease)
  /\ \/ Save(r, m) /\ Failures(c.failed)
     \/ Save(r, c.row) /\ Failures(c.failed + 1)
  /\ UNCHANGED <<marked, pendingPersist>>

\* Broken on purpose: the claim goes though the snapshot was not saved.
ParkAndRelease(r, m, c) ==
  /\ Cache(r, m)
  /\ \E lease \in Renewals(c.lease) :
       \/ /\ Save(r, m)
          /\ pendingPersist' = pendingPersist \ {r}
          /\ Release(r, c, lease)
       \/ /\ Save(r, c.row)
          /\ pendingPersist' = pendingPersist \cup {r}
          /\ Release(r, Fail(c), lease)

\* persist_parked_snapshot_then_release_claim, with room in the pending pool.
ParkThenRelease(r, m, c) ==
  /\ Cache(r, m)
  /\ \E lease \in Renewals(c.lease) :
       \/ /\ Save(r, m)
          /\ pendingPersist' = pendingPersist \ {r}
          /\ Release(r, c, lease)
       \/ /\ Save(r, c.row)
          /\ SetLease(r, lease)
          /\ pendingPersist' = pendingPersist \cup {r}
          /\ Failures(c.failed + 1)
          /\ UNCHANGED marked

\* Broken on purpose: the mark for a tick to cancel the run stays.
ForgetBudget(r) ==
  /\ pendingPersist' = pendingPersist \ {r}
  /\ retained' = retained \ {r}
  /\ budgetReady' = budgetReady \ {r}
  /\ UNCHANGED cancelReady

\* What the engine tracks of a run goes when the run ends.
Forget(r) ==
  /\ pendingPersist' = pendingPersist \ {r}
  /\ retained' = retained \ {r}
  /\ cancelReady' = cancelReady \ {r}
  /\ budgetReady' = budgetReady \ {r}

\* finish_run, finish_run_with_gate_event: the terminal snapshot, the end of
\* the claim and the event row are one store outcome.
FinishOk(r, m, outcome, c) ==
  /\ Save(r, [m EXCEPT !.status = outcome])
  /\ SetLease(r, "none")
  /\ marked' = marked \ {r}
  /\ Cache(r, NoRun)
  /\ Forget(r)
  /\ Failures(c.failed)

\* The run stays as it was built so far, with its claim.
FinishFails(r, m, c) ==
  /\ Cache(r, m)
  /\ Save(r, c.row)
  /\ SetLease(r, c.lease)
  /\ Failures(c.failed + 1)
  /\ UNCHANGED <<marked, pendingPersist>>

\* A run that reaches its end while it is being routed.
EndRun(r, m, outcome, c, w) ==
  /\ Leaves(r, w)
  /\ \/ FinishOk(r, m, outcome, c)
     \/ FinishFails(r, m, c) /\ UNCHANGED <<retained, cancelReady, budgetReady>>

\* mark_step_pending
HoldPending(r, m, s, c, w) ==
  /\ Persist(r, PendedAt(r, m, s), c)
  /\ Leaves(r, w)
  /\ UNCHANGED <<retained, cancelReady, budgetReady>>

\* Admission and the pending pool are judged on the store, or on the cache when
\* the store cannot be read (one failed call).  In the cache r is not parked.
Surveys(r, c) ==
  {[runs |-> [stored EXCEPT ![r] = c.row], executing |-> Claimed, c |-> c],
   [runs |-> [active EXCEPT ![r] = NoRun], executing |-> InStatus(active, Executing),
    c |-> Fail(c)]}

\* Reaching a gate.  The pool is judged before parking and again inside the save.
ReachGate(r, m, c, w) ==
  \E v \in Surveys(r, c) :
    LET full == PoolFull(SopOf[r], v.runs) \/ PoolFullFor(r)
    IN \/ full /\ HoldPending(r, m, m.step, v.c, w)
       \/ /\ ~full
          /\ ParkThenRelease(r, ParkedAt(r, m), v.c)
          /\ Leaves(r, w)
          /\ UNCHANGED <<retained, cancelReady, budgetReady>>

\* dispatch_llm_step / dispatch_deterministic_step: go on at step s.
Reach(r, m, s, c, w) ==
  \/ HoldPending(r, m, s, c, w)                \* dependencies not satisfied
  \/ /\ ~Gate(r, s)
     /\ Persist(r, At(m, s), c)
     /\ GoesOn(r, w, At(m, s))
     /\ UNCHANGED <<retained, cancelReady, budgetReady>>
  \/ Gate(r, s) /\ ReachGate(r, At(m, s), c, w)

Enter(r, m, s, c, w) ==
  \/ EndRun(r, m, "Failed", c, w)              \* visit bound reached
  \/ EndRun(r, At(m, s), "Failed", c, w)       \* input schema violated
  \/ Reach(r, m, s, c, w)

\* persist_deterministic_state fails before a checkpoint parks: the run is
\* left Running at the checkpoint.
StateFileFails(r, m, c, w) ==
  /\ KindAt(r, m.step) = "checkpoint"
  /\ \E v \in Surveys(r, c) :
       ~PoolFull(SopOf[r], v.runs) /\ Failures(v.c.failed + 1)
  /\ Cache(r, m)
  /\ Save(r, c.row)
  /\ SetLease(r, c.lease)
  /\ Leaves(r, w)
  /\ UNCHANGED <<marked, trackVars>>

Dispatch(r, m, s, c, w) ==
  Enter(r, m, s, c, w) \/ StateFileFails(r, At(m, s), c, w)

-----------------------------------------------------------------------------
(* Starting a run *)

\* Broken on purpose: a parked run does not keep others from starting.
AdmitsBesideParked(s, v) ==
  /\ ~PoolFull(s, v.runs)
  /\ Policy[s] \in {"Hold", "Coalesce"} => OfSop(s, v.executing) = {}

\* evaluate_admission.  A declined start changes nothing and is not a step.
Admits(s, v) ==
  /\ ~PoolFull(s, v.runs)
  /\ Policy[s] \in {"Hold", "Coalesce"} =>
       OfSop(s, v.executing \cup InStatus(v.runs, Parked)) = {}

FirstStep ==
  [status |-> "Running", step |-> 1, results |-> {}, cleared |-> FALSE]

\* rollback_failed_start: the state file of a checkpoint at step 1 could not be
\* written.
StartFails(r, c) ==
  /\ KindAt(r, 1) = "checkpoint"
  /\ Release(r, Fail(c), "fresh")
  /\ UNCHANGED <<stored, active, trackVars, driver>>

\* start_run: reserve the slot, then activate the run and enter step 1, on behalf
\* of a spawned driver or of an agent.  Run ids are unique: one is used again only
\* when nothing is left of its last run.
Fresh(r) ==
  /\ active[r] = NoRun
  /\ stored[r] = NoRun
  /\ driver[r] = {}
  /\ r \notin budgetReady

Start(r) ==
  /\ tick = "idle"
  /\ Fresh(r)
  /\ CanClaim(r)
  /\ \E v \in Surveys(r, Takes(r)) :
       /\ Admits(SopOf[r], v)
       /\ \/ \E w \in Callers : Enter(r, FirstStep, 1, v.c, w)
          \/ StartFails(r, v.c)
  /\ UNCHANGED tickVars

-----------------------------------------------------------------------------
(* Driving a run *)

\* Broken on purpose: a cancellation that could not be saved is left at that.
FinishCancellingOnce(r, m, w) ==
  /\ Leaves(r, w)
  /\ \/ FinishOk(r, m, "Cancelled", Holds(r))
     \/ FinishFails(r, m, Holds(r)) /\ UNCHANGED <<retained, cancelReady, budgetReady>>

\* finish_requested_cancellation for a run whose request is recorded; the
\* attempts it makes are one call.  m is the run as it stands.
FinishCancelling(r, m, w) ==
  /\ Leaves(r, w)
  /\ \/ FinishOk(r, m, "Cancelled", Holds(r))
     \/ /\ FinishFails(r, m, Holds(r))
        /\ cancelReady' = cancelReady \cup {r}
        /\ UNCHANGED <<retained, budgetReady>>

\* Broken on purpose: routes on without looking for a cancellation.
RouteAnyway(r, m, w) ==
  \/ \E s \in Steps : Dispatch(r, m, s, Holds(r), w)
  \/ EndRun(r, m, "Completed", Holds(r), w)

\* route_recorded_step: cancellation first, then the routing decision.
Route(r, m, w) ==
  IF m.status = "CancelRequested"
  THEN FinishCancelling(r, m, w)
  ELSE \/ \E s \in Steps : Dispatch(r, m, s, Holds(r), w)     \* Step, Retry
       \/ \E s \in Steps : HoldPending(r, m, s, Holds(r), w)  \* Wait
       \/ EndRun(r, m, "Completed", Holds(r), w)
       \/ EndRun(r, m, "Failed", Holds(r), w)

\* The result counts as one of the step the run is at, whichever step it is of.
Recorded(r) == WithResult(r, active[r], active[r].step)

\* advance_step takes no result for a parked run or one pending at a gate.
Advanceable(r) ==
  /\ Is(r, Executing)
  /\ Is(r, {"Pending"}) => ~Gate(r, active[r].step)

Advance(r, w) == Advanceable(r) /\ Route(r, Recorded(r), w)

\* A driver whose run has gone, or does not take its result, ends.
DriverRefused(r, d) ==
  /\ Leaves(r, Driver(d))
  /\ UNCHANGED <<storeVars, active, trackVars>>

\* drive_headless_run: the step boundary before an agent turn.  Whether the run is
\* still at the step is not asked.
Boundary(r) ==
  /\ tick = "idle"
  /\ ~Deterministic(r)
  /\ \E d \in driver[r] :
       /\ d.at = "ready"
       /\ IF Is(r, {"CancelRequested"})
          THEN FinishCancelling(r, active[r], Driver(d))
          ELSE /\ driver' = [driver EXCEPT ![r] = (@ \ {d}) \cup {[d EXCEPT !.at = "turn"]}]
               /\ cancelReady' = cancelReady \ {r}
               /\ UNCHANGED <<storeVars, active, pendingPersist, retained, budgetReady>>
  /\ UNCHANGED tickVars

\* The agent turn returns and its driver advances the run, wherever that is now.
TurnEnds(r) ==
  /\ tick = "idle"
  /\ ~Deterministic(r)
  /\ \E d \in driver[r] :
       /\ d.at # "ready"
       /\ Advance(r, Driver(d)) \/ (~Advanceable(r) /\ DriverRefused(r, d))
  /\ UNCHANGED tickVars

\* The agent turn an action is queued in is cancelled, or fails, before it.
TurnAborts(r) ==
  /\ tick = "idle"
  /\ \E d \in driver[r] : d.at = "queued" /\ DriverRefused(r, d)
  /\ UNCHANGED tickVars

\* advance_headless_deterministic_step: boundary and capability in one call, which
\* executes the step in hand wherever the run is now.
CapabilityStep(r) ==
  /\ tick = "idle"
  /\ Deterministic(r)
  /\ \E d \in driver[r] :
       IF active[r] # NoRun THEN Route(r, Recorded(r), Driver(d)) ELSE DriverRefused(r, d)
  /\ UNCHANGED tickVars

\* The sop_advance tool, from any agent, whoever drives the run.
ToolAdvance(r) ==
  /\ tick = "idle"
  /\ SopOf[r] \notin ToolsCutIn => driver[r] = {}
  /\ \E w \in {Queue, Nobody} : Advance(r, w)
  /\ UNCHANGED tickVars

\* fail_headless_step_budget, which does not look at the run's status.
FailBudget(r) ==
  \/ FinishOk(r, active[r], "Failed", Holds(r))
  \/ /\ FinishFails(r, active[r], Holds(r))
     /\ budgetReady' = budgetReady \cup {r}
     /\ UNCHANGED <<retained, cancelReady>>

\* The driver's step budget is spent while it holds the next action.
BudgetSpent(r) ==
  /\ tick = "idle"
  /\ \E d \in driver[r] : (d.at = "ready" \/ Deterministic(r)) /\ Leaves(r, Driver(d))
  /\ IF active[r] # NoRun
     THEN FailBudget(r)
     ELSE /\ budgetReady' = budgetReady \cup {r}
          /\ UNCHANGED <<storeVars, active, pendingPersist, retained, cancelReady>>
  /\ UNCHANGED tickVars

-----------------------------------------------------------------------------
(* Operators *)

\* Broken on purpose: a driver starts whatever became of the gate.
GateDriven(r, m, w) ==
  /\ Cache(r, m)
  /\ Save(r, m)
  /\ SetLease(r, "fresh")
  /\ GoesOn(r, Headless, m)
  /\ UNCHANGED <<marked, faults, trackVars>>

\* resolve_gate, Approve: claim the slot back, then commit the cleared gate (or the
\* wait for dependencies, or the failed run) with its ledger row; if that fails, put
\* the park back and give the claim up.  Refusals (not waiting, snapshot not durable,
\* at capacity) change nothing.
GateCleared(r, m, w) ==
  /\ Cache(r, m)
  /\ Save(r, m)
  /\ SetLease(r, "fresh")
  /\ GoesOn(r, w, m)
  /\ UNCHANGED <<marked, faults, trackVars>>

ApproveGate(r, w) ==
  /\ Is(r, {"WaitingApproval"})
  /\ r \notin pendingPersist
  /\ CanClaim(r)
  /\ \/ GateCleared(r, [active[r] EXCEPT !.status = "Running", !.cleared = TRUE], w)
     \/ GateCleared(r, PendedAt(r, active[r], active[r].step), Nobody)  \* dependencies
     \/ FinishOk(r, active[r], "Failed", Takes(r)) /\ UNCHANGED driver      \* input schema
     \/ /\ Release(r, Fail(Takes(r)), "fresh")
        /\ UNCHANGED <<stored, active, trackVars, driver>>

\* A person approves, on a surface that spawns a driver or by way of sop_approve.
Approve(r) ==
  /\ tick = "idle"
  /\ \E w \in Callers : ApproveGate(r, w)
  /\ UNCHANGED tickVars

\* cancel_run_with_reason_and_actor, resolve_gate with Deny: end a run that is
\* not executing a step.  A failed terminal write changes nothing.
EndNow(r) ==
  /\ \/ FinishOk(r, active[r], "Cancelled", Holds(r))
     \/ FinishFails(r, active[r], Holds(r)) /\ UNCHANGED <<retained, cancelReady, budgetReady>>
  /\ UNCHANGED driver

Deny(r) ==
  /\ tick = "idle"
  /\ Is(r, {"WaitingApproval"})
  /\ EndNow(r)
  /\ UNCHANGED tickVars

\* request_run_cancellation: the status and its event are saved together, or the
\* run is left as it was.
RequestCancel(r) ==
  LET m == [active[r] EXCEPT !.status = "CancelRequested"]
  IN /\ \E lease \in Renewals(claims[r]) : SetLease(r, lease)
     /\ \/ Cache(r, m) /\ Save(r, m) /\ Failures(0)
        \/ UNCHANGED <<active, stored>> /\ Failures(1)
     /\ UNCHANGED <<marked, trackVars, driver>>

\* cancel_run_idempotent
Cancel(r) ==
  /\ tick = "idle"
  /\ \/ Is(r, {"Running"}) /\ RequestCancel(r)
     \/ Is(r, {"Pending"} \cup Parked) /\ EndNow(r)
  /\ UNCHANGED tickVars

-----------------------------------------------------------------------------
(* The maintenance tick: each phase visits the runs it found at its start. *)

Visit(phase, r) ==
  /\ tick = phase
  /\ r \in todo
  /\ todo' = todo \ {r}
  /\ UNCHANGED tick

\* Any approval may have waited past its timeout by now.
TickBegins ==
  /\ tick = "idle"
  /\ tick' = "timeouts"
  /\ todo' \in SUBSET (InStatus(active, {"WaitingApproval"}) \ pendingPersist)
  /\ UNCHANGED <<storeVars, active, trackVars, driver>>

PhaseEnds ==
  /\ todo = {}
  /\ \/ tick = "timeouts" /\ tick' = "parks" /\ todo' = pendingPersist
     \/ tick = "parks" /\ tick' = "pends" /\ todo' = InStatus(active, {"Pending"})
     \/ tick = "pends" /\ tick' = "budgets" /\ todo' = budgetReady
     \/ tick = "budgets" /\ tick' = "cancels" /\ todo' = cancelReady
  /\ UNCHANGED <<storeVars, active, trackVars, driver>>

\* restamp_waiting_with_gate_event: the run is saved again, still parked.
Escalate(r) ==
  /\ \E lease \in Renewals(claims[r]) : SetLease(r, lease)
  /\ \/ Save(r, active[r]) /\ Failures(0)
     \/ UNCHANGED stored /\ Failures(1)
  /\ UNCHANGED <<active, marked, trackVars, driver>>

\* apply_timeout_action.  An automatic approval that is refused changes nothing,
\* and one that succeeds starts no driver.
TimeOut(r) ==
  /\ Visit("timeouts", r)
  /\ \/ TimeoutAction = "Escalate" /\ Escalate(r)
     \/ TimeoutAction = "Cancel" /\ EndNow(r)
     \/ TimeoutAction = "AutoApprove" /\ ApproveGate(r, Nobody)
     \/ /\ TimeoutAction = "AutoApprove"
        /\ Failures(IF CanClaim(r) THEN 1 ELSE 0)
        /\ UNCHANGED <<stored, claims, marked, active, trackVars, driver>>

\* Broken on purpose: renews the claim but does not try to save again.
RenewPark(r) ==
  /\ Visit("parks", r)
  /\ \E lease \in Renewals(claims[r]) : SetLease(r, lease)
  /\ UNCHANGED <<stored, marked, faults, active, trackVars, driver>>

\* retry_pending_park_persists
RetryPark(r) ==
  /\ Visit("parks", r)
  /\ \/ ~PoolFullFor(r) /\ ParkThenRelease(r, active[r], Holds(r))
     \/ /\ PoolFullFor(r)
        /\ \E lease \in Renewals(claims[r]) : SetLease(r, lease)
        /\ UNCHANGED <<stored, marked, faults, active, pendingPersist>>
  /\ UNCHANGED <<retained, cancelReady, budgetReady, driver>>

\* retry_capacity_blocked_gated_pends.  A run that is pending at no gate, or for
\* which the pool is still full, is passed over.
RetryPend(r) ==
  /\ Visit("pends", r)
  /\ IF Gate(r, active[r].step)
     THEN \E v \in Surveys(r, Holds(r)) :
            IF PoolFull(SopOf[r], v.runs)
            THEN /\ Failures(v.c.failed)
                 /\ UNCHANGED <<stored, claims, marked, active, trackVars, driver>>
            ELSE \/ ~PoolFullFor(r) /\ ParkThenRelease(r, ParkedAt(r, active[r]), v.c)
                    /\ UNCHANGED <<retained, cancelReady, budgetReady, driver>>
                 \/ PoolFullFor(r) /\ HoldPending(r, active[r], active[r].step, v.c, Nobody)
                 \/ /\ KindAt(r, active[r].step) = "checkpoint"  \* state file fails
                    /\ Failures(v.c.failed + 1)
                    /\ UNCHANGED <<stored, claims, marked, active, trackVars, driver>>
     ELSE UNCHANGED <<storeVars, active, trackVars, driver>>

\* Broken on purpose: takes any run it cannot fail for one to cancel.
FinalizeAnyBudget(r) ==
  /\ Visit("budgets", r)
  /\ \/ Is(r, {"Running"}) /\ FailBudget(r)
     \/ /\ ~Is(r, {"Running"})
        /\ budgetReady' = budgetReady \ {r}
        /\ cancelReady' = cancelReady \cup {r}
        /\ UNCHANGED <<storeVars, active, pendingPersist, retained>>
  /\ UNCHANGED driver

\* retry_ready_step_budget_finalizations
FinalizeBudget(r) ==
  /\ Visit("budgets", r)
  /\ \/ Is(r, {"Running"}) /\ FailBudget(r)
     \/ /\ ~Is(r, {"Running"})
        /\ budgetReady' = budgetReady \ {r}
        /\ cancelReady' = IF Is(r, {"CancelRequested"})
                          THEN cancelReady \cup {r} ELSE cancelReady
        /\ UNCHANGED <<storeVars, active, pendingPersist, retained>>
  /\ UNCHANGED driver

\* retry_ready_cancellation_finalizations
FinalizeCancel(r) ==
  /\ Visit("cancels", r)
  /\ \/ FinishOk(r, active[r], "Cancelled", Holds(r))
     \/ FinishFails(r, active[r], Holds(r)) /\ UNCHANGED <<retained, cancelReady, budgetReady>>
  /\ UNCHANGED driver

\* Broken on purpose: only running runs count as executing.
RunningHeartbeats ==
  {r \in Claimed : Is(r, {"Running"}) \/ (r \in retained /\ Is(r, Parked))}

\* Broken on purpose: renews every claim there is.
AllHeartbeats == Claimed

\* heartbeat_active_claims
Heartbeats ==
  {r \in Claimed : Is(r, Executing) \/ (r \in retained /\ Is(r, Parked))}

\* heartbeat_active_claims, then reap_expired_claims, then prune_terminal_runs.
TickEnds ==
  LET beats  == Heartbeats
      over   == InStatus(stored, Terminal)
      excess == IF MaxFinished > 0 /\ Cardinality(over) > MaxFinished
                THEN Cardinality(over) - MaxFinished ELSE 0
  IN /\ tick = "cancels"
     /\ todo = {}
     /\ tick' = "idle"
     /\ \E missed \in (IF HeartbeatMayFail THEN SUBSET beats ELSE {{}}) :
          LET expired == {r \in Claimed \ (beats \ missed) : claims[r] = "lapsed"}
          IN \E kept \in SUBSET expired :     \* their release fails
               /\ claims' = [r \in Runs |-> IF r \in expired \ kept THEN "none"
                                            ELSE IF r \in beats \ missed THEN "fresh"
                                            ELSE claims[r]]
               /\ marked' = marked \ (expired \ kept)
               /\ Failures(Cardinality(kept))
     /\ \E pruned \in {ps \in SUBSET over : Cardinality(ps) = excess} :
          stored' = [r \in Runs |-> IF r \in pruned THEN NoRun ELSE stored[r]]
     /\ UNCHANGED <<active, trackVars, driver, todo>>

-----------------------------------------------------------------------------
(* Time and crashes *)

\* An hour without a heartbeat, which no tick spans.
LeaseLapses(r) ==
  /\ tick = "idle"
  /\ claims[r] = "fresh"
  /\ claims' = [claims EXCEPT ![r] = "lapsed"]
  /\ UNCHANGED <<stored, marked, faults, active, trackVars, driver, tickVars>>

\* What restore_runs makes of a saved run: its first store call (the marker
\* lookup or the claim renewal) fails for the runs of bad, a later one (the
\* release, the heartbeat or the final write) for those of worse.
Restores(r, bad, worse) ==
  LET m == stored[r]
  IN IF m.status \in Parked
     THEN LET keeps == (r \in marked \/ r \in bad) /\ m.step \notin m.results
          IN [run |-> m, row |-> m, retains |-> keeps, cancels |-> FALSE,
              marks |-> r \in marked /\ (keeps \/ r \in worse),
              lease |-> IF keeps
                        THEN IF r \in worse \/ claims[r] = "none" THEN claims[r] ELSE "fresh"
                        ELSE IF r \in worse THEN claims[r] ELSE "none"]
     ELSE IF r \in bad
     THEN [run |-> NoRun, row |-> m, retains |-> FALSE, cancels |-> FALSE,
           marks |-> r \in marked, lease |-> claims[r]]
     ELSE IF m.status = "CancelRequested" /\ r \notin worse
     THEN [run |-> NoRun, row |-> [m EXCEPT !.status = "Cancelled"], retains |-> FALSE,
           cancels |-> FALSE, marks |-> FALSE, lease |-> "none"]
     ELSE [run |-> m, row |-> m, retains |-> FALSE,
           cancels |-> m.status = "CancelRequested", marks |-> FALSE, lease |-> "fresh"]

\* A crash between two store calls of an action is that action with its later
\* calls failing, then this one.  The process comes back and restores its runs,
\* or cannot list them and comes back empty.
Restart ==
  /\ pendingPersist' = {}
  /\ budgetReady' = {}
  /\ driver' = [r \in Runs |-> {}]
  /\ tick' = "idle"
  /\ todo' = {}
  /\ \/ /\ RestoreMayFail
        /\ Failures(2)
        /\ active' = [r \in Runs |-> NoRun]
        /\ retained' = {}
        /\ cancelReady' = {}
        /\ UNCHANGED <<stored, claims, marked>>
     \/ \E bad \in (IF RestoreMayFail THEN SUBSET Restorable ELSE {{}}),
           worse \in SUBSET Restorable :
          LET back == [r \in Restorable |-> Restores(r, bad, worse)]
          IN /\ Failures(1 + Cardinality(bad) + Cardinality(worse))
             /\ active' = [r \in Runs |-> IF r \in Restorable THEN back[r].run ELSE NoRun]
             /\ stored' = [r \in Runs |-> IF r \in Restorable THEN back[r].row ELSE stored[r]]
             /\ claims' = [r \in Runs |-> IF r \in Restorable THEN back[r].lease ELSE claims[r]]
             /\ marked' = {r \in marked : r \in Restorable => back[r].marks}
             /\ retained' = {r \in Restorable : back[r].retains}
             /\ cancelReady' = {r \in Restorable : back[r].cancels}

-----------------------------------------------------------------------------

\* Steps of one engine call on a run, while no tick holds the mutex.
Operate(r) ==
  \/ Start(r) \/ Boundary(r) \/ TurnEnds(r) \/ TurnAborts(r)
  \/ CapabilityStep(r) \/ ToolAdvance(r)
  \/ BudgetSpent(r) \/ Approve(r) \/ Deny(r) \/ Cancel(r) \/ LeaseLapses(r)

Maintain(r) ==
  TimeOut(r) \/ RetryPark(r) \/ RetryPend(r) \/ FinalizeBudget(r) \/ FinalizeCancel(r)

Tick == TickBegins \/ PhaseEnds \/ (\E r \in Runs : Maintain(r)) \/ TickEnds

Next == (\E r \in Runs : Operate(r)) \/ Tick \/ Restart

Spec == Init /\ [][Next]_vars

\* The maintenance loop runs for ever and a tick runs to its end; time passes;
\* the mutex is free between ticks, so whoever keeps asking gets it.
FairSpec ==
  /\ Spec
  /\ WF_vars(TickBegins) /\ WF_vars(PhaseEnds) /\ WF_vars(TickEnds)
  /\ \A r \in Runs : /\ WF_vars(Maintain(r))
                     /\ SF_vars(Boundary(r) \/ TurnEnds(r) \/ CapabilityStep(r))
                     /\ SF_vars(LeaseLapses(r))

-----------------------------------------------------------------------------
(* Properties of a process that shares its store with no other *)

\* A run that may be executing a step holds a claim row, so no other run can be
\* admitted into its slot (holds_exec_claim, heartbeat_active_claims, restore_runs).
ClaimBacksExecution ==
  \A r \in InStatus(active, Executing) : claims[r] # "none"

\* A live run gives its claim back only once its parked snapshot is durable: no
\* run is ever both claimless and unsaved
\* (persist_parked_snapshot_then_release_claim).
ParkDurableBeforeRelease ==
  \A r \in Known(active) : claims[r] = "none" => r \in InStatus(stored, Parked)

\* A run whose park is not saved yet is parked in the cache and keeps its claim
\* until a tick saves it, however long that takes (retry_pending_park_persists).
PendingKeepsClaim ==
  \A r \in pendingPersist : Is(r, Parked) /\ claims[r] # "none"

\* A run whose cancellation a tick may finish has asked for it (cancellation_
\* finalization_ready): the tick never cancels a run nobody cancelled.
CancelReadyCancelling ==
  \A r \in cancelReady : Is(r, {"CancelRequested"})

\* No more runs of an SOP wait durably for a person than max_pending_approvals,
\* whichever way they got there (save_run_with_pending_capacity).
PendingPoolBound ==
  \A s \in Sops : MaxPending[s] > 0 =>
    Cardinality(OfSop(s, InStatus(stored, Parked))) <= MaxPending[s]

\* No more runs execute at once than max_concurrent and max_concurrent_total
\* allow, across parking, resuming and restarts (try_claim_run).
ExecutionWithinCap ==
  LET executing == InStatus(active, Executing)
  IN /\ \A s \in Sops : Cardinality(OfSop(s, executing)) <= MaxConcurrent[s]
     /\ Cardinality(executing) <= MaxTotal

\* An SOP that must not run beside itself has one live run at a time, a parked run
\* counting as live (evaluate_admission under Hold and Coalesce).
HoldSerialises ==
  \A s \in Sops : Policy[s] \in {"Hold", "Coalesce"} =>
    Cardinality(OfSop(s, Known(active))) <= 1

\* While a process is up it knows every run its store says is unfinished, and
\* none the store says is over (restore_runs, finish_run).
NoRunForgotten ==
  /\ InStatus(stored, Parked \cup Executing) \subseteq Known(active)
  /\ InStatus(stored, Terminal) \cap Known(active) = {}

\* Nothing is left of a run that is over: no claim, no mark, no work for the tick
\* (finish_run).
EndedLeavesNothing ==
  InStatus(stored, Terminal)
    \cap (Claimed \cup marked \cup pendingPersist \cup retained \cup cancelReady) = {}

\* No gated step is worked on that was not approved: whoever works on one holds an
\* action of an approval, wherever tools and other drivers took the run since, and
\* no row a restart goes by says a run is at one otherwise, whatever failed, was
\* denied or timed out before (resolve_step_action, resolve_gate, restore_runs).
GateBeforeTurn ==
  \A r \in Runs :
    /\ \A d \in driver[r] : Gate(r, d.step) => d.cleared
    /\ r \in InStatus(stored, {"Running"}) /\ KindAt(r, stored[r].step) = "gated"
         => stored[r].cleared

\* The drivers of a run whose agents have its action.
Working(ds) == {d \in ds : d.at # "ready"}

\* A requested cancellation sticks: the run never goes back to work, not even
\* across a restart, and no driver gets into an agent turn after it
\* (route_recorded_step, drive_headless_run, restore_runs).
CancelSticks ==
  [][\A r \in InStatus(stored, {"CancelRequested"}) :
       /\ stored'[r].status \in {"CancelRequested", "Cancelled", "Failed"}
       /\ Working(driver'[r]) \subseteq Working(driver[r])]_vars

\* Cancelling a run that a headless driver drives ends the run, though the write
\* that ends it fails or the process restarts (finish_requested_cancellation).
CancelCompletes ==
  \A r \in Runs :
    Is(r, {"CancelRequested"}) /\ (\E d \in driver[r] : d.at # "queued")
      ~> active[r] = NoRun /\ r \notin InStatus(stored, Executing)

\* A park that could not be saved is saved in the end, unless the pool fills up
\* again and again (retry_pending_park_persists).
ParkSettles ==
  \A r \in Runs : <>[](r \in pendingPersist) => []<>PoolFullFor(r)

\* A claim without a live run is given back in the end (reap_expired_claims).
OrphansReclaimed ==
  \A r \in Runs : active[r] = NoRun /\ claims[r] # "none"
                    ~> claims[r] = "none" \/ active[r] # NoRun

\* A run held back from its gate by a full pending pool reaches the gate, unless
\* the pool fills up again and again (retry_capacity_blocked_gated_pends).
PendAdmitted ==
  \A r \in Runs :
    <>[](Is(r, {"Pending"}) /\ Gate(r, active[r].step))
      => []<>(Cardinality(OfSop(SopOf[r], InStatus(stored, Parked))) >= MaxPending[SopOf[r]])

-----------------------------------------------------------------------------
(* The engine keeps the promise of SopLifecycle *)

StatusOf(m) == IF m = NoRun THEN "none" ELSE m.status

Lifecycle == INSTANCE SopLifecycle
  WITH status <- [r \in Runs |-> StatusOf(stored[r])], slots <- Claimed

\* Every step of the engine, its tick and its restarts is a step of the life
\* cycle, or one no reader of the store can see.
KeepsLifecycle == Lifecycle!Spec

-----------------------------------------------------------------------------
(* What a comment in the code says of it, and it does not do *)

\* A run completes at a checkpoint or gated step only if a person approved it:
\* a checkpoint "pauses execution and waits for human approval" (SopStepKind).
CompletesOnlyPastGate ==
  [][\A r \in InStatus(active, {"Running"}) :
       active'[r] = NoRun /\ stored'[r] # NoRun =>
         (stored'[r].status = "Completed" /\ Gate(r, active[r].step) => active[r].cleared)]_vars
=============================================================================
