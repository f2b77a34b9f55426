--------------------------- MODULE SopCheckpoint ---------------------------
(***************************************************************************)
(* Decisions on the checkpoints of deterministic SOPs, added to the engine *)
(* they are made in.  Every surface a person has decides through the       *)
(* approval broker (resolve_via_broker: CheckpointSpec); approve_step and  *)
(* deny_checkpoint are the engine's own public calls (DirectSpec).         *)
(*                                                                         *)
(* An approval takes a slot like any resumption.  A denial goes where      *)
(* the checkpoint's failure policy says: one that ends the run takes its   *)
(* claim whether or not a slot is free, and keeps it, marked, while the    *)
(* end of the run cannot be saved.                                         *)
(*                                                                         *)
(* The capabilities after a checkpoint run under the driver; the inline    *)
(* tail (drive_inline_capability_tail) is the same steps with nothing in   *)
(* between.                                                                *)
(***************************************************************************)
EXTENDS SopEngine

Decidable(r) ==
  /\ tick = "idle"
  /\ Is(r, {"PausedCheckpoint"})
  /\ r \notin pendingPersist

\* The run once the decision on its checkpoint is recorded.
Decided(r, approved) ==
  WithResult(r, [active[r] EXCEPT !.status = "Running", !.cleared = approved], active[r].step)

\* The decision is withdrawn and its claim given up.
Withdraw(r) == Release(r, Fail(Takes(r)), "fresh")

\* Broken on purpose: goes on whether or not a slot is free.
OnwardUncapped(r, approved) ==
  LET m == Decided(r, approved)
  IN \E s \in Steps : Dispatch(r, m, s, [Takes(r) EXCEPT !.row = m], Headless)

\* decide_checkpoint_with_principal, when the run goes on: the decision is saved
\* with its ledger row, then the run is routed.
DecideOnward(r, approved) ==
  LET m == Decided(r, approved)
  IN /\ CanClaim(r)
     /\ \/ \E s \in Steps : Dispatch(r, m, s, [Takes(r) EXCEPT !.row = m], Headless)
        \/ Withdraw(r) /\ UNCHANGED <<stored, active, trackVars, driver>>

\* ... when the approved run ends.
DecideApproveEnds(r) ==
  /\ CanClaim(r)
  /\ \E outcome \in {"Completed", "Failed"} :
       FinishOk(r, Decided(r, TRUE), outcome, Takes(r))
  /\ UNCHANGED driver

\* A denial's claim could not be marked.  Taking the claim has cleared the mark.
MarkFails(r) ==
  /\ marked' = marked \ {r}
  /\ \/ SetLease(r, "none")  /\ Failures(1)
     \/ SetLease(r, "fresh") /\ Failures(2)
  /\ UNCHANGED <<stored, active, trackVars, driver>>

\* The end of a denied run could not be saved: it is parked as before, and its
\* claim is kept.
EndRejected(r) ==
  /\ SetLease(r, "fresh")
  /\ marked' = marked \cup {r}
  /\ Failures(1)
  /\ UNCHANGED <<stored, active, pendingPersist, cancelReady, budgetReady, driver>>

\* ... when the denial ends the run.
DecideDenyEnds(r) ==
  \/ FinishOk(r, Decided(r, FALSE), "Failed", Takes(r)) /\ UNCHANGED driver
  \/ EndRejected(r) /\ UNCHANGED retained
  \/ MarkFails(r)

\* revise_checkpoint_with_principal: the draft is written again in a slot and, if
\* that succeeds, the run is saved, parked as it was.
Revise(r) ==
  /\ CanClaim(r)
  /\ \/ Save(r, active[r]) /\ Release(r, Takes(r), "fresh")
     \/ UNCHANGED stored /\ Release(r, Takes(r), "fresh")  \* re-draft fails
     \/ UNCHANGED stored /\ Withdraw(r)
  /\ UNCHANGED <<active, trackVars, driver>>

\* A decision through the broker.
Decide(r) ==
  /\ Decidable(r)
  /\ \/ DecideOnward(r, TRUE) \/ DecideApproveEnds(r)
     \/ DecideOnward(r, FALSE) \/ DecideDenyEnds(r)
     \/ Revise(r)
  /\ UNCHANGED tickVars

CheckpointNext == Next \/ \E r \in Runs : Decide(r)

CheckpointSpec == Init /\ [][CheckpointNext]_vars

-----------------------------------------------------------------------------
(* Decisions through the engine's own calls *)

\* resume_checkpoint_inner: approve and go on.  When the run cannot go on, it is
\* parked again where it got to, and its claim is given up.
ApproveStep(r) ==
  LET m == Decided(r, TRUE)
  IN /\ Decidable(r)
     /\ CanClaim(r)
     /\ \/ \E s \in Steps : Reach(r, m, s, Takes(r), Headless)
        \/ \E outcome \in {"Completed", "Failed"} :
             FinishOk(r, m, outcome, Takes(r)) /\ UNCHANGED driver
        \/ /\ \E x \in {m} \cup {At(m, s) : s \in Steps} :
                Cache(r, [x EXCEPT !.status = "PausedCheckpoint", !.cleared = FALSE])
           /\ Withdraw(r)
           /\ UNCHANGED <<stored, trackVars, driver>>
     /\ UNCHANGED tickVars

\* The runs a continuing denial may lead to.  The pool is judged while the store
\* still counts the run itself as parked.
Onward(r, v) ==
  LET m    == Decided(r, FALSE)
      full == PoolFull(SopOf[r], v.runs) \/ PoolFullFor(r)
  IN {PendedAt(r, m, s) : s \in Steps}
       \cup {At(m, s) : s \in {q \in Steps : ~Gate(r, q)}}
       \cup (IF full THEN {} ELSE {ParkedAt(r, At(m, s)) : s \in {q \in Steps : Gate(r, q)}})

\* The claim is freed, or kept with its mark.
Frees(r, freed) ==
  IF freed THEN SetLease(r, "none")  /\ marked' = marked \ {r}
           ELSE SetLease(r, "fresh") /\ marked' = marked \cup {r}

\* The run was entered at its next step, saved by that (first), and is saved once
\* more (second); then a claim it does not need is released.  If the second save
\* or the release fails, the run is put back in its park.
DenyOnward(r) ==
  \E v \in Surveys(r, Takes(r)), first, second, freed, told \in BOOLEAN :
    \E x \in Onward(r, v) :
      LET parks  == x.status \in Parked
          stays  == second /\ (parks => told)
          failed == v.c.failed + (IF first THEN 0 ELSE 1) + (IF second THEN 0 ELSE 1)
                      + (IF told THEN 0 ELSE 1)
      IN /\ second /\ ~parks => told /\ ~freed
         /\ told /\ (parks \/ ~second) => freed
         /\ ~told /\ freed => parks /\ first
         /\ stored' = IF first \/ second THEN [stored EXCEPT ![r] = x] ELSE stored
         /\ Frees(r, freed)
         /\ IF stays THEN Cache(r, x) ELSE UNCHANGED active
         /\ IF stays /\ x.status = "Running" THEN GoesOn(r, Headless, x) ELSE UNCHANGED driver
         /\ Failures(failed)
         /\ retained' = retained \ {r}
         /\ UNCHANGED <<pendingPersist, cancelReady, budgetReady>>

\* deny_checkpoint: take the claim (within the caps only if the run goes on), mark
\* it, record the denial and route it.
DenyStep(r) ==
  /\ Decidable(r)
  /\ \/ FinishOk(r, Decided(r, FALSE), "Failed", Takes(r)) /\ UNCHANGED driver
     \/ EndRejected(r) /\ retained' = retained \cup {r}
     \/ MarkFails(r)
     \/ CanClaim(r) /\ DenyOnward(r)
  /\ UNCHANGED tickVars

-----------------------------------------------------------------------------

DirectNext == Next \/ \E r \in Runs : ApproveStep(r) \/ DenyStep(r)

DirectSpec == Init /\ [][DirectNext]_vars

-----------------------------------------------------------------------------
(* Properties *)

\* A claim that carries the mark of a denial whose end could not be saved is held by a
\* run parked at its checkpoint, durably: nothing goes on with the run on that claim,
\* whatever else fails (mark_claim_retained_after_terminal_rollback, restore_runs).
MarkedIsParked ==
  \A r \in marked : claims[r] # "none" /\ r \in InStatus(stored, {"PausedCheckpoint"})
=============================================================================
