-------------------------- MODULE SopRecord_proofs --------------------------
(***************************************************************************)
(* What the run store tells of the engine's runs, for any number of runs   *)
(* and any limits: the engine implements SopLifecycle, keeps execution and *)
(* waiting within their limits and leaves nothing behind, also when people *)
(* decide on its checkpoints.                                              *)
(*                                                                         *)
(* SopEngine_proofs shows what the engine keeps of a run; here that is     *)
(* related to the run's row.  The row may be behind the cache, but only as *)
(* far as a later save can make up for (Fits), and what one step does to   *)
(* the row and the claim of its run is a step of the life cycle (Lives).   *)
(* Where tools advance a deterministic run beside its driver, its row may  *)
(* tell otherwise; what needs that not to happen assumes NoneShared.       *)
(* The last section is about decisions through the engine's own calls,     *)
(* which keep the engine's runs in order but not the rows.                 *)
(***************************************************************************)
EXTENDS SopCheckpoint, SopEngine_proofs

Row(r)  == StatusOf(stored[r])
Slot(r) == claims[r] # "none"

\* A run that has not been told of yet, or of which it is told that it works.
Going == {"none", "Pending", "Running"}

Clean(r) ==
  /\ active[r] = NoRun
  /\ claims[r] = "none"
  /\ r \notin marked \cup pendingPersist \cup retained \cup cancelReady

\* What a run's row tells, next to what the engine has of it.
Fits(r) ==
  /\ Row(r) \in Terminal => Clean(r)
  /\ active[r] # NoRun /\ (active[r].status \in {"Pending", "Running"} \/ r \in pendingPersist)
       => Row(r) \in Going
  /\ active[r] # NoRun /\ active[r].status = "CancelRequested" => Row(r) = "CancelRequested"
  /\ active[r] # NoRun /\ active[r].status \in Parked /\ r \notin pendingPersist
       => Row(r) = active[r].status
  /\ active[r] = NoRun /\ Row(r) \in Parked \cup Executing
       => RestoreMayFail /\ driver[r] = {}

\* A wait whose timeout a tick looks at was saved before.
Timely(r) == r \in todo /\ tick = "timeouts" => r \notin pendingPersist

RecInv == Inv /\ \A r \in Runs : Fits(r) /\ Timely(r)

-----------------------------------------------------------------------------
(* What a step does to the row of its run.                                    *)

\* The step of SopLifecycle that the row and the claim take.
Lives(r) ==
  \/ Row(r)' = Row(r) /\ (Row(r) \in Parked \/ (Slot(r)' <=> Slot(r)))
  \/ /\ Row(r)' \in Executing => Slot(r)'
     /\ Row(r)' \in Terminal => ~Slot(r)'
     /\ \/ /\ Row(r) = "none" /\ CanClaim(r)
           /\ Row(r)' \in {"none", "Failed", "Pending", "Running"} \cup Parked
        \/ Row(r) \in Going /\ Slot(r) /\ Row(r)' \in Executing \cup Parked \cup Terminal
        \/ /\ Row(r) \in Parked /\ CanClaim(r)
           /\ Row(r)' \in {"Completed", "Pending", "Running"} \cup Parked
        \/ Row(r) \in Parked \cup {"CancelRequested"} /\ Row(r)' \in {"Failed", "Cancelled"}

\* A run comes to wait in the store only where its SOP has room for it.
Room(r) == Row(r)' \in Parked => Row(r) \in Parked \/ ~PoolFullFor(r)

Sticks(r) ==
  Row(r) = "CancelRequested" =>
    /\ Row(r)' \in {"CancelRequested", "Cancelled", "Failed"}
    /\ Working(driver'[r]) \subseteq Working(driver[r])

\* A step on run r that leaves its row in order.
Told(r) ==
  /\ Fits(r)'
  /\ Room(r)
  /\ Sticks(r)
  /\ ~HeartbeatMayFail => Lives(r)
  /\ marked' \subseteq marked \cup {r}
  /\ r \in marked' \ marked => Slot(r)' /\ Row(r)' = "PausedCheckpoint"
  /\ retained' \subseteq retained

\* A parked run that goes on in a slot.
Resumed(r) == Row(r) \in Parked /\ CanClaim(r)

\* A run that works, or is being started or resumed with the claim it just took.
Underway(r) ==
  \/ /\ Row(r) \in Going
     /\ ~HeartbeatMayFail => Slot(r) \/ (Row(r) = "none" /\ CanClaim(r))
  \/ Resumed(r)

\* What the row of a run under way tells if the rest of the step cannot be saved: what
\* it told, or that the run was resumed.
Behind(r, status) ==
  \/ Row(r) \in Going /\ status = Row(r)
  \/ Resumed(r) /\ status = "Running"

\* Drivers that end, or leave a run to the others, start no work.
LEMMA FewerWorking ==
  ASSUME NEW ds, NEW es \in SUBSET ds
  PROVE  Working(es) \subseteq Working(ds)
  BY DEF Working

LEMMA LeavesFewer ==
  ASSUME StateOK, NEW r \in Runs, NEW w, Leaves(r, w)
  PROVE  driver'[r] \subseteq driver[r]
<1>1. driver'[r] = driver[r] \ w.was
  BY DEF Leaves, StateOK
<1> QED BY <1>1

LEMMA RowOf ==
  ASSUME StateOK, NEW r \in Runs, NEW m \in RunRecord, stored' = [stored EXCEPT ![r] = m]
  PROVE  Row(r)' = m.status /\ stored'[r] = m
<1>1. stored'[r] = m
  BY DEF StateOK, StoreTypeOK
<1> QED BY <1>1, NoRunIsNone DEF Row, StatusOf

LEMMA RowIs ==
  ASSUME StateOK, NEW r \in Runs, NEW row, stored' = [stored EXCEPT ![r] = row]
  PROVE  Row(r)' = StatusOf(row)
  BY DEF Row, StateOK, StoreTypeOK

LEMMA RowKept ==
  ASSUME StateOK, NEW r \in Runs, stored' = [stored EXCEPT ![r] = stored[r]]
  PROVE  Row(r)' = Row(r)
  BY DEF Row, StateOK, StoreTypeOK

\* A run under way whose new state could not be saved.
LEMMA UnsavedTold ==
  ASSUME NEW r \in Runs, Underway(r), Behind(r, Row(r)'),
         NEW m \in RunRecord, active'[r] = m,
         \/ m.status \in {"Pending", "Running"}
         \/ m.status \in Parked /\ r \in pendingPersist',
         ~HeartbeatMayFail => Slot(r)',
         marked' \subseteq marked, retained' \subseteq retained
  PROVE  Told(r)
<1>1. Fits(r)'
  BY NoRunIsNone DEF Behind, Fits, Going, Parked, Executing, Terminal
<1>2. Room(r) /\ Sticks(r)
  BY DEF Behind, Resumed, Room, Sticks, Going, Parked
<1>3. ~HeartbeatMayFail => Lives(r)
  BY DEF Underway, Behind, Resumed, Lives, Going, Parked, Executing, Terminal
<1> QED BY <1>1, <1>2, <1>3 DEF Told

\* A run under way whose new state was saved.
LEMMA SavedTold ==
  ASSUME NEW r \in Runs, Underway(r), NEW m \in RunRecord, Row(r)' = m.status,
         active'[r] = m, r \notin pendingPersist',
         \/ m.status \in {"Pending", "Running"} /\ (~HeartbeatMayFail => Slot(r)')
         \/ m.status \in Parked /\ ~PoolFullFor(r),
         marked' \subseteq marked, retained' \subseteq retained
  PROVE  Told(r)
<1>1. Fits(r)'
  BY NoRunIsNone DEF Fits, Going, Parked, Executing, Terminal
<1>2. Room(r) /\ Sticks(r)
  BY DEF Underway, Resumed, Room, Sticks, Going, Parked
<1>3. ~HeartbeatMayFail => Lives(r)
  BY DEF Underway, Resumed, Lives, Going, Parked, Executing, Terminal
<1> QED BY <1>1, <1>2, <1>3 DEF Told

\* A run of which nothing changes that its row tells of.
LEMMA SameTold ==
  ASSUME NEW r \in Runs, Fits(r), Row(r)' = Row(r), active'[r] = active[r],
         Slot(r)' <=> Slot(r),
         r \in pendingPersist' <=> r \in pendingPersist,
         r \in cancelReady' => r \in cancelReady \/ active[r] # NoRun,
         active[r] = NoRun => driver'[r] \subseteq driver[r],
         Row(r) = "CancelRequested" => Working(driver'[r]) \subseteq Working(driver[r]),
         marked' \subseteq marked, retained' \subseteq retained
  PROVE  Told(r)
<1>1. Fits(r)'
  BY DEF Fits, Clean, Slot
<1>2. Room(r) /\ Sticks(r) /\ Lives(r)
  BY DEF Room, Sticks, Lives
<1> QED BY <1>1, <1>2 DEF Told

-----------------------------------------------------------------------------
(* Engine steps over the store                                                *)

\* How the life cycle lets a run end.
Endable(r, outcome) ==
  \/ Row(r) \in Going /\ Slot(r)
  \/ Row(r) = "none" /\ CanClaim(r) /\ outcome = "Failed"
  \/ Row(r) \in Parked \cup {"CancelRequested"} /\ outcome \in {"Failed", "Cancelled"}
  \/ Resumed(r) /\ outcome \in {"Completed", "Failed"}

\* The end of a run.
LEMMA EndedTold ==
  ASSUME StateOK, NEW r \in Runs, NEW m \in RunRecord, NEW outcome \in Terminal, NEW c,
         FinishOk(r, m, outcome, c),
         ~HeartbeatMayFail => Endable(r, outcome),
         Row(r) = "CancelRequested" =>
           outcome # "Completed" /\ Working(driver'[r]) \subseteq Working(driver[r])
  PROVE  Told(r)
<1>1. /\ stored' = [stored EXCEPT ![r] = [m EXCEPT !.status = outcome]]
      /\ claims' = [claims EXCEPT ![r] = "none"]
      /\ marked' = marked \ {r}
      /\ active' = [active EXCEPT ![r] = NoRun]
      /\ pendingPersist' = pendingPersist \ {r}
      /\ retained' = retained \ {r}
      /\ cancelReady' = cancelReady \ {r}
  BY DEF FinishOk, Forget, Save, SetLease, Cache
<1>2. Row(r)' = outcome
  <2>1. /\ [m EXCEPT !.status = outcome] \in RunRecord
        /\ [m EXCEPT !.status = outcome].status = outcome
    BY StatusRecord DEF Status
  <2> QED BY <1>1, <2>1, RowOf
<1>3. Clean(r)' /\ ~Slot(r)'
  BY <1>1 DEF Clean, Slot, StateOK, StoreTypeOK
<1>4. Fits(r)'
  BY <1>2, <1>3 DEF Fits, Clean, Parked, Executing, Terminal
<1>5. Room(r) /\ Sticks(r)
  BY <1>2 DEF Room, Sticks, Parked, Terminal
<1>6. ~HeartbeatMayFail => Lives(r)
  BY <1>2, <1>3 DEF Endable, Resumed, Lives, Going, Parked, Executing, Terminal
<1> QED BY <1>1, <1>4, <1>5, <1>6 DEF Told

\* A call on run r that holds a claim, and has saved the decision that resumes it if
\* that is what it does.
CallOn(r) == {c \in Calls : /\ ~HeartbeatMayFail => c.lease # "none"
                            /\ Behind(r, StatusOf(c.row))
                            /\ c.row = stored[r] \/ Resumed(r)}

LEMMA CallOnFacts ==
  ASSUME NEW r \in Runs, NEW c \in CallOn(r)
  PROVE  /\ c \in Calls
         /\ Behind(r, StatusOf(c.row))
         /\ ~HeartbeatMayFail => c.lease # "none"
  BY DEF CallOn

LEMMA SurveysCallOn ==
  ASSUME NEW r \in Runs, NEW c \in CallOn(r), NEW v \in Surveys(r, c)
  PROVE  v.c \in CallOn(r)
<1>1. v.c \in Calls /\ v.c.lease = c.lease /\ v.c.row = c.row
  BY CallOnFacts, SurveysCall
<1> QED BY <1>1 DEF CallOn

\* A run that executes is saved best-effort.
LEMMA PersistTold ==
  ASSUME StateOK, NEW r \in Runs, Underway(r), r \notin pendingPersist,
         NEW m \in RunRecord, m.status \in {"Pending", "Running"},
         NEW c \in CallOn(r), Persist(r, m, c), retained' = retained
  PROVE  Told(r)
<1>1. /\ active' = [active EXCEPT ![r] = m]
      /\ marked' = marked
      /\ pendingPersist' = pendingPersist
  BY DEF Persist, Cache
<1>2. ~HeartbeatMayFail => Slot(r)'
  <2>1. PICK lease \in Renewals(c.lease) : claims' = [claims EXCEPT ![r] = lease]
    BY DEF Persist, SetLease
  <2>2. ~HeartbeatMayFail => lease # "none"
    BY <2>1, CallOnFacts DEF Renewals
  <2> QED BY <2>1, <2>2 DEF Slot, StateOK, StoreTypeOK
<1>3. active'[r] = m
  BY <1>1 DEF StateOK
<1>4. CASE stored' = [stored EXCEPT ![r] = m]
  BY <1>1, <1>2, <1>3, <1>4, RowOf, SavedTold
<1>5. CASE stored' = [stored EXCEPT ![r] = c.row]
  <2>1. Behind(r, Row(r)')
    BY <1>5, CallOnFacts, RowIs
  <2> QED BY <1>1, <1>2, <1>3, <2>1, UnsavedTold
<1> QED BY <1>4, <1>5 DEF Persist, Save

\* A run parks where there is room.
LEMMA ParkTold ==
  ASSUME StateOK, NEW r \in Runs, Underway(r), ~PoolFullFor(r),
         NEW m \in RunRecord, m.status \in Parked,
         NEW c \in CallOn(r), ParkThenRelease(r, m, c), retained' = retained
  PROVE  Told(r)
<1>1. active'[r] = m
  BY DEF ParkThenRelease, Cache, StateOK
<1>2. PICK lease \in Renewals(c.lease) :
        \/ /\ stored' = [stored EXCEPT ![r] = m]
           /\ pendingPersist' = pendingPersist \ {r}
           /\ Release(r, c, lease)
        \/ /\ stored' = [stored EXCEPT ![r] = c.row]
           /\ claims' = [claims EXCEPT ![r] = lease]
           /\ pendingPersist' = pendingPersist \cup {r}
           /\ marked' = marked
  BY DEF ParkThenRelease, Save, SetLease
<1>3. CASE /\ stored' = [stored EXCEPT ![r] = m]
           /\ pendingPersist' = pendingPersist \ {r}
           /\ Release(r, c, lease)
  <2>1. marked' \subseteq marked
    BY <1>3 DEF Release
  <2> QED BY <1>1, <1>3, <2>1, RowOf, SavedTold
<1>4. CASE /\ stored' = [stored EXCEPT ![r] = c.row]
           /\ claims' = [claims EXCEPT ![r] = lease]
           /\ pendingPersist' = pendingPersist \cup {r}
           /\ marked' = marked
  <2>1. Behind(r, Row(r)')
    BY <1>4, CallOnFacts, RowIs
  <2>2. ~HeartbeatMayFail => Slot(r)'
    BY <1>2, <1>4, CallOnFacts DEF Renewals, Slot, StateOK, StoreTypeOK
  <2> QED BY <1>1, <1>4, <2>1, <2>2, UnsavedTold
<1> QED BY <1>2, <1>3, <1>4

\* A run that could not be ended, or parked, goes on.
LEMMA GoesOnTold ==
  ASSUME StateOK, NEW r \in Runs, Underway(r),
         NEW m \in RunRecord, m.status \in {"Pending", "Running"}, NEW c \in CallOn(r),
         active' = [active EXCEPT ![r] = m],
         stored' = [stored EXCEPT ![r] = c.row],
         claims' = [claims EXCEPT ![r] = c.lease],
         UNCHANGED <<marked, retained>>
  PROVE  Told(r)
<1>1. Behind(r, Row(r)')
  BY CallOnFacts, RowIs
<1>2. active'[r] = m /\ (~HeartbeatMayFail => Slot(r)')
  BY CallOnFacts DEF Slot, StateOK, StoreTypeOK
<1> QED BY <1>1, <1>2, UnsavedTold

LEMMA EndRunTold ==
  ASSUME StateOK, NEW r \in Runs, Underway(r),
         NEW m \in RunRecord, m.status \in {"Pending", "Running"}, NEW c \in CallOn(r),
         NEW outcome \in Terminal, NEW w, EndRun(r, m, outcome, c, w),
         ~HeartbeatMayFail => outcome = "Failed" \/ Slot(r)
  PROVE  Told(r)
<1>1. CASE FinishOk(r, m, outcome, c)
  <2>1. ~HeartbeatMayFail => Endable(r, outcome)
    BY DEF Underway, Resumed, CanClaim, Slot, Endable
  <2>2. Row(r) # "CancelRequested"
    BY DEF Underway, Resumed, Going, Parked
  <2> QED BY <1>1, <2>1, <2>2, EndedTold
<1>2. CASE FinishFails(r, m, c) /\ UNCHANGED <<retained, cancelReady, budgetReady>>
  BY <1>2, GoesOnTold DEF FinishFails, Cache, Save, SetLease
<1> QED BY <1>1, <1>2 DEF EndRun

LEMMA HoldPendingTold ==
  ASSUME StateOK, NEW r \in Runs, Underway(r), r \notin pendingPersist,
         NEW m \in RunRecord, NEW s \in Steps, NEW c \in CallOn(r), NEW w,
         HoldPending(r, m, s, c, w)
  PROVE  Told(r)
<1>1. PendedAt(r, m, s) \in RunRecord /\ PendedAt(r, m, s).status = "Pending"
  BY PendedAtRecord
<1> QED BY <1>1, PersistTold DEF HoldPending

LEMMA ReachGateTold ==
  ASSUME StateOK, NEW r \in Runs, Underway(r), r \notin pendingPersist,
         NEW m \in RunRecord, NEW c \in CallOn(r), NEW w, ReachGate(r, m, c, w)
  PROVE  Told(r)
<1>1. PICK v \in Surveys(r, c) :
        \/ HoldPending(r, m, m.step, v.c, w)
        \/ /\ ~PoolFullFor(r)
           /\ ParkThenRelease(r, ParkedAt(r, m), v.c)
           /\ retained' = retained
  BY DEF ReachGate
<1>2. v.c \in CallOn(r)
  BY SurveysCallOn
<1>3. m.step \in Steps /\ ParkedAt(r, m) \in RunRecord /\ ParkedAt(r, m).status \in Parked
  BY StepInRange, ParkedAtRecord
<1> QED BY <1>1, <1>2, <1>3, HoldPendingTold, ParkTold

LEMMA ReachTold ==
  ASSUME StateOK, NEW r \in Runs, Underway(r), r \notin pendingPersist,
         NEW m \in RunRecord, NEW s \in Steps, NEW c \in CallOn(r), NEW w,
         Reach(r, m, s, c, w)
  PROVE  Told(r)
<1>1. At(m, s) \in RunRecord /\ At(m, s).status = "Running"
  BY AtRecord
<1>2. CASE HoldPending(r, m, s, c, w)
  BY <1>2, HoldPendingTold
<1>3. CASE Persist(r, At(m, s), c) /\ retained' = retained
  BY <1>1, <1>3, PersistTold
<1>4. CASE ReachGate(r, At(m, s), c, w)
  BY <1>1, <1>4, ReachGateTold
<1> QED BY <1>2, <1>3, <1>4 DEF Reach

LEMMA EnterTold ==
  ASSUME StateOK, NEW r \in Runs, Underway(r), r \notin pendingPersist,
         NEW m \in RunRecord, m.status \in {"Pending", "Running"},
         NEW s \in Steps, NEW c \in CallOn(r), NEW w, Enter(r, m, s, c, w)
  PROVE  Told(r)
<1>1. At(m, s) \in RunRecord /\ At(m, s).status = "Running" /\ "Failed" \in Terminal
  BY AtRecord DEF Terminal
<1> QED BY <1>1, EndRunTold, ReachTold DEF Enter

LEMMA DispatchTold ==
  ASSUME StateOK, NEW r \in Runs, Underway(r), r \notin pendingPersist,
         NEW m \in RunRecord, m.status \in {"Pending", "Running"},
         NEW s \in Steps, NEW c \in CallOn(r), NEW w, Dispatch(r, m, s, c, w)
  PROVE  Told(r)
<1>1. CASE Enter(r, m, s, c, w)
  BY <1>1, EnterTold
<1>2. CASE StateFileFails(r, At(m, s), c, w)
  <2>1. At(m, s) \in RunRecord /\ At(m, s).status = "Running"
    BY AtRecord
  <2> QED BY <1>2, <2>1, GoesOnTold DEF StateFileFails, Cache, Save, SetLease, trackVars
<1> QED BY <1>1, <1>2 DEF Dispatch

-----------------------------------------------------------------------------
(* Actions on one run                                                         *)

\* What the engine has of a run says how far its row can be behind.
LEMMA LiveUnderway ==
  ASSUME StateOK, NEW r \in Runs, RunOK(r), ~Shared(r), Fits(r), active[r] # NoRun,
         active[r].status \in {"Pending", "Running"} \/ r \in pendingPersist
  PROVE  /\ Underway(r)
         /\ Row(r) \in Going
         /\ ~HeartbeatMayFail => Slot(r)
         /\ Holds(r) \in CallOn(r)
<1>1. ~HeartbeatMayFail => Slot(r)
  BY DEF RunOK, Slot, Executing
<1>2. Row(r) \in Going
  BY DEF Fits
<1>3. Holds(r) \in CallOn(r)
  BY <1>1, <1>2, HoldsCall DEF CallOn, Behind, Row, Slot
<1> QED BY <1>1, <1>2, <1>3 DEF Underway

LEMMA LiveEndable ==
  ASSUME StateOK, NEW r \in Runs, RunOK(r), ~Shared(r), Fits(r), active[r] # NoRun,
         NEW outcome \in {"Failed", "Cancelled"}
  PROVE  /\ ~HeartbeatMayFail => Endable(r, outcome)
         /\ Row(r) \notin Terminal
         /\ Row(r) = "CancelRequested" <=> active[r].status = "CancelRequested"
<1>1. CASE active[r].status \in {"Pending", "Running"} \/ r \in pendingPersist
  <2>1. Row(r) \in Going /\ (~HeartbeatMayFail => Slot(r))
    BY <1>1, LiveUnderway
  <2>2. active[r].status # "CancelRequested"
    BY <1>1 DEF RunOK, Parked
  <2> QED BY <2>1, <2>2 DEF Endable, Going, Terminal
<1>2. CASE active[r].status \in Parked /\ r \notin pendingPersist
  <2>1. Row(r) \in Parked
    BY <1>2 DEF Fits
  <2> QED BY <1>2, <2>1 DEF Endable, Parked, Terminal
<1>3. CASE active[r].status = "CancelRequested"
  BY <1>3 DEF Fits, Endable, Terminal
<1>4. active[r].status \in Parked \cup Executing
  BY DEF RunOK
<1> QED BY <1>1, <1>2, <1>3, <1>4 DEF Executing

\* A run that could not be ended stays as it is.
LEMMA StaysTold ==
  ASSUME StateOK, NEW r \in Runs, RunOK(r), ~Shared(r), Fits(r), active[r] # NoRun,
         NEW m \in RunRecord, m.status = active[r].status,
         FinishFails(r, m, Holds(r)), retained' = retained,
         driver'[r] \subseteq driver[r]
  PROVE  Told(r)
<1>1. /\ active' = [active EXCEPT ![r] = m]
      /\ stored' = [stored EXCEPT ![r] = stored[r]]
      /\ claims' = [claims EXCEPT ![r] = claims[r]]
      /\ UNCHANGED <<marked, pendingPersist>>
  BY HoldsCall DEF FinishFails, Cache, Save, SetLease
<1>2. /\ Row(r)' = Row(r)
      /\ active'[r] = m
      /\ Slot(r)' <=> Slot(r)
  BY <1>1, RowKept DEF Slot, StateOK, StoreTypeOK
<1>3. Row(r) \notin Terminal
  BY LiveEndable
<1>4. Fits(r)'
  BY <1>1, <1>2, <1>3, NoRunIsNone DEF Fits
<1>5. Room(r) /\ Sticks(r) /\ Lives(r)
  BY <1>2, FewerWorking DEF Room, Sticks, Lives
<1> QED BY <1>1, <1>4, <1>5 DEF Told

LEMMA StartTold ==
  ASSUME StateOK, NEW r \in Runs, RunOK(r), ~Shared(r), Fits(r), Start(r)
  PROVE  Told(r)
<1>1. Row(r) = "none" /\ CanClaim(r) /\ active[r] = NoRun /\ r \notin pendingPersist
  BY DEF Start, Fresh, Row, StatusOf, RunOK
<1>2. Underway(r)
  BY <1>1 DEF Underway, Going
<1>3. PICK v \in Surveys(r, Takes(r)) :
        \/ \E w \in Callers : Enter(r, FirstStep, 1, v.c, w)
        \/ StartFails(r, v.c)
  BY DEF Start
<1>4. v.c \in CallOn(r)
  <2>1. Takes(r) \in CallOn(r)
    BY <1>1, TakesCall DEF CallOn, Behind, Row, Going
  <2> QED BY <2>1, SurveysCallOn
<1>5. CASE \E w \in Callers : Enter(r, FirstStep, 1, v.c, w)
  <2>1. FirstStep \in RunRecord /\ FirstStep.status = "Running" /\ 1 \in Steps
    BY StoreAssumption DEF FirstStep, RunRecord, Executing, Steps
  <2> QED BY <1>1, <1>2, <1>4, <1>5, <2>1, EnterTold
<1>6. CASE StartFails(r, v.c)
  <2>1. /\ UNCHANGED <<stored, active, retained>>
        /\ marked' \subseteq marked
    BY <1>6 DEF StartFails, Release, trackVars
  <2>2. Row(r)' = "none"
    BY <1>1, <2>1 DEF Row
  <2>3. Fits(r)' /\ Room(r) /\ Sticks(r) /\ Lives(r)
    BY <1>1, <2>1, <2>2 DEF Fits, Room, Sticks, Lives, Parked, Executing, Terminal
  <2> QED BY <2>1, <2>3 DEF Told
<1> QED BY <1>3, <1>5, <1>6

LEMMA FinishCancellingTold ==
  ASSUME StateOK, NEW r \in Runs, RunOK(r), ~Shared(r), Fits(r), active[r] # NoRun,
         active[r].status = "CancelRequested", NEW w,
         NEW m \in RunRecord, m.status = "CancelRequested", FinishCancelling(r, m, w)
  PROVE  Told(r)
<1>1. driver'[r] \subseteq driver[r]
  BY LeavesFewer DEF FinishCancelling
<1>2. Working(driver'[r]) \subseteq Working(driver[r])
  BY <1>1, FewerWorking
<1>3. CASE FinishOk(r, m, "Cancelled", Holds(r))
  BY <1>2, <1>3, LiveEndable, EndedTold DEF Terminal
<1>4. CASE FinishFails(r, m, Holds(r)) /\ retained' = retained
  BY <1>1, <1>4, StaysTold
<1> QED BY <1>3, <1>4 DEF FinishCancelling

LEMMA RouteTold ==
  ASSUME StateOK, NEW r \in Runs, RunOK(r), ~Shared(r), Fits(r), NEW w,
         active[r] # NoRun, active[r].status \in Executing, Route(r, Recorded(r), w)
  PROVE  Told(r)
<1> DEFINE m == Recorded(r)
<1>1. Route(r, m, w)
  OBVIOUS
<1>2. m \in RunRecord /\ m.status = active[r].status
  BY ActiveRecord, WithResultRecord DEF Recorded
<1> HIDE DEF m
<1>3. CASE m.status = "CancelRequested"
  BY <1>1, <1>2, <1>3, FinishCancellingTold DEF Route
<1>4. CASE m.status # "CancelRequested"
  <2>1. m.status \in {"Pending", "Running"} /\ r \notin pendingPersist
    BY <1>2, <1>4 DEF RunOK, Executing, Parked
  <2>2. Underway(r) /\ (~HeartbeatMayFail => Slot(r)) /\ Holds(r) \in CallOn(r)
    BY <1>2, <2>1, LiveUnderway
  <2>3. CASE \E s \in Steps : Dispatch(r, m, s, Holds(r), w)
    BY <1>2, <2>1, <2>2, <2>3, DispatchTold
  <2>4. CASE \E s \in Steps : HoldPending(r, m, s, Holds(r), w)
    BY <1>2, <2>1, <2>2, <2>4, HoldPendingTold
  <2>5. CASE EndRun(r, m, "Completed", Holds(r), w) \/ EndRun(r, m, "Failed", Holds(r), w)
    BY <1>2, <2>1, <2>2, <2>5, EndRunTold DEF Terminal
  <2> QED BY <1>1, <1>4, <2>3, <2>4, <2>5 DEF Route
<1> QED BY <1>3, <1>4

LEMMA AdvanceTold ==
  ASSUME StateOK, NEW r \in Runs, RunOK(r), ~Shared(r), Fits(r), NEW w, Advance(r, w)
  PROVE  Told(r)
  BY RouteTold DEF Advance, Advanceable, Is

LEMMA DriverRefusedTold ==
  ASSUME StateOK, NEW r \in Runs, Fits(r), NEW d, DriverRefused(r, d)
  PROVE  Told(r)
<1>1. driver'[r] \subseteq driver[r] /\ UNCHANGED <<stored, claims, marked, active, trackVars>>
  BY LeavesFewer DEF DriverRefused, storeVars
<1>2. Working(driver'[r]) \subseteq Working(driver[r])
  BY <1>1, FewerWorking
<1> QED BY <1>1, <1>2, SameTold DEF Row, Slot, trackVars

LEMMA BoundaryTold ==
  ASSUME StateOK, NEW r \in Runs, RunOK(r), ~Shared(r), Fits(r), Boundary(r)
  PROVE  Told(r)
<1>0. PICK d \in driver[r] :
        IF Is(r, {"CancelRequested"})
        THEN FinishCancelling(r, active[r], Driver(d))
        ELSE /\ cancelReady' = cancelReady \ {r}
             /\ UNCHANGED <<storeVars, active, pendingPersist, retained, budgetReady>>
  BY DEF Boundary
<1>1. CASE Is(r, {"CancelRequested"})
  <2>1. active[r] # NoRun /\ active[r].status = "CancelRequested"
    BY <1>1 DEF Is
  <2> QED BY <1>0, <1>1, <2>1, ActiveRecord, FinishCancellingTold
<1>2. CASE ~Is(r, {"CancelRequested"})
  <2>1. /\ UNCHANGED <<stored, claims, marked, active, pendingPersist, retained>>
        /\ cancelReady' = cancelReady \ {r}
        /\ driver[r] # {}
    BY <1>0, <1>2 DEF storeVars
  <2>2. Row(r)' = Row(r) /\ (Slot(r)' <=> Slot(r))
    BY <2>1 DEF Row, Slot
  <2>3. active[r] = NoRun => Row(r) \notin Parked \cup Executing
    BY <2>1 DEF Fits
  <2>4. Row(r) # "CancelRequested"
    <3>1. CASE active[r] = NoRun
      BY <2>3, <3>1 DEF Executing
    <3>2. CASE active[r] # NoRun
      <4>1. active[r].status # "CancelRequested"
        BY <1>2, <3>2 DEF Is
      <4>2. "Failed" \in {"Failed", "Cancelled"}
        OBVIOUS
      <4> QED BY <3>2, <4>1, <4>2, LiveEndable
    <3> QED BY <3>1, <3>2
  <2>5. Fits(r)'
    BY <2>1, <2>2, <2>3 DEF Fits, Clean
  <2>6. Room(r) /\ Sticks(r) /\ Lives(r)
    BY <2>2, <2>4 DEF Room, Sticks, Lives
  <2> QED BY <2>1, <2>5, <2>6 DEF Told
<1> QED BY <1>1, <1>2

\* The driver of a deterministic run that tools leave to it finds it executing.
LEMMA CapabilityStepTold ==
  ASSUME StateOK, NEW r \in Runs, RunOK(r), ~Shared(r), Fits(r), CapabilityStep(r)
  PROVE  Told(r)
<1>1. PICK d \in driver[r] :
        IF active[r] # NoRun THEN Route(r, Recorded(r), Driver(d)) ELSE DriverRefused(r, d)
  BY DEF CapabilityStep
<1>2. CASE active[r] = NoRun
  BY <1>1, <1>2, DriverRefusedTold
<1>3. CASE active[r] # NoRun
  <2>1. active[r].status \in Executing
    BY <1>3 DEF CapabilityStep, RunOK, DriversFit
  <2> QED BY <1>1, <1>3, <2>1, RouteTold
<1> QED BY <1>2, <1>3

\* A run whose budget is spent, or that somebody ends, ends or stays.
LEMMA EndOrStayTold ==
  ASSUME StateOK, NEW r \in Runs, RunOK(r), ~Shared(r), Fits(r), active[r] # NoRun,
         NEW outcome \in {"Failed", "Cancelled"},
         \/ FinishOk(r, active[r], outcome, Holds(r))
         \/ FinishFails(r, active[r], Holds(r)) /\ retained' = retained,
         driver'[r] \subseteq driver[r]
  PROVE  Told(r)
<1>1. active[r] \in RunRecord /\ outcome \in Terminal
  BY ActiveRecord DEF Terminal
<1>2. CASE FinishOk(r, active[r], outcome, Holds(r))
  <2>1. /\ ~HeartbeatMayFail => Endable(r, outcome)
        /\ outcome # "Completed" /\ Working(driver'[r]) \subseteq Working(driver[r])
    BY LiveEndable, FewerWorking
  <2> QED BY <1>1, <1>2, <2>1, EndedTold
<1>3. CASE FinishFails(r, active[r], Holds(r)) /\ retained' = retained
  BY <1>1, <1>3, StaysTold
<1> QED BY <1>2, <1>3

LEMMA BudgetSpentTold ==
  ASSUME StateOK, NEW r \in Runs, RunOK(r), ~Shared(r), Fits(r), BudgetSpent(r)
  PROVE  Told(r)
<1>1. driver'[r] \subseteq driver[r]
  BY LeavesFewer DEF BudgetSpent
<1>2. CASE active[r] # NoRun
  BY <1>1, <1>2, EndOrStayTold DEF BudgetSpent, FailBudget
<1>3. CASE active[r] = NoRun
  <2>1. UNCHANGED <<stored, claims, marked, active, pendingPersist, retained, cancelReady>>
    BY <1>3 DEF BudgetSpent, storeVars
  <2>2. Working(driver'[r]) \subseteq Working(driver[r])
    BY <1>1, FewerWorking
  <2> QED BY <1>1, <2>1, <2>2, SameTold DEF Row, Slot
<1> QED BY <1>2, <1>3

\* A parked run is given the claim it took and gives it up.
LEMMA GivenBackTold ==
  ASSUME NEW r \in Runs, Fits(r), r \notin pendingPersist, active[r] # NoRun,
         active[r].status \in Parked, NEW c, NEW lease, Release(r, c, lease),
         Row(r)' = Row(r), UNCHANGED <<active, trackVars, driver>>
  PROVE  Told(r)
<1>1. Row(r) \in Parked
  BY DEF Fits
<1>2. marked' \subseteq marked /\ retained' = retained
  BY DEF Release, trackVars
<1>3. Fits(r)'
  BY <1>1 DEF Fits, trackVars, Parked, Terminal
<1>4. Room(r) /\ Sticks(r) /\ Lives(r)
  BY <1>1 DEF Room, Sticks, Lives, Parked
<1> QED BY <1>2, <1>3, <1>4 DEF Told

LEMMA ApproveGateTold ==
  ASSUME StateOK, NEW r \in Runs, RunOK(r), ~Shared(r), Fits(r), NEW w,
         ApproveGate(r, w)
  PROVE  Told(r)
<1>1. /\ active[r] # NoRun
      /\ active[r].status = "WaitingApproval"
      /\ r \notin pendingPersist
      /\ CanClaim(r)
  BY DEF ApproveGate, Is
<1>2. Row(r) \in Parked
  BY <1>1 DEF Fits, Parked
<1>3. active[r] \in RunRecord /\ active[r].step \in Steps
  BY <1>1, ActiveRecord
<1>4. ASSUME NEW m \in RunRecord, m.status \in {"Pending", "Running"}, NEW e,
             GateCleared(r, m, e)
      PROVE  Told(r)
  <2>1. /\ active' = [active EXCEPT ![r] = m]
        /\ stored' = [stored EXCEPT ![r] = m]
        /\ claims' = [claims EXCEPT ![r] = "fresh"]
        /\ UNCHANGED <<marked, pendingPersist, retained, cancelReady>>
    BY <1>4 DEF GateCleared, Cache, Save, SetLease, trackVars
  <2>2. Row(r)' = m.status /\ active'[r] = m /\ Slot(r)'
    BY <2>1, RowOf DEF Slot, StateOK, StoreTypeOK
  <2>3. Fits(r)'
    BY <1>1, <1>4, <2>1, <2>2, NoRunIsNone DEF Fits, Going, Terminal
  <2>4. Room(r) /\ Sticks(r) /\ Lives(r)
    BY <1>1, <1>2, <1>4, <2>2 DEF Room, Sticks, Lives, Parked, Executing, Terminal
  <2> QED BY <2>1, <2>3, <2>4 DEF Told
<1>5. CASE GateCleared(r, [active[r] EXCEPT !.status = "Running", !.cleared = TRUE], w)
  <2>1. [active[r] EXCEPT !.status = "Running", !.cleared = TRUE] \in RunRecord
    BY <1>3 DEF RunRecord, Executing
  <2>2. [active[r] EXCEPT !.status = "Running", !.cleared = TRUE].status = "Running"
    BY <1>3 DEF RunRecord
  <2> QED BY <1>4, <1>5, <2>1, <2>2
<1>6. CASE GateCleared(r, PendedAt(r, active[r], active[r].step), Nobody)
  <2>1. /\ PendedAt(r, active[r], active[r].step) \in RunRecord
        /\ PendedAt(r, active[r], active[r].step).status = "Pending"
    BY <1>3, PendedAtRecord
  <2> QED BY <1>4, <1>6, <2>1
<1>7. CASE FinishOk(r, active[r], "Failed", Takes(r))
  BY <1>2, <1>3, <1>7, EndedTold DEF Endable, Parked, Terminal
<1>8. CASE /\ Release(r, Fail(Takes(r)), "fresh")
           /\ UNCHANGED <<stored, active, trackVars, driver>>
  <2>1. Row(r)' = Row(r) /\ active[r].status \in Parked
    BY <1>1, <1>8 DEF Row, Parked
  <2> QED BY <1>1, <1>8, <2>1, GivenBackTold
<1> QED BY <1>5, <1>6, <1>7, <1>8 DEF ApproveGate

LEMMA EndNowTold ==
  ASSUME StateOK, NEW r \in Runs, RunOK(r), ~Shared(r), Fits(r), active[r] # NoRun,
         EndNow(r)
  PROVE  Told(r)
  BY EndOrStayTold DEF EndNow

LEMMA RequestCancelTold ==
  ASSUME StateOK, NEW r \in Runs, RunOK(r), ~Shared(r), Fits(r), active[r] # NoRun,
         active[r].status = "Running", RequestCancel(r)
  PROVE  Told(r)
<1> DEFINE m == [active[r] EXCEPT !.status = "CancelRequested"]
<1>1. m \in RunRecord /\ m.status = "CancelRequested"
  BY ActiveRecord, StatusRecord DEF Status, Executing
<1>2. Row(r) \in Going /\ (~HeartbeatMayFail => Slot(r)) /\ r \notin pendingPersist
  BY LiveUnderway DEF RunOK, Parked
<1>3. PICK lease \in Renewals(claims[r]) : claims' = [claims EXCEPT ![r] = lease]
  BY DEF RequestCancel, SetLease
<1>4. Slot(r)' <=> Slot(r)
  BY <1>3 DEF Renewals, Slot, StateOK, StoreTypeOK
<1>5. UNCHANGED <<marked, pendingPersist, retained, cancelReady, driver>>
  BY DEF RequestCancel, trackVars
<1>6. CASE /\ active' = [active EXCEPT ![r] = m]
           /\ stored' = [stored EXCEPT ![r] = m]
  <2>1. Row(r)' = "CancelRequested"
    BY <1>1, <1>6, RowOf
  <2>2. active'[r] = m
    BY <1>6 DEF StateOK
  <2> HIDE DEF m
  <2>3. Fits(r)'
    BY <1>1, <1>2, <1>5, <2>1, <2>2, NoRunIsNone DEF Fits, Terminal
  <2>4. Room(r) /\ Sticks(r)
    BY <1>2, <2>1 DEF Room, Sticks, Going, Parked
  <2>5. ~HeartbeatMayFail => Lives(r)
    BY <1>2, <1>4, <2>1 DEF Lives, Going, Executing, Terminal
  <2> QED BY <1>5, <2>3, <2>4, <2>5 DEF Told
<1>7. CASE UNCHANGED <<active, stored>>
  BY <1>4, <1>5, <1>7, SameTold DEF Row
<1> QED BY <1>6, <1>7 DEF RequestCancel, Cache, Save

LEMMA CancelTold ==
  ASSUME StateOK, NEW r \in Runs, RunOK(r), ~Shared(r), Fits(r), Cancel(r)
  PROVE  Told(r)
  BY RequestCancelTold, EndNowTold DEF Cancel, Is

LEMMA LeaseLapsesTold ==
  ASSUME StateOK, NEW r \in Runs, Fits(r), LeaseLapses(r)
  PROVE  Told(r)
<1>1. Slot(r)' <=> Slot(r)
  BY DEF LeaseLapses, Slot, StateOK, StoreTypeOK
<1>2. UNCHANGED <<stored, marked, active, pendingPersist, retained, cancelReady, driver>>
  BY DEF LeaseLapses, trackVars
<1> QED BY <1>1, <1>2, SameTold DEF Row

LEMMA OperateTold ==
  ASSUME StateOK, NEW r \in Runs, RunOK(r), ~Shared(r), Fits(r), Operate(r)
  PROVE  Told(r)
<1>1. CASE TurnEnds(r) \/ TurnAborts(r) \/ ToolAdvance(r)
  BY <1>1, AdvanceTold, DriverRefusedTold DEF TurnEnds, TurnAborts, ToolAdvance
<1>2. CASE Approve(r)
  BY <1>2, ApproveGateTold DEF Approve
<1>3. CASE Deny(r)
  BY <1>3, EndNowTold DEF Deny, Is
<1> QED BY <1>1, <1>2, <1>3, StartTold, BoundaryTold, CapabilityStepTold, BudgetSpentTold,
           CancelTold, LeaseLapsesTold DEF Operate

-----------------------------------------------------------------------------
(* The maintenance tick                                                       *)

LEMMA EscalateTold ==
  ASSUME StateOK, NEW r \in Runs, RunOK(r), ~Shared(r), Fits(r), active[r] # NoRun,
         active[r].status = "WaitingApproval", r \notin pendingPersist, Escalate(r)
  PROVE  Told(r)
<1>1. PICK lease \in Renewals(claims[r]) : claims' = [claims EXCEPT ![r] = lease]
  BY DEF Escalate, SetLease
<1>2. Slot(r)' <=> Slot(r)
  BY <1>1 DEF Renewals, Slot, StateOK, StoreTypeOK
<1>3. UNCHANGED <<active, marked, pendingPersist, retained, cancelReady, driver>>
  BY DEF Escalate, trackVars
<1>4. Row(r) = "WaitingApproval"
  BY DEF Fits, Parked
<1>5. CASE stored' = [stored EXCEPT ![r] = active[r]]
  <2>1. Row(r)' = "WaitingApproval"
    BY <1>5, ActiveRecord, RowOf
  <2>2. Fits(r)'
    BY <1>3, <2>1 DEF Fits, Terminal
  <2>3. Room(r) /\ Sticks(r)
    BY <1>4, <2>1 DEF Room, Sticks, Parked
  <2>4. ~HeartbeatMayFail => Lives(r)
    BY <1>2, <1>4, <2>1 DEF Lives, Parked
  <2> QED BY <1>3, <2>2, <2>3, <2>4 DEF Told
<1>6. CASE UNCHANGED stored
  BY <1>2, <1>3, <1>6, SameTold DEF Row
<1> QED BY <1>5, <1>6 DEF Escalate, Save

LEMMA UntouchedTold ==
  ASSUME NEW r \in Runs, Fits(r), UNCHANGED <<stored, claims, marked, active, trackVars, driver>>
  PROVE  Told(r)
<1>1. Row(r)' = Row(r) /\ (Slot(r)' <=> Slot(r))
  BY DEF Row, Slot
<1> QED BY <1>1, SameTold DEF trackVars

LEMMA TimeOutTold ==
  ASSUME StateOK, NEW r \in Runs, RunOK(r), TodoOK(r), ~Shared(r), Fits(r), Timely(r), TimeOut(r)
  PROVE  Told(r)
<1>1. /\ active[r] # NoRun
      /\ active[r].status = "WaitingApproval"
      /\ r \notin pendingPersist
  BY DEF TimeOut, Visit, TodoOK, Timely
<1>2. CASE UNCHANGED <<stored, claims, marked, active, trackVars, driver>>
  BY <1>2, UntouchedTold
<1> QED BY <1>1, <1>2, EscalateTold, EndNowTold, ApproveGateTold DEF TimeOut

LEMMA RetryParkTold ==
  ASSUME StateOK, NEW r \in Runs, RunOK(r), TodoOK(r), ~Shared(r), Fits(r), RetryPark(r)
  PROVE  Told(r)
<1>1. /\ r \in pendingPersist
      /\ active[r] # NoRun
      /\ active[r].status \in Parked
  BY DEF RetryPark, Visit, TodoOK, RunOK
<1>2. active[r] \in RunRecord /\ Underway(r) /\ Holds(r) \in CallOn(r)
  BY <1>1, ActiveRecord, LiveUnderway
<1>3. CASE ~PoolFullFor(r) /\ ParkThenRelease(r, active[r], Holds(r))
  BY <1>1, <1>2, <1>3, ParkTold DEF RetryPark
<1>4. CASE /\ \E lease \in Renewals(claims[r]) : SetLease(r, lease)
           /\ UNCHANGED <<stored, marked, faults, active, pendingPersist>>
  <2>1. Slot(r)' <=> Slot(r)
    BY <1>4 DEF SetLease, Renewals, Slot, StateOK, StoreTypeOK
  <2>2. UNCHANGED <<retained, cancelReady, driver>>
    BY DEF RetryPark
  <2> QED BY <1>4, <2>1, <2>2, SameTold DEF Row
<1> QED BY <1>3, <1>4 DEF RetryPark

LEMMA RetryPendTold ==
  ASSUME StateOK, NEW r \in Runs, RunOK(r), TodoOK(r), ~Shared(r), Fits(r), RetryPend(r)
  PROVE  Told(r)
<1>1. active[r] # NoRun /\ active[r].status = "Pending" /\ r \notin pendingPersist
  BY DEF RetryPend, Visit, TodoOK, RunOK, Parked
<1>2. active[r] \in RunRecord /\ active[r].step \in Steps
  BY <1>1, ActiveRecord
<1>3. Underway(r) /\ Holds(r) \in CallOn(r)
  BY <1>1, LiveUnderway
<1>4. CASE UNCHANGED <<stored, claims, marked, active, trackVars, driver>>
  BY <1>4, UntouchedTold
<1>5. ASSUME NEW v \in Surveys(r, Holds(r)), ~PoolFullFor(r),
             ParkThenRelease(r, ParkedAt(r, active[r]), v.c), retained' = retained
      PROVE  Told(r)
  <2>1. ParkedAt(r, active[r]) \in RunRecord /\ ParkedAt(r, active[r]).status \in Parked
    BY <1>2, ParkedAtRecord
  <2> QED BY <1>3, <1>5, <2>1, SurveysCallOn, ParkTold
<1>6. ASSUME NEW v \in Surveys(r, Holds(r)),
             HoldPending(r, active[r], active[r].step, v.c, Nobody)
      PROVE  Told(r)
  BY <1>1, <1>2, <1>3, <1>6, SurveysCallOn, HoldPendingTold
<1> QED BY <1>4, <1>5, <1>6 DEF RetryPend, storeVars

LEMMA FinalizeBudgetTold ==
  ASSUME StateOK, NEW r \in Runs, RunOK(r), ~Shared(r), Fits(r), FinalizeBudget(r)
  PROVE  Told(r)
<1>1. UNCHANGED driver
  BY DEF FinalizeBudget
<1>2. CASE Is(r, {"Running"}) /\ FailBudget(r)
  BY <1>1, <1>2, EndOrStayTold DEF Is, FailBudget
<1>3. CASE /\ cancelReady' = IF Is(r, {"CancelRequested"})
                             THEN cancelReady \cup {r} ELSE cancelReady
           /\ UNCHANGED <<storeVars, active, pendingPersist, retained>>
  <2>1. r \in cancelReady' => r \in cancelReady \/ active[r] # NoRun
    BY <1>3 DEF Is
  <2> QED BY <1>1, <1>3, <2>1, SameTold DEF Row, Slot, storeVars
<1> QED BY <1>2, <1>3 DEF FinalizeBudget

LEMMA FinalizeCancelTold ==
  ASSUME StateOK, NEW r \in Runs, RunOK(r), TodoOK(r), ~Shared(r), Fits(r), FinalizeCancel(r)
  PROVE  Told(r)
<1>1. active[r] # NoRun
  BY DEF FinalizeCancel, Visit, TodoOK, RunOK
<1> QED BY <1>1, EndOrStayTold DEF FinalizeCancel

LEMMA MaintainTold ==
  ASSUME StateOK, NEW r \in Runs, RunOK(r), TodoOK(r), ~Shared(r), Fits(r), Timely(r), Maintain(r)
  PROVE  Told(r)
  BY TimeOutTold, RetryParkTold, RetryPendTold, FinalizeBudgetTold, FinalizeCancelTold
     DEF Maintain

\* A reaped claim is not one of a run that executes or waits to be saved, and a pruned
\* row is one of a run that is over.
LEMMA TickEndsRows ==
  ASSUME NoneShared, Inv, \A r \in Runs : Fits(r), TickEnds
  PROVE  /\ \A r \in Runs : Fits(r)'
         /\ \A r \in Runs : \/ Row(r)' = Row(r)
                            \/ Row(r) \in Terminal /\ Row(r)' = "none"
         /\ \A r \in Runs : Slot(r)' => Slot(r)
         /\ ~HeartbeatMayFail /\ ~RestoreMayFail =>
              \A r \in Runs : Row(r) \in Executing /\ Slot(r) => Slot(r)'
<1> DEFINE beats == Heartbeats
           over  == InStatus(stored, Terminal)
<1>1. /\ tick = "cancels"
      /\ UNCHANGED <<active, pendingPersist, retained, cancelReady, driver>>
  BY DEF TickEnds, trackVars
<1>2. PICK missed \in SUBSET beats :
        /\ ~HeartbeatMayFail => missed = {}
        /\ LET expired == {r \in Claimed \ (beats \ missed) : claims[r] = "lapsed"}
           IN \E kept \in SUBSET expired :
                /\ claims' = [r \in Runs |-> IF r \in expired \ kept THEN "none"
                                             ELSE IF r \in beats \ missed THEN "fresh"
                                             ELSE claims[r]]
                /\ marked' = marked \ (expired \ kept)
  BY EngineAssumption DEF TickEnds
<1> DEFINE expired == {r \in Claimed \ (beats \ missed) : claims[r] = "lapsed"}
<1>3. PICK kept \in SUBSET expired :
        /\ claims' = [r \in Runs |-> IF r \in expired \ kept THEN "none"
                                     ELSE IF r \in beats \ missed THEN "fresh"
                                     ELSE claims[r]]
        /\ marked' = marked \ (expired \ kept)
  BY <1>2
<1>4. PICK pruned \in SUBSET over :
        stored' = [r \in Runs |-> IF r \in pruned THEN NoRun ELSE stored[r]]
  BY DEF TickEnds
<1>5. ASSUME NEW r \in Runs
      PROVE  Row(r)' = Row(r) \/ (Row(r) \in Terminal /\ Row(r)' = "none")
  BY <1>4 DEF InStatus, Known, Row, StatusOf
<1>6. ASSUME NEW r \in Runs
      PROVE  Slot(r)' => Slot(r)
  BY <1>2, <1>3 DEF Slot, Heartbeats, Claimed
<1>7. ASSUME NEW r \in Runs
      PROVE  Fits(r)'
  <2>1. Fits(r) /\ (Row(r) \in Terminal => active[r] = NoRun)
    BY DEF Fits, Clean
  <2>2. Row(r)' = Row(r) /\ Row(r) \in Terminal => Clean(r)'
    BY <1>1, <1>3, <1>6, <2>1 DEF Fits, Clean, Slot
  <2>3. CASE Row(r)' = Row(r)
    BY <1>1, <2>1, <2>2, <2>3 DEF Fits
  <2>4. CASE Row(r) \in Terminal /\ Row(r)' = "none"
    BY <1>1, <2>1, <2>4 DEF Fits, Parked, Executing, Terminal
  <2> QED BY <1>5, <2>3, <2>4
<1>8. ASSUME ~HeartbeatMayFail, ~RestoreMayFail, NEW r \in Runs, Row(r) \in Executing, Slot(r)
      PROVE  Slot(r)'
  <2>1. active[r] # NoRun /\ RunOK(r) /\ Renewed(r) /\ ~Shared(r)
    BY <1>8 DEF Fits, Inv, NoneShared
  <2>2. CASE active[r].status \in Executing
    <3>1. r \in beats \ missed
      BY <1>2, <1>8, <2>1, <2>2 DEF Heartbeats, Claimed, Is, Slot
    <3> QED BY <1>3, <1>8, <3>1 DEF Slot
  <2>3. CASE r \in pendingPersist
    <3>1. claims[r] = "fresh"
      BY <1>1, <1>8, <2>1, <2>3 DEF Renewed
    <3> QED BY <1>3, <3>1 DEF Slot
  <2>4. active[r].status \in Executing \/ r \in pendingPersist
    BY <1>8, <2>1 DEF RunOK, Fits, Parked, Executing
  <2> QED BY <2>2, <2>3, <2>4
<1> QED BY <1>5, <1>6, <1>7, <1>8

-----------------------------------------------------------------------------
(* Restarts                                                                   *)

\* A run is restored as its row is, or left out because a call failed, or ended because
\* its cancellation was requested.
LEMMA RestoresRow ==
  ASSUME StateOK, NEW r \in Restorable, NEW bad, NEW worse,
         NEW b, b = Restores(r, bad, worse)
  PROVE  \/ /\ b.run = stored[r] /\ b.row = stored[r]
            /\ stored[r].status \in Parked /\ b.lease # "none" => Slot(r)
            /\ stored[r].status \in Executing => b.lease # "none"
         \/ /\ r \in bad
            /\ b.run = NoRun /\ b.row = stored[r] /\ b.lease = claims[r]
         \/ /\ stored[r].status = "CancelRequested"
            /\ b.run = NoRun /\ b.row = [stored[r] EXCEPT !.status = "Cancelled"]
            /\ b.lease = "none" /\ ~b.marks /\ ~b.retains /\ ~b.cancels
<1> DEFINE m == stored[r]
<1>1. CASE m.status \in Parked
  <2>1. /\ b.run = m
        /\ b.row = m
        /\ b.lease # "none" => Slot(r)
    BY <1>1 DEF Restores, Slot
  <2> QED BY <1>1, <2>1 DEF Parked, Executing
<1>2. CASE m.status \notin Parked /\ r \in bad
  BY <1>2 DEF Restores
<1>3. CASE m.status = "CancelRequested" /\ r \notin bad /\ r \notin worse
  BY <1>3 DEF Restores, Parked
<1>4. CASE m.status \notin Parked /\ r \notin bad /\ ~(m.status = "CancelRequested" /\ r \notin worse)
  BY <1>4 DEF Restores
<1> QED BY <1>1, <1>2, <1>3, <1>4 DEF Parked

LEMMA RestorableRow ==
  ASSUME StateOK, NEW r \in Runs
  PROVE  r \in Restorable <=> stored[r] # NoRun /\ Row(r) \in Parked \cup Executing
  BY DEF Restorable, InStatus, Known, Row, StatusOf, Parked, Executing

\* While no restart fails to read a run, the runs that execute for the store have a
\* claim.
LEMMA OwnersHaveSlots ==
  ASSUME NoneShared, RecInv, ~HeartbeatMayFail, ~RestoreMayFail, NEW r \in Runs,
         Row(r) \in Executing
  PROVE  Slot(r)
<1>1. active[r] # NoRun /\ RunOK(r) /\ ~Shared(r) /\ Fits(r)
  BY DEF RecInv, Inv, Fits, NoneShared
<1>2. active[r].status \in Executing \/ r \in pendingPersist
  BY <1>1 DEF RunOK, Fits, Parked, Executing
<1> QED BY <1>1, <1>2 DEF RunOK, Slot

\* What a restart does to the rows.
RestartTold ==
  /\ \A r \in Runs : Fits(r)'
  /\ \A r \in Runs : \/ Row(r)' = Row(r)
                     \/ Row(r) = "CancelRequested" /\ Row(r)' = "Cancelled" /\ ~Slot(r)'
  /\ ~HeartbeatMayFail /\ ~RestoreMayFail =>
       \A r \in Runs : /\ Slot(r)' => Slot(r)
                       /\ Row(r)' \in Executing => Slot(r)'
                       /\ active'[r] # NoRun => active[r] # NoRun

\* The runs that a restart takes from the store.
Rebuilds(back) ==
  /\ active' = [r \in Runs |-> IF r \in Restorable THEN back[r].run ELSE NoRun]
  /\ stored' = [r \in Runs |-> IF r \in Restorable THEN back[r].row ELSE stored[r]]
  /\ claims' = [r \in Runs |-> IF r \in Restorable THEN back[r].lease ELSE claims[r]]
  /\ marked' = {r \in marked : r \in Restorable => back[r].marks}
  /\ retained' = {r \in Restorable : back[r].retains}
  /\ cancelReady' = {r \in Restorable : back[r].cancels}

LEMMA RestartRows ==
  ASSUME NoneShared, RecInv, Restart
  PROVE  RestartTold
<1>0. StateOK
  BY DEF RecInv, Inv
<1>1. /\ pendingPersist' = {}
      /\ driver' = [r \in Runs |-> {}]
  BY DEF Restart
<1>2. CASE /\ RestoreMayFail
           /\ active' = [r \in Runs |-> NoRun]
           /\ retained' = {}
           /\ cancelReady' = {}
           /\ UNCHANGED <<stored, claims, marked>>
  <2>1. ASSUME NEW r \in Runs
        PROVE  Fits(r)' /\ Row(r)' = Row(r)
    <3>1. Row(r)' = Row(r) /\ Fits(r) /\ active'[r] = NoRun
      BY <1>2 DEF Row, RecInv
    <3>2. Row(r) \in Terminal => Clean(r)'
      BY <1>1, <1>2, <3>1 DEF Fits, Clean
    <3> QED BY <1>1, <1>2, <3>1, <3>2 DEF Fits
  <2> QED BY <1>2, <2>1 DEF RestartTold
<1>3. ASSUME NEW bad, NEW worse, ~RestoreMayFail => bad = {},
             NEW back, back = [r \in Restorable |-> Restores(r, bad, worse)],
             Rebuilds(back)
      PROVE  RestartTold
  <2>1. ASSUME NEW r \in Runs, r \notin Restorable
        PROVE  /\ Fits(r)'
               /\ Row(r)' = Row(r)
               /\ Row(r) \notin Executing
               /\ Slot(r)' <=> Slot(r)
               /\ active'[r] = NoRun
    <3>1. /\ stored'[r] = stored[r]
          /\ claims'[r] = claims[r]
          /\ active'[r] = NoRun
      BY <1>3, <2>1 DEF Rebuilds
    <3>2. Row(r)' = Row(r) /\ (Slot(r)' <=> Slot(r))
      BY <3>1 DEF Row, Slot
    <3>3. Row(r) \notin Parked \cup Executing
      BY <1>0, <2>1, RestorableRow DEF Row, StatusOf, Parked, Executing
    <3>4. Row(r) \in Terminal => Clean(r)'
      BY <1>1, <1>3, <2>1, <3>1 DEF Rebuilds, RecInv, Fits, Clean
    <3> QED BY <3>1, <3>2, <3>3, <3>4 DEF Fits
  <2>2. ASSUME NEW r \in Runs, r \in Restorable
        PROVE  /\ Fits(r)'
               /\ \/ Row(r)' = Row(r)
                  \/ Row(r) = "CancelRequested" /\ Row(r)' = "Cancelled" /\ ~Slot(r)'
               /\ ~HeartbeatMayFail /\ ~RestoreMayFail =>
                    /\ Slot(r)' => Slot(r)
                    /\ Row(r)' \in Executing => Slot(r)'
                    /\ active[r] # NoRun
    <3>0. /\ stored[r] # NoRun /\ stored[r] \in RunRecord
          /\ Row(r) = stored[r].status
          /\ Row(r) \in Parked \cup Executing
          /\ Fits(r)
      BY <1>0, <2>2, RestorableRow DEF StateOK, StoreTypeOK, Row, StatusOf, RecInv
    <3>1. /\ active'[r] = back[r].run
          /\ stored'[r] = back[r].row
          /\ claims'[r] = back[r].lease
          /\ back[r] = Restores(r, bad, worse)
      BY <1>3, <2>2 DEF Rebuilds
    <3>2. ~HeartbeatMayFail /\ ~RestoreMayFail =>
            active[r] # NoRun /\ (Row(r) \in Executing => Slot(r))
      BY <3>0, OwnersHaveSlots DEF Fits
    <3>3. CASE /\ back[r].run = stored[r] /\ back[r].row = stored[r]
               /\ stored[r].status \in Parked /\ back[r].lease # "none" => Slot(r)
               /\ stored[r].status \in Executing => back[r].lease # "none"
      <4>1. Row(r)' = Row(r) /\ active'[r] = stored[r]
        BY <3>1, <3>3 DEF Row
      <4>2. Fits(r)'
        BY <1>1, <3>0, <4>1 DEF Fits, Going, Parked, Executing, Terminal
      <4>3. Slot(r)' <=> back[r].lease # "none"
        BY <3>1 DEF Slot
      <4> QED BY <3>0, <3>2, <3>3, <4>1, <4>2, <4>3
    <3>4. CASE /\ r \in bad
               /\ back[r].run = NoRun /\ back[r].row = stored[r] /\ back[r].lease = claims[r]
      <4>1. Row(r)' = Row(r) /\ active'[r] = NoRun /\ RestoreMayFail
        BY <1>3, <3>1, <3>4 DEF Row
      <4>2. Fits(r)'
        BY <1>1, <3>0, <4>1, EngineAssumption DEF Fits, Parked, Executing, Terminal
      <4> QED BY <4>1, <4>2
    <3>5. CASE /\ stored[r].status = "CancelRequested"
               /\ back[r].run = NoRun
               /\ back[r].row = [stored[r] EXCEPT !.status = "Cancelled"]
               /\ back[r].lease = "none"
               /\ ~back[r].marks /\ ~back[r].retains /\ ~back[r].cancels
      <4>1. Row(r)' = "Cancelled"
        <5>1. /\ stored'[r] \in RunRecord
              /\ stored'[r].status = "Cancelled"
          BY <3>0, <3>1, <3>5, StatusRecord DEF Status, Terminal
        <5> QED BY <5>1, NoRunIsNone DEF Row, StatusOf
      <4>2. Clean(r)'
        BY <1>1, <1>3, <2>2, <3>1, <3>5 DEF Rebuilds, Clean
      <4>3. Fits(r)' /\ ~Slot(r)'
        BY <4>1, <4>2 DEF Fits, Clean, Slot, Parked, Executing
      <4> QED BY <3>0, <3>2, <3>5, <4>1, <4>3 DEF Executing
    <3> QED BY <1>0, <2>2, <3>1, <3>3, <3>4, <3>5, RestoresRow
  <2> QED BY <2>1, <2>2 DEF RestartTold
<1>4. CASE RestoreMayFail
  <2>1. ASSUME NEW bad \in SUBSET Restorable, NEW worse \in SUBSET Restorable,
               NEW back, back = [r \in Restorable |-> Restores(r, bad, worse)],
               Failures(1 + Cardinality(bad) + Cardinality(worse)),
               active' = [r \in Runs |-> IF r \in Restorable THEN back[r].run ELSE NoRun],
               stored' = [r \in Runs |-> IF r \in Restorable THEN back[r].row ELSE stored[r]],
               claims' = [r \in Runs |-> IF r \in Restorable THEN back[r].lease ELSE claims[r]],
               marked' = {r \in marked : r \in Restorable => back[r].marks},
               retained' = {r \in Restorable : back[r].retains},
               cancelReady' = {r \in Restorable : back[r].cancels}
        PROVE  RestartTold
    BY <1>3, <1>4, <2>1 DEF Rebuilds
  <2>2. CASE /\ Failures(2)
             /\ active' = [r \in Runs |-> NoRun]
             /\ retained' = {}
             /\ cancelReady' = {}
             /\ UNCHANGED <<stored, claims, marked>>
    BY <1>2, <1>4, <2>2
  <2> QED BY <1>4, <2>1, <2>2 DEF Restart
<1>5. CASE ~RestoreMayFail
  <2>1. ASSUME NEW bad \in {{}}, NEW worse \in SUBSET Restorable,
               NEW back, back = [r \in Restorable |-> Restores(r, bad, worse)],
               Failures(1 + Cardinality(bad) + Cardinality(worse)),
               active' = [r \in Runs |-> IF r \in Restorable THEN back[r].run ELSE NoRun],
               stored' = [r \in Runs |-> IF r \in Restorable THEN back[r].row ELSE stored[r]],
               claims' = [r \in Runs |-> IF r \in Restorable THEN back[r].lease ELSE claims[r]],
               marked' = {r \in marked : r \in Restorable => back[r].marks},
               retained' = {r \in Restorable : back[r].retains},
               cancelReady' = {r \in Restorable : back[r].cancels}
        PROVE  RestartTold
    BY <1>3, <1>5, <2>1 DEF Rebuilds
  <2> QED BY <1>5, <2>1 DEF Restart
<1> QED BY <1>4, <1>5

-----------------------------------------------------------------------------
(* The invariant                                                              *)

\* A step of the engine is one on a run, one of the tick that no row shows, the end of a
\* tick or a restart.
OneRunStep(r) == Sound(r) /\ Told(r)
TickStep      == UNCHANGED <<storeVars, active, trackVars, driver>>

LEMMA StepKinds ==
  ASSUME NoneShared, RecInv, [Next]_vars
  PROVE  (\E r \in Runs : OneRunStep(r)) \/ TickStep \/ TickEnds \/ Restart
<1>1. ASSUME NEW r \in Runs, Operate(r)
      PROVE  OneRunStep(r)
  BY <1>1, OperateSound, OperateTold DEF RecInv, Inv, OneRunStep, NoneShared
<1>2. ASSUME NEW r \in Runs, Maintain(r)
      PROVE  OneRunStep(r)
  BY <1>2, MaintainSound, MaintainTold DEF RecInv, Inv, OneRunStep, NoneShared
<1>3. CASE TickBegins \/ PhaseEnds \/ UNCHANGED vars
  BY <1>3 DEF TickBegins, PhaseEnds, TickStep, vars
<1> QED BY <1>1, <1>2, <1>3 DEF Next, Tick

\* The other runs' rows and claims stay.
LEMMA OthersFit ==
  ASSUME NEW r \in Runs, OneRunStep(r), NEW q \in Runs \ {r}, Fits(q)
  PROVE  /\ Fits(q)'
         /\ Row(q)' = Row(q)
         /\ Slot(q)' <=> Slot(q)
<1>1. /\ active'[q] = active[q]
      /\ stored'[q] = stored[q]
      /\ claims'[q] = claims[q]
      /\ driver'[q] = driver[q]
      /\ q \in pendingPersist' <=> q \in pendingPersist
      /\ q \in cancelReady' <=> q \in cancelReady
      /\ q \in marked' => q \in marked
      /\ q \in retained' => q \in retained
  BY DEF OneRunStep, Sound, OthersKept, Told
<1>2. Row(q)' = Row(q)
  BY <1>1 DEF Row
<1> QED BY <1>1, <1>2 DEF Fits, Clean, Slot

LEMMA TimelyStep ==
  ASSUME RecInv, [Next]_vars, NEW q \in Runs
  PROVE  Timely(q)'
<1>1. Timely(q)
  BY DEF RecInv
<1>2. ASSUME NEW r \in Runs, Operate(r)
      PROVE  Timely(q)'
  <2>1. tick = "idle" /\ UNCHANGED tickVars
    BY <1>2, OperateSound DEF RecInv, Inv
  <2> QED BY <2>1 DEF Timely, tickVars
<1>3. ASSUME NEW r \in Runs, Maintain(r)
      PROVE  Timely(q)'
  <2>1. Sound(r) /\ UNCHANGED tick /\ todo' = todo \ {r}
    BY <1>3, MaintainSound DEF RecInv, Inv
  <2> QED BY <1>1, <2>1 DEF Timely, Sound, OthersKept
<1>4. CASE TickBegins \/ PhaseEnds \/ TickEnds \/ Restart
  BY <1>4 DEF TickBegins, PhaseEnds, TickEnds, Restart, Timely, trackVars
<1>5. CASE UNCHANGED vars
  BY <1>1, <1>5 DEF Timely, vars, trackVars, tickVars
<1> QED BY <1>2, <1>3, <1>4, <1>5 DEF Next, Tick

LEMMA InitRec == Init => RecInv
<1> SUFFICES ASSUME Init PROVE RecInv
  OBVIOUS
<1>1. ASSUME NEW r \in Runs
      PROVE  Fits(r) /\ Timely(r)
  <2>1. Row(r) = "none" /\ active[r] = NoRun /\ todo = {}
    BY DEF Init, StoreInit, Row, StatusOf
  <2> QED BY <2>1 DEF Fits, Timely, Parked, Executing, Terminal
<1> QED BY <1>1, InitInv DEF RecInv

LEMMA NextRec ==
  ASSUME NoneShared, RecInv, [Next]_vars
  PROVE  RecInv'
<1>1. Inv'
  BY NextInv DEF RecInv
<1>2. ASSUME NEW q \in Runs
      PROVE  Fits(q)'
  <2>1. Fits(q)
    BY DEF RecInv
  <2>2. CASE \E r \in Runs : OneRunStep(r)
    BY <2>1, <2>2, OthersFit DEF OneRunStep, Told
  <2>3. CASE TickStep
    <3>1. UNCHANGED <<stored, claims, marked, active, pendingPersist, retained, cancelReady, driver>>
      BY <2>3 DEF TickStep, storeVars, trackVars
    <3> QED BY <2>1, <3>1 DEF Fits, Clean, Row
  <2>4. CASE TickEnds
    BY <2>4, TickEndsRows DEF RecInv
  <2>5. CASE Restart
    BY <2>5, RestartRows DEF RestartTold
  <2> QED BY <2>2, <2>3, <2>4, <2>5, StepKinds
<1> QED BY <1>1, <1>2, TimelyStep DEF RecInv

\* Whatever tools, people, ticks and restarts do, what the engine has of its runs is in
\* order and their rows fit it, as long as tools leave deterministic runs to their drivers.
THEOREM RecHolds ==
  ASSUME NoneShared
  PROVE  Spec => []RecInv
<1>1. RecInv /\ [Next]_vars => RecInv'
  BY NextRec
<1> QED BY InitRec, <1>1, PTL DEF Spec

-----------------------------------------------------------------------------
(* The life cycle                                                             *)

Caps == INSTANCE SopLifecycle_proofs
  WITH status <- [r \in Runs |-> StatusOf(stored[r])], slots <- Claimed

LEMMA LifecycleCounts == \A S : Lifecycle!Cardinality(S) = Cardinality(S)
  BY DEF Lifecycle!Cardinality, Cardinality

LEMMA LifecycleStates ==
  /\ Lifecycle!Waiting = Parked
  /\ Lifecycle!Owning = Executing
  /\ Lifecycle!Ended = Terminal
  /\ Lifecycle!Working = {"Pending", "Running"}
  BY DEF Lifecycle!Waiting, Lifecycle!Owning, Lifecycle!Ended, Lifecycle!Working, Parked,
         Executing, Terminal

\* What the row and the claim of one run do is a step of the life cycle.
LEMMA LivesStep ==
  ASSUME NEW r \in Runs, Lives(r),
         \A q \in Runs \ {r} : Row(q)' = Row(q) /\ (Slot(q)' <=> Slot(q))
  PROVE  [Lifecycle!Next]_(Lifecycle!vars)
<1> DEFINE rows == [q \in Runs |-> StatusOf(stored[q])]
<1> SUFFICES ASSUME NEW next, next = Row(r)', NEW given, given = Slot(r)'
             PROVE  [Lifecycle!Next]_(Lifecycle!vars)
  OBVIOUS
<1>1. /\ rows' = [rows EXCEPT ![r] = next]
      /\ rows[r] = Row(r)
  BY DEF Row
<1>2. /\ given => Claimed' = Claimed \cup {r}
      /\ ~given => Claimed' = Claimed \ {r}
      /\ r \in Claimed <=> Slot(r)
      /\ r \in Claimed' <=> given
  BY DEF Claimed, Slot
<1>3. CASE next = Row(r) /\ (given <=> Slot(r))
  <2>1. rows' = rows /\ Claimed' = Claimed
    BY <1>1, <1>2, <1>3
  <2> QED BY <2>1 DEF Lifecycle!vars
<1> DEFINE Kept == (next \in Executing => given) /\ (next \in Terminal => ~given)
<1>4. Kept => Lifecycle!Becomes(r, next)
  BY <1>1, <1>2, LifecycleStates DEF Lifecycle!Becomes
<1>5. CanClaim(r) => Lifecycle!SlotFree(r) /\ r \notin Claimed
  BY LifecycleCounts DEF CanClaim, OfSop, Lifecycle!SlotFree, Lifecycle!OwnersOf, Claimed
<1> HIDE DEF Kept
<1>6. CASE /\ Kept /\ Row(r) = "none" /\ CanClaim(r)
           /\ next \in {"none", "Failed", "Pending", "Running"} \cup Parked
  <2>1. Lifecycle!Begin(r)
    BY <1>1, <1>4, <1>5, <1>6, LifecycleStates DEF Lifecycle!Begin
  <2> QED BY <2>1 DEF Lifecycle!Next
<1>7. CASE /\ Kept /\ Row(r) \in Going /\ Slot(r)
           /\ next \in Executing \cup Parked \cup Terminal
  <2>1. Lifecycle!Work(r)
    BY <1>1, <1>2, <1>4, <1>7, LifecycleStates DEF Lifecycle!Work, Going
  <2> QED BY <2>1 DEF Lifecycle!Next
<1>8. CASE /\ Kept /\ Row(r) \in Parked /\ CanClaim(r)
           /\ next \in {"Completed", "Pending", "Running"} \cup Parked
  <2>1. Lifecycle!Resume(r)
    BY <1>1, <1>4, <1>5, <1>8, LifecycleStates DEF Lifecycle!Resume
  <2> QED BY <2>1 DEF Lifecycle!Next
<1>9. CASE /\ Kept /\ Row(r) \in Parked \cup {"CancelRequested"}
           /\ next \in {"Failed", "Cancelled"}
  <2>1. Lifecycle!Dismiss(r) \/ Lifecycle!FinishCancelling(r)
    BY <1>1, <1>4, <1>9, LifecycleStates DEF Lifecycle!Dismiss, Lifecycle!FinishCancelling
  <2> QED BY <2>1 DEF Lifecycle!Next
<1>10. CASE next = Row(r) /\ Row(r) \in Parked
  <2>1. rows' = rows
    BY <1>1, <1>10
  <2>2. CASE given
    <3>1. Lifecycle!Reserve(r)
      BY <1>1, <1>2, <1>10, <2>1, <2>2, LifecycleStates DEF Lifecycle!Reserve
    <3> QED BY <3>1 DEF Lifecycle!Next
  <2>3. CASE ~given /\ Slot(r)
    <3>1. /\ {r} \in SUBSET {q \in Claimed : rows[q] \notin Lifecycle!Owning}
          /\ {} \in SUBSET {q \in Runs : rows[q] \in Lifecycle!Ended}
          /\ Claimed' = Claimed \ {r}
          /\ rows' = [q \in Runs |-> IF q \in {} THEN "none" ELSE rows[q]]
      BY <1>1, <1>2, <1>10, <2>1, <2>3, LifecycleStates DEF Parked, Executing
    <3>2. Lifecycle!Sweep
      BY <3>1 DEF Lifecycle!Sweep
    <3> QED BY <3>2 DEF Lifecycle!Next
  <2> QED BY <1>3, <1>10, <2>2, <2>3
<1> QED BY <1>3, <1>6, <1>7, <1>8, <1>9, <1>10 DEF Lives, Kept

LEMMA FewerCount ==
  ASSUME NEW big, IsFiniteSet(big), NEW small \in SUBSET big, NEW n \in Nat,
         Cardinality(big) <= n
  PROVE  Cardinality(small) <= n
<1>1. Cardinality(small) <= Cardinality(big)
  BY FS_Subset
<1>2. Cardinality(small) \in Nat /\ Cardinality(big) \in Nat
  BY FS_Subset, FS_CardinalityType
<1> QED BY <1>1, <1>2

LEMMA InitLives == Init => Lifecycle!Init
  BY DEF Init, StoreInit, Lifecycle!Init, Claimed, StatusOf

LEMMA OneRunLives ==
  ASSUME ~HeartbeatMayFail, RecInv, NEW r \in Runs, OneRunStep(r)
  PROVE  [Lifecycle!Next]_(Lifecycle!vars)
<1>1. Lives(r)
  BY DEF OneRunStep, Told
<1>2. \A q \in Runs \ {r} : Row(q)' = Row(q) /\ (Slot(q)' <=> Slot(q))
  BY OthersFit DEF RecInv
<1> QED BY <1>1, <1>2, LivesStep

LEMMA NextLives ==
  ASSUME NoneShared, ~HeartbeatMayFail, ~RestoreMayFail, RecInv, [Next]_vars
  PROVE  [Lifecycle!Next]_(Lifecycle!vars)
<1> DEFINE rows == [q \in Runs |-> StatusOf(stored[q])]
<1>1. ASSUME NEW r \in Runs, OneRunStep(r)
      PROVE  [Lifecycle!Next]_(Lifecycle!vars)
  BY <1>1, OneRunLives
<1>2. CASE TickStep
  <2>1. rows' = rows /\ Claimed' = Claimed
    BY <1>2 DEF TickStep, storeVars, Claimed
  <2> QED BY <2>1 DEF Lifecycle!vars
<1>3. CASE TickEnds
  <2>1. /\ \A r \in Runs : rows'[r] = rows[r] \/ (rows[r] \in Terminal /\ rows'[r] = "none")
        /\ Claimed' \subseteq Claimed
        /\ \A r \in Claimed \ Claimed' : rows[r] \notin Executing
    BY <1>3, TickEndsRows DEF RecInv, Row, Slot, Claimed
  <2> DEFINE idle == Claimed \ Claimed'
             old  == {r \in Runs : rows'[r] # rows[r]}
  <2>2. rows' = [r \in Runs |-> IF r \in old THEN "none" ELSE rows[r]]
    BY <2>1
  <2>3. /\ idle \in SUBSET {r \in Claimed : rows[r] \notin Lifecycle!Owning}
        /\ old \in SUBSET {r \in Runs : rows[r] \in Lifecycle!Ended}
        /\ Claimed' = Claimed \ idle
    BY <2>1, LifecycleStates
  <2> HIDE DEF idle, old
  <2>4. Lifecycle!Sweep
    BY <2>2, <2>3 DEF Lifecycle!Sweep
  <2> QED BY <2>4 DEF Lifecycle!Next
<1>4. CASE Restart
  <2>1. RestartTold
    BY <1>4, RestartRows
  <2>2. /\ \A r \in Runs : \/ rows'[r] = rows[r]
                           \/ /\ rows[r] = "CancelRequested"
                              /\ rows'[r] = "Cancelled"
                              /\ r \notin Claimed'
        /\ Claimed' \subseteq Claimed
        /\ \A r \in Runs : rows'[r] \in Executing => r \in Claimed'
    BY <2>1 DEF RestartTold, Row, Slot, Claimed
  <2> DEFINE ended == {r \in Runs : rows'[r] # rows[r]}
             idle  == (Claimed \ Claimed') \ ended
  <2>3. rows' = [r \in Runs |-> IF r \in ended THEN "Cancelled" ELSE rows[r]]
    BY <2>2
  <2>4. /\ ended \in SUBSET {r \in Runs : rows[r] = "CancelRequested"}
        /\ idle \in SUBSET {r \in Claimed : rows[r] \notin Lifecycle!Owning}
        /\ Claimed' = Claimed \ (ended \cup idle)
    BY <2>2, LifecycleStates DEF Claimed
  <2> HIDE DEF idle, ended
  <2>5. Lifecycle!Recover
    BY <2>3, <2>4 DEF Lifecycle!Recover
  <2> QED BY <2>5 DEF Lifecycle!Next
<1> QED BY <1>1, <1>2, <1>3, <1>4, StepKinds

\* The engine keeps the promise of SopLifecycle: to whoever reads the store, every
\* engine call, tick and restart is a step of the life cycle or nothing at all, as long
\* as heartbeats arrive, restarts can read the store and tools leave deterministic runs to
\* their drivers.
THEOREM Implements ==
  ASSUME NoneShared, ~HeartbeatMayFail, ~RestoreMayFail
  PROVE  Spec => KeepsLifecycle
<1>1. RecInv /\ [Next]_vars => [Lifecycle!Next]_(Lifecycle!vars)
  BY NextLives
<1> QED BY RecHolds, InitLives, <1>1, PTL DEF Spec, KeepsLifecycle, Lifecycle!Spec

-----------------------------------------------------------------------------
(* The limit on execution, from that of the life cycle                        *)

LEMMA CapsCounts ==
  /\ \A S : Caps!Cardinality(S) = Cardinality(S)
  /\ \A S : Caps!IsFiniteSet(S) <=> IsFiniteSet(S)
  BY DEF Caps!Cardinality, Cardinality, Caps!IsFiniteSet, IsFiniteSet

LEMMA CapsLifecycle == Lifecycle!Spec => Caps!Spec
<1>1. Lifecycle!Init => Caps!Init
  BY DEF Lifecycle!Init, Caps!Init
<1>2. [Lifecycle!Next]_(Lifecycle!vars) => [Caps!Next]_(Caps!vars)
  <2>1. \A r \in Runs : Lifecycle!SlotFree(r) <=> Caps!SlotFree(r)
    BY LifecycleCounts, CapsCounts
       DEF Lifecycle!SlotFree, Caps!SlotFree, Lifecycle!OwnersOf, Caps!OwnersOf
  <2> QED
    BY <2>1 DEF Lifecycle!Next, Caps!Next, Lifecycle!vars, Caps!vars,
       Lifecycle!Begin, Caps!Begin, Lifecycle!Work, Caps!Work, Lifecycle!Resume, Caps!Resume,
       Lifecycle!Dismiss, Caps!Dismiss, Lifecycle!Reserve, Caps!Reserve,
       Lifecycle!FinishCancelling, Caps!FinishCancelling, Lifecycle!Sweep, Caps!Sweep,
       Lifecycle!Recover, Caps!Recover, Lifecycle!Becomes, Caps!Becomes,
       Lifecycle!Waiting, Caps!Waiting, Lifecycle!Working, Caps!Working,
       Lifecycle!Owning, Caps!Owning, Lifecycle!Ended, Caps!Ended
<1> QED BY <1>1, <1>2, PTL DEF Lifecycle!Spec, Caps!Spec

\* Whoever executes for the engine occupies a slot of the life cycle.
LEMMA ExecutingOccupies ==
  ASSUME NoneShared, ~HeartbeatMayFail, RecInv
  PROVE  InStatus(active, Executing) \subseteq Caps!Occupying
<1> SUFFICES ASSUME NEW r \in InStatus(active, Executing)
             PROVE  r \in Claimed /\ Row(r) \notin Parked
  BY DEF Caps!Occupying, Caps!Waiting, Parked, Row, InStatus, Known
<1>1. r \in Runs /\ active[r] # NoRun /\ active[r].status \in Executing
  BY DEF InStatus, Known
<1>2. RunOK(r) /\ ~Shared(r) /\ Fits(r)
  BY <1>1 DEF RecInv, Inv, NoneShared
<1> QED BY <1>1, <1>2 DEF RunOK, Fits, Going, Claimed, Executing, Parked

LEMMA ExecutionBound ==
  ASSUME NoneShared, ~HeartbeatMayFail, RecInv, Caps!SlotsWithinCaps
  PROVE  ExecutionWithinCap
<1> DEFINE occupying == Caps!Occupying
           executing == InStatus(active, Executing)
<1>1. executing \subseteq occupying /\ IsFiniteSet(occupying)
  <2>1. occupying \in SUBSET Runs
    BY DEF Caps!Occupying, Claimed
  <2> QED BY <2>1, ExecutingOccupies, FS_Subset, StoreAssumption
<1>2. /\ \A s \in Sops : Cardinality(OfSop(s, occupying)) <= MaxConcurrent[s]
      /\ Cardinality(occupying) <= MaxTotal
  BY CapsCounts DEF Caps!SlotsWithinCaps, OfSop
<1> HIDE DEF occupying
<1>3. Cardinality(executing) <= MaxTotal
  BY <1>1, <1>2, FewerCount, StoreAssumption
<1>4. ASSUME NEW s \in Sops
      PROVE  Cardinality(OfSop(s, executing)) <= MaxConcurrent[s]
  <2>1. /\ OfSop(s, occupying) \in SUBSET occupying
        /\ OfSop(s, executing) \in SUBSET OfSop(s, occupying)
    BY <1>1 DEF OfSop
  <2>2. IsFiniteSet(OfSop(s, occupying))
    BY <1>1, <2>1, FS_Subset
  <2> QED BY <1>2, <2>1, <2>2, FewerCount, StoreAssumption
<1> QED BY <1>3, <1>4 DEF ExecutionWithinCap

\* No more runs execute at once than max_concurrent and max_concurrent_total allow, for
\* any limits and any number of runs, as long as heartbeats arrive, restarts can read the
\* store and tools leave deterministic runs to their drivers.
THEOREM WithinCap ==
  ASSUME NoneShared, ~HeartbeatMayFail, ~RestoreMayFail
  PROVE  Spec => []ExecutionWithinCap
<1>1. Caps!Constants
  BY CapsCounts, StoreAssumption DEF Caps!Constants
<1>2. Caps!Spec => []Caps!SlotsWithinCaps
  BY <1>1, Caps!WithinCaps
<1>3. RecInv /\ Caps!SlotsWithinCaps => ExecutionWithinCap
  BY ExecutionBound
<1>4. Spec => Caps!Spec
  BY Implements, CapsLifecycle, PTL DEF KeepsLifecycle
<1> QED BY RecHolds, <1>2, <1>3, <1>4, PTL

-----------------------------------------------------------------------------
(* What is left of a run, and what is known of it                             *)

LEMMA LeavesNothing == RecInv => EndedLeavesNothing
  BY DEF RecInv, Fits, Clean, Row, StatusOf, EndedLeavesNothing, InStatus, Known, Claimed

LEMMA ForgetsNone ==
  ASSUME ~RestoreMayFail
  PROVE  RecInv => NoRunForgotten
  BY DEF RecInv, Fits, Clean, Row, StatusOf, NoRunForgotten, InStatus, Known

\* Nothing is left of a run whose row says that it is over: no claim, no mark, no work
\* for the tick, whatever failed on the way, as long as tools leave deterministic runs to
\* their drivers.
THEOREM NothingLeft ==
  ASSUME NoneShared
  PROVE  Spec => []EndedLeavesNothing
  BY RecHolds, LeavesNothing, PTL

\* A process knows every run that its store says is unfinished and none that it says is
\* over, as long as restarts can read the store and tools leave deterministic runs to
\* their drivers.
THEOREM NoneForgotten ==
  ASSUME NoneShared, ~RestoreMayFail
  PROVE  Spec => []NoRunForgotten
  BY RecHolds, ForgetsNone, PTL

LEMMA StickStep ==
  ASSUME NoneShared, RecInv, [Next]_vars \/ \E q \in Runs : OneRunStep(q)
  PROVE  [\A r \in InStatus(stored, {"CancelRequested"}) :
            /\ stored'[r].status \in {"CancelRequested", "Cancelled", "Failed"}
            /\ Working(driver'[r]) \subseteq Working(driver[r])]_vars
<1> SUFFICES ASSUME NEW r \in InStatus(stored, {"CancelRequested"})
             PROVE  /\ stored'[r].status \in {"CancelRequested", "Cancelled", "Failed"}
                    /\ Working(driver'[r]) \subseteq Working(driver[r])
  OBVIOUS
<1>0. r \in Runs /\ Row(r) = "CancelRequested"
  BY DEF InStatus, Known, Row, StatusOf
<1> SUFFICES /\ Row(r)' \in {"CancelRequested", "Cancelled", "Failed"}
             /\ Working(driver'[r]) \subseteq Working(driver[r])
  BY DEF Row, StatusOf
<1>1. ASSUME NEW q \in Runs, OneRunStep(q)
      PROVE  /\ Row(r)' \in {"CancelRequested", "Cancelled", "Failed"}
             /\ Working(driver'[r]) \subseteq Working(driver[r])
  <2>1. CASE q = r
    BY <1>0, <1>1, <2>1 DEF OneRunStep, Told, Sticks
  <2>2. CASE q # r
    BY <1>0, <1>1, <2>2 DEF OneRunStep, Sound, OthersKept, Row
  <2> QED BY <2>1, <2>2
<1>2. CASE TickStep
  BY <1>0, <1>2 DEF TickStep, storeVars, Row
<1>3. CASE TickEnds
  <2>1. UNCHANGED driver
    BY <1>3 DEF TickEnds
  <2> QED BY <1>0, <1>3, <2>1, TickEndsRows DEF RecInv, Terminal
<1>4. CASE Restart
  <2>1. Working(driver'[r]) = {}
    BY <1>0, <1>4 DEF Restart, Working
  <2> QED BY <1>0, <1>4, <2>1, RestartRows DEF RestartTold
<1> QED BY <1>1, <1>2, <1>3, <1>4, StepKinds

LEMMA DurableParks ==
  ASSUME NoneShared, ~HeartbeatMayFail, RecInv
  PROVE  ParkDurableBeforeRelease
  BY DEF NoneShared, RecInv, Inv, RunOK, Fits, ParkDurableBeforeRelease, InStatus, Known,
         Row, StatusOf, Parked

\* A live run without a claim is parked in the store, as long as heartbeats arrive and
\* tools leave deterministic runs to their drivers: the claim goes only after the park is
\* durable.
THEOREM ReleasesOnlyDurable ==
  ASSUME NoneShared, ~HeartbeatMayFail
  PROVE  Spec => []ParkDurableBeforeRelease
  BY RecHolds, DurableParks, PTL

\* A requested cancellation sticks, whatever fails: the run's row goes nowhere but to an
\* end, and no driver gets into an agent turn, as long as tools leave deterministic runs
\* to their drivers.
THEOREM CancellationSticks ==
  ASSUME NoneShared
  PROVE  Spec => CancelSticks
<1> DEFINE Keeps == \A r \in InStatus(stored, {"CancelRequested"}) :
                      /\ stored'[r].status \in {"CancelRequested", "Cancelled", "Failed"}
                      /\ Working(driver'[r]) \subseteq Working(driver[r])
<1>1. RecInv /\ [Next]_vars => [Keeps]_vars
  BY StickStep
<1> QED BY RecHolds, <1>1, PTL DEF Spec, CancelSticks

-----------------------------------------------------------------------------
(* Runs that wait                                                             *)

Waits(s) == OfSop(s, InStatus(stored, Parked))

LEMMA WaitsFinite == ASSUME NEW s PROVE IsFiniteSet(Waits(s)) /\ IsFiniteSet(Waits(s)')
<1>1. Waits(s) \in SUBSET Runs /\ Waits(s)' \in SUBSET Runs
  BY DEF Waits, OfSop, InStatus, Known
<1> QED BY <1>1, FS_Subset, StoreAssumption

LEMMA WaitsRows ==
  ASSUME NEW s, NEW r
  PROVE  /\ r \in Waits(s) <=> r \in Runs /\ SopOf[r] = s /\ Row(r) \in Parked
         /\ r \in Waits(s)' <=> r \in Runs /\ SopOf[r] = s /\ Row(r)' \in Parked
  BY DEF Waits, OfSop, InStatus, Known, Row, StatusOf, Parked

\* A run that comes to wait finds room, and otherwise no more runs wait than before.
LEMMA PoolStep ==
  ASSUME NoneShared, RecInv, PendingPoolBound,
         [Next]_vars \/ \E r \in Runs : OneRunStep(r)
  PROVE  PendingPoolBound'
<1> SUFFICES ASSUME NEW s \in Sops, MaxPending[s] > 0
             PROVE  Cardinality(Waits(s)') <= MaxPending[s]
  BY DEF PendingPoolBound, Waits
<1>1. Cardinality(Waits(s)) <= MaxPending[s] /\ MaxPending[s] \in Nat
  BY StoreAssumption DEF PendingPoolBound, Waits
<1>2. CASE Waits(s)' \subseteq Waits(s)
  BY <1>1, <1>2, WaitsFinite, FewerCount
<1>3. CASE \E r \in Runs : OneRunStep(r)
  <2>1. PICK r \in Runs : OneRunStep(r)
    BY <1>3
  <2>2. Waits(s)' \subseteq Waits(s) \cup {r}
    BY <2>1, OthersFit, WaitsRows DEF RecInv
  <2>3. CASE r \notin Waits(s)' \/ r \in Waits(s)
    BY <1>2, <2>2, <2>3
  <2>4. CASE r \in Waits(s)' /\ r \notin Waits(s)
    <3>1. ~PoolFullFor(r) /\ SopOf[r] = s
      BY <2>1, <2>4, WaitsRows DEF OneRunStep, Told, Room
    <3>2. ~(Cardinality(Waits(s)) >= MaxPending[s])
      <4>1. Waits(s) \ {r} = Waits(s)
        BY <2>4
      <4> QED BY <3>1, <4>1 DEF PoolFullFor, Waits
    <3>3. /\ Cardinality(Waits(s)) \in Nat
          /\ IsFiniteSet(Waits(s) \cup {r})
          /\ \/ Cardinality(Waits(s) \cup {r}) = Cardinality(Waits(s))
             \/ Cardinality(Waits(s) \cup {r}) = Cardinality(Waits(s)) + 1
      BY WaitsFinite, FS_AddElement, FS_CardinalityType
    <3>4. Cardinality(Waits(s) \cup {r}) <= MaxPending[s]
      BY <1>1, <3>2, <3>3
    <3> QED BY <1>1, <2>2, <3>3, <3>4, FewerCount
  <2> QED BY <2>3, <2>4
<1>4. CASE TickStep
  BY <1>2, <1>4 DEF TickStep, storeVars, Waits
<1>5. CASE TickEnds
  <2>1. \A r \in Runs : Row(r)' = Row(r) \/ Row(r)' = "none"
    BY <1>5, TickEndsRows DEF RecInv
  <2> QED BY <1>2, <2>1, WaitsRows DEF Parked
<1>6. CASE Restart
  <2>1. \A r \in Runs : Row(r)' = Row(r) \/ Row(r)' = "Cancelled"
    BY <1>6, RestartRows DEF RestartTold
  <2> QED BY <1>2, <2>1, WaitsRows DEF Parked
<1> QED BY <1>3, <1>4, <1>5, <1>6, StepKinds

LEMMA PoolInit == Init => PendingPoolBound
<1> SUFFICES ASSUME Init, NEW s \in Sops, MaxPending[s] > 0
             PROVE  Cardinality(Waits(s)) <= MaxPending[s]
  BY DEF PendingPoolBound, Waits
<1>1. Waits(s) = {}
  BY WaitsRows DEF Init, StoreInit, Row, StatusOf, Parked
<1> QED BY <1>1, FS_EmptySet, StoreAssumption

\* No more runs of an SOP wait durably for a person than max_pending_approvals, for any
\* number of runs and whatever fails, as long as tools leave deterministic runs to their
\* drivers.
THEOREM PoolBounded ==
  ASSUME NoneShared
  PROVE  Spec => []PendingPoolBound
<1>1. RecInv /\ PendingPoolBound /\ [Next]_vars => PendingPoolBound'
  BY PoolStep
<1> QED BY RecHolds, PoolInit, <1>1, PTL DEF Spec

-----------------------------------------------------------------------------
(* One live run at a time                                                     *)

Live(s) == OfSop(s, Known(active))

\* Only a start makes a run live.
LEMMA StaysGone ==
  ASSUME Inv, NEW r \in Runs, Operate(r) \/ Maintain(r), ~Start(r), active[r] = NoRun
  PROVE  active'[r] = NoRun
<1>1. /\ ~Is(r, Executing \cup Parked) /\ r \notin pendingPersist /\ r \notin cancelReady
      /\ r \in todo => tick = "idle" \/ tick = "budgets"
  BY DEF Inv, RunOK, TodoOK, Is, Phases
<1>2. CASE Operate(r)
  <2>1. ~Advanceable(r)
    BY DEF Advanceable, Is
  <2>2. CASE Boundary(r) \/ BudgetSpent(r)
    BY <2>2 DEF Boundary, BudgetSpent, Is
  <2>3. CASE TurnEnds(r) \/ TurnAborts(r) \/ CapabilityStep(r) \/ ToolAdvance(r)
    BY <2>1, <2>3
       DEF TurnEnds, TurnAborts, CapabilityStep, ToolAdvance, Advance, DriverRefused
  <2>4. CASE Approve(r) \/ Deny(r) \/ Cancel(r)
    BY <2>4 DEF Approve, ApproveGate, Deny, Cancel, Is
  <2>5. CASE LeaseLapses(r)
    BY <2>5 DEF LeaseLapses
  <2> QED BY <1>2, <2>2, <2>3, <2>4, <2>5 DEF Operate
<1>3. CASE Maintain(r)
  <2>1. FinalizeBudget(r)
    BY <1>1, <1>3 DEF Maintain, TimeOut, RetryPark, RetryPend, FinalizeCancel, Visit
  <2> QED BY <2>1 DEF FinalizeBudget, Is
<1> QED BY <1>2, <1>3

\* A start under Hold or Coalesce finds no live run of its SOP, whether it is judged on
\* the store or on the cache.
LEMMA StartsAlone ==
  ASSUME NoneShared, ~HeartbeatMayFail, RecInv, NEW r \in Runs, Start(r),
         Policy[SopOf[r]] \in {"Hold", "Coalesce"}
  PROVE  Live(SopOf[r]) = {}
<1>1. PICK v \in Surveys(r, Takes(r)) : Admits(SopOf[r], v)
  BY DEF Start
<1>2. OfSop(SopOf[r], v.executing \cup InStatus(v.runs, Parked)) = {}
  BY <1>1 DEF Admits
<1>3. active[r] = NoRun /\ stored[r] = NoRun
  BY DEF Start, Fresh
<1> SUFFICES ASSUME NEW q \in Runs, active[q] # NoRun, SopOf[q] = SopOf[r]
             PROVE  q \in v.executing \cup InStatus(v.runs, Parked)
  BY <1>2 DEF Live, OfSop, Known
<1>4. RunOK(q) /\ ~Shared(q) /\ Fits(q) /\ q # r
  BY <1>3 DEF RecInv, Inv, NoneShared
<1>5. CASE v.runs = [stored EXCEPT ![r] = stored[r]] /\ v.executing = Claimed
  BY <1>4, <1>5 DEF RunOK, Fits, Claimed, InStatus, Known, Inv, StateOK, StoreTypeOK, Row, StatusOf, Parked
<1>6. CASE /\ v.runs = [active EXCEPT ![r] = NoRun]
           /\ v.executing = InStatus(active, Executing)
  BY <1>4, <1>6 DEF RunOK, InStatus, Known, Inv, StateOK
<1> QED BY <1>5, <1>6 DEF Surveys, Takes, Holds

LEMMA HoldStep ==
  ASSUME NoneShared, ~HeartbeatMayFail, ~RestoreMayFail, RecInv, HoldSerialises, [Next]_vars
  PROVE  HoldSerialises'
<1> SUFFICES ASSUME NEW s \in Sops, Policy[s] \in {"Hold", "Coalesce"}
             PROVE  Cardinality(Live(s)') <= 1
  BY DEF HoldSerialises, Live
<1>1. Cardinality(Live(s)) <= 1 /\ IsFiniteSet(Live(s))
  <2>1. Live(s) \in SUBSET Runs
    BY DEF Live, OfSop, Known
  <2> QED BY <2>1, FS_Subset, StoreAssumption DEF HoldSerialises, Live
<1>2. CASE Live(s)' \subseteq Live(s)
  BY <1>1, <1>2, FewerCount
<1>3. ASSUME NEW r \in Runs, Operate(r) \/ Maintain(r)
      PROVE  Cardinality(Live(s)') <= 1
  <2>1. Live(s)' \subseteq Live(s) \cup {r}
    <3>1. Sound(r)
      BY <1>3, OperateSound, MaintainSound DEF RecInv, Inv
    <3> QED BY <3>1 DEF Sound, OthersKept, Live, OfSop, Known
  <2>2. CASE r \notin Live(s)' \/ r \in Live(s)
    BY <1>2, <2>1, <2>2
  <2>3. CASE r \in Live(s)' /\ r \notin Live(s)
    <3>1. active[r] = NoRun /\ active'[r] # NoRun /\ SopOf[r] = s
      BY <2>3 DEF Live, OfSop, Known
    <3>2. Start(r)
      BY <1>3, <3>1, StaysGone DEF RecInv
    <3>3. Live(s)' \subseteq {r}
      BY <2>1, <3>1, <3>2, StartsAlone DEF RecInv
    <3>4. IsFiniteSet({r}) /\ Cardinality({r}) = 1
      BY FS_Singleton
    <3> QED BY <3>3, <3>4, FewerCount
  <2> QED BY <2>2, <2>3
<1>4. CASE UNCHANGED active
  BY <1>2, <1>4 DEF Live
<1>5. CASE Restart
  BY <1>2, <1>5, RestartRows DEF RestartTold, Live, OfSop, Known
<1> QED BY <1>3, <1>4, <1>5 DEF Next, Tick, TickBegins, PhaseEnds, TickEnds, vars

LEMMA InitSerialised == Init => HoldSerialises
<1> SUFFICES ASSUME Init, NEW s \in Sops
             PROVE  Cardinality(Live(s)) <= 1
  BY DEF HoldSerialises, Live
<1>1. Live(s) = {}
  BY DEF Init, Live, OfSop, Known
<1> QED BY <1>1, FS_EmptySet

\* An SOP that must not run beside itself has one live run at a time, a parked run
\* counting as live, as long as heartbeats arrive, restarts can read the store and tools
\* leave deterministic runs to their drivers.
THEOREM OneAtATime ==
  ASSUME NoneShared, ~HeartbeatMayFail, ~RestoreMayFail
  PROVE  Spec => []HoldSerialises
<1>1. RecInv /\ HoldSerialises /\ [Next]_vars => HoldSerialises'
  BY HoldStep
<1> QED BY RecHolds, InitSerialised, <1>1, PTL DEF Spec

-----------------------------------------------------------------------------
(***************************************************************************)
(* Decisions on checkpoints.  What is shown of the engine still holds with *)
(* the decisions that people make on its checkpoints through the broker    *)
(* (CheckpointSpec), and a claim that is kept for a denied run stays with  *)
(* its checkpoint.  A decision is one more step on one run, so the proofs  *)
(* are those of two lemmas, DecideSound and DecideTold, and of what        *)
(* decisions do to marks.                                                  *)
(***************************************************************************)

\* What a decision finds: a run that no driver has, unless tools cut in.
LEMMA DecidableRun ==
  ASSUME StateOK, NEW r \in Runs, RunOK(r), Decidable(r)
  PROVE  /\ active[r] # NoRun
         /\ active[r] \in RunRecord
         /\ active[r].status = "PausedCheckpoint"
         /\ active[r].status \in Parked
         /\ r \notin pendingPersist
         /\ Movable(r)
         /\ Deterministic(r)
         /\ ~Shared(r) => driver[r] = {}
         /\ Headless \in CallersOf(r)
<1>1. /\ active[r] # NoRun
      /\ active[r].status = "PausedCheckpoint"
      /\ active[r].status \in Parked
      /\ r \notin pendingPersist
  BY DEF Decidable, Is, Parked
<1>2. Movable(r) /\ Deterministic(r)
  BY <1>1 DEF RunOK, Movable, PauseFit
<1>3. ~Shared(r) => driver[r] = {}
  BY <1>1, <1>2 DEF RunOK, DriversFit
<1>4. Headless \in CallersOf(r)
  BY <1>3, CallersCall DEF Callers
<1> QED BY <1>1, <1>2, <1>3, <1>4, ActiveRecord

LEMMA DecidableRow ==
  ASSUME StateOK, NEW r \in Runs, RunOK(r), Fits(r), Decidable(r)
  PROVE  Row(r) = "PausedCheckpoint"
  BY DecidableRun DEF Fits

\* A deterministic SOP has no gate that only an approval opens.
LEMMA DeterministicFits ==
  ASSUME NEW r \in Runs, Deterministic(r), NEW m \in RunRecord \cup {NoRun}
  PROVE  RowFit(r, m) /\ PauseFit(r, m)
  BY DeterministicUngated, StepInRange DEF RowFit, PauseFit

\* No driver has the run, or tools cut in.
LEMMA IdleFit ==
  ASSUME NEW r \in Runs, RunOK(r), ~Shared(r) => driver[r] = {}, NEW m
  PROVE  DriversFit(r, driver[r], m)
  BY DEF RunOK, DriversFit

LEMMA DecidedRecord ==
  ASSUME StateOK, NEW r \in Runs, active[r] # NoRun, NEW approved \in BOOLEAN
  PROVE  /\ Decided(r, approved) \in RunRecord
         /\ Decided(r, approved).status = "Running"
<1> DEFINE m == [active[r] EXCEPT !.status = "Running", !.cleared = approved]
<1>1. active[r] \in RunRecord /\ active[r].step \in Steps
  BY ActiveRecord
<1>2. m \in RunRecord /\ m.status = "Running"
  BY <1>1 DEF RunRecord, Executing
<1> QED BY <1>1, <1>2, WithResultRecord DEF Decided

\* A call that has taken the claim and saved m.
LEMMA SavingCall ==
  ASSUME StateOK, NEW r \in Runs, RunOK(r), NEW m \in RunRecord, RowFit(r, m)
  PROVE  /\ [Takes(r) EXCEPT !.row = m] \in Claiming(r)
         /\ [Takes(r) EXCEPT !.row = m] \in Calls
         /\ [Takes(r) EXCEPT !.row = m].lease = "fresh"
         /\ [Takes(r) EXCEPT !.row = m].row = m
<1>1. Takes(r) \in Calls /\ Takes(r).lease = "fresh"
  BY TakesCall
<1>2. /\ [Takes(r) EXCEPT !.row = m] \in Calls
      /\ [Takes(r) EXCEPT !.row = m].lease = "fresh"
      /\ [Takes(r) EXCEPT !.row = m].row = m
  BY <1>1 DEF Calls
<1> QED BY <1>2 DEF Claiming

-----------------------------------------------------------------------------
(* A decision leaves its run in order                                         *)

\* The run is put somewhere: in a park, or at work with a claim.
LEMMA PlacedSound ==
  ASSUME StateOK, NEW r \in Runs, RunOK(r), Decidable(r),
         NEW row \in RunRecord \cup {NoRun}, stored' = [stored EXCEPT ![r] = row],
         NEW lease \in Leases, claims' = [claims EXCEPT ![r] = lease],
         NEW x \in RunRecord, active' = [active EXCEPT ![r] = x],
         NEW ds \in SUBSET Held, driver' = [driver EXCEPT ![r] = ds],
         DriversFit(r, ds, x),
         marked' \subseteq Runs, retained' \subseteq Runs,
         UNCHANGED <<pendingPersist, cancelReady, budgetReady>>,
         NEW n \in Nat, Failures(n),
         x.status \in Parked \cup {"Pending", "Running"},
         x.status \in {"Pending", "Running"} => lease # "none"
  PROVE  Sound(r)
<1>1. faults' \in 0..MaxFaults
  BY FailuresCount
<1>2. StateOK'
  BY <1>1 DEF StateOK, StoreTypeOK
<1>3. RunOK(r)'
  <2>1. /\ active'[r] = x /\ driver'[r] = ds /\ stored'[r] = row /\ claims'[r] = lease
        /\ r \notin pendingPersist' /\ r \notin cancelReady'
    BY DecidableRun DEF Movable, StateOK, StoreTypeOK
  <2>2. PauseFit(r, x) /\ RowFit(r, row)
    BY DecidableRun, DeterministicFits
  <2>3. /\ x.status \in Parked \cup Executing
        /\ x.status \in Executing => lease # "none"
    BY DEF Parked, Executing
  <2> QED BY <2>1, <2>2, <2>3, RunOKNext
<1>4. OthersKept(r)
  BY DEF OthersKept, StateOK, StoreTypeOK
<1> QED BY <1>2, <1>3, <1>4 DEF Sound

\* It stays where it is; its row, its claim and the mark on it may change.
LEMMA KeptSound ==
  ASSUME StateOK, NEW r \in Runs, RunOK(r), Decidable(r),
         NEW row \in RunRecord \cup {NoRun}, stored' = [stored EXCEPT ![r] = row],
         NEW lease \in Leases, claims' = [claims EXCEPT ![r] = lease],
         marked' \subseteq Runs, retained' \subseteq Runs,
         UNCHANGED <<active, driver, pendingPersist, cancelReady, budgetReady>>,
         NEW n \in Nat, Failures(n)
  PROVE  Sound(r)
<1>1. /\ active' = [active EXCEPT ![r] = active[r]]
      /\ driver' = [driver EXCEPT ![r] = driver[r]]
      /\ driver[r] \in SUBSET Held
  BY DEF StateOK
<1>2. DriversFit(r, driver[r], active[r])
  BY DEF RunOK
<1>3. active[r] \in RunRecord /\ active[r].status \in Parked
  BY DecidableRun
<1>4. active[r].status \notin {"Pending", "Running"}
  BY <1>3 DEF Parked
<1> QED BY <1>1, <1>2, <1>3, <1>4, PlacedSound

\* A claim is given up, or that fails and it stays.
LEMMA ReleaseLease ==
  ASSUME StateOK, NEW r \in Runs, NEW c \in Calls, NEW lease \in Leases, Release(r, c, lease)
  PROVE  /\ \E left \in Leases : claims' = [claims EXCEPT ![r] = left]
         /\ marked' \subseteq Runs
         /\ \E n \in Nat : Failures(n)
<1>1. \E left \in Leases : claims' = [claims EXCEPT ![r] = left]
  BY DEF Release, SetLease, Leases
<1>2. marked' \subseteq Runs
  BY DEF Release, StateOK, StoreTypeOK
<1>3. \E n \in Nat : Failures(n)
  BY DEF Release, Calls
<1> QED BY <1>1, <1>2, <1>3

LEMMA GivenUpSound ==
  ASSUME StateOK, NEW r \in Runs, RunOK(r), Decidable(r),
         NEW row \in {stored[r], active[r]}, stored' = [stored EXCEPT ![r] = row],
         NEW c \in Calls, Release(r, c, "fresh"), UNCHANGED <<active, trackVars, driver>>
  PROVE  Sound(r)
<1>1. /\ \E left \in Leases : claims' = [claims EXCEPT ![r] = left]
      /\ marked' \subseteq Runs
      /\ \E n \in Nat : Failures(n)
  BY ReleaseLease DEF Leases
<1>2. /\ row \in RunRecord \cup {NoRun}
      /\ retained' \subseteq Runs
      /\ UNCHANGED <<pendingPersist, cancelReady, budgetReady>>
  BY DEF StateOK, StoreTypeOK, trackVars
<1> QED BY <1>1, <1>2, KeptSound

LEMMA MarkFailsSound ==
  ASSUME StateOK, NEW r \in Runs, RunOK(r), Decidable(r), MarkFails(r)
  PROVE  Sound(r)
<1>1. PICK lease \in {"none", "fresh"}, n \in {1, 2} :
        claims' = [claims EXCEPT ![r] = lease] /\ Failures(n)
  BY DEF MarkFails, SetLease
<1>2. /\ marked' \subseteq Runs /\ retained' \subseteq Runs
      /\ UNCHANGED <<stored, active, driver, pendingPersist, cancelReady, budgetReady>>
  BY DEF MarkFails, trackVars, StateOK, StoreTypeOK
<1>3. stored[r] \in RunRecord \cup {NoRun} /\ stored' = [stored EXCEPT ![r] = stored[r]]
  BY <1>2 DEF StateOK, StoreTypeOK
<1> QED BY <1>1, <1>2, <1>3, KeptSound DEF Leases

LEMMA DecideSound ==
  ASSUME StateOK, NEW r \in Runs, RunOK(r), Decide(r)
  PROVE  Sound(r) /\ tick = "idle" /\ UNCHANGED tickVars
<1> SUFFICES Sound(r)
  BY DEF Decide, Decidable
<1>1. /\ Decidable(r)
      /\ active[r] # NoRun
      /\ Movable(r)
      /\ Headless \in CallersOf(r)
  BY DecidableRun DEF Decide
<1>2. Takes(r) \in Calls /\ Fail(Takes(r)) \in Calls
  BY TakesCall, FailCall
<1>3. ASSUME NEW approved \in BOOLEAN
      PROVE  /\ Decided(r, approved) \in RunRecord
             /\ Decided(r, approved).status = "Running"
             /\ RowFit(r, Decided(r, approved))
  <2>1. Decided(r, approved) \in RunRecord /\ Decided(r, approved).status = "Running"
    BY <1>1, DecidedRecord
  <2> QED BY <1>1, <2>1, DecidableRun, DeterministicFits
<1>4. /\ UNCHANGED stored => stored' = [stored EXCEPT ![r] = stored[r]]
      /\ stored[r] \in RunRecord \cup {NoRun}
  BY DEF StateOK, StoreTypeOK
<1>5. ASSUME NEW approved \in BOOLEAN, DecideOnward(r, approved)
      PROVE  Sound(r)
  <2> DEFINE m == Decided(r, approved)
             c == [Takes(r) EXCEPT !.row = m]
  <2>1. m \in RunRecord /\ m.status = "Running" /\ c \in Claiming(r)
    BY <1>3, SavingCall
  <2> HIDE DEF m
  <2>2. CASE \E s \in Steps : Dispatch(r, m, s, c, Headless)
    BY <1>1, <2>1, <2>2, DispatchSound
  <2>3. CASE Withdraw(r) /\ UNCHANGED <<stored, active, trackVars, driver>>
    BY <1>1, <1>2, <1>4, <2>3, GivenUpSound DEF Withdraw
  <2> QED BY <1>5, <2>2, <2>3 DEF DecideOnward, m
<1>6. ASSUME NEW approved \in BOOLEAN, NEW outcome \in Terminal,
             FinishOk(r, Decided(r, approved), outcome, Takes(r)), UNCHANGED driver
      PROVE  Sound(r)
  <2>1. driver' = [driver EXCEPT ![r] = driver[r]]
    BY <1>6 DEF StateOK
  <2> QED BY <1>2, <1>3, <1>6, <2>1, FinishOkSound
<1>7. CASE EndRejected(r) /\ UNCHANGED retained
  <2>1. /\ claims' = [claims EXCEPT ![r] = "fresh"]
        /\ marked' \subseteq Runs /\ retained' \subseteq Runs
        /\ Failures(1)
        /\ UNCHANGED <<stored, active, driver, pendingPersist, cancelReady, budgetReady>>
    BY <1>7 DEF EndRejected, SetLease, StateOK, StoreTypeOK
  <2> QED BY <1>1, <1>4, <2>1, KeptSound DEF Leases
<1>8. CASE MarkFails(r)
  BY <1>1, <1>8, MarkFailsSound
<1>9. CASE Revise(r)
  <2>1. PICK row \in {stored[r], active[r]}, c \in Calls :
          stored' = [stored EXCEPT ![r] = row] /\ Release(r, c, "fresh")
    BY <1>2, <1>4, <1>9 DEF Revise, Save, Withdraw
  <2> QED BY <1>1, <1>9, <2>1, GivenUpSound DEF Revise
<1> QED BY <1>5, <1>6, <1>7, <1>8, <1>9
        DEF Decide, DecideApproveEnds, DecideDenyEnds, Terminal

-----------------------------------------------------------------------------
(* A decision leaves the run's row in order                                   *)

LEMMA DecideTold ==
  ASSUME StateOK, NEW r \in Runs, RunOK(r), ~Shared(r), Fits(r), Decide(r)
  PROVE  Told(r)
<1>1. /\ active[r] # NoRun
      /\ active[r] \in RunRecord
      /\ active[r].status = "PausedCheckpoint"
      /\ r \notin pendingPersist
      /\ Row(r) = "PausedCheckpoint"
  BY DecidableRun, DecidableRow DEF Decide
<1>2. \A approved \in BOOLEAN :
        Decided(r, approved) \in RunRecord /\ Decided(r, approved).status = "Running"
  BY <1>1, DecidedRecord
<1>3. CanClaim(r) => Resumed(r) /\ Underway(r)
  BY <1>1 DEF Resumed, Underway, Parked
<1>4. ASSUME NEW approved \in BOOLEAN, DecideOnward(r, approved)
      PROVE  Told(r)
  <2> DEFINE m == Decided(r, approved)
             c == [Takes(r) EXCEPT !.row = m]
  <2>1. m \in RunRecord /\ m.status = "Running" /\ Resumed(r) /\ Underway(r)
    BY <1>2, <1>3, <1>4 DEF DecideOnward
  <2>2. c \in CallOn(r)
    <3>1. RowFit(r, m)
      BY <2>1, DecidableRun, DeterministicFits DEF Decide
    <3> HIDE DEF m
    <3> QED BY <2>1, <3>1, SavingCall, NoRunIsNone DEF CallOn, Behind, StatusOf
  <2> HIDE DEF m, c
  <2>3. CASE \E s \in Steps : Dispatch(r, m, s, c, Headless)
    BY <1>1, <2>1, <2>2, <2>3, DispatchTold
  <2>4. CASE Withdraw(r) /\ UNCHANGED <<stored, active, trackVars, driver>>
    BY <1>1, <2>4, GivenBackTold DEF Withdraw, Row, Parked
  <2> QED BY <1>4, <2>3, <2>4 DEF DecideOnward, m, c
<1>5. CASE DecideApproveEnds(r)
  <2>1. PICK outcome \in {"Completed", "Failed"} :
          FinishOk(r, Decided(r, TRUE), outcome, Takes(r))
    BY <1>5 DEF DecideApproveEnds
  <2>2. Endable(r, outcome)
    BY <1>3, <1>5 DEF DecideApproveEnds, Endable
  <2> QED BY <1>1, <1>2, <2>1, <2>2, EndedTold DEF Terminal
<1>6. CASE FinishOk(r, Decided(r, FALSE), "Failed", Takes(r)) /\ UNCHANGED driver
  <2>1. Endable(r, "Failed")
    BY <1>1 DEF Endable, Parked
  <2> QED BY <1>1, <1>2, <1>6, <2>1, EndedTold DEF Terminal
<1>7. ASSUME UNCHANGED <<stored, active, trackVars, driver>>,
             marked' \subseteq marked \cup {r}, r \in marked' => Slot(r)'
      PROVE  Told(r)
  <2>1. Row(r)' = Row(r)
    BY <1>7 DEF Row
  <2>2. Fits(r)'
    BY <1>1, <1>7, <2>1 DEF Fits, trackVars, Terminal
  <2>3. Room(r) /\ Sticks(r) /\ Lives(r)
    BY <1>1, <2>1 DEF Room, Sticks, Lives, Parked
  <2> QED BY <1>1, <1>7, <2>1, <2>2, <2>3 DEF Told, trackVars
<1>8. CASE EndRejected(r) /\ UNCHANGED retained
  <2>1. Slot(r)'
    BY <1>8 DEF EndRejected, SetLease, Slot, StateOK, StoreTypeOK
  <2> QED BY <1>7, <1>8, <2>1 DEF EndRejected, trackVars
<1>9. CASE MarkFails(r)
  BY <1>7, <1>9 DEF MarkFails
<1>10. CASE Revise(r)
  <2>1. Row(r)' = Row(r)
    <3>1. CASE Save(r, active[r])
      BY <1>1, <3>1, RowOf DEF Save
    <3>2. CASE UNCHANGED stored
      BY <3>2 DEF Row
    <3> QED BY <1>10, <3>1, <3>2 DEF Revise
  <2>2. PICK c : Release(r, c, "fresh")
    BY <1>10 DEF Revise, Withdraw
  <2> QED BY <1>1, <1>10, <2>1, <2>2, GivenBackTold DEF Revise, Parked
<1> QED BY <1>4, <1>5, <1>6, <1>8, <1>9, <1>10 DEF Decide, DecideDenyEnds

-----------------------------------------------------------------------------
(* The engine's invariants with decisions                                     *)

LEMMA DecisionStep ==
  ASSUME NoneShared, RecInv, NEW r \in Runs, Decide(r)
  PROVE  OneRunStep(r) /\ tick = "idle" /\ UNCHANGED tickVars
  BY DecideSound, DecideTold DEF NoneShared, RecInv, Inv, OneRunStep

\* A step of CheckpointSpec is one of the engine, or a decision.
LEMMA CheckpointSteps ==
  ASSUME [CheckpointNext]_vars
  PROVE  [Next]_vars \/ \E r \in Runs : Decide(r)
  BY DEF CheckpointNext

LEMMA CheckpointInv ==
  ASSUME Inv, [CheckpointNext]_vars
  PROVE  Inv'
<1>1. CASE [Next]_vars
  BY <1>1, NextInv
<1>2. ASSUME NEW r \in Runs, Decide(r)
      PROVE  Inv'
  <2>1. Sound(r) /\ tick = "idle" /\ UNCHANGED <<tick, todo>>
    BY <1>2, DecideSound DEF Inv, tickVars
  <2>2. Renewed(r)'
    BY <2>1 DEF Renewed
  <2> QED BY <2>1, <2>2, OneRunKeepsInv
<1> QED BY <1>1, <1>2, CheckpointSteps

LEMMA CheckpointInvHolds == CheckpointSpec => []Inv
<1>1. Inv /\ [CheckpointNext]_vars => Inv'
  BY CheckpointInv
<1> QED BY InitInv, <1>1, PTL DEF CheckpointSpec

LEMMA CheckpointRec ==
  ASSUME NoneShared, RecInv, [CheckpointNext]_vars
  PROVE  RecInv'
<1>1. CASE [Next]_vars
  BY <1>1, NextRec
<1>2. ASSUME NEW r \in Runs, Decide(r)
      PROVE  RecInv'
  <2>1. Told(r) /\ OneRunStep(r) /\ tick = "idle" /\ UNCHANGED <<tick, todo>>
    BY <1>2, DecisionStep DEF OneRunStep, tickVars
  <2>2. \A q \in Runs : Timely(q)'
    BY <2>1 DEF Timely
  <2>3. Inv'
    BY CheckpointInv DEF RecInv
  <2>4. \A q \in Runs : Fits(q)'
    BY <2>1, OthersFit DEF RecInv, Told
  <2> QED BY <2>2, <2>3, <2>4 DEF RecInv
<1> QED BY <1>1, <1>2, CheckpointSteps

\* The same with decisions on checkpoints.
THEOREM CheckpointHolds ==
  ASSUME NoneShared
  PROVE  CheckpointSpec => []RecInv
<1>1. RecInv /\ [CheckpointNext]_vars => RecInv'
  BY CheckpointRec
<1> QED BY InitRec, <1>1, PTL DEF CheckpointSpec

\* With decisions on checkpoints, the engine still keeps the promise of SopLifecycle, on
\* the same conditions: a decision resumes a run in a free slot, ends it, or leaves it
\* parked with the slot it was to end in.
THEOREM DecisionsImplement ==
  ASSUME NoneShared, ~HeartbeatMayFail, ~RestoreMayFail
  PROVE  CheckpointSpec => KeepsLifecycle
<1>1. RecInv /\ [CheckpointNext]_vars => [Lifecycle!Next]_(Lifecycle!vars)
  <2> SUFFICES ASSUME RecInv, [CheckpointNext]_vars
               PROVE  [Lifecycle!Next]_(Lifecycle!vars)
    OBVIOUS
  <2>1. ASSUME NEW r \in Runs, Decide(r)
        PROVE  [Lifecycle!Next]_(Lifecycle!vars)
    BY <2>1, DecisionStep, OneRunLives
  <2> QED BY <2>1, NextLives, CheckpointSteps
<1> QED BY CheckpointHolds, InitLives, <1>1, PTL DEF CheckpointSpec, KeepsLifecycle, Lifecycle!Spec

\* No more runs execute at once than the limits allow, whoever approves, denies or revises
\* what, as long as heartbeats arrive, restarts can read the store and tools leave
\* deterministic runs to their drivers.
THEOREM DecisionsWithinCap ==
  ASSUME NoneShared, ~HeartbeatMayFail, ~RestoreMayFail
  PROVE  CheckpointSpec => []ExecutionWithinCap
<1>1. Caps!Constants
  BY CapsCounts, StoreAssumption DEF Caps!Constants
<1>2. Caps!Spec => []Caps!SlotsWithinCaps
  BY <1>1, Caps!WithinCaps
<1>3. RecInv /\ Caps!SlotsWithinCaps => ExecutionWithinCap
  BY ExecutionBound
<1>4. CheckpointSpec => Caps!Spec
  BY DecisionsImplement, CapsLifecycle, PTL DEF KeepsLifecycle
<1> QED BY CheckpointHolds, <1>2, <1>3, <1>4, PTL

\* No decision makes a second run of a serialised SOP live, on the same conditions.
THEOREM DecisionsSerialised ==
  ASSUME NoneShared, ~HeartbeatMayFail, ~RestoreMayFail
  PROVE  CheckpointSpec => []HoldSerialises
<1>1. RecInv /\ HoldSerialises /\ [CheckpointNext]_vars => HoldSerialises'
  <2> SUFFICES ASSUME RecInv, HoldSerialises, [CheckpointNext]_vars
               PROVE  HoldSerialises'
    OBVIOUS
  <2>1. ASSUME NEW r \in Runs, Decide(r), NEW s \in Sops
        PROVE  Live(s)' \subseteq Live(s)
    <3>1. active[r] # NoRun
      BY <2>1 DEF Decide, Decidable, Is
    <3>2. \A q \in Runs \ {r} : active'[q] = active[q]
      BY <2>1, DecisionStep DEF OneRunStep, Sound, OthersKept
    <3> QED BY <3>1, <3>2 DEF Live, OfSop, Known
  <2>2. ASSUME NEW r \in Runs, Decide(r), NEW s \in Sops,
               Policy[s] \in {"Hold", "Coalesce"}
        PROVE  Cardinality(Live(s)') <= 1
    <3>1. Cardinality(Live(s)) <= 1 /\ IsFiniteSet(Live(s))
      <4>1. Live(s) \in SUBSET Runs
        BY DEF Live, OfSop, Known
      <4> QED BY <2>2, <4>1, FS_Subset, StoreAssumption DEF HoldSerialises, Live
    <3> QED BY <2>1, <2>2, <3>1, FewerCount
  <2> QED BY <2>2, HoldStep, CheckpointSteps DEF HoldSerialises, Live
<1> QED BY CheckpointHolds, InitSerialised, <1>1, PTL DEF CheckpointSpec

\* A denial that ends a run leaves nothing of it, though its end took several tries, as
\* long as tools leave deterministic runs to their drivers.
THEOREM DecisionsLeaveNothing ==
  ASSUME NoneShared
  PROVE  CheckpointSpec => []EndedLeavesNothing
  BY CheckpointHolds, LeavesNothing, PTL

\* No decision makes a process forget a run, as long as restarts can read the store and
\* tools leave deterministic runs to their drivers.
THEOREM DecisionsForgetNone ==
  ASSUME NoneShared, ~RestoreMayFail
  PROVE  CheckpointSpec => []NoRunForgotten
  BY CheckpointHolds, ForgetsNone, PTL

\* No decision lets an agent work on a gated step that was not approved, whoever drives
\* the run and whoever takes it on meanwhile.
THEOREM DecisionsKeepGates == CheckpointSpec => []GateBeforeTurn
  BY CheckpointInvHolds, InvGates, PTL

\* Whatever people decide, a requested cancellation sticks, as long as tools leave
\* deterministic runs to their drivers.
THEOREM DecisionsNeverRevive ==
  ASSUME NoneShared
  PROVE  CheckpointSpec => CancelSticks
<1> DEFINE Keeps == \A r \in InStatus(stored, {"CancelRequested"}) :
                      /\ stored'[r].status \in {"CancelRequested", "Cancelled", "Failed"}
                      /\ Working(driver'[r]) \subseteq Working(driver[r])
<1>1. RecInv /\ [CheckpointNext]_vars => [Keeps]_vars
  BY StickStep, CheckpointSteps, DecisionStep
<1> QED BY CheckpointHolds, <1>1, PTL DEF CheckpointSpec, CancelSticks

\* A run that a decision sends on to another gate waits there only if the pool has room,
\* as long as tools leave deterministic runs to their drivers.
THEOREM DecisionsPoolBounded ==
  ASSUME NoneShared
  PROVE  CheckpointSpec => []PendingPoolBound
<1>1. RecInv /\ PendingPoolBound /\ [CheckpointNext]_vars => PendingPoolBound'
  BY PoolStep, CheckpointSteps, DecisionStep
<1> QED BY CheckpointHolds, PoolInit, <1>1, PTL DEF CheckpointSpec

\* A run that was decided on has no claim only where its park is saved, as long as
\* heartbeats arrive and tools leave deterministic runs to their drivers.
THEOREM DecisionsDurable ==
  ASSUME NoneShared, ~HeartbeatMayFail
  PROVE  CheckpointSpec => []ParkDurableBeforeRelease
  BY CheckpointHolds, DurableParks, PTL

-----------------------------------------------------------------------------
(* The claims that are kept for denied runs                                   *)

\* What the mark on a run's claim stands for.
MarkOK(r) == r \in marked => Slot(r) /\ Row(r) = "PausedCheckpoint"

LEMMA MarkedRows ==
  /\ StateOK => (MarkedIsParked <=> \A r \in Runs : MarkOK(r))
  /\ StateOK' => (MarkedIsParked' <=> \A r \in Runs : MarkOK(r)')
  BY DEF MarkedIsParked, MarkOK, Slot, Row, StatusOf, InStatus, Known, StateOK, StoreTypeOK

\* A run whose claim is marked can neither be resumed nor go on.
LEMMA MarkedRun ==
  ASSUME StateOK, NEW r \in Runs, RunOK(r), ~Shared(r), Fits(r), r \in marked, MarkOK(r)
  PROVE  /\ stored[r] # NoRun
         /\ active[r] # NoRun => active[r].status = "PausedCheckpoint"
         /\ r \notin pendingPersist \cup cancelReady
         /\ ~CanClaim(r)
<1>1. Row(r) = "PausedCheckpoint" /\ Slot(r)
  BY DEF MarkOK
<1>2. active[r] # NoRun => active[r].status = "PausedCheckpoint" /\ r \notin pendingPersist
  BY <1>1 DEF RunOK, Fits, Going, Parked, Executing
<1>3. r \notin pendingPersist \cup cancelReady
  BY <1>2 DEF RunOK
<1> QED BY <1>1, <1>2, <1>3 DEF CanClaim, Slot, Row, StatusOf

\* A claim that loses its mark, or stays as it is with its row.
LEMMA MarkKept ==
  ASSUME NEW r \in Runs, MarkOK(r),
         \/ r \notin marked'
         \/ Row(r)' = Row(r) /\ (Slot(r)' <=> Slot(r)) /\ (r \in marked' => r \in marked)
  PROVE  MarkOK(r)'
  BY DEF MarkOK

\* The run is over, or its end could not be saved.
LEMMA EndOrStayMarks ==
  ASSUME StateOK, NEW r \in Runs, MarkOK(r), NEW m, NEW outcome,
         FinishOk(r, m, outcome, Holds(r)) \/ FinishFails(r, m, Holds(r))
  PROVE  MarkOK(r)'
<1>1. CASE FinishOk(r, m, outcome, Holds(r))
  BY <1>1, MarkKept DEF FinishOk
<1>2. CASE FinishFails(r, m, Holds(r))
  <2>1. UNCHANGED <<stored, claims, marked>>
    BY <1>2 DEF FinishFails, Holds, Save, SetLease, StateOK, StoreTypeOK
  <2> QED BY <2>1, MarkKept DEF Row, Slot
<1> QED BY <1>1, <1>2

\* What a call, or a tick, does to a run whose claim is marked.
LEMMA MarkedStep ==
  ASSUME StateOK, NEW r \in Runs, RunOK(r), ~Shared(r), Fits(r), TodoOK(r), r \in marked, MarkOK(r),
         Operate(r) \/ Maintain(r)
  PROVE  MarkOK(r)'
<1>1. /\ stored[r] # NoRun
      /\ ~Is(r, Executing) /\ ~Is(r, {"WaitingApproval"})
      /\ r \notin pendingPersist \cup cancelReady
  BY MarkedRun DEF Is, Executing
<1>2. CASE UNCHANGED <<stored, claims, marked>>
  BY <1>2, MarkKept DEF Row, Slot
<1>3. CASE Start(r) \/ Approve(r) \/ Deny(r)
  BY <1>1, <1>3 DEF Start, Fresh, Approve, ApproveGate, Deny
<1>4. CASE Boundary(r)
  BY <1>1, <1>2, <1>4 DEF Boundary, storeVars, Is, Executing
<1>5. CASE TurnEnds(r) \/ TurnAborts(r) \/ CapabilityStep(r) \/ ToolAdvance(r)
  <2>1. CASE CapabilityStep(r)
    <3>1. active[r] = NoRun
      BY <2>1, MarkedRun DEF CapabilityStep, RunOK, DriversFit, Parked
    <3> QED BY <1>2, <2>1, <3>1 DEF CapabilityStep, DriverRefused, storeVars
  <2>2. CASE TurnEnds(r) \/ TurnAborts(r) \/ ToolAdvance(r)
    <3>1. \E d : DriverRefused(r, d)
      BY <1>1, <2>2 DEF TurnEnds, TurnAborts, ToolAdvance, Advance, Advanceable
    <3> QED BY <1>2, <3>1 DEF DriverRefused, storeVars
  <2> QED BY <1>5, <2>1, <2>2
<1>6. CASE BudgetSpent(r)
  BY <1>2, <1>6, EndOrStayMarks DEF BudgetSpent, FailBudget, storeVars
<1>7. CASE Cancel(r)
  <2>1. EndNow(r)
    BY <1>1, <1>7 DEF Cancel, Is, Executing
  <2> QED BY <2>1, EndOrStayMarks DEF EndNow
<1>8. CASE LeaseLapses(r)
  <2>1. Row(r)' = Row(r) /\ Slot(r)' /\ Slot(r) /\ UNCHANGED marked
    BY <1>8 DEF LeaseLapses, Row, Slot, StateOK, StoreTypeOK
  <2> QED BY <2>1, MarkKept
<1>9. CASE Maintain(r)
  <2>1. FinalizeBudget(r)
    BY <1>1, <1>9
       DEF Maintain, TimeOut, RetryPark, RetryPend, FinalizeCancel, Visit, TodoOK, Is, Executing
  <2> QED BY <1>1, <1>2, <2>1 DEF FinalizeBudget, storeVars, Is, Executing
<1> QED BY <1>3, <1>4, <1>5, <1>6, <1>7, <1>8, <1>9 DEF Operate

\* A decision on a run whose claim is marked can only end it, or fail to.
LEMMA MarkedDecision ==
  ASSUME StateOK, NEW r \in Runs, RunOK(r), ~Shared(r), Fits(r), r \in marked, MarkOK(r), Decide(r)
  PROVE  MarkOK(r)'
<1>1. DecideDenyEnds(r)
  BY MarkedRun DEF Decide, DecideOnward, DecideApproveEnds, Revise
<1>2. CASE FinishOk(r, Decided(r, FALSE), "Failed", Takes(r)) \/ MarkFails(r)
  BY <1>2, MarkKept DEF FinishOk, MarkFails
<1>3. CASE EndRejected(r)
  <2>1. Row(r)' = Row(r) /\ Slot(r)'
    BY <1>3 DEF EndRejected, SetLease, Row, Slot, StateOK, StoreTypeOK
  <2> QED BY <2>1 DEF MarkOK
<1> QED BY <1>1, <1>2, <1>3 DEF DecideDenyEnds

\* A step on one run keeps every mark in order.
LEMMA OneRunMarks ==
  ASSUME RecInv, \A q \in Runs : MarkOK(q), NEW r \in Runs, OneRunStep(r),
         r \in marked => MarkOK(r)'
  PROVE  \A q \in Runs : MarkOK(q)'
<1>1. MarkOK(r)'
  BY DEF OneRunStep, Told, MarkOK
<1>2. ASSUME NEW q \in Runs \ {r}
      PROVE  MarkOK(q)'
  <2>1. Row(q)' = Row(q) /\ (Slot(q)' <=> Slot(q))
    BY OthersFit DEF RecInv
  <2>2. q \in marked' => q \in marked
    BY DEF OneRunStep, Told
  <2> QED BY <2>1, <2>2, MarkKept
<1> QED BY <1>1, <1>2

\* The reaper takes the mark with the claim.
LEMMA TickEndsMarks ==
  ASSUME NoneShared, RecInv, TickEnds, NEW r \in Runs, MarkOK(r)
  PROVE  MarkOK(r)'
<1>1. Row(r)' = Row(r) \/ Row(r) \in Terminal
  BY TickEndsRows DEF RecInv
<1>2. PICK missed, kept :
        LET beats   == Heartbeats
            expired == {q \in Claimed \ (beats \ missed) : claims[q] = "lapsed"}
        IN /\ claims' = [q \in Runs |-> IF q \in expired \ kept THEN "none"
                                        ELSE IF q \in beats \ missed THEN "fresh"
                                        ELSE claims[q]]
           /\ marked' = marked \ (expired \ kept)
  BY DEF TickEnds
<1>3. r \in marked' => r \in marked /\ (Slot(r) => Slot(r)')
  BY <1>2 DEF Slot
<1> QED BY <1>1, <1>3 DEF MarkOK, Terminal

\* A restart keeps the claim of a run whose mark it keeps.
LEMMA RestoresMark ==
  ASSUME NEW r \in Runs, stored[r].status \in Parked, Slot(r), NEW bad, NEW worse,
         NEW b, b = Restores(r, bad, worse), b.marks
  PROVE  b.row = stored[r] /\ b.lease # "none"
<1> DEFINE keeps == (r \in marked \/ r \in bad) /\ stored[r].step \notin stored[r].results
           marks == r \in marked /\ (keeps \/ r \in worse)
           lease == IF keeps
                    THEN IF r \in worse \/ claims[r] = "none" THEN claims[r] ELSE "fresh"
                    ELSE IF r \in worse THEN claims[r] ELSE "none"
<1>1. b = [run |-> stored[r], row |-> stored[r], retains |-> keeps, cancels |-> FALSE,
           marks |-> marks, lease |-> lease]
  BY DEF Restores
<1>2. marks \in BOOLEAN
  OBVIOUS
<1> HIDE DEF marks, keeps, lease
<1>3. b.row = stored[r] /\ b.marks = marks /\ b.lease = lease
  BY <1>1
<1>4. marks
  BY <1>2, <1>3
<1>5. lease # "none"
  BY <1>4 DEF marks, lease, Slot
<1> QED BY <1>3, <1>5

LEMMA RestartMarks ==
  ASSUME RecInv, Restart, NEW r \in Runs, MarkOK(r)
  PROVE  MarkOK(r)'
<1>1. CASE UNCHANGED <<stored, claims, marked>>
  BY <1>1, MarkKept DEF Row, Slot
<1>2. ASSUME NEW bad, NEW worse, NEW back, back = [q \in Restorable |-> Restores(q, bad, worse)],
             Rebuilds(back), r \in marked'
      PROVE  MarkOK(r)'
  <2>1. r \in marked /\ Slot(r) /\ Row(r) = "PausedCheckpoint"
    BY <1>2 DEF Rebuilds, MarkOK
  <2>2. r \in Restorable /\ stored[r].status \in Parked
    BY <2>1 DEF Row, StatusOf, Restorable, InStatus, Known, Parked
  <2>3. back[r] = Restores(r, bad, worse) /\ back[r].marks
    BY <1>2, <2>2 DEF Rebuilds
  <2>4. back[r].row = stored[r] /\ back[r].lease # "none"
    BY <1>2, <2>1, <2>2, <2>3, RestoresMark
  <2>5. stored'[r] = stored[r] /\ claims'[r] # "none"
    BY <1>2, <2>2, <2>4 DEF Rebuilds
  <2> QED BY <2>1, <2>5 DEF MarkOK, Row, Slot
<1>3. ASSUME NEW bad, NEW worse, NEW back, back = [q \in Restorable |-> Restores(q, bad, worse)],
             Rebuilds(back)
      PROVE  MarkOK(r)'
  <2>1. CASE r \notin marked'
    BY <2>1 DEF MarkOK
  <2>2. CASE r \in marked'
    BY <1>2, <1>3, <2>2
  <2> QED BY <2>1, <2>2
<1>4. CASE RestoreMayFail
  <2>1. ASSUME NEW bad \in SUBSET Restorable, NEW worse \in SUBSET Restorable,
               NEW back, back = [q \in Restorable |-> Restores(q, bad, worse)],
               Failures(1 + Cardinality(bad) + Cardinality(worse)),
               active' = [q \in Runs |-> IF q \in Restorable THEN back[q].run ELSE NoRun],
               stored' = [q \in Runs |-> IF q \in Restorable THEN back[q].row ELSE stored[q]],
               claims' = [q \in Runs |-> IF q \in Restorable THEN back[q].lease ELSE claims[q]],
               marked' = {q \in marked : q \in Restorable => back[q].marks},
               retained' = {q \in Restorable : back[q].retains},
               cancelReady' = {q \in Restorable : back[q].cancels}
        PROVE  MarkOK(r)'
    BY <1>3, <2>1 DEF Rebuilds
  <2>2. CASE /\ Failures(2)
             /\ active' = [q \in Runs |-> NoRun]
             /\ retained' = {}
             /\ cancelReady' = {}
             /\ UNCHANGED <<stored, claims, marked>>
    BY <1>1, <2>2
  <2> QED BY <1>4, <2>1, <2>2 DEF Restart
<1>5. CASE ~RestoreMayFail
  <2>1. ASSUME NEW bad \in {{}}, NEW worse \in SUBSET Restorable,
               NEW back, back = [q \in Restorable |-> Restores(q, bad, worse)],
               Failures(1 + Cardinality(bad) + Cardinality(worse)),
               active' = [q \in Runs |-> IF q \in Restorable THEN back[q].run ELSE NoRun],
               stored' = [q \in Runs |-> IF q \in Restorable THEN back[q].row ELSE stored[q]],
               claims' = [q \in Runs |-> IF q \in Restorable THEN back[q].lease ELSE claims[q]],
               marked' = {q \in marked : q \in Restorable => back[q].marks},
               retained' = {q \in Restorable : back[q].retains},
               cancelReady' = {q \in Restorable : back[q].cancels}
        PROVE  MarkOK(r)'
    BY <1>3, <2>1 DEF Rebuilds
  <2> QED BY <1>5, <2>1 DEF Restart
<1> QED BY <1>4, <1>5

\* A mark on a claim is held by a run parked at its checkpoint, durably, whatever fails
\* and whoever decides, as long as tools leave deterministic runs to their drivers: the
\* claim of a denied run whose end could not be saved is never what the run goes on with.
THEOREM MarksHold ==
  ASSUME NoneShared
  PROVE  CheckpointSpec => []MarkedIsParked
<1>1. Init => MarkedIsParked
  BY DEF Init, StoreInit, MarkedIsParked
<1>2. RecInv /\ MarkedIsParked /\ [CheckpointNext]_vars => MarkedIsParked'
  <2> SUFFICES ASSUME RecInv, MarkedIsParked, [CheckpointNext]_vars
               PROVE  MarkedIsParked'
    OBVIOUS
  <2>1. /\ StateOK /\ \A r \in Runs : RunOK(r) /\ ~Shared(r) /\ Fits(r) /\ TodoOK(r)
        /\ \A r \in Runs : MarkOK(r)
    BY MarkedRows DEF NoneShared, RecInv, Inv
  <2> SUFFICES \A r \in Runs : MarkOK(r)'
    <3>1. StateOK'
      BY CheckpointRec DEF RecInv, Inv
    <3> QED BY <3>1, MarkedRows
  <2>2. ASSUME NEW r \in Runs, Operate(r) \/ Maintain(r)
        PROVE  \A q \in Runs : MarkOK(q)'
    <3>1. OneRunStep(r)
      BY <2>1, <2>2, OperateSound, OperateTold, MaintainSound, MaintainTold
         DEF RecInv, Inv, OneRunStep
    <3> QED BY <2>1, <2>2, <3>1, MarkedStep, OneRunMarks
  <2>3. ASSUME NEW r \in Runs, Decide(r)
        PROVE  \A q \in Runs : MarkOK(q)'
    BY <2>1, <2>3, DecisionStep, MarkedDecision, OneRunMarks
  <2>4. CASE TickBegins \/ PhaseEnds \/ UNCHANGED vars
    BY <2>1, <2>4, MarkKept DEF TickBegins, PhaseEnds, vars, storeVars, Row, Slot
  <2>5. CASE TickEnds
    BY <2>1, <2>5, TickEndsMarks
  <2>6. CASE Restart
    BY <2>1, <2>6, RestartMarks
  <2> QED BY <2>2, <2>3, <2>4, <2>5, <2>6, CheckpointSteps DEF Next, Tick
<1> QED BY CheckpointHolds, <1>1, <1>2, PTL DEF CheckpointSpec
-----------------------------------------------------------------------------
(***************************************************************************)
(* Decisions through the engine's own calls (DirectSpec).  A denial that   *)
(* goes on may leave the row ahead of the run it put back in its park, so  *)
(* that Fits does not hold; what the engine has of its runs is in order    *)
(* all the same.                                                           *)
(***************************************************************************)

LEMMA ApproveStepSound ==
  ASSUME StateOK, NEW r \in Runs, RunOK(r), ApproveStep(r)
  PROVE  Sound(r)
<1> DEFINE m == Decided(r, TRUE)
<1>1. Decidable(r) /\ active[r] # NoRun /\ Movable(r) /\ Headless \in CallersOf(r)
  BY DecidableRun DEF ApproveStep
<1>2. m \in RunRecord /\ m.status = "Running"
  BY <1>1, DecidedRecord
<1>3. Takes(r) \in Calls /\ Takes(r) \in Claiming(r) /\ Fail(Takes(r)) \in Calls
  BY TakesCall, FailCall
<1>4. driver' = driver => driver' = [driver EXCEPT ![r] = driver[r]]
  BY DEF StateOK
<1> HIDE DEF m
<1>5. CASE \E s \in Steps : Reach(r, m, s, Takes(r), Headless)
  BY <1>1, <1>2, <1>3, <1>5, ReachSound
<1>6. CASE \E outcome \in {"Completed", "Failed"} :
             FinishOk(r, m, outcome, Takes(r)) /\ UNCHANGED driver
  BY <1>2, <1>3, <1>4, <1>6, FinishOkSound DEF Terminal
<1>7. ASSUME NEW x \in {m} \cup {At(m, s) : s \in Steps},
             Cache(r, [x EXCEPT !.status = "PausedCheckpoint", !.cleared = FALSE]),
             Withdraw(r), UNCHANGED <<stored, trackVars, driver>>
      PROVE  Sound(r)
  <2> DEFINE y == [x EXCEPT !.status = "PausedCheckpoint", !.cleared = FALSE]
  <2>1. x \in RunRecord
    BY <1>2, AtRecord
  <2>2. y \in RunRecord /\ y.status = "PausedCheckpoint"
    BY <2>1 DEF RunRecord, Parked
  <2>3. /\ \E left \in Leases : claims' = [claims EXCEPT ![r] = left]
        /\ marked' \subseteq Runs
        /\ \E n \in Nat : Failures(n)
    BY <1>3, <1>7, ReleaseLease DEF Withdraw, Leases
  <2>4. /\ stored[r] \in RunRecord \cup {NoRun}
        /\ stored' = [stored EXCEPT ![r] = stored[r]]
        /\ driver' = [driver EXCEPT ![r] = driver[r]]
        /\ driver[r] \in SUBSET Held
        /\ retained' \subseteq Runs
        /\ UNCHANGED <<pendingPersist, cancelReady, budgetReady>>
    BY <1>4, <1>7 DEF StateOK, StoreTypeOK, trackVars
  <2>5. active' = [active EXCEPT ![r] = y]
    BY <1>7 DEF Cache
  <2>6. DriversFit(r, driver[r], y)
    BY <1>1, DecidableRun, IdleFit
  <2> HIDE DEF y
  <2> QED BY <1>1, <2>2, <2>3, <2>4, <2>5, <2>6, PlacedSound DEF Parked
<1> QED BY <1>5, <1>6, <1>7 DEF ApproveStep, m

\* The runs a denial that goes on may lead to: at work only at a step without a gate.
LEMMA OnwardRecord ==
  ASSUME StateOK, NEW r \in Runs, active[r] # NoRun, NEW v, NEW x \in Onward(r, v)
  PROVE  /\ x \in RunRecord
         /\ x.status \in Parked \cup {"Pending", "Running"}
         /\ x.status = "Running" => ~Gate(r, x.step)
<1> DEFINE m == Decided(r, FALSE)
<1>1. m \in RunRecord
  BY DecidedRecord
<1> HIDE DEF m
<1>2. ASSUME NEW s \in Steps, x = PendedAt(r, m, s)
      PROVE  x \in RunRecord /\ x.status = "Pending"
  BY <1>1, <1>2, PendedAtRecord
<1>3. ASSUME NEW s \in Steps, ~Gate(r, s), x = At(m, s)
      PROVE  x \in RunRecord /\ x.status = "Running" /\ ~Gate(r, x.step)
  BY <1>1, <1>3, AtRecord
<1>4. ASSUME NEW s \in Steps, x = ParkedAt(r, At(m, s))
      PROVE  x \in RunRecord /\ x.status \in Parked
  <2>1. At(m, s) \in RunRecord
    BY <1>1, AtRecord
  <2> QED BY <1>4, <2>1, ParkedAtRecord
<1>5. "Running" \notin Parked
  BY DEF Parked
<1>6. \/ \E s \in Steps : x = PendedAt(r, m, s)
      \/ \E s \in Steps : ~Gate(r, s) /\ x = At(m, s)
      \/ \E s \in Steps : x = ParkedAt(r, At(m, s))
  BY DEF Onward, m
<1>7. CASE \E s \in Steps : x = PendedAt(r, m, s)
  BY <1>2, <1>7
<1>8. CASE \E s \in Steps : ~Gate(r, s) /\ x = At(m, s)
  BY <1>3, <1>8
<1>9. CASE \E s \in Steps : x = ParkedAt(r, At(m, s))
  BY <1>4, <1>5, <1>9
<1> QED BY <1>6, <1>7, <1>8, <1>9

LEMMA DenyOnwardSound ==
  ASSUME StateOK, NEW r \in Runs, RunOK(r), Decidable(r), DenyOnward(r)
  PROVE  Sound(r)
<1>1. active[r] # NoRun /\ Headless \in CallersOf(r) /\ (~Shared(r) => driver[r] = {})
  BY DecidableRun
<1> DEFINE Onwards(v, first, second, freed, told, x) ==
        LET parks  == x.status \in Parked
            stays  == second /\ (parks => told)
            failed == v.c.failed + (IF first THEN 0 ELSE 1) + (IF second THEN 0 ELSE 1)
                        + (IF told THEN 0 ELSE 1)
        IN /\ second /\ ~parks => told /\ ~freed
           /\ told /\ (parks \/ ~second) => freed
           /\ ~told /\ freed => parks /\ first
           /\ stored' = IF first \/ second THEN [stored EXCEPT ![r] = x] ELSE stored
           /\ Frees(r, freed)
           /\ IF stays THEN Cache(r, x) ELSE UNCHANGED active
           /\ IF stays /\ x.status = "Running"
              THEN GoesOn(r, Headless, x) ELSE UNCHANGED driver
           /\ Failures(failed)
           /\ retained' = retained \ {r}
           /\ UNCHANGED <<pendingPersist, cancelReady, budgetReady>>
<1>0. PICK v \in Surveys(r, Takes(r)), first \in BOOLEAN, second \in BOOLEAN,
           freed \in BOOLEAN, told \in BOOLEAN :
        \E x \in Onward(r, v) : Onwards(v, first, second, freed, told, x)
  BY DEF DenyOnward
<1>2. PICK x \in Onward(r, v) : Onwards(v, first, second, freed, told, x)
  BY <1>0
<1> DEFINE parks  == x.status \in Parked
           stays  == second /\ (parks => told)
           failed == v.c.failed + (IF first THEN 0 ELSE 1) + (IF second THEN 0 ELSE 1)
                       + (IF told THEN 0 ELSE 1)
<1>3. /\ x \in RunRecord
      /\ x.status \in Parked \cup {"Pending", "Running"}
      /\ x.status = "Running" => ~Gate(r, x.step)
  BY <1>1, OnwardRecord
<1>4. failed \in Nat /\ Failures(failed)
  <2>1. v.c.failed \in Nat
    BY TakesCall, SurveysCall DEF Calls
  <2> QED BY <1>2, <2>1
<1>5. PICK row \in RunRecord \cup {NoRun} : stored' = [stored EXCEPT ![r] = row]
  <2>1. stored[r] \in RunRecord \cup {NoRun} /\ stored = [stored EXCEPT ![r] = stored[r]]
    BY DEF StateOK, StoreTypeOK
  <2> QED BY <1>2, <1>3, <2>1
<1>6. PICK lease \in {"none", "fresh"} :
        claims' = [claims EXCEPT ![r] = lease] /\ (~freed => lease = "fresh")
  BY <1>2 DEF Frees, SetLease
<1>7. marked' \subseteq Runs /\ retained' \subseteq Runs /\ lease \in Leases
  BY <1>2, <1>6 DEF Frees, StateOK, StoreTypeOK, Leases
<1>8. UNCHANGED <<pendingPersist, cancelReady, budgetReady>>
  BY <1>2
<1> HIDE DEF failed
<1>9. CASE stays
  <2>1. active' = [active EXCEPT ![r] = x]
    BY <1>2, <1>9 DEF Cache
  <2>2. PICK ds \in SUBSET Held :
          driver' = [driver EXCEPT ![r] = ds] /\ DriversFit(r, ds, x)
    <3>1. CASE x.status = "Running"
      <4>1. GoesOn(r, Headless, x)
        BY <1>2, <1>9, <3>1
      <4> HIDE DEF stays, parks
      <4> QED BY <1>1, <1>3, <3>1, <4>1, GoesOnFit
    <3>2. CASE x.status # "Running"
      <4>1. driver' = [driver EXCEPT ![r] = driver[r]] /\ driver[r] \in SUBSET Held
        BY <1>2, <3>2 DEF StateOK
      <4>2. DriversFit(r, driver[r], x)
        BY <1>1, IdleFit
      <4> QED BY <4>1, <4>2
    <3> QED BY <3>1, <3>2
  <2>3. x.status \in {"Pending", "Running"} => lease # "none"
    BY <1>2, <1>6, <1>9 DEF Parked
  <2>4. claims' = [claims EXCEPT ![r] = lease]
    BY <1>6
  <2> HIDE DEF stays, parks
  <2> QED BY <1>3, <1>4, <1>5, <1>7, <1>8, <2>1, <2>2, <2>3, <2>4, PlacedSound
<1>10. CASE ~stays
  <2>1. active' = active /\ driver' = driver
    BY <1>2, <1>10
  <2> QED BY <1>4, <1>5, <1>6, <1>7, <1>8, <2>1, KeptSound
<1> QED BY <1>9, <1>10

LEMMA DenyStepSound ==
  ASSUME StateOK, NEW r \in Runs, RunOK(r), DenyStep(r)
  PROVE  Sound(r)
<1>1. Decidable(r) /\ active[r] # NoRun
  BY DecidableRun DEF DenyStep
<1>2. /\ stored[r] \in RunRecord \cup {NoRun}
      /\ UNCHANGED stored => stored' = [stored EXCEPT ![r] = stored[r]]
  BY DEF StateOK, StoreTypeOK
<1>3. CASE FinishOk(r, Decided(r, FALSE), "Failed", Takes(r)) /\ UNCHANGED driver
  <2>1. Decided(r, FALSE) \in RunRecord /\ Takes(r) \in Calls
    BY <1>1, DecidedRecord, TakesCall
  <2>2. driver' = [driver EXCEPT ![r] = driver[r]]
    BY <1>3 DEF StateOK
  <2> QED BY <1>3, <2>1, <2>2, FinishOkSound DEF Terminal
<1>4. CASE EndRejected(r) /\ retained' = retained \cup {r}
  <2>1. /\ claims' = [claims EXCEPT ![r] = "fresh"]
        /\ marked' \subseteq Runs /\ retained' \subseteq Runs
        /\ Failures(1)
        /\ UNCHANGED <<stored, active, driver, pendingPersist, cancelReady, budgetReady>>
    BY <1>4 DEF EndRejected, SetLease, StateOK, StoreTypeOK
  <2> QED BY <1>1, <1>2, <2>1, KeptSound DEF Leases
<1>5. CASE MarkFails(r)
  BY <1>1, <1>5, MarkFailsSound
<1>6. CASE DenyOnward(r)
  BY <1>1, <1>6, DenyOnwardSound
<1> QED BY <1>3, <1>4, <1>5, <1>6 DEF DenyStep

LEMMA DirectInv ==
  ASSUME Inv, [DirectNext]_vars
  PROVE  Inv'
<1>1. CASE [Next]_vars
  BY <1>1, NextInv
<1>2. ASSUME NEW r \in Runs, ApproveStep(r) \/ DenyStep(r)
      PROVE  Inv'
  <2>1. Sound(r)
    BY <1>2, ApproveStepSound, DenyStepSound DEF Inv
  <2>2. tick = "idle" /\ UNCHANGED <<tick, todo>>
    BY <1>2 DEF ApproveStep, DenyStep, Decidable, tickVars
  <2>3. Renewed(r)'
    BY <2>2 DEF Renewed
  <2> QED BY <2>1, <2>2, <2>3, OneRunKeepsInv
<1> QED BY <1>1, <1>2 DEF DirectNext

LEMMA DirectHolds == DirectSpec => []Inv
<1>1. Inv /\ [DirectNext]_vars => Inv'
  BY DirectInv
<1> QED BY InitInv, <1>1, PTL DEF DirectSpec

\* Where checkpoints are decided by the engine's own calls no agent works on a gated step
\* that was not approved either, however far a failing call got.
THEOREM DirectKeepsGates == DirectSpec => []GateBeforeTurn
  BY DirectHolds, InvGates, PTL

\* A tick still cancels only runs whose cancellation was asked for.
THEOREM DirectCancelsRequested == DirectSpec => []CancelReadyCancelling
<1>1. Inv => CancelReadyCancelling
  BY DEF Inv, StateOK, RunOK, CancelReadyCancelling, Is
<1> QED BY DirectHolds, <1>1, PTL
=============================================================================
