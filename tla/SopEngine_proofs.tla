-------------------------- MODULE SopEngine_proofs --------------------------
(***************************************************************************)
(* Proofs about SopEngine, for any number of runs and any limits.          *)
(*                                                                         *)
(* All but the tick's end and a restart act on one run and leave the       *)
(* others alone, so the invariant is mostly a statement about one run,     *)
(* RunOK, and the proof one lemma per action: it leaves its run in order   *)
(* (RunOK) and the others as they were (OthersKept).                       *)
(***************************************************************************)
EXTENDS SopEngine, FiniteSetTheorems, TLAPS

(***************************************************************************)
(* The inductive invariant.  ClaimBacksExecution and PendingKeepsClaim     *)
(* need to know of a run whose park is not saved that it is parked and     *)
(* claimed; that its claim outlives the reaper needs the tick to have      *)
(* renewed it before (Renewed), as no lease lapses during a tick; and what *)
(* a tick does to a run it chose when a phase began needs the run to be as *)
(* it was then (TodoOK).                                                   *)
(*                                                                         *)
(* A capability step asks only whether its run is being cancelled, so when *)
(* tools move on a deterministic run beside its driver (Shared), the driver*)
(* takes it on from wherever it parked, with or without a claim: of such   *)
(* runs less is true.                                                      *)
(***************************************************************************)
Shared(r) == Deterministic(r) /\ SopOf[r] \in ToolsCutIn

StateOK ==
  /\ StoreTypeOK
  /\ active \in [Runs -> RunRecord \cup {NoRun}]
  /\ pendingPersist \subseteq Runs
  /\ retained \subseteq Runs
  /\ cancelReady \subseteq Runs
  /\ budgetReady \subseteq Runs
  /\ driver \in [Runs -> SUBSET Held]

\* The actions ds can be in the hands of the drivers of run r while it stands at m.
DriversFit(r, ds, m) ==
  /\ \A d \in ds : Gate(r, d.step) => d.cleared
  /\ Deterministic(r) /\ ~Shared(r) /\ ds # {}
       => /\ m # NoRun => m.status \notin Parked \cup {"Pending"}
          /\ \E d \in ds : ds = {d}

\* Only deterministic SOPs have checkpoints to pause at.
PauseFit(r, m) == m # NoRun /\ m.status = "PausedCheckpoint" => Deterministic(r)

\* A restart that goes by this row puts no one to work at a gate not approved.
RowFit(r, row) ==
  /\ row # NoRun /\ row.status = "Running" /\ KindAt(r, row.step) = "gated" => row.cleared
  /\ PauseFit(r, row)

RunOK(r) ==
  /\ active[r] # NoRun => active[r].status \in Parked \cup Executing
  /\ r \in pendingPersist => active[r] # NoRun /\ (active[r].status \in Parked \/ Shared(r))
  /\ r \in cancelReady => active[r] # NoRun /\ active[r].status = "CancelRequested"
  /\ DriversFit(r, driver[r], active[r])
  /\ PauseFit(r, active[r])
  /\ RowFit(r, stored[r])
  /\ ~HeartbeatMayFail /\ ~Shared(r) /\ active[r] # NoRun
       /\ (active[r].status \in Executing \/ r \in pendingPersist)
       => claims[r] # "none"

\* The runs a phase still has to visit are as they were when it began.
TodoOK(r) ==
  r \in todo =>
    /\ tick = "timeouts" => active[r] # NoRun /\ active[r].status = "WaitingApproval"
    /\ tick = "parks"    => r \in pendingPersist
    /\ tick = "pends"    => active[r] # NoRun /\ active[r].status = "Pending"
    /\ tick = "cancels"  => r \in cancelReady

\* The tick has renewed the claim of a park that is not saved.
Renewed(r) ==
  ~HeartbeatMayFail /\ ~Shared(r) /\ r \in pendingPersist
    /\ (tick \in {"pends", "budgets", "cancels"} \/ (tick = "parks" /\ r \notin todo))
    => claims[r] = "fresh"

Inv ==
  /\ StateOK
  /\ tick \in Phases
  /\ todo \subseteq Runs
  /\ \A r \in Runs : RunOK(r) /\ TodoOK(r) /\ Renewed(r)

\* What a step on run r leaves alone.
OthersKept(r) ==
  \A q \in Runs \ {r} :
    /\ active'[q] = active[q]
    /\ stored'[q] = stored[q]
    /\ claims'[q] = claims[q]
    /\ driver'[q] = driver[q]
    /\ q \in pendingPersist' <=> q \in pendingPersist
    /\ q \in cancelReady' <=> q \in cancelReady

\* A step on run r that leaves everything in order.
Sound(r) == StateOK' /\ RunOK(r)' /\ OthersKept(r)

\* A run that an engine call may take elsewhere: none to be saved or cancelled.
Movable(r) == r \notin cancelReady /\ (r \in pendingPersist => Shared(r))

\* A call that holds a claim, unless heartbeats are lost.
Claiming(r) ==
  {c \in Calls : /\ ~HeartbeatMayFail /\ ~Shared(r) => c.lease # "none"
                 /\ RowFit(r, c.row)}

\* Whoever may make a call on run r: a driver of a deterministic run is its only one,
\* unless tools cut in.
CallersOf(r) ==
  {w \in [was : SUBSET driver[r], next : {"ready", "queued", "none"}] :
     Deterministic(r) /\ ~Shared(r) => w.was = driver[r]}

-----------------------------------------------------------------------------
(* Records *)

Status == Parked \cup Executing \cup Terminal

LEMMA NoRunIsNone == NoRun \notin RunRecord
  BY StoreAssumption DEF RunRecord

LEMMA AtRecord ==
  ASSUME NEW m \in RunRecord, NEW s \in Steps
  PROVE  /\ At(m, s) \in RunRecord
         /\ At(m, s).status = "Running"
         /\ At(m, s).step = s
         /\ At(m, s).cleared = FALSE
  BY DEF At, RunRecord, Executing

LEMMA WithResultRecord ==
  ASSUME NEW r \in Runs, NEW m \in RunRecord, NEW s \in Steps
  PROVE  /\ WithResult(r, m, s) \in RunRecord
         /\ WithResult(r, m, s).status = m.status
         /\ WithResult(r, m, s).step = m.step
         /\ WithResult(r, m, s).cleared = m.cleared
  BY DEF WithResult, RunRecord

LEMMA StepInRange ==
  ASSUME NEW m \in RunRecord
  PROVE  m.step \in Steps /\ m.cleared \in BOOLEAN
  BY DEF RunRecord

\* The steps of a deterministic SOP are deterministic, and only those.
LEMMA DeterministicUngated ==
  ASSUME NEW r \in Runs, NEW s \in Steps, Deterministic(r)
  PROVE  KindAt(r, s) # "gated"
<1>1. SopOf[r] \in Sops /\ 1 \in Steps
  BY StoreAssumption DEF Steps
<1>2. KindOf[SopOf[r]] \in [Steps -> AgentKinds] \cup [Steps -> DeterministicKinds]
  BY <1>1, StoreAssumption
<1>3. KindOf[SopOf[r]][1] \notin AgentKinds
  BY DEF Deterministic, KindAt, AgentKinds, DeterministicKinds
<1>4. KindOf[SopOf[r]] \in [Steps -> DeterministicKinds]
  BY <1>1, <1>2, <1>3
<1> QED BY <1>4 DEF KindAt, DeterministicKinds

LEMMA CheckpointDeterministic ==
  ASSUME NEW r \in Runs, NEW s \in Steps, KindAt(r, s) = "checkpoint"
  PROVE  Deterministic(r)
<1>1. SopOf[r] \in Sops /\ 1 \in Steps
  BY StoreAssumption DEF Steps
<1>2. KindOf[SopOf[r]] \in [Steps -> AgentKinds] \cup [Steps -> DeterministicKinds]
  BY <1>1, StoreAssumption
<1>3. KindOf[SopOf[r]][s] \notin AgentKinds
  BY DEF KindAt, AgentKinds
<1>4. KindOf[SopOf[r]] \in [Steps -> DeterministicKinds]
  BY <1>2, <1>3
<1> QED BY <1>1, <1>4 DEF Deterministic, KindAt

LEMMA ParkedAtRecord ==
  ASSUME NEW r \in Runs, NEW m \in RunRecord
  PROVE  /\ ParkedAt(r, m) \in RunRecord
         /\ ParkedAt(r, m).status \in Parked
         /\ ParkedAt(r, m).step = m.step
         /\ ParkedAt(r, m).cleared = m.cleared
         /\ PauseFit(r, ParkedAt(r, m))
<1>1. /\ ParkedAt(r, m) \in RunRecord
      /\ ParkedAt(r, m).status \in Parked
      /\ ParkedAt(r, m).step = m.step
      /\ ParkedAt(r, m).cleared = m.cleared
      /\ ParkedAt(r, m).status = "PausedCheckpoint" => KindAt(r, m.step) = "checkpoint"
  BY DEF ParkedAt, RunRecord, Parked
<1>2. KindAt(r, m.step) = "checkpoint" => Deterministic(r)
  BY StepInRange, CheckpointDeterministic
<1> QED BY <1>1, <1>2 DEF PauseFit

LEMMA PendedAtRecord ==
  ASSUME NEW r \in Runs, NEW m \in RunRecord, NEW s \in Steps
  PROVE  /\ PendedAt(r, m, s) \in RunRecord
         /\ PendedAt(r, m, s).status = "Pending"
         /\ PendedAt(r, m, s).step = s
         /\ PendedAt(r, m, s).cleared = FALSE
<1>1. /\ At(m, s) \in RunRecord
      /\ At(m, s).step = s
      /\ At(m, s).cleared = FALSE
  BY AtRecord
<1>2. /\ WithResult(r, At(m, s), s) \in RunRecord
      /\ WithResult(r, At(m, s), s).step = s
      /\ WithResult(r, At(m, s), s).cleared = FALSE
  BY <1>1, WithResultRecord
<1> QED BY <1>2 DEF PendedAt, RunRecord, Executing

LEMMA StatusRecord ==
  ASSUME NEW m \in RunRecord, NEW stat \in Status
  PROVE  /\ [m EXCEPT !.status = stat] \in RunRecord
         /\ [m EXCEPT !.status = stat].status = stat
         /\ [m EXCEPT !.status = stat].step = m.step
         /\ [m EXCEPT !.status = stat].cleared = m.cleared
  BY DEF RunRecord, Status

-----------------------------------------------------------------------------
(* Calls *)

LEMMA HoldsCall ==
  ASSUME StateOK, NEW r \in Runs
  PROVE  /\ Holds(r) \in Calls
         /\ Holds(r).lease = claims[r]
         /\ Holds(r).row = stored[r]
         /\ Holds(r).failed = 0
  BY DEF Holds, Calls, StateOK, StoreTypeOK

LEMMA TakesCall ==
  ASSUME StateOK, NEW r \in Runs, RunOK(r)
  PROVE  /\ Takes(r) \in Calls
         /\ Takes(r) \in Claiming(r)
         /\ Takes(r).lease = "fresh"
         /\ Takes(r).row = stored[r]
         /\ Takes(r).failed = 0
<1>1. /\ Takes(r) \in Calls
      /\ Takes(r).lease = "fresh"
      /\ Takes(r).row = stored[r]
      /\ Takes(r).failed = 0
  BY DEF Takes, Holds, Calls, Leases, StateOK, StoreTypeOK
<1>2. RowFit(r, stored[r])
  BY DEF RunOK
<1> QED BY <1>1, <1>2 DEF Claiming

LEMMA FailCall ==
  ASSUME NEW c \in Calls
  PROVE  /\ Fail(c) \in Calls
         /\ Fail(c).lease = c.lease
         /\ Fail(c).row = c.row
         /\ Fail(c).failed = c.failed + 1
  BY DEF Fail, Calls

LEMMA SurveysCall ==
  ASSUME NEW r \in Runs, NEW c \in Calls, NEW v \in Surveys(r, c)
  PROVE  /\ v.c \in Calls
         /\ v.c.lease = c.lease
         /\ v.c.row = c.row
  BY FailCall DEF Surveys

LEMMA ClaimingCall ==
  ASSUME NEW r \in Runs, NEW c \in Claiming(r)
  PROVE  /\ c \in Calls
         /\ ~HeartbeatMayFail /\ ~Shared(r) => c.lease # "none"
         /\ RowFit(r, c.row)
  BY DEF Claiming

\* What a survey costs leaves a call the claim it had.
LEMMA SurveysClaiming ==
  ASSUME NEW r \in Runs, NEW c \in Claiming(r), NEW v \in Surveys(r, c)
  PROVE  v.c \in Claiming(r)
  BY ClaimingCall, SurveysCall DEF Claiming

LEMMA FailuresCount ==
  ASSUME StateOK, NEW n \in Nat, Failures(n)
  PROVE  faults' \in 0..MaxFaults
  BY StoreAssumption DEF Failures, StateOK, StoreTypeOK

-----------------------------------------------------------------------------
(* Drivers *)

LEMMA LeavesFit ==
  ASSUME StateOK, NEW r \in Runs, RunOK(r), NEW w \in CallersOf(r), Leaves(r, w), NEW m
  PROVE  \E ds \in SUBSET driver[r] :
           driver' = [driver EXCEPT ![r] = ds] /\ DriversFit(r, ds, m)
<1> DEFINE ds == driver[r] \ w.was
<1>1. driver' = [driver EXCEPT ![r] = ds]
  BY DEF Leaves
<1>2. DriversFit(r, ds, m)
  BY DEF CallersOf, RunOK, DriversFit
<1> QED BY <1>1, <1>2

LEMMA GoesOnFit ==
  ASSUME StateOK, NEW r \in Runs, RunOK(r), NEW w \in CallersOf(r), NEW m \in RunRecord,
         m.status = "Running", Gate(r, m.step) => m.cleared, GoesOn(r, w, m)
  PROVE  \E ds \in SUBSET Held :
           driver' = [driver EXCEPT ![r] = ds] /\ DriversFit(r, ds, m)
<1> DEFINE left == driver[r] \ w.was
           act  == [step |-> m.step, cleared |-> m.cleared, at |-> w.next]
<1>1. /\ left \in SUBSET Held
      /\ \A d \in left : Gate(r, d.step) => d.cleared
      /\ Deterministic(r) /\ ~Shared(r) => left = {}
      /\ w.next \in {"ready", "queued", "none"}
  BY DEF CallersOf, RunOK, DriversFit, StateOK
<1>2. m.status \notin Parked \cup {"Pending"}
  BY DEF Parked
<1>3. CASE w.next = "none"
  <2>1. driver' = [driver EXCEPT ![r] = left]
    BY <1>3 DEF GoesOn
  <2>2. DriversFit(r, left, m)
    BY <1>1, <1>2 DEF DriversFit
  <2> QED BY <1>1, <2>1, <2>2
<1>4. CASE w.next # "none"
  <2>1. driver' = [driver EXCEPT ![r] = left \cup {act}]
    BY <1>4 DEF GoesOn
  <2>2. act \in Held /\ act.step = m.step /\ act.cleared = m.cleared
    BY <1>1, <1>4, StepInRange DEF Held
  <2> HIDE DEF act, left
  <2>3. DriversFit(r, left \cup {act}, m)
    <3>1. \A d \in left \cup {act} : Gate(r, d.step) => d.cleared
      BY <1>1, <2>2
    <3>2. left = {} => left \cup {act} = {act}
      OBVIOUS
    <3> QED BY <1>1, <1>2, <3>1, <3>2 DEF DriversFit
  <2>4. left \cup {act} \in SUBSET Held
    BY <1>1, <2>2
  <2> QED BY <2>1, <2>3, <2>4
<1> QED BY <1>3, <1>4

\* A run that is in order after a step, said of what the step leaves.
LEMMA RunOKNext ==
  ASSUME NEW r \in Runs,
         active'[r] # NoRun => active'[r].status \in Parked \cup Executing,
         r \in pendingPersist' => /\ active'[r] # NoRun
                                  /\ active'[r].status \in Parked \/ Shared(r),
         r \in cancelReady' => active'[r] # NoRun /\ active'[r].status = "CancelRequested",
         DriversFit(r, driver'[r], active'[r]),
         PauseFit(r, active'[r]),
         RowFit(r, stored'[r]),
         ~HeartbeatMayFail /\ ~Shared(r) /\ active'[r] # NoRun
           /\ (active'[r].status \in Executing \/ r \in pendingPersist')
           => claims'[r] # "none"
  PROVE  RunOK(r)'
  BY DEF RunOK, DriversFit, RowFit, PauseFit, Gate, KindAt, Shared, Deterministic

\* Fewer drivers fit a run that is over, or the same where it stands as well.
LEMMA FewerFit ==
  ASSUME NEW r \in Runs, RunOK(r), NEW ds \in SUBSET driver[r]
  PROVE  DriversFit(r, ds, NoRun)
<1>1. Deterministic(r) /\ ~Shared(r) /\ ds # {} => \E d \in ds : ds = {d}
  BY DEF RunOK, DriversFit
<1> QED BY <1>1 DEF RunOK, DriversFit

-----------------------------------------------------------------------------
(* Engine steps over the store *)

\* The end of a run: nothing is left that RunOK could object to.
LEMMA FinishOkSound ==
  ASSUME StateOK, NEW r \in Runs, RunOK(r), NEW m \in RunRecord, NEW outcome \in Terminal,
         NEW c \in Calls, FinishOk(r, m, outcome, c),
         NEW ds \in SUBSET driver[r], driver' = [driver EXCEPT ![r] = ds]
  PROVE  Sound(r)
<1>1. /\ [m EXCEPT !.status = outcome] \in RunRecord
      /\ [m EXCEPT !.status = outcome].status \notin {"Running", "PausedCheckpoint"}
  BY StatusRecord DEF Status, Terminal
<1>2. /\ stored' = [stored EXCEPT ![r] = [m EXCEPT !.status = outcome]]
      /\ claims' = [claims EXCEPT ![r] = "none"]
      /\ marked' = marked \ {r}
      /\ active' = [active EXCEPT ![r] = NoRun]
      /\ pendingPersist' = pendingPersist \ {r}
      /\ retained' = retained \ {r}
      /\ cancelReady' = cancelReady \ {r}
      /\ budgetReady' = budgetReady \ {r}
      /\ Failures(c.failed)
  BY DEF FinishOk, Forget, Save, SetLease, Cache
<1>3. faults' \in 0..MaxFaults
  BY <1>2, FailuresCount DEF Calls
<1>4. StateOK'
  <2>1. ds \in SUBSET Held
    BY DEF StateOK
  <2> QED BY <1>1, <1>2, <1>3, <2>1 DEF StateOK, StoreTypeOK, Leases
<1>5. RunOK(r)'
  <2>1. /\ driver'[r] = ds /\ active'[r] = NoRun
        /\ r \notin pendingPersist' /\ r \notin cancelReady'
        /\ stored'[r] = [m EXCEPT !.status = outcome]
    BY <1>2 DEF StateOK, StoreTypeOK
  <2>2. DriversFit(r, driver'[r], active'[r])
    BY <2>1, FewerFit
  <2>3. PauseFit(r, active'[r]) /\ RowFit(r, stored'[r])
    BY <1>1, <2>1 DEF RowFit, PauseFit
  <2> QED BY <2>1, <2>2, <2>3, RunOKNext
<1>6. OthersKept(r)
  BY <1>2 DEF OthersKept, StateOK, StoreTypeOK
<1> QED BY <1>4, <1>5, <1>6 DEF Sound

\* A run that could not be ended stays, with drivers that fit where it stands.
LEMMA FinishFailsSound ==
  ASSUME StateOK, NEW r \in Runs, NEW m \in RunRecord, NEW c \in Calls, RowFit(r, c.row),
         FinishFails(r, m, c),
         retained' = retained, budgetReady' \subseteq Runs, cancelReady' \subseteq Runs,
         \A q \in Runs \ {r} : q \in cancelReady' <=> q \in cancelReady,
         r \in cancelReady' => m.status = "CancelRequested",
         NEW ds \in SUBSET Held, driver' = [driver EXCEPT ![r] = ds],
         DriversFit(r, ds, m), PauseFit(r, m),
         m.status \in Parked \cup Executing,
         r \in pendingPersist => m.status \in Parked \/ Shared(r),
         ~HeartbeatMayFail /\ ~Shared(r) /\ (m.status \in Executing \/ r \in pendingPersist)
           => c.lease # "none"
  PROVE  Sound(r)
<1>1. /\ stored' = [stored EXCEPT ![r] = c.row]
      /\ claims' = [claims EXCEPT ![r] = c.lease]
      /\ marked' = marked
      /\ active' = [active EXCEPT ![r] = m]
      /\ pendingPersist' = pendingPersist
      /\ Failures(c.failed + 1)
  BY DEF FinishFails, Save, SetLease, Cache
<1>2. faults' \in 0..MaxFaults
  BY <1>1, FailuresCount DEF Calls
<1>3. StateOK'
  BY <1>1, <1>2 DEF StateOK, StoreTypeOK, Calls
<1>4. RunOK(r)'
  <2>1. /\ active'[r] = m /\ active'[r] # NoRun
        /\ driver'[r] = ds
        /\ stored'[r] = c.row
        /\ claims'[r] = c.lease
    BY <1>1, NoRunIsNone DEF StateOK, StoreTypeOK
  <2> QED BY <1>1, <2>1, RunOKNext
<1>5. OthersKept(r)
  BY <1>1 DEF OthersKept, StateOK, StoreTypeOK
<1> QED BY <1>3, <1>4, <1>5 DEF Sound

\* A run is saved best-effort while it executes.
LEMMA PersistSound ==
  ASSUME StateOK, NEW r \in Runs, Movable(r), NEW m \in RunRecord, NEW c \in Claiming(r),
         m.status \in {"Pending", "Running"}, RowFit(r, m),
         Persist(r, m, c), NEW ds \in SUBSET Held, driver' = [driver EXCEPT ![r] = ds],
         DriversFit(r, ds, m),
         UNCHANGED <<retained, cancelReady, budgetReady>>
  PROVE  Sound(r)
<1>0. /\ c \in Calls
      /\ ~HeartbeatMayFail /\ ~Shared(r) => c.lease # "none"
      /\ RowFit(r, c.row)
  BY ClaimingCall
<1>1. PICK lease \in Renewals(c.lease) : claims' = [claims EXCEPT ![r] = lease]
  BY DEF Persist, SetLease
<1>2. lease \in Leases /\ (~HeartbeatMayFail /\ ~Shared(r) => lease # "none")
  BY <1>0, <1>1 DEF Renewals, Calls, Leases
<1>3. PICK row \in {m, c.row} : stored' = [stored EXCEPT ![r] = row]
  BY <1>0 DEF Persist, Save, Calls
<1>4. /\ active' = [active EXCEPT ![r] = m]
      /\ marked' = marked
      /\ pendingPersist' = pendingPersist
  BY DEF Persist, Cache
<1>5. faults' \in 0..MaxFaults
  <2>1. \E n \in Nat : Failures(n)
    BY <1>0 DEF Persist, Calls
  <2> QED BY <2>1, FailuresCount
<1>6. StateOK'
  <2>1. row \in RunRecord \cup {NoRun}
    BY <1>0, <1>3 DEF Calls
  <2> QED BY <1>1, <1>2, <1>3, <1>4, <1>5, <2>1 DEF StateOK, StoreTypeOK
<1>7. RunOK(r)'
  <2>1. /\ active'[r] = m /\ active'[r] # NoRun
        /\ driver'[r] = ds
        /\ RowFit(r, stored'[r])
        /\ claims'[r] = lease
    BY <1>0, <1>1, <1>3, <1>4, NoRunIsNone DEF StateOK, StoreTypeOK
  <2>2. /\ m.status \in Executing /\ PauseFit(r, m)
        /\ r \notin cancelReady' /\ (r \in pendingPersist' => Shared(r))
    BY <1>4 DEF Executing, Movable, PauseFit
  <2> QED BY <1>2, <2>1, <2>2, RunOKNext
<1>8. OthersKept(r)
  BY <1>1, <1>3, <1>4 DEF OthersKept, StateOK, StoreTypeOK
<1> QED BY <1>6, <1>7, <1>8 DEF Sound

\* A run is parked, or what became of one whose park was not saved is saved; a claim
\* that stays with a run that is not saved is renewed.
LEMMA ParkThenReleaseSound ==
  ASSUME StateOK, NEW r \in Runs, NEW m \in RunRecord, NEW c \in Claiming(r),
         m.status \in Parked \/ (Shared(r) /\ m.status \in Executing), PauseFit(r, m),
         r \in cancelReady => m.status = "CancelRequested",
         ParkThenRelease(r, m, c),
         NEW ds \in SUBSET Held, driver' = [driver EXCEPT ![r] = ds], DriversFit(r, ds, m),
         UNCHANGED <<retained, cancelReady, budgetReady>>
  PROVE  /\ Sound(r)
         /\ ~HeartbeatMayFail /\ ~Shared(r) /\ r \in pendingPersist' => claims'[r] = "fresh"
<1> DEFINE Saves(lease) ==
      /\ stored' = [stored EXCEPT ![r] = m]
      /\ pendingPersist' = pendingPersist \ {r}
      /\ Release(r, c, lease)
<1> DEFINE Keeps(lease) ==
      /\ stored' = [stored EXCEPT ![r] = c.row]
      /\ claims' = [claims EXCEPT ![r] = lease]
      /\ pendingPersist' = pendingPersist \cup {r}
      /\ Failures(c.failed + 1)
      /\ marked' = marked
<1>0. /\ c \in Calls
      /\ ~HeartbeatMayFail /\ ~Shared(r) => c.lease # "none"
      /\ RowFit(r, c.row)
  BY ClaimingCall
<1>1. PICK lease \in Renewals(c.lease) : Saves(lease) \/ Keeps(lease)
  BY DEF ParkThenRelease, Save, SetLease
<1>2. lease \in Leases /\ (~HeartbeatMayFail /\ ~Shared(r) => lease = "fresh")
  BY <1>0, <1>1, EngineAssumption DEF Renewals, Calls, Leases
<1>3. active' = [active EXCEPT ![r] = m]
  BY DEF ParkThenRelease, Cache
<1>4. /\ active'[r] = m /\ active'[r] # NoRun
      /\ driver'[r] = ds
      /\ active'[r].status \in Parked \cup Executing
      /\ active'[r].status \in Parked \/ Shared(r)
  BY <1>3, NoRunIsNone DEF StateOK
<1>5. r \in cancelReady' => active'[r].status = "CancelRequested"
  BY <1>4
<1>6. CASE Saves(lease)
  <2>1. PICK left \in Leases : claims' = [claims EXCEPT ![r] = left]
    BY <1>2, <1>6 DEF Release, SetLease, Leases
  <2>2. faults' \in 0..MaxFaults /\ marked' \subseteq Runs
    <3>1. \E n \in Nat : Failures(n)
      BY <1>0, <1>6 DEF Release, Calls
    <3>2. marked' \subseteq Runs
      BY <1>6 DEF Release, StateOK, StoreTypeOK
    <3> QED BY <3>1, <3>2, FailuresCount
  <2>3. StateOK'
    BY <1>3, <1>6, <2>1, <2>2 DEF StateOK, StoreTypeOK
  <2>4. RunOK(r)'
    <3>1. RowFit(r, m)
      BY DeterministicUngated, StepInRange DEF RowFit, Shared, Parked
    <3>2. stored'[r] = m /\ r \notin pendingPersist'
      BY <1>6 DEF StateOK, StoreTypeOK
    <3>3. ~Shared(r) => active'[r].status \notin Executing
      BY <1>4 DEF Parked, Executing
    <3> QED BY <1>4, <1>5, <3>1, <3>2, <3>3, RunOKNext
  <2>5. OthersKept(r)
    BY <1>3, <1>6, <2>1 DEF OthersKept, StateOK, StoreTypeOK
  <2> QED BY <1>6, <2>3, <2>4, <2>5 DEF Sound
<1>7. CASE Keeps(lease)
  <2>1. faults' \in 0..MaxFaults
    BY <1>0, <1>7, FailuresCount DEF Calls
  <2>2. StateOK'
    BY <1>0, <1>2, <1>3, <1>7, <2>1 DEF StateOK, StoreTypeOK, Calls
  <2>3. stored'[r] = c.row /\ claims'[r] = lease
    BY <1>7 DEF StateOK, StoreTypeOK
  <2>4. RunOK(r)'
    BY <1>0, <1>2, <1>4, <1>5, <2>3, RunOKNext
  <2>5. OthersKept(r)
    BY <1>3, <1>7 DEF OthersKept, StateOK, StoreTypeOK
  <2> QED BY <1>2, <2>2, <2>3, <2>4, <2>5 DEF Sound
<1> QED BY <1>1, <1>6, <1>7

\* A claim is given up, which may fail; the run is parked, or there is none.
LEMMA ReleaseSound ==
  ASSUME StateOK, NEW r \in Runs, RunOK(r), r \in pendingPersist => Shared(r),
         active[r] = NoRun \/ active[r].status \in Parked,
         NEW c \in Calls, NEW lease \in Leases, Release(r, c, lease),
         UNCHANGED <<stored, active, pendingPersist, cancelReady, budgetReady, driver>>,
         retained' \subseteq Runs
  PROVE  Sound(r)
<1>1. PICK left \in Leases : claims' = [claims EXCEPT ![r] = left]
  BY DEF Release, SetLease, Leases
<1>2. marked' \subseteq Runs
  BY DEF Release, StateOK, StoreTypeOK
<1>3. faults' \in 0..MaxFaults
  <2>1. \E n \in Nat : Failures(n)
    BY DEF Release, Calls
  <2> QED BY <2>1, FailuresCount
<1>4. StateOK'
  BY <1>1, <1>2, <1>3 DEF StateOK, StoreTypeOK
<1>5. RunOK(r)'
  <2>1. active[r] # NoRun => active[r].status \notin Executing
    BY DEF Parked, Executing
  <2>2. /\ PauseFit(r, active'[r])
        /\ RowFit(r, stored'[r])
        /\ DriversFit(r, driver'[r], active'[r])
    BY DEF RunOK
  <2> QED BY <2>1, <2>2, RunOKNext DEF RunOK
<1>6. OthersKept(r)
  BY <1>1 DEF OthersKept, StateOK, StoreTypeOK
<1> QED BY <1>4, <1>5, <1>6 DEF Sound

LEMMA EndRunSound ==
  ASSUME StateOK, NEW r \in Runs, RunOK(r), Movable(r), NEW m \in RunRecord,
         NEW c \in Claiming(r), NEW w \in CallersOf(r),
         m.status \in {"Pending", "Running"} \/ (Shared(r) /\ m.status \in Parked),
         NEW outcome \in Terminal, EndRun(r, m, outcome, c, w)
  PROVE  Sound(r)
<1>1. c \in Calls /\ (~HeartbeatMayFail /\ ~Shared(r) => c.lease # "none") /\ RowFit(r, c.row)
  BY ClaimingCall
<1>2. PICK ds \in SUBSET driver[r] :
        driver' = [driver EXCEPT ![r] = ds] /\ DriversFit(r, ds, m)
  BY LeavesFit DEF EndRun
<1>3. CASE FinishOk(r, m, outcome, c)
  BY <1>1, <1>2, <1>3, FinishOkSound
<1>4. CASE FinishFails(r, m, c) /\ UNCHANGED <<retained, cancelReady, budgetReady>>
  <2>1. /\ budgetReady' \subseteq Runs /\ cancelReady' \subseteq Runs
        /\ r \notin cancelReady'
        /\ \A q \in Runs \ {r} : q \in cancelReady' <=> q \in cancelReady
        /\ ds \in SUBSET Held
    BY <1>4 DEF StateOK, Movable
  <2>2. /\ m.status \in Parked \cup Executing /\ (r \in pendingPersist => Shared(r))
        /\ PauseFit(r, m)
    BY DEF Executing, Movable, PauseFit, Shared
  <2> QED BY <1>1, <1>2, <1>4, <2>1, <2>2, FinishFailsSound
<1> QED BY <1>3, <1>4 DEF EndRun

LEMMA HoldPendingSound ==
  ASSUME StateOK, NEW r \in Runs, RunOK(r), Movable(r), NEW m \in RunRecord, NEW s \in Steps,
         NEW c \in Claiming(r), NEW w \in CallersOf(r), HoldPending(r, m, s, c, w)
  PROVE  Sound(r)
<1> DEFINE p == PendedAt(r, m, s)
<1>1. p \in RunRecord /\ p.status = "Pending"
  BY PendedAtRecord
<1> HIDE DEF p
<1>2. PICK ds \in SUBSET driver[r] :
        driver' = [driver EXCEPT ![r] = ds] /\ DriversFit(r, ds, p)
  BY LeavesFit DEF HoldPending
<1>3. ds \in SUBSET Held /\ RowFit(r, p)
  BY <1>1 DEF StateOK, RowFit, PauseFit
<1>4. Persist(r, p, c) /\ UNCHANGED <<retained, cancelReady, budgetReady>>
  BY DEF HoldPending, p
<1> QED BY <1>1, <1>2, <1>3, <1>4, PersistSound

LEMMA ReachGateSound ==
  ASSUME StateOK, NEW r \in Runs, RunOK(r), Movable(r), NEW m \in RunRecord,
         NEW c \in Claiming(r), NEW w \in CallersOf(r), ReachGate(r, m, c, w)
  PROVE  Sound(r)
<1>0. c \in Calls /\ m.step \in Steps
  BY StepInRange, ClaimingCall
<1>1. PICK v \in Surveys(r, c) :
        \/ HoldPending(r, m, m.step, v.c, w)
        \/ /\ ParkThenRelease(r, ParkedAt(r, m), v.c)
           /\ Leaves(r, w)
           /\ UNCHANGED <<retained, cancelReady, budgetReady>>
  BY DEF ReachGate
<1>2. v.c \in Claiming(r)
  BY SurveysClaiming
<1>3. CASE HoldPending(r, m, m.step, v.c, w)
  BY <1>0, <1>2, <1>3, HoldPendingSound
<1>4. CASE /\ ParkThenRelease(r, ParkedAt(r, m), v.c)
           /\ Leaves(r, w)
           /\ UNCHANGED <<retained, cancelReady, budgetReady>>
  <2>1. /\ ParkedAt(r, m) \in RunRecord /\ ParkedAt(r, m).status \in Parked
        /\ PauseFit(r, ParkedAt(r, m))
    BY ParkedAtRecord
  <2>2. PICK ds \in SUBSET driver[r] :
          driver' = [driver EXCEPT ![r] = ds] /\ DriversFit(r, ds, ParkedAt(r, m))
    BY <1>4, LeavesFit
  <2>3. ds \in SUBSET Held /\ r \notin cancelReady
    BY DEF StateOK, Movable
  <2> QED BY <1>2, <1>4, <2>1, <2>2, <2>3, ParkThenReleaseSound
<1> QED BY <1>1, <1>3, <1>4

LEMMA ReachSound ==
  ASSUME StateOK, NEW r \in Runs, RunOK(r), Movable(r), NEW m \in RunRecord, NEW s \in Steps,
         NEW c \in Claiming(r), NEW w \in CallersOf(r), Reach(r, m, s, c, w)
  PROVE  Sound(r)
<1> DEFINE a == At(m, s)
<1>0. a \in RunRecord /\ a.status = "Running" /\ a.step = s
  BY AtRecord
<1> HIDE DEF a
<1>1. CASE HoldPending(r, m, s, c, w)
  BY <1>1, HoldPendingSound
<1>2. CASE /\ ~Gate(r, s)
           /\ Persist(r, a, c)
           /\ GoesOn(r, w, a)
           /\ UNCHANGED <<retained, cancelReady, budgetReady>>
  <2>1. RowFit(r, a) /\ (Gate(r, a.step) => a.cleared)
    BY <1>0, <1>2 DEF RowFit, PauseFit, Gate
  <2>2. PICK ds \in SUBSET Held :
          driver' = [driver EXCEPT ![r] = ds] /\ DriversFit(r, ds, a)
    BY <1>0, <1>2, <2>1, GoesOnFit
  <2> QED BY <1>0, <1>2, <2>1, <2>2, PersistSound
<1>3. CASE ReachGate(r, a, c, w)
  BY <1>0, <1>3, ReachGateSound
<1> QED BY <1>1, <1>2, <1>3 DEF Reach, a

LEMMA EnterSound ==
  ASSUME StateOK, NEW r \in Runs, RunOK(r), Movable(r), NEW m \in RunRecord, NEW s \in Steps,
         m.status \in {"Pending", "Running"} \/ (Shared(r) /\ m.status \in Parked),
         NEW c \in Claiming(r), NEW w \in CallersOf(r), Enter(r, m, s, c, w)
  PROVE  Sound(r)
<1>0. At(m, s) \in RunRecord /\ At(m, s).status = "Running" /\ "Failed" \in Terminal
  BY AtRecord DEF Terminal
<1>1. CASE EndRun(r, m, "Failed", c, w)
  BY <1>0, <1>1, EndRunSound
<1>2. CASE EndRun(r, At(m, s), "Failed", c, w)
  BY <1>0, <1>2, EndRunSound
<1>3. CASE Reach(r, m, s, c, w)
  BY <1>3, ReachSound
<1> QED BY <1>1, <1>2, <1>3 DEF Enter

LEMMA StateFileFailsSound ==
  ASSUME StateOK, NEW r \in Runs, RunOK(r), Movable(r), NEW m \in RunRecord,
         NEW c \in Claiming(r), NEW w \in CallersOf(r),
         m.status = "Running", StateFileFails(r, m, c, w)
  PROVE  Sound(r)
<1>0. c \in Calls /\ (~HeartbeatMayFail /\ ~Shared(r) => c.lease # "none") /\ RowFit(r, c.row)
  BY ClaimingCall
<1>1. faults' \in 0..MaxFaults
  <2>1. PICK v \in Surveys(r, c) : Failures(v.c.failed + 1)
    BY DEF StateFileFails
  <2>2. v.c.failed + 1 \in Nat
    BY <1>0, SurveysCall DEF Calls
  <2> QED BY <2>1, <2>2, FailuresCount
<1>2. PICK ds \in SUBSET driver[r] :
        driver' = [driver EXCEPT ![r] = ds] /\ DriversFit(r, ds, m)
  BY LeavesFit DEF StateFileFails
<1>3. /\ active' = [active EXCEPT ![r] = m]
      /\ stored' = [stored EXCEPT ![r] = c.row]
      /\ claims' = [claims EXCEPT ![r] = c.lease]
      /\ UNCHANGED <<marked, pendingPersist, retained, cancelReady, budgetReady>>
  BY DEF StateFileFails, Cache, Save, SetLease, trackVars
<1>4. StateOK'
  <2>1. ds \in SUBSET Held
    BY DEF StateOK
  <2> QED BY <1>0, <1>1, <1>2, <1>3, <2>1 DEF StateOK, StoreTypeOK, Calls
<1>5. RunOK(r)'
  <2>1. /\ active'[r] = m /\ active'[r] # NoRun
        /\ driver'[r] = ds
        /\ stored'[r] = c.row
        /\ claims'[r] = c.lease
    BY <1>2, <1>3, NoRunIsNone DEF StateOK, StoreTypeOK
  <2>2. /\ m.status \in Executing /\ PauseFit(r, m)
        /\ r \notin cancelReady' /\ (r \in pendingPersist' => Shared(r))
    BY <1>3 DEF Executing, Movable, PauseFit
  <2> QED BY <1>0, <1>2, <2>1, <2>2, RunOKNext
<1>6. OthersKept(r)
  BY <1>2, <1>3 DEF OthersKept, StateOK, StoreTypeOK
<1> QED BY <1>4, <1>5, <1>6 DEF Sound

LEMMA DispatchSound ==
  ASSUME StateOK, NEW r \in Runs, RunOK(r), Movable(r), NEW m \in RunRecord, NEW s \in Steps,
         m.status \in {"Pending", "Running"} \/ (Shared(r) /\ m.status \in Parked),
         NEW c \in Claiming(r), NEW w \in CallersOf(r), Dispatch(r, m, s, c, w)
  PROVE  Sound(r)
<1>1. CASE Enter(r, m, s, c, w)
  BY <1>1, EnterSound
<1>2. CASE StateFileFails(r, At(m, s), c, w)
  BY <1>2, AtRecord, StateFileFailsSound
<1> QED BY <1>1, <1>2 DEF Dispatch

-----------------------------------------------------------------------------
(* Actions on one run *)

LEMMA ActiveRecord ==
  ASSUME StateOK, NEW r \in Runs, active[r] # NoRun
  PROVE  active[r] \in RunRecord /\ active[r].step \in Steps
<1>1. active[r] \in RunRecord
  BY DEF StateOK
<1> QED BY <1>1, StepInRange

LEMMA ExecutingMovable ==
  ASSUME NEW r \in Runs, RunOK(r), active[r] # NoRun,
         active[r].status \in {"Pending", "Running"} \/ (Shared(r) /\ active[r].status \in Parked)
  PROVE  Movable(r)
  BY DEF Movable, RunOK, Parked

LEMMA HoldsClaiming ==
  ASSUME StateOK, NEW r \in Runs, RunOK(r), active[r] # NoRun,
         active[r].status \in Executing \/ r \in pendingPersist \/ Shared(r)
  PROVE  Holds(r) \in Claiming(r)
  BY HoldsCall DEF RunOK, Claiming

\* Who has nothing in hand can act for a run that no driver has, or for any that is not
\* a deterministic one left to its driver.
LEMMA CallersCall ==
  ASSUME NEW r \in Runs, NEW w \in Callers,
         Deterministic(r) /\ ~Shared(r) => driver[r] = {}
  PROVE  w \in CallersOf(r)
  BY DEF Callers, CallersOf, Headless, Queue, Nobody

LEMMA DriverCall ==
  ASSUME StateOK, NEW r \in Runs, RunOK(r), NEW d \in driver[r]
  PROVE  Driver(d) \in CallersOf(r)
<1>1. Driver(d) \in [was : SUBSET driver[r], next : {"ready", "queued", "none"}]
  BY DEF Driver
<1>2. Driver(d).was = {d}
  BY DEF Driver
<1>3. Deterministic(r) /\ ~Shared(r) => driver[r] = {d}
  BY DEF RunOK, DriversFit
<1> QED BY <1>1, <1>2, <1>3 DEF CallersOf

LEMMA StartSound ==
  ASSUME StateOK, NEW r \in Runs, RunOK(r), Start(r)
  PROVE  Sound(r)
<1>1. active[r] = NoRun /\ Movable(r) /\ r \notin pendingPersist /\ driver[r] = {}
  BY DEF Start, Fresh, RunOK, Movable
<1>2. PICK v \in Surveys(r, Takes(r)) :
        \/ \E w \in Callers : Enter(r, FirstStep, 1, v.c, w)
        \/ StartFails(r, v.c)
  BY DEF Start
<1>3. v.c \in Calls /\ v.c \in Claiming(r)
  BY TakesCall, SurveysCall, SurveysClaiming
<1>4. CASE \E w \in Callers : Enter(r, FirstStep, 1, v.c, w)
  <2>1. FirstStep \in RunRecord /\ FirstStep.status = "Running" /\ 1 \in Steps
    BY StoreAssumption DEF FirstStep, RunRecord, Executing, Steps
  <2>2. PICK w \in Callers : Enter(r, FirstStep, 1, v.c, w)
    BY <1>4
  <2>3. w \in CallersOf(r)
    BY <1>1, CallersCall
  <2> QED BY <1>1, <1>3, <2>1, <2>2, <2>3, EnterSound
<1>5. CASE StartFails(r, v.c)
  <2>1. /\ Release(r, Fail(v.c), "fresh")
        /\ UNCHANGED <<stored, active, pendingPersist, retained, cancelReady, budgetReady, driver>>
    BY <1>5 DEF StartFails, trackVars
  <2>2. Fail(v.c) \in Calls /\ "fresh" \in Leases
    BY <1>3, FailCall DEF Leases
  <2>3. retained' \subseteq Runs
    BY <2>1 DEF StateOK
  <2> QED BY <1>1, <2>1, <2>2, <2>3, ReleaseSound
<1> QED BY <1>2, <1>4, <1>5

LEMMA FinishCancellingSound ==
  ASSUME StateOK, NEW r \in Runs, RunOK(r), active[r] # NoRun,
         active[r].status = "CancelRequested", NEW w \in CallersOf(r),
         NEW m \in RunRecord, m.status = "CancelRequested", FinishCancelling(r, m, w)
  PROVE  Sound(r)
<1>1. /\ Holds(r) \in Calls
      /\ ~HeartbeatMayFail /\ ~Shared(r) => Holds(r).lease # "none"
      /\ RowFit(r, Holds(r).row)
  BY HoldsCall, HoldsClaiming, ClaimingCall DEF Executing
<1>2. PICK ds \in SUBSET driver[r] :
        driver' = [driver EXCEPT ![r] = ds] /\ DriversFit(r, ds, m)
  BY LeavesFit DEF FinishCancelling
<1>3. CASE FinishOk(r, m, "Cancelled", Holds(r))
  BY <1>1, <1>2, <1>3, FinishOkSound DEF Terminal
<1>4. CASE /\ FinishFails(r, m, Holds(r))
           /\ cancelReady' = cancelReady \cup {r}
           /\ UNCHANGED <<retained, budgetReady>>
  <2>1. /\ budgetReady' \subseteq Runs
        /\ cancelReady' \subseteq Runs
        /\ \A q \in Runs \ {r} : q \in cancelReady' <=> q \in cancelReady
        /\ ds \in SUBSET Held
    BY <1>4 DEF StateOK
  <2>2. m.status \in Executing /\ (r \in pendingPersist => Shared(r)) /\ PauseFit(r, m)
    BY DEF Executing, Parked, RunOK, PauseFit
  <2> QED BY <1>1, <1>2, <1>4, <2>1, <2>2, FinishFailsSound
<1> QED BY <1>3, <1>4 DEF FinishCancelling

\* A result is recorded and the run taken on, which only the driver of a deterministic
\* run that tools move does to one that is parked.
LEMMA RouteSound ==
  ASSUME StateOK, NEW r \in Runs, RunOK(r), NEW w \in CallersOf(r), active[r] # NoRun,
         active[r].status \in Executing \/ Shared(r), Route(r, Recorded(r), w)
  PROVE  Sound(r)
<1> DEFINE m == Recorded(r)
<1>1. m \in RunRecord /\ m.status = active[r].status
  BY ActiveRecord, WithResultRecord DEF Recorded
<1>2. Holds(r) \in Claiming(r)
  BY HoldsClaiming
<1>3. Route(r, m, w)
  OBVIOUS
<1> HIDE DEF m
<1>4. CASE m.status = "CancelRequested"
  BY <1>1, <1>3, <1>4, FinishCancellingSound DEF Route
<1>5. CASE m.status # "CancelRequested"
  <2>1. m.status \in {"Pending", "Running"} \/ (Shared(r) /\ m.status \in Parked)
    BY <1>1, <1>5 DEF Executing, RunOK
  <2>2. Movable(r)
    BY <1>1, <2>1, ExecutingMovable
  <2>3. CASE \E s \in Steps : Dispatch(r, m, s, Holds(r), w)
    BY <1>1, <1>2, <2>1, <2>2, <2>3, DispatchSound
  <2>4. CASE \E s \in Steps : HoldPending(r, m, s, Holds(r), w)
    BY <1>1, <1>2, <2>2, <2>4, HoldPendingSound
  <2>5. CASE EndRun(r, m, "Completed", Holds(r), w) \/ EndRun(r, m, "Failed", Holds(r), w)
    BY <1>1, <1>2, <2>1, <2>2, <2>5, EndRunSound DEF Terminal
  <2> QED BY <1>3, <1>5, <2>3, <2>4, <2>5 DEF Route
<1> QED BY <1>4, <1>5

LEMMA AdvanceSound ==
  ASSUME StateOK, NEW r \in Runs, RunOK(r), NEW w \in CallersOf(r), Advance(r, w)
  PROVE  Sound(r)
  BY RouteSound DEF Advance, Advanceable, Is

\* Only the run's drivers, or what is tracked of them, change.
LEMMA DriverSound ==
  ASSUME StateOK, NEW r \in Runs, RunOK(r),
         UNCHANGED <<storeVars, active, pendingPersist, retained>>,
         budgetReady' \subseteq Runs,
         cancelReady' \subseteq Runs,
         \A q \in Runs \ {r} : q \in cancelReady' <=> q \in cancelReady,
         r \in cancelReady' => active[r] # NoRun /\ active[r].status = "CancelRequested",
         NEW ds \in SUBSET Held, driver' = [driver EXCEPT ![r] = ds],
         DriversFit(r, ds, active[r])
  PROVE  Sound(r)
<1>1. StateOK'
  BY DEF StateOK, StoreTypeOK, storeVars
<1>2. RunOK(r)'
  <2>1. driver'[r] = ds /\ active'[r] = active[r]
    BY DEF StateOK
  <2>2. DriversFit(r, driver'[r], active'[r])
    BY <2>1
  <2>3. PauseFit(r, active'[r]) /\ RowFit(r, stored'[r])
    BY <2>1 DEF storeVars, RunOK
  <2> QED BY <2>2, <2>3, RunOKNext DEF RunOK, storeVars
<1>3. OthersKept(r)
  BY DEF OthersKept, storeVars, StateOK
<1> QED BY <1>1, <1>2, <1>3 DEF Sound

LEMMA DriverRefusedSound ==
  ASSUME StateOK, NEW r \in Runs, RunOK(r), NEW d \in driver[r], DriverRefused(r, d)
  PROVE  Sound(r)
<1>1. PICK ds \in SUBSET driver[r] :
        driver' = [driver EXCEPT ![r] = ds] /\ DriversFit(r, ds, active[r])
  BY DriverCall, LeavesFit DEF DriverRefused
<1>2. UNCHANGED <<storeVars, active, pendingPersist, retained, cancelReady, budgetReady>>
  BY DEF DriverRefused, trackVars
<1>3. ds \in SUBSET Held /\ cancelReady' \subseteq Runs /\ budgetReady' \subseteq Runs
  BY <1>2 DEF StateOK
<1>4. r \in cancelReady' => active[r] # NoRun /\ active[r].status = "CancelRequested"
  BY <1>2 DEF RunOK
<1> QED BY <1>1, <1>2, <1>3, <1>4, DriverSound

LEMMA BoundarySound ==
  ASSUME StateOK, NEW r \in Runs, RunOK(r), Boundary(r)
  PROVE  Sound(r)
<1>0. PICK d \in driver[r] :
        /\ d.at = "ready"
        /\ IF Is(r, {"CancelRequested"})
           THEN FinishCancelling(r, active[r], Driver(d))
           ELSE /\ driver' = [driver EXCEPT ![r] = (@ \ {d}) \cup {[d EXCEPT !.at = "turn"]}]
                /\ cancelReady' = cancelReady \ {r}
                /\ UNCHANGED <<storeVars, active, pendingPersist, retained, budgetReady>>
  BY DEF Boundary
<1>1. CASE Is(r, {"CancelRequested"})
  <2>1. active[r] # NoRun /\ active[r].status = "CancelRequested" /\ active[r] \in RunRecord
    BY <1>1, ActiveRecord DEF Is
  <2>2. FinishCancelling(r, active[r], Driver(d))
    BY <1>0, <1>1
  <2> QED BY <2>1, <2>2, DriverCall, FinishCancellingSound
<1>2. CASE ~Is(r, {"CancelRequested"})
  <2> DEFINE e  == [d EXCEPT !.at = "turn"]
             ds == (driver[r] \ {d}) \cup {e}
  <2>1. /\ driver' = [driver EXCEPT ![r] = ds]
        /\ cancelReady' = cancelReady \ {r}
        /\ UNCHANGED <<storeVars, active, pendingPersist, retained, budgetReady>>
    BY <1>0, <1>2
  <2>2. d \in Held /\ driver[r] \in SUBSET Held
    BY DEF StateOK
  <2>3. e \in Held /\ e.step = d.step /\ e.cleared = d.cleared
    BY <2>2 DEF Held
  <2> HIDE DEF e
  <2>4. ds \in SUBSET Held
    BY <2>2, <2>3
  <2>5. DriversFit(r, ds, active[r])
    <3>1. ~Deterministic(r)
      BY DEF Boundary
    <3>2. \A f \in driver[r] : Gate(r, f.step) => f.cleared
      BY DEF RunOK, DriversFit
    <3>3. \A f \in ds : Gate(r, f.step) => f.cleared
      BY <2>3, <3>2
    <3> QED BY <3>1, <3>3 DEF DriversFit
  <2>6. cancelReady' \subseteq Runs /\ budgetReady' \subseteq Runs
    BY <2>1 DEF StateOK
  <2> QED BY <2>1, <2>4, <2>5, <2>6, DriverSound
<1> QED BY <1>1, <1>2

LEMMA TurnEndsSound ==
  ASSUME StateOK, NEW r \in Runs, RunOK(r), TurnEnds(r)
  PROVE  Sound(r)
  BY AdvanceSound, DriverCall, DriverRefusedSound DEF TurnEnds

\* The driver of a deterministic run finds it executing, unless tools moved it.
LEMMA CapabilityStepSound ==
  ASSUME StateOK, NEW r \in Runs, RunOK(r), CapabilityStep(r)
  PROVE  Sound(r)
<1>1. PICK d \in driver[r] :
        IF active[r] # NoRun THEN Route(r, Recorded(r), Driver(d)) ELSE DriverRefused(r, d)
  BY DEF CapabilityStep
<1>2. CASE active[r] = NoRun
  BY <1>1, <1>2, DriverRefusedSound
<1>3. CASE active[r] # NoRun
  <2>1. active[r].status \in Executing \/ Shared(r)
    BY <1>3 DEF CapabilityStep, RunOK, DriversFit
  <2> QED BY <1>1, <1>3, <2>1, DriverCall, RouteSound
<1> QED BY <1>2, <1>3

LEMMA ToolAdvanceSound ==
  ASSUME StateOK, NEW r \in Runs, RunOK(r), ToolAdvance(r)
  PROVE  Sound(r)
<1>1. PICK w \in Callers : Advance(r, w)
  BY DEF ToolAdvance, Callers
<1>2. Deterministic(r) /\ ~Shared(r) => driver[r] = {}
  BY DEF ToolAdvance, Shared
<1> QED BY <1>1, <1>2, CallersCall, AdvanceSound

\* The run is failed, or stays as it is with drivers that fit it.
LEMMA FailBudgetSound ==
  ASSUME StateOK, NEW r \in Runs, RunOK(r), active[r] # NoRun, FailBudget(r),
         NEW ds \in SUBSET driver[r], driver' = [driver EXCEPT ![r] = ds],
         DriversFit(r, ds, active[r])
  PROVE  Sound(r)
<1>1. active[r] \in RunRecord /\ Holds(r) \in Calls /\ "Failed" \in Terminal
  BY ActiveRecord, HoldsCall DEF Terminal
<1>2. CASE FinishOk(r, active[r], "Failed", Holds(r))
  BY <1>1, <1>2, FinishOkSound
<1>3. CASE /\ FinishFails(r, active[r], Holds(r))
           /\ budgetReady' = budgetReady \cup {r}
           /\ UNCHANGED <<retained, cancelReady>>
  <2>1. budgetReady' \subseteq Runs /\ cancelReady' \subseteq Runs /\ ds \in SUBSET Held
    BY <1>3 DEF StateOK
  <2>2. /\ r \in cancelReady' => active[r].status = "CancelRequested"
        /\ active[r].status \in Parked \cup Executing
        /\ r \in pendingPersist => active[r].status \in Parked \/ Shared(r)
        /\ PauseFit(r, active[r])
    BY <1>3 DEF RunOK
  <2>3. /\ ~HeartbeatMayFail /\ ~Shared(r) /\ (active[r].status \in Executing \/ r \in pendingPersist)
             => Holds(r).lease # "none"
        /\ RowFit(r, Holds(r).row)
    BY HoldsCall DEF RunOK
  <2> QED BY <1>1, <1>3, <2>1, <2>2, <2>3, FinishFailsSound
<1> QED BY <1>2, <1>3 DEF FailBudget

LEMMA BudgetSpentSound ==
  ASSUME StateOK, NEW r \in Runs, RunOK(r), BudgetSpent(r)
  PROVE  Sound(r)
<1>1. PICK ds \in SUBSET driver[r] :
        driver' = [driver EXCEPT ![r] = ds] /\ DriversFit(r, ds, active[r])
  BY DriverCall, LeavesFit DEF BudgetSpent
<1>2. CASE active[r] # NoRun
  BY <1>1, <1>2, FailBudgetSound DEF BudgetSpent
<1>3. CASE active[r] = NoRun
  <2>1. /\ budgetReady' = budgetReady \cup {r}
        /\ UNCHANGED <<storeVars, active, pendingPersist, retained, cancelReady>>
    BY <1>3 DEF BudgetSpent
  <2>2. cancelReady' \subseteq Runs /\ budgetReady' \subseteq Runs /\ ds \in SUBSET Held
    BY <2>1 DEF StateOK
  <2>3. r \notin cancelReady'
    BY <1>3, <2>1 DEF RunOK
  <2> QED BY <1>1, <2>1, <2>2, <2>3, DriverSound
<1> QED BY <1>2, <1>3

LEMMA GateClearedSound ==
  ASSUME StateOK, NEW r \in Runs, RunOK(r), Movable(r), NEW m \in RunRecord,
         NEW w \in CallersOf(r),
         \/ m.status = "Pending" /\ w.next = "none"
         \/ m.status = "Running" /\ m.cleared,
         GateCleared(r, m, w)
  PROVE  Sound(r)
<1>1. /\ active' = [active EXCEPT ![r] = m]
      /\ stored' = [stored EXCEPT ![r] = m]
      /\ claims' = [claims EXCEPT ![r] = "fresh"]
      /\ UNCHANGED <<marked, faults, pendingPersist, retained, cancelReady, budgetReady>>
  BY DEF GateCleared, Cache, Save, SetLease, trackVars
<1>2. PICK ds \in SUBSET Held :
        driver' = [driver EXCEPT ![r] = ds] /\ DriversFit(r, ds, m)
  <2>1. CASE w.next = "none"
    <3>1. Leaves(r, w)
      BY <2>1 DEF GateCleared, GoesOn, Leaves
    <3>2. SUBSET driver[r] \subseteq SUBSET Held
      BY DEF StateOK
    <3> QED BY <3>1, <3>2, LeavesFit
  <2>2. CASE m.status = "Running" /\ m.cleared
    BY <2>2, GoesOnFit DEF GateCleared
  <2> QED BY <2>1, <2>2
<1>3. StateOK'
  BY <1>1, <1>2 DEF StateOK, StoreTypeOK, Leases
<1>4. RunOK(r)'
  <2>1. /\ active'[r] = m /\ active'[r] # NoRun
        /\ driver'[r] = ds
        /\ stored'[r] = m
        /\ claims'[r] = "fresh"
    BY <1>1, <1>2, NoRunIsNone DEF StateOK, StoreTypeOK
  <2>2. PauseFit(r, m) /\ RowFit(r, m)
    BY DEF RowFit, PauseFit
  <2>3. m.status \in Executing /\ r \notin cancelReady' /\ (r \in pendingPersist' => Shared(r))
    BY <1>1 DEF Executing, Movable
  <2> QED BY <1>2, <2>1, <2>2, <2>3, RunOKNext
<1>5. OthersKept(r)
  BY <1>1, <1>2 DEF OthersKept, StateOK, StoreTypeOK
<1> QED BY <1>3, <1>4, <1>5 DEF Sound

LEMMA ApproveGateSound ==
  ASSUME StateOK, NEW r \in Runs, RunOK(r), NEW w \in Callers, ApproveGate(r, w)
  PROVE  Sound(r)
<1>1. /\ active[r] # NoRun
      /\ active[r].status = "WaitingApproval"
      /\ Movable(r)
      /\ r \notin pendingPersist
      /\ Deterministic(r) /\ ~Shared(r) => driver[r] = {}
  BY DEF ApproveGate, Is, RunOK, DriversFit, Movable, Parked
<1>2. active[r] \in RunRecord /\ active[r].step \in Steps
  BY <1>1, ActiveRecord
<1>3. Takes(r) \in Calls
  BY TakesCall
<1>4. CASE GateCleared(r, [active[r] EXCEPT !.status = "Running", !.cleared = TRUE], w)
  <2>1. [active[r] EXCEPT !.status = "Running", !.cleared = TRUE] \in RunRecord
    BY <1>2 DEF RunRecord, Executing
  <2>2. /\ [active[r] EXCEPT !.status = "Running", !.cleared = TRUE].status = "Running"
        /\ [active[r] EXCEPT !.status = "Running", !.cleared = TRUE].cleared
    BY <1>2 DEF RunRecord
  <2>3. w \in CallersOf(r)
    BY <1>1, CallersCall
  <2> QED BY <1>1, <1>4, <2>1, <2>2, <2>3, GateClearedSound
<1>5. CASE GateCleared(r, PendedAt(r, active[r], active[r].step), Nobody)
  <2>1. /\ PendedAt(r, active[r], active[r].step) \in RunRecord
        /\ PendedAt(r, active[r], active[r].step).status = "Pending"
    BY <1>2, PendedAtRecord
  <2>2. Nobody \in CallersOf(r) /\ Nobody.next = "none"
    BY <1>1, CallersCall DEF Callers, Nobody
  <2> QED BY <1>1, <1>5, <2>1, <2>2, GateClearedSound
<1>6. CASE FinishOk(r, active[r], "Failed", Takes(r)) /\ UNCHANGED driver
  <2>1. driver' = [driver EXCEPT ![r] = driver[r]] /\ driver[r] \in SUBSET driver[r]
    BY <1>6 DEF StateOK
  <2> QED BY <1>2, <1>3, <1>6, <2>1, FinishOkSound DEF Terminal
<1>7. CASE /\ Release(r, Fail(Takes(r)), "fresh")
           /\ UNCHANGED <<stored, active, trackVars, driver>>
  <2>1. Fail(Takes(r)) \in Calls /\ "fresh" \in Leases
    BY <1>3, FailCall DEF Leases
  <2>2. /\ active[r].status \in Parked
        /\ retained' \subseteq Runs
        /\ UNCHANGED <<stored, active, pendingPersist, cancelReady, budgetReady, driver>>
    BY <1>1, <1>7 DEF Parked, StateOK, trackVars
  <2> QED BY <1>1, <1>7, <2>1, <2>2, ReleaseSound
<1> QED BY <1>4, <1>5, <1>6, <1>7 DEF ApproveGate

LEMMA EndNowSound ==
  ASSUME StateOK, NEW r \in Runs, RunOK(r), active[r] # NoRun, EndNow(r)
  PROVE  Sound(r)
<1>1. driver' = [driver EXCEPT ![r] = driver[r]] /\ driver[r] \in SUBSET driver[r]
  BY DEF EndNow, StateOK
<1>2. active[r] \in RunRecord /\ Holds(r) \in Calls /\ "Cancelled" \in Terminal
  BY ActiveRecord, HoldsCall DEF Terminal
<1>3. CASE FinishOk(r, active[r], "Cancelled", Holds(r))
  BY <1>1, <1>2, <1>3, FinishOkSound
<1>4. CASE /\ FinishFails(r, active[r], Holds(r))
           /\ UNCHANGED <<retained, cancelReady, budgetReady>>
  <2>1. budgetReady' \subseteq Runs /\ cancelReady' \subseteq Runs /\ driver[r] \in SUBSET Held
    BY <1>4 DEF StateOK
  <2>2. /\ r \in cancelReady' => active[r].status = "CancelRequested"
        /\ DriversFit(r, driver[r], active[r])
        /\ active[r].status \in Parked \cup Executing
        /\ r \in pendingPersist => active[r].status \in Parked \/ Shared(r)
        /\ PauseFit(r, active[r])
    BY <1>4 DEF RunOK
  <2>3. /\ ~HeartbeatMayFail /\ ~Shared(r) /\ (active[r].status \in Executing \/ r \in pendingPersist)
             => Holds(r).lease # "none"
        /\ RowFit(r, Holds(r).row)
    BY HoldsCall DEF RunOK
  <2> QED BY <1>1, <1>2, <1>4, <2>1, <2>2, <2>3, FinishFailsSound
<1> QED BY <1>3, <1>4 DEF EndNow

LEMMA RequestCancelSound ==
  ASSUME StateOK, NEW r \in Runs, RunOK(r), active[r] # NoRun,
         active[r].status = "Running", RequestCancel(r)
  PROVE  Sound(r)
<1> DEFINE m == [active[r] EXCEPT !.status = "CancelRequested"]
<1>1. /\ m \in RunRecord
      /\ m.status = "CancelRequested"
      /\ m.step = active[r].step
      /\ m.cleared = active[r].cleared
  BY ActiveRecord, StatusRecord DEF Status, Executing
<1>2. PICK lease \in Renewals(claims[r]) : claims' = [claims EXCEPT ![r] = lease]
  BY DEF RequestCancel, SetLease
<1>3. lease \in Leases /\ (~HeartbeatMayFail /\ ~Shared(r) => lease # "none")
  BY <1>2 DEF Renewals, Leases, RunOK, StateOK, StoreTypeOK, Executing
<1>4. UNCHANGED <<marked, pendingPersist, retained, cancelReady, budgetReady, driver>>
  BY DEF RequestCancel, trackVars
<1>5. faults' \in 0..MaxFaults
  <2>1. \E n \in Nat : Failures(n)
    BY DEF RequestCancel
  <2> QED BY <2>1, FailuresCount
<1> HIDE DEF m
<1>6. CASE active' = [active EXCEPT ![r] = m] /\ stored' = [stored EXCEPT ![r] = m]
  <2>1. StateOK'
    BY <1>1, <1>2, <1>3, <1>4, <1>5, <1>6 DEF StateOK, StoreTypeOK
  <2>2. RunOK(r)'
    <3>1. /\ active'[r] = m /\ active'[r] # NoRun /\ stored'[r] = m /\ claims'[r] = lease
          /\ m.status \in Executing /\ m.status \notin Parked \cup {"Pending"}
      BY <1>1, <1>2, <1>6, NoRunIsNone DEF StateOK, StoreTypeOK, Parked, Executing
    <3>2. PauseFit(r, m) /\ RowFit(r, m)
      BY <1>1 DEF RowFit, PauseFit
    <3>3. DriversFit(r, driver'[r], m)
      BY <1>4, <3>1 DEF RunOK, DriversFit
    <3>4. r \in pendingPersist' => Shared(r)
      BY <1>4 DEF RunOK, Parked
    <3> QED BY <1>1, <1>3, <3>1, <3>2, <3>3, <3>4, RunOKNext
  <2>3. OthersKept(r)
    BY <1>2, <1>4, <1>6 DEF OthersKept, StateOK, StoreTypeOK
  <2> QED BY <2>1, <2>2, <2>3 DEF Sound
<1>7. CASE UNCHANGED <<active, stored>>
  <2>1. StateOK'
    BY <1>2, <1>3, <1>4, <1>5, <1>7 DEF StateOK, StoreTypeOK
  <2>2. RunOK(r)'
    <3>1. claims'[r] = lease
      BY <1>2 DEF StateOK, StoreTypeOK
    <3>2. /\ DriversFit(r, driver'[r], active'[r]) /\ PauseFit(r, active'[r])
          /\ RowFit(r, stored'[r])
      BY <1>4, <1>7 DEF RunOK
    <3> QED BY <1>3, <1>4, <1>7, <3>1, <3>2, RunOKNext DEF RunOK
  <2>3. OthersKept(r)
    BY <1>2, <1>4, <1>7 DEF OthersKept, StateOK, StoreTypeOK
  <2> QED BY <2>1, <2>2, <2>3 DEF Sound
<1> QED BY <1>6, <1>7 DEF RequestCancel, Cache, Save, m

LEMMA CancelSound ==
  ASSUME StateOK, NEW r \in Runs, RunOK(r), Cancel(r)
  PROVE  Sound(r)
<1>1. CASE Is(r, {"Running"}) /\ RequestCancel(r)
  BY <1>1, RequestCancelSound DEF Is
<1>2. CASE Is(r, {"Pending"} \cup Parked) /\ EndNow(r)
  BY <1>2, EndNowSound DEF Is
<1> QED BY <1>1, <1>2 DEF Cancel

LEMMA LeaseLapsesSound ==
  ASSUME StateOK, NEW r \in Runs, RunOK(r), LeaseLapses(r)
  PROVE  Sound(r)
<1>1. /\ claims' = [claims EXCEPT ![r] = "lapsed"]
      /\ UNCHANGED <<stored, marked, faults, active, pendingPersist, retained,
                     cancelReady, budgetReady, driver>>
  BY DEF LeaseLapses, trackVars
<1>2. StateOK'
  BY <1>1 DEF StateOK, StoreTypeOK, Leases
<1>3. RunOK(r)'
  <2>1. claims'[r] = "lapsed"
    BY <1>1 DEF StateOK, StoreTypeOK
  <2>2. /\ DriversFit(r, driver'[r], active'[r]) /\ PauseFit(r, active'[r])
        /\ RowFit(r, stored'[r])
    BY <1>1 DEF RunOK
  <2> QED BY <1>1, <2>1, <2>2, RunOKNext DEF RunOK
<1>4. OthersKept(r)
  BY <1>1 DEF OthersKept, StateOK, StoreTypeOK
<1> QED BY <1>2, <1>3, <1>4 DEF Sound

\* Engine calls, while no tick is under way.
LEMMA OperateSound ==
  ASSUME StateOK, NEW r \in Runs, RunOK(r), Operate(r)
  PROVE  /\ Sound(r)
         /\ tick = "idle"
         /\ UNCHANGED tickVars
<1>1. CASE Start(r)
  BY <1>1, StartSound DEF Start
<1>2. CASE Boundary(r)
  BY <1>2, BoundarySound DEF Boundary
<1>3. CASE TurnEnds(r)
  BY <1>3, TurnEndsSound DEF TurnEnds
<1>4. CASE TurnAborts(r)
  BY <1>4, DriverRefusedSound DEF TurnAborts
<1>5. CASE CapabilityStep(r)
  BY <1>5, CapabilityStepSound DEF CapabilityStep
<1>6. CASE ToolAdvance(r)
  BY <1>6, ToolAdvanceSound DEF ToolAdvance
<1>7. CASE BudgetSpent(r)
  BY <1>7, BudgetSpentSound DEF BudgetSpent
<1>8. CASE Approve(r)
  BY <1>8, ApproveGateSound DEF Approve
<1>9. CASE Deny(r)
  BY <1>9, EndNowSound DEF Deny, Is
<1>10. CASE Cancel(r)
  BY <1>10, CancelSound DEF Cancel
<1>11. CASE LeaseLapses(r)
  BY <1>11, LeaseLapsesSound DEF LeaseLapses, tickVars
<1> QED
  BY <1>1, <1>2, <1>3, <1>4, <1>5, <1>6, <1>7, <1>8, <1>9, <1>10, <1>11 DEF Operate

-----------------------------------------------------------------------------
(* The maintenance tick *)

\* A step that changes nothing of a run but, perhaps, the count of failures.
LEMMA NothingSound ==
  ASSUME StateOK, NEW r \in Runs, RunOK(r), NEW n \in Nat, Failures(n),
         UNCHANGED <<stored, claims, marked, active, trackVars, driver>>
  PROVE  Sound(r)
<1>1. faults' \in 0..MaxFaults
  BY FailuresCount
<1>2. StateOK'
  BY <1>1 DEF StateOK, StoreTypeOK, trackVars
<1>3. RunOK(r)'
  BY RunOKNext DEF RunOK, trackVars
<1>4. OthersKept(r)
  BY DEF OthersKept, trackVars
<1> QED BY <1>2, <1>3, <1>4 DEF Sound

LEMMA EscalateSound ==
  ASSUME StateOK, NEW r \in Runs, RunOK(r), active[r] # NoRun,
         active[r].status = "WaitingApproval", Escalate(r)
  PROVE  Sound(r)
<1>1. PICK lease \in Renewals(claims[r]) : claims' = [claims EXCEPT ![r] = lease]
  BY DEF Escalate, SetLease
<1>2. lease \in Leases /\ (claims[r] # "none" => lease # "none")
  BY <1>1 DEF Renewals, Leases, StateOK, StoreTypeOK
<1>3. UNCHANGED <<active, marked, pendingPersist, retained, cancelReady, budgetReady, driver>>
  BY DEF Escalate, trackVars
<1>4. stored' = [stored EXCEPT ![r] = active[r]] \/ stored' = stored
  BY DEF Escalate, Save
<1>5. faults' \in 0..MaxFaults
  <2>1. \E n \in Nat : Failures(n)
    BY DEF Escalate
  <2> QED BY <2>1, FailuresCount
<1>6. active[r] \in RunRecord
  BY ActiveRecord
<1>7. StateOK'
  BY <1>1, <1>2, <1>3, <1>4, <1>5, <1>6 DEF StateOK, StoreTypeOK
<1>8. RunOK(r)'
  <2>1. RowFit(r, stored'[r])
    BY <1>4 DEF RunOK, RowFit, PauseFit, StateOK, StoreTypeOK
  <2>2. claims'[r] = lease
    BY <1>1 DEF StateOK, StoreTypeOK
  <2>3. DriversFit(r, driver'[r], active'[r]) /\ PauseFit(r, active'[r])
    BY <1>3 DEF RunOK
  <2> QED BY <1>2, <1>3, <2>1, <2>2, <2>3, RunOKNext DEF RunOK
<1>9. OthersKept(r)
  BY <1>1, <1>3, <1>4 DEF OthersKept, StateOK, StoreTypeOK
<1> QED BY <1>7, <1>8, <1>9 DEF Sound

LEMMA TimeOutSound ==
  ASSUME StateOK, NEW r \in Runs, RunOK(r), TodoOK(r), TimeOut(r)
  PROVE  Sound(r)
<1>1. active[r] # NoRun /\ active[r].status = "WaitingApproval"
  BY DEF TimeOut, Visit, TodoOK
<1>2. CASE Escalate(r)
  BY <1>1, <1>2, EscalateSound
<1>3. CASE EndNow(r)
  BY <1>1, <1>3, EndNowSound
<1>4. CASE ApproveGate(r, Nobody)
  BY <1>4, ApproveGateSound DEF Callers
<1>5. CASE /\ Failures(IF CanClaim(r) THEN 1 ELSE 0)
           /\ UNCHANGED <<stored, claims, marked, active, trackVars, driver>>
  <2>1. (IF CanClaim(r) THEN 1 ELSE 0) \in Nat
    OBVIOUS
  <2> QED BY <1>5, <2>1, NothingSound
<1> QED BY <1>2, <1>3, <1>4, <1>5 DEF TimeOut

LEMMA RetryParkSound ==
  ASSUME StateOK, NEW r \in Runs, RunOK(r), TodoOK(r), RetryPark(r)
  PROVE  /\ Sound(r)
         /\ ~HeartbeatMayFail /\ ~Shared(r) /\ r \in pendingPersist' => claims'[r] = "fresh"
<1>1. /\ r \in pendingPersist
      /\ active[r] # NoRun
      /\ active[r].status \in Parked \/ (Shared(r) /\ active[r].status \in Executing)
      /\ r \in cancelReady => active[r].status = "CancelRequested"
  BY DEF RetryPark, Visit, TodoOK, RunOK
<1>2. active[r] \in RunRecord /\ Holds(r) \in Claiming(r)
  BY <1>1, ActiveRecord, HoldsClaiming
<1>3. /\ driver' = [driver EXCEPT ![r] = driver[r]]
      /\ driver[r] \in SUBSET Held
      /\ UNCHANGED <<retained, cancelReady, budgetReady, driver>>
  BY DEF RetryPark, StateOK
<1>4. DriversFit(r, driver[r], active[r]) /\ PauseFit(r, active[r])
  BY DEF RunOK
<1>5. CASE ParkThenRelease(r, active[r], Holds(r))
  BY <1>1, <1>2, <1>3, <1>4, <1>5, ParkThenReleaseSound
<1>6. CASE /\ \E lease \in Renewals(claims[r]) : SetLease(r, lease)
           /\ UNCHANGED <<stored, marked, faults, active, pendingPersist>>
  <2>1. PICK lease \in Renewals(claims[r]) : claims' = [claims EXCEPT ![r] = lease]
    BY <1>6 DEF SetLease
  <2>2. lease \in Leases /\ (~HeartbeatMayFail /\ ~Shared(r) => lease = "fresh")
    BY <1>1, <2>1, EngineAssumption DEF Renewals, Leases, RunOK, StateOK, StoreTypeOK
  <2>3. claims'[r] = lease
    BY <2>1 DEF StateOK, StoreTypeOK
  <2>4. StateOK'
    BY <1>3, <1>6, <2>1, <2>2 DEF StateOK, StoreTypeOK
  <2>5. RunOK(r)'
    <3>1. /\ DriversFit(r, driver'[r], active'[r]) /\ PauseFit(r, active'[r])
          /\ RowFit(r, stored'[r])
      BY <1>3, <1>6 DEF RunOK
    <3> QED BY <1>3, <1>6, <2>2, <2>3, <3>1, RunOKNext DEF RunOK
  <2>6. OthersKept(r)
    BY <1>3, <1>6, <2>1 DEF OthersKept, StateOK, StoreTypeOK
  <2> QED BY <2>2, <2>3, <2>4, <2>5, <2>6 DEF Sound
<1> QED BY <1>5, <1>6 DEF RetryPark

LEMMA RetryPendSound ==
  ASSUME StateOK, NEW r \in Runs, RunOK(r), TodoOK(r), RetryPend(r)
  PROVE  /\ Sound(r)
         /\ ~HeartbeatMayFail /\ ~Shared(r) /\ r \in pendingPersist' => claims'[r] = "fresh"
<1>1. /\ active[r] # NoRun
      /\ active[r].status = "Pending"
      /\ Movable(r)
      /\ Deterministic(r) /\ ~Shared(r) => driver[r] = {}
  BY ExecutingMovable DEF RetryPend, Visit, TodoOK, RunOK, DriversFit
<1>2. /\ active[r] \in RunRecord
      /\ active[r].step \in Steps
      /\ Holds(r) \in Claiming(r)
      /\ Holds(r) \in Calls
      /\ r \in pendingPersist => Shared(r)
  BY <1>1, ActiveRecord, HoldsClaiming, HoldsCall DEF Executing, Movable
<1>3. CASE Gate(r, active[r].step)
  <2>1. PICK v \in Surveys(r, Holds(r)) :
          \/ /\ Failures(v.c.failed)
             /\ UNCHANGED <<stored, claims, marked, active, trackVars, driver>>
          \/ /\ ParkThenRelease(r, ParkedAt(r, active[r]), v.c)
             /\ UNCHANGED <<retained, cancelReady, budgetReady, driver>>
          \/ HoldPending(r, active[r], active[r].step, v.c, Nobody)
          \/ /\ Failures(v.c.failed + 1)
             /\ UNCHANGED <<stored, claims, marked, active, trackVars, driver>>
    BY <1>3 DEF RetryPend
  <2>2. v.c \in Calls /\ v.c \in Claiming(r) /\ v.c.failed \in Nat /\ v.c.failed + 1 \in Nat
    <3>1. v.c \in Calls /\ v.c \in Claiming(r)
      BY <1>2, SurveysCall, SurveysClaiming
    <3> QED BY <3>1 DEF Calls
  <2>3. CASE /\ Failures(v.c.failed)
             /\ UNCHANGED <<stored, claims, marked, active, trackVars, driver>>
    BY <1>2, <2>2, <2>3, NothingSound DEF trackVars
  <2>4. CASE /\ ParkThenRelease(r, ParkedAt(r, active[r]), v.c)
             /\ UNCHANGED <<retained, cancelReady, budgetReady, driver>>
    <3>1. /\ ParkedAt(r, active[r]) \in RunRecord /\ ParkedAt(r, active[r]).status \in Parked
          /\ PauseFit(r, ParkedAt(r, active[r]))
      BY <1>2, ParkedAtRecord
    <3>2. /\ driver' = [driver EXCEPT ![r] = driver[r]]
          /\ driver[r] \in SUBSET Held
      BY <2>4 DEF StateOK
    <3>3. DriversFit(r, driver[r], ParkedAt(r, active[r]))
      BY <1>1 DEF RunOK, DriversFit
    <3>4. r \notin cancelReady
      BY <1>1 DEF Movable
    <3> QED BY <2>2, <2>4, <3>1, <3>2, <3>3, <3>4, ParkThenReleaseSound
  <2>5. CASE HoldPending(r, active[r], active[r].step, v.c, Nobody)
    <3>1. Nobody \in CallersOf(r)
      BY <1>1, CallersCall DEF Callers
    <3>2. Sound(r)
      BY <1>1, <1>2, <2>2, <2>5, <3>1, HoldPendingSound
    <3>3. pendingPersist' = pendingPersist
      BY <2>5 DEF HoldPending, Persist
    <3> QED BY <1>2, <3>2, <3>3
  <2>6. CASE /\ Failures(v.c.failed + 1)
             /\ UNCHANGED <<stored, claims, marked, active, trackVars, driver>>
    BY <1>2, <2>2, <2>6, NothingSound DEF trackVars
  <2> QED BY <2>1, <2>3, <2>4, <2>5, <2>6
<1>4. CASE ~Gate(r, active[r].step)
  <2>1. UNCHANGED <<storeVars, active, trackVars, driver>>
    BY <1>4 DEF RetryPend
  <2>2. Failures(0)
    BY <2>1, StoreAssumption DEF Failures, storeVars, StateOK, StoreTypeOK
  <2> QED BY <1>2, <2>1, <2>2, NothingSound DEF storeVars, trackVars
<1> QED BY <1>3, <1>4

LEMMA FinalizeBudgetSound ==
  ASSUME StateOK, NEW r \in Runs, RunOK(r), FinalizeBudget(r)
  PROVE  Sound(r)
<1>1. /\ driver' = [driver EXCEPT ![r] = driver[r]]
      /\ driver[r] \in SUBSET Held
      /\ DriversFit(r, driver[r], active[r])
  BY DEF FinalizeBudget, StateOK, RunOK
<1>2. CASE Is(r, {"Running"}) /\ FailBudget(r)
  BY <1>1, <1>2, FailBudgetSound DEF Is
<1>3. CASE ~Is(r, {"Running"})
  <2>1. /\ budgetReady' = budgetReady \ {r}
        /\ cancelReady' = IF Is(r, {"CancelRequested"})
                          THEN cancelReady \cup {r} ELSE cancelReady
        /\ UNCHANGED <<storeVars, active, pendingPersist, retained>>
    BY <1>3 DEF FinalizeBudget
  <2>2. /\ cancelReady' \subseteq Runs
        /\ budgetReady' \subseteq Runs
        /\ \A q \in Runs \ {r} : q \in cancelReady' <=> q \in cancelReady
        /\ r \in cancelReady' => active[r] # NoRun /\ active[r].status = "CancelRequested"
    BY <2>1 DEF StateOK, RunOK, Is
  <2> QED BY <1>1, <2>1, <2>2, DriverSound
<1> QED BY <1>2, <1>3 DEF FinalizeBudget

LEMMA FinalizeCancelSound ==
  ASSUME StateOK, NEW r \in Runs, RunOK(r), TodoOK(r), FinalizeCancel(r)
  PROVE  Sound(r)
<1>1. active[r] # NoRun
  BY DEF FinalizeCancel, Visit, TodoOK, RunOK
<1>2. EndNow(r)
  BY DEF FinalizeCancel, EndNow
<1> QED BY <1>1, <1>2, EndNowSound

LEMMA MaintainSound ==
  ASSUME StateOK, NEW r \in Runs, RunOK(r), TodoOK(r), Renewed(r), tick \in Phases,
         Maintain(r)
  PROVE  /\ Sound(r)
         /\ Renewed(r)'
         /\ UNCHANGED tick
         /\ todo' = todo \ {r}
<1>1. CASE TimeOut(r)
  <2>1. Sound(r)
    BY <1>1, TimeOutSound
  <2>2. tick = "timeouts" /\ UNCHANGED tick /\ todo' = todo \ {r}
    BY <1>1 DEF TimeOut, Visit
  <2> QED BY <2>1, <2>2 DEF Renewed, Shared, Deterministic, KindAt
<1>2. CASE RetryPark(r)
  <2>1. Sound(r) /\ (~HeartbeatMayFail /\ ~Shared(r) /\ r \in pendingPersist'
                      => claims'[r] = "fresh")
    BY <1>2, RetryParkSound
  <2>2. UNCHANGED tick /\ todo' = todo \ {r}
    BY <1>2 DEF RetryPark, Visit
  <2> QED BY <2>1, <2>2 DEF Renewed, Shared, Deterministic, KindAt
<1>3. CASE RetryPend(r)
  <2>1. Sound(r) /\ (~HeartbeatMayFail /\ ~Shared(r) /\ r \in pendingPersist'
                      => claims'[r] = "fresh")
    BY <1>3, RetryPendSound
  <2>2. UNCHANGED tick /\ todo' = todo \ {r}
    BY <1>3 DEF RetryPend, Visit
  <2> QED BY <2>1, <2>2 DEF Renewed, Shared, Deterministic, KindAt
<1>4. CASE FinalizeBudget(r)
  <2>1. Sound(r)
    BY <1>4, FinalizeBudgetSound
  <2>2. tick = "budgets" /\ UNCHANGED tick /\ todo' = todo \ {r}
    BY <1>4 DEF FinalizeBudget, Visit
  <2>3. r \in pendingPersist' => r \in pendingPersist /\ claims'[r] = claims[r]
    BY <1>4 DEF FinalizeBudget, FailBudget, FinishOk, FinishFails, Forget, SetLease, Holds,
                StateOK, StoreTypeOK, storeVars
  <2> QED BY <2>1, <2>2, <2>3 DEF Renewed, Shared, Deterministic, KindAt
<1>5. CASE FinalizeCancel(r)
  <2>1. Sound(r)
    BY <1>5, FinalizeCancelSound
  <2>2. tick = "cancels" /\ UNCHANGED tick /\ todo' = todo \ {r}
    BY <1>5 DEF FinalizeCancel, Visit
  <2>3. r \in pendingPersist' => r \in pendingPersist /\ claims'[r] = claims[r]
    BY <1>5 DEF FinalizeCancel, FinishOk, FinishFails, Forget, SetLease, Holds,
                StateOK, StoreTypeOK
  <2> QED BY <2>1, <2>2, <2>3 DEF Renewed, Shared, Deterministic, KindAt
<1> QED BY <1>1, <1>2, <1>3, <1>4, <1>5 DEF Maintain

-----------------------------------------------------------------------------
(* The invariant *)

\* A step on one run, in a tick or between two, keeps the invariant of all.
LEMMA OneRunKeepsInv ==
  ASSUME Inv, NEW r \in Runs, Sound(r), Renewed(r)', UNCHANGED tick,
         \/ todo' = todo \ {r}
         \/ tick = "idle" /\ UNCHANGED todo
  PROVE  Inv'
<1>1. StateOK' /\ tick' \in Phases /\ todo' \subseteq Runs
  BY DEF Sound, Inv
<1>2. ASSUME NEW q \in Runs, q # r
      PROVE  (RunOK(q) /\ TodoOK(q) /\ Renewed(q))'
  <2>1. /\ active'[q] = active[q]
        /\ stored'[q] = stored[q]
        /\ claims'[q] = claims[q]
        /\ driver'[q] = driver[q]
        /\ q \in pendingPersist' <=> q \in pendingPersist
        /\ q \in cancelReady' <=> q \in cancelReady
        /\ q \in todo' <=> q \in todo
    BY <1>2 DEF Sound, OthersKept
  <2>2. RunOK(q) /\ TodoOK(q) /\ Renewed(q)
    BY DEF Inv
  <2>3. RunOK(q)'
    BY <2>1, <2>2, RunOKNext DEF RunOK
  <2>4. TodoOK(q)' /\ Renewed(q)'
    BY <2>1, <2>2 DEF TodoOK, Renewed, Shared, Deterministic, KindAt
  <2> QED BY <2>3, <2>4
<1>3. (RunOK(r) /\ TodoOK(r) /\ Renewed(r))'
  BY DEF Sound, TodoOK
<1> QED BY <1>1, <1>2, <1>3 DEF Inv

LEMMA InitInv == Init => Inv
<1> SUFFICES ASSUME Init PROVE Inv
  OBVIOUS
<1>1. StateOK
  BY StoreAssumption DEF Init, StoreInit, StateOK, StoreTypeOK, Leases
<1>2. ASSUME NEW r \in Runs
      PROVE  RunOK(r) /\ TodoOK(r) /\ Renewed(r)
  BY DEF Init, StoreInit, RunOK, DriversFit, RowFit, PauseFit, TodoOK, Renewed
<1> QED BY <1>1, <1>2 DEF Init, Inv, Phases

LEMMA PhaseInv ==
  ASSUME Inv, TickBegins \/ PhaseEnds
  PROVE  Inv'
<1>1. UNCHANGED <<stored, claims, marked, faults, active, pendingPersist, retained,
                  cancelReady, budgetReady, driver>>
  BY DEF TickBegins, PhaseEnds, storeVars, trackVars
<1>2. StateOK'
  BY <1>1 DEF Inv, StateOK, StoreTypeOK
<1>3. tick' \in Phases /\ todo' \subseteq Runs
  BY DEF TickBegins, PhaseEnds, Phases, InStatus, Known, Inv, StateOK
<1>4. ASSUME NEW r \in Runs
      PROVE  (RunOK(r) /\ TodoOK(r) /\ Renewed(r))'
  <2>1. RunOK(r) /\ TodoOK(r) /\ Renewed(r)
    BY DEF Inv
  <2>2. RunOK(r)'
    BY <1>1, <2>1, RunOKNext DEF RunOK
  <2>3. TodoOK(r)'
    BY <1>1 DEF TickBegins, PhaseEnds, TodoOK, InStatus, Known
  <2>4. Renewed(r)'
    BY <1>1, <2>1 DEF TickBegins, PhaseEnds, Renewed, Shared, Deterministic, KindAt
  <2> QED BY <2>2, <2>3, <2>4
<1> QED BY <1>2, <1>3, <1>4 DEF Inv

LEMMA RunsCount ==
  ASSUME NEW rs \in SUBSET Runs
  PROVE  Cardinality(rs) \in Nat
<1>1. IsFiniteSet(rs)
  BY StoreAssumption, FS_Subset
<1> QED BY <1>1, FS_CardinalityType

\* The reaper takes no claim of a run that executes, for it was just renewed, and none
\* of a park that is not saved, for the tick renewed it earlier (Renewed).
LEMMA TickEndsInv ==
  ASSUME Inv, TickEnds
  PROVE  Inv'
<1> DEFINE beats == Heartbeats
           over  == InStatus(stored, Terminal)
<1>1. /\ tick = "cancels"
      /\ tick' = "idle"
      /\ UNCHANGED <<active, pendingPersist, retained, cancelReady, budgetReady, driver, todo>>
  BY DEF TickEnds, trackVars
<1>2. PICK missed \in SUBSET beats :
        /\ ~HeartbeatMayFail => missed = {}
        /\ LET expired == {r \in Claimed \ (beats \ missed) : claims[r] = "lapsed"}
           IN \E kept \in SUBSET expired :
                /\ claims' = [r \in Runs |-> IF r \in expired \ kept THEN "none"
                                             ELSE IF r \in beats \ missed THEN "fresh"
                                             ELSE claims[r]]
                /\ marked' = marked \ (expired \ kept)
                /\ Failures(Cardinality(kept))
  BY EngineAssumption DEF TickEnds
<1> DEFINE expired == {r \in Claimed \ (beats \ missed) : claims[r] = "lapsed"}
<1>3. PICK kept \in SUBSET expired :
        /\ claims' = [r \in Runs |-> IF r \in expired \ kept THEN "none"
                                     ELSE IF r \in beats \ missed THEN "fresh"
                                     ELSE claims[r]]
        /\ marked' = marked \ (expired \ kept)
        /\ Failures(Cardinality(kept))
  BY <1>2
<1>4. PICK pruned \in SUBSET over :
        stored' = [r \in Runs |-> IF r \in pruned THEN NoRun ELSE stored[r]]
  BY DEF TickEnds
<1>5. faults' \in 0..MaxFaults
  <2>1. kept \in SUBSET Runs
    BY <1>3 DEF Claimed
  <2> QED BY <1>3, <2>1, RunsCount, FailuresCount DEF Inv
<1>6. StateOK'
  <2>1. claims' \in [Runs -> Leases]
    BY <1>3 DEF Inv, StateOK, StoreTypeOK, Leases
  <2>2. stored' \in [Runs -> RunRecord \cup {NoRun}]
    BY <1>4 DEF Inv, StateOK, StoreTypeOK
  <2>3. marked' \subseteq Runs
    BY <1>3 DEF Inv, StateOK, StoreTypeOK
  <2> QED BY <1>1, <1>5, <2>1, <2>2, <2>3 DEF Inv, StateOK, StoreTypeOK
<1>7. ASSUME NEW r \in Runs
      PROVE  (RunOK(r) /\ TodoOK(r) /\ Renewed(r))'
  <2>1. RunOK(r) /\ Renewed(r)
    BY DEF Inv
  <2>2. /\ DriversFit(r, driver'[r], active'[r]) /\ PauseFit(r, active'[r])
        /\ RowFit(r, stored'[r])
    BY <1>1, <1>4, <2>1 DEF RunOK, RowFit, PauseFit
  <2>3. ASSUME ~HeartbeatMayFail, ~Shared(r), active[r] # NoRun,
               active[r].status \in Executing \/ r \in pendingPersist
        PROVE  claims'[r] # "none"
    <3>1. claims[r] # "none"
      BY <2>1, <2>3 DEF RunOK
    <3>2. CASE active[r].status \in Executing
      <4>1. r \in beats \ missed
        BY <1>2, <2>3, <3>1, <3>2 DEF Heartbeats, Claimed, Is
      <4> QED BY <1>3, <3>1, <4>1
    <3>3. CASE r \in pendingPersist
      <4>1. claims[r] = "fresh"
        BY <1>1, <2>1, <2>3, <3>3 DEF Renewed
      <4> QED BY <1>3, <4>1
    <3> QED BY <2>3, <3>2, <3>3
  <2>4. RunOK(r)'
    BY <1>1, <2>1, <2>2, <2>3, RunOKNext DEF RunOK
  <2>5. TodoOK(r)' /\ Renewed(r)'
    BY <1>1 DEF TodoOK, Renewed
  <2> QED BY <2>4, <2>5
<1> QED BY <1>1, <1>6, <1>7 DEF Inv, Phases

\* What a restart makes of a run in the store: a parked run is parked as its row is, a
\* run that executes has its claim renewed, and only a requested cancellation is left
\* to the tick.
LEMMA RestoresSound ==
  ASSUME StateOK, NEW r \in Restorable,
         NEW bad \in SUBSET Restorable, NEW worse \in SUBSET Restorable,
         NEW b, b = Restores(r, bad, worse)
  PROVE  /\ b.run \in {NoRun, stored[r]}
         /\ b.row \in RunRecord
         /\ b.lease \in Leases
         /\ stored[r].status \in Parked \cup Executing
         /\ b.run # NoRun => b.row = stored[r]
         /\ b.run # NoRun /\ stored[r].status \in Executing => b.lease # "none"
         /\ b.row.status \in {"Running", "PausedCheckpoint"} => b.row = stored[r]
         /\ b.cancels => b.run = stored[r] /\ stored[r].status = "CancelRequested"
<1> DEFINE m == stored[r]
<1>1. /\ r \in Runs
      /\ m \in RunRecord
      /\ m.status \in Parked \cup Executing
      /\ claims[r] \in Leases
  BY DEF Restorable, InStatus, Known, StateOK, StoreTypeOK
<1>2. CASE m.status \in Parked
  <2>1. /\ b.run = m
        /\ b.row = m
        /\ b.cancels = FALSE
        /\ b.lease \in {"none", "fresh", claims[r]}
    BY <1>2 DEF Restores
  <2> QED BY <1>1, <1>2, <2>1 DEF Leases, Parked, Executing
<1>3. CASE m.status \notin Parked /\ r \in bad
  BY <1>1, <1>3 DEF Restores, Leases
<1>4. CASE m.status = "CancelRequested" /\ r \notin bad /\ r \notin worse
  <2>1. /\ b.run = NoRun
        /\ b.row = [m EXCEPT !.status = "Cancelled"]
        /\ b.cancels = FALSE
        /\ b.lease = "none"
    BY <1>4 DEF Restores, Parked
  <2>2. b.row \in RunRecord
    BY <1>1, <2>1, StatusRecord DEF Status, Terminal
  <2> QED BY <1>1, <2>1, <2>2 DEF Leases
<1>5. CASE /\ m.status \notin Parked /\ r \notin bad
           /\ ~(m.status = "CancelRequested" /\ r \notin worse)
  <2>1. /\ b.run = m
        /\ b.row = m
        /\ b.cancels = (m.status = "CancelRequested")
        /\ b.lease = "fresh"
    BY <1>5 DEF Restores
  <2> QED BY <1>1, <2>1 DEF Leases
<1>6. m.status = "CancelRequested" => m.status \notin Parked
  BY DEF Parked
<1> QED BY <1>2, <1>3, <1>4, <1>5, <1>6

\* With no driver and no tick left, only the runs' records and claims matter.
LEMMA RestartInv ==
  ASSUME Inv, Restart
  PROVE  Inv'
<1>1. /\ pendingPersist' = {}
      /\ budgetReady' = {}
      /\ driver' = [r \in Runs |-> {}]
      /\ tick' = "idle"
      /\ todo' = {}
  BY DEF Restart
<1>2. StateOK
  BY DEF Inv
<1>3. CASE /\ Failures(2)
           /\ active' = [r \in Runs |-> NoRun]
           /\ retained' = {}
           /\ cancelReady' = {}
           /\ UNCHANGED <<stored, claims, marked>>
  <2>1. faults' \in 0..MaxFaults
    BY <1>2, <1>3, FailuresCount
  <2>2. StateOK'
    BY <1>1, <1>2, <1>3, <2>1 DEF StateOK, StoreTypeOK
  <2>3. ASSUME NEW r \in Runs
        PROVE  (RunOK(r) /\ TodoOK(r) /\ Renewed(r))'
    <3>1. /\ active'[r] = NoRun /\ driver'[r] = {} /\ stored'[r] = stored[r]
          /\ r \notin pendingPersist' /\ r \notin cancelReady'
      BY <1>1, <1>3
    <3>2. /\ DriversFit(r, driver'[r], active'[r]) /\ PauseFit(r, active'[r])
          /\ RowFit(r, stored'[r])
      BY <3>1 DEF Inv, RunOK, DriversFit, PauseFit
    <3> QED BY <1>1, <3>1, <3>2, RunOKNext DEF TodoOK, Renewed
  <2> QED BY <1>1, <2>2, <2>3 DEF Inv, Phases
<1>4. ASSUME NEW bad \in SUBSET Restorable, NEW worse \in SUBSET Restorable,
             NEW back, back = [r \in Restorable |-> Restores(r, bad, worse)],
             Failures(1 + Cardinality(bad) + Cardinality(worse)),
             active' = [r \in Runs |-> IF r \in Restorable THEN back[r].run ELSE NoRun],
             stored' = [r \in Runs |-> IF r \in Restorable THEN back[r].row ELSE stored[r]],
             claims' = [r \in Runs |-> IF r \in Restorable THEN back[r].lease ELSE claims[r]],
             marked' = {r \in marked : r \in Restorable => back[r].marks},
             retained' = {r \in Restorable : back[r].retains},
             cancelReady' = {r \in Restorable : back[r].cancels}
      PROVE  Inv'
  <2>1. Restorable \subseteq Runs
    BY DEF Restorable, InStatus, Known
  <2>2. faults' \in 0..MaxFaults
    <3>1. Cardinality(bad) \in Nat /\ Cardinality(worse) \in Nat
      BY <2>1, RunsCount
    <3>2. 1 + Cardinality(bad) + Cardinality(worse) \in Nat
      BY <3>1
    <3> QED BY <1>2, <1>4, <3>2, FailuresCount
  <2>3. ASSUME NEW r \in Restorable
        PROVE  /\ back[r].run \in {NoRun, stored[r]}
               /\ back[r].row \in RunRecord
               /\ back[r].lease \in Leases
               /\ stored[r].status \in Parked \cup Executing
               /\ back[r].run # NoRun => back[r].row = stored[r]
               /\ back[r].run # NoRun /\ stored[r].status \in Executing
                    => back[r].lease # "none"
               /\ back[r].row.status \in {"Running", "PausedCheckpoint"}
                    => back[r].row = stored[r]
               /\ back[r].cancels => /\ back[r].run = stored[r]
                                     /\ stored[r].status = "CancelRequested"
    <3>1. back[r] = Restores(r, bad, worse)
      BY <1>4
    <3> HIDE <1>4
    <3> QED BY <1>2, <3>1, RestoresSound
  <2>4. ASSUME NEW r \in Restorable
        PROVE  stored[r] # NoRun /\ stored[r] \in RunRecord
    BY <1>2 DEF Restorable, InStatus, Known, StateOK, StoreTypeOK
  <2>5. StateOK'
    <3>1. active' \in [Runs -> RunRecord \cup {NoRun}]
      BY <1>4, <2>3, <2>4
    <3>2. stored' \in [Runs -> RunRecord \cup {NoRun}]
      BY <1>2, <1>4, <2>3 DEF StateOK, StoreTypeOK
    <3>3. claims' \in [Runs -> Leases]
      BY <1>2, <1>4, <2>3 DEF StateOK, StoreTypeOK
    <3>4. marked' \subseteq Runs /\ retained' \subseteq Runs /\ cancelReady' \subseteq Runs
      BY <1>2, <1>4, <2>1 DEF StateOK, StoreTypeOK
    <3>5. driver' \in [Runs -> SUBSET Held]
      BY <1>1
    <3> QED BY <1>1, <2>2, <3>1, <3>2, <3>3, <3>4, <3>5 DEF StateOK, StoreTypeOK
  <2>6. ASSUME NEW r \in Runs
        PROVE  RunOK(r)'
    <3>0. RowFit(r, stored[r]) /\ DriversFit(r, driver'[r], active'[r]) /\ r \notin pendingPersist'
      BY <1>1 DEF Inv, RunOK, DriversFit
    <3>1. CASE r \notin Restorable
      <4>1. /\ active'[r] = NoRun
            /\ stored'[r] = stored[r]
            /\ r \notin cancelReady'
        BY <1>4, <3>1
      <4>2. PauseFit(r, active'[r])
        BY <4>1 DEF PauseFit
      <4> QED BY <3>0, <4>1, <4>2, RunOKNext
    <3>2. CASE r \in Restorable
      <4>1. /\ active'[r] = back[r].run
            /\ stored'[r] = back[r].row
            /\ claims'[r] = back[r].lease
            /\ r \in cancelReady' <=> back[r].cancels
        BY <1>4, <3>2
      <4>2. RowFit(r, stored'[r])
        BY <2>3, <3>0, <3>2, <4>1 DEF RowFit, PauseFit
      <4>3. /\ active'[r] # NoRun => active'[r] = stored[r]
            /\ active'[r] # NoRun /\ active'[r].status \in Executing => claims'[r] # "none"
            /\ stored[r].status \in Parked \cup Executing
            /\ r \in cancelReady' => /\ active'[r] = stored[r]
                                    /\ stored[r].status = "CancelRequested"
        BY <2>3, <3>2, <4>1
      <4>4. PauseFit(r, active'[r])
        BY <3>0, <4>3 DEF RowFit, PauseFit
      <4> QED BY <2>4, <3>0, <3>2, <4>2, <4>3, <4>4, RunOKNext
    <3> QED BY <3>1, <3>2
  <2>7. ASSUME NEW r \in Runs
        PROVE  TodoOK(r)' /\ Renewed(r)'
    BY <1>1 DEF TodoOK, Renewed
  <2> QED BY <1>1, <2>5, <2>6, <2>7 DEF Inv, Phases
<1> QED BY <1>3, <1>4 DEF Restart

-----------------------------------------------------------------------------
(* The theorems *)

LEMMA NextInv ==
  ASSUME Inv, [Next]_vars
  PROVE  Inv'
<1>1. ASSUME NEW r \in Runs, Operate(r)
      PROVE  Inv'
  <2>1. StateOK /\ RunOK(r)
    BY DEF Inv
  <2>2. Sound(r) /\ tick = "idle" /\ UNCHANGED tickVars
    BY <1>1, <2>1, OperateSound
  <2>3. Renewed(r)' /\ UNCHANGED <<tick, todo>>
    BY <2>2 DEF tickVars, Renewed
  <2> QED BY <2>2, <2>3, OneRunKeepsInv
<1>2. ASSUME NEW r \in Runs, Maintain(r)
      PROVE  Inv'
  <2>1. StateOK /\ RunOK(r) /\ TodoOK(r) /\ Renewed(r) /\ tick \in Phases
    BY DEF Inv
  <2>2. Sound(r) /\ Renewed(r)' /\ UNCHANGED tick /\ todo' = todo \ {r}
    BY <1>2, <2>1, MaintainSound
  <2> QED BY <2>2, OneRunKeepsInv
<1>3. CASE UNCHANGED vars
  <2>1. UNCHANGED <<stored, claims, marked, faults, active, pendingPersist, retained,
                    cancelReady, budgetReady, driver, tick, todo>>
    BY <1>3 DEF vars, storeVars, trackVars, tickVars
  <2>2. StateOK' /\ tick' \in Phases /\ todo' \subseteq Runs
    BY <2>1 DEF Inv, StateOK, StoreTypeOK
  <2>3. ASSUME NEW r \in Runs
        PROVE  (RunOK(r) /\ TodoOK(r) /\ Renewed(r))'
    <3>1. RunOK(r) /\ TodoOK(r) /\ Renewed(r)
      BY DEF Inv
    <3>2. RunOK(r)'
      BY <2>1, <3>1, RunOKNext DEF RunOK
    <3> QED BY <2>1, <3>1, <3>2 DEF TodoOK, Renewed, Shared, Deterministic, KindAt
  <2> QED BY <2>2, <2>3 DEF Inv
<1> QED BY <1>1, <1>2, <1>3, PhaseInv, TickEndsInv, RestartInv DEF Next, Tick

\* Every state the engine reaches satisfies the inductive invariant.
THEOREM InvHolds == Spec => []Inv
<1>1. Inv /\ [Next]_vars => Inv'
  BY NextInv
<1> QED BY InitInv, <1>1, PTL DEF Spec

\* The engine's maps and sets stay within their types.
THEOREM Typed == Spec => []TypeOK
<1>1. Inv => TypeOK
  BY DEF Inv, StateOK, TypeOK
<1> QED BY InvHolds, <1>1, PTL

\* A tick cancels only runs whose cancellation was asked for.
THEOREM CancelsOnlyRequested == Spec => []CancelReadyCancelling
<1>1. Inv => CancelReadyCancelling
  BY DEF Inv, StateOK, RunOK, CancelReadyCancelling, Is
<1> QED BY InvHolds, <1>1, PTL

LEMMA InvGates == Inv => GateBeforeTurn
  BY DEF Inv, RunOK, DriversFit, RowFit, GateBeforeTurn, InStatus, Known

\* No agent works on a gated step whose gate was not approved, whatever store calls
\* fail, heartbeats are lost and processes crash, and whoever takes the run on while
\* its drivers have it.
THEOREM GatesHold == Spec => []GateBeforeTurn
  BY InvHolds, InvGates, PTL

\* Only a deterministic run that tools advance beside its driver is ever taken on without
\* a claim.
NoneShared == \A r \in Runs : ~Shared(r)

\* A run that may be executing has a claim row, as long as heartbeats arrive and tools
\* leave the deterministic runs to their drivers.
THEOREM ClaimsBack ==
  ASSUME ~HeartbeatMayFail, NoneShared
  PROVE  Spec => []ClaimBacksExecution
<1>1. Inv => ClaimBacksExecution
  BY DEF Inv, RunOK, NoneShared, ClaimBacksExecution, InStatus, Known
<1> QED BY InvHolds, <1>1, PTL

\* A run whose park is not saved keeps its claim, as long as heartbeats arrive and tools
\* leave the deterministic runs to their drivers.
THEOREM PendingClaimed ==
  ASSUME ~HeartbeatMayFail, NoneShared
  PROVE  Spec => []PendingKeepsClaim
<1>1. Inv => PendingKeepsClaim
  BY DEF Inv, StateOK, RunOK, NoneShared, PendingKeepsClaim, Is
<1> QED BY InvHolds, <1>1, PTL

=============================================================================
