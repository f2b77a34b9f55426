# TLA+ models of omnes-agent

Models, model-checking runs and proofs for the stateful core of omnes-agent: the engine of
standard operating procedures (SOPs), which decides what unattended work is done and what waits
for a person; the approval broker before its gates and the durable queue before its starts; the
control plane of background tasks; the cron scheduler; and the sessions of the daemon's RPC server.

Paths are relative to `src/backend/crates/omnesagent-runtime/src`, those of the SOP parts to its
`sop` directory (`engine.rs:N` is a line of the SOP engine), unless they start with `src/`.

Contents: [the system](#the-system) · [modules](#modules) · [how the models correspond to the
code](#how-the-models-correspond-to-the-code) · [runs](#runs) · [fairness](#fairness) ·
[proofs](#proofs) · [divergences found](#divergences-found) · [not modelled](#not-modelled) ·
[plan](#plan)

Running it, in this directory:

    tlc -workers 4 -config EngineGate.cfg MCSopCheckpoint     # and EngineSlots.cfg
    tlc -workers 4 -config EngineProgress.cfg MCSopEngine     # and EngineCheckpointPassed.cfg
    tlc -workers 4 -config Quorum.cfg MCSopQuorum             # Quorum*.cfg
    tlc -workers 4 -config Ingress.cfg MCSopIngress           # Ingress*.cfg
    tlc -workers 4 -config Tasks.cfg MCControlPlane
    tlc -workers 4 -config Cron.cfg MCCron                    # Cron*.cfg
    tlc -workers 4 -config Rpc.cfg MCRpcSessions
    tlapm SopEngine_proofs.tla       # and the other *_proofs modules

## The system

omnes-agent is a personal agent: a Rust backend (a runtime, a gateway, channel adapters of
messaging services, model providers, memory, plugins), a terminal code editor and a Flutter
frontend. Most of its 1.1 million lines are adapters and data. Its own stateful core is small:

| component | state | operations | interacts through |
|---|---|---|---|
| SOP run store (`store/`) | run snapshots with revisions, execution claims with leases, event ledger | save, save with pending capacity, save terminal and release, claim, heartbeat, release, reap, prune | called by the engine; survives it; may be shared by processes |
| SOP engine (`engine.rs`) | live runs, runs whose park is not saved, retained claims, finalization marks | start, advance, park, approve/deny, cancel, fail, restore, maintenance tick | one mutex; store calls; actions returned to drivers |
| SOP drivers (`executor.rs`, `agent/turn/mod.rs:1995`) and tools (`tools/sop_advance.rs`, ...) | the action in hand, the actions queued in an agent turn, the number of actions taken | step boundary, agent turn, capability step, budget; advance, execute and approve from within a turn | engine calls under the mutex, agent turns outside it |
| SOP checkpoints (`engine.rs:2981-3839`) | the same, plus a deterministic state file | approve, amend, revise, deny | broker, or the engine's own calls |
| SOP approval (`approval/`) | votes in the ledger, gate revisions, prompts of channels | vote, quorum, escalation, timeout | surfaces (HTTP, WebSocket, chat, command line, agent tool) call the broker, the broker the engine |
| SOP routing (`route/`, `condition.rs`) | none | next step, failure policy, visit bound | called by the engine |
| SOP capabilities (`capability/`) | registry; markers of external effects | run a deterministic step, `forge_comment` | drivers; external services |
| SOP triggers and dispatch (`dispatch.rs`, `src/backend/crates/omnesagent-channels/src/amqp.rs`) | dedup window of deliveries, cron window | match, admit, reserve a batch, activate, roll back, acknowledge | channels, AMQP, cron; engine |
| Control plane (`control_plane/`, `tools/delegate.rs`, `tools/spawn_subagent.rs`) | task rows and settlement intents in one database, output files | register, settle in three steps, cancel, sweep | processes that share the database |
| Cron (`cron/scheduler.rs`, `cron/store.rs`) | one row per job: schedule, flag, due time, lock | sync declarations, free locks, skip or catch up, select, claim, run, complete, edit, remove | one scheduler per daemon; edits by commands, RPC, HTTP and agent tools; the table |
| RPC sessions (`rpc/session.rs`, `rpc/dispatch.rs`) with the session queue (`omnesagent-infra`) | sessions in memory, admission slots, cancel tokens and causes, durable ACP rows | new, prompt, cancel, close, delete, kill, rehydrate, configure, refresh | requests of a connection and the tasks they spawn; the queue, one update lock per session, the agent's mutex |
| Debounce, watchdog (`omnesagent-infra`) | timers | coalesce, time out | channels, agent loop |
| Ralph loop (`omnesagent-ralph`) | journal, iteration state | iterate, plateau, resume | agent loop |
| Daemon, agent loop, providers, channels, gateway, memory, config, plugins, UI | connections, sessions, stores | I/O | everything |

**Hard behaviours.** An agent turn runs for minutes outside the mutex, and meanwhile its run can
be cancelled, its step budget can be exhausted, any other agent can advance it with `sop_advance` to
another step or a gate, or the process can restart. A run's snapshot, its
claim and the engine's cache are three records of one fact, updated by store calls each of which
may fail; the code orders them so that a crash between two leaves something it can restore, and
leaves notes (`claims_pending_persist`, `cancellation_finalization_ready`, ...) for the
maintenance tick to try again. Claims are leases, kept alive by that tick and reaped by it.
Capacity is checked in different places: admission, the claim, the pending pool before a park,
and again inside the save. Approvals race with timeouts, cancellations and capacity. A delivery
can be repeated; a batch of starts is all or nothing. A background task ends through an intent, a
file and a row, its process may die between them, and another process, perhaps with the same pid,
finishes what it finds. The cron scheduler selects jobs, claims them one by one, runs them for
minutes and completes them with the row it selected, while clients write rows they read earlier
and daemons stop and start. A session of the RPC server is replaced, evicted, killed and restored under
one id while turns run in it and configurations wait for it.

**What makes it correct**, component by component:

- *store*: a claim is granted only within the caps; a park is never saved over the pool's limit;
  a terminal snapshot and the end of the claim are one.
- *engine*: a run that may execute owns a claim; a claim is given back only when the parked run
  is durable; nothing is forgotten in a restart and nothing left when a run ends; a cancellation
  sticks and completes; a serialised SOP never runs beside itself.
- *approval*: no agent works on a gated step that nobody approved, whoever took its run on meanwhile; a vote
  counts once; an answer
  to an older gate does nothing.
- *drivers*: no step after a cancellation; a run is finished for its driver only when that is idle.
- *dispatch*: an acknowledged trigger was handled; a batch starts whole or not at all; a repeated
  delivery starts nothing; nothing that is rolled back keeps a slot or comes back.
- *control plane*: a task ends once; a completed one can be read; a live owner keeps its task, and
  the row of a dead one ends.
- *RPC sessions*: one request at a time holds a session; a turn is cancelled with its own cause; a
  killed session stays dead; what is configured reaches the session it was meant for and its agent.
- *cron*: a job is locked exactly while it runs; a one-shot runs once; a due job does not stay due.
- *Ralph loop*: an iteration is journaled before it counts.

`PROJECT.json` lists every component with what is and is not modelled, and under `hazards` the
places in the code where these can go wrong, each with the properties that watch it.

## Modules

| module | what it is |
|---|---|
| `SopStore` | the run store: snapshots, claims and leases, store calls that fail; admission and pool tests |
| `SopEngine` | the engine with its drivers, the maintenance tick, crashes and restarts; the properties |
| `SopCheckpoint` | decisions on checkpoints, added to the engine: through the broker (`CheckpointSpec`) and through the engine's own calls (`DirectSpec`) |
| `SopLifecycle` | abstract: the life cycle of a run as its durable snapshots show it, and the slots |
| `SopPrincipal` | who may answer a gate and under which key a voter is counted |
| `SopQuorum` | the approval broker with the gates of one run: presentations, votes, counting, prompts |
| `SopDecision` | abstract: how one gate after another is decided |
| `SopIngress` | deliveries of a durable queue, the two phases of a start, the dedup window, crashes |
| `ControlPlane` | background tasks: rows, intents, files, bodies and sweeps of several processes |
| `Cron` | the cron scheduler: daemons that start and stop, selection, claims, runs and completions, edits |
| `RpcSessions` | sessions of the RPC server: admission, turns and cancellation, removal and restoration, provider updates |
| `MCSopEngine`, `MCSopCheckpoint`, `MCSopQuorum`, `MCSopIngress`, `MCControlPlane`, `MCCron`, `MCRpcSessions` | the instances TLC checks |
| `SopEngine_proofs`, `SopLifecycle_proofs`, `SopQuorum_proofs`, `SopIngress_proofs`, `ControlPlane_proofs`, `Cron_proofs`, `RpcSessions_proofs` | proofs about the module of that name |
| `SopRecord_proofs` | what `SopEngine` does to the rows and claims of its runs: proof that it implements `SopLifecycle`, and what follows; then the same for the engine with decisions on checkpoints (`CheckpointSpec`), and what becomes of retained claims; what remains true with the engine's own calls (`DirectSpec`) |

`SopEngine` EXTENDS `SopStore`, `SopCheckpoint` EXTENDS `SopEngine`, `SopQuorum` EXTENDS
`SopPrincipal`. `SopEngine` instantiates `SopLifecycle` with `status` as the status of the stored
snapshot and `slots` as the claim rows, and `KeepsLifecycle` says that it implements it;
`SopQuorum` instantiates `SopDecision` with `open` as "the run waits at a gate", and
`DecidesByQuorum` says that it implements it. A definition whose comment begins "Broken on
purpose" is used by no specification: it is a wrong version of the definition after it, and
substituting it makes a run fail. Each property of a run has one, so that each run is known to be
able to fail (`PROJECT.json`, `mutants`).

## How the models correspond to the code

`PROJECT.json`, `map`, names the source lines of every definition. In outline:

### The engine

| model | code |
|---|---|
| `stored[r]` | row of `sop_runs`; `results` keeps of `step_results` only which checkpoints have one, the only thing later decisions read of it |
| `claims[r]` | row of `sop_claims`: `none`, `fresh`, or `lapsed` (expired, and still counted until reaped) |
| `marked` | claim rows whose holder is `RETAINED_TERMINAL_ROLLBACK_HOLDER` |
| `active` | `active_runs`; `pendingPersist`, `retained`, `cancelReady`, `budgetReady` are the engine's four sets of run ids |
| `driver[r]` | the actions that drivers of the run have in hand, each with its step: `ready` in a headless driver before its step boundary, `turn` in its agent turn, `queued` in the agent turn of a tool call that returned it; `cleared` is history, whether the action is that of an approved gate |
| `tick`, `todo` | where the maintenance tick is, and the ids the current phase collected and has not visited |
| `cleared` in a record | history: the gate of this visit of the step was approved. It is saved with the run because the approval commits with its ledger row |
| `faults` | store calls that failed, and crashes, so far (bounded by `MaxFaults`) |

*Atomicity.* The engine is behind one `Mutex`, so an engine call is one action: `Start`,
`Boundary`, `TurnEnds`, `CapabilityStep`, `ToolAdvance`, `BudgetSpent`, `Approve`, `Deny`,
`Cancel`, `Decide`, `ApproveStep`, `DenyStep`. An action contains all the store calls of its
handler, and each may fail: helpers carry "where the call stands" (`Calls`: the lease, the row,
the number of failures) from one to the next. The tick holds the mutex for many runs; it is split
into a step per run (`TimeOut`, `RetryPark`, `RetryPend`, `FinalizeBudget`, `FinalizeCancel`) so
that a crash can fall between them, while every other engine call waits for `tick = "idle"`.

*Crashes.* A crash between two store calls of a handler leaves the store as if the calls after it
had failed, and loses the cache. So a crash at any point is that action with the rest failing,
then `Restart`; this is why each failure also costs one of `MaxFaults`.

*Agent turns* are outside the mutex: `Boundary` begins one, `TurnEnds` ends it, and anything may
happen in between. Their results are abstracted: any routing decision may follow (`Route`), since
which one depends on data. *Time*: an approval may have waited too long whenever a tick begins;
a lease may lapse between two ticks but not during one (leases last an hour).

*Drivers and tools.* A call that returns an action hands it to whoever made the call (`GoesOn`): a
headless driver that is spawned or that made it, or the queue of the agent turn in which a tool made it
(`enqueue_live_action`); a tool call outside a turn hands it to nobody. A driver does not ask where its
run is: it checks at the boundary for a requested cancellation only (`executor.rs:277`), and its result is taken
for the step where the run is by then, or refused when that is a gate (`advance_step`). An action that
is queued is worked on without even that check (`agent/turn/mod.rs:1995`), and is dropped when its turn
is cancelled (`TurnAborts`). `ToolAdvance` may take on any run that `advance_step` takes on, whatever its
drivers are doing, if its SOP is in `ToolsCutIn`; the runs of other SOPs only while nobody drives them.
`MaxDrivers` bounds the actions of a run that are in hand at a time; two drivers at the same point with the same
action are one.

*Left out of the data*: step outputs, reasons, audit and metrics, notifications, revisions (with
one engine per store a save is always one past the stored revision).

### The approval broker

| model | code |
|---|---|
| `flavor` | whether the gates are `WaitingApproval` (`dispatch_llm_step`) or `PausedCheckpoint` (`resolve_deterministic_action`) |
| `run`, `saved`, `unsaved` | the run in memory, its snapshot, and whether it is in `claims_pending_persist`; `revision` is `gate_revision`, `base` the revision its revisions are counted from |
| `votes`, `decided` | the `gate_vote` rows of the ledger, and whether it has other rows of a gate |
| `rule` | the approval policy in effect with its group, quorum, approval mode and timeout action |
| `prompts`, `inflight` | the references of prompts sent to channels; the channel answers that were compared with the gate and wait for the engine |
| `pres`, `heard` | history: presentations so far, and the answers recorded for the current one |

One engine call is one action. A channel's answer takes the lock twice, so `ChannelCheck` and
`ChannelResolve` are two. Slots are left to `SopEngine`: here a resume may find none.

### Deliveries

| model | code |
|---|---|
| `broker[m]` | where a message is: queued, at an engine, acknowledged; `again` is the redelivered flag |
| `pc[e]` | the delivery the consumer of engine `e` has at hand, with what it reserved (`held`) and activated (`live`) |
| `mem[e]`, `unsaved`, `window[e]` | `active_runs`, parked runs not saved yet, `dispatch_dedup` |
| `rows`, `claims` | the store, shared by the engines |
| `started`, `rolled`, `outcome`, `failed`, `faults`, `crashed` | history, which the properties compare with |

The engine is locked from the admission of a delivery to its last activation; `Claim` and
`InsertClaim` are the two statements of `try_claim_run`, between which another engine may go on.

### Background tasks

| model | code |
|---|---|
| `life[p]` | a process: not started, up, gone. It never comes back; a restart is another process, which `Identity` may give the same pid |
| `task[t]`, `intent[t]` | rows of `control_plane_tasks` and of `terminal_settlement_intents` |
| `artifact[t]` | the output file of a delegate: absent, or the content of an outcome |
| `body[t]` | where the body of the task is, in which process, with which outcome |
| `sweep[p]` | the sweep of a process: what it listed, what it holds, the row it read |
| `trouble` | failed calls and takeovers so far (bounded by `MaxTrouble`) |

Each database call is one transaction and one action; a process may die between any two.

### Cron

| model | code |
|---|---|
| `job[j]` | row of `cron_jobs`: schedule, `enabled`, `locked`, source, `delete_after_run` (`once`), `next_run` |
| `life[p]`, `stage[p]`, `config[p]` | a daemon and where its scheduler is: the declarations, the locks, catching up or skipping, its loop; the jobs its configuration declares, has no agent or no policy for |
| `work[p][j]` | the run of a selected job: where it is, the row as it was selected, and how it is to be completed |
| `edit[c]` | an edit between the read of its row and its `UPDATE` |
| `spent`, `revived`, `stuck` | history: one-shots that ran and that nobody asked to run again; rows that were enabled by something else than such a request; locks that a failed release or a failed start left |

Every statement is one action; what is remembered from one to the next is a snapshot, as in the code
(`job: &CronJob`). `Sync` is a sequence of statements without a transaction: any part of them may
be all that happens, deletions first. A daemon that stops drops what its runs had not written. A cron expression
is an interval here, and a run ends with either outcome; history, delivery and retries
within a run change neither lock nor schedule. A run started by hand takes no lock in the code and
is left out.

### RPC sessions

| model | code |
|---|---|
| `req[r]` | a request: its method, its session, where its handler is, the slot it is registered with, and what it read: the incarnation (`seen`), the configuration (`ver`) and overrides it built a provider of, the incarnation whose lock it asked for (`bound`), the sessions it listed |
| `current[s]` | which slot object `SessionActorQueue.slots` has for the session; a slot has two names, so that an evicted one and its successor differ |
| `live[s]`, `inc[i]` | `SessionStore.sessions`: an incarnation is what `generation` counts, with its mode, overrides and agent |
| `lock[i]` | `model_provider_update` of an incarnation |
| `token`, `fired`, `cause` | `cancel_tokens`, the tokens that were cancelled, `cancel_causes` |
| `row[s]` | the row of the ACP session store: none, restorable, killed |
| `cfg` | how often a provider profile was saved |

An `await` between two locks ends an action. Turns are outside all locks but the session's permit
and the agent's mutex, so that everything that is not admitted (cancellations, configurations,
refreshes, evictions) happens during them.

## Runs

Deadlock is checked in the runs of the engine and the broker, where no tick may get stuck whatever
fails; in the others a behaviour may end (all messages settled, all requests answered, time over).
`SYMMETRY` is used where the
permuted values are alike and the run checks no liveness.

| run | bounds | shows |
|---|---|---|
| `engine_gate` | 3 runs of 2 SOPs, 1 slot in all, a pending pool of 1, a gated step and checkpoints decided by the engine's own calls, tools that advance driven runs (`ToolsCutIn` has both SOPs), up to 2 drivers of a run, 2 faults, heartbeats and restarts may fail; 1,317,000 states with symmetry | `GateBeforeTurn`, `CancelSticks`, `CancelReadyCancelling`, `PendingPoolBound` |
| `engine_slots` | 3 runs of 2 SOPs, one of them `Hold`, 1 slot in all, gated or checkpoint step decided through the broker, automatic approval on timeout, 1 driver of a run, 2 faults; 1,177,000 states with symmetry | `ExecutionWithinCap`, `HoldSerialises`, `EndedLeavesNothing`, `NoRunForgotten`, `MarkedIsParked`, `ParkDurableBeforeRelease`, `KeepsLifecycle` |
| `engine_progress` | 2 runs, a pending pool of 1, 1 driver of a run, 2 faults, fairness; 55,000 states | `ClaimBacksExecution`, `CancelCompletes`, `ParkSettles`, `OrphansReclaimed`, `PendAdmitted` |
| `quorum` | 4 principals of 4 transports, 3 rules, 2 gates, 1 revision, 2 presentations, 3 votes, 1 answer in flight; 290,000 states | `VotesAreCurrent`, `EveryVoteCounts`, `PromptNamesGate`, `VotesFollowPark`, `DecidesByQuorum` |
| `ingress` | 1 engine, 3 messages for 1, 2 and 3 SOPs of different policies, 2 slots in all, 1 fault, fairness; 29,000 states | `AcknowledgedIsHandled`, `StartedOnce`, `NoSlotLeaks`, `RolledBackStaysGone`, `EveryDeliverySettles` |
| `tasks` | 3 processes, one with the pid of another, a delegate and a subagent, 1 fault, fairness; 400,000 states | `CompletedIsReadable`, `IntentIsOwners`, `EndsOnce`, `LiveOwnerKeepsTask`, `DueRowsEnd` |
| `cron` | a declared one-shot and an added recurring job, 2 daemons in turn, 3 configurations, 1 client, one job at a time, 3 points in time, 1 fault, 1 edit, fairness; 254,000 states | `LockMatchesRun`, `OneShotLaunchesOnce`, `DueJobsSettle` |
| `rpc` | 3 requests, any method on a session and what may evict it on its sibling, queue of 2, 2 sessions; 1,225,000 states with symmetry | `OneRequestHoldsSession`, `CauseIsOfThisTurn`, `KilledStaysDead`, `ConfiguresItsIncarnation`, `AgentHasOverrides`, `EditsReachSessions` |
| `engine_checkpoint_passed`, `quorum_stale_votes`, `ingress_rolled_back`, `cron_one_shot` | the smallest instances that show them | violations, see [divergences](#divergences-found) |

Types are proved (see [proofs](#proofs)) for the engine, the broker, deliveries, tasks, cron and RPC sessions.

*Why the bounds are enough.* Runs of SOPs interact only through counts (slots, pool) and the
admission policy, so two runs for one slot or one pool place reach every contention; a third run
and a second SOP separate the SOP's cap from the total. Two steps are a step to come from and a
gate to go to, with jumps back. `MaxFaults` counts failed calls and restarts together: two allow a
failed call and a restart, or a failed retry.
Two drivers of a run are the one that is overtaken and the one that the overtaking
call made; a third would be a second that was overtaken.
`MaxFinished = 1` makes pruning happen with two ended runs. The counters of faults never go down,
so every behaviour is eventually free of faults and the liveness runs ask what the code does then.
A quorum of two with three votes lets a vote of a former member, of a repeated answer or of an
earlier presentation be the one too many; two presentations are an earlier gate and a later one.
Three messages let one be redelivered between two that compete for its SOPs; a window of three
forgets nothing within the run, and the length of the window is no part of the properties but of
the deployment (`DISPATCH_DEDUP_CAP`). Three processes are an owner, one that takes over or sweeps,
and one that has a dead one's pid; the two tasks are one of each kind. Three requests are a turn,
what interrupts it, and what replaces the session or waits behind them; the third finds the queue
of two full. The sibling is there only to evict and be evicted. Two cron jobs are a one-shot and a
recurring one, of which `MaxTasks = 1` and `MaxConcurrent = 1` leave one waiting; the second daemon
finds what the first left, and a time of two lets a job become due again after a run, a skip or an edit.

Conditions on the environment:

- `ClaimBacksExecution`, `ParkDurableBeforeRelease`, `ExecutionWithinCap` and `KeepsLifecycle` are checked
  with `HeartbeatMayFail = FALSE`: a run whose heartbeats are lost
  for an hour is reaped, by design.
- `ExecutionWithinCap`, `NoRunForgotten`, `CancelCompletes` and the others of their runs are
  checked with `RestoreMayFail = FALSE`: a restart that cannot list or re-claim its runs starts
  without them. `GateBeforeTurn` and `CancelSticks` hold even so (`engine_gate`).
- `engine_slots` and `engine_progress` have no tools that advance a run while it is driven
  (`ToolsCutIn = {}`). For SOPs whose steps are those of agents the theorems below do without that
  condition. For deterministic SOPs, as with `NoneShared` in the theorems, it is one that matters:
  `advance_headless_deterministic_step` (`engine.rs:4072`) checks for a cancellation only and records its result
  for the step the run is at (4556), so that a driver takes a run on which `sop_advance` has parked at a checkpoint in
  between, without a claim and without a decision. The caps, `ParkDurableBeforeRelease`,
  `MarkedIsParked`, `KeepsLifecycle` and the others are not claimed of such a run. The deterministic SOP of
  `engine_gate` has one step, a checkpoint, so that it gets no driver; what the run shows of overtaken
  drivers is about
  its SOP of agent steps.
- `CancelSticks` counts an action that is queued in an agent turn as being worked on: its step may begin
  after the cancellation, as nothing looks before it. `CancelCompletes` is about runs that a headless
  driver drives, as a turn may drop what is queued in it.
- `quorum` has the ledger readable when a gate is presented, and only first gates held back by a
  full pool (`HeldBackAt = {"first"}`, `HistoryMayBeUnread = FALSE`): without either the gate
  keeps the number of the one before, see [divergences](#divergences-found). The members of its
  group vote over other transports than chat channels, whose votes are not found again.
- `ingress` has one engine on the store; two engines exceed the caps, see the divergences.
- `cron` has one daemon at a time (`MaxUp = 1`), as its deployment has: a second one would free the
  locks of the first, see the divergences.
- `rpc` has one client that owns all sessions, and saves only profiles whose providers can be
  built: a refresh that cannot build one logs it and leaves the session as it is. `EditsReachSessions`
  is about the sessions that were there at the save.

## Fairness

The engine's `FairSpec` assumes that the maintenance loop (`spawn_sop_maintenance`,
`src/backend/src/main.rs`) runs for ever and that a tick, once begun, runs to its end: weak
fairness of `TickBegins`, of the visits of each run and of `PhaseEnds` and `TickEnds`. The loop
awaits nothing but its timer and the mutex. A driver waits for the mutex, which a tick takes again
and again but frees in between, so its steps get strong fairness; so does the lapse of a lease
nobody renews, which is time passing. No fairness is assumed of people (`Approve`, `Deny`,
`Cancel`), of starts, of `BudgetSpent`, or of crashes. That an agent turn ends at all is part of
the strong fairness of `TurnEnds`: turns have time limits. `ParkSettles` and `PendAdmitted` except
a pool that is full again and again: nothing reserves a place for a run that waits for one.

`SopIngress`: a delivery at hand is carried on (weak fairness of `Dispatch`: the consumer awaits
nothing it does not get). The broker delivers what is queued again and again, runs end, and the
maintenance saves and reaps; all of these wait for the engine's lock, which every delivery frees,
hence strong fairness. Nothing is assumed of faults.

`ControlPlane`: while its process is up, a sweep goes on (`reaper_loop`, a timer) and a body that
has its outcome settles it (`supervise_settlement_intent` tries again until it can). Nothing is
assumed of what a delegate does before it has an outcome, and a process may die at any time;
`DueRowsEnd` asks only that in the end some process stays up.

`Cron`: a daemon that is up goes through its start, polls, and carries its runs on (weak fairness of
`Start`, `Poll` and the steps of each run). A run ends at the latest with its deadline
(`AGENT_JOB_TIMEOUT_SECS`, `SHELL_JOB_TIMEOUT_SECS`), and `buffer_unordered` takes the next job when
one has. Nothing is assumed of clients, of time or of the start of a daemon; `DueJobsSettle` asks
only that a daemon stays up.

`SopQuorum` and `RpcSessions` state safety only: their code decides when somebody calls.

## Proofs

All of them are about the specifications as they are, for any constants that satisfy the
assumptions of the module (`StoreAssumption`, `EngineAssumption`, `QuorumAssumption`,
`IngressAssumption`, `ControlPlaneAssumption`, `CronAssumption`, `RpcAssumption`), any number of failures,
crashes and requests.

| module | theorem | property | also assumes |
|---|---|---|---|
| `SopEngine_proofs` | `InvHolds` | the inductive invariant `Inv` | |
| | `Typed` | `TypeOK` | |
| | `GatesHold` | `GateBeforeTurn` | |
| | `CancelsOnlyRequested` | `CancelReadyCancelling` | |
| | `ClaimsBack` | `ClaimBacksExecution` | heartbeats arrive (`~HeartbeatMayFail`), `NoneShared` |
| | `PendingClaimed` | `PendingKeepsClaim` | heartbeats arrive, `NoneShared` |
| `SopRecord_proofs` | `Implements` | `KeepsLifecycle` | heartbeats arrive, restarts read the store, `NoneShared` |
| | `WithinCap` | `ExecutionWithinCap` | the same |
| | `OneAtATime` | `HoldSerialises` | the same |
| | `PoolBounded` | `PendingPoolBound` | `NoneShared` |
| | `NothingLeft` | `EndedLeavesNothing` | `NoneShared` |
| | `NoneForgotten` | `NoRunForgotten` | restarts read the store, `NoneShared` |
| | `CancellationSticks` | `CancelSticks` | `NoneShared` |
| | `ReleasesOnlyDurable` | `ParkDurableBeforeRelease` | heartbeats arrive, `NoneShared` |
| | `CheckpointHolds` | `RecInv`, with decisions on checkpoints (`CheckpointSpec`) | `NoneShared` |
| | `DecisionsImplement` | `KeepsLifecycle` | heartbeats arrive, restarts read the store, `NoneShared` |
| | `DecisionsWithinCap` | `ExecutionWithinCap` | the same |
| | `DecisionsSerialised` | `HoldSerialises` | the same |
| | `DecisionsLeaveNothing` | `EndedLeavesNothing` | `NoneShared` |
| | `DecisionsForgetNone` | `NoRunForgotten` | restarts read the store, `NoneShared` |
| | `DecisionsDurable` | `ParkDurableBeforeRelease` | heartbeats arrive, `NoneShared` |
| | `DecisionsKeepGates` | `GateBeforeTurn` | |
| | `DecisionsNeverRevive` | `CancelSticks` | `NoneShared` |
| | `DecisionsPoolBounded` | `PendingPoolBound` | `NoneShared` |
| | `MarksHold` | `MarkedIsParked` | `NoneShared` |
| | `DirectKeepsGates` | `GateBeforeTurn`, with decisions through the engine's own calls (`DirectSpec`) | |
| | `DirectCancelsRequested` | `CancelReadyCancelling`, the same | |
| `SopLifecycle_proofs` | `WithinCaps` | `SlotsWithinCaps` | |
| `SopQuorum_proofs` | `QuorumTypes` | `TypeOK` | every presentation is numbered (`Renumbers`) |
| | `VotesCurrent` | `VotesAreCurrent` | `Renumbers` |
| | `VotesParked` | `VotesFollowPark` | `Renumbers` |
| | `EveryVoteIsCounted` | `EveryVoteCounts` | `Renumbers`, `VotersAlike` (below) |
| | `PromptsNameGates` | `PromptNamesGate` | `Renumbers` |
| | `BrokerImplementsDecision` | `DecidesByQuorum` | `Renumbers` |
| `SopIngress_proofs` | `IngressTyped` | `TypeOK`, with the shape of every delivery | |
| | `SlotsComeBack` | `NoSlotLeaks` | |
| | `NoneRolledBackParks` | `NotParked`: what is rolled back is not left waiting in the store | |
| | `RolledBackAreGone` | `RolledBackStaysGone` | `GatesLead`, `PoolsStay` (below) |
| | `NoTriggerIsLost` | `AcknowledgedIsHandled` | one engine, every SOP has a first step |
| | `NoFanOutIsLost` | `FanOutIsHandled`: `AcknowledgedIsHandled` for messages that start a batch | |
| | `NothingStartsTwice` | `StartedOnce` | one engine |
| `ControlPlane_proofs` | `TasksTyped` | `TypeOK` | |
| | `CompletedReadable` | `CompletedIsReadable` | |
| | `IntentsAreOwners` | `IntentIsOwners` | |
| | `TasksEndOnce` | `EndsOnce` | |
| | `LiveOwnersKeepTasks` | `LiveOwnerKeepsTask` | |
| `Cron_proofs` | `CronTypes` | `TypeOK` | one daemon at a time (`MaxUp <= 1`) |
| | `LocksMatchRuns` | `LockMatchesRun` | `MaxUp <= 1` |
| | `OneShotsLaunchOnce` | `OneShotLaunchesOnce` | `MaxUp <= 1` |
| `RpcSessions_proofs` | `RpcTyped` | `TypeOK` | |
| | `PermitIsExclusive` | `OneRequestHoldsSession` | |
| | `CauseOfOwnTurn` | `CauseIsOfThisTurn` | |
| | `KilledStays` | `KilledStaysDead` | |
| | `OverridesOfOwnIncarnation` | `ConfiguresItsIncarnation` | |
| | `AgentFollowsOverrides` | `AgentHasOverrides` | |
| | `RefreshesReach` | `EditsReachSessions` | |

`NoneShared` says that no deterministic SOP is in `ToolsCutIn`: tools leave deterministic runs to their drivers, for
the reason given under [runs](#runs). The types, the gates and the tick's cancellations need no such condition.

**The engine.** None of the properties is inductive. `Inv` is a conjunction over the runs of

- `RunOK`: a cached run is parked or executing; an unsaved park is parked; a run marked to be
  cancelled is `CancelRequested`; every action in hand for a gated step is that of an approval, wherever
  the run is now, and a deterministic run that tools leave alone has one driver at most, which finds it
  neither parked nor pending (`DriversFit`); a row that says a run works at a gated step is that of an approval
  (`RowFit`); only deterministic runs pause at checkpoints (`PauseFit`); and, heartbeats arriving, a run that
  executes or whose park is unsaved has a claim, if it is none that tools share with its driver;
- `Renewed`: from the parks' phase to the end of the tick the claim of an unsaved park is fresh.
  Without it the reaper, which comes last, could take the claim of a park that only the
  beginning of the same tick renewed;
- `TodoOK`: a run the tick has collected and not visited is still what it was collected as.
  Without it, `FinalizeCancel` or `TimeOut` might act on a run that has changed.

All steps but the end of a tick and a restart act on one run, so there is one lemma per action,
`...Sound`: the step leaves its own run in order and the other runs alone (`Sound`), and
`OneRunKeepsInv` does the rest. The lemmas follow the calls of the code: one per helper
(`Persist`, `ParkThenRelease`, `FinishOk`, `Release`, ...), then the actions that use it.
`TickEndsInv` and `RestartInv` deal with all runs at once.

**The rows of the engine.** `Inv` says what the engine has of a run. What the store tells of it is in
`Fits`: of a run whose row is terminal nothing is left; a run that works, or whose park is unsaved, has
a row that says it works, or none yet; a cancellation and a park that is saved are in the row; and an
unfinished row without a run in memory is one that a restart could not read, and nobody drives.
`RecInv` adds `Timely`: a wait whose timeout the tick looks at was saved. Again there is one lemma per
helper and action, `...Told`, on top of the `...Sound` of the same action: the step leaves `Fits`, and
what it does to the row and the claim is a step of the life cycle (`Lives`), finds room when it
parks (`Room`) and does not undo a cancellation (`Sticks`). `TickEndsRows` and `RestartRows` do the same
for all runs at once.

From that, `Implements` puts the steps together: `NextLives` shows each engine step to be one of
`SopLifecycle` under the refinement mapping, or a stutter. Heartbeats must arrive, as a reaped claim
of a run that works would be a step no life cycle has; and restarts must read what they restore, as
otherwise a run that is left out loses its slot while its row says that it works.
`WithinCaps` shows for the life cycle itself that whoever executes owns a slot and execution stays
within the caps, though a run that waits may own a slot beyond them; as the engine implements it and
its executing runs are among those that occupy a slot (`ExecutingOccupies`), the same holds of the engine
(`WithinCap`). `OneAtATime` needs that only a start makes a run live (`StaysGone`) and that a start
that is admitted sees every live run, in the store's rows and claims or in the cache, whichever it is
judged on (`StartsAlone`).

**Decisions on checkpoints.** A decision through the broker is one more step on one run, so all of this
carries over to `CheckpointSpec` once it is shown what a decision does to its run (`DecideSound`) and to
its row (`DecideTold`). What is new is that a call may save the run as `Running` before it is routed, and
then fail to save where it got to: its row is then behind the run by more than what it told before
(`Behind`). `MarksHold` adds that the mark of a retained claim sits on a claim of a run that is durably
parked at a checkpoint: such a run cannot be claimed, so it neither goes on nor ends but by a denial, and
reaping or releasing the claim takes the mark with it (`MarkedStep`, `MarkedDecision`, `TickEndsMarks`,
`RestartMarks`).

The invariant `Inv` itself needs nothing of the rows but `RowFit`, so that `DecisionsKeepGates` has no
condition at all (`CheckpointInv`). Decisions through the engine's own calls (`DirectSpec`) keep `Inv`
(`ApproveStepSound`, `DenyStepSound`,
`DirectInv`), but not `Fits`: a denial that goes on saves the run where it leads, and if what comes then
fails the run is put back in its park and the row stays ahead of it. So what the engine has of its runs is in order,
with what follows from that, and what the rows tell is proved of decisions through the broker only.

**The broker.** A vote names its gate by a number only, so the argument is about numbers. `QInv`
says that every vote has the revision of a saved park (`Numbering`); that what is saved of a parked
run is the run itself or, while the park is unsaved, older than every vote could be (`Parking`); and
that each vote of the current revision is an answer heard at this very presentation (`Answered`).
A gate that is presented takes a revision above all earlier votes, if it is numbered at all. That
is the assumption `Renumbers`: the ledger can be read when a gate is presented, and only a first
gate is held back by a full pool. Without it the theorems are false (`quorum_stale_votes`).
`BrokerImplementsDecision` uses the same invariant: a step of the broker and the engine records
an answer, decides the gate by the voters of this presentation, opens another, or is invisible.

`GInv` adds the other direction. A prompt carries the revision it was sent under, so prompts are
numbered as votes are (`PromptNumbering`). And an answer that was heard at this presentation has its
row, of a voter with the same key (`Counted`). That the row then counts needs a condition on the
deployment, `VotersAlike`: of a group whose members are counted, whoever shares a member's voter key is a
member too and none of them votes in a chat channel. A second answer under one key only updates
the row, which keeps the transport of the first; and `vote_principal` drops the channel, so that a chat
member is not found again (see [divergences](#divergences-found)).

**Deliveries.** A delivery is a program of its own, from `Receive` to `Reply`, interleaved with those
of other engines, ends of runs, maintenance and crashes. `Shape`, a part of `TypeOK`, says what one looks like
at each stage: which SOPs are still to be started, which have a claim or a live run, and that every other SOP
that the message matches has a result. One lemma per action (`...Effect`) says what the action does to
the store, the memory and the delivery; all invariants are shown from these, not from the actions.

- `SlotInv`: a claim is that of a run in a memory, of one that is about to be there, or of one whose
  write failed. `OwnInv`: what a delivery has reserved is claimed, is held by no other delivery, and is in no memory,
  row or history yet, so that no other engine can touch it; what it activated is in the memory, and in the store
  as in the memory or ended. So a batch that is given up gives back exactly what it took.
- `ParkInv`: a gate that is to be activated finds room in its pool, and so did the gates activated
  before it. A run that was rolled back was then either ended by the store, or it executed, which only the
  gates' coming first excludes. That is `GatesLead`: it excludes exactly `ingress_rolled_back`, in which
  a step that was activated before a gate is rolled back with it. `PoolsStay` says that there
  is one engine, or no limit on waiting runs: another engine may fill the pool after the batch was admitted.
- `HandInv`: an answer that acknowledges accounts for every SOP (`Answered`); a single start that was
  admitted finds its slot (`Admitted`), so that it fails only if a write does (`GaveUp`). The last two need one
  engine: another one may take the slot in between, and when the failed start is looked at again the slot
  may be free, so that the trigger is reported as skipped and acknowledged. Batches go back as a whole,
  and need no such hypothesis (`NoFanOutIsLost`). An SOP without steps starts nothing, and is reported the same way.
- `OnceInv`: until a restart and while the window has room, it contains every run that was started, a
  message that has started something and comes again is marked as redelivered, and a delivery that works starts
  nothing that its message has started already. With two engines a redelivery may reach the one whose
  window does not know it: TLC finds `StartedOnce` and `AcknowledgedIsHandled` violated there, so that the
  hypothesis of one engine is necessary in both.

**Background tasks.** Only the body of a task, in its own process, writes an intent, so whoever
finds an intent of a process that is gone also finds a body that ended and a file nobody writes any
more. `CInv` says so of bodies (`BodyFact`), rows (`RowFact`) and intents (`IntentFact`), and, because
a sweep acts on what it read earlier, that what it read of a gone process stays true (`SweepFact`).

**Cron.** The lock of a row is a flag without an owner, so everything rests on one daemon being up
(`OneUp`) and on only a scheduler in its loop having runs (`Placed`): a step of a run is alone with
its job but for clients, whose `UPDATE` leaves the lock. `LockMatchesRun` is then inductive.
That a one-shot runs once is not, as the lock is freed after the row was completed and
nothing remembers the run: `SpentFact` says that a one-shot which ran, and which nothing enabled
since, is disabled or gone, or has a run whose completion will see to it (`Finishing`), and is not
selected. Three lemmas (`RunStepKeeps`, `ClientStepKeeps`, `StartStepKeeps`) say what a step of each
kind may do to a row; one lemma per action shows that it does no more.

**RPC sessions.** `RInv` follows a request from its registration: it has the slot that the queue
has for its session exactly from then to its end (`Flow`), which is why an evicted idle slot is
nobody's; a turn's token and cause are its own from `register_cancel_token` to `finish` (`Turn`,
`Signals`); and a request inserts one incarnation at most, of a row that is not marked as long as it
holds the session (`Insertion`). Whoever holds a session finds it without token and cause of anyone
else (`HoldsAlone`), which is what removals and new turns need. Most steps leave the tokens alone,
insert nothing and mark nothing (`MildStep`).

`UInv` is about providers. The update lock belongs to an incarnation, and an incarnation that was
replaced never comes back, so whoever holds the lock is alone with the model and the overrides it writes; while
nobody does they agree (`ModelFollows`). A refresh that was listed at the save hands its sessions on, one
after the other: a session that was there at the save has the provider of the last save or has a refresh that still
comes to it (`Comes`, `Reached`). Every provider is built while the lock is held, so one that is older than
the last save goes in before the refresh of that save gets the lock.

*Only model-checked*: liveness, as in `DueJobsSettle` and `EveryDeliverySettles`, which is beyond the prover; and
`CancelSticks` and `PendingPoolBound` where checkpoints are decided through the engine's own calls
(`DirectSpec`, in `engine_gate`), as they need to know of the rows: they are proved of the engine without these calls
and of the one with the broker's.

## Divergences found

Four are runs whose property states what the code's own comments say, and which TLC violates.

1. `engine_checkpoint_passed` (`engine.rs:4865`): when the state file of a checkpoint cannot be
   written the run stays `Running` at the checkpoint, and `sop_advance` then completes the
   checkpoint step with nobody's approval, though a checkpoint "pauses execution and waits for
   human approval" (`types.rs:247`).
2. `quorum_stale_votes` (`engine.rs:1006`): a gate that a full pool held back is presented by the
   maintenance tick, which does not count the presentation. A gate the run came back to then has
   the number of its presentation before, and votes given to that one count for it, though a
   vote is recorded so that "neither policy reloads nor a later visit to the same step can reuse a
   stale vote" (`approval/broker.rs:531`).
3. `ingress_rolled_back` (`engine.rs:1778`): a batch that fails to start removes a sibling that
   executes from the memory and releases its claim, but its row is saved, although the comment says
   it was "never durably persisted during activation"; a restart restores and drives it beside
   the run that the redelivered batch starts.
4. `cron_one_shot` (`cron/store.rs:1393`): every start of a daemon writes the declared `enabled` over
   the row of a one-shot that ran and was disabled, or inserts the row that was deleted anew, with the
   due time it had; the job runs again, though it was disabled "so it won't be picked up again"
   (`cron/store.rs:751`).

Others showed while the models were made. They have no run of their own, some because the model
leaves the wrong step out on purpose so that its other properties can be checked.

*The engine.* No driver looks where its run is before it works (`executor.rs:277`), so that an agent's
`sop_advance` (`tools/sop_advance.rs:135`) leaves a driver with the action of a step the run has left: the
step is done again beside the next, and its result counts for the step the run is at. With a
deterministic SOP the driver takes the run on from a checkpoint it was parked at, without a decision
(`engine.rs:4072`). When the input of a gated step violates its schema and the terminal write of
its failed run fails, the run stays `Running` at the gated step in memory, though not in its row, and
`sop_advance` takes it on with no approval, as in 1; no driver has an action for it. The mark that a driver
exhausted its budget is not cleared when the run parks, is
approved and is driven again, and the next tick fails it in the middle of a turn (`engine.rs:5107`,
against 96). A run whose cancellation was requested ends `Failed` when its budget is exhausted in
between (4108, against 5129). When the release of the claim fails as a run parks, escalations
renew that claim for ever and the run cannot be approved (1170). A denial through the broker marks
its claim in the store only, so nothing renews it and it is reaped (3518, against 90), and until then
the run cannot be approved although a slot is free (3528). A run that a restart
notes as retained, because it is or because its marker could not be read, keeps that note when it is
resumed (3528), against the comment that these runs are parked (86); if the release of its claim fails
when it parks again, the tick renews that claim for ever, though "the lease reaper reclaims a
genuine orphan later" (559). `MarkedIsParked` is about the durable mark, which does not outlive its claim.

*The broker.* A chat answer is compared with the gate under one lock and resolved under another;
if the run reaches its next gate in between, the answer counts for that one
(`src/backend/crates/omnesagent-channels/src/orchestrator/mod.rs:8400-8440` and 8532, against
`approval/broker.rs:73`). `vote_principal` (`approval/broker.rs:620`) drops the channel of a voter,
so that when votes are counted the members of a group who only vote in chats are not found, and
their quorum is never reached.

*Starts.* Two processes on one database count the claims and insert one in statements of their own,
so that they exceed the caps by the number of processes (`store/sqlite.rs:420`, against the comment
near `engine.rs:1573`). A parked sibling of a failed batch whose terminal row cannot be saved fills
its place in the pool until a restart.

*Background tasks.* A settlement intent that is persisted after a sweep listed the intents, by a
process that then dies, is not seen, and its task is called lost although its result is on disk
(`control_plane/reaper.rs:93`). When the turn that waits for a subagent is cancelled, its future is
dropped and the row stays until the daemon ends (`tools/spawn_subagent.rs:223`).

*Cron.* A completion is written by the id of the job, with the schedule it was selected with
(`cron/store.rs:1666`): it disables or deletes a one-shot that was given a new time while it ran, and
it overwrites the next run of a job whose schedule was changed. An edit writes every column of the row
it read (`cron/store.rs:638`), so that one read before a one-shot completed enables it again. A job
whose agent has no policy is released as it was (`cron/scheduler.rs:722`): it is due at every poll,
and `max_tasks` such jobs with the earliest times keep all others from being selected. A
second daemon on the same table frees the locks of jobs the first is running
(`cron/scheduler.rs:337`).

*RPC sessions.* `session/new` lists the turns in flight under one lock and evicts under another
(`rpc/session.rs:597`): a session whose turn just began is evicted although "Every evicted session
was idle" (`rpc/dispatch.rs:1586`); that turn cannot be cancelled by its owner any more, as the
session is not found. A prompt that is turned away with `SESSION_BUSY` or whose attachments fail
sends no `TurnComplete`, by which its completion is signalled (`rpc/dispatch.rs:799-803`).
`session/delete` leaves the ACP row, so that a later prompt brings the session back. A session that
builds its agent before a profile is saved, and is inserted after the refresh listed the sessions,
keeps the old provider (`rpc/dispatch.rs:1518`). `insert` refuses to replace a session when the
store is full, though a replacement takes no room (`rpc/session.rs:195`).

## Not modelled

- *Engine*: which step comes next, conditions, failure policies and visit bounds, which are pure
  functions of recorded data: every decision is possible, a superset of the code's. Cooldowns.
  Resuming a run by hand from a checkpoint's state file (`resume_deterministic_run`); only that
  writing the file can fail is there. Reload of SOP definitions while runs are live. The order of
  the actions in the queue of a turn, and what a turn makes of a step (`drive_live_sop_actions`). The event
  ledger beside the
  rows of gates; proposals and procedural memory.
- *Broker*: the text and delivery of prompts, routes and their failures; audit.
- *Deliveries*: cron windows; which SOPs a message matches is a parameter.
- *Background tasks*: goals, heartbeats (no producer sends any) and the limit on background tasks,
  which is not strict in the code either (`tools/delegate.rs:2918`).
- *Cron*: the calendar of cron expressions, an edit of `delete_after_run`, jobs that are added while
  a behaviour runs (they are there from the start), the run history and its pruning, delivery,
  retries within a run, runs started by hand, and SOPs that cron triggers.
- *RPC sessions*: transcripts and their durable writes, several clients, methods that only read,
  methods of other subsystems, crashes of the process.
- Everything listed as `not_modelled` in `PROJECT.json`: adapters of messaging services and model
  providers, storage and retrieval of memories, configuration, user interfaces. Most of the
  repository is of this kind; its state is that of connections and files, and what could go wrong
  in it is not a matter of orders of steps.

## Plan

1. `SopRoute`: routing, failure policies and the visit bound as recursive functions, against a
   reference definition; then the bound on how often a step is visited.
2. `ForgeComment`: the at-most-once external effect and its marker across crashes.
3. Debounce and stall watchdog; Ralph loop; provider failover.
4. Transcripts of RPC sessions with crashes, composed with `RpcSessions`.

Proofs, next to be done: what the rows tell under `DirectSpec`; that deliveries implement an abstract
specification of what the queue promises.
