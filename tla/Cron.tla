------------------------------- MODULE Cron -------------------------------
(* The cron scheduler (cron/scheduler.rs, cron/store.rs): a daemon brings the *)
(* declared jobs into the table, frees the locks of the daemon before it, and *)
(* then selects, claims, runs and completes due jobs, while clients edit and  *)
(* remove them.  Every statement works on the table alone; what is remembered *)
(* between two of them is a snapshot of the row.                              *)
EXTENDS Naturals, FiniteSets

CONSTANTS
  Procs,       \* the daemons of a behaviour; a restart is another one
  Jobs,
  Clients,     \* edits in progress: commands, RPC and HTTP requests, agent tools
  Initial,     \* the rows jobs were added with, or NoJob
  Declared,    \* the declaration of each job that may have one
  Configs,     \* the configurations a daemon may start with
  Schedules,   \* the schedules an edit may give
  MaxTasks, MaxConcurrent,
  MaxUp,       \* daemons that run at once
  MaxTime, MaxTrouble, MaxEdits  \* bounds: time, failed calls, edits

NoJob == [sched |-> "none"]

Schedule == [kind : {"at", "every"}, time : Nat]
Row == [sched : Schedule, enabled : BOOLEAN, declared : BOOLEAN, locked : BOOLEAN,
        once : BOOLEAN, next : Nat]
Config == [decls : SUBSET DOMAIN Declared, orphans : SUBSET Jobs,
           unpoliced : SUBSET Jobs, catchUp : BOOLEAN]

ASSUME CronAssumption ==
  /\ IsFiniteSet(Procs)
  /\ MaxTasks \in Nat \ {0} /\ MaxConcurrent \in Nat \ {0}
  /\ MaxUp \in Nat /\ MaxTime \in Nat /\ MaxTrouble \in Nat /\ MaxEdits \in Nat
  /\ Initial \in [Jobs -> Row \cup {NoJob}] /\ Schedules \subseteq Schedule
  /\ DOMAIN Declared \subseteq Jobs
  /\ \A j \in DOMAIN Declared : Declared[j] \in [sched : Schedule, enabled : BOOLEAN]
  /\ Configs \subseteq Config

VARIABLES
  now,
  job,      \* the rows of cron_jobs
  life,     \* of each daemon: "off", "up" or "gone"
  stage,    \* where its scheduler is
  config,   \* what it was started with
  work,     \* of each daemon and job: how far its run is, and the row it selected
  edit,     \* of each client: the job, the row it read and the one it will write
  bounds,   \* failed calls and edits so far
  spent,    \* history: one-shots that ran, with nothing since that asks for a run
  revived,  \* history: rows enabled by what did not mean to run them again
  stuck     \* history: locks that could not be freed

tableVars == <<now, job>>
procVars  == <<life, stage, config>>
history   == <<spent, revived, stuck>>
vars == <<tableVars, procVars, work, edit, bounds, history>>

Idle   == [at |-> "idle"]
NoEdit == [job |-> "none"]
Unconfigured == [decls |-> {}, orphans |-> {}, unpoliced |-> {}, catchUp |-> FALSE]

Exists(j) == job[j] # NoJob
OneShot(row) == row.sched.kind = "at"
Trouble == bounds.trouble < MaxTrouble /\ bounds' = [bounds EXCEPT !.trouble = @ + 1]

Init ==
  /\ now = 0
  /\ job = Initial
  /\ life = [p \in Procs |-> "off"]
  /\ stage = [p \in Procs |-> "off"]
  /\ config = [p \in Procs |-> Unconfigured]
  /\ work = [p \in Procs |-> [j \in Jobs |-> Idle]]
  /\ edit = [c \in Clients |-> NoEdit]
  /\ bounds = [trouble |-> 0, edits |-> 0]
  /\ spent = {} /\ revived = {} /\ stuck = {}

Tick ==
  /\ now < MaxTime
  /\ now' = now + 1
  /\ UNCHANGED <<job, procVars, work, edit, bounds, history>>

\* next_run_for_schedule.  A cron expression is an interval here.
NextRun(s, from) == IF s.kind = "at" THEN s.time ELSE from + s.time

\* An UPDATE changes nothing when the row is gone.
Update(j, row) == job' = IF Exists(j) THEN [job EXCEPT ![j] = row] ELSE job

-----------------------------------------------------------------------------
(* A daemon starts.                                                           *)

Boot(p) ==
  /\ life[p] = "off" /\ Cardinality({q \in Procs : life[q] = "up"}) < MaxUp
  /\ life' = [life EXCEPT ![p] = "up"]
  /\ stage' = [stage EXCEPT ![p] = "sync"]
  /\ \E c \in Configs : config' = [config EXCEPT ![p] = c]
  /\ UNCHANGED <<tableVars, work, edit, bounds, history>>

\* Shutdown and reload abort the futures after the grace window, wherever they
\* are, like a crash.  A run that was cut short may run again.
Stop(p) ==
  /\ life[p] = "up"
  /\ life' = [life EXCEPT ![p] = "gone"]
  /\ stage' = [stage EXCEPT ![p] = "off"]
  /\ config' = [config EXCEPT ![p] = Unconfigured]
  /\ work' = [work EXCEPT ![p] = [j \in Jobs |-> Idle]]
  /\ spent' = spent \ {j \in Jobs : work[p][j].at \in {"run", "persist", "fallback"}}
  /\ UNCHANGED <<tableVars, edit, bounds, revived, stuck>>

\* A declared row as the configuration has it; next_run only follows a schedule
\* that changed.
Redeclared(row, d) ==
  [row EXCEPT !.sched = d.sched, !.enabled = d.enabled, !.declared = TRUE,
     !.once = d.sched.kind = "at",
     !.next = IF row.sched # d.sched THEN NextRun(d.sched, now) ELSE @]

Inserted(d) ==
  [sched |-> d.sched, enabled |-> d.enabled, declared |-> TRUE, locked |-> FALSE,
   once |-> d.sched.kind = "at", next |-> NextRun(d.sched, now)]

Synced(p, j) ==
  CASE j \in config[p].decls /\ Exists(j) -> Redeclared(job[j], Declared[j])
    [] j \in config[p].decls /\ ~Exists(j) ->
         IF j \in config[p].orphans THEN NoJob ELSE Inserted(Declared[j])
    [] j \notin config[p].decls ->
         IF Exists(j) /\ job[j].declared THEN NoJob ELSE job[j]

Enables(j, row) == row # NoJob /\ row.enabled /\ (~Exists(j) \/ ~job[j].enabled)

\* sync_declarative_jobs; no transaction holds its statements together, so when
\* one fails what came before it stays, deletions first.
Sync(p) ==
  /\ stage[p] = "sync"
  /\ \E part \in SUBSET Jobs :
       /\ \/ part = Jobs /\ UNCHANGED bounds
          \/ Trouble
       /\ part \cap config[p].decls = {} \/ Jobs \ config[p].decls \subseteq part
       /\ job' = [j \in Jobs |-> IF j \in part THEN Synced(p, j) ELSE job[j]]
       /\ revived' = revived \cup {j \in part : Enables(j, Synced(p, j))}
  /\ stage' = [stage EXCEPT ![p] = "clear"]
  /\ UNCHANGED <<now, life, config, work, edit, spent, stuck>>

Locked == {j \in Jobs : Exists(j) /\ job[j].locked}

\* clear_stale_locks, and what the configuration says of the jobs missed.
ClearLocks(p) ==
  /\ stage[p] = "clear"
  /\ \/ /\ job' = [j \in Jobs |-> IF j \in Locked THEN [job[j] EXCEPT !.locked = FALSE] ELSE job[j]]
        /\ stuck' = {}
        /\ UNCHANGED bounds
     \/ Trouble /\ stuck' = Locked /\ UNCHANGED job
  /\ stage' = [stage EXCEPT ![p] = IF config[p].catchUp THEN "catch up" ELSE "skip"]
  /\ UNCHANGED <<now, life, config, work, edit, spent, revived>>

-----------------------------------------------------------------------------
(* Due jobs are selected and claimed.                                         *)

\* all_overdue_jobs; a declared job that is no longer declared is passed over.
Overdue(p) ==
  {j \in Jobs : /\ Exists(j) /\ job[j].enabled /\ job[j].next <= now /\ ~job[j].locked
                /\ job[j].declared => j \in config[p].decls}

\* Broken on purpose: a recurring job is passed over, and stays due.
SkippedInPlace(snap, row) ==
  IF OneShot(snap) THEN [row EXCEPT !.enabled = FALSE] ELSE row

\* skip_missed_run.
Skipped(snap, row) ==
  IF OneShot(snap) THEN [row EXCEPT !.enabled = FALSE]
                   ELSE [row EXCEPT !.next = NextRun(snap.sched, now)]

\* skip_missed_jobs_on_startup, whose reads and writes are taken as one.
SkipMissed(p) ==
  /\ stage[p] = "skip"
  /\ \E failed \in SUBSET Overdue(p) :
       /\ IF failed = {} THEN UNCHANGED bounds ELSE Trouble
       /\ job' = [j \in Jobs |-> IF j \in Overdue(p) \ failed THEN Skipped(job[j], job[j])
                                                             ELSE job[j]]
  /\ stage' = [stage EXCEPT ![p] = "poll"]
  /\ UNCHANGED <<now, life, config, work, edit, history>>

Choose(p, chosen) ==
  work' = [work EXCEPT ![p] = [j \in Jobs |->
             IF j \in chosen THEN [at |-> "chosen", row |-> job[j]] ELSE Idle]]

\* catch_up_overdue_jobs.
CatchUp(p) ==
  /\ stage[p] = "catch up"
  /\ \/ Choose(p, Overdue(p)) /\ UNCHANGED bounds
     \/ Trouble /\ UNCHANGED work
  /\ stage' = [stage EXCEPT ![p] = "poll"]
  /\ UNCHANGED <<tableVars, life, config, edit, history>>

\* due_jobs: the first MaxTasks in the order of next_run.
FirstDue(p) ==
  {s \in SUBSET Overdue(p) :
     /\ Cardinality(s) <= MaxTasks
     /\ s # Overdue(p) => Cardinality(s) = MaxTasks
     /\ \A j \in s, k \in Overdue(p) \ s : job[j].next <= job[k].next}

\* The loop selects again once every run of the last selection has ended.
Poll(p) ==
  /\ stage[p] = "poll" /\ \A j \in Jobs : work[p][j] = Idle
  /\ Overdue(p) # {}
  /\ \E chosen \in FirstDue(p) : Choose(p, chosen)
  /\ UNCHANGED <<tableVars, procVars, edit, bounds, history>>

Step(p, j, to) == work' = [work EXCEPT ![p][j].at = to]
Done(p, j)     == work' = [work EXCEPT ![p][j] = Idle]

\* claim_due_jobs, claim_job: the row may be gone or claimed by another daemon.
Claim(p, j) ==
  /\ work[p][j].at = "chosen"
  /\ \/ /\ Exists(j) /\ ~job[j].locked
        /\ job' = [job EXCEPT ![j].locked = TRUE]
        /\ Step(p, j, "queued") /\ UNCHANGED bounds
     \/ /\ Exists(j) => job[j].locked
        /\ Done(p, j) /\ UNCHANGED <<job, bounds>>
     \/ Trouble /\ Done(p, j) /\ UNCHANGED job
  /\ UNCHANGED <<now, procVars, edit, history>>

-----------------------------------------------------------------------------
(* A claimed job runs.                                                        *)

InFlight(p) == {j \in Jobs : work[p][j].at \in {"run", "persist", "fallback", "release"}}

\* process_due_jobs waits for every claim of its batch, and then takes the next
\* job whenever the pool has room.
Ready(p, j) ==
  /\ work[p][j].at = "queued" /\ \A k \in Jobs : work[p][k].at # "chosen"
  /\ Cardinality(InFlight(p)) < MaxConcurrent

Unlocked(row) == [row EXCEPT !.locked = FALSE]

\* release_job, or a lock that stays until the next start.
ReleaseAs(j, row) ==
  \/ Update(j, Unlocked(row)) /\ UNCHANGED <<bounds, stuck>>
  \/ Exists(j) /\ Trouble /\ Update(j, row) /\ stuck' = stuck \cup {j}

\* process_due_jobs, of a job that no agent owns: the job is passed over, unless
\* that write fails, and its lock freed, unless that fails too.
PassOver(p, j) ==
  /\ Ready(p, j) /\ j \in config[p].orphans
  /\ \/ ReleaseAs(j, IF Exists(j) THEN Skipped(work[p][j].row, job[j]) ELSE NoJob)
     \/ /\ Exists(j) /\ Trouble
        /\ \/ Update(j, Unlocked(job[j])) /\ UNCHANGED stuck
           \/ UNCHANGED job /\ stuck' = stuck \cup {j}
  /\ Done(p, j)
  /\ UNCHANGED <<now, procVars, edit, spent, revived>>

\* process_due_jobs, when the agent's policy cannot be built.
GiveUp(p, j) ==
  /\ Ready(p, j) /\ j \in config[p].unpoliced \ config[p].orphans
  /\ ReleaseAs(j, job[j])
  /\ Done(p, j)
  /\ UNCHANGED <<now, procVars, edit, spent, revived>>

Launch(p, j) ==
  /\ Ready(p, j) /\ j \notin config[p].orphans \cup config[p].unpoliced
  /\ Step(p, j, "run")
  /\ spent' = IF OneShot(work[p][j].row) THEN spent \cup {j} ELSE spent \ {j}
  /\ revived' = revived \ {j}
  /\ UNCHANGED <<tableVars, procVars, edit, bounds, stuck>>

\* Broken on purpose: a one-shot that failed is scheduled like any other.
CompletionOfAny(row, ok) ==
  IF OneShot(row) /\ row.once /\ ok THEN "delete" ELSE "reschedule"

\* Its outcome (execute_job_with_retry, deliver_and_classify_run_result) and what
\* becomes of the row (persist_job_result), both as the selected row has it.
Completion(row, ok) ==
  CASE OneShot(row) /\ row.once /\ ok -> "delete"
    [] OneShot(row) /\ ~(row.once /\ ok) -> "disable"
    [] ~OneShot(row) -> "reschedule"

\* execute_and_persist_job, to the end of the run itself.
End(p, j) ==
  /\ work[p][j].at = "run"
  /\ \E ok \in BOOLEAN :
       work' = [work EXCEPT ![p][j] =
                  [at |-> "persist", row |-> @.row, as |-> Completion(@.row, ok)]]
  /\ UNCHANGED <<tableVars, procVars, edit, bounds, history>>

\* apply_run_completion_state.
Completed(j, snap, as) ==
  CASE as = "delete"     -> NoJob
    [] as = "disable"    -> [job[j] EXCEPT !.enabled = FALSE]
    [] as = "reschedule" -> [job[j] EXCEPT !.next = NextRun(snap.sched, now)]

\* persist_run_result: history and row in one transaction, which also fails when
\* the row is gone.
Persist(p, j) ==
  LET w == work[p][j]
  IN /\ w.at = "persist"
     /\ \/ /\ Exists(j)
           /\ job' = [job EXCEPT ![j] = Completed(j, w.row, w.as)]
           /\ Step(p, j, "release") /\ UNCHANGED bounds
        \/ ~Exists(j) /\ Step(p, j, "fallback") /\ UNCHANGED <<job, bounds>>
        \/ Exists(j) /\ Trouble /\ Step(p, j, "fallback") /\ UNCHANGED job
     /\ UNCHANGED <<now, procVars, edit, history>>

Instead(as) == IF as = "delete" THEN "disable" ELSE as

\* persist_run_completion_state, without the history; it may fail as the
\* transaction before it did.
Fallback(p, j) ==
  LET w == work[p][j]
  IN /\ w.at = "fallback"
     /\ \/ /\ Exists(j)
           /\ job' = [job EXCEPT ![j] = Completed(j, w.row, Instead(w.as))]
           /\ UNCHANGED spent
        \/ ~Exists(j) /\ UNCHANGED <<job, spent>>
        \/ Exists(j) /\ spent' = spent \ {j} /\ UNCHANGED job
     /\ Step(p, j, "release")
     /\ UNCHANGED <<now, procVars, edit, bounds, revived, stuck>>

\* execute_and_persist_job, at its end.
Release(p, j) ==
  /\ work[p][j].at = "release"
  /\ ReleaseAs(j, job[j])
  /\ Done(p, j)
  /\ UNCHANGED <<now, procVars, edit, spent, revived>>

-----------------------------------------------------------------------------
(* Clients.                                                                   *)

MayEdit == bounds.edits < MaxEdits /\ bounds' = [bounds EXCEPT !.edits = @ + 1]

\* What a patch makes of the row that was read: another name or command, pause,
\* resume, or another schedule, which for a one-shot must lie ahead.
Patched(row) ==
  {[row |-> row, asked |-> FALSE],
   [row |-> [row EXCEPT !.enabled = FALSE], asked |-> FALSE],
   [row |-> [row EXCEPT !.enabled = TRUE], asked |-> TRUE]}
  \cup {[row |-> [row EXCEPT !.sched = s, !.next = NextRun(s, now)], asked |-> TRUE] :
          s \in {t \in Schedules : t.kind = "at" => t.time > now}}

\* update_job_inner, as far as its read of the row.
ReadRow(c, j) ==
  /\ edit[c] = NoEdit /\ Exists(j) /\ MayEdit
  /\ \E patch \in Patched(job[j]) :
       edit' = [edit EXCEPT ![c] = [job |-> j, row |-> patch.row, asked |-> patch.asked]]
  /\ UNCHANGED <<tableVars, procVars, work, history>>

\* Broken on purpose: the whole row that was read is written.
OverwrittenWhole(j, row) == row

\* The columns an edit writes: all but the lock and the source.
Overwritten(j, row) == [row EXCEPT !.locked = job[j].locked, !.declared = job[j].declared]

\* update_job_inner, its UPDATE: every column, changed or not.
WriteRow(c) ==
  /\ edit[c] # NoEdit
  /\ edit' = [edit EXCEPT ![c] = NoEdit]
  /\ LET j == edit[c].job
     IN IF ~Exists(j) THEN UNCHANGED <<job, spent, revived>>
        ELSE LET row == Overwritten(j, edit[c].row)
             IN /\ job' = [job EXCEPT ![j] = row]
                /\ spent' = IF edit[c].asked THEN spent \ {j} ELSE spent
                /\ revived' = IF ~edit[c].asked /\ Enables(j, row) THEN revived \cup {j} ELSE revived
  /\ UNCHANGED <<now, procVars, work, bounds, stuck>>

\* remove_job.
Remove(j) ==
  /\ Exists(j) /\ MayEdit
  /\ job' = [job EXCEPT ![j] = NoJob]
  /\ UNCHANGED <<now, procVars, work, edit, history>>

-----------------------------------------------------------------------------
Start(p)     == Sync(p) \/ ClearLocks(p) \/ SkipMissed(p) \/ CatchUp(p)
RunStep(p, j) == \/ Claim(p, j) \/ PassOver(p, j) \/ GiveUp(p, j) \/ Launch(p, j)
                 \/ End(p, j) \/ Persist(p, j) \/ Fallback(p, j) \/ Release(p, j)

Next ==
  \/ Tick
  \/ \E p \in Procs : \/ Boot(p) \/ Stop(p) \/ Start(p) \/ Poll(p)
                      \/ \E j \in Jobs : RunStep(p, j)
  \/ \E j \in Jobs : Remove(j) \/ \E c \in Clients : ReadRow(c, j)
  \/ \E c \in Clients : WriteRow(c)

Spec == Init /\ [][Next]_vars

\* A daemon that is up goes on; a run ends by its deadline (AGENT_JOB_TIMEOUT_SECS,
\* SHELL_JOB_TIMEOUT_SECS), and the pool of MaxConcurrent takes the next.
Fairness ==
  \A p \in Procs : /\ WF_vars(Start(p)) /\ WF_vars(Poll(p))
                   /\ \A j \in Jobs : WF_vars(RunStep(p, j))

FairSpec == Spec /\ Fairness

-----------------------------------------------------------------------------
(* Properties.                                                                *)

Work ==
  {Idle} \cup [at : {"chosen", "queued", "run"}, row : Row]
         \cup [at : {"persist", "fallback", "release"}, row : Row,
               as : {"delete", "disable", "reschedule"}]

\* Rows, runs and edits have the shape that the statements of the store give them.
TypeOK ==
  /\ now \in Nat
  /\ job \in [Jobs -> Row \cup {NoJob}]
  /\ life \in [Procs -> {"off", "up", "gone"}]
  /\ stage \in [Procs -> {"off", "sync", "clear", "catch up", "skip", "poll"}]
  /\ config \in [Procs -> Config]
  /\ work \in [Procs -> [Jobs -> Work]]
  /\ edit \in [Clients -> {NoEdit} \cup [job : Jobs, row : Row, asked : BOOLEAN]]

Claimed == {"queued", "run", "persist", "fallback", "release"}

\* A row is locked while a run of it is under way, whatever edits are written
\* meanwhile from older rows, and by nothing else once a daemon has freed the
\* locks of the one before: no job runs twice at once or is locked out for ever.
LockMatchesRun ==
  \A j \in Jobs :
    /\ (\E p \in Procs : work[p][j].at \in Claimed) => ~Exists(j) \/ job[j].locked
    /\ j \in Locked => \/ \E p \in Procs : work[p][j].at \in Claimed
                       \/ j \in stuck
                       \/ \A p \in Procs : life[p] = "up" => stage[p] \in {"sync", "clear"}

Launches(p, j) == work[p][j].at = "queued" /\ work'[p][j].at = "run"

\* A one-shot is launched once, across failed writes of its completion, failed
\* releases, restarts and edits, unless its run was cut short, its completion was
\* lost, somebody asked for another run, or its row was enabled anew by a daemon's
\* declarations or an edit that was read before the run completed.
OneShotLaunchesOnce ==
  [][\A p \in Procs, j \in Jobs :
       Launches(p, j) /\ OneShot(work[p][j].row) /\ j \in spent => j \in revived]_vars

\* The same of the declarations too: "One-shot at an RFC 3339 timestamp."
OneShotRunsOnce ==
  [][\A p \in Procs, j \in spent : ~(Launches(p, j) /\ OneShot(work[p][j].row))]_vars

Due(j) == Exists(j) /\ job[j].enabled /\ job[j].next <= now

\* Under a daemon that stays up, no job stays due for ever: it runs, or is passed
\* over for want of an agent, however claims, writes and selections failed before.
\* Not so a job whose lock could not be freed, whose agent has no policy, or which
\* could not be removed with its declaration.
DueJobsSettle ==
  \A p \in Procs :
    <>[](life[p] = "up") =>
      \A j \in Jobs :
        []<>(Due(j) => \/ j \in stuck \/ j \in config[p].unpoliced
                       \/ job[j].declared /\ j \notin config[p].decls)
=============================================================================
