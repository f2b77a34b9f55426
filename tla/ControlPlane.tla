---------------------------- MODULE ControlPlane ----------------------------
(* The background task control plane (control_plane/): task rows and          *)
(* settlement intents in one SQLite database that several processes share,    *)
(* the bodies of delegate and subagent tasks (tools/delegate.rs,              *)
(* tools/spawn_subagent.rs) that end their own rows, and the sweeps           *)
(* (control_plane/reaper.rs) by which a process ends the rows of owners that  *)
(* are gone.  A process never comes back: a restart is another process, maybe *)
(* with the pid of an earlier one.                                            *)
EXTENDS Naturals, FiniteSets

CONSTANTS
  Procs,          \* the processes of a behaviour
  Identity,       \* what the system shows of each: pid and start second
  Tasks, Kind,    \* the tasks and what they are: "delegate" or "subagent"
  MaxTrouble,     \* bound: failed calls, and rows another process takes over
  TurnsMayDrop    \* a cancelled turn drops the subagent it waits for

ASSUME ControlPlaneAssumption ==
  /\ \A t \in Tasks : Kind[t] \in {"delegate", "subagent"}
  /\ MaxTrouble \in Nat
  /\ TurnsMayDrop \in BOOLEAN

VARIABLES
  life,      \* of each process: "off", "up" or "gone"
  task,      \* the task rows: status, owner and the terminal output
  intent,    \* the rows of terminal_settlement_intents
  artifact,  \* the output file of each delegate
  body,      \* the body of each task: where it is, its process, its outcome
  sweep,     \* the sweep of each process
  trouble

vars == <<life, task, intent, artifact, body, sweep, trouble>>

None == "none"
Terminal == {"completed", "failed", "cancelled", "lost"}
NoRow    == [status |-> None, owner |-> None, output |-> None]
NoIntent == [owner |-> None, desired |-> None]
NoBody   == [at |-> None, host |-> None, outcome |-> None]
Nothing  == [task |-> None, intent |-> NoIntent]
NoSweep  == [at |-> "tasks", intents |-> {}, tasks |-> {}, held |-> Nothing, row |-> NoRow]

Active(t) == task[t].status = "running"
Delegate(t) == Kind[t] = "delegate"
Body(t, at, p) == body[t].at = at /\ body[t].host = p /\ life[p] = "up"

Init ==
  /\ life = [p \in Procs |-> "off"]
  /\ task = [t \in Tasks |-> NoRow]
  /\ intent = [t \in Tasks |-> NoIntent]
  /\ artifact = [t \in Tasks |-> None]
  /\ body = [t \in Tasks |-> NoBody]
  /\ sweep = [p \in Procs |-> NoSweep]
  /\ trouble = 0

Trouble == trouble < MaxTrouble /\ trouble' = trouble + 1

\* is_authoritative: no process has the owner's pid, or one that started in
\* another second.  The nonce of the identity cannot be observed.
AbsentOrReused(o) ==
  \A q \in Procs : life[q] = "up" => Identity[q] # Identity[o]

\* A terminal row never changes, and ends its intent in the same transaction.
EndRow(t, status, output) ==
  /\ task' = [task EXCEPT ![t].status = status, ![t].output = output]
  /\ intent' = [intent EXCEPT ![t] = NoIntent]

\* promote_settlement_record: the row ends only for its owner and while the
\* very same intent is there; that intent is deleted either way.
PromoteSettlement(t, i, status) ==
  /\ task' = IF Active(t) /\ task[t].owner = i.owner /\ intent[t] = i
             THEN [task EXCEPT ![t].status = status,
                     ![t].output = IF status = "completed" THEN "artifact" ELSE None]
             ELSE task
  /\ intent' = IF intent[t] = i THEN [intent EXCEPT ![t] = NoIntent] ELSE intent

-----------------------------------------------------------------------------
(* The body of a delegate.                                                    *)

Ended(b) == [b EXCEPT !.at = "done", !.outcome = None]

\* execute_background: an empty output file, then the row; a body runs only
\* with a row.
Register(p, t) ==
  /\ life[p] = "up" /\ Delegate(t) /\ body[t].at = None
  /\ \/ /\ artifact' = [artifact EXCEPT ![t] = "blank"]
        /\ task' = [task EXCEPT ![t] = [status |-> "running", owner |-> p, output |-> None]]
        /\ body' = [body EXCEPT ![t] = [at |-> "run", host |-> p, outcome |-> None]]
        /\ UNCHANGED trouble
     \/ /\ Trouble
        /\ body' = [body EXCEPT ![t] = [at |-> "done", host |-> p, outcome |-> None]]
        /\ UNCHANGED <<artifact, task>>
  /\ UNCHANGED <<life, intent, sweep>>

\* The delegation ends or is cancelled.
Conclude(p, t) ==
  /\ Body(t, "run", p) /\ Delegate(t)
  /\ \E outcome \in {"completed", "failed", "cancelled"} :
       body' = [body EXCEPT ![t].at = "intend", ![t].outcome = outcome]
  /\ UNCHANGED <<life, task, intent, artifact, sweep, trouble>>

OwnIntent(t) == [owner |-> body[t].host, desired |-> body[t].outcome]

\* settle_background_task: first the intent, for a row still its own; a failing
\* write is retried for as long as the process lives.
PersistIntent(p, t) ==
  /\ Body(t, "intend", p)
  /\ \/ /\ Active(t) /\ task[t].owner = p
        /\ intent' = [intent EXCEPT ![t] = OwnIntent(t)]
        /\ body' = [body EXCEPT ![t].at = "write"]
     \/ /\ ~(Active(t) /\ task[t].owner = p)
        /\ body' = [body EXCEPT ![t] = Ended(@)] /\ UNCHANGED intent
  /\ UNCHANGED <<life, task, artifact, sweep, trouble>>

Content(outcome) == IF outcome = "completed" THEN "result" ELSE "blank"

\* ... then the output file, written whole or not at all, though a write that
\* fails at its last step has replaced the file ...
WriteArtifact(p, t) ==
  /\ Body(t, "write", p)
  /\ \/ /\ artifact' = [artifact EXCEPT ![t] = Content(body[t].outcome)]
        /\ body' = [body EXCEPT ![t].at = "promote"]
        /\ UNCHANGED trouble
     \/ /\ Trouble
        /\ artifact' \in {artifact, [artifact EXCEPT ![t] = Content(body[t].outcome)]}
        /\ body' = [body EXCEPT ![t].at = "give up"]
  /\ UNCHANGED <<life, task, intent, sweep>>

\* ... then the row.
Promote(p, t) ==
  /\ \/ Body(t, "promote", p) /\ PromoteSettlement(t, OwnIntent(t), body[t].outcome)
     \/ Body(t, "give up", p) /\ PromoteSettlement(t, OwnIntent(t), "failed")
  /\ body' = [body EXCEPT ![t] = Ended(@)]
  /\ UNCHANGED <<life, artifact, sweep, trouble>>

\* handle_cancel_task, in any process of the same agent.  A body of that process
\* is told to stop, which it may at any time.
Cancel(p, t) ==
  /\ life[p] = "up" /\ Delegate(t) /\ Active(t)
  /\ EndRow(t, "cancelled", None)
  /\ UNCHANGED <<life, artifact, body, sweep, trouble>>

-----------------------------------------------------------------------------
(* The body of a subagent.                                                    *)

\* A row that cannot be created, or ended, is given up.
Spawn(p, t) ==
  /\ life[p] = "up" /\ ~Delegate(t) /\ body[t].at = None
  /\ body' = [body EXCEPT ![t] = [at |-> "run", host |-> p, outcome |-> None]]
  /\ \/ task' = [task EXCEPT ![t] = [status |-> "running", owner |-> p, output |-> None]]
        /\ UNCHANGED trouble
     \/ Trouble /\ UNCHANGED task
  /\ UNCHANGED <<life, intent, artifact, sweep>>

\* update_status: whoever owns the row.
Return(p, t) ==
  /\ Body(t, "run", p) /\ ~Delegate(t)
  /\ body' = [body EXCEPT ![t] = Ended(@)]
  /\ \/ /\ Active(t)
        /\ EndRow(t, "completed", "inline") \/ EndRow(t, "failed", None)
        /\ UNCHANGED trouble
     \/ ~Active(t) /\ UNCHANGED <<task, intent, trouble>>
     \/ Trouble /\ UNCHANGED <<task, intent>>
  /\ UNCHANGED <<life, artifact, sweep>>

\* The turn that waits for the subagent is cancelled and its future dropped.
DropTurn(p, t) ==
  /\ TurnsMayDrop /\ Body(t, "run", p) /\ ~Delegate(t)
  /\ body' = [body EXCEPT ![t].at = "dropped"]
  /\ UNCHANGED <<life, task, intent, artifact, sweep, trouble>>

-----------------------------------------------------------------------------
(* Processes, and the rows they take from one another.                        *)

Boot(p) ==
  /\ life[p] = "off"
  /\ \A q \in Procs : life[q] = "up" => Identity[q].pid # Identity[p].pid
  /\ life' = [life EXCEPT ![p] = "up"]
  /\ UNCHANGED <<task, intent, artifact, body, sweep, trouble>>

Crash(p) ==
  /\ life[p] = "up"
  /\ life' = [life EXCEPT ![p] = "gone"]
  /\ body' = [t \in Tasks |-> IF body[t].host = p THEN Ended(body[t]) ELSE body[t]]
  /\ sweep' = [sweep EXCEPT ![p] = NoSweep]
  /\ UNCHANGED <<task, intent, artifact, trouble>>

\* Broken on purpose: the intent of the owner before stays.
ClaimRowOnly(p, t) ==
  /\ Trouble
  /\ life[p] = "up" /\ Active(t) /\ task[t].owner # p
  /\ task' = [task EXCEPT ![t].owner = p]
  /\ UNCHANGED <<life, intent, artifact, body, sweep>>

\* claim_owner.
ClaimOwner(p, t) ==
  /\ Trouble
  /\ life[p] = "up" /\ Active(t) /\ task[t].owner # p
  /\ task' = [task EXCEPT ![t].owner = p]
  /\ intent' = [intent EXCEPT ![t] = IF @.owner = p THEN @ ELSE NoIntent]
  /\ UNCHANGED <<life, artifact, body, sweep>>

-----------------------------------------------------------------------------
(* The sweep, at boot (recovery_pass) and every minute: intents, then rows.   *)

At(p, at) == life[p] = "up" /\ sweep[p].at = at

\* recover_terminal_settlements works on the list it read first.
BeginSweep(p) ==
  /\ At(p, "tasks") /\ sweep[p].tasks = {}
  /\ sweep' = [sweep EXCEPT ![p].at = "intents",
                 ![p].intents = {[task |-> t, intent |-> intent[t]] :
                                   t \in {t \in Tasks : intent[t] # NoIntent}}]
  /\ UNCHANGED <<life, task, intent, artifact, body, trouble>>

\* Broken on purpose: the intent of an owner that lives is tried again at once.
KeepTrying(p, i) == sweep

Drop(p, i) == [sweep EXCEPT ![p].intents = @ \ {i}]

\* Broken on purpose: the file is taken to be there.
Unread(t, i) == TRUE

\* artifact_validation_error: the file the intent promised is there.
Valid(t, i) == artifact[t] = Content(i.desired)

\* Only the intent of an owner that is gone: it is discarded when the row ended
\* or has another owner, and otherwise settles the row.
ConsiderIntent(p, e) ==
  /\ At(p, "intents") /\ e \in sweep[p].intents
  /\ LET i == e.intent  t == e.task IN
     \/ /\ ~AbsentOrReused(i.owner)
        /\ sweep' = Drop(p, e) /\ UNCHANGED intent
     \/ /\ AbsentOrReused(i.owner) /\ ~(Active(t) /\ task[t].owner = i.owner)
        /\ sweep' = Drop(p, e)
        /\ intent' = IF intent[t] = i THEN [intent EXCEPT ![t] = NoIntent] ELSE intent
     \/ /\ AbsentOrReused(i.owner) /\ Active(t) /\ task[t].owner = i.owner
        /\ sweep' = [Drop(p, e) EXCEPT ![p].at = "promote", ![p].held = e,
                       ![p].row = [task[t] EXCEPT !.status = IF Valid(t, i) THEN i.desired ELSE "failed"]]
        /\ UNCHANGED intent
  /\ UNCHANGED <<life, task, artifact, body, trouble>>

PromoteRecovered(p) ==
  /\ At(p, "promote")
  /\ PromoteSettlement(sweep[p].held.task, sweep[p].held.intent, sweep[p].row.status)
  /\ sweep' = [sweep EXCEPT ![p].at = "intents", ![p].held = Nothing, ![p].row = NoRow]
  /\ UNCHANGED <<life, artifact, body, trouble>>

\* The running rows of other processes.
ListRunning(p) ==
  /\ At(p, "intents") /\ sweep[p].intents = {}
  /\ sweep' = [sweep EXCEPT ![p].at = "tasks",
                 ![p].tasks = {t \in Tasks : Active(t) /\ task[t].owner # p}]
  /\ UNCHANGED <<life, task, intent, artifact, body, trouble>>

\* Broken on purpose: the owner of a row that is not this process's is gone.
ReadForeignRow(p, t) ==
  /\ At(p, "tasks") /\ t \in sweep[p].tasks
  /\ sweep' = IF Active(t)
              THEN [sweep EXCEPT ![p].at = "mark", ![p].tasks = @ \ {t},
                                 ![p].held = [Nothing EXCEPT !.task = t], ![p].row = task[t]]
              ELSE [sweep EXCEPT ![p].tasks = @ \ {t}]
  /\ UNCHANGED <<life, task, intent, artifact, body, trouble>>

\* reconcile_lost reads the row and asks for its owner ...
ReadRow(p, t) ==
  /\ At(p, "tasks") /\ t \in sweep[p].tasks
  /\ sweep' = IF Active(t) /\ AbsentOrReused(task[t].owner)
              THEN [sweep EXCEPT ![p].at = "mark", ![p].tasks = @ \ {t},
                                 ![p].held = [Nothing EXCEPT !.task = t], ![p].row = task[t]]
              ELSE [sweep EXCEPT ![p].tasks = @ \ {t}]
  /\ UNCHANGED <<life, task, intent, artifact, body, trouble>>

\* Broken on purpose: the row is ended as it was read.
MarkAnyway(p) ==
  /\ At(p, "mark")
  /\ EndRow(sweep[p].held.task, "lost", None)
  /\ sweep' = [sweep EXCEPT ![p].at = "tasks", ![p].held = Nothing, ![p].row = NoRow]
  /\ UNCHANGED <<life, artifact, body, trouble>>

\* ... and ends it if it is still that owner's.
MarkLost(p) ==
  /\ At(p, "mark")
  /\ LET t == sweep[p].held.task IN
     IF Active(t) /\ task[t].owner = sweep[p].row.owner THEN EndRow(t, "lost", None)
     ELSE UNCHANGED <<task, intent>>
  /\ sweep' = [sweep EXCEPT ![p].at = "tasks", ![p].held = Nothing, ![p].row = NoRow]
  /\ UNCHANGED <<life, artifact, body, trouble>>

\* Any failing call ends the sweep.
SweepFails(p) ==
  /\ life[p] = "up" /\ sweep[p] # NoSweep
  /\ Trouble
  /\ sweep' = [sweep EXCEPT ![p] = NoSweep]
  /\ UNCHANGED <<life, task, intent, artifact, body>>

SweepStep(p) ==
  \/ BeginSweep(p)
  \/ \E e \in sweep[p].intents : ConsiderIntent(p, e)
  \/ PromoteRecovered(p)
  \/ ListRunning(p)
  \/ \E t \in Tasks : ReadRow(p, t)
  \/ MarkLost(p)

SettleStep(p, t) == PersistIntent(p, t) \/ WriteArtifact(p, t) \/ Promote(p, t)

Next ==
  \E p \in Procs :
    \/ Boot(p) \/ Crash(p) \/ SweepStep(p) \/ SweepFails(p)
    \/ \E t \in Tasks :
         \/ Register(p, t) \/ Conclude(p, t) \/ SettleStep(p, t)
         \/ Cancel(p, t) \/ ClaimOwner(p, t)
         \/ Spawn(p, t) \/ Return(p, t) \/ DropTurn(p, t)

Spec == Init /\ [][Next]_vars

\* A body that has its outcome goes on to the end, and a process sweeps, each
\* for as long as the process lives.  Nothing says that a delegation ends.
Fairness ==
  \A p \in Procs : WF_vars(SweepStep(p)) /\ \A t \in Tasks : WF_vars(SettleStep(p, t))

FairSpec == Spec /\ Fairness

-----------------------------------------------------------------------------
(* Properties.                                                                *)

Row == [status : Terminal \cup {None, "running"}, owner : Procs \cup {None},
        output : {None, "artifact", "inline"}]

Intent == [owner : Procs \cup {None}, desired : {None, "completed", "failed", "cancelled"}]

BodyState ==
  [at : {None, "run", "intend", "write", "promote", "give up", "done", "dropped"},
   host : Procs \cup {None}, outcome : {None, "completed", "failed", "cancelled"}]

SweepState ==
  [at : {"tasks", "intents", "promote", "mark"},
   intents : SUBSET [task : Tasks, intent : Intent], tasks : SUBSET Tasks,
   held : [task : Tasks \cup {None}, intent : Intent], row : Row]

\* The variables hold what the code stores in them.
TypeOK ==
  /\ life \in [Procs -> {"off", "up", "gone"}]
  /\ task \in [Tasks -> Row]
  /\ intent \in [Tasks -> Intent]
  /\ artifact \in [Tasks -> {None, "blank", "result"}]
  /\ body \in [Tasks -> BodyState]
  /\ sweep \in [Procs -> SweepState]
  /\ trouble \in 0..MaxTrouble

\* A task ends once: no late settlement, cancellation or sweep of any process
\* changes a terminal row or its output.
EndsOnce == [][\A t \in Tasks : task[t].status \in Terminal => task'[t] = task[t]]_vars

\* A delegate is reported completed only with an output that can be read, and
\* no output is shown of one that is not: whoever promoted it, and whatever was
\* written when its process died.
CompletedIsReadable ==
  \A t \in Tasks : Delegate(t) =>
    /\ task[t].status = "completed" => task[t].output = "artifact" /\ artifact[t] = "result"
    /\ task[t].output # None => task[t].status = "completed"

\* An intent is the row's own: its owner's, of a task that still runs.  No
\* intent can settle a row that was cancelled or that another process took.
IntentIsOwners ==
  \A t \in Tasks : intent[t] # NoIntent => Active(t) /\ intent[t].owner = task[t].owner

\* Reaper.rs: "a live same-boot owner's heart-beating task is never reclaimed".
\* While its owner lives a row ends by its own body or is cancelled.
LiveOwnerKeepsTask ==
  [][\A t \in Tasks :
       Active(t) /\ task'[t].status \in Terminal \ {"cancelled"}
         => life[task[t].owner] # "up" \/ body'[t] # body[t]]_vars

Settling == {"intend", "write", "promote", "give up"}

\* Its body is at the end, or its owner is gone and no process passes for it.
Due(t) ==
  /\ Active(t)
  /\ \/ body[t].at \in Settling /\ body[t].host = task[t].owner
     \/ life[task[t].owner] = "gone" /\ AbsentOrReused(task[t].owner)

\* No row runs for ever when it is due to end, also across crashes of its
\* process at any point, as long as some process stays up.
DueRowsEnd ==
  (<>[](\E p \in Procs : life[p] = "up")) => \A t \in Tasks : []<>~Due(t)
=============================================================================
