------------------------ MODULE ControlPlane_proofs ------------------------
(* For any processes, identities and tasks: a task ends once, a delegate that *)
(* is completed can be read, an intent is its row's own, and nobody ends the  *)
(* row of an owner that lives.  The argument follows an intent: only the body *)
(* of the task, in its own process, writes one, so whoever finds an intent of *)
(* a process that is gone also finds a body that ended, and a file that no    *)
(* one writes any more.                                                       *)
EXTENDS ControlPlane, TLAPS

\* The intent was written by the body of the task, which had its outcome.
Own(t, i) ==
  /\ i.owner \in Procs /\ life[i.owner] # "off" /\ i.desired # None
  /\ body[t].host = i.owner
  /\ body[t].at \in {"write", "promote", "give up", "done"}

\* A body is at work only where a process is up, has no row before it starts,
\* and has written its file when it promotes its row.
BodyFact(t) ==
  /\ body[t].at = None => task[t].status = None
  /\ body[t].at \notin {None, "done"} => body[t].host \in Procs /\ life[body[t].host] = "up"
  /\ body[t].at \in Settling => body[t].outcome # None
  /\ body[t].at = "promote" => artifact[t] = Content(body[t].outcome)

\* A completed delegate has its file, and no body that could write it again.
RowFact(t) ==
  /\ task[t].status # None => task[t].owner \in Procs /\ life[task[t].owner] # "off"
  /\ task[t].output # None => task[t].status = "completed"
  /\ Delegate(t) /\ task[t].status = "completed" =>
       task[t].output = "artifact" /\ artifact[t] = "result" /\ body[t].at = "done"

IntentFact(t) ==
  intent[t] # NoIntent =>
    Own(t, intent[t]) /\ Active(t) /\ intent[t].owner = task[t].owner

\* What a sweep read of a process that is gone stays true.
SweepFact(p) ==
  /\ \A e \in sweep[p].intents : Own(e.task, e.intent)
  /\ sweep[p].at = "promote" =>
       /\ sweep[p].held.task \in Tasks /\ Own(sweep[p].held.task, sweep[p].held.intent)
       /\ life[sweep[p].held.intent.owner] = "gone"
       /\ sweep[p].row.status \in {"completed", "failed", "cancelled"}
       /\ sweep[p].row.status = "completed" => artifact[sweep[p].held.task] = "result"
  /\ sweep[p].at = "mark" =>
       /\ sweep[p].held.task \in Tasks
       /\ sweep[p].row.owner \in Procs /\ life[sweep[p].row.owner] = "gone"

CInv ==
  /\ TypeOK
  /\ \A t \in Tasks : BodyFact(t) /\ RowFact(t) /\ IntentFact(t)
  /\ \A p \in Procs : SweepFact(p)

-----------------------------------------------------------------------------
(* Types.                                                                     *)

LEMMA NoTypes ==
  /\ NoRow \in Row /\ NoIntent \in Intent /\ NoBody \in BodyState /\ NoSweep \in SweepState
  /\ Nothing \in [task : Tasks \cup {None}, intent : Intent]
  BY DEF NoRow, Row, NoIntent, Intent, NoBody, BodyState, NoSweep, SweepState, Nothing

LEMMA TroubleType ==
  ASSUME TypeOK, ControlPlaneAssumption, Trouble PROVE trouble' \in 0..MaxTrouble
  BY DEF TypeOK, Trouble, ControlPlaneAssumption

\* What an action leaves of a body, a row and an intent.
LEMMA BodyTypes ==
  ASSUME TypeOK, NEW t \in Tasks, NEW p \in Procs
  PROVE  /\ Ended(body[t]) \in BodyState
         /\ \A at \in {"run", "done"} : [at |-> at, host |-> p, outcome |-> None] \in BodyState
         /\ \A at \in {"intend", "write", "promote", "give up", "dropped"} :
              [body EXCEPT ![t].at = at] \in [Tasks -> BodyState]
         /\ \A outcome \in {"completed", "failed", "cancelled"} :
              [body EXCEPT ![t].at = "intend", ![t].outcome = outcome] \in [Tasks -> BodyState]
         /\ \A b \in BodyState : [body EXCEPT ![t] = b] \in [Tasks -> BodyState]
         /\ [body EXCEPT ![t] = Ended(body[t])] \in [Tasks -> BodyState]
         /\ OwnIntent(t) \in Intent
<1>1. body[t] \in BodyState
  BY DEF TypeOK
<1>2. Ended(body[t]) \in BodyState /\ OwnIntent(t) \in Intent
  BY <1>1 DEF BodyState, Ended, OwnIntent, Intent
<1>3. \A at \in {"intend", "write", "promote", "give up", "dropped"} :
        [body[t] EXCEPT !.at = at] \in BodyState
  BY <1>1 DEF BodyState
<1>4. \A outcome \in {"completed", "failed", "cancelled"} :
        [body[t] EXCEPT !.at = "intend", !.outcome = outcome] \in BodyState
  BY <1>1 DEF BodyState
<1>5. \A at \in {"run", "done"} : [at |-> at, host |-> p, outcome |-> None] \in BodyState
  BY DEF BodyState
<1> QED
  BY <1>2, <1>3, <1>4, <1>5 DEF TypeOK

\* A row that starts, ends, is settled or changes hands stays a row.
LEMMA RowTypes ==
  ASSUME TypeOK, NEW t, NEW p \in Procs
  PROVE  /\ [status |-> "running", owner |-> p, output |-> None] \in Row
         /\ \A r \in Row : [task EXCEPT ![t] = r] \in [Tasks -> Row]
         /\ [task EXCEPT ![t].owner = p] \in [Tasks -> Row]
         /\ \A status \in Terminal, output \in {None, "artifact", "inline"} :
              [task EXCEPT ![t].status = status, ![t].output = output] \in [Tasks -> Row]
         /\ \A i \in Intent : [intent EXCEPT ![t] = i] \in [Tasks -> Intent]
         /\ [intent EXCEPT ![t] = NoIntent] \in [Tasks -> Intent]
<1>1. \A u \in Tasks : task[u] \in Row
  BY DEF TypeOK
<1>2. \A u \in Tasks : [task[u] EXCEPT !.owner = p] \in Row
  BY <1>1 DEF Row
<1>3. \A u \in Tasks, status \in Terminal, output \in {None, "artifact", "inline"} :
        [task[u] EXCEPT !.status = status, !.output = output] \in Row
  BY <1>1 DEF Row
<1>4. [status |-> "running", owner |-> p, output |-> None] \in Row
  BY DEF Row
<1>5. [task EXCEPT ![t].owner = p] \in [Tasks -> Row]
  BY <1>2 DEF TypeOK
<1>6. \A status \in Terminal, output \in {None, "artifact", "inline"} :
        [task EXCEPT ![t].status = status, ![t].output = output] \in [Tasks -> Row]
  BY <1>3 DEF TypeOK
<1>7. [intent EXCEPT ![t] = NoIntent] \in [Tasks -> Intent]
  BY NoTypes DEF TypeOK
<1>8. \A i \in Intent : [intent EXCEPT ![t] = i] \in [Tasks -> Intent]
  BY DEF TypeOK
<1>9. \A r \in Row : [task EXCEPT ![t] = r] \in [Tasks -> Row]
  BY DEF TypeOK
<1> QED
  BY <1>4, <1>5, <1>6, <1>7, <1>8, <1>9

LEMMA EndRowTypes ==
  ASSUME TypeOK, NEW t, NEW status \in Terminal, NEW output \in {None, "artifact", "inline"},
         EndRow(t, status, output)
  PROVE  task' \in [Tasks -> Row] /\ intent' \in [Tasks -> Intent]
<1>1. \A u \in Tasks : [task[u] EXCEPT !.status = status, !.output = output] \in Row
  BY DEF TypeOK, Row
<1>2. task \in [Tasks -> Row] /\ intent \in [Tasks -> Intent] /\ NoIntent \in Intent
  BY NoTypes DEF TypeOK
<1>3. task' \in [Tasks -> Row]
  BY <1>1, <1>2 DEF EndRow
<1>4. intent' \in [Tasks -> Intent]
  BY <1>2 DEF EndRow
<1> QED
  BY <1>3, <1>4

LEMMA PromoteTypes ==
  ASSUME TypeOK, NEW t, NEW i, NEW status \in Terminal, PromoteSettlement(t, i, status),
         NEW p \in Procs
  PROVE  task' \in [Tasks -> Row] /\ intent' \in [Tasks -> Intent]
<1>1. task \in [Tasks -> Row] /\ intent \in [Tasks -> Intent]
  BY DEF TypeOK
<1> QED
  BY <1>1, RowTypes DEF PromoteSettlement

\* What a step leaves of a sweep.
LEMMA SweepTypes ==
  ASSUME TypeOK, NEW p \in Procs
  PROVE  /\ [sweep EXCEPT ![p] = NoSweep] \in [Procs -> SweepState]
         /\ \A e : Drop(p, e) \in [Procs -> SweepState]
         /\ \A s \in SUBSET [task : Tasks, intent : Intent] :
              [sweep EXCEPT ![p].at = "intents", ![p].intents = s] \in [Procs -> SweepState]
         /\ \A s \in SUBSET Tasks :
              [sweep EXCEPT ![p].at = "tasks", ![p].tasks = s] \in [Procs -> SweepState]
         /\ \A t : [sweep EXCEPT ![p].tasks = @ \ {t}] \in [Procs -> SweepState]
         /\ \A at \in {"intents", "tasks"} :
              [sweep EXCEPT ![p].at = at, ![p].held = Nothing, ![p].row = NoRow] \in [Procs -> SweepState]
         /\ \A t \in Tasks, r \in Row :
              [sweep EXCEPT ![p].at = "mark", ![p].tasks = @ \ {t},
                 ![p].held = [Nothing EXCEPT !.task = t], ![p].row = r] \in [Procs -> SweepState]
         /\ \A e \in [task : Tasks, intent : Intent], r \in Row :
              [Drop(p, e) EXCEPT ![p].at = "promote", ![p].held = e, ![p].row = r] \in [Procs -> SweepState]
<1>1. sweep[p] \in SweepState /\ sweep \in [Procs -> SweepState]
  BY DEF TypeOK
<1>2. [sweep EXCEPT ![p] = NoSweep] \in [Procs -> SweepState]
  BY <1>1, NoTypes
<1>3. \A e : [sweep[p] EXCEPT !.intents = @ \ {e}] \in SweepState
  BY <1>1 DEF SweepState
<1>4. \A e : Drop(p, e) \in [Procs -> SweepState]
  BY <1>1, <1>3 DEF Drop
<1>5. \A s \in SUBSET [task : Tasks, intent : Intent] :
        [sweep[p] EXCEPT !.at = "intents", !.intents = s] \in SweepState
  BY <1>1 DEF SweepState
<1>6. \A s \in SUBSET Tasks : [sweep[p] EXCEPT !.at = "tasks", !.tasks = s] \in SweepState
  BY <1>1 DEF SweepState
<1>7. \A t : [sweep[p] EXCEPT !.tasks = @ \ {t}] \in SweepState
  BY <1>1 DEF SweepState
<1>8. \A at \in {"intents", "tasks"} :
        [sweep[p] EXCEPT !.at = at, !.held = Nothing, !.row = NoRow] \in SweepState
  BY <1>1, NoTypes DEF SweepState
<1>9. \A t \in Tasks : [Nothing EXCEPT !.task = t] \in [task : Tasks \cup {None}, intent : Intent]
  BY NoTypes DEF Nothing
<1>10. \A t \in Tasks, r \in Row :
         [sweep[p] EXCEPT !.at = "mark", !.tasks = @ \ {t},
            !.held = [Nothing EXCEPT !.task = t], !.row = r] \in SweepState
  BY <1>1, <1>9 DEF SweepState
<1>11. \A e \in [task : Tasks, intent : Intent], r \in Row :
         [sweep[p] EXCEPT !.intents = @ \ {e}, !.at = "promote", !.held = e, !.row = r] \in SweepState
  BY <1>1 DEF SweepState
<1>12. \A e \in [task : Tasks, intent : Intent], r \in Row :
         [Drop(p, e) EXCEPT ![p].at = "promote", ![p].held = e, ![p].row = r] \in [Procs -> SweepState]
  BY <1>1, <1>11 DEF Drop
<1> QED
  BY <1>1, <1>2, <1>4, <1>5, <1>6, <1>7, <1>8, <1>10, <1>12

LEMMA TypeStep == ASSUME CInv, ControlPlaneAssumption, Next PROVE TypeOK'
<1> DEFINE IntentSet == [task : Tasks, intent : Intent]
<1> TypeOK
  BY DEF CInv
<1>1. /\ life \in [Procs -> {"off", "up", "gone"}] /\ task \in [Tasks -> Row]
      /\ intent \in [Tasks -> Intent] /\ artifact \in [Tasks -> {None, "blank", "result"}]
      /\ body \in [Tasks -> BodyState] /\ sweep \in [Procs -> SweepState]
      /\ trouble \in 0..MaxTrouble
  BY DEF TypeOK
<1>2. ASSUME NEW p \in Procs, Boot(p) PROVE TypeOK'
  BY <1>1, <1>2 DEF Boot, TypeOK
<1>3. ASSUME NEW p \in Procs, Crash(p) PROVE TypeOK'
  <2>1. body' \in [Tasks -> BodyState] /\ sweep' \in [Procs -> SweepState]
    BY <1>1, <1>3, BodyTypes, SweepTypes DEF Crash
  <2> QED
    BY <1>1, <1>3, <2>1 DEF Crash, TypeOK
<1>4. ASSUME NEW p \in Procs, SweepFails(p) PROVE TypeOK'
  BY <1>1, <1>4, SweepTypes, TroubleType DEF SweepFails, TypeOK
<1>5. ASSUME NEW p \in Procs, BeginSweep(p) PROVE TypeOK'
  <2>1. {[task |-> t, intent |-> intent[t]] : t \in {t \in Tasks : intent[t] # NoIntent}}
          \in SUBSET IntentSet
    BY <1>1
  <2>2. sweep' \in [Procs -> SweepState]
    BY <1>5, <2>1, SweepTypes DEF BeginSweep
  <2> QED
    BY <1>1, <1>5, <2>2 DEF BeginSweep, TypeOK
<1>6. ASSUME NEW p \in Procs, NEW e \in sweep[p].intents, ConsiderIntent(p, e) PROVE TypeOK'
  <2>1. e \in IntentSet
    BY <1>1 DEF SweepState
  <2>2. \A status \in Terminal : [task[e.task] EXCEPT !.status = status] \in Row
    BY <1>1, <2>1 DEF Row
  <2>3. e.intent.desired \in Terminal
        => [task[e.task] EXCEPT !.status = IF Valid(e.task, e.intent) THEN e.intent.desired
                                           ELSE "failed"] \in Row
    BY <2>2 DEF Terminal
  <2>4. [task[e.task] EXCEPT !.status = IF Valid(e.task, e.intent) THEN e.intent.desired
                                        ELSE "failed"] \in Row
    BY <1>1, <2>1, <2>2, <2>3 DEF Row, Intent, Terminal
  <2> DEFINE R == [task[e.task] EXCEPT !.status = IF Valid(e.task, e.intent) THEN e.intent.desired
                                                  ELSE "failed"]
  <2>5. \/ sweep' = Drop(p, e)
        \/ sweep' = [Drop(p, e) EXCEPT ![p].at = "promote", ![p].held = e, ![p].row = R]
    BY <1>6 DEF ConsiderIntent
  <2>6. sweep' \in [Procs -> SweepState]
    <3>1. CASE sweep' = Drop(p, e)
      BY <3>1, SweepTypes
    <3>2. CASE sweep' = [Drop(p, e) EXCEPT ![p].at = "promote", ![p].held = e, ![p].row = R]
      <4>1. R \in Row
        BY <2>4
      <4> HIDE DEF R
      <4> QED
        BY <2>1, <3>2, <4>1, SweepTypes
    <3> QED
      BY <2>5, <3>1, <3>2
  <2>7. intent' = intent \/ intent' = [intent EXCEPT ![e.task] = NoIntent]
    BY <1>6 DEF ConsiderIntent
  <2>8. intent' \in [Tasks -> Intent]
    BY <1>1, <2>7, NoTypes
  <2> QED
    BY <1>1, <1>6, <2>6, <2>8 DEF ConsiderIntent, TypeOK
<1>7. ASSUME NEW p \in Procs, PromoteRecovered(p) PROVE TypeOK'
  <2>1. task' \in [Tasks -> Row] /\ intent' \in [Tasks -> Intent]
    BY <1>7, PromoteTypes DEF PromoteRecovered, CInv, SweepFact, At, Terminal
  <2> QED
    BY <1>1, <1>7, <2>1, SweepTypes DEF PromoteRecovered, TypeOK
<1>8. ASSUME NEW p \in Procs, ListRunning(p) PROVE TypeOK'
  <2>1. sweep' \in [Procs -> SweepState]
    BY <1>8, SweepTypes DEF ListRunning
  <2> QED
    BY <1>1, <1>8, <2>1 DEF ListRunning, TypeOK
<1>9. ASSUME NEW p \in Procs, NEW t \in Tasks, ReadRow(p, t) PROVE TypeOK'
  <2>1. task[t] \in Row
    BY <1>1
  <2>2. sweep' \in [Procs -> SweepState]
    BY <1>9, <2>1, SweepTypes DEF ReadRow
  <2> QED
    BY <1>1, <1>9, <2>2 DEF ReadRow, TypeOK
<1>10. ASSUME NEW p \in Procs, MarkLost(p) PROVE TypeOK'
  <2>1. task' \in [Tasks -> Row] /\ intent' \in [Tasks -> Intent]
    <3>1. "lost" \in Terminal /\ None \in {None, "artifact", "inline"}
      BY DEF Terminal
    <3>2. \/ task' = task /\ intent' = intent
          \/ EndRow(sweep[p].held.task, "lost", None)
      BY <1>10 DEF MarkLost
    <3> QED
      BY <1>1, <3>1, <3>2, EndRowTypes
  <2>2. sweep' \in [Procs -> SweepState]
    BY <1>10, SweepTypes DEF MarkLost
  <2> QED
    BY <1>1, <1>10, <2>1, <2>2 DEF MarkLost, TypeOK
<1>11. ASSUME NEW p \in Procs, NEW t \in Tasks, Register(p, t) PROVE TypeOK'
  <2> DEFINE N(at) == [at |-> at, host |-> p, outcome |-> None]
             New == [status |-> "running", owner |-> p, output |-> None]
  <2>1. N("run") \in BodyState /\ N("done") \in BodyState /\ New \in Row
    BY BodyTypes, RowTypes
  <2>2. body' = [body EXCEPT ![t] = N("run")] \/ body' = [body EXCEPT ![t] = N("done")]
    BY <1>11 DEF Register
  <2>3. task' = task \/ task' = [task EXCEPT ![t] = New]
    BY <1>11 DEF Register
  <2>4. artifact' \in [Tasks -> {None, "blank", "result"}]
    BY <1>1, <1>11 DEF Register
  <2>5. trouble' \in 0..MaxTrouble
    BY <1>1, <1>11, TroubleType DEF Register
  <2> HIDE DEF N, New
  <2>6. body' \in [Tasks -> BodyState] /\ task' \in [Tasks -> Row]
    BY <1>1, <2>1, <2>2, <2>3
  <2> QED
    BY <1>1, <1>11, <2>4, <2>5, <2>6 DEF Register, TypeOK
<1>12. ASSUME NEW p \in Procs, NEW t \in Tasks, Conclude(p, t) PROVE TypeOK'
  <2>1. body' \in [Tasks -> BodyState]
    <3>1. PICK o \in {"completed", "failed", "cancelled"} :
            body' = [body EXCEPT ![t].at = "intend", ![t].outcome = o]
      BY <1>12 DEF Conclude
    <3> QED
      BY <3>1, BodyTypes
  <2> QED
    BY <1>1, <1>12, <2>1 DEF Conclude, TypeOK
<1>13. ASSUME NEW p \in Procs, NEW t \in Tasks, PersistIntent(p, t) PROVE TypeOK'
  <2>1. body' \in [Tasks -> BodyState] /\ intent' \in [Tasks -> Intent]
    <3>1. \/ intent' = [intent EXCEPT ![t] = OwnIntent(t)] /\ body' = [body EXCEPT ![t].at = "write"]
          \/ intent' = intent /\ body' = [body EXCEPT ![t] = Ended(body[t])]
      BY <1>13 DEF PersistIntent
    <3>2. [body[t] EXCEPT !.at = "write"] \in BodyState
      BY <1>1 DEF BodyState
    <3>3. Ended(body[t]) \in BodyState /\ OwnIntent(t) \in Intent
      BY BodyTypes
    <3> QED
      BY <1>1, <3>1, <3>2, <3>3
  <2> QED
    BY <1>1, <1>13, <2>1 DEF PersistIntent, TypeOK
<1>14. ASSUME NEW p \in Procs, NEW t \in Tasks, WriteArtifact(p, t) PROVE TypeOK'
  <2>1. body' \in [Tasks -> BodyState]
    <3>1. body' = [body EXCEPT ![t].at = "promote"] \/ body' = [body EXCEPT ![t].at = "give up"]
      BY <1>14 DEF WriteArtifact
    <3>2. /\ [body[t] EXCEPT !.at = "promote"] \in BodyState
          /\ [body[t] EXCEPT !.at = "give up"] \in BodyState
      BY <1>1 DEF BodyState
    <3> QED
      BY <1>1, <3>1, <3>2
  <2>2. artifact' \in [Tasks -> {None, "blank", "result"}]
    BY <1>1, <1>14 DEF WriteArtifact, Content
  <2> QED
    BY <1>1, <1>14, <2>1, <2>2, TroubleType DEF WriteArtifact, TypeOK
<1>15. ASSUME NEW p \in Procs, NEW t \in Tasks, Promote(p, t) PROVE TypeOK'
  <2>1. body' \in [Tasks -> BodyState]
    BY <1>1, <1>15, BodyTypes DEF Promote
  <2>2. body[t].at = "promote" => body[t].outcome \in Terminal
    BY <1>1 DEF BodyState, Terminal, CInv, BodyFact, Settling
  <2>3. task' \in [Tasks -> Row] /\ intent' \in [Tasks -> Intent]
    <3>1. CASE Body(t, "promote", p) /\ PromoteSettlement(t, OwnIntent(t), body[t].outcome)
      BY <2>2, <3>1, PromoteTypes DEF Body
    <3>2. CASE PromoteSettlement(t, OwnIntent(t), "failed")
      <4>1. "failed" \in Terminal
        BY DEF Terminal
      <4> QED
        BY <3>2, <4>1, PromoteTypes
    <3> QED
      BY <1>15, <3>1, <3>2 DEF Promote
  <2> QED
    BY <1>1, <1>15, <2>1, <2>3 DEF Promote, TypeOK
<1>16. ASSUME NEW p \in Procs, NEW t \in Tasks, Cancel(p, t) PROVE TypeOK'
  <2>1. task' \in [Tasks -> Row] /\ intent' \in [Tasks -> Intent]
    BY <1>16, RowTypes DEF Cancel, EndRow, Terminal, None
  <2> QED
    BY <1>1, <1>16, <2>1 DEF Cancel, TypeOK
<1>17. ASSUME NEW p \in Procs, NEW t \in Tasks, ClaimOwner(p, t) PROVE TypeOK'
  <2>1. task' \in [Tasks -> Row] /\ intent' \in [Tasks -> Intent]
    BY <1>1, <1>17, RowTypes, NoTypes DEF ClaimOwner
  <2> QED
    BY <1>1, <1>17, <2>1, TroubleType DEF ClaimOwner, TypeOK
<1>18. ASSUME NEW p \in Procs, NEW t \in Tasks, Spawn(p, t) PROVE TypeOK'
  <2> DEFINE B == [at |-> "run", host |-> p, outcome |-> None]
             New == [status |-> "running", owner |-> p, output |-> None]
  <2>1. B \in BodyState /\ New \in Row
    BY BodyTypes, RowTypes
  <2>2. body' = [body EXCEPT ![t] = B] /\ (task' = task \/ task' = [task EXCEPT ![t] = New])
    BY <1>18 DEF Spawn
  <2>3. trouble' \in 0..MaxTrouble
    BY <1>1, <1>18, TroubleType DEF Spawn
  <2> HIDE DEF B, New
  <2>4. body' \in [Tasks -> BodyState] /\ task' \in [Tasks -> Row]
    BY <1>1, <2>1, <2>2
  <2> QED
    BY <1>1, <1>18, <2>3, <2>4 DEF Spawn, TypeOK
<1>19. ASSUME NEW p \in Procs, NEW t \in Tasks, Return(p, t) PROVE TypeOK'
  <2>1. body' \in [Tasks -> BodyState]
    BY <1>1, <1>19, BodyTypes DEF Return
  <2>2. task' \in [Tasks -> Row] /\ intent' \in [Tasks -> Intent]
    <3>1. "completed" \in Terminal /\ "failed" \in Terminal
          /\ None \in {None, "artifact", "inline"} /\ "inline" \in {None, "artifact", "inline"}
      BY DEF Terminal
    <3>2. \/ task' = task /\ intent' = intent
          \/ EndRow(t, "completed", "inline") \/ EndRow(t, "failed", None)
      BY <1>19 DEF Return
    <3> QED
      BY <1>1, <3>1, <3>2, EndRowTypes
  <2>3. trouble' \in 0..MaxTrouble
    BY <1>1, <1>19, TroubleType DEF Return
  <2> QED
    BY <1>1, <1>19, <2>1, <2>2, <2>3 DEF Return, TypeOK
<1>20. ASSUME NEW p \in Procs, NEW t \in Tasks, DropTurn(p, t) PROVE TypeOK'
  <2>1. body' \in [Tasks -> BodyState]
    BY <1>20, BodyTypes DEF DropTurn
  <2> QED
    BY <1>1, <1>20, <2>1 DEF DropTurn, TypeOK
<1> QED
  BY <1>2, <1>3, <1>4, <1>5, <1>6, <1>7, <1>8, <1>9, <1>10, <1>11, <1>12, <1>13, <1>14,
     <1>15, <1>16, <1>17, <1>18, <1>19, <1>20 DEF Next, SweepStep, SettleStep

-----------------------------------------------------------------------------
(* What never goes back.                                                      *)

Late == {"write", "promote", "give up", "done"}

LEMMA Moves ==
  ASSUME CInv, Next
  PROVE  /\ \A q \in Procs : /\ life[q] # "off" => life'[q] # "off"
                             /\ life[q] = "gone" => life'[q] = "gone"
         /\ \A u \in Tasks : body[u].at \in Late =>
                               body'[u].at \in Late /\ body'[u].host = body[u].host
         /\ \A u \in Tasks : body[u].at = "done" =>
                               body'[u].at = "done" /\ artifact'[u] = artifact[u]
<1> DEFINE LifeMoves == \A q \in Procs : /\ life[q] # "off" => life'[q] # "off"
                                         /\ life[q] = "gone" => life'[q] = "gone"
           BodyMoves == /\ \A u \in Tasks : body[u].at \in Late =>
                             body'[u].at \in Late /\ body'[u].host = body[u].host
                        /\ \A u \in Tasks : body[u].at = "done" =>
                             body'[u].at = "done" /\ artifact'[u] = artifact[u]
<1>1. /\ life \in [Procs -> {"off", "up", "gone"}] /\ body \in [Tasks -> BodyState]
      /\ artifact \in [Tasks -> {None, "blank", "result"}]
  BY DEF CInv, TypeOK
<1>2. ASSUME UNCHANGED life PROVE LifeMoves
  BY <1>2
<1>3. ASSUME UNCHANGED <<body, artifact>> PROVE BodyMoves
  BY <1>3
<1>4. ASSUME NEW p \in Procs, Boot(p) PROVE LifeMoves /\ BodyMoves
  BY <1>1, <1>3, <1>4 DEF Boot
<1>5. ASSUME NEW p \in Procs, Crash(p) PROVE LifeMoves /\ BodyMoves
  BY <1>1, <1>5 DEF Crash, Ended, Late, BodyState
<1> DEFINE Moved(t) == /\ UNCHANGED life
                       /\ body[t].at # "done" /\ \A u \in Tasks \ {t} : UNCHANGED <<body[u], artifact[u]>>
                       /\ body[t].at \in Late => body'[t].at \in Late /\ body'[t].host = body[t].host
<1>6. ASSUME NEW t \in Tasks, Moved(t) PROVE LifeMoves /\ BodyMoves
  BY <1>2, <1>6
<1>7. ASSUME NEW p \in Procs, NEW t \in Tasks, Register(p, t) PROVE Moved(t)
  BY <1>1, <1>7 DEF Register, Late, None
<1>8. ASSUME NEW p \in Procs, NEW t \in Tasks, Conclude(p, t) PROVE Moved(t)
  BY <1>1, <1>8 DEF Conclude, Body, Late
<1>9. ASSUME NEW p \in Procs, NEW t \in Tasks, PersistIntent(p, t) PROVE Moved(t)
  BY <1>1, <1>9 DEF PersistIntent, Body, Late
<1>10. ASSUME NEW p \in Procs, NEW t \in Tasks, WriteArtifact(p, t) PROVE Moved(t)
  <2>1. /\ body[t].at = "write" /\ UNCHANGED life
        /\ \/ body' = [body EXCEPT ![t].at = "promote"] \/ body' = [body EXCEPT ![t].at = "give up"]
        /\ \/ artifact' = [artifact EXCEPT ![t] = Content(body[t].outcome)] \/ artifact' = artifact
    BY <1>10, Zenon DEF WriteArtifact, Body
  <2>2. \A u \in Tasks \ {t} : body'[u] = body[u] /\ artifact'[u] = artifact[u]
    BY <1>1, <2>1
  <2>3. body'[t].at \in {"promote", "give up"} /\ body'[t].host = body[t].host
    BY <1>1, <2>1 DEF BodyState
  <2> QED BY <2>1, <2>2, <2>3 DEF Late
<1>11. ASSUME NEW p \in Procs, NEW t \in Tasks, Promote(p, t) PROVE Moved(t)
  BY <1>1, <1>11 DEF Promote, Body, Late, Ended, BodyState
<1>12. ASSUME NEW p \in Procs, NEW t \in Tasks, Spawn(p, t) PROVE Moved(t)
  BY <1>1, <1>12 DEF Spawn, Late, None
<1>13. ASSUME NEW p \in Procs, NEW t \in Tasks, Return(p, t) PROVE Moved(t)
  BY <1>1, <1>13 DEF Return, Body, Late
<1>14. ASSUME NEW p \in Procs, NEW t \in Tasks, DropTurn(p, t) PROVE Moved(t)
  BY <1>1, <1>14 DEF DropTurn, Body, Late
<1>15. ASSUME NEW p \in Procs, SweepStep(p) \/ SweepFails(p) PROVE UNCHANGED <<life, body, artifact>>
  BY <1>15 DEF SweepStep, SweepFails, BeginSweep, ConsiderIntent, PromoteRecovered, ListRunning,
               ReadRow, MarkLost
<1>16. ASSUME NEW p \in Procs, NEW t \in Tasks, Cancel(p, t) \/ ClaimOwner(p, t)
       PROVE  UNCHANGED <<life, body, artifact>>
  BY <1>16 DEF Cancel, ClaimOwner
<1> HIDE DEF LifeMoves, BodyMoves, Moved
<1>17. LifeMoves /\ BodyMoves
  BY <1>2, <1>3, <1>4, <1>5, <1>6, <1>7, <1>8, <1>9, <1>10, <1>11, <1>12, <1>13, <1>14, <1>15, <1>16
     DEF Next, SettleStep
<1> QED
  BY <1>17 DEF LifeMoves, BodyMoves

LEMMA OwnStays == ASSUME CInv, Next, NEW t \in Tasks, NEW i, Own(t, i) PROVE Own(t, i)'
  BY Moves DEF Own, Late

\* The body of an owner that is gone ended, and so did its writing.
LEMMA GoneIsDone ==
  ASSUME CInv, NEW t \in Tasks, NEW i, Own(t, i), life[i.owner] = "gone"
  PROVE  body[t].at = "done"
  BY DEF CInv, BodyFact, Own, None

-----------------------------------------------------------------------------
(* The invariant is inductive.                                                *)

LEMMA BodyStep == ASSUME CInv, Next, NEW u \in Tasks PROVE BodyFact(u)'
<1>1. /\ life \in [Procs -> {"off", "up", "gone"}] /\ body \in [Tasks -> BodyState]
      /\ artifact \in [Tasks -> {None, "blank", "result"}] /\ task \in [Tasks -> Row]
      /\ BodyFact(u) /\ (Active(u) => body[u].at # None)
  BY DEF CInv, TypeOK, BodyFact, Active, None
<1>2. ASSUME NEW p \in Procs, Boot(p) PROVE BodyFact(u)'
  BY <1>1, <1>2 DEF Boot, BodyFact
<1>3. ASSUME NEW p \in Procs, Crash(p) PROVE BodyFact(u)'
  BY <1>1, <1>3 DEF Crash, Ended, BodyFact, BodyState, None, Settling
<1> DEFINE Kept == /\ UNCHANGED life /\ artifact'[u] = artifact[u]
                   /\ body'[u] = body[u] \/ body'[u] = Ended(body[u])
                   /\ task[u].status = None => task'[u].status = None
<1>4. ASSUME Kept PROVE BodyFact(u)'
  <2>1. CASE body'[u] = body[u]
    BY <1>1, <1>4, <2>1 DEF BodyFact
  <2>2. CASE body'[u] = Ended(body[u])
    <3>1. body[u] \in BodyState
      BY <1>1
    <3>2. body'[u].at = "done"
      BY <2>2, <3>1 DEF Ended, BodyState
    <3> QED
      BY <3>2 DEF BodyFact, None, Settling
  <2> QED
    BY <1>4, <2>1, <2>2
<1>5. ASSUME NEW p \in Procs, NEW t \in Tasks, Register(p, t) \/ Spawn(p, t) PROVE BodyFact(u)'
  <2>1. CASE u # t
    BY <1>1, <1>5, <2>1, <1>4 DEF Register, Spawn
  <2>2. CASE u = t
    <3>1. life' = life /\ life[p] = "up" /\ body'[u].at \in {"run", "done"} /\ body'[u].host = p
      BY <1>1, <1>5, <2>2 DEF Register, Spawn
    <3> QED
      BY <3>1 DEF BodyFact, None, Settling
  <2> QED
    BY <2>1, <2>2
<1>6. ASSUME NEW p \in Procs, NEW t \in Tasks, Conclude(p, t) \/ DropTurn(p, t) PROVE BodyFact(u)'
  <2>1. CASE u # t
    BY <1>1, <1>6, <2>1, <1>4 DEF Conclude, DropTurn
  <2>2. CASE u = t
    <3>1. /\ life' = life /\ life[p] = "up" /\ body'[u].host = p
          /\ \/ body'[u].at = "dropped"
             \/ body'[u].at = "intend" /\ body'[u].outcome # None
      <4>1. body[u] \in BodyState
        BY <1>1
      <4>2. CASE Conclude(p, t)
        <5>1. PICK o \in {"completed", "failed", "cancelled"} :
                body' = [body EXCEPT ![t].at = "intend", ![t].outcome = o]
          BY <4>2 DEF Conclude
        <5>2. body'[u] = [body[u] EXCEPT !.at = "intend", !.outcome = o]
          BY <1>1, <2>2, <5>1
        <5>3. body'[u].at = "intend" /\ body'[u].outcome = o /\ body'[u].host = body[u].host
          BY <4>1, <5>2 DEF BodyState
        <5> QED
          BY <2>2, <4>2, <5>3 DEF Conclude, Body, None
      <4>3. CASE DropTurn(p, t)
        <5>1. body'[u] = [body[u] EXCEPT !.at = "dropped"]
          BY <1>1, <2>2, <4>3 DEF DropTurn
        <5>2. body'[u].at = "dropped" /\ body'[u].host = body[u].host
          BY <4>1, <5>1 DEF BodyState
        <5> QED
          BY <2>2, <4>3, <5>2 DEF DropTurn, Body
      <4> QED
        BY <1>6, <4>2, <4>3
    <3> QED
      BY <3>1 DEF BodyFact, None, Settling
  <2> QED
    BY <2>1, <2>2
<1>7. ASSUME NEW p \in Procs, NEW t \in Tasks, PersistIntent(p, t) PROVE BodyFact(u)'
  <2>1. CASE u # t
    BY <1>1, <1>7, <2>1, <1>4 DEF PersistIntent
  <2>2. CASE u = t
    <3>1. /\ life' = life /\ life[p] = "up" /\ body[u].host = p /\ body[u].at = "intend"
          /\ \/ body'[u] = [body[u] EXCEPT !.at = "write"]
             \/ body'[u] = Ended(body[u]) /\ task' = task /\ artifact' = artifact
      BY <1>1, <1>7, <2>2 DEF PersistIntent, Body
    <3>2. CASE body'[u] = [body[u] EXCEPT !.at = "write"]
      <4>1. body'[u].at = "write" /\ body'[u].host = p /\ body'[u].outcome = body[u].outcome
        BY <1>1, <3>1, <3>2 DEF BodyState
      <4> QED
        BY <1>1, <3>1, <4>1 DEF BodyFact, None, Settling
    <3>3. CASE body'[u] = Ended(body[u]) /\ task' = task /\ artifact' = artifact
      BY <3>1, <3>3, <1>4
    <3> QED
      BY <3>1, <3>2, <3>3
  <2> QED
    BY <2>1, <2>2
<1>8. ASSUME NEW p \in Procs, NEW t \in Tasks, WriteArtifact(p, t) PROVE BodyFact(u)'
  <2>1. CASE u # t
    BY <1>1, <1>8, <2>1, <1>4 DEF WriteArtifact
  <2>2. CASE u = t
    <3>1. /\ life' = life /\ life[p] = "up" /\ body'[u].host = p /\ body[u].at = "write"
          /\ body'[u].outcome = body[u].outcome
          /\ \/ body'[u].at = "promote" /\ artifact'[u] = Content(body[u].outcome)
             \/ body'[u].at = "give up"
      <4>1. body[u] \in BodyState
        BY <1>1
      <4>2. \A at \in {"promote", "give up"} :
              /\ [body[u] EXCEPT !.at = at].at = at
              /\ [body[u] EXCEPT !.at = at].host = body[u].host
              /\ [body[u] EXCEPT !.at = at].outcome = body[u].outcome
        BY <4>1 DEF BodyState
      <4>3. /\ life' = life /\ life[p] = "up" /\ body[u].host = p /\ body[u].at = "write"
            /\ \/ /\ body'[u] = [body[u] EXCEPT !.at = "promote"]
                  /\ artifact'[u] = Content(body[u].outcome)
               \/ body'[u] = [body[u] EXCEPT !.at = "give up"]
        BY <1>1, <1>8, <2>2 DEF WriteArtifact, Body
      <4> QED
        BY <4>2, <4>3
    <3> QED
      BY <1>1, <3>1 DEF BodyFact, None, Settling
  <2> QED
    BY <2>1, <2>2
<1>9. ASSUME NEW p \in Procs, NEW t \in Tasks, Promote(p, t) PROVE Kept
  BY <1>1, <1>9 DEF Promote, PromoteSettlement, Active, None, Row
<1>10. ASSUME NEW p \in Procs, NEW t \in Tasks, Return(p, t) PROVE Kept
  BY <1>1, <1>10 DEF Return, EndRow, Active, None, Row
<1>11. ASSUME NEW p \in Procs, NEW t \in Tasks, Cancel(p, t) \/ ClaimOwner(p, t) PROVE Kept
  BY <1>1, <1>11 DEF Cancel, ClaimOwner, EndRow, Active, None, Row
<1>12. ASSUME NEW p \in Procs, PromoteRecovered(p) \/ MarkLost(p) PROVE Kept
  BY <1>1, <1>12 DEF PromoteRecovered, MarkLost, PromoteSettlement, EndRow, Active, None, Row
<1>13. ASSUME NEW p \in Procs, UNCHANGED <<life, task, artifact, body>> PROVE Kept
  BY <1>13
<1> HIDE DEF Kept
<1> QED
  BY <1>2, <1>3, <1>4, <1>5, <1>6, <1>7, <1>8, <1>9, <1>10, <1>11, <1>12, <1>13
     DEF Next, SettleStep, SweepStep, SweepFails, BeginSweep, ConsiderIntent, ListRunning, ReadRow

\* Who ends a row: its own body, a cancellation, or a sweep that found its owner
\* gone; and what it leaves behind.
LEMMA RowMoves ==
  ASSUME CInv, ControlPlaneAssumption, Next, NEW u \in Tasks
  PROVE  \/ task'[u] = task[u]
         \/ /\ body[u].at = None /\ task[u].status = None
            /\ task'[u] \in [status : {"running"}, owner : {q \in Procs : life'[q] = "up"}, output : {None}]
         \/ /\ Active(u)
            /\ \E q \in Procs : life[q] = "up" /\ task'[u] = [task[u] EXCEPT !.owner = q]
         \/ /\ Active(u) /\ intent'[u] = NoIntent /\ task'[u].owner = task[u].owner
            /\ \/ task'[u].status = "cancelled"
               \/ task'[u].status \in Terminal /\ body'[u] # body[u]
               \/ task'[u].status \in Terminal /\ life[task[u].owner] = "gone"
            /\ task'[u].output # None => task'[u].status = "completed"
            /\ Delegate(u) /\ task'[u].status = "completed" =>
                 task'[u].output = "artifact" /\ artifact'[u] = "result" /\ body'[u].at = "done"
<1> DEFINE Same == task'[u] = task[u]
           New == /\ body[u].at = None /\ task[u].status = None
                  /\ task'[u] \in [status : {"running"}, owner : {q \in Procs : life'[q] = "up"}, output : {None}]
           Taken == /\ Active(u)
                    /\ \E q \in Procs : life[q] = "up" /\ task'[u] = [task[u] EXCEPT !.owner = q]
           Over == /\ Active(u) /\ intent'[u] = NoIntent /\ task'[u].owner = task[u].owner
                   /\ \/ task'[u].status = "cancelled"
                      \/ task'[u].status \in Terminal /\ body'[u] # body[u]
                      \/ task'[u].status \in Terminal /\ life[task[u].owner] = "gone"
                   /\ task'[u].output # None => task'[u].status = "completed"
                   /\ Delegate(u) /\ task'[u].status = "completed" =>
                        task'[u].output = "artifact" /\ artifact'[u] = "result" /\ body'[u].at = "done"
<1>1. /\ body \in [Tasks -> BodyState] /\ intent \in [Tasks -> Intent]
      /\ artifact \in [Tasks -> {None, "blank", "result"}] /\ task \in [Tasks -> Row]
      /\ BodyFact(u) /\ RowFact(u)
  BY DEF CInv, TypeOK
<1>2. ASSUME NEW p \in Procs, NEW t \in Tasks, Register(p, t) \/ Spawn(p, t) PROVE Same \/ New
  BY <1>1, <1>2 DEF Register, Spawn, BodyFact
<1>3. ASSUME NEW p \in Procs, NEW t \in Tasks, ClaimOwner(p, t) PROVE Same \/ Taken
  BY <1>1, <1>3 DEF ClaimOwner
<1>4. ASSUME NEW p \in Procs, NEW t \in Tasks, Cancel(p, t) PROVE Same \/ Over
  BY <1>1, <1>4 DEF Cancel, EndRow, Row
<1>5. ASSUME NEW p \in Procs, NEW t \in Tasks, Return(p, t) PROVE Same \/ Over
  <2>1. CASE u # t
    BY <1>1, <1>5, <2>1 DEF Return, EndRow
  <2>2. CASE u = t
    <3>1. body'[u] # body[u] /\ ~Delegate(u)
      BY <1>1, <1>5, <2>2 DEF Return, Body, Ended, BodyState
    <3>2. \/ Same
          \/ Active(u) /\ (EndRow(u, "completed", "inline") \/ EndRow(u, "failed", None))
      BY <1>1, <1>5, <2>2 DEF Return
    <3>3. CASE EndRow(u, "completed", "inline") /\ Active(u)
      BY <1>1, <3>1, <3>3 DEF EndRow, Row, Terminal
    <3>4. CASE EndRow(u, "failed", None) /\ Active(u)
      BY <1>1, <3>1, <3>4 DEF EndRow, Row, Terminal
    <3> QED
      BY <3>2, <3>3, <3>4
  <2> QED
    BY <2>1, <2>2
<1>6. ASSUME NEW p \in Procs, NEW t \in Tasks, Promote(p, t) PROVE Same \/ Over
  <2>1. CASE u # t
    BY <1>1, <1>6, <2>1 DEF Promote, PromoteSettlement
  <2>2. CASE u = t
    <3>1. body'[u] # body[u] /\ body'[u].at = "done" /\ artifact' = artifact
      BY <1>1, <1>6, <2>2 DEF Promote, Body, Ended, BodyState
    <3>2. CASE Body(u, "promote", p) /\ PromoteSettlement(u, OwnIntent(u), body[u].outcome)
      <4>1. /\ body[u].outcome \in {"completed", "failed", "cancelled"}
            /\ body[u].outcome = "completed" => artifact[u] = "result"
        BY <1>1, <3>2 DEF Body, BodyFact, BodyState, Settling, Content
      <4> QED
        BY <1>1, <3>1, <3>2, <4>1 DEF PromoteSettlement, Row, Terminal, None
    <3>3. CASE PromoteSettlement(u, OwnIntent(u), "failed")
      BY <1>1, <3>1, <3>3 DEF PromoteSettlement, Row, Terminal
    <3> QED
      BY <1>6, <2>2, <3>2, <3>3 DEF Promote
  <2> QED
    BY <2>1, <2>2
<1>7. ASSUME NEW p \in Procs, PromoteRecovered(p) PROVE Same \/ Over
  <2> DEFINE t == sweep[p].held.task
             i == sweep[p].held.intent
             s == sweep[p].row.status
  <2>1. /\ t \in Tasks /\ Own(t, i) /\ life[i.owner] = "gone"
        /\ s \in {"completed", "failed", "cancelled"} /\ (s = "completed" => artifact[t] = "result")
    BY <1>7 DEF PromoteRecovered, At, CInv, SweepFact
  <2>2. body[t].at = "done"
    BY <2>1, GoneIsDone
  <2>3. PromoteSettlement(t, i, s) /\ artifact' = artifact /\ body' = body
    BY <1>7 DEF PromoteRecovered
  <2> HIDE DEF t, i, s
  <2>4. CASE u # t
    BY <1>1, <2>3, <2>4 DEF PromoteSettlement
  <2>5. CASE u = t
    BY <1>1, <2>1, <2>2, <2>3, <2>5 DEF PromoteSettlement, Row, Terminal, None
  <2> QED
    BY <2>4, <2>5
<1>8. ASSUME NEW p \in Procs, MarkLost(p) PROVE Same \/ Over
  <2> DEFINE t == sweep[p].held.task
  <2>1. life[sweep[p].row.owner] = "gone"
    BY <1>8 DEF MarkLost, At, CInv, SweepFact
  <2>2. Same \/ (t = u /\ Active(u) /\ task[u].owner = sweep[p].row.owner /\ EndRow(u, "lost", None))
    BY <1>1, <1>8 DEF MarkLost, EndRow
  <2>3. ASSUME Active(u), task[u].owner = sweep[p].row.owner, EndRow(u, "lost", None) PROVE Over
    BY <1>1, <2>1, <2>3 DEF EndRow, Row, Terminal
  <2> QED
    BY <2>2, <2>3
<1>9. ASSUME UNCHANGED task PROVE Same
  BY <1>9
<1> HIDE DEF Same, New, Taken, Over
<1>10. ASSUME NEW p \in Procs, SweepStep(p) \/ SweepFails(p) PROVE Same \/ Over
  <2>1. PromoteRecovered(p) \/ MarkLost(p) \/ UNCHANGED task
    BY <1>10 DEF SweepStep, SweepFails, BeginSweep, ConsiderIntent, ListRunning, ReadRow
  <2> QED
    BY <1>7, <1>8, <1>9, <2>1
<1>11. ASSUME NEW p \in Procs, NEW t \in Tasks,
              Conclude(p, t) \/ PersistIntent(p, t) \/ WriteArtifact(p, t) \/ DropTurn(p, t)
       PROVE  Same
  BY <1>9, <1>11 DEF Conclude, PersistIntent, WriteArtifact, DropTurn
<1>12. ASSUME NEW p \in Procs, Boot(p) \/ Crash(p) PROVE Same
  BY <1>9, <1>12 DEF Boot, Crash
<1>13. Same \/ New \/ Taken \/ Over
  BY <1>2, <1>3, <1>4, <1>5, <1>6, <1>10, <1>11, <1>12 DEF Next, SettleStep
<1> QED
  BY <1>13 DEF Same, New, Taken, Over

LEMMA RowStep ==
  ASSUME CInv, ControlPlaneAssumption, Next, NEW u \in Tasks PROVE RowFact(u)'
<1>1. task[u] \in Row /\ RowFact(u)
  BY DEF CInv, TypeOK
<1>2. /\ \A q \in Procs : life[q] # "off" => life'[q] # "off"
      /\ body[u].at = "done" => body'[u].at = "done" /\ artifact'[u] = artifact[u]
  BY Moves
<1>3. CASE task'[u] = task[u]
  BY <1>1, <1>2, <1>3 DEF RowFact
<1>4. CASE task'[u] \in [status : {"running"}, owner : {q \in Procs : life'[q] = "up"}, output : {None}]
  BY <1>4 DEF RowFact, None
<1>5. ASSUME Active(u), NEW q \in Procs, life[q] = "up", task'[u] = [task[u] EXCEPT !.owner = q]
      PROVE  RowFact(u)'
  <2>1. task'[u].owner = q /\ task'[u].status = "running" /\ task'[u].output = task[u].output
    BY <1>1, <1>5 DEF Row, Active
  <2> QED
    BY <1>1, <1>2, <1>5, <2>1 DEF RowFact, Active
<1>6. ASSUME /\ Active(u) /\ task'[u].owner = task[u].owner
             /\ task'[u].output # None => task'[u].status = "completed"
             /\ Delegate(u) /\ task'[u].status = "completed" =>
                  task'[u].output = "artifact" /\ artifact'[u] = "result" /\ body'[u].at = "done"
      PROVE  RowFact(u)'
  BY <1>1, <1>2, <1>6 DEF RowFact, Active, None, Delegate
<1> QED
  BY RowMoves, <1>3, <1>4, <1>5, <1>6

LEMMA IntentStep ==
  ASSUME CInv, ControlPlaneAssumption, Next, NEW u \in Tasks PROVE IntentFact(u)'
<1>1. /\ intent \in [Tasks -> Intent] /\ task \in [Tasks -> Row] /\ body \in [Tasks -> BodyState]
      /\ IntentFact(u) /\ BodyFact(u)
  BY DEF CInv, TypeOK
<1>2. ASSUME NEW p \in Procs, NEW t \in Tasks, PersistIntent(p, t) PROVE IntentFact(u)'
  <2>1. CASE intent'[u] = intent[u]
    BY <1>1, <1>2, <2>1, OwnStays DEF IntentFact, PersistIntent, Active
  <2>2. CASE intent'[u] # intent[u]
    <3>1. /\ t = u /\ Active(u) /\ task[u].owner = p /\ task' = task /\ life' = life /\ life[p] = "up"
          /\ body[u].host = p /\ intent'[u] = OwnIntent(u) /\ body'[u] = [body[u] EXCEPT !.at = "write"]
          /\ body[u].at = "intend"
      BY <1>1, <1>2, <2>2 DEF PersistIntent, Body
    <3>2. body[u] \in BodyState /\ body[u].outcome # None
      BY <1>1, <3>1 DEF BodyFact, Settling
    <3>3. body'[u].at = "write" /\ body'[u].host = p
      BY <3>1, <3>2 DEF BodyState
    <3>4. intent'[u].owner = p /\ intent'[u].desired # None
      BY <3>1, <3>2 DEF OwnIntent
    <3> QED
      BY <3>1, <3>3, <3>4 DEF IntentFact, Own, Active
  <2> QED
    BY <2>1, <2>2
<1>3. ASSUME intent'[u] = intent[u] \/ intent'[u] = NoIntent, task'[u] = task[u] PROVE IntentFact(u)'
  BY <1>1, <1>3, OwnStays DEF IntentFact, Active
<1>4. ASSUME intent'[u] = NoIntent PROVE IntentFact(u)'
  BY <1>4 DEF IntentFact
<1>5. ASSUME NEW p \in Procs, NEW t \in Tasks, ClaimOwner(p, t) PROVE IntentFact(u)'
  <2>1. CASE u # t
    BY <1>1, <1>3, <1>5, <2>1 DEF ClaimOwner
  <2>2. CASE u = t
    <3>1. intent'[u] = IF intent[u].owner = p THEN intent[u] ELSE NoIntent
      BY <1>1, <1>5, <2>2 DEF ClaimOwner
    <3>2. intent[u] # NoIntent => intent[u].owner # p
      BY <1>1, <1>5, <2>2 DEF IntentFact, ClaimOwner
    <3> QED
      BY <1>4, <3>1, <3>2
  <2> QED
    BY <2>1, <2>2
<1>6. ASSUME NEW p \in Procs, NEW t \in Tasks, Register(p, t) \/ Spawn(p, t) PROVE IntentFact(u)'
  <2>1. CASE u # t
    BY <1>1, <1>3, <1>6, <2>1 DEF Register, Spawn
  <2>2. CASE u = t
    <3>1. intent'[u] = intent[u] /\ body[u].at = None
      BY <1>6, <2>2 DEF Register, Spawn
    <3>2. intent[u] = NoIntent
      BY <1>1, <3>1 DEF IntentFact, Own, None
    <3> QED
      BY <1>4, <3>1, <3>2
  <2> QED
    BY <2>1, <2>2
<1>7. ASSUME NEW t \in Tasks, NEW i, NEW s, PromoteSettlement(t, i, s) PROVE IntentFact(u)'
  BY <1>1, <1>3, <1>4, <1>7 DEF PromoteSettlement
<1>8. ASSUME NEW t \in Tasks, NEW s, NEW o, EndRow(t, s, o) PROVE IntentFact(u)'
  BY <1>1, <1>3, <1>4, <1>8 DEF EndRow
<1>9. ASSUME NEW p \in Procs, NEW t \in Tasks, Promote(p, t) PROVE IntentFact(u)'
  BY <1>7, <1>9 DEF Promote
<1>10. ASSUME NEW p \in Procs, NEW t \in Tasks, Cancel(p, t) \/ Return(p, t) PROVE IntentFact(u)'
  BY <1>3, <1>8, <1>10 DEF Cancel, Return
<1>11. ASSUME NEW p \in Procs, PromoteRecovered(p) PROVE IntentFact(u)'
  BY <1>7, <1>11 DEF PromoteRecovered, CInv, SweepFact, At
<1>12. ASSUME NEW p \in Procs, MarkLost(p) PROVE IntentFact(u)'
  <2>1. sweep[p].held.task \in Tasks
    BY <1>12 DEF MarkLost, CInv, SweepFact, At
  <2> QED
    BY <1>3, <1>8, <1>12, <2>1 DEF MarkLost
<1>13. ASSUME NEW p \in Procs, NEW e \in sweep[p].intents, ConsiderIntent(p, e) PROVE IntentFact(u)'
  <2>1. /\ task' = task
        /\ intent' = intent \/ intent' = [intent EXCEPT ![e.task] = NoIntent]
    BY <1>13 DEF ConsiderIntent
  <2> QED
    BY <1>1, <1>3, <2>1
<1>14. ASSUME UNCHANGED <<task, intent>> PROVE IntentFact(u)'
  BY <1>3, <1>14
<1>15. ASSUME NEW p \in Procs, SweepStep(p) \/ SweepFails(p) PROVE IntentFact(u)'
  BY <1>11, <1>12, <1>13, <1>14, <1>15 DEF SweepStep, SweepFails, BeginSweep, ListRunning, ReadRow
<1>16. ASSUME NEW p \in Procs, NEW t \in Tasks, Conclude(p, t) \/ WriteArtifact(p, t) \/ DropTurn(p, t)
       PROVE  IntentFact(u)'
  BY <1>14, <1>16 DEF Conclude, WriteArtifact, DropTurn
<1>17. ASSUME NEW p \in Procs, Boot(p) \/ Crash(p) PROVE IntentFact(u)'
  BY <1>14, <1>17 DEF Boot, Crash
<1> QED
  BY <1>2, <1>5, <1>6, <1>9, <1>10, <1>15, <1>16, <1>17 DEF Next, SettleStep

\* An owner whom no process can be taken for is gone.
LEMMA AbsentIsGone ==
  ASSUME CInv, NEW o \in Procs, life[o] # "off", AbsentOrReused(o) PROVE life[o] = "gone"
  BY DEF CInv, TypeOK, AbsentOrReused

LEMMA SweepStays ==
  ASSUME CInv, Next, NEW q \in Procs, sweep'[q] = sweep[q] PROVE SweepFact(q)'
<1>1. SweepFact(q) /\ sweep[q] \in SweepState
  BY DEF CInv, TypeOK
<1>2. \A e \in sweep[q].intents : e.task \in Tasks
  BY <1>1 DEF SweepState
<1>3. \A e \in sweep'[q].intents : Own(e.task, e.intent)'
  BY <1>1, <1>2, OwnStays DEF SweepFact
<1>4. ASSUME sweep[q].at = "promote"
      PROVE  /\ Own(sweep[q].held.task, sweep[q].held.intent)'
             /\ life'[sweep[q].held.intent.owner] = "gone"
             /\ artifact'[sweep[q].held.task] = artifact[sweep[q].held.task]
  <2>1. /\ sweep[q].held.task \in Tasks /\ Own(sweep[q].held.task, sweep[q].held.intent)
        /\ life[sweep[q].held.intent.owner] = "gone" /\ sweep[q].held.intent.owner \in Procs
    BY <1>1, <1>4 DEF SweepFact, Own
  <2>2. Own(sweep[q].held.task, sweep[q].held.intent)'
    BY <2>1, OwnStays
  <2> QED
    BY <2>1, <2>2, Moves, GoneIsDone
<1>5. sweep[q].at = "mark" => life'[sweep[q].row.owner] = "gone"
  BY <1>1, Moves DEF SweepFact
<1> QED
  BY <1>1, <1>3, <1>4, <1>5 DEF SweepFact

LEMMA SweepFactStep ==
  ASSUME CInv, ControlPlaneAssumption, Next, NEW q \in Procs PROVE SweepFact(q)'
<1>1. /\ SweepFact(q) /\ sweep \in [Procs -> SweepState] /\ intent \in [Tasks -> Intent]
      /\ task \in [Tasks -> Row]
      /\ \A t \in Tasks : IntentFact(t) /\ RowFact(t)
  BY DEF CInv, TypeOK
<1>2. \A t \in Tasks : \A i : Own(t, i) /\ life[i.owner] = "gone"
        => life'[i.owner] = "gone" /\ artifact'[t] = artifact[t]
  BY Moves, GoneIsDone DEF Own
<1>3. ASSUME sweep'[q] = sweep[q] PROVE SweepFact(q)'
  BY <1>3, SweepStays
<1>4. ASSUME sweep'[q] = NoSweep PROVE SweepFact(q)'
  BY <1>4 DEF SweepFact, NoSweep
\* A sweep that holds nothing, and has at most the intents it had.
<1>5. ASSUME sweep'[q].intents \subseteq sweep[q].intents, sweep'[q].at \in {"tasks", "intents"}
      PROVE  SweepFact(q)'
  <2>1. \A e \in sweep[q].intents : e.task \in Tasks /\ Own(e.task, e.intent)
    BY <1>1 DEF SweepFact, SweepState
  <2>2. \A e \in sweep[q].intents : Own(e.task, e.intent)'
    BY <2>1, OwnStays
  <2> QED
    BY <1>5, <2>2 DEF SweepFact
<1>6. ASSUME NEW p \in Procs, BeginSweep(p) PROVE SweepFact(q)'
  <2>1. CASE p # q
    BY <1>1, <1>3, <1>6, <2>1 DEF BeginSweep
  <2>2. CASE p = q
    <3> DEFINE S == {[task |-> t, intent |-> intent[t]] : t \in {t \in Tasks : intent[t] # NoIntent}}
    <3>1. sweep'[q] = [sweep[q] EXCEPT !.at = "intents", !.intents = S]
      BY <1>1, <1>6, <2>2 DEF BeginSweep
    <3>2. \A e \in S : e.task \in Tasks /\ Own(e.task, e.intent)
      BY <1>1 DEF IntentFact
    <3> HIDE DEF S
    <3>3. sweep[q] \in SweepState
      BY <1>1
    <3>4. sweep'[q].at = "intents" /\ sweep'[q].intents = S
      BY <3>1, <3>3 DEF SweepState
    <3>5. \A e \in S : Own(e.task, e.intent)'
      BY <3>2, OwnStays
    <3> QED
      BY <3>4, <3>5 DEF SweepFact
  <2> QED
    BY <2>1, <2>2
<1>7. ASSUME NEW p \in Procs, NEW e \in sweep[p].intents, ConsiderIntent(p, e) PROVE SweepFact(q)'
  <2>1. CASE p # q
    BY <1>1, <1>3, <1>7, <2>1 DEF ConsiderIntent, Drop
  <2>2. CASE p = q
    <3>1. /\ sweep[q] \in SweepState /\ sweep[q].at = "intents" /\ e \in sweep[q].intents
          /\ e.task \in Tasks /\ e.intent \in Intent /\ Own(e.task, e.intent)
      BY <1>1, <1>7, <2>2 DEF ConsiderIntent, At, SweepFact, SweepState
    <3> DEFINE R == [task[e.task] EXCEPT !.status = IF Valid(e.task, e.intent) THEN e.intent.desired
                                                    ELSE "failed"]
    <3>2. \/ sweep' = Drop(p, e)
          \/ /\ AbsentOrReused(e.intent.owner)
             /\ sweep' = [Drop(p, e) EXCEPT ![p].at = "promote", ![p].held = e, ![p].row = R]
      BY <1>7 DEF ConsiderIntent
    <3>3. CASE sweep' = Drop(p, e)
      <4>1. sweep'[q] = [sweep[q] EXCEPT !.intents = @ \ {e}]
        BY <1>1, <2>2, <3>3 DEF Drop
      <4>2. sweep'[q].intents = sweep[q].intents \ {e} /\ sweep'[q].at = "intents"
        BY <3>1, <4>1 DEF SweepState
      <4> QED
        BY <1>5, <4>2
    <3>4. CASE /\ AbsentOrReused(e.intent.owner)
               /\ sweep' = [Drop(p, e) EXCEPT ![p].at = "promote", ![p].held = e, ![p].row = R]
      <4>1. life[e.intent.owner] = "gone"
        BY <3>1, <3>4, AbsentIsGone DEF Own
      <4>2. /\ R.status \in {"completed", "failed", "cancelled"}
            /\ R.status = "completed" => artifact[e.task] = "result"
        <5>1. task[e.task] \in Row /\ e.intent.desired \in {"completed", "failed", "cancelled"}
          BY <1>1, <3>1 DEF Intent, Own
        <5>2. R.status = IF Valid(e.task, e.intent) THEN e.intent.desired ELSE "failed"
          BY <5>1 DEF Row
        <5>3. Valid(e.task, e.intent) /\ e.intent.desired = "completed" => artifact[e.task] = "result"
          BY DEF Valid, Content
        <5> HIDE DEF R
        <5> QED
          BY <5>1, <5>2, <5>3
      <4> HIDE DEF R
      <4>3. sweep'[q] = [sweep[q] EXCEPT !.intents = @ \ {e}, !.at = "promote", !.held = e, !.row = R]
        BY <1>1, <2>2, <3>4 DEF Drop
      <4>4. /\ sweep'[q].intents = sweep[q].intents \ {e} /\ sweep'[q].at = "promote"
            /\ sweep'[q].held = e /\ sweep'[q].row = R
        BY <3>1, <4>3 DEF SweepState
      <4>5. \A x \in sweep[q].intents : x.task \in Tasks /\ Own(x.task, x.intent)
        BY <1>1 DEF SweepFact, SweepState
      <4>6. \A x \in sweep[q].intents : Own(x.task, x.intent)'
        BY <4>5, OwnStays
      <4>7. life'[e.intent.owner] = "gone" /\ artifact'[e.task] = artifact[e.task]
        BY <1>2, <3>1, <4>1
      <4> QED
        BY <3>1, <4>2, <4>4, <4>6, <4>7 DEF SweepFact
    <3> QED
      BY <3>2, <3>3, <3>4
  <2> QED
    BY <2>1, <2>2
<1>8. ASSUME NEW p \in Procs, PromoteRecovered(p) \/ MarkLost(p) PROVE SweepFact(q)'
  <2>1. CASE p # q
    BY <1>1, <1>3, <1>8, <2>1 DEF PromoteRecovered, MarkLost
  <2>2. CASE p = q
    <3>1. sweep[q] \in SweepState
      BY <1>1
    <3>2. \/ sweep'[q] = [sweep[q] EXCEPT !.at = "intents", !.held = Nothing, !.row = NoRow]
          \/ sweep'[q] = [sweep[q] EXCEPT !.at = "tasks", !.held = Nothing, !.row = NoRow]
      BY <1>1, <1>8, <2>2 DEF PromoteRecovered, MarkLost
    <3>3. sweep'[q].intents = sweep[q].intents /\ sweep'[q].at \in {"intents", "tasks"}
      BY <3>1, <3>2 DEF SweepState
    <3> QED
      BY <1>5, <3>3
  <2> QED
    BY <2>1, <2>2
<1>9. ASSUME NEW p \in Procs, ListRunning(p) PROVE SweepFact(q)'
  <2>1. CASE p # q
    BY <1>1, <1>3, <1>9, <2>1 DEF ListRunning
  <2>2. CASE p = q
    <3>1. sweep[q] \in SweepState
      BY <1>1
    <3>2. PICK s \in SUBSET Tasks : sweep'[q] = [sweep[q] EXCEPT !.at = "tasks", !.tasks = s]
      BY <1>1, <1>9, <2>2 DEF ListRunning
    <3>3. sweep'[q].intents = sweep[q].intents /\ sweep'[q].at = "tasks"
      BY <3>1, <3>2 DEF SweepState
    <3> QED
      BY <1>5, <3>3
  <2> QED
    BY <2>1, <2>2
<1>10. ASSUME NEW p \in Procs, NEW t \in Tasks, ReadRow(p, t) PROVE SweepFact(q)'
  <2>1. CASE p # q
    BY <1>1, <1>3, <1>10, <2>1 DEF ReadRow
  <2>2. CASE p = q
    <3>1. sweep[q] \in SweepState /\ sweep[q].at = "tasks"
      BY <1>1, <1>10, <2>2 DEF ReadRow, At
    <3>2. CASE Active(t) /\ AbsentOrReused(task[t].owner)
      <4>1. sweep'[q] = [sweep[q] EXCEPT !.at = "mark", !.tasks = @ \ {t},
                           !.held = [Nothing EXCEPT !.task = t], !.row = task[t]]
        BY <1>1, <1>10, <2>2, <3>2 DEF ReadRow
      <4>2. /\ sweep'[q].intents = sweep[q].intents /\ sweep'[q].at = "mark"
            /\ sweep'[q].held = [Nothing EXCEPT !.task = t] /\ sweep'[q].row = task[t]
        BY <3>1, <4>1 DEF SweepState
      <4>3. sweep'[q].held.task = t
        BY <4>2 DEF Nothing
      <4>4. task[t].owner \in Procs /\ life[task[t].owner] # "off"
        BY <1>1, <3>2 DEF RowFact, Active, None
      <4>5. life'[task[t].owner] = "gone"
        BY <3>2, <4>4, AbsentIsGone, Moves
      <4>6. \A x \in sweep[q].intents : x.task \in Tasks /\ Own(x.task, x.intent)
        BY <1>1 DEF SweepFact, SweepState
      <4>7. \A x \in sweep[q].intents : Own(x.task, x.intent)'
        BY <4>6, OwnStays
      <4> QED
        BY <4>2, <4>3, <4>4, <4>5, <4>7 DEF SweepFact
    <3>3. CASE ~(Active(t) /\ AbsentOrReused(task[t].owner))
      <4>1. sweep'[q] = [sweep[q] EXCEPT !.tasks = @ \ {t}]
        BY <1>1, <1>10, <2>2, <3>3 DEF ReadRow
      <4>2. sweep'[q].intents = sweep[q].intents /\ sweep'[q].at = "tasks"
        BY <3>1, <4>1 DEF SweepState
      <4> QED
        BY <1>5, <4>2
    <3> QED
      BY <3>2, <3>3
  <2> QED
    BY <2>1, <2>2
<1>11. ASSUME NEW p \in Procs, SweepFails(p) \/ Crash(p) PROVE SweepFact(q)'
  <2>1. sweep'[q] = sweep[q] \/ sweep'[q] = NoSweep
    BY <1>1, <1>11 DEF SweepFails, Crash
  <2> QED
    BY <1>3, <1>4, <2>1
<1>12. ASSUME NEW p \in Procs, NEW t \in Tasks,
              \/ Register(p, t) \/ Conclude(p, t) \/ SettleStep(p, t) \/ Cancel(p, t)
              \/ ClaimOwner(p, t) \/ Spawn(p, t) \/ Return(p, t) \/ DropTurn(p, t)
       PROVE  SweepFact(q)'
  BY <1>3, <1>12 DEF Register, Conclude, SettleStep, PersistIntent, WriteArtifact, Promote, Cancel,
                     ClaimOwner, Spawn, Return, DropTurn
<1>13. ASSUME NEW p \in Procs, Boot(p) PROVE SweepFact(q)'
  BY <1>3, <1>13 DEF Boot
<1>14. ASSUME NEW p \in Procs, SweepStep(p) PROVE SweepFact(q)'
  BY <1>6, <1>7, <1>8, <1>9, <1>10, <1>14 DEF SweepStep
<1> QED
  BY <1>11, <1>12, <1>13, <1>14 DEF Next

LEMMA CInvInit == ASSUME ControlPlaneAssumption, Init PROVE CInv
<1>1. TypeOK
  BY NoTypes DEF Init, TypeOK, ControlPlaneAssumption
<1>2. \A t \in Tasks : BodyFact(t) /\ RowFact(t) /\ IntentFact(t)
  BY DEF Init, BodyFact, RowFact, IntentFact, NoBody, NoRow, None, Settling
<1>3. \A p \in Procs : SweepFact(p)
  BY DEF Init, SweepFact, NoSweep
<1> QED
  BY <1>1, <1>2, <1>3 DEF CInv

LEMMA CInvStep == ASSUME ControlPlaneAssumption, CInv, [Next]_vars PROVE CInv'
<1>1. CASE Next
  BY <1>1, TypeStep, BodyStep, RowStep, IntentStep, SweepFactStep DEF CInv
<1>2. CASE UNCHANGED vars
  <2>1. TypeOK'
    BY <1>2 DEF vars, CInv, TypeOK
  <2>2. \A t \in Tasks : (BodyFact(t) /\ RowFact(t))'
    BY <1>2 DEF vars, CInv, BodyFact, RowFact
  <2>3. \A t \in Tasks : IntentFact(t)'
    BY <1>2 DEF vars, CInv, IntentFact, Own, Active
  <2>4. \A p \in Procs : SweepFact(p)'
    BY <1>2 DEF vars, CInv, SweepFact, Own
  <2> QED
    BY <2>1, <2>2, <2>3, <2>4 DEF CInv
<1> QED
  BY <1>1, <1>2

LEMMA CInvAlways == Spec => []CInv
<1>1. Init => CInv
  BY CInvInit, ControlPlaneAssumption
<1>2. CInv /\ [Next]_vars => CInv'
  BY CInvStep, ControlPlaneAssumption
<1> QED
  BY <1>1, <1>2, PTL DEF Spec

-----------------------------------------------------------------------------
(* Theorems.                                                                  *)

\* The state of the control plane keeps its types, in every process.
THEOREM TasksTyped == Spec => []TypeOK
<1>1. CInv => TypeOK
  BY DEF CInv
<1> QED
  BY <1>1, CInvAlways, PTL

\* A delegate shown as completed has its output on disk, however it was settled:
\* by its own body, or by a sweep after its process died.
THEOREM CompletedReadable == Spec => []CompletedIsReadable
<1>1. CInv => CompletedIsReadable
  BY DEF CInv, RowFact, CompletedIsReadable
<1> QED
  BY <1>1, CInvAlways, PTL

\* No settlement intent outlives its task, or the ownership it was written under.
THEOREM IntentsAreOwners == Spec => []IntentIsOwners
<1>1. CInv => IntentIsOwners
  BY DEF CInv, IntentFact, IntentIsOwners
<1> QED
  BY <1>1, CInvAlways, PTL

\* No step of any process changes a terminal row.
THEOREM TasksEndOnce == Spec => EndsOnce
<1>1. CInv /\ [Next]_vars => [\A t \in Tasks : task[t].status \in Terminal => task'[t] = task[t]]_vars
  <2> SUFFICES ASSUME CInv, Next, NEW t \in Tasks, task[t].status \in Terminal
               PROVE  task'[t] = task[t]
    OBVIOUS
  <2>1. task[t].status # None /\ ~Active(t)
    BY DEF Terminal, None, Active
  <2> QED
    BY <2>1, RowMoves, ControlPlaneAssumption
<1> QED
  BY <1>1, CInvAlways, PTL DEF Spec, EndsOnce

\* Only its own body or a cancellation ends the row of an owner that lives.
THEOREM LiveOwnersKeepTasks == Spec => LiveOwnerKeepsTask
<1> DEFINE Kept == \A t \in Tasks :
             Active(t) /\ task'[t].status \in Terminal \ {"cancelled"}
               => life[task[t].owner] # "up" \/ body'[t] # body[t]
<1>1. CInv /\ [Next]_vars => [Kept]_vars
  <2> SUFFICES ASSUME CInv, Next, NEW t \in Tasks,
                      Active(t), task'[t].status \in Terminal \ {"cancelled"}
               PROVE  life[task[t].owner] # "up" \/ body'[t] # body[t]
    OBVIOUS
  <2>1. task[t] \in Row /\ task[t].status = "running"
    BY DEF CInv, TypeOK, Active
  <2>2. \A q : [task[t] EXCEPT !.owner = q].status = "running"
    BY <2>1 DEF Row
  <2>3. task'[t].status # "running" /\ task'[t].status # "cancelled"
    BY DEF Terminal
  <2>4. /\ task'[t] # task[t] /\ task[t].status # None
        /\ \A q \in Procs : task'[t] # [task[t] EXCEPT !.owner = q]
    BY <2>1, <2>2, <2>3 DEF None
  <2>5. \/ task'[t].status = "cancelled" \/ body'[t] # body[t] \/ life[task[t].owner] = "gone"
    BY <2>4, RowMoves, ControlPlaneAssumption
  <2> QED
    BY <2>3, <2>5
<1> QED
  BY <1>1, CInvAlways, PTL DEF Spec, LiveOwnerKeepsTask
=============================================================================
