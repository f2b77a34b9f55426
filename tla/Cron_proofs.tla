---------------------------- MODULE Cron_proofs ----------------------------
(* For any jobs, declarations, schedules and edits, as long as one daemon runs *)
(* at a time: the lock of a row is that of its run, and a one-shot is not      *)
(* launched again by accident.  Only the daemon that is up has runs, so a step *)
(* of a run is alone with its job, but for the clients, whose edits keep the   *)
(* lock.                                                                       *)
EXTENDS Cron, TLAPS, FiniteSetTheorems

OneUp == \A p, q \in Procs : life[p] = "up" /\ life[q] = "up" => p = q

\* Only a scheduler in its loop has runs.
Placed(p) ==
  /\ life[p] = "up" <=> stage[p] # "off"
  /\ \A j \in Jobs : work[p][j].at # "idle" => stage[p] = "poll"

\* The completion of this run disables or deletes its row.
Finishing(w) ==
  \/ w.at = "run" /\ OneShot(w.row)
  \/ w.at \in {"persist", "fallback"} /\ w.as \in {"delete", "disable"}

\* A one-shot that ran, and that nothing has enabled since, is disabled or
\* gone, or will be when its run completes; and it is not selected.
SpentFact(j) ==
  j \in spent \ revived =>
    /\ \A p \in Procs : work[p][j].at \notin {"chosen", "queued"}
    /\ \/ Exists(j) => ~job[j].enabled
       \/ \E p \in Procs : Finishing(work[p][j])

Inv ==
  /\ TypeOK /\ OneUp
  /\ \A p \in Procs : Placed(p)
  /\ LockMatchesRun
  /\ \A j \in Jobs : SpentFact(j)

-----------------------------------------------------------------------------
(* Rows and runs.                                                             *)

LEMMA NextRunType ==
  ASSUME NEW s \in Schedule, NEW from \in Nat PROVE NextRun(s, from) \in Nat
  BY DEF Schedule, NextRun

\* What the statements leave of a row.
LEMMA RowTypes ==
  ASSUME NEW r \in Row, NEW snap \in Row, now \in Nat
  PROVE  /\ [r EXCEPT !.locked = TRUE] \in Row
         /\ [r EXCEPT !.locked = TRUE].locked /\ [r EXCEPT !.locked = TRUE].enabled = r.enabled
         /\ Unlocked(r) \in Row /\ ~Unlocked(r).locked /\ Unlocked(r).enabled = r.enabled
         /\ \A b \in BOOLEAN : /\ [r EXCEPT !.enabled = b] \in Row
                               /\ [r EXCEPT !.enabled = b].enabled = b
                               /\ [r EXCEPT !.enabled = b].locked = r.locked
         /\ LET later == [r EXCEPT !.next = NextRun(snap.sched, now)]
            IN later \in Row /\ later.locked = r.locked /\ later.enabled = r.enabled
         /\ r.locked \in BOOLEAN /\ r.enabled \in BOOLEAN /\ r.sched \in Schedule
<1>1. snap.sched \in Schedule /\ NextRun(snap.sched, now) \in Nat
  BY NextRunType DEF Row
<1> QED
  BY <1>1 DEF Row, Unlocked

LEMMA SkippedType ==
  ASSUME NEW r \in Row, NEW snap \in Row, now \in Nat
  PROVE  /\ Skipped(snap, r) \in Row /\ Skipped(snap, r).locked = r.locked
         /\ Skipped(snap, r).enabled => r.enabled
<1>1. snap.sched \in Schedule /\ NextRun(snap.sched, now) \in Nat
  BY NextRunType DEF Row
<1> QED
  BY <1>1 DEF Row, Skipped

\* A run has a row, and once it ended the way it completes.
LEMMA WorkTypes ==
  ASSUME NEW w \in Work
  PROVE  /\ w.at = "idle" <=> w = Idle
         /\ w.at # "idle" => w.row \in Row
         /\ w.at \in {"chosen", "queued", "run"} => w \in [at : {"chosen", "queued", "run"}, row : Row]
         /\ w.at \in {"persist", "fallback", "release"} =>
              w \in [at : {"persist", "fallback", "release"}, row : Row,
                     as : {"delete", "disable", "reschedule"}]
         /\ w.at \in {"idle"} \cup {"chosen", "queued", "run"} \cup {"persist", "fallback", "release"}
<1>1. CASE w = Idle
  BY <1>1 DEF Idle
<1>2. CASE w \in [at : {"chosen", "queued", "run"}, row : Row]
  BY <1>2 DEF Idle
<1>3. CASE w \in [at : {"persist", "fallback", "release"}, row : Row,
                  as : {"delete", "disable", "reschedule"}]
  BY <1>3 DEF Idle
<1> QED
  BY <1>1, <1>2, <1>3 DEF Work

LEMMA IdleType == Idle \in Work /\ Idle.at = "idle"
  BY DEF Idle, Work

\* A step of a run leaves its snapshot and the way it completes.
LEMMA StepTypes ==
  ASSUME NEW w \in Work
  PROVE  /\ \A to \in {"queued", "run"} : w.at \in {"chosen", "queued"} =>
              /\ [w EXCEPT !.at = to] \in Work /\ [w EXCEPT !.at = to].at = to
              /\ [w EXCEPT !.at = to].row = w.row
         /\ \A to \in {"fallback", "release"} : w.at \in {"persist", "fallback"} =>
              /\ [w EXCEPT !.at = to] \in Work /\ [w EXCEPT !.at = to].at = to
              /\ [w EXCEPT !.at = to].as = w.as
  BY WorkTypes DEF Work

-----------------------------------------------------------------------------
(* What Inv says of daemons.                                                  *)

\* One daemon at most has runs, and it is in its loop.
LEMMA Alone ==
  ASSUME Inv, NEW p \in Procs, NEW j \in Jobs, work[p][j].at # "idle"
  PROVE  /\ life[p] = "up" /\ stage[p] = "poll"
         /\ \A q \in Procs, k \in Jobs : q # p => work[q][k].at = "idle"
  BY DEF Inv, OneUp, Placed

\* None has any while one starts, or while none is up.
LEMMA Quiet ==
  ASSUME Inv, \A q \in Procs : stage[q] # "poll"
  PROVE  \A q \in Procs, k \in Jobs : work[q][k].at = "idle"
  BY DEF Inv, Placed

LEMMA QuietWhileStarting ==
  ASSUME Inv, NEW p \in Procs, stage[p] # "off", stage[p] # "poll"
  PROVE  /\ life[p] = "up"
         /\ \A q \in Procs : q # p => life[q] # "up" /\ stage[q] = "off"
         /\ \A q \in Procs, k \in Jobs : work[q][k].at = "idle"
  BY DEF Inv, OneUp, Placed

\* A lock that no run holds could not be freed.
LEMMA OwnerlessIsStuck ==
  ASSUME Inv, NEW p \in Procs, stage[p] \in {"catch up", "skip", "poll"},
         NEW j \in Locked, \A q \in Procs : work[q][j].at \notin Claimed
  PROVE  j \in stuck
  BY DEF Inv, Placed, LockMatchesRun, Locked

-----------------------------------------------------------------------------
(* The three ways in which a step changes rows.                               *)

\* A step of a run.
LEMMA RunStepKeeps ==
  ASSUME Inv, NEW p \in Procs, NEW j \in Jobs, work[p][j].at # "idle",
         NEW w \in Work, NEW r \in Row \cup {NoJob},
         work' = [work EXCEPT ![p] = [work[p] EXCEPT ![j] = w]],
         job' = [job EXCEPT ![j] = r],
         UNCHANGED <<now, procVars, edit>>, stuck \subseteq stuck',
         w.at \in Claimed => r = NoJob \/ r.locked,
         r # NoJob /\ r.locked => w.at \in Claimed \/ j \in stuck',
         spent' \ revived' \subseteq (spent \ revived) \cup {j},
         j \in spent' \ revived' =>
           /\ w.at \notin {"chosen", "queued"}
           /\ r = NoJob \/ ~r.enabled \/ Finishing(w)
  PROVE  Inv'
<1>1. /\ life[p] = "up" /\ stage[p] = "poll"
      /\ \A q \in Procs, k \in Jobs : q # p => work[q][k].at = "idle"
  BY Alone
<1>2. TypeOK /\ TypeOK'
  BY DEF Inv, TypeOK, procVars
<1>3. /\ work'[p][j] = w /\ job'[j] = r
      /\ \A q \in Procs, k \in Jobs : q # p \/ k # j => work'[q][k] = work[q][k]
      /\ \A k \in Jobs : k # j => job'[k] = job[k]
  BY <1>2 DEF TypeOK
<1>4. OneUp' /\ \A q \in Procs : Placed(q)'
  BY <1>1, <1>3 DEF Inv, OneUp, Placed, procVars
<1>5. LockMatchesRun'
  <2> SUFFICES ASSUME NEW k \in Jobs
               PROVE  /\ (\E q \in Procs : work'[q][k].at \in Claimed) =>
                           job'[k] = NoJob \/ job'[k].locked
                      /\ job'[k] # NoJob /\ job'[k].locked =>
                           (\E q \in Procs : work'[q][k].at \in Claimed) \/ k \in stuck'
    BY DEF LockMatchesRun, Exists, Locked
  <2>1. CASE k = j
    BY <1>1, <1>3, <2>1 DEF Claimed
  <2>2. CASE k # j
    BY <1>1, <1>3, <2>2 DEF Inv, LockMatchesRun, Exists, Locked
  <2> QED
    BY <2>1, <2>2
<1>6. ASSUME NEW k \in Jobs PROVE SpentFact(k)'
  <2>1. CASE k = j
    BY <1>1, <1>3, <2>1 DEF SpentFact, Exists, Finishing
  <2>2. CASE k # j
    BY <1>3, <2>2 DEF Inv, SpentFact, Exists, Finishing
  <2> QED
    BY <2>1, <2>2
<1> QED
  BY <1>2, <1>4, <1>5, <1>6 DEF Inv

\* A step of a client, or time.
LEMMA ClientStepKeeps ==
  ASSUME Inv, TypeOK', UNCHANGED <<procVars, work, stuck>>,
         \A j \in Jobs : Exists(j)' => Exists(j) /\ (job'[j].locked <=> job[j].locked),
         \A j \in Jobs : j \in spent' \ revived' =>
           /\ j \in spent \ revived
           /\ Exists(j)' /\ job'[j].enabled => job[j].enabled
  PROVE  Inv'
<1>1. OneUp' /\ \A p \in Procs : Placed(p)'
  BY DEF Inv, OneUp, Placed, procVars
<1>2. LockMatchesRun'
  BY DEF Inv, LockMatchesRun, Locked, procVars
<1>3. \A j \in Jobs : SpentFact(j)'
  BY DEF Inv, SpentFact, Finishing, Exists
<1> QED
  BY <1>1, <1>2, <1>3 DEF Inv

\* A step of a daemon that starts.
LEMMA StartStepKeeps ==
  ASSUME Inv, TypeOK', NEW p \in Procs, stage[p] # "off", stage[p] # "poll",
         NEW s, s # "off", stage' = [stage EXCEPT ![p] = s],
         UNCHANGED <<life, work>>,
         s = "clear" \/ Locked' \subseteq stuck',
         \A j \in Jobs : j \in spent' \ revived' =>
           /\ j \in spent \ revived
           /\ Exists(j)' /\ job'[j].enabled => Exists(j) /\ job[j].enabled
  PROVE  Inv'
<1>1. /\ life[p] = "up"
      /\ \A q \in Procs : q # p => life[q] # "up" /\ stage[q] = "off"
      /\ \A q \in Procs, k \in Jobs : work[q][k].at = "idle"
  BY QuietWhileStarting
<1>2. /\ stage \in [Procs -> {"off", "sync", "clear", "catch up", "skip", "poll"}]
      /\ stage'[p] = s /\ \A q \in Procs : q # p => stage'[q] = stage[q]
  BY DEF Inv, TypeOK
<1>3. OneUp' /\ \A q \in Procs : Placed(q)'
  BY <1>1, <1>2 DEF Inv, OneUp, Placed
<1>4. LockMatchesRun'
  BY <1>1, <1>2 DEF LockMatchesRun, Claimed
<1>5. \A j \in Jobs : SpentFact(j)'
  BY <1>1 DEF Inv, SpentFact, Finishing, Exists
<1> QED
  BY <1>3, <1>4, <1>5 DEF Inv

-----------------------------------------------------------------------------
(* Daemons start and stop.                                                    *)

LEMMA InitInv == Init => Inv
<1> SUFFICES ASSUME Init PROVE Inv
  OBVIOUS
<1>1. TypeOK
  <2>1. Unconfigured \in Config
    BY DEF Unconfigured, Config
  <2> QED
    BY <2>1, IdleType, CronAssumption DEF Init, TypeOK
<1>2. \A p \in Procs, j \in Jobs : work[p][j].at = "idle"
  BY IdleType DEF Init
<1>3. OneUp /\ \A p \in Procs : Placed(p)
  BY <1>2 DEF Init, OneUp, Placed
<1>4. LockMatchesRun
  BY <1>2 DEF Init, LockMatchesRun, Claimed
<1>5. \A j \in Jobs : SpentFact(j)
  BY DEF Init, SpentFact
<1> QED
  BY <1>1, <1>3, <1>4, <1>5 DEF Inv

LEMMA BootKeeps ==
  ASSUME Inv, MaxUp <= 1, NEW p \in Procs, Boot(p) PROVE Inv'
<1> USE DEF Inv, Boot, tableVars, history
<1>1. \A q \in Procs : life[q] # "up"
  <2> DEFINE up == {q \in Procs : life[q] = "up"}
  <2>1. IsFiniteSet(up)
    BY FS_Subset, CronAssumption
  <2>2. Cardinality(up) \in Nat /\ (Cardinality(up) = 0 <=> up = {})
    BY <2>1, FS_CardinalityType, FS_EmptySet
  <2>3. Cardinality(up) = 0
    BY <2>2, CronAssumption
  <2> QED
    BY <2>2, <2>3
<1>2. /\ life'[p] = "up" /\ stage'[p] = "sync"
      /\ \A q \in Procs : q # p => life'[q] = life[q] /\ stage'[q] = stage[q]
  BY DEF TypeOK
<1>3. \A q \in Procs, k \in Jobs : work[q][k].at = "idle"
  BY <1>1, Quiet DEF Placed
<1>4. TypeOK'
  BY CronAssumption DEF TypeOK
<1>5. OneUp' /\ \A q \in Procs : Placed(q)'
  BY <1>1, <1>2, <1>3 DEF OneUp, Placed
<1>6. LockMatchesRun'
  BY <1>1, <1>2, <1>3 DEF LockMatchesRun, Claimed
<1>7. \A j \in Jobs : SpentFact(j)'
  BY DEF SpentFact, Finishing, Exists
<1> QED
  BY <1>4, <1>5, <1>6, <1>7

LEMMA StopKeeps ==
  ASSUME Inv, NEW p \in Procs, Stop(p) PROVE Inv'
<1> USE DEF Inv, Stop, tableVars
<1>1. \A q \in Procs : q # p => life[q] # "up" /\ stage[q] = "off"
  BY DEF OneUp, Placed
<1>2. /\ life'[p] = "gone" /\ stage'[p] = "off"
      /\ \A q \in Procs : q # p => life'[q] = life[q] /\ stage'[q] = stage[q]
  BY DEF TypeOK
<1>3. \A k \in Jobs : work'[p][k].at = "idle"
  BY IdleType DEF TypeOK
<1>4. \A q \in Procs, k \in Jobs : q # p => work'[q][k] = work[q][k] /\ work[q][k].at = "idle"
  BY <1>1 DEF TypeOK, Placed
<1>5. TypeOK'
  <2>1. Unconfigured \in Config
    BY DEF Unconfigured, Config
  <2> QED
    BY <2>1, IdleType DEF TypeOK
<1>6. OneUp' /\ \A q \in Procs : Placed(q)'
  BY <1>1, <1>2, <1>3, <1>4 DEF OneUp, Placed
<1>7. LockMatchesRun'
  BY <1>1, <1>2, <1>3, <1>4 DEF LockMatchesRun, Claimed
<1>8. ASSUME NEW j \in Jobs PROVE SpentFact(j)'
  <2> SUFFICES ASSUME j \in spent \ revived, work[p][j].at \notin {"run", "persist", "fallback"}
               PROVE  SpentFact(j)'
    BY DEF SpentFact
  <2>1. Exists(j) => ~job[j].enabled
    BY <1>4 DEF SpentFact, Finishing
  <2> QED
    BY <2>1, <1>3, <1>4 DEF SpentFact, Exists
<1> QED
  BY <1>5, <1>6, <1>7, <1>8

LEMMA SyncedType ==
  ASSUME TypeOK, NEW p \in Procs, NEW j \in Jobs
  PROVE  Synced(p, j) \in Row \cup {NoJob}
<1>1. ASSUME j \in config[p].decls
      PROVE  /\ Declared[j].sched \in Schedule /\ Declared[j].enabled \in BOOLEAN
             /\ NextRun(Declared[j].sched, now) \in Nat
  <2>1. j \in DOMAIN Declared
    BY <1>1 DEF TypeOK, Config
  <2>2. Declared[j] \in [sched : Schedule, enabled : BOOLEAN]
    BY <2>1, CronAssumption
  <2> QED
    BY <2>2, NextRunType DEF TypeOK
<1>2. CASE j \in config[p].decls /\ Exists(j)
  <2>1. job[j] \in Row
    BY <1>2 DEF TypeOK, Exists
  <2>2. Redeclared(job[j], Declared[j]) \in Row
    BY <1>1, <1>2, <2>1 DEF Redeclared, Row
  <2> QED
    BY <1>2, <2>2 DEF Synced
<1>3. CASE j \in config[p].decls /\ ~Exists(j)
  <2>1. Inserted(Declared[j]) \in Row
    BY <1>1, <1>3 DEF Inserted, Row
  <2> QED
    BY <1>3, <2>1 DEF Synced
<1>4. CASE j \notin config[p].decls
  BY <1>4 DEF Synced, TypeOK
<1> QED
  BY <1>2, <1>3, <1>4

LEMMA SyncKeeps ==
  ASSUME Inv, NEW p \in Procs, Sync(p) PROVE Inv'
<1>1. PICK part \in SUBSET Jobs :
        /\ job' = [j \in Jobs |-> IF j \in part THEN Synced(p, j) ELSE job[j]]
        /\ revived' = revived \cup {j \in part : Enables(j, Synced(p, j))}
  BY DEF Sync
<1>2. TypeOK'
  BY <1>1, SyncedType DEF Inv, Sync, TypeOK
<1>3. \A j \in Jobs : j \in spent' \ revived' =>
        /\ j \in spent \ revived
        /\ Exists(j)' /\ job'[j].enabled => Exists(j) /\ job[j].enabled
  BY <1>1 DEF Sync, Enables, Exists
<1> QED
  BY <1>2, <1>3, StartStepKeeps DEF Sync

LEMMA ClearLocksKeeps ==
  ASSUME Inv, NEW p \in Procs, ClearLocks(p) PROVE Inv'
<1> DEFINE s == IF config[p].catchUp THEN "catch up" ELSE "skip"
           freed == [j \in Jobs |-> IF j \in Locked THEN Unlocked(job[j]) ELSE job[j]]
<1>1. \/ job' = freed /\ stuck' = {}
      \/ job' = job /\ stuck' = Locked
  BY DEF ClearLocks, Unlocked
<1>2. ASSUME NEW j \in Locked
      PROVE  /\ job[j] \in Row /\ Unlocked(job[j]) \in Row /\ Unlocked(job[j]) # NoJob
             /\ ~Unlocked(job[j]).locked /\ Unlocked(job[j]).enabled = job[j].enabled
  <2>1. job[j] \in Row
    BY DEF Inv, TypeOK, Locked, Exists
  <2> QED
    BY <2>1 DEF Row, Unlocked, NoJob
<1>3. TypeOK'
  BY <1>1, <1>2 DEF Inv, ClearLocks, TypeOK
<1>4. Locked' \subseteq stuck'
  BY <1>1, <1>2 DEF Locked, Exists
<1>5. \A j \in Jobs : Exists(j)' /\ job'[j].enabled => Exists(j) /\ job[j].enabled
  BY <1>1, <1>2 DEF Locked, Exists
<1> QED
  BY <1>3, <1>4, <1>5, StartStepKeeps DEF ClearLocks

LEMMA SkipMissedKeeps ==
  ASSUME Inv, NEW p \in Procs, SkipMissed(p) PROVE Inv'
<1>1. PICK part \in SUBSET Overdue(p) :
        job' = [j \in Jobs |-> IF j \in part THEN Skipped(job[j], job[j]) ELSE job[j]]
  <2>1. PICK failed \in SUBSET Overdue(p) :
          job' = [j \in Jobs |-> IF j \in Overdue(p) \ failed
                                 THEN Skipped(job[j], job[j]) ELSE job[j]]
    BY DEF SkipMissed
  <2> QED
    BY <2>1
<1>2. ASSUME NEW j \in part
      PROVE  /\ j \in Jobs /\ job[j] \in Row /\ Skipped(job[j], job[j]) \in Row
             /\ ~job[j].locked /\ ~Skipped(job[j], job[j]).locked
             /\ Skipped(job[j], job[j]).enabled => job[j].enabled
  <2>1. j \in Jobs /\ job[j] \in Row /\ ~job[j].locked /\ now \in Nat
    BY DEF Inv, TypeOK, Overdue, Exists
  <2> QED
    BY <2>1, SkippedType
<1>3. TypeOK'
  BY <1>1, <1>2 DEF Inv, SkipMissed, TypeOK, history
<1>4. Locked' \subseteq Locked
  BY <1>1, <1>2 DEF Locked, Exists
<1>5. Locked \subseteq stuck
  <2>1. \A q \in Procs, k \in Jobs : work[q][k].at \notin Claimed
    BY QuietWhileStarting DEF SkipMissed, Claimed
  <2> QED
    BY <2>1, OwnerlessIsStuck DEF SkipMissed, Locked
<1>6. \A j \in Jobs : Exists(j)' /\ job'[j].enabled => Exists(j) /\ job[j].enabled
  BY <1>1, <1>2 DEF Overdue, Exists
<1> QED
  BY <1>3, <1>4, <1>5, <1>6, StartStepKeeps DEF SkipMissed, history

-----------------------------------------------------------------------------
(* Due jobs are selected.                                                     *)

LEMMA ChooseKeeps ==
  ASSUME Inv, NEW p \in Procs, stage[p] \in {"catch up", "poll"},
         \A j \in Jobs : work[p][j].at = "idle",
         NEW chosen \in SUBSET Overdue(p), Choose(p, chosen),
         stage' = [stage EXCEPT ![p] = "poll"],
         UNCHANGED <<tableVars, life, config, edit, history>>
  PROVE  Inv'
<1> USE DEF tableVars, history
<1>1. /\ life[p] = "up"
      /\ \A q \in Procs : q # p => life[q] # "up" /\ stage[q] = "off"
  BY DEF Inv, OneUp, Placed
<1>2. \A q \in Procs, k \in Jobs : work[q][k].at = "idle"
  BY <1>1 DEF Inv, Placed
<1>3. /\ stage'[p] = "poll"
      /\ \A q \in Procs : q # p => stage'[q] = stage[q] /\ work'[q] = work[q]
  BY DEF Inv, TypeOK, Choose
<1>4. \A q \in Procs, k \in Jobs : work'[q][k].at # "idle" =>
        q = p /\ k \in chosen /\ work'[q][k].at = "chosen"
  <2> SUFFICES ASSUME NEW q \in Procs, NEW k \in Jobs, work'[q][k].at # "idle"
               PROVE  q = p /\ k \in chosen /\ work'[q][k].at = "chosen"
    OBVIOUS
  <2>1. q = p
    BY <1>2, <1>3
  <2>2. k \notin chosen => work'[p][k] = Idle
    BY DEF Inv, TypeOK, Choose
  <2>3. k \in chosen
    BY <2>1, <2>2, IdleType
  <2>4. work'[p][k].at = "chosen"
    BY <2>3 DEF Inv, TypeOK, Choose
  <2> QED
    BY <2>1, <2>3, <2>4
<1>5. TypeOK'
  <2>1. \A k \in chosen : [at |-> "chosen", row |-> job[k]] \in Work
    BY DEF Inv, TypeOK, Overdue, Exists, Work
  <2>2. [j \in Jobs |-> IF j \in chosen THEN [at |-> "chosen", row |-> job[j]] ELSE Idle]
          \in [Jobs -> Work]
    BY <2>1, IdleType
  <2> QED
    BY <2>2 DEF Inv, TypeOK, Choose
<1>6. OneUp' /\ \A q \in Procs : Placed(q)'
  <2>1. ASSUME NEW q \in Procs PROVE Placed(q)'
    <3>1. CASE q = p
      BY <1>1, <1>3, <3>1 DEF Placed
    <3>2. CASE q # p
      BY <1>1, <1>3, <1>4, <3>2 DEF Placed
    <3> QED
      BY <3>1, <3>2
  <2>2. OneUp'
    BY DEF Inv, OneUp
  <2> QED
    BY <2>1, <2>2
<1>7. LockMatchesRun'
  <2>1. \A q \in Procs, k \in Jobs : work[q][k].at \notin Claimed /\ work'[q][k].at \notin Claimed
    BY <1>2, <1>4 DEF Claimed
  <2>2. Locked \subseteq stuck
    BY <2>1, OwnerlessIsStuck DEF Locked
  <2> QED
    BY <2>1, <2>2 DEF LockMatchesRun, Locked, Exists
<1>8. ASSUME NEW j \in Jobs PROVE SpentFact(j)'
  <2> SUFFICES ASSUME j \in spent \ revived PROVE SpentFact(j)'
    BY DEF SpentFact
  <2>1. Exists(j) => ~job[j].enabled
    BY <1>2 DEF Inv, SpentFact, Finishing
  <2>2. j \notin chosen
    BY <2>1 DEF Overdue
  <2> QED
    BY <1>4, <2>1, <2>2 DEF SpentFact, Exists
<1> QED
  BY <1>5, <1>6, <1>7, <1>8 DEF Inv

LEMMA CatchUpKeeps ==
  ASSUME Inv, NEW p \in Procs, CatchUp(p) PROVE Inv'
<1> USE DEF tableVars, history
<1>1. \A q \in Procs, k \in Jobs : work[q][k].at = "idle"
  BY QuietWhileStarting DEF CatchUp
<1>2. CASE Choose(p, Overdue(p))
  BY <1>1, <1>2, ChooseKeeps DEF CatchUp
<1>3. CASE UNCHANGED work
  <2>1. Locked' \subseteq stuck'
    <3>1. \A q \in Procs, k \in Jobs : work[q][k].at \notin Claimed
      BY <1>1 DEF Claimed
    <3> QED
      BY <3>1, OwnerlessIsStuck DEF CatchUp, Locked, Exists
  <2>2. TypeOK'
    BY <1>3 DEF Inv, CatchUp, TypeOK
  <2> QED
    BY <1>3, <2>1, <2>2, StartStepKeeps DEF CatchUp, Exists
<1> QED
  BY <1>2, <1>3 DEF CatchUp

LEMMA PollKeeps ==
  ASSUME Inv, NEW p \in Procs, Poll(p) PROVE Inv'
<1>1. PICK chosen \in FirstDue(p) : Choose(p, chosen)
  BY DEF Poll
<1>2. chosen \in SUBSET Overdue(p)
  BY DEF FirstDue
<1>3. stage' = [stage EXCEPT ![p] = "poll"]
  BY DEF Inv, TypeOK, Poll, procVars
<1> QED
  BY <1>1, <1>2, <1>3, ChooseKeeps, IdleType DEF Poll, procVars

-----------------------------------------------------------------------------
(* Runs.                                                                      *)

\* What Inv says of the job of a run.
LEMMA RunFacts ==
  ASSUME Inv, NEW p \in Procs, NEW j \in Jobs, work[p][j].at # "idle"
  PROVE  /\ work[p][j] \in Work /\ work[p][j].row \in Row
         /\ job[j] \in Row \cup {NoJob} /\ now \in Nat
         /\ work[p][j].at \in Claimed => job[j] = NoJob \/ job[j].locked
         /\ work[p][j].at \notin Claimed /\ job[j] # NoJob /\ job[j].locked => j \in stuck
         /\ work[p][j].at \in {"chosen", "queued"} => j \notin spent \ revived
         /\ j \in spent \ revived => job[j] = NoJob \/ ~job[j].enabled \/ Finishing(work[p][j])
<1>1. /\ stage[p] = "poll"
      /\ \A q \in Procs : q # p => work[q][j].at = "idle"
  BY Alone
<1>2. work[p][j] \in Work /\ work[p][j].row \in Row
  <2>1. work \in [Procs -> [Jobs -> Work]]
    BY DEF Inv, TypeOK
  <2>2. work[p][j] \in Work
    BY <2>1
  <2> QED
    BY <2>2, WorkTypes
<1>3. job[j] \in Row \cup {NoJob} /\ now \in Nat
  BY DEF Inv, TypeOK
<1>4. work[p][j].at \in Claimed => job[j] = NoJob \/ job[j].locked
  BY DEF Inv, LockMatchesRun, Exists
<1>5. ASSUME work[p][j].at \notin Claimed, job[j] # NoJob, job[j].locked PROVE j \in stuck
  <2>1. \A q \in Procs : work[q][j].at \notin Claimed
    BY <1>1, <1>5 DEF Claimed
  <2> QED
    BY <1>1, <1>5, <2>1, OwnerlessIsStuck DEF Locked, Exists
<1>6. /\ work[p][j].at \in {"chosen", "queued"} => j \notin spent \ revived
      /\ j \in spent \ revived => job[j] = NoJob \/ ~job[j].enabled \/ Finishing(work[p][j])
  BY <1>1 DEF Inv, SpentFact, Exists, Finishing
<1> QED
  BY <1>2, <1>3, <1>4, <1>5, <1>6

\* A run that ends frees the lock, or its job is stuck.
LEMMA FreeingKeeps ==
  ASSUME Inv, NEW p \in Procs, NEW j \in Jobs,
         work[p][j].at \in Claimed, ~Finishing(work[p][j]), Done(p, j),
         NEW row \in Row \cup {NoJob},
         Exists(j) => row \in Row /\ (row.enabled => job[j].enabled),
         \/ Update(j, Unlocked(row)) /\ UNCHANGED stuck
         \/ Update(j, row) /\ stuck' = stuck \cup {j},
         UNCHANGED <<now, procVars, edit, spent, revived>>
  PROVE  Inv'
<1>1. /\ work[p][j].at # "idle"
      /\ job \in [Jobs -> Row \cup {NoJob}] /\ work \in [Procs -> [Jobs -> Work]]
      /\ work' = [work EXCEPT ![p] = [work[p] EXCEPT ![j] = Idle]]
  BY DEF Claimed, Inv, TypeOK, Done
<1>2. j \in spent \ revived => job[j] = NoJob \/ ~job[j].enabled
  BY <1>1, RunFacts
<1>3. CASE ~Exists(j)
  <2>1. job[j] = NoJob /\ job' = [job EXCEPT ![j] = NoJob] /\ stuck \subseteq stuck'
    BY <1>1, <1>3 DEF Exists, Update
  <2> QED
    BY <1>1, <2>1, IdleType, RunStepKeeps DEF Claimed
<1>4. CASE Exists(j) /\ Update(j, Unlocked(row)) /\ UNCHANGED stuck
  <2>1. /\ Unlocked(row) \in Row /\ ~Unlocked(row).locked
        /\ Unlocked(row).enabled => job[j].enabled
    BY <1>4 DEF Row, Unlocked
  <2>2. job' = [job EXCEPT ![j] = Unlocked(row)] /\ job[j] # NoJob
    BY <1>4 DEF Exists, Update
  <2> QED
    BY <1>1, <1>2, <1>4, <2>1, <2>2, IdleType, RunStepKeeps DEF Claimed
<1>5. CASE Exists(j) /\ Update(j, row) /\ stuck' = stuck \cup {j}
  <2>1. job' = [job EXCEPT ![j] = row] /\ job[j] # NoJob
    BY <1>5 DEF Exists, Update
  <2> QED
    BY <1>1, <1>2, <1>5, <2>1, IdleType, RunStepKeeps DEF Claimed
<1> QED
  BY <1>3, <1>4, <1>5

LEMMA ClaimKeeps ==
  ASSUME Inv, NEW p \in Procs, NEW j \in Jobs, Claim(p, j) PROVE Inv'
<1> USE DEF Claim, history
<1>1. work[p][j].at = "chosen" /\ work[p][j].at # "idle" /\ work[p][j].at \notin Claimed
  BY DEF Claimed
<1>2. /\ job \in [Jobs -> Row \cup {NoJob}] /\ work \in [Procs -> [Jobs -> Work]]
      /\ j \notin spent \ revived /\ work[p][j] \in Work
      /\ job[j] # NoJob /\ job[j].locked => j \in stuck
  BY <1>1, RunFacts DEF Inv, TypeOK
<1>3. CASE Exists(j) /\ job' = [job EXCEPT ![j].locked = TRUE] /\ Step(p, j, "queued")
  <2> DEFINE r == [job[j] EXCEPT !.locked = TRUE]
             w == [work[p][j] EXCEPT !.at = "queued"]
  <2>1. r \in Row /\ r.locked
    BY <1>2, <1>3 DEF Exists, Row
  <2>2. w \in Work /\ w.at = "queued"
    BY <1>1, <1>2, StepTypes
  <2>3. work' = [work EXCEPT ![p] = [work[p] EXCEPT ![j] = w]] /\ job' = [job EXCEPT ![j] = r]
    BY <1>3 DEF Step
  <2> HIDE DEF r, w
  <2> QED
    BY <1>1, <1>2, <2>1, <2>2, <2>3, RunStepKeeps DEF Claimed
<1>4. CASE Done(p, j) /\ UNCHANGED job
  <2>1. work' = [work EXCEPT ![p] = [work[p] EXCEPT ![j] = Idle]] /\ job' = [job EXCEPT ![j] = job[j]]
    BY <1>2, <1>4 DEF Done
  <2> QED
    BY <1>1, <1>2, <2>1, IdleType, RunStepKeeps DEF Claimed
<1> QED
  BY <1>3, <1>4

LEMMA PassOverKeeps ==
  ASSUME Inv, NEW p \in Procs, NEW j \in Jobs, PassOver(p, j) PROVE Inv'
<1> DEFINE row == IF Exists(j) THEN Skipped(work[p][j].row, job[j]) ELSE NoJob
<1>1. /\ work[p][j].at = "queued" /\ work[p][j].at \in Claimed /\ work[p][j].at # "idle"
      /\ ~Finishing(work[p][j])
  BY DEF PassOver, Ready, Claimed, Finishing
<1>2. /\ work[p][j].row \in Row /\ now \in Nat
      /\ job \in [Jobs -> Row \cup {NoJob}] /\ job[j] \in Row \cup {NoJob}
  BY <1>1, RunFacts DEF Inv, TypeOK
<1>3. row \in Row \cup {NoJob} /\ (Exists(j) => row \in Row /\ (row.enabled => job[j].enabled))
  <2>1. CASE Exists(j)
    BY <1>2, <2>1, SkippedType DEF Exists
  <2>2. CASE ~Exists(j)
    BY <2>2
  <2> QED
    BY <2>1, <2>2
<1>4. CASE ReleaseAs(j, row)
  <2> HIDE DEF row
  <2> QED
    BY <1>1, <1>3, <1>4, FreeingKeeps DEF PassOver, ReleaseAs
<1>5. CASE /\ Exists(j)
           /\ \/ Update(j, Unlocked(job[j])) /\ UNCHANGED stuck
              \/ UNCHANGED job /\ stuck' = stuck \cup {j}
  <2>1. UNCHANGED job => Update(j, job[j])
    BY <1>2 DEF Update
  <2> QED
    BY <1>1, <1>2, <1>5, <2>1, FreeingKeeps DEF PassOver, Exists
<1> QED
  BY <1>4, <1>5 DEF PassOver

LEMMA GiveUpKeeps ==
  ASSUME Inv, NEW p \in Procs, NEW j \in Jobs, GiveUp(p, j) PROVE Inv'
<1>1. /\ work[p][j].at = "queued" /\ work[p][j].at \in Claimed
      /\ ~Finishing(work[p][j]) /\ job[j] \in Row \cup {NoJob}
  BY DEF GiveUp, Ready, Claimed, Finishing, Inv, TypeOK
<1> QED
  BY <1>1, FreeingKeeps DEF GiveUp, ReleaseAs, Exists

LEMMA ReleaseKeeps ==
  ASSUME Inv, NEW p \in Procs, NEW j \in Jobs, Release(p, j) PROVE Inv'
<1>1. /\ work[p][j].at = "release" /\ work[p][j].at \in Claimed
      /\ ~Finishing(work[p][j]) /\ job[j] \in Row \cup {NoJob}
  BY DEF Release, Claimed, Finishing, Inv, TypeOK
<1> QED
  BY <1>1, FreeingKeeps DEF Release, ReleaseAs, Exists

LEMMA LaunchKeeps ==
  ASSUME Inv, NEW p \in Procs, NEW j \in Jobs, Launch(p, j) PROVE Inv'
<1> DEFINE w == [work[p][j] EXCEPT !.at = "run"]
<1>1. /\ work[p][j].at = "queued" /\ work[p][j].at \in Claimed /\ work[p][j].at # "idle"
  BY DEF Launch, Ready, Claimed
<1>2. /\ job \in [Jobs -> Row \cup {NoJob}] /\ job[j] \in Row \cup {NoJob}
      /\ work[p][j] \in Work /\ (job[j] = NoJob \/ job[j].locked)
  BY <1>1, RunFacts DEF Inv, TypeOK
<1>3. w \in Work /\ w.at = "run" /\ w.row = work[p][j].row
  BY <1>1, <1>2, StepTypes
<1>4. work' = [work EXCEPT ![p] = [work[p] EXCEPT ![j] = w]] /\ job' = [job EXCEPT ![j] = job[j]]
  BY <1>2 DEF Launch, Step, tableVars
<1>5. /\ spent' \ revived' \subseteq (spent \ revived) \cup {j}
      /\ j \in spent' \ revived' => OneShot(work[p][j].row)
  BY DEF Launch
<1>6. j \in spent' \ revived' => w.at \notin {"chosen", "queued"} /\ Finishing(w)
  BY <1>3, <1>5 DEF Finishing
<1>7. UNCHANGED <<now, procVars, edit, stuck>>
  BY DEF Launch, tableVars
<1> HIDE DEF w
<1> QED
  BY <1>1, <1>2, <1>3, <1>4, <1>5, <1>6, <1>7, RunStepKeeps DEF Claimed

LEMMA CompletionType ==
  ASSUME NEW row, NEW ok \in BOOLEAN
  PROVE  /\ Completion(row, ok) \in {"delete", "disable", "reschedule"}
         /\ OneShot(row) => Completion(row, ok) \in {"delete", "disable"}
  BY DEF Completion

LEMMA EndKeeps ==
  ASSUME Inv, NEW p \in Procs, NEW j \in Jobs, End(p, j) PROVE Inv'
<1>1. PICK ok \in BOOLEAN :
        work' = [work EXCEPT ![p] = [work[p] EXCEPT ![j] =
                  [at |-> "persist", row |-> work[p][j].row,
                   as |-> Completion(work[p][j].row, ok)]]]
  BY DEF End
<1> DEFINE as == Completion(work[p][j].row, ok)
           w  == [at |-> "persist", row |-> work[p][j].row, as |-> as]
<1>2. work[p][j].at = "run" /\ work[p][j].at \in Claimed /\ work[p][j].at # "idle"
  BY DEF End, Claimed
<1>3. /\ job \in [Jobs -> Row \cup {NoJob}]
      /\ work[p][j].row \in Row /\ (job[j] = NoJob \/ job[j].locked)
      /\ j \in spent \ revived => job[j] = NoJob \/ ~job[j].enabled \/ Finishing(work[p][j])
  BY <1>2, RunFacts DEF Inv, TypeOK
<1>4. /\ as \in {"delete", "disable", "reschedule"}
      /\ OneShot(work[p][j].row) => as \in {"delete", "disable"}
  BY CompletionType
<1> HIDE DEF as
<1>5. w \in Work /\ w.at = "persist"
  BY <1>3, <1>4 DEF Work
<1>6. Finishing(work[p][j]) => Finishing(w)
  BY <1>2, <1>4 DEF Finishing
<1>7. work' = [work EXCEPT ![p] = [work[p] EXCEPT ![j] = w]]
  BY <1>1 DEF as
<1>8. /\ job' = [job EXCEPT ![j] = job[j]]
      /\ UNCHANGED <<now, procVars, edit, spent, revived, stuck>>
  BY <1>3 DEF End, tableVars, history
<1> HIDE DEF w
<1> QED
  BY <1>2, <1>3, <1>5, <1>6, <1>7, <1>8, RunStepKeeps DEF Claimed

\* A completion leaves the lock, and enables nothing.
LEMMA CompletedType ==
  ASSUME NEW j, job[j] \in Row, now \in Nat, NEW snap \in Row,
         NEW as \in {"delete", "disable", "reschedule"}
  PROVE  /\ Completed(j, snap, as) \in Row \cup {NoJob}
         /\ \/ Completed(j, snap, as) = NoJob
            \/ Completed(j, snap, as).locked = job[j].locked
         /\ \/ Completed(j, snap, as) = NoJob
            \/ Completed(j, snap, as).enabled =>
                 as \notin {"delete", "disable"} /\ job[j].enabled
<1>1. snap.sched \in Schedule /\ NextRun(snap.sched, now) \in Nat
  BY NextRunType DEF Row
<1>2. CASE as = "delete"
  BY <1>2 DEF Completed
<1>3. CASE as = "disable"
  BY <1>3 DEF Completed, Row
<1>4. CASE as = "reschedule"
  BY <1>1, <1>4 DEF Completed, Row
<1> QED
  BY <1>2, <1>3, <1>4

\* The two ways to write a completion, and the end of each that fails.
LEMMA CompletingKeeps ==
  ASSUME Inv, NEW p \in Procs, NEW j \in Jobs, work[p][j].at \in {"persist", "fallback"},
         NEW to \in {"fallback", "release"}, Step(p, j, to),
         NEW as \in {"delete", "disable", "reschedule"},
         work[p][j].as \in {"delete", "disable"} => as \in {"delete", "disable"},
         \/ Exists(j) /\ job' = [job EXCEPT ![j] = Completed(j, work[p][j].row, as)]
         \/ UNCHANGED job /\ \/ ~Exists(j)
                             \/ to = "fallback"
                             \/ j \notin spent' \ revived',
         UNCHANGED <<now, procVars, edit, revived, stuck>>,
         spent' \subseteq spent
  PROVE  Inv'
<1> DEFINE w == [work[p][j] EXCEPT !.at = to]
<1>1. work[p][j].at \in Claimed /\ work[p][j].at # "idle"
  BY DEF Claimed
<1>2. /\ job \in [Jobs -> Row \cup {NoJob}] /\ job[j] \in Row \cup {NoJob} /\ now \in Nat
      /\ work[p][j] \in Work /\ work[p][j].row \in Row /\ (job[j] = NoJob \/ job[j].locked)
      /\ j \in spent \ revived => job[j] = NoJob \/ ~job[j].enabled \/ Finishing(work[p][j])
  BY <1>1, RunFacts DEF Inv, TypeOK
<1>3. w \in Work /\ w.at = to /\ w.as = work[p][j].as
  BY <1>2, StepTypes
<1>4. work' = [work EXCEPT ![p] = [work[p] EXCEPT ![j] = w]]
  BY DEF Step
<1>5. Finishing(work[p][j]) => work[p][j].as \in {"delete", "disable"}
  BY DEF Finishing
<1>6. to = "fallback" /\ Finishing(work[p][j]) => Finishing(w)
  BY <1>3, <1>5 DEF Finishing
<1>7. w.at \in Claimed /\ w.at \notin {"chosen", "queued"}
  BY <1>3 DEF Claimed
<1> HIDE DEF w
<1>8. CASE Exists(j) /\ job' = [job EXCEPT ![j] = Completed(j, work[p][j].row, as)]
  <2> DEFINE r == Completed(j, work[p][j].row, as)
  <2>1. job[j] \in Row /\ job[j].locked /\ job[j] # NoJob
    BY <1>2, <1>8 DEF Exists
  <2>2. /\ r \in Row \cup {NoJob}
        /\ r = NoJob \/ r.locked = job[j].locked
        /\ r = NoJob \/ (r.enabled => as \notin {"delete", "disable"} /\ job[j].enabled)
    BY <1>2, <2>1, CompletedType
  <2>3. job' = [job EXCEPT ![j] = r]
    BY <1>8
  <2> HIDE DEF r
  <2>4. j \in spent \ revived => r = NoJob \/ ~r.enabled
    BY <1>2, <1>5, <2>1, <2>2
  <2> QED
    BY <1>1, <1>3, <1>4, <1>7, <2>1, <2>2, <2>3, <2>4, RunStepKeeps
<1>9. CASE UNCHANGED job /\ (~Exists(j) \/ to = "fallback" \/ j \notin spent' \ revived')
  <2>1. job' = [job EXCEPT ![j] = job[j]]
    BY <1>2, <1>9
  <2>2. j \in spent' \ revived' => job[j] = NoJob \/ ~job[j].enabled \/ Finishing(w)
    BY <1>2, <1>6, <1>9 DEF Exists
  <2> QED
    BY <1>1, <1>2, <1>3, <1>4, <1>7, <2>1, <2>2, RunStepKeeps
<1> QED
  BY <1>8, <1>9

LEMMA PersistKeeps ==
  ASSUME Inv, NEW p \in Procs, NEW j \in Jobs, Persist(p, j) PROVE Inv'
<1>1. work[p][j].at = "persist" /\ work[p][j] \in Work
  BY RunFacts DEF Persist
<1>2. work[p][j].as \in {"delete", "disable", "reschedule"}
  BY <1>1, WorkTypes
<1> QED
  BY <1>1, <1>2, CompletingKeeps DEF Persist, history

LEMMA FallbackKeeps ==
  ASSUME Inv, NEW p \in Procs, NEW j \in Jobs, Fallback(p, j) PROVE Inv'
<1>1. work[p][j].at = "fallback" /\ work[p][j] \in Work
  BY RunFacts DEF Fallback
<1>2. work[p][j].as \in {"delete", "disable", "reschedule"}
  BY <1>1, WorkTypes
<1>3. /\ Instead(work[p][j].as) \in {"delete", "disable", "reschedule"}
      /\ work[p][j].as \in {"delete", "disable"} => Instead(work[p][j].as) \in {"delete", "disable"}
  BY <1>2 DEF Instead
<1>4. /\ Step(p, j, "release") /\ spent' \subseteq spent
      /\ UNCHANGED <<now, procVars, edit, revived, stuck>>
      /\ \/ Exists(j) /\ job' = [job EXCEPT ![j] = Completed(j, work[p][j].row, Instead(work[p][j].as))]
         \/ UNCHANGED job /\ (~Exists(j) \/ j \notin spent' \ revived')
  BY DEF Fallback
<1> QED
  BY <1>1, <1>3, <1>4, CompletingKeeps

-----------------------------------------------------------------------------
(* Clients and time.                                                          *)

LEMMA TickKeeps == ASSUME Inv, Tick PROVE Inv'
<1>1. TypeOK'
  <2>1. TypeOK /\ now \in Nat
    BY DEF Inv, TypeOK
  <2>2. now' \in Nat
    BY <2>1 DEF Tick
  <2> QED
    BY <2>1, <2>2 DEF Tick, TypeOK, procVars
<1>2. UNCHANGED <<job, procVars, work, spent, revived, stuck>>
  BY DEF Tick, history
<1> QED
  BY <1>1, <1>2, ClientStepKeeps DEF Exists

LEMMA ReadRowKeeps ==
  ASSUME Inv, NEW c \in Clients, NEW j \in Jobs, ReadRow(c, j) PROVE Inv'
<1>1. job[j] \in Row /\ now \in Nat
  BY DEF Inv, TypeOK, ReadRow, Exists
<1>2. PICK patch \in Patched(job[j]) :
        edit' = [edit EXCEPT ![c] = [job |-> j, row |-> patch.row, asked |-> patch.asked]]
  BY DEF ReadRow
<1>3. patch.row \in Row /\ patch.asked \in BOOLEAN
  <2>1. ASSUME NEW row \in Row, NEW asked \in BOOLEAN, patch = [row |-> row, asked |-> asked]
        PROVE  patch.row \in Row /\ patch.asked \in BOOLEAN
    BY <2>1
  <2>2. \A b \in BOOLEAN : [job[j] EXCEPT !.enabled = b] \in Row
    BY <1>1 DEF Row
  <2>3. ASSUME NEW s \in Schedules
        PROVE  [job[j] EXCEPT !.sched = s, !.next = NextRun(s, now)] \in Row
    <3>1. s \in Schedule /\ NextRun(s, now) \in Nat
      BY <1>1, NextRunType, CronAssumption
    <3> QED
      BY <1>1, <3>1 DEF Row
  <2> QED
    BY <1>1, <2>1, <2>2, <2>3 DEF Patched
<1>4. TypeOK'
  BY <1>2, <1>3 DEF Inv, ReadRow, TypeOK, tableVars, procVars
<1> QED
  BY <1>4, ClientStepKeeps DEF ReadRow, tableVars, history, Exists

LEMMA WriteRowKeeps ==
  ASSUME Inv, NEW c \in Clients, WriteRow(c) PROVE Inv'
<1> DEFINE j   == edit[c].job
           row == Overwritten(j, edit[c].row)
<1>1. j \in Jobs /\ edit[c].row \in Row
  BY DEF Inv, TypeOK, WriteRow, NoEdit
<1>2. CASE ~Exists(j)
  <2>1. UNCHANGED <<job, spent, revived>> /\ TypeOK'
    BY <1>2 DEF Inv, WriteRow, TypeOK, procVars
  <2> QED
    BY <2>1, ClientStepKeeps DEF WriteRow, Exists
<1>3. CASE Exists(j)
  <2>1. job[j] \in Row /\ job \in [Jobs -> Row \cup {NoJob}]
    BY <1>1, <1>3 DEF Inv, TypeOK, Exists
  <2>2. row \in Row /\ (row.locked <=> job[j].locked)
    BY <1>1, <2>1 DEF Overwritten, Row
  <2>3. /\ job' = [job EXCEPT ![j] = row]
        /\ spent' \subseteq spent /\ revived \subseteq revived'
        /\ \/ j \notin spent'
           \/ Enables(j, row) => j \in revived'
    BY <1>3 DEF WriteRow
  <2> HIDE DEF row, j
  <2>4. TypeOK'
    BY <1>1, <2>1, <2>2, <2>3 DEF Inv, WriteRow, TypeOK, procVars
  <2>5. ASSUME NEW k \in Jobs
        PROVE  /\ Exists(k)' => Exists(k) /\ (job'[k].locked <=> job[k].locked)
               /\ k \in spent' \ revived' =>
                    /\ k \in spent \ revived
                    /\ Exists(k)' /\ job'[k].enabled => job[k].enabled
    <3>1. CASE k = j
      BY <1>1, <1>3, <2>1, <2>2, <2>3, <3>1 DEF Exists, Enables
    <3>2. CASE k # j
      BY <2>1, <2>3, <3>2 DEF Exists
    <3> QED
      BY <3>1, <3>2
  <2> QED
    BY <2>4, <2>5, ClientStepKeeps DEF WriteRow
<1> QED
  BY <1>2, <1>3

LEMMA RemoveKeeps ==
  ASSUME Inv, NEW j \in Jobs, Remove(j) PROVE Inv'
<1>1. TypeOK'
  BY DEF Inv, Remove, TypeOK, procVars
<1>2. \A k \in Jobs : Exists(k)' => Exists(k) /\ job'[k] = job[k]
  BY DEF Inv, TypeOK, Remove, Exists
<1> QED
  BY <1>1, <1>2, ClientStepKeeps DEF Remove, history

-----------------------------------------------------------------------------
(* The theorems.                                                              *)

LEMMA StutterKeeps == ASSUME Inv, UNCHANGED vars PROVE Inv'
<1> USE DEF vars, tableVars, procVars, history
<1>1. TypeOK'
  BY DEF Inv, TypeOK
<1> QED
  BY <1>1, ClientStepKeeps DEF Exists

LEMMA NextKeeps == ASSUME MaxUp <= 1, Inv, [Next]_vars PROVE Inv'
<1>1. CASE Tick
  BY <1>1, TickKeeps
<1>2. ASSUME NEW p \in Procs, Boot(p) \/ Stop(p) \/ Start(p) \/ Poll(p) PROVE Inv'
  BY <1>2, BootKeeps, StopKeeps, SyncKeeps, ClearLocksKeeps, SkipMissedKeeps, CatchUpKeeps,
     PollKeeps DEF Start
<1>3. ASSUME NEW p \in Procs, NEW j \in Jobs, RunStep(p, j) PROVE Inv'
  BY <1>3, ClaimKeeps, PassOverKeeps, GiveUpKeeps, LaunchKeeps, EndKeeps, PersistKeeps,
     FallbackKeeps, ReleaseKeeps DEF RunStep
<1>4. ASSUME NEW j \in Jobs, Remove(j) \/ \E c \in Clients : ReadRow(c, j) PROVE Inv'
  BY <1>4, RemoveKeeps, ReadRowKeeps
<1>5. ASSUME NEW c \in Clients, WriteRow(c) PROVE Inv'
  BY <1>5, WriteRowKeeps
<1>6. CASE UNCHANGED vars
  BY <1>6, StutterKeeps
<1> QED
  BY <1>1, <1>2, <1>3, <1>4, <1>5, <1>6 DEF Next

LEMMA Invariant == ASSUME MaxUp <= 1 PROVE Spec => []Inv
<1>1. Inv /\ [Next]_vars => Inv'
  BY NextKeeps
<1> QED
  BY <1>1, InitInv, PTL DEF Spec

\* Rows, runs and edits are well-formed (TypeOK), under one daemon at a time.
THEOREM CronTypes == ASSUME MaxUp <= 1 PROVE Spec => []TypeOK
<1>1. Inv => TypeOK
  BY DEF Inv
<1> QED
  BY <1>1, Invariant, PTL

\* A row is locked while a run of it is under way, and by nothing else once a
\* daemon has freed the locks of the one before (LockMatchesRun), whatever
\* clients write, as long as one daemon runs at a time.
THEOREM LocksMatchRuns == ASSUME MaxUp <= 1 PROVE Spec => []LockMatchesRun
<1>1. Inv => LockMatchesRun
  BY DEF Inv
<1> QED
  BY <1>1, Invariant, PTL

\* A one-shot that ran is launched again only when its run was cut short or its
\* completion lost, when somebody asked, or when its row was enabled anew
\* (OneShotLaunchesOnce), as long as one daemon runs at a time.
THEOREM OneShotsLaunchOnce == ASSUME MaxUp <= 1 PROVE Spec => OneShotLaunchesOnce
<1>1. ASSUME Inv, [Next]_vars
      PROVE  [\A p \in Procs, j \in Jobs :
                Launches(p, j) /\ OneShot(work[p][j].row) /\ j \in spent => j \in revived]_vars
  <2> SUFFICES ASSUME NEW p \in Procs, NEW j \in Jobs, Launches(p, j), j \in spent
               PROVE  j \in revived
    OBVIOUS
  <2> QED
    BY <1>1 DEF Inv, SpentFact, Launches
<1> QED
  BY <1>1, Invariant, PTL DEF Spec, OneShotLaunchesOnce

=============================================================================
