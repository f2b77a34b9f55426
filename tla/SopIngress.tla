----------------------------- MODULE SopIngress -----------------------------
(* How deliveries of a durable queue (channels/src/amqp.rs) become runs: the   *)
(* dispatch of sop/dispatch.rs with the two phases of a start in sop/engine.rs *)
(* and the claims of the store.  Engines share one store; an engine holds its  *)
(* lock from the admission of a delivery to the last activation, so nothing    *)
(* else of THAT engine happens in between, but the other engines go on.  What  *)
(* a run does after its start is SopEngine's: here it saves its progress and   *)
(* ends.  Message ids are unique, as amqp.rs asks of publishers.               *)
EXTENDS Naturals, Sequences, FiniteSets, SequencesExt

CONSTANTS
  Engines,          \* the engines on the store, each with its own consumer
  Messages,         \* the messages published to the queue
  Sops,             \* the loaded SOPs
  Order,            \* the order in which they are loaded, a sequence
  Matches,          \* [Messages -> SUBSET Sops]: the SOPs a message triggers
  Policy,           \* [Sops -> {"Parallel", "Hold", "Coalesce", "Drop"}]
  Cap,              \* max_concurrent
  PoolCap,          \* max_pending_approvals, 0 for no limit
  MaxTotal,         \* max_concurrent_total
  FirstStep,        \* [Sops -> {"step", "gate", "none"}]: what a run starts with
  WindowCap,        \* DISPATCH_DEDUP_CAP
  MaxFaults         \* bound: failed writes, lost connections and crashes

ASSUME IngressAssumption ==
  /\ Engines \cap {"queue", "acked"} = {}
  /\ Order \in Seq(Sops) /\ ToSet(Order) = Sops
  /\ Matches \in [Messages -> SUBSET Sops]
  /\ Policy \in [Sops -> {"Parallel", "Hold", "Coalesce", "Drop"}]
  /\ Cap \in [Sops -> Nat] /\ PoolCap \in [Sops -> Nat] /\ MaxTotal \in Nat
  /\ FirstStep \in [Sops -> {"step", "gate", "none"}]
  /\ WindowCap \in Nat /\ MaxFaults \in Nat

VARIABLES
  broker,   \* where each message is, and whether it comes a second time
  pc,       \* what each engine does with the delivery it has
  mem,      \* active_runs of each engine: run -> "Running" or "Parked"
  unsaved,  \* the parked runs whose snapshot is not in the store yet
  window,   \* dispatch_dedup of each engine
  rows,     \* the runs in the store: run -> "Running", "Parked" or "Ended"
  claims,   \* the claim rows
  started,  \* history: the runs reported as started
  rolled,   \* history: the runs rolled back with their batch
  outcome,  \* history: what the acknowledged deliveries came to
  failed,   \* history: the runs a write of which failed
  faults,   \* history: how many faults there were
  crashed   \* history: an engine crashed

store == <<rows, claims>>
engine == <<mem, unsaved, window>>
trouble == <<failed, faults, crashed>>
history == <<started, rolled, outcome>>
vars == <<broker, pc, engine, store, history, trouble>>

Idle == [at |-> "idle"]

\* Only a fault lets a message start an SOP again.
Run == [sop : Sops, msg : Messages, try : 1..(MaxFaults + 1)]

Without(f, S) == [r \in DOMAIN f \ S |-> f[r]]
With(f, r, v) == [x \in DOMAIN f \cup {r} |-> IF x = r THEN v ELSE f[x]]

Init ==
  /\ broker = [m \in Messages |-> [at |-> "queue", again |-> FALSE]]
  /\ pc = [e \in Engines |-> Idle]
  /\ mem = [e \in Engines |-> <<>>]
  /\ unsaved = {}
  /\ window = [e \in Engines |-> <<>>]
  /\ rows = <<>> /\ claims = {}
  /\ started = {} /\ rolled = {}
  /\ outcome = [m \in Messages |-> {}]
  /\ failed = {} /\ faults = 0 /\ crashed = FALSE

Fault == faults < MaxFaults /\ faults' = faults + 1
Fails(rs) == Fault /\ failed' = failed \cup rs /\ UNCHANGED crashed

-----------------------------------------------------------------------------
(* Admission.                                                                 *)

ClaimsOf(s) == {r \in claims : r.sop = s}
Active == {r \in DOMAIN rows : rows[r] # "Ended"}
PendingOf(s) == {r \in Active : r.sop = s /\ rows[r] = "Parked"}

HasSlot(s) == Cardinality(ClaimsOf(s)) < Cap[s] /\ Cardinality(claims) < MaxTotal
PoolFull(s) == PoolCap[s] > 0 /\ Cardinality(PendingOf(s)) >= PoolCap[s]
InFlight(s) == ClaimsOf(s) # {} \/ PendingOf(s) # {}

\* evaluate_admission.
Admission(s) ==
  CASE PoolFull(s) -> IF Policy[s] = "Drop" THEN "drop" ELSE "defer"
    [] ~PoolFull(s) /\ Policy[s] \in {"Parallel", "Drop"} ->
         IF HasSlot(s) THEN "admit" ELSE IF Policy[s] = "Drop" THEN "drop" ELSE "defer"
    [] ~PoolFull(s) /\ Policy[s] \in {"Hold", "Coalesce"} ->
         IF ~InFlight(s) /\ HasSlot(s) THEN "admit"
         ELSE IF Policy[s] = "Coalesce" /\ (\E r \in Active : r.sop = s) THEN "coalesce"
         ELSE "defer"

-----------------------------------------------------------------------------
(* A delivery and what comes of it.                                           *)

Result(s, as) == [sop |-> s, as |-> as]
Verdict(v) == CASE v = "defer" -> "deferred" [] v = "coalesce" -> "coalesced" [] v = "drop" -> "skipped"

Reply(d, results) == [at |-> "reply", msg |-> d.msg, results |-> d.results \cup results]

Goto(e, d) == pc' = [pc EXCEPT ![e] = d]

\* coalesce_confirmed_redelivery: the SOPs this engine started for the message.
Known(e, m) ==
  IF ~broker[m].again THEN {}
  ELSE {s \in Sops : \E i \in DOMAIN window[e] : window[e][i].sop = s /\ window[e][i].msg = m}

\* A delivery arrives; the SOPs it was already started for are coalesced.
Receive(e, m) ==
  /\ pc[e] = Idle /\ broker[m].at = "queue"
  /\ broker' = [broker EXCEPT ![m].at = e]
  /\ LET batch == Cardinality(Matches[m]) > 1
         d == [at |-> IF batch THEN "batch" ELSE "single", msg |-> m, batch |-> batch,
               todo |-> Matches[m] \ Known(e, m), held |-> <<>>, live |-> <<>>,
               results |-> {Result(s, "coalesced") : s \in Known(e, m) \cap Matches[m]}]
     IN Goto(e, IF d.todo = {} THEN Reply(d, {}) ELSE d)
  /\ UNCHANGED <<engine, store, history, trouble>>

\* One matched SOP: what is not admitted is reported as such.
AdmitSingle(e) ==
  /\ pc[e].at = "single"
  /\ \E s \in pc[e].todo :
     Goto(e, IF Admission(s) = "admit" THEN [pc[e] EXCEPT !.at = "reserve"]
             ELSE Reply(pc[e], {Result(s, Verdict(Admission(s)))}))
  /\ UNCHANGED <<broker, engine, store, history, trouble>>

\* Broken on purpose: a fan-out beyond the global cap is tried all the same.
AdmitAnyBatch(e) ==
  /\ pc[e].at = "batch"
  /\ LET todo == pc[e].todo
         terminal == {s \in todo : Admission(s) \in {"coalesce", "drop"}}
         rest == todo \ terminal
         d == [pc[e] EXCEPT !.at = "reserve", !.todo = rest,
                 !.results = @ \cup {Result(s, Verdict(Admission(s))) : s \in terminal}]
     IN Goto(e, IF \E s \in todo : Admission(s) = "defer"
                THEN Reply(d, {Result(s, "deferred") : s \in rest})
                ELSE IF rest = {} THEN Reply(d, {}) ELSE d)
  /\ UNCHANGED <<broker, engine, store, history, trouble>>

\* Several matched SOPs start together or not at all: one that has to wait
\* sends the whole delivery back, what can never start is settled now, and a
\* batch larger than the global cap is dropped.
AdmitBatch(e) ==
  /\ pc[e].at = "batch"
  /\ LET todo == pc[e].todo
         terminal == {s \in todo : Admission(s) \in {"coalesce", "drop"}}
         settled == {Result(s, Verdict(Admission(s))) : s \in terminal}
         rest == todo \ terminal
         all(as) == {Result(s, as) : s \in rest}
         d == [pc[e] EXCEPT !.at = "reserve", !.todo = rest, !.results = @ \cup settled]
     IN Goto(e, IF \E s \in todo : Admission(s) = "defer" THEN Reply(d, all("deferred"))
                ELSE IF Cardinality(rest) > MaxTotal THEN Reply(d, all("skipped"))
                ELSE IF rest = {} THEN Reply(d, {})
                ELSE d)
  /\ UNCHANGED <<broker, engine, store, history, trouble>>

\* The next SOP to start, in the order in which they are loaded.
Due(d) ==
  {s \in d.todo : \E i \in DOMAIN Order : Order[i] = s /\ \A j \in 1..(i - 1) : Order[j] \notin d.todo}

\* The SOPs of the delivery that are being started.
Starting(d) == d.todo \cup {r.sop : r \in ToSet(d.held) \cup ToSet(d.live)}

\* A start that fails: a batch is given back as a whole; a single start asks
\* the admission once more what to report.
Abandon(e) ==
  IF pc[e].batch
  THEN Goto(e, Reply(pc[e], {Result(s, "deferred") : s \in Starting(pc[e])}))
  ELSE Goto(e, [pc[e] EXCEPT !.at = "reclassify"])

\* Broken on purpose: what the batch reserved so far is not given back.
ReserveOnly(e) ==
  /\ pc[e].at = "reserve"
  /\ \E s \in Due(pc[e]) :
     IF Admission(s) = "admit" /\ FirstStep[s] # "none"
     THEN Goto(e, [pc[e] EXCEPT !.at = "claim"])
     ELSE Abandon(e)
  /\ UNCHANGED <<broker, engine, store, history, trouble>>

\* reserve_run_slot, before its claim: admission is enforced once more.
Reserve(e) ==
  /\ pc[e].at = "reserve"
  /\ \E s \in Due(pc[e]) :
     IF Admission(s) = "admit" /\ FirstStep[s] # "none"
     THEN Goto(e, [pc[e] EXCEPT !.at = "claim"]) /\ UNCHANGED claims
     ELSE Abandon(e) /\ claims' = claims \ ToSet(pc[e].held)
  /\ UNCHANGED <<broker, engine, rows, history, trouble>>

\* try_claim_run: the claims are counted by one statement and the new one is
\* inserted by a later one, with no transaction around them: only the mutex of
\* the store's own process keeps others out.
Claim(e) ==
  /\ pc[e].at = "claim"
  /\ \E s \in Due(pc[e]) :
     IF HasSlot(s)
     THEN Goto(e, [pc[e] EXCEPT !.at = "insert"]) /\ UNCHANGED claims
     ELSE Abandon(e) /\ claims' = claims \ ToSet(pc[e].held)
  /\ UNCHANGED <<broker, engine, rows, history, trouble>>

Used == claims \cup DOMAIN rows \cup started \cup failed \cup rolled \cup UNION {DOMAIN mem[e] : e \in Engines}

NewRun(s, m) ==
  {r \in Run \ Used : /\ r.sop = s /\ r.msg = m
                      /\ \A q \in Run \ Used : q.sop = s /\ q.msg = m => r.try <= q.try}

\* When every SOP of the delivery has its claim the runs are activated.
InsertClaim(e) ==
  /\ pc[e].at = "insert"
  /\ \E s \in Due(pc[e]) : \E r \in NewRun(s, pc[e].msg) :
       /\ claims' = claims \cup {r}
       /\ Goto(e, [pc[e] EXCEPT !.at = IF pc[e].todo = {s} THEN "activate" ELSE "reserve",
                                !.todo = @ \ {s}, !.held = Append(@, r)])
  /\ UNCHANGED <<broker, engine, rows, history, trouble>>

-----------------------------------------------------------------------------
(* Activation.                                                                *)

\* activate_reserved_run: the first step is saved as running if the store
\* takes it.  A gate is saved and then gives the claim back; a save that fails
\* is repeated by the maintenance.  With the pool full the gate is held back,
\* and the run keeps its claim.
Enter(e, r) ==
  LET parks == FirstStep[r.sop] = "gate" /\ ~PoolFull(r.sop)
      status == IF parks THEN "Parked" ELSE "Running" IN
  /\ mem' = [mem EXCEPT ![e] = With(@, r, status)]
  /\ \/ /\ rows' = With(rows, r, status)
        /\ claims' = IF parks THEN claims \ {r} ELSE claims
        /\ UNCHANGED <<unsaved, trouble>>
     \/ /\ Fails({r})
        /\ unsaved' = IF parks THEN unsaved \cup {r} ELSE unsaved
        /\ UNCHANGED <<rows, claims>>

\* Broken on purpose: of a batch only the first run is remembered.
RememberedFirst(w, rs) == Append(w, Head(rs))

\* record_dispatch_dedup for the runs of a delivery, oldest entries first out.
Remembered(w, rs) ==
  LET all == w \o rs IN
  IF Len(all) <= WindowCap THEN all ELSE SubSeq(all, Len(all) - WindowCap + 1, Len(all))

\* The runs of a delivery are reported when the last of them is active.
Activate(e) ==
  /\ pc[e].at = "activate"
  /\ LET r == Head(pc[e].held)
         live == Append(pc[e].live, r) IN
     /\ Enter(e, r)
     /\ IF Len(pc[e].held) > 1
        THEN /\ Goto(e, [pc[e] EXCEPT !.held = Tail(@), !.live = live])
             /\ UNCHANGED <<window, started>>
        ELSE /\ Goto(e, Reply(pc[e], {Result(x.sop, "started") : x \in ToSet(live)}))
             /\ window' = [window EXCEPT ![e] = Remembered(@, live)]
             /\ started' = started \cup ToSet(live)
  /\ UNCHANGED <<broker, rolled, outcome>>

\* Broken on purpose: a parked run is dropped from the memory only.
RollBackInMemory(e, gone) ==
  /\ mem' = [mem EXCEPT ![e] = Without(@, gone)]
  /\ unsaved' = unsaved \ gone
  /\ rolled' = rolled \cup gone /\ failed' = failed \cup {Head(pc[e].held)}
  /\ claims' = claims \ (ToSet(pc[e].held) \cup gone)
  /\ UNCHANGED rows

\* rollback_activated_run: a run that executes leaves the memory with its
\* claim, a parked one is ended in the store, if the store takes it.
RollBack(e, gone) ==
  LET parked == {r \in gone : mem[e][r] = "Parked"} IN
  /\ mem' = [mem EXCEPT ![e] = Without(@, gone)]
  /\ unsaved' = unsaved \ gone
  /\ rolled' = rolled \cup gone
  /\ \E lost \in {{}, parked} :
       /\ rows' = [r \in DOMAIN rows \cup (parked \ lost) |-> IF r \in parked \ lost THEN "Ended" ELSE rows[r]]
       /\ failed' = failed \cup lost \cup {Head(pc[e].held)}
       /\ claims' = claims \ (ToSet(pc[e].held) \cup (gone \ lost))

\* The state file of a checkpoint cannot be written: the run is dropped with
\* its claim, the runs of its batch are rolled back and the reservations that
\* were not used yet are released.
FailActivation(e) ==
  /\ pc[e].at = "activate"
  /\ LET s == Head(pc[e].held).sop IN FirstStep[s] = "gate" /\ ~PoolFull(s)
  /\ Fault /\ UNCHANGED crashed
  /\ RollBack(e, ToSet(pc[e].live))
  /\ Abandon(e)
  /\ UNCHANGED <<broker, window, started, outcome>>

\* reclassify_failed_start.
Reclassify(e) ==
  /\ pc[e].at = "reclassify"
  /\ \E s \in Starting(pc[e]) :
       Goto(e, Reply(pc[e], {Result(s, IF Admission(s) = "admit" THEN "skipped"
                                       ELSE Verdict(Admission(s)))}))
  /\ UNCHANGED <<broker, engine, store, history, trouble>>

-----------------------------------------------------------------------------
(* The answer to the broker.                                                  *)

\* Broken on purpose: one settled SOP acknowledges the delivery for all.
AllDeferred(results) == \A x \in results : x.as = "deferred"

\* results_need_redelivery.
NeedsRedelivery(results) ==
  /\ \E x \in results : x.as = "deferred"
  /\ ~\E x \in results : x.as = "started"

Acknowledge(e) ==
  /\ pc[e].at = "reply"
  /\ LET m == pc[e].msg IN
     IF NeedsRedelivery(pc[e].results)
     THEN broker' = [broker EXCEPT ![m] = [at |-> "queue", again |-> TRUE]] /\ UNCHANGED outcome
     ELSE broker' = [broker EXCEPT ![m].at = "acked"] /\ outcome' = [outcome EXCEPT ![m] = pc[e].results]
  /\ Goto(e, Idle)
  /\ UNCHANGED <<engine, store, started, rolled, trouble>>

\* The connection is gone when the answer is sent: the broker delivers again.
LoseConnection(e) ==
  /\ pc[e].at = "reply" /\ Fails({})
  /\ broker' = [broker EXCEPT ![pc[e].msg] = [at |-> "queue", again |-> TRUE]]
  /\ Goto(e, Idle)
  /\ UNCHANGED <<engine, store, history>>

-----------------------------------------------------------------------------
(* Runs, maintenance, crashes.                                                *)

\* Nobody holds the lock of the engine; the runs that a delivery started are
\* driven before the delivery is answered.
Unlocked(e) == pc[e].at \in {"idle", "reply"}

\* A run saves the progress it made.
SaveProgress(e) ==
  /\ Unlocked(e)
  /\ \E r \in DOMAIN mem[e] \ DOMAIN rows :
       mem[e][r] = "Running" /\ rows' = With(rows, r, "Running")
  /\ UNCHANGED <<broker, pc, engine, claims, history, trouble>>

\* A run ends: the terminal row and the claim are one transaction.
EndRun(e) ==
  /\ Unlocked(e)
  /\ \E r \in DOMAIN mem[e] \ unsaved :
       /\ mem' = [mem EXCEPT ![e] = Without(@, {r})]
       /\ rows' = With(rows, r, "Ended") /\ claims' = claims \ {r}
  /\ UNCHANGED <<broker, pc, unsaved, window, history, trouble>>

\* retry_pending_park_persists.
SavePark(e) ==
  /\ Unlocked(e)
  /\ \E r \in DOMAIN mem[e] \cap unsaved :
       rows' = With(rows, r, "Parked") /\ claims' = claims \ {r} /\ unsaved' = unsaved \ {r}
  /\ UNCHANGED <<broker, pc, mem, window, history, trouble>>

\* The claims some engine keeps alive: of the runs it has, and of the
\* reservations it makes, which do not outlive a lease.
Renewed(e) == DOMAIN mem[e] \cup (IF Unlocked(e) THEN {} ELSE ToSet(pc[e].held))

\* reap_expired_claims: the lease of a claim that nobody renews ran out.
Reap(e) ==
  /\ Unlocked(e)
  /\ \E r \in claims \ UNION {Renewed(f) : f \in Engines} : claims' = claims \ {r}
  /\ UNCHANGED <<broker, pc, engine, rows, history, trouble>>

\* A crash loses the memory, and the broker delivers again what was not
\* acknowledged; restore_runs then takes every active run from the store,
\* executing ones with a claim whatever the caps, parked ones without.
Crash(e) ==
  /\ Fault /\ crashed' = TRUE /\ UNCHANGED failed
  /\ broker' = [m \in Messages |-> IF broker[m].at = e THEN [at |-> "queue", again |-> TRUE]
                                   ELSE broker[m]]
  /\ Goto(e, Idle)
  /\ mem' = [mem EXCEPT ![e] = [r \in Active |-> rows[r]]]
  /\ unsaved' = unsaved \ DOMAIN mem[e]
  /\ window' = [window EXCEPT ![e] = <<>>]
  /\ claims' = (claims \ {r \in Active : rows[r] = "Parked"})
               \cup {r \in Active : rows[r] = "Running"}
  /\ UNCHANGED <<rows, history>>

Dispatch(e) ==
  \/ \E m \in Messages : Receive(e, m)
  \/ AdmitSingle(e) \/ AdmitBatch(e)
  \/ Reserve(e) \/ Claim(e) \/ InsertClaim(e)
  \/ Activate(e) \/ FailActivation(e) \/ Reclassify(e)
  \/ Acknowledge(e)

Next ==
  \/ \E e \in Engines : Dispatch(e) \/ SaveProgress(e) \/ EndRun(e) \/ SavePark(e)
  \/ \E e \in Engines : LoseConnection(e) \/ Reap(e) \/ Crash(e)

Spec == Init /\ [][Next]_vars

\* The broker offers a queued message again and again; a delivery at hand is
\* carried on; runs and the maintenance get the lock between the deliveries,
\* and every run comes to its end.
Fairness ==
  \A e \in Engines :
    /\ WF_vars(Dispatch(e))
    /\ \A m \in Messages : SF_vars(Receive(e, m))
    /\ SF_vars(EndRun(e)) /\ SF_vars(SavePark(e)) /\ SF_vars(Reap(e))

FairSpec == Spec /\ Fairness

-----------------------------------------------------------------------------
(* Properties.                                                                *)

\* No acknowledged trigger is lost: each SOP a message matches has a run of
\* the store's for it, whatever crashed in between, or the run was given up in
\* the documented ways: dropped by policy, by the size of the batch, by a
\* single start that failed, or because the store refused to save it.
Handled(m, s) ==
  \/ Policy[s] = "Drop"
  \/ Cardinality(Matches[m]) > MaxTotal
  \/ \E x \in outcome[m] : x.sop = s /\ x.as = "coalesced"
  \/ \E r \in DOMAIN rows \cup failed :
       /\ r.sop = s /\ r.msg = m
       /\ r \in started \/ Cardinality(Matches[m]) = 1

AcknowledgedIsHandled ==
  \A m \in Messages : broker[m].at = "acked" => \A s \in Matches[m] : Handled(m, s)

\* A redelivery starts nothing a second time, as long as the engine did not
\* restart and the window did not overflow.
StartedOnce ==
  \/ crashed
  \/ Cardinality(started) > WindowCap
  \/ \A r, q \in started : r.sop = q.sop /\ r.msg = q.msg => r = q

\* Without a crash every claim belongs to a run some engine has, once the
\* delivery that took it has been answered: a batch given up half way leaves
\* no slot taken.
NoSlotLeaks ==
  ~crashed => claims \subseteq failed \cup UNION {Renewed(e) : e \in Engines}

\* A run that was rolled back with its batch is not active any more, neither
\* now nor after a restart: its delivery comes again and starts another one.
\* (engine.rs, rollback_activated_run)
RolledBackStaysGone == rolled \cap Active \subseteq failed

\* Every message is acknowledged in the end: none is redelivered for ever,
\* unless a run that was rolled back is left in the store as waiting, where it
\* fills the pool of its SOP until the engine restarts.
EveryDeliverySettles ==
  \A m \in Messages : <>(broker[m].at = "acked" \/ rolled \cap Active # {})
=============================================================================
