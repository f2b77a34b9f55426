----------------------------- MODULE SopQuorum -----------------------------
(* The approval broker (sop/approval/broker.rs) with the parts of the engine  *)
(* it works through, for one run that passes a sequence of gates: how a gate  *)
(* is presented and numbered, how answers become rows of the ledger, how they *)
(* are counted, and how a chat channel relates an answer to its prompt.       *)
(* Claims and slots are SopEngine's: here a resume may find no slot and       *)
(* leaves the gate as it was.  The presentation counter pres and the answers  *)
(* heard are history: no action depends on them but for the bound on pres.    *)
EXTENDS SopPrincipal

CONSTANTS
  Decisions,           \* what can be answered: records [kind, text]
  Rules,               \* the rules the configuration may hold
  NumGates,            \* the gates of the SOP; routing may return to one
  MaxGateRevisions,    \* MAX_GATE_REVISIONS
  MaxPresentations,    \* bound: presentations of gates in a behaviour
  MaxVotes,            \* bound: gate_vote rows of the run
  MaxInflight,         \* bound: channel answers between their two locks
  StoreMayFail,        \* store writes may fail
  HeldBackAt,          \* {"first", "later"}: gates that may be held back
  HistoryMayBeUnread   \* the ledger may be unreadable when a gate is presented

ASSUME QuorumAssumption ==
  /\ NumGates \in Nat /\ MaxPresentations \in Nat /\ MaxVotes \in Nat
  /\ \A d \in Decisions : d \in [kind : {"approve", "deny", "amend", "revise"}, text : {d.text}]
  /\ \A d, e \in Decisions : d.kind = "approve" /\ e.kind = "approve" => d = e
  /\ \A c \in Rules : c.quorum \in Nat
  /\ HeldBackAt \subseteq {"first", "later"}
  /\ StoreMayFail \in BOOLEAN /\ HistoryMayBeUnread \in BOOLEAN

VARIABLES
  flavor,   \* "approval": WaitingApproval gates; "checkpoint": PausedCheckpoint
  run,      \* the run in memory: status, step, revision, base, passed
  saved,    \* its snapshot in the store
  unsaved,  \* the run is in claims_pending_persist
  votes,    \* the gate_vote rows of the ledger
  decided,  \* it has other gate rows: a resolution, an escalation, a timeout
  rule,     \* the configuration in effect
  prompts,  \* references of the prompts sent to channels
  inflight, \* channel answers that passed the check and wait for the engine
  pres,     \* history: presentations so far
  heard     \* history: answers recorded for the current presentation

vars == <<flavor, run, saved, unsaved, votes, decided, rule, prompts, inflight, pres, heard>>

NoDecision == [kind |-> "none", text |-> "none"]

Parked  == IF flavor = "approval" THEN "WaitingApproval" ELSE "PausedCheckpoint"
Waiting == run.status \in {"WaitingApproval", "PausedCheckpoint"}

Init ==
  /\ flavor \in {"approval", "checkpoint"}
  /\ run = [status |-> "Running", step |-> 0, revision |-> 0, base |-> 0, passed |-> FALSE]
  /\ saved = run /\ unsaved = FALSE
  /\ votes = {} /\ decided = FALSE
  /\ rule \in Rules
  /\ prompts = {} /\ inflight = {}
  /\ pres = 0 /\ heard = {}

-----------------------------------------------------------------------------
(* Presenting a gate.                                                         *)

\* A later gate of the run takes a new revision, so that its prompts and votes
\* are not those of an earlier one.  An approval gate looks for an earlier gate
\* in the ledger, a checkpoint in the recorded results.
EarlierGate ==
  IF flavor = "checkpoint" THEN run.passed ELSE votes # {} \/ decided

\* Broken on purpose: a later gate of the run keeps the number of the first.
SameRevision(earlier) == run.revision

NextRevision(earlier) ==
  IF run.revision > 0 \/ earlier THEN run.revision + 1 ELSE run.revision

\* Only a saved park is announced.
Announce(r) == prompts' = prompts \cup {[revision |-> r.revision, pres |-> pres']}

\* mark_step_pending: the pool is full or the step not eligible, and the run
\* waits at the gate, which is recorded as skipped.
HeldBack(r) ==
  /\ (IF run.revision > 0 \/ EarlierGate THEN "later" ELSE "first") \in HeldBackAt
  /\ run' = [r EXCEPT !.status = "Pending", !.passed = TRUE]
  /\ saved' \in {saved, run'}
  /\ UNCHANGED <<unsaved, prompts, pres, heard>>

\* persist_parked_snapshot_then_release_claim: saved and announced, kept in
\* memory only, or held back by a pool that filled in between.
Park(r) ==
  /\ pres < MaxPresentations
  /\ \/ /\ run' = r
        /\ pres' = pres + 1 /\ heard' = {}
        /\ \/ saved' = r /\ unsaved' = FALSE /\ Announce(r)
           \/ StoreMayFail /\ unsaved' = TRUE /\ UNCHANGED <<saved, prompts>>
     \/ HeldBack(r)
  /\ UNCHANGED <<flavor, votes, decided, rule, inflight>>

\* The run reaches a gate.
Present(s) ==
  /\ run.status = "Running"
  /\ \/ \E earlier \in {EarlierGate} \cup (IF HistoryMayBeUnread THEN {FALSE} ELSE {}) :
          LET rev == NextRevision(earlier) IN
          Park([run EXCEPT !.status = Parked, !.step = s, !.revision = rev,
                           !.base = IF flavor = "checkpoint" THEN rev ELSE @])
     \/ /\ HeldBack([run EXCEPT !.step = s])
        /\ UNCHANGED <<flavor, votes, decided, rule, inflight>>

\* retry_capacity_blocked_gated_pends: the tick parks a run that was held back.
PresentHeldBack == run.status = "Pending" /\ Park([run EXCEPT !.status = Parked])

\* retry_pending_park_persists: the tick saves the park and announces it.
SettlePark ==
  /\ unsaved
  /\ unsaved' = FALSE /\ saved' = run
  /\ prompts' = prompts \cup {[revision |-> run.revision, pres |-> pres]}
  /\ UNCHANGED <<flavor, run, votes, decided, rule, inflight, pres, heard>>

-----------------------------------------------------------------------------
(* Counting.                                                                  *)

\* The votes of an approval gate name no decision, those of a checkpoint do.
Scope(d) == IF flavor = "checkpoint" THEN d ELSE NoDecision

VoteRow(p, d) ==
  [step |-> run.step, revision |-> run.revision, policy |-> rule.policy,
   voter |-> VoterKey(p), by |-> p, decision |-> Scope(d)]

\* Broken on purpose: a second answer of a voter counts as a repeat whatever it says.
SameVoter(v, w) ==
  v.step = w.step /\ v.revision = w.revision /\ v.policy = w.policy /\ v.voter = w.voter

SameVote(v, w) ==
  /\ v.step = w.step /\ v.revision = w.revision /\ v.policy = w.policy
  /\ v.voter = w.voter /\ v.decision = w.decision

\* record_gate_vote: a repeated vote adds no row.
Recorded(p, d) ==
  IF \E v \in votes : SameVote(v, VoteRow(p, d)) THEN votes ELSE votes \cup {VoteRow(p, d)}

\* The voter of a row is looked up again when the policy requires a group; a
\* source that vote_principal does not know is dropped.
Revalidates(p) == p.source # "channel" /\ IsMember(rule, p)

\* Broken on purpose: whoever voted counts, members or not.
QualifiedOnce(rows, d) ==
  {v.voter : v \in {v \in rows :
      v.step = run.step /\ v.policy = rule.policy /\ v.revision = run.revision
        /\ v.decision = Scope(d)}}

\* count_qualified_voters: distinct voters, under the policy and for the
\* presentation in effect now.
Qualified(rows, d) ==
  {v.voter : v \in {v \in rows :
      /\ v.step = run.step /\ v.policy = rule.policy /\ v.revision = run.revision
      /\ v.decision = Scope(d)
      /\ rule.grouped => Revalidates(v.by)}}

-----------------------------------------------------------------------------
(* Answering.                                                                 *)

\* The resolution and the new state of the run are one write.
Commit(r) ==
  /\ run' = r /\ saved' = r /\ unsaved' = FALSE
  /\ decided' = TRUE

\* resolve_gate and decide_checkpoint: the gate is passed, though the step may
\* turn out not to be eligible.
Pass ==
  /\ ~unsaved
  /\ \E status \in {"Running"} \cup (IF "later" \in HeldBackAt THEN {"Pending"} ELSE {}) :
       Commit([run EXCEPT !.status = status, !.passed = TRUE])
  /\ heard' = {}
  /\ UNCHANGED <<prompts, pres>>

\* Broken on purpose: the new draft keeps the number of the old one.
ReviseInPlace ==
  /\ flavor = "checkpoint" /\ ~unsaved
  /\ pres < MaxPresentations
  /\ Commit(run)
  /\ pres' = pres + 1 /\ heard' = {}
  /\ Announce(run')

\* revise_checkpoint_with_principal: the draft is replaced and presented anew.
Revise ==
  /\ flavor = "checkpoint" /\ ~unsaved
  /\ run.revision - run.base < MaxGateRevisions
  /\ pres < MaxPresentations
  /\ Commit([run EXCEPT !.revision = @ + 1])
  /\ pres' = pres + 1 /\ heard' = {}
  /\ Announce(run')

\* A denial ends the run; at a checkpoint it may take another path.
Refuse ==
  /\ flavor = "checkpoint" => ~unsaved
  /\ \/ Commit([run EXCEPT !.status = "Ended"])
     \/ flavor = "checkpoint" /\ Commit([run EXCEPT !.status = "Running", !.passed = TRUE])
  /\ heard' = {}
  /\ UNCHANGED <<prompts, pres>>

Apply(d) == IF d.kind = "revise" THEN Revise ELSE Pass

\* Amend and revise are for checkpoints.
Offered(d) == flavor = "checkpoint" \/ d.kind \in {"approve", "deny"}

\* Broken on purpose: a gate the store does not have takes votes.
VoteUnsaved(p, d) ==
  /\ votes' = Recorded(p, d) /\ Cardinality(votes') <= MaxVotes
  /\ \/ /\ heard' = heard \cup {[by |-> p, decision |-> d, policy |-> rule.policy]}
        /\ UNCHANGED <<run, saved, unsaved, decided, prompts, pres>>
     \/ Cardinality(Qualified(votes', d)) >= Need(rule) /\ Apply(d)

\* A positive answer that needs others: recorded first, counted, and applied
\* when it makes the quorum.  The ledger may be unreadable after the vote, the
\* slots full, the redraft or the write fail: the vote stays, the gate waits.
Vote(p, d) ==
  /\ ~unsaved
  /\ votes' = Recorded(p, d) /\ Cardinality(votes') <= MaxVotes
  /\ \/ /\ heard' = heard \cup {[by |-> p, decision |-> d, policy |-> rule.policy]}
        /\ UNCHANGED <<run, saved, unsaved, decided, prompts, pres>>
     \/ Cardinality(Qualified(votes', d)) >= Need(rule) /\ Apply(d)

\* The broker: ApprovalBroker::resolve and authorize_checkpoint.  An answer it
\* rejects, or that finds the gate decided, changes nothing.
Resolve(p, d) ==
  /\ Waiting
  /\ Offered(d)
  /\ MayAct(rule, p) /\ ~RejectedByMode(rule, p)
  /\ \/ d.kind = "deny" /\ Refuse /\ UNCHANGED votes
     \/ d.kind # "deny" /\ Need(rule) = 1 /\ Apply(d) /\ UNCHANGED votes
     \/ d.kind # "deny" /\ Need(rule) > 1 /\ Vote(p, d)
  /\ UNCHANGED <<flavor, rule>>

\* HTTP, WebSocket, command line, agent tool: whatever gate the run waits at.
Answer(p, d) ==
  /\ p.source # "channel"
  /\ Resolve(p, d)
  /\ UNCHANGED inflight

\* is_gate_reference_superseded.
Superseded(ref) == run.revision # ref.revision /\ ~unsaved

\* The channel compares the prompt with the run and lets go of the engine ...
ChannelCheck(p, d, ref) ==
  /\ p.source = "channel" /\ Offered(d)
  /\ Waiting /\ ~Superseded(ref)
  /\ Cardinality(inflight) < MaxInflight
  /\ inflight' = inflight \cup {[by |-> p, decision |-> d, pres |-> ref.pres]}
  /\ UNCHANGED <<flavor, run, saved, unsaved, votes, decided, rule, prompts, pres, heard>>

\* ... and then takes it again to resolve whatever gate it finds.
ChannelResolve(a) ==
  /\ a \in inflight
  /\ inflight' = inflight \ {a}
  /\ \/ Resolve(a.by, a.decision)
     \/ UNCHANGED <<flavor, run, saved, unsaved, votes, decided, rule, prompts, pres, heard>>

-----------------------------------------------------------------------------
(* Timeouts, the end of the run, configuration.                               *)

\* check_approval_timeouts: only approval gates, and none that is not saved.
TimeOut ==
  /\ run.status = "WaitingApproval" /\ ~unsaved
  /\ \/ /\ rule.timeout = "Escalate"
        /\ saved' = run /\ decided' = TRUE
        /\ UNCHANGED <<run, unsaved, heard>>
     \/ /\ rule.timeout = "Cancel"
        /\ run' = [run EXCEPT !.status = "Ended"] /\ saved' = run' /\ heard' = {}
        /\ decided' = TRUE
        /\ UNCHANGED unsaved
     \/ /\ rule.timeout = "AutoApprove" /\ rule.mode # "AgentTool"
        /\ Commit([run EXCEPT !.status = "Running", !.passed = TRUE]) /\ heard' = {}
  /\ UNCHANGED <<flavor, votes, rule, prompts, inflight, pres>>

Finish ==
  /\ run.status = "Running"
  /\ run' = [run EXCEPT !.status = "Ended"] /\ saved' = run'
  /\ UNCHANGED <<flavor, unsaved, votes, decided, rule, prompts, inflight, pres, heard>>

\* SopEngine::reload: a step may name another policy, or be gone.
Reload ==
  /\ \E c \in Rules :
       /\ c.mode = rule.mode /\ c.timeout = rule.timeout /\ c.members = rule.members
       /\ rule' = c
  /\ UNCHANGED <<flavor, run, saved, unsaved, votes, decided, prompts, inflight, pres, heard>>

\* A restart comes back with what is saved and the configuration of the day.
Restart ==
  /\ run' = saved /\ unsaved' = FALSE
  /\ rule' \in Rules
  /\ inflight' = {}
  /\ UNCHANGED <<flavor, saved, votes, decided, prompts, pres, heard>>

Next ==
  \/ \E s \in 1..NumGates : Present(s)
  \/ PresentHeldBack
  \/ SettlePark
  \/ \E p \in Principals, d \in Decisions : Answer(p, d)
  \/ \E p \in Principals, d \in Decisions, ref \in prompts : ChannelCheck(p, d, ref)
  \/ \E a \in inflight : ChannelResolve(a)
  \/ TimeOut
  \/ Finish
  \/ Reload
  \/ Restart

Spec == Init /\ [][Next]_vars

-----------------------------------------------------------------------------
(* Properties.                                                                *)

Principal == [source : {"agent", "cli", "http", "ws", "channel", "system"},
              identity : {p.identity : p \in Principals} \cup {Anonymous},
              channel : {p.channel : p \in Principals}]

RunState == [status : {"Running", "Pending", "WaitingApproval", "PausedCheckpoint", "Ended"},
             step : 0..NumGates, revision : Nat, base : Nat, passed : BOOLEAN]

HeardAnswer == [by : Principals, decision : Decisions, policy : {c.policy : c \in Rules}]

Row == [step : 0..NumGates, revision : Nat, policy : {c.policy : c \in Rules},
        voter : {VoterKey(p) : p \in Principals}, by : Principals,
        decision : Decisions \cup {NoDecision}]

\* The variables hold what the code stores in them.
TypeOK ==
  /\ flavor \in {"approval", "checkpoint"}
  /\ run \in RunState /\ saved \in RunState
  /\ unsaved \in BOOLEAN
  /\ votes \subseteq Row
  /\ decided \in BOOLEAN
  /\ rule \in Rules
  /\ prompts \subseteq [revision : Nat, pres : Nat]
  /\ inflight \subseteq [by : Principals, decision : Decisions, pres : Nat]
  /\ pres \in Nat
  /\ heard \subseteq HeardAnswer

Answerable == {d \in Decisions : d.kind # "deny" /\ Offered(d)}

\* The voters of the current presentation whose answer counts under the rule.
Backers(d) ==
  {VoterKey(a.by) : a \in {a \in heard :
      a.decision = d /\ a.policy = rule.policy /\ (rule.grouped => IsMember(rule, a.by))}}

\* Broker.rs: "neither policy reloads nor a later visit to the same step can
\* reuse a stale vote".  Whoever is counted answered this very presentation,
\* with this decision, and is a member today.
VotesAreCurrent ==
  Waiting => \A d \in Answerable : Qualified(votes, d) \subseteq Backers(d)

\* Whoever answered this presentation and is a member today is counted: no
\* repeated vote, restart or reload in between makes the row unfindable.
EveryVoteCounts ==
  Waiting => \A d \in Answerable : Backers(d) \subseteq Qualified(votes, d)

\* A reference that names the run's revision was sent for the gate it is at.
PromptNamesGate ==
  \A ref \in prompts : Waiting /\ ref.revision = run.revision => ref.pres = pres

\* No vote is for a park the store never saw: a restart cannot leave votes of
\* a gate that no longer exists, waiting for another gate to take its number.
VotesFollowPark == \A v \in votes : v.revision <= saved.revision

\* The broker and the engine decide gates as SopDecision promises.
Decision == INSTANCE SopDecision WITH open <- Waiting

DecidesByQuorum == Decision!DSpec
=============================================================================
