-------------------------- MODULE SopQuorum_proofs --------------------------
(* For any principals, rules, gates and store failures: whoever is counted    *)
(* for a gate answered this presentation of it, whoever answered it and is a  *)
(* member today is counted, a prompt that matches the gate was sent for this  *)
(* presentation, no vote outlives its park, and the broker implements         *)
(* SopDecision.  The argument is about numbers.  Every vote and every prompt  *)
(* carries the revision of a saved park; a gate that is presented after any   *)
(* of them takes a revision above all of them; so those that carry the        *)
(* current revision are of the current presentation.  It needs that only a    *)
(* first gate is held back and that the ledger can be read when a gate is     *)
(* presented: Renumbers.                                                      *)
EXTENDS SopQuorum, FiniteSetTheorems, TLAPS

Renumbers == HistoryMayBeUnread = FALSE /\ "later" \notin HeldBackAt

ParkedIn(r) == r.status \in {"WaitingApproval", "PausedCheckpoint"}

\* A checkpoint that was voted on is passed, or renumbered, or still there.
Marked(r) ==
  flavor = "checkpoint" /\ votes # {} =>
    r.passed \/ r.revision > 0 \/ ParkedIn(r) \/ r.status = "Ended"

\* The revisions of the votes, of the snapshot and of the run.
Numbering ==
  /\ VotesFollowPark
  /\ saved.revision <= run.revision
  /\ Marked(run) /\ Marked(saved)
  /\ run.status = "Pending" \/ saved.status = "Pending" => votes = {}

\* What is saved of a parked run.
Parking ==
  /\ unsaved => Waiting /\ heard = {} /\ \A v \in votes : v.revision < run.revision
  /\ Waiting /\ ~unsaved => saved = run
  /\ ParkedIn(saved) => saved = run

\* Every vote of the current revision is an answer heard at this presentation.
Answered ==
  Waiting => \A v \in votes : v.revision = run.revision =>
    \E a \in heard : /\ a.by = v.by /\ VoterKey(a.by) = v.voter
                     /\ a.policy = v.policy
                     /\ a.decision \in Answerable /\ Scope(a.decision) = v.decision

QInv == TypeOK /\ Numbering /\ Parking /\ Answered /\ IsFiniteSet(heard)

-----------------------------------------------------------------------------
(* Steps that decide a gate.                                                  *)

\* The row of a vote is well formed.
LEMMA RowType ==
  ASSUME TypeOK, NEW p \in Principals, NEW d \in Decisions
  PROVE  VoteRow(p, d) \in Row /\ Recorded(p, d) \subseteq Row
  BY DEF TypeOK, VoteRow, Row, Recorded, Scope, RunState

\* A gate that is passed or revised keeps the invariant, also when the vote
\* that decides it was recorded in the same step.
LEMMA ApplyStep ==
  ASSUME QInv, Waiting, Renumbers, NEW d, Apply(d),
         UNCHANGED <<flavor, rule>>, inflight' \subseteq inflight,
         votes \subseteq votes', votes' \subseteq Row,
         \A v \in votes' : v \in votes \/ v.revision = run.revision
  PROVE  QInv'
<1> USE DEF QInv, Numbering, Parking
<1>1. CASE Pass
  <2>1. run' = [run EXCEPT !.status = "Running", !.passed = TRUE] /\ saved' = run'
        /\ unsaved' = FALSE /\ heard' = {} /\ decided' = TRUE
        /\ UNCHANGED <<prompts, pres>> /\ ~unsaved
    BY <1>1 DEF Pass, Commit, Renumbers
  <2>2. saved = run /\ run \in RunState
    BY <2>1 DEF TypeOK
  <2>3. TypeOK'
    BY <2>1, <2>2 DEF TypeOK, RunState
  <2>4. Numbering'
    <3>1. run'.revision = run.revision /\ run'.passed = TRUE /\ run'.status = "Running"
      BY <2>1, <2>2 DEF RunState
    <3>2. VotesFollowPark'
      BY <2>1, <2>2, <3>1 DEF VotesFollowPark, Row, RunState, TypeOK
    <3> QED  BY <2>1, <2>2, <3>1, <3>2 DEF Marked, RunState
  <2>5. Parking' /\ Answered' /\ IsFiniteSet(heard')
    BY <2>1, <2>2, FS_EmptySet DEF Answered, Waiting, ParkedIn, RunState
  <2> QED  BY <2>3, <2>4, <2>5
<1>2. CASE Revise
  <2>1. run' = [run EXCEPT !.revision = @ + 1] /\ saved' = run'
        /\ unsaved' = FALSE /\ heard' = {} /\ decided' = TRUE /\ ~unsaved
        /\ pres' = pres + 1
        /\ prompts' = prompts \cup {[revision |-> run'.revision, pres |-> pres']}
    BY <1>2 DEF Revise, Commit, Announce
  <2>2. saved = run /\ run \in RunState
    BY <2>1 DEF TypeOK
  <2>3. run'.revision = run.revision + 1 /\ run'.status = run.status /\ run'.passed = run.passed
        /\ run.revision \in Nat
    BY <2>1, <2>2 DEF RunState
  <2>4. TypeOK'
    <3>1. run' \in RunState
      BY <2>1, <2>2, <2>3 DEF RunState
    <3>2. pres' \in Nat /\ run'.revision \in Nat
      BY <2>1, <2>3 DEF TypeOK
    <3>3. prompts' \subseteq [revision : Nat, pres : Nat]
      BY <2>1, <3>2 DEF TypeOK
    <3> QED  BY <2>1, <3>1, <3>2, <3>3 DEF TypeOK
  <2>5. \A v \in votes' : v.revision \in Nat /\ v.revision <= run.revision
    BY <2>2 DEF VotesFollowPark, Row, TypeOK
  <2>6. Numbering'
    BY <2>1, <2>3, <2>5 DEF Marked, VotesFollowPark, Waiting
  <2>7. Parking' /\ Answered' /\ IsFiniteSet(heard')
    <3>1. \A v \in votes' : v.revision # run'.revision
      BY <2>3, <2>5
    <3> QED  BY <2>1, <3>1, FS_EmptySet DEF Answered, Waiting, ParkedIn
  <2> QED  BY <2>4, <2>6, <2>7
<1> QED  BY <1>1, <1>2 DEF Apply

\* A denial keeps the invariant.
LEMMA RefuseStep ==
  ASSUME QInv, Waiting, Refuse, UNCHANGED <<flavor, rule, votes>>, inflight' \subseteq inflight
  PROVE  QInv'
<1> USE DEF QInv, Numbering, Parking
<1>1. saved' = run' /\ unsaved' = FALSE /\ heard' = {} /\ decided' = TRUE
      /\ UNCHANGED <<prompts, pres>>
      /\ \/ run' = [run EXCEPT !.status = "Ended"]
         \/ run' = [run EXCEPT !.status = "Running", !.passed = TRUE]
  BY DEF Refuse, Commit
<1>2. run \in RunState /\ saved.revision \in Nat
  BY DEF TypeOK, RunState
<1>3. run'.revision = run.revision /\ run' \in RunState
      /\ (run'.status = "Ended" \/ (run'.status = "Running" /\ run'.passed = TRUE))
  BY <1>1, <1>2 DEF RunState
<1>4. TypeOK'
  BY <1>1, <1>3 DEF TypeOK
<1>5. \A v \in votes' : v.revision \in Nat /\ v.revision <= run.revision
  BY <1>2 DEF VotesFollowPark, Row, TypeOK, RunState
<1>6. Numbering'
  BY <1>1, <1>2, <1>3, <1>5 DEF Marked, VotesFollowPark, RunState
<1>7. Parking' /\ Answered' /\ IsFiniteSet(heard')
  BY <1>1, <1>3, FS_EmptySet DEF Answered, Waiting, ParkedIn
<1> QED  BY <1>4, <1>6, <1>7

\* A vote that decides nothing is heard, and is the answer behind its row.
LEMMA HearStep ==
  ASSUME QInv, Waiting, ~unsaved, NEW p \in Principals, NEW d \in Decisions,
         d.kind # "deny", Offered(d), votes' = Recorded(p, d),
         heard' = heard \cup {[by |-> p, decision |-> d, policy |-> rule.policy]},
         UNCHANGED <<run, saved, unsaved, decided, prompts, pres, flavor, rule>>,
         inflight' \subseteq inflight
  PROVE  QInv'
<1> USE DEF QInv, Numbering, Parking
<1>1. votes' \subseteq Row /\ votes' \subseteq votes \cup {VoteRow(p, d)} /\ votes \subseteq votes'
  BY RowType DEF Recorded
<1>2. saved = run /\ run \in RunState
  BY DEF TypeOK
<1>3. TypeOK'
  <2>1. rule.policy \in {c.policy : c \in Rules}
    BY DEF TypeOK
  <2>2. heard' \subseteq HeardAnswer
    BY <2>1 DEF TypeOK, HeardAnswer
  <2> QED  BY <1>1, <2>2 DEF TypeOK
<1>4. VotesFollowPark'
  <2>1. VoteRow(p, d).revision = run.revision
    BY DEF VoteRow
  <2> QED  BY <1>1, <1>2, <2>1 DEF VotesFollowPark, RunState
<1>5. Numbering'
  BY <1>2, <1>4 DEF Marked, ParkedIn, Waiting
<1>6. Parking' /\ IsFiniteSet(heard')
  BY FS_AddElement DEF Waiting, ParkedIn
<1>7. Answered'
  <2> DEFINE a == [by |-> p, decision |-> d, policy |-> rule.policy]
  <2>1. SUFFICES ASSUME NEW v \in votes', v.revision = run.revision
                 PROVE  \E b \in heard' : /\ b.by = v.by /\ VoterKey(b.by) = v.voter
                                          /\ b.policy = v.policy
                                          /\ b.decision \in Answerable
                                          /\ Scope(b.decision) = v.decision
    BY DEF Answered, Waiting, Answerable, Offered, Scope
  <2>2. CASE v \in votes
    BY <2>1, <2>2 DEF Answered
  <2>3. CASE v = VoteRow(p, d)
    <3>1. a \in heard' /\ a.by = p /\ a.decision = d /\ a.policy = rule.policy
      OBVIOUS
    <3>2. d \in Answerable
      BY DEF Answerable
    <3> QED  BY <2>3, <3>1, <3>2 DEF VoteRow
  <2> QED  BY <1>1, <2>2, <2>3
<1> QED  BY <1>3, <1>5, <1>6, <1>7

\* Whatever the broker makes of an answer.
LEMMA ResolveStep ==
  ASSUME QInv, Renumbers, NEW p \in Principals, NEW d \in Decisions, Resolve(p, d),
         inflight' \subseteq inflight
  PROVE  QInv'
<1>1. Waiting /\ Offered(d) /\ UNCHANGED <<flavor, rule>>
  BY DEF Resolve
<1>2. CASE d.kind = "deny"
  BY <1>1, <1>2, RefuseStep DEF Resolve
<1>3. CASE d.kind # "deny" /\ Need(rule) = 1 /\ Apply(d) /\ UNCHANGED votes
  BY <1>1, <1>3, ApplyStep DEF QInv, TypeOK
<1>4. CASE d.kind # "deny" /\ Vote(p, d)
  <2>1. ~unsaved /\ votes' = Recorded(p, d)
    BY <1>4 DEF Vote
  <2>2. CASE heard' = heard \cup {[by |-> p, decision |-> d, policy |-> rule.policy]}
             /\ UNCHANGED <<run, saved, unsaved, decided, prompts, pres>>
    BY <1>1, <1>4, <2>1, <2>2, HearStep
  <2>3. CASE Apply(d)
    <3>1. votes \subseteq votes' /\ votes' \subseteq Row
      BY <2>1, RowType DEF Recorded, QInv
    <3>2. \A v \in votes' : v \in votes \/ v.revision = run.revision
      BY <2>1 DEF Recorded, VoteRow
    <3> QED  BY <1>1, <2>3, <3>1, <3>2, ApplyStep
  <2> QED  BY <1>4, <2>2, <2>3 DEF Vote
<1> QED  BY <1>2, <1>3, <1>4 DEF Resolve

-----------------------------------------------------------------------------
(* Steps that present a gate.                                                 *)

\* Held back at a first gate: nobody has voted yet.
LEMMA HeldBackStep ==
  ASSUME QInv, Renumbers, run.status \in {"Running", "Pending"},
         NEW r \in RunState, r.revision \in {run.revision, run.revision + 1},
         run.revision = 0 /\ ~EarlierGate => r.revision = run.revision,
         HeldBack(r), UNCHANGED <<flavor, votes, decided, rule, inflight>>
  PROVE  QInv'
<1> USE DEF QInv, Numbering, Parking
<1>1. run.revision = 0 /\ ~EarlierGate
  BY DEF HeldBack, Renumbers, TypeOK, RunState
<1>2. votes = {}
  BY <1>1 DEF EarlierGate, Marked, ParkedIn
<1>3. run' = [r EXCEPT !.status = "Pending", !.passed = TRUE] /\ saved' \in {saved, run'}
      /\ UNCHANGED <<unsaved, prompts, pres, heard>>
  BY DEF HeldBack
<1>4. run' \in RunState /\ run'.status = "Pending" /\ run'.revision = run.revision
  BY <1>1, <1>3 DEF RunState
<1>5. TypeOK'
  BY <1>3, <1>4 DEF TypeOK
<1>6. Numbering'
  <2>1. saved.revision <= run'.revision /\ run'.revision <= run'.revision
    BY <1>4 DEF RunState
  <2>2. saved'.revision <= run'.revision
    BY <1>3, <2>1
  <2> QED  BY <1>2, <2>2 DEF Marked, VotesFollowPark
<1>7. ~unsaved
  BY DEF Waiting
<1>8. ~ParkedIn(saved)
  BY DEF ParkedIn
<1>9. Parking'
  BY <1>3, <1>4, <1>7, <1>8 DEF Waiting, ParkedIn
<1>10. Answered'
  BY <1>4 DEF Answered, Waiting
<1> QED  BY <1>3, <1>5, <1>6, <1>9, <1>10

\* A presentation takes a revision above that of every vote.
LEMMA ParkStep ==
  ASSUME QInv, Renumbers, run.status \in {"Running", "Pending"},
         NEW r \in RunState, ParkedIn(r), r.revision \in {run.revision, run.revision + 1},
         run.revision = 0 /\ ~EarlierGate => r.revision = run.revision,
         \A v \in votes : v.revision < r.revision,
         Park(r)
  PROVE  QInv'
<1> USE DEF QInv, Numbering, Parking
<1>1. UNCHANGED <<flavor, votes, decided, rule, inflight>>
  BY DEF Park
<1>2. CASE HeldBack(r)
  BY <1>1, <1>2, HeldBackStep
<1>3. CASE run' = r /\ pres' = pres + 1 /\ heard' = {}
           /\ \/ saved' = r /\ unsaved' = FALSE /\ Announce(r)
              \/ unsaved' = TRUE /\ UNCHANGED <<saved, prompts>>
  <2>1. r.revision \in Nat /\ run.revision \in Nat /\ saved.revision \in Nat
    BY DEF TypeOK, RunState
  <2>2. prompts' \subseteq [revision : Nat, pres : Nat] /\ pres' \in Nat
    BY <1>3, <2>1 DEF TypeOK, Announce
  <2>3. TypeOK'
    BY <1>1, <1>3, <2>2 DEF TypeOK
  <2>4. ~unsaved /\ ~ParkedIn(saved)
    BY DEF Waiting, ParkedIn
  <2>5. \A v \in votes : v.revision \in Nat /\ v.revision <= saved.revision
    BY DEF TypeOK, Row, VotesFollowPark
  <2>6. VotesFollowPark' /\ saved'.revision <= run'.revision
    BY <1>1, <1>3, <2>1, <2>5 DEF VotesFollowPark
  <2>7. Numbering'
    BY <1>1, <1>3, <2>6 DEF Marked, ParkedIn
  <2>8. Parking'
    BY <1>1, <1>3, <2>4 DEF Waiting, ParkedIn
  <2>9. Answered'
    <3>1. \A v \in votes' : v.revision # run'.revision
      BY <1>1, <1>3, <2>1, <2>5
    <3> QED  BY <3>1 DEF Answered
  <2> QED  BY <1>3, <2>3, <2>7, <2>8, <2>9, FS_EmptySet
<1> QED  BY <1>2, <1>3 DEF Park

\* The run reaches a gate.
LEMMA PresentStep ==
  ASSUME QInv, Renumbers, NEW s \in 1..NumGates, Present(s)
  PROVE  QInv'
<1>1. run.status = "Running" /\ run \in RunState /\ run.revision \in Nat
  BY DEF Present, QInv, TypeOK, RunState
<1>2. CASE HeldBack([run EXCEPT !.step = s])
           /\ UNCHANGED <<flavor, votes, decided, rule, inflight>>
  <2>1. [run EXCEPT !.step = s] \in RunState
        /\ [run EXCEPT !.step = s].revision = run.revision
    BY <1>1 DEF RunState
  <2> QED  BY <1>1, <1>2, <2>1, HeldBackStep
<1>3. ASSUME NEW rev, rev = NextRevision(EarlierGate),
             Park([run EXCEPT !.status = Parked, !.step = s, !.revision = rev,
                              !.base = IF flavor = "checkpoint" THEN rev ELSE @])
      PROVE  QInv'
  <2> DEFINE r == [run EXCEPT !.status = Parked, !.step = s, !.revision = rev,
                              !.base = IF flavor = "checkpoint" THEN rev ELSE @]
  <2>1. rev \in Nat /\ rev \in {run.revision, run.revision + 1}
    BY <1>1, <1>3 DEF NextRevision
  <2>2. r \in RunState /\ r.revision = rev /\ ParkedIn(r)
    <3>1. Parked \in {"WaitingApproval", "PausedCheckpoint"} /\ s \in 0..NumGates
      BY DEF Parked
    <3>2. run.base \in Nat /\ (IF flavor = "checkpoint" THEN rev ELSE run.base) \in Nat
      BY <1>1, <2>1 DEF RunState
    <3> QED  BY <1>1, <2>1, <3>1, <3>2 DEF RunState, ParkedIn
  <2>3. run.revision = 0 /\ ~EarlierGate => rev = run.revision
    BY <1>3 DEF NextRevision
  <2>4. \A v \in votes : v.revision < rev
    <3>1. SUFFICES ASSUME NEW v \in votes PROVE v.revision < rev
      OBVIOUS
    <3>2. run.revision > 0 \/ EarlierGate
      BY <1>1 DEF QInv, Numbering, Marked, ParkedIn, EarlierGate
    <3>3. rev = run.revision + 1
      BY <1>3, <3>2 DEF NextRevision
    <3>4. v.revision \in Nat /\ v.revision <= saved.revision /\ saved.revision <= run.revision
          /\ saved.revision \in Nat
      BY DEF QInv, Numbering, VotesFollowPark, TypeOK, Row, RunState
    <3> QED  BY <1>1, <3>3, <3>4
  <2> QED  BY <1>1, <1>3, <2>1, <2>2, <2>3, <2>4, ParkStep
<1> QED  BY <1>2, <1>3 DEF Present, Renumbers

\* A first gate that was held back is presented.
LEMMA PresentHeldBackStep ==
  ASSUME QInv, Renumbers, PresentHeldBack
  PROVE  QInv'
<1> DEFINE r == [run EXCEPT !.status = Parked]
<1>1. run.status = "Pending" /\ run \in RunState /\ votes = {} /\ Park(r)
  BY DEF PresentHeldBack, QInv, Numbering, TypeOK
<1>2. r \in RunState /\ ParkedIn(r) /\ r.revision = run.revision
  BY <1>1 DEF RunState, Parked, ParkedIn
<1> QED  BY <1>1, <1>2, ParkStep

-----------------------------------------------------------------------------
(* The other steps.                                                           *)

LEMMA SettleStep ==
  ASSUME QInv, SettlePark
  PROVE  QInv'
<1> USE DEF QInv, Numbering, Parking
<1>1. unsaved /\ unsaved' = FALSE /\ saved' = run /\ heard = {} /\ Waiting
      /\ prompts' = prompts \cup {[revision |-> run.revision, pres |-> pres]}
      /\ UNCHANGED <<flavor, run, votes, decided, rule, inflight, pres, heard>>
  BY DEF SettlePark
<1>2. run \in RunState /\ run.revision \in Nat /\ pres \in Nat
  BY DEF TypeOK, RunState
<1>3. TypeOK'
  <2>1. prompts' \subseteq [revision : Nat, pres : Nat]
    BY <1>1, <1>2 DEF TypeOK
  <2> QED  BY <1>1, <2>1 DEF TypeOK
<1>4. \A v \in votes : v.revision \in Nat /\ v.revision < run.revision
  BY <1>1 DEF TypeOK, Row
<1>5. Numbering'
  BY <1>1, <1>2, <1>4 DEF Marked, VotesFollowPark, Waiting
<1>6. Parking' /\ Answered'
  BY <1>1, <1>2, <1>4 DEF Waiting, ParkedIn, Answered
<1> QED  BY <1>1, <1>3, <1>5, <1>6

LEMMA TimeOutStep ==
  ASSUME QInv, Renumbers, TimeOut
  PROVE  QInv'
<1> USE DEF QInv, Numbering, Parking
<1>1. run.status = "WaitingApproval" /\ ~unsaved /\ run \in RunState /\ saved = run
      /\ unsaved' = FALSE /\ decided' = TRUE
      /\ UNCHANGED <<flavor, votes, rule, prompts, inflight, pres>>
  BY DEF TimeOut, Commit, Waiting, TypeOK
<1>2. CASE saved' = run /\ UNCHANGED <<run, heard>>
  <2>1. TypeOK' /\ Numbering' /\ Parking'
    BY <1>1, <1>2 DEF TypeOK, Marked, VotesFollowPark, Waiting, ParkedIn
  <2>2. Answered'
    BY <1>1, <1>2 DEF Answered, Waiting, Answerable, Offered, Scope
  <2> QED  BY <1>2, <2>1, <2>2
<1>3. CASE /\ saved' = run' /\ heard' = {}
           /\ \/ run' = [run EXCEPT !.status = "Ended"]
              \/ run' = [run EXCEPT !.status = "Running", !.passed = TRUE]
  <2>1. run' \in RunState /\ run'.revision = run.revision
        /\ (run'.status = "Ended" \/ (run'.status = "Running" /\ run'.passed = TRUE))
    BY <1>1, <1>3 DEF RunState
  <2>2. TypeOK'
    BY <1>1, <1>3, <2>1 DEF TypeOK
  <2>3. Numbering'
    BY <1>1, <1>3, <2>1 DEF Marked, VotesFollowPark, RunState
  <2>4. Parking' /\ Answered' /\ IsFiniteSet(heard')
    BY <1>1, <1>3, <2>1, FS_EmptySet DEF Answered, Waiting, ParkedIn
  <2> QED  BY <2>2, <2>3, <2>4
<1> QED  BY <1>1, <1>2, <1>3 DEF TimeOut, Commit

LEMMA FinishStep ==
  ASSUME QInv, Finish
  PROVE  QInv'
<1> USE DEF QInv, Numbering, Parking
<1>1. run.status = "Running" /\ run \in RunState /\ saved.revision \in Nat
      /\ run' = [run EXCEPT !.status = "Ended"] /\ saved' = run'
      /\ UNCHANGED <<flavor, unsaved, votes, decided, rule, prompts, inflight, pres, heard>>
  BY DEF Finish, TypeOK, RunState
<1>2. run' \in RunState /\ run'.revision = run.revision /\ run'.status = "Ended"
      /\ run.revision \in Nat
  BY <1>1 DEF RunState
<1>3. TypeOK'
  BY <1>1, <1>2 DEF TypeOK
<1>4. \A v \in votes : v.revision \in Nat /\ v.revision <= run.revision
  BY <1>1, <1>2 DEF VotesFollowPark, TypeOK, Row
<1>5. Numbering'
  BY <1>1, <1>2, <1>4 DEF Marked, VotesFollowPark
<1>6. Parking' /\ Answered'
  BY <1>1, <1>2 DEF Waiting, ParkedIn, Answered
<1> QED  BY <1>1, <1>3, <1>5, <1>6

LEMMA RestartStep ==
  ASSUME QInv, Restart
  PROVE  QInv'
<1> USE DEF QInv, Numbering, Parking
<1>1. run' = saved /\ unsaved' = FALSE /\ rule' \in Rules /\ inflight' = {}
      /\ UNCHANGED <<flavor, saved, votes, decided, prompts, pres, heard>>
  BY DEF Restart
<1>2. TypeOK'
  BY <1>1 DEF TypeOK
<1>3. Numbering'
  BY <1>1 DEF Marked, VotesFollowPark, ParkedIn, TypeOK, RunState
<1>4. Parking'
  BY <1>1 DEF Waiting, ParkedIn
<1>5. Answered'
  BY <1>1 DEF Answered, Waiting, ParkedIn, Answerable, Offered, Scope
<1> QED  BY <1>1, <1>2, <1>3, <1>4, <1>5

\* Steps that leave the run, its votes and its snapshot alone.
LEMMA AsideStep ==
  ASSUME QInv, TypeOK',
         UNCHANGED <<flavor, run, saved, unsaved, votes, heard>>
  PROVE  QInv'
<1> QED
  BY DEF QInv, Numbering, Parking, Answered, VotesFollowPark, Marked, ParkedIn, Waiting,
         Answerable, Offered, Scope

-----------------------------------------------------------------------------
(* The invariant and what follows from it.                                    *)

LEMMA QInvInit == Init => QInv
<1> SUFFICES ASSUME Init PROVE QInv
  OBVIOUS
<1>1. run = [status |-> "Running", step |-> 0, revision |-> 0, base |-> 0, passed |-> FALSE]
      /\ saved = run /\ votes = {} /\ heard = {} /\ unsaved = FALSE
  BY DEF Init
<1>2. run \in RunState
  BY <1>1, QuorumAssumption DEF RunState
<1>3. TypeOK
  BY <1>1, <1>2 DEF Init, TypeOK
<1> QED
  BY <1>1, <1>3, FS_EmptySet
     DEF QInv, Numbering, Parking, Answered, VotesFollowPark, Marked, ParkedIn, Waiting

LEMMA QInvNext ==
  ASSUME QInv, Renumbers, [Next]_vars
  PROVE  QInv'
<1>1. ASSUME NEW s \in 1..NumGates, Present(s) PROVE QInv'
  BY <1>1, PresentStep
<1>2. CASE PresentHeldBack
  BY <1>2, PresentHeldBackStep
<1>3. CASE SettlePark
  BY <1>3, SettleStep
<1>4. ASSUME NEW p \in Principals, NEW d \in Decisions, Answer(p, d) PROVE QInv'
  BY <1>4, ResolveStep DEF Answer
<1>5. ASSUME NEW p \in Principals, NEW d \in Decisions, NEW ref \in prompts,
             ChannelCheck(p, d, ref)
      PROVE  QInv'
  <2>1. ref.pres \in Nat
    BY DEF QInv, TypeOK
  <2>2. TypeOK'
    BY <1>5, <2>1 DEF ChannelCheck, QInv, TypeOK
  <2> QED  BY <1>5, <2>2, AsideStep DEF ChannelCheck
<1>6. ASSUME NEW a \in inflight, ChannelResolve(a) PROVE QInv'
  <2>1. inflight' = inflight \ {a} /\ a.by \in Principals /\ a.decision \in Decisions
    BY <1>6 DEF ChannelResolve, QInv, TypeOK
  <2>2. CASE Resolve(a.by, a.decision)
    BY <2>1, <2>2, ResolveStep
  <2>3. CASE UNCHANGED <<flavor, run, saved, unsaved, votes, decided, rule, prompts, pres, heard>>
    <3>1. TypeOK'
      BY <2>1, <2>3 DEF QInv, TypeOK
    <3> QED  BY <2>3, <3>1, AsideStep
  <2> QED  BY <1>6, <2>2, <2>3 DEF ChannelResolve
<1>7. CASE TimeOut
  BY <1>7, TimeOutStep
<1>8. CASE Finish
  BY <1>8, FinishStep
<1>9. CASE Reload
  <2>1. TypeOK'
    BY <1>9 DEF Reload, QInv, TypeOK
  <2> QED  BY <1>9, <2>1, AsideStep DEF Reload
<1>10. CASE Restart
  BY <1>10, RestartStep
<1>11. CASE UNCHANGED vars
  <2>1. TypeOK'
    BY <1>11 DEF vars, QInv, TypeOK
  <2> QED  BY <1>11, <2>1, AsideStep DEF vars
<1> QED
  BY <1>1, <1>2, <1>3, <1>4, <1>5, <1>6, <1>7, <1>8, <1>9, <1>10, <1>11 DEF Next

\* The votes that are counted for decision d were heard for it: of all rows of
\* the ledger, with the answer that is being given where there is one.
LEMMA QualifiedHeard ==
  ASSUME QInv, Waiting, NEW d \in Answerable, NEW rows, NEW more \in SUBSET HeardAnswer,
         \A v \in rows : v \in votes \/ \E a \in more :
            /\ a.by = v.by /\ VoterKey(a.by) = v.voter /\ a.policy = v.policy
            /\ a.decision \in Answerable /\ Scope(a.decision) = v.decision
  PROVE  Qualified(rows, d) \subseteq
           {VoterKey(a.by) : a \in {a \in heard \cup more :
              /\ a.decision = d /\ a.policy = rule.policy
              /\ rule.grouped => IsMember(rule, a.by)}}
<1> SUFFICES ASSUME NEW v \in rows,
                    v.policy = rule.policy, v.revision = run.revision,
                    v.decision = Scope(d), rule.grouped => Revalidates(v.by)
             PROVE  \E a \in heard \cup more :
                      /\ VoterKey(a.by) = v.voter
                      /\ a.decision = d /\ a.policy = rule.policy
                      /\ rule.grouped => IsMember(rule, a.by)
  BY DEF Qualified
<1>1. PICK a \in heard \cup more :
        /\ a.by = v.by /\ VoterKey(a.by) = v.voter /\ a.policy = v.policy
        /\ a.decision \in Answerable /\ Scope(a.decision) = v.decision
  BY DEF QInv, Answered
<1>2. a.decision = d
  <2>1. CASE flavor = "checkpoint"
    BY <1>1, <2>1 DEF Scope
  <2>2. CASE flavor # "checkpoint"
    BY <1>1, <2>2, QuorumAssumption DEF Answerable, Offered
  <2> QED  BY <2>1, <2>2
<1> QED  BY <1>1, <1>2 DEF Revalidates

\* Types, for every instance: with gates that are renumbered.
THEOREM QuorumTypes ==
  ASSUME Renumbers
  PROVE  Spec => []TypeOK
<1>1. QInv /\ [Next]_vars => QInv'
  BY QInvNext
<1>2. QInv => TypeOK
  BY DEF QInv
<1> QED  BY QInvInit, <1>1, <1>2, PTL DEF Spec

\* Whoever is counted answered this presentation of the gate, with the decision
\* counted, and is a member today: for any principals, rules, restarts and
\* store failures, as long as gates are renumbered.
THEOREM VotesCurrent ==
  ASSUME Renumbers
  PROVE  Spec => []VotesAreCurrent
<1>1. QInv /\ [Next]_vars => QInv'
  BY QInvNext
<1>2. QInv => VotesAreCurrent
  <2> SUFFICES ASSUME QInv, Waiting, NEW d \in Answerable
               PROVE  Qualified(votes, d) \subseteq Backers(d)
    BY DEF VotesAreCurrent
  <2>1. heard \cup {} = heard
    OBVIOUS
  <2> QED  BY <2>1, QualifiedHeard DEF Backers
<1> QED  BY QInvInit, <1>1, <1>2, PTL DEF Spec

\* No vote names a park that the store does not know.
THEOREM VotesParked ==
  ASSUME Renumbers
  PROVE  Spec => []VotesFollowPark
<1>1. QInv /\ [Next]_vars => QInv'
  BY QInvNext
<1>2. QInv => VotesFollowPark
  BY DEF QInv, Numbering
<1> QED  BY QInvInit, <1>1, <1>2, PTL DEF Spec

-----------------------------------------------------------------------------
(* The prompts, and the answers that must not be lost.  A prompt carries the  *)
(* revision of a saved park, and once one was sent every later gate takes a   *)
(* revision above it; an answer that was heard has its row.                   *)

\* A run that sent a prompt is at its gate, or has passed one, or is renumbered.
Prompted(r) ==
  prompts # {} =>
    \/ r.revision > 0 \/ ParkedIn(r) \/ r.status = "Ended"
    \/ flavor = "checkpoint" /\ r.passed
    \/ flavor # "checkpoint" /\ (votes # {} \/ decided)

\* The revisions of the prompts, of the snapshot and of the run.
PromptNumbering ==
  /\ \A ref \in prompts : ref.revision <= saved.revision
  /\ PromptNamesGate
  /\ Prompted(run) /\ Prompted(saved)
  /\ run.status = "Pending" \/ saved.status = "Pending" => prompts = {}

\* An answer heard at this presentation has its row, of a voter of the same key.
Counted ==
  Waiting => \A a \in heard : \E v \in votes :
    /\ v.step = run.step /\ v.revision = run.revision /\ v.policy = a.policy
    /\ v.voter = VoterKey(a.by) /\ v.decision = Scope(a.decision)
    /\ VoterKey(v.by) = v.voter

GInv == PromptNumbering /\ Counted

\* A gate is left: passed, refused, timed out; or the run ends.
LEMMA LeaveGate ==
  ASSUME QInv, GInv, run'.revision = run.revision, saved' = run',
         \/ run'.status = "Ended"
         \/ run'.status = "Running" /\ run'.passed = TRUE /\ decided' = TRUE,
         flavor' = flavor, prompts' = prompts
  PROVE  GInv'
<1>1. \A ref \in prompts : ref.revision \in Nat /\ ref.revision <= run.revision
  BY DEF QInv, Numbering, TypeOK, RunState, GInv, PromptNumbering
<1>2. PromptNumbering'
  BY <1>1 DEF PromptNumbering, PromptNamesGate, Prompted, Waiting
<1>3. Counted'
  BY DEF Counted, Waiting
<1> QED  BY <1>2, <1>3 DEF GInv

LEMMA ApplyNumbers ==
  ASSUME QInv, QInv', GInv, Waiting, Renumbers, NEW d, Apply(d), flavor' = flavor
  PROVE  GInv'
<1>1. CASE Pass
  <2>1. run' = [run EXCEPT !.status = "Running", !.passed = TRUE] /\ saved' = run'
        /\ decided' = TRUE /\ prompts' = prompts /\ run \in RunState
    BY <1>1 DEF Pass, Commit, Renumbers, QInv, TypeOK
  <2>2. run'.revision = run.revision /\ run'.status = "Running" /\ run'.passed = TRUE
    BY <2>1 DEF RunState
  <2> QED  BY <2>1, <2>2, LeaveGate
<1>2. CASE Revise
  <2>1. run' = [run EXCEPT !.revision = @ + 1] /\ saved' = run' /\ heard' = {} /\ ~unsaved
        /\ prompts' = prompts \cup {[revision |-> run'.revision, pres |-> pres']}
        /\ run \in RunState /\ saved = run
    BY <1>2 DEF Revise, Commit, Announce, QInv, TypeOK, Parking
  <2>2. run'.revision = run.revision + 1 /\ run'.status = run.status /\ run.revision \in Nat
    BY <2>1 DEF RunState
  <2>3. \A ref \in prompts : ref.revision \in Nat /\ ref.revision <= run.revision
    BY <2>1 DEF QInv, TypeOK, GInv, PromptNumbering
  <2>4. PromptNumbering'
    <3>1. \A ref \in prompts' : /\ ref.revision <= run'.revision
                                /\ ref.revision = run'.revision => ref.pres = pres'
      BY <2>1, <2>2, <2>3
    <3>2. run'.revision > 0 /\ run'.status # "Pending" /\ saved'.status # "Pending"
      BY <2>1, <2>2 DEF Waiting
    <3> QED  BY <2>1, <3>1, <3>2 DEF PromptNumbering, PromptNamesGate, Prompted
  <2>5. Counted'
    BY <2>1 DEF Counted
  <2> QED  BY <2>4, <2>5 DEF GInv
<1> QED  BY <1>1, <1>2 DEF Apply

\* An answer that is heard gets its row, or has it.
LEMMA HearCounts ==
  ASSUME QInv, GInv, Waiting, NEW p \in Principals, NEW d \in Decisions, Offered(d),
         votes' = Recorded(p, d),
         heard' = heard \cup {[by |-> p, decision |-> d, policy |-> rule.policy]},
         UNCHANGED <<run, saved, unsaved, decided, prompts, pres, flavor, rule>>
  PROVE  GInv'
<1>1. votes \subseteq votes' /\ \E v \in votes' : SameVote(v, VoteRow(p, d)) /\ VoterKey(v.by) = v.voter
  <2>1. CASE \E v \in votes : SameVote(v, VoteRow(p, d))
    <3>1. PICK v \in votes : SameVote(v, VoteRow(p, d))
      BY <2>1
    <3>2. v.revision = run.revision
      BY <3>1 DEF SameVote, VoteRow
    <3>3. VoterKey(v.by) = v.voter
      BY <3>2 DEF QInv, Answered
    <3> QED  BY <2>1, <3>1, <3>3 DEF Recorded
  <2>2. CASE ~\E v \in votes : SameVote(v, VoteRow(p, d))
    <3>1. SameVote(VoteRow(p, d), VoteRow(p, d)) /\ VoterKey(VoteRow(p, d).by) = VoteRow(p, d).voter
      BY DEF SameVote, VoteRow
    <3> QED  BY <2>2, <3>1 DEF Recorded
  <2> QED  BY <2>1, <2>2
<1>2. Counted'
  <2>1. SUFFICES ASSUME NEW a \in heard'
                 PROVE  \E v \in votes' :
                          /\ v.step = run.step /\ v.revision = run.revision /\ v.policy = a.policy
                          /\ v.voter = VoterKey(a.by) /\ v.decision = Scope(a.decision)
                          /\ VoterKey(v.by) = v.voter
    BY DEF Counted, Waiting, Scope
  <2>2. CASE a \in heard
    BY <1>1, <2>2 DEF GInv, Counted
  <2>3. CASE a = [by |-> p, decision |-> d, policy |-> rule.policy]
    BY <1>1, <2>3 DEF SameVote, VoteRow
  <2> QED  BY <2>1, <2>2, <2>3
<1>3. PromptNumbering'
  BY <1>1 DEF GInv, PromptNumbering, PromptNamesGate, Prompted, Waiting, ParkedIn
<1> QED  BY <1>2, <1>3 DEF GInv

LEMMA ResolveNumbers ==
  ASSUME QInv, QInv', GInv, Renumbers, NEW p \in Principals, NEW d \in Decisions, Resolve(p, d)
  PROVE  GInv'
<1>1. Waiting /\ Offered(d) /\ flavor' = flavor /\ rule' = rule /\ run \in RunState
  BY DEF Resolve, QInv, TypeOK
<1>2. CASE Refuse
  <2>1. saved' = run' /\ decided' = TRUE /\ prompts' = prompts
        /\ \/ run' = [run EXCEPT !.status = "Ended"]
           \/ run' = [run EXCEPT !.status = "Running", !.passed = TRUE]
    BY <1>2 DEF Refuse, Commit
  <2>2. run'.revision = run.revision
        /\ (run'.status = "Ended" \/ (run'.status = "Running" /\ run'.passed = TRUE))
    BY <1>1, <2>1 DEF RunState
  <2> QED  BY <1>1, <2>1, <2>2, LeaveGate
<1>3. CASE Apply(d)
  BY <1>1, <1>3, ApplyNumbers
<1>4. CASE Vote(p, d) /\ ~Apply(d)
  BY <1>1, <1>4, HearCounts DEF Vote
<1> QED  BY <1>2, <1>3, <1>4 DEF Resolve

\* Held back at a first gate: no prompt was sent yet.
LEMMA HeldBackNumbers ==
  ASSUME QInv, GInv, Renumbers, run.status \in {"Running", "Pending"},
         NEW r \in RunState, r.revision \in {run.revision, run.revision + 1},
         run.revision = 0 /\ ~EarlierGate => r.revision = run.revision,
         HeldBack(r), UNCHANGED <<flavor, votes, decided>>
  PROVE  GInv'
<1>1. run.revision = 0 /\ ~EarlierGate
  BY DEF HeldBack, Renumbers, QInv, TypeOK, RunState
<1>2. prompts = {}
  BY <1>1 DEF EarlierGate, GInv, PromptNumbering, Prompted, ParkedIn
<1>3. run' = [r EXCEPT !.status = "Pending", !.passed = TRUE] /\ prompts' = prompts
  BY DEF HeldBack
<1>4. run'.status = "Pending"
  BY <1>3 DEF RunState
<1>5. PromptNumbering'
  BY <1>2, <1>3 DEF PromptNumbering, PromptNamesGate, Prompted
<1>6. Counted'
  BY <1>4 DEF Counted, Waiting
<1> QED  BY <1>5, <1>6 DEF GInv

\* A presentation takes a revision above that of every prompt.
LEMMA ParkNumbers ==
  ASSUME QInv, GInv, Renumbers, run.status \in {"Running", "Pending"},
         NEW r \in RunState, ParkedIn(r), r.revision \in {run.revision, run.revision + 1},
         run.revision = 0 /\ ~EarlierGate => r.revision = run.revision,
         \A ref \in prompts : ref.revision < r.revision,
         Park(r)
  PROVE  GInv'
<1>1. UNCHANGED <<flavor, votes, decided>>
  BY DEF Park
<1>2. CASE HeldBack(r)
  BY <1>1, <1>2, HeldBackNumbers
<1>3. CASE run' = r /\ pres' = pres + 1 /\ heard' = {}
           /\ \/ saved' = r /\ Announce(r)
              \/ UNCHANGED <<saved, prompts>>
  <2>1. r.revision \in Nat /\ r.status # "Pending"
        /\ \A ref \in prompts : ref.revision \in Nat /\ ref.revision <= saved.revision
    BY DEF QInv, TypeOK, RunState, ParkedIn, GInv, PromptNumbering
  <2>2. \A ref \in prompts' : /\ ref.revision <= saved'.revision
                              /\ ref.revision = r.revision => ref.pres = pres'
    BY <1>3, <2>1 DEF Announce
  <2>3. PromptNumbering'
    BY <1>1, <1>3, <2>1, <2>2
    DEF PromptNumbering, PromptNamesGate, Prompted, ParkedIn, GInv
  <2> QED  BY <1>3, <2>3 DEF GInv, Counted
<1> QED  BY <1>2, <1>3 DEF Park

LEMMA PresentNumbers ==
  ASSUME QInv, GInv, Renumbers, NEW s \in 1..NumGates, Present(s)
  PROVE  GInv'
<1>1. run.status = "Running" /\ run \in RunState /\ run.revision \in Nat
  BY DEF Present, QInv, TypeOK, RunState
<1>2. CASE HeldBack([run EXCEPT !.step = s]) /\ UNCHANGED <<flavor, votes, decided>>
  <2>1. [run EXCEPT !.step = s] \in RunState
        /\ [run EXCEPT !.step = s].revision = run.revision
    BY <1>1 DEF RunState
  <2> QED  BY <1>1, <1>2, <2>1, HeldBackNumbers
<1>3. ASSUME NEW rev, rev = NextRevision(EarlierGate),
             Park([run EXCEPT !.status = Parked, !.step = s, !.revision = rev,
                              !.base = IF flavor = "checkpoint" THEN rev ELSE @])
      PROVE  GInv'
  <2> DEFINE r == [run EXCEPT !.status = Parked, !.step = s, !.revision = rev,
                              !.base = IF flavor = "checkpoint" THEN rev ELSE @]
  <2>1. rev \in Nat /\ rev \in {run.revision, run.revision + 1}
    BY <1>1, <1>3 DEF NextRevision
  <2>2. r \in RunState /\ r.revision = rev /\ ParkedIn(r)
    <3>1. Parked \in {"WaitingApproval", "PausedCheckpoint"} /\ s \in 0..NumGates
      BY DEF Parked
    <3>2. run.base \in Nat /\ (IF flavor = "checkpoint" THEN rev ELSE run.base) \in Nat
      BY <1>1, <2>1 DEF RunState
    <3> QED  BY <1>1, <2>1, <3>1, <3>2 DEF RunState, ParkedIn
  <2>3. run.revision = 0 /\ ~EarlierGate => rev = run.revision
    BY <1>3 DEF NextRevision
  <2>4. \A ref \in prompts : ref.revision < rev
    <3>1. SUFFICES ASSUME NEW ref \in prompts PROVE ref.revision < rev
      OBVIOUS
    <3>2. run.revision > 0 \/ EarlierGate
      BY <1>1 DEF GInv, PromptNumbering, Prompted, ParkedIn, EarlierGate
    <3>3. rev = run.revision + 1
      BY <1>3, <3>2 DEF NextRevision
    <3>4. ref.revision \in Nat /\ ref.revision <= saved.revision /\ saved.revision <= run.revision
          /\ saved.revision \in Nat
      BY DEF QInv, Numbering, TypeOK, RunState, GInv, PromptNumbering
    <3> QED  BY <1>1, <3>3, <3>4
  <2> QED  BY <1>1, <1>3, <2>1, <2>2, <2>3, <2>4, ParkNumbers
<1> QED  BY <1>2, <1>3 DEF Present, Renumbers

LEMMA PresentHeldBackNumbers ==
  ASSUME QInv, GInv, Renumbers, PresentHeldBack
  PROVE  GInv'
<1> DEFINE r == [run EXCEPT !.status = Parked]
<1>1. run.status = "Pending" /\ run \in RunState /\ prompts = {} /\ Park(r)
  BY DEF PresentHeldBack, QInv, TypeOK, GInv, PromptNumbering
<1>2. r \in RunState /\ ParkedIn(r) /\ r.revision = run.revision
  BY <1>1 DEF RunState, Parked, ParkedIn
<1> QED  BY <1>1, <1>2, ParkNumbers

\* A park that is saved late sends its prompt then.
LEMMA SettleNumbers ==
  ASSUME QInv, GInv, SettlePark
  PROVE  GInv'
<1>1. saved' = run /\ heard = {} /\ Waiting /\ run.revision \in Nat /\ saved.revision \in Nat
      /\ saved.revision <= run.revision
      /\ prompts' = prompts \cup {[revision |-> run.revision, pres |-> pres]}
      /\ UNCHANGED <<flavor, run, votes, decided, pres, heard>>
  BY DEF SettlePark, QInv, Parking, Numbering, TypeOK, RunState
<1>2. \A ref \in prompts : /\ ref.revision \in Nat /\ ref.revision <= saved.revision
                           /\ ref.revision = run.revision => ref.pres = pres
  BY <1>1 DEF QInv, TypeOK, GInv, PromptNumbering, PromptNamesGate
<1>3. \A ref \in prompts' : /\ ref.revision <= run.revision
                            /\ ref.revision = run.revision => ref.pres = pres
  BY <1>1, <1>2
<1>4. ParkedIn(run) /\ run.status # "Pending"
  BY <1>1 DEF Waiting, ParkedIn
<1>5. PromptNumbering'
  BY <1>1, <1>3, <1>4 DEF PromptNumbering, PromptNamesGate, Prompted, ParkedIn
<1> QED  BY <1>1, <1>5 DEF GInv, Counted

LEMMA TimeOutNumbers ==
  ASSUME QInv, GInv, TimeOut
  PROVE  GInv'
<1>1. run \in RunState /\ saved = run /\ ParkedIn(run) /\ prompts' = prompts /\ flavor' = flavor
      /\ votes' = votes /\ decided' = TRUE /\ pres' = pres
  BY DEF TimeOut, Commit, QInv, TypeOK, Parking, Waiting, ParkedIn
<1>2. CASE saved' = run /\ UNCHANGED <<run, heard>>
  <2>1. PromptNumbering'
    BY <1>1, <1>2 DEF GInv, PromptNumbering, PromptNamesGate, Prompted, Waiting, ParkedIn
  <2>2. Counted'
    BY <1>1, <1>2 DEF GInv, Counted, Waiting, Scope
  <2> QED  BY <2>1, <2>2 DEF GInv
<1>3. CASE /\ saved' = run'
           /\ \/ run' = [run EXCEPT !.status = "Ended"]
              \/ run' = [run EXCEPT !.status = "Running", !.passed = TRUE]
  <2>1. run'.revision = run.revision
        /\ (run'.status = "Ended" \/ (run'.status = "Running" /\ run'.passed = TRUE))
    BY <1>1, <1>3 DEF RunState
  <2> QED  BY <1>1, <1>3, <2>1, LeaveGate
<1> QED  BY <1>2, <1>3 DEF TimeOut, Commit

LEMMA FinishNumbers ==
  ASSUME QInv, GInv, Finish
  PROVE  GInv'
<1>1. run'.revision = run.revision /\ run'.status = "Ended" /\ saved' = run'
      /\ flavor' = flavor /\ prompts' = prompts
  BY DEF Finish, QInv, TypeOK, RunState
<1> QED  BY <1>1, LeaveGate

\* A restart comes back to what was saved: a park with its prompt and votes, or
\* a run that is at no gate.
LEMMA RestartNumbers ==
  ASSUME QInv, GInv, Restart
  PROVE  GInv'
<1>1. run' = saved /\ UNCHANGED <<flavor, saved, votes, decided, prompts, pres, heard>>
  BY DEF Restart
<1>2. Waiting' => saved = run /\ Waiting
  BY <1>1 DEF Waiting, QInv, Parking, ParkedIn
<1>3. PromptNumbering'
  BY <1>1, <1>2 DEF GInv, PromptNumbering, PromptNamesGate, Prompted
<1>4. Counted'
  BY <1>1, <1>2 DEF GInv, Counted, Scope
<1> QED  BY <1>3, <1>4 DEF GInv

LEMMA AsideNumbers ==
  ASSUME GInv, UNCHANGED <<flavor, run, saved, votes, decided, prompts, pres, heard>>
  PROVE  GInv'
BY DEF GInv, PromptNumbering, PromptNamesGate, Prompted, ParkedIn, Counted, Waiting, Scope

LEMMA GInvInit == Init => GInv
<1> SUFFICES ASSUME Init PROVE GInv
  OBVIOUS
<1>1. prompts = {} /\ heard = {}
  BY DEF Init
<1> QED  BY <1>1 DEF GInv, PromptNumbering, PromptNamesGate, Prompted, Counted

LEMMA GInvNext ==
  ASSUME QInv, QInv', GInv, Renumbers, [Next]_vars
  PROVE  GInv'
<1>1. ASSUME NEW s \in 1..NumGates, Present(s) PROVE GInv'
  BY <1>1, PresentNumbers
<1>2. CASE PresentHeldBack
  BY <1>2, PresentHeldBackNumbers
<1>3. CASE SettlePark
  BY <1>3, SettleNumbers
<1>4. ASSUME NEW p \in Principals, NEW d \in Decisions, Answer(p, d) PROVE GInv'
  BY <1>4, ResolveNumbers DEF Answer
<1>5. ASSUME NEW p \in Principals, NEW d \in Decisions, NEW ref \in prompts,
             ChannelCheck(p, d, ref)
      PROVE  GInv'
  BY <1>5, AsideNumbers DEF ChannelCheck
<1>6. ASSUME NEW a \in inflight, ChannelResolve(a) PROVE GInv'
  <2>1. a.by \in Principals /\ a.decision \in Decisions
    BY <1>6 DEF QInv, TypeOK
  <2> QED  BY <1>6, <2>1, ResolveNumbers, AsideNumbers DEF ChannelResolve
<1>7. CASE TimeOut
  BY <1>7, TimeOutNumbers
<1>8. CASE Finish
  BY <1>8, FinishNumbers
<1>9. CASE Reload
  BY <1>9, AsideNumbers DEF Reload
<1>10. CASE Restart
  BY <1>10, RestartNumbers
<1>11. CASE UNCHANGED vars
  BY <1>11, AsideNumbers DEF vars
<1> QED
  BY <1>1, <1>2, <1>3, <1>4, <1>5, <1>6, <1>7, <1>8, <1>9, <1>10, <1>11 DEF Next

LEMMA GatesInvariant ==
  ASSUME Renumbers
  PROVE  Spec => [](QInv /\ GInv)
<1>1. QInv /\ [Next]_vars => QInv'
  BY QInvNext
<1>2. QInv /\ QInv' /\ GInv /\ [Next]_vars => GInv'
  BY GInvNext
<1> QED  BY QInvInit, GInvInit, <1>1, <1>2, PTL DEF Spec

\* A reference that names the revision the run is at was sent for this very
\* presentation: is_gate_reference_superseded lets no prompt of an earlier gate
\* or of an earlier draft through.
THEOREM PromptsNameGates ==
  ASSUME Renumbers
  PROVE  Spec => []PromptNamesGate
<1>1. GInv => PromptNamesGate
  BY DEF GInv, PromptNumbering
<1> QED  BY GatesInvariant, <1>1, PTL

\* A group names its members whatever transport they use but a chat channel:
\* the ledger keeps one row for a voter, with the transport of the first vote,
\* and a row of a channel is not looked up again.
VotersAlike ==
  \A c \in Rules, p, q \in Principals :
    c.grouped /\ IsMember(c, p) /\ VoterKey(p) = VoterKey(q)
      => q.source # "channel" /\ IsMember(c, q)

\* Whoever answered this presentation and is a member today is counted: no
\* repeated vote, failed write, restart or reload in between loses the answer.
THEOREM EveryVoteIsCounted ==
  ASSUME Renumbers, VotersAlike
  PROVE  Spec => []EveryVoteCounts
<1>1. QInv /\ GInv => EveryVoteCounts
  <2> SUFFICES ASSUME QInv, GInv, Waiting, NEW d \in Answerable, NEW a \in heard,
                      a.decision = d, a.policy = rule.policy, rule.grouped => IsMember(rule, a.by)
               PROVE  VoterKey(a.by) \in Qualified(votes, d)
    BY DEF EveryVoteCounts, Backers
  <2>1. PICK v \in votes : /\ v.step = run.step /\ v.revision = run.revision
                           /\ v.policy = a.policy /\ v.voter = VoterKey(a.by)
                           /\ v.decision = Scope(a.decision) /\ VoterKey(v.by) = v.voter
    BY DEF GInv, Counted
  <2>2. rule \in Rules /\ a.by \in Principals /\ v.by \in Principals
    BY DEF QInv, TypeOK, HeardAnswer, Row
  <2>3. rule.grouped => Revalidates(v.by)
    BY <2>1, <2>2 DEF VotersAlike, Revalidates
  <2> QED  BY <2>1, <2>3 DEF Qualified
<1> QED  BY GatesInvariant, <1>1, PTL

-----------------------------------------------------------------------------
(* The broker implements SopDecision.                                         *)

\* A gate that is passed or revised is decided in SopDecision.
LEMMA ApplyCloses ==
  ASSUME QInv, Waiting, NEW d, Apply(d)
  PROVE  Waiting' = (d.kind = "revise") /\ heard' = {}
<1>1. run \in RunState
  BY DEF QInv, TypeOK
<1>2. CASE d.kind = "revise"
  <2>1. run' = [run EXCEPT !.revision = @ + 1] /\ heard' = {}
    BY <1>2 DEF Apply, Revise, Commit
  <2>2. run'.status = run.status
    BY <1>1, <2>1 DEF RunState
  <2> QED  BY <1>2, <2>1, <2>2 DEF Waiting
<1>3. CASE d.kind # "revise"
  <2>1. PICK status \in {"Running", "Pending"} :
          run' = [run EXCEPT !.status = status, !.passed = TRUE] /\ heard' = {}
    BY <1>3 DEF Apply, Pass, Commit
  <2>2. run'.status = status
    BY <1>1, <2>1 DEF RunState
  <2> QED  BY <1>3, <2>1, <2>2 DEF Waiting
<1> QED  BY <1>2, <1>3

\* A quorum of rows is a quorum of people heard.
LEMMA QuorumHeard ==
  ASSUME QInv, Waiting, NEW p \in Principals, NEW d \in Answerable, votes' = Recorded(p, d),
         NEW k \in Nat, Cardinality(Qualified(votes', d)) >= k
  PROVE  Cardinality(Decision!Backers(
           heard \cup {[by |-> p, decision |-> d, policy |-> rule.policy]}, d)) >= k
<1> DEFINE ans == [by |-> p, decision |-> d, policy |-> rule.policy]
           all == heard \cup {ans}
           chosen == {a \in all : /\ a.decision = d /\ a.policy = rule.policy
                                  /\ rule.grouped => IsMember(rule, a.by)}
           B == {VoterKey(a.by) : a \in chosen}
           Q == Qualified(votes', d)
<1>1. {ans} \in SUBSET HeardAnswer
  BY DEF HeardAnswer, Answerable, QInv, TypeOK
<1>2. \A v \in votes' : v \in votes \/ \E a \in {ans} :
         /\ a.by = v.by /\ VoterKey(a.by) = v.voter /\ a.policy = v.policy
         /\ a.decision \in Answerable /\ Scope(a.decision) = v.decision
  BY DEF Recorded, VoteRow
<1>3. Q \subseteq B
  BY <1>1, <1>2, QualifiedHeard
<1>4. IsFiniteSet(B)
  <2>1. IsFiniteSet(all)
    BY FS_AddElement DEF QInv
  <2>2. IsFiniteSet(chosen)
    BY <2>1, FS_Subset
  <2> DEFINE f == [a \in chosen |-> VoterKey(a.by)]
  <2>3. f \in Surjection(chosen, B)
    BY DEF Surjection
  <2> QED  BY <2>2, <2>3, FS_Surjection
<1>5. Cardinality(B) >= k
  <2>1. IsFiniteSet(Q) /\ Cardinality(Q) <= Cardinality(B)
    BY <1>3, <1>4, FS_Subset
  <2>2. Cardinality(Q) \in Nat /\ Cardinality(B) \in Nat
    BY <1>4, <2>1, FS_CardinalityType
  <2> QED  BY <2>1, <2>2
<1>6. Decision!Backers(all, d) = B
  BY DEF Decision!Backers, Decision!VoterKey, VoterKey, Decision!IsMember, IsMember,
         Decision!MemberKeys, MemberKeys
<1> QED  BY <1>5, <1>6

\* The broker's answer is an answer, or a denial, of SopDecision.
LEMMA ResolveRefines ==
  ASSUME QInv, NEW p \in Principals, NEW d \in Decisions, Resolve(p, d)
  PROVE  Decision!Answer(p, d) \/ Decision!Deny(p)
<1> DEFINE all == heard \cup {[by |-> p, decision |-> d, policy |-> rule.policy]}
<1>1. Waiting /\ Offered(d) /\ UNCHANGED rule /\ MayAct(rule, p) /\ ~RejectedByMode(rule, p)
  BY DEF Resolve
<1>2. Decision!MayAnswer(p)
  BY <1>1 DEF Decision!MayAnswer, Decision!MayAct, MayAct, Decision!RejectedByMode,
              RejectedByMode, Decision!IsMember, IsMember, Decision!MemberKeys, MemberKeys
<1>3. Decision!Need(rule) = Need(rule) /\ Need(rule) \in Nat
  BY QuorumAssumption DEF Decision!Need, Need, QInv, TypeOK
<1>4. CASE d.kind = "deny" /\ Refuse
  <2>1. PICK status \in {"Ended", "Running"} :
          run' = [run EXCEPT !.status = status] \/ run' = [run EXCEPT !.status = status, !.passed = TRUE]
    BY <1>4 DEF Refuse, Commit
  <2>2. run'.status = status /\ heard' = {}
    BY <1>4, <2>1 DEF QInv, TypeOK, RunState, Refuse
  <2> QED  BY <1>1, <1>2, <2>2 DEF Decision!Deny, Waiting
<1>5. CASE d.kind # "deny" /\ Need(rule) = 1 /\ Apply(d)
  BY <1>1, <1>2, <1>3, <1>5, ApplyCloses DEF Decision!Answer
<1>6. CASE d.kind # "deny" /\ Vote(p, d)
  <2>1. CASE heard' = all /\ UNCHANGED run
    BY <1>1, <1>2, <1>6, <2>1 DEF Decision!Answer, Waiting
  <2>2. CASE Cardinality(Qualified(votes', d)) >= Need(rule) /\ Apply(d)
    <3>1. d \in Answerable /\ votes' = Recorded(p, d)
      BY <1>1, <1>6 DEF Answerable, Vote
    <3>2. Cardinality(Decision!Backers(all, d)) >= Need(rule)
      BY <1>1, <1>3, <2>2, <3>1, QuorumHeard
    <3>3. Decision!Cardinality(Decision!Backers(all, d)) = Cardinality(Decision!Backers(all, d))
      BY DEF Decision!Cardinality, Cardinality
    <3> QED  BY <1>1, <1>2, <1>3, <1>6, <2>2, <3>2, <3>3, ApplyCloses DEF Decision!Answer
  <2> QED  BY <1>6, <2>1, <2>2 DEF Vote
<1> QED  BY <1>4, <1>5, <1>6 DEF Resolve

\* Every step of the broker and the engine is one of SopDecision or a stutter.
LEMMA StepRefines ==
  ASSUME QInv, [Next]_vars
  PROVE  [Decision!Next]_(Decision!dvars)
<1> USE DEF Decision!dvars
<1>1. run \in RunState /\ saved \in RunState /\ rule \in Rules
  BY DEF QInv, TypeOK
<1>2. ASSUME NEW r \in RunState, ParkedIn(r), ~Waiting, Park(r)
      PROVE  Decision!Open \/ UNCHANGED <<Waiting, heard, rule>>
  <2>1. CASE run' = r /\ heard' = {} /\ UNCHANGED rule
    BY <1>2, <2>1 DEF Decision!Open, Waiting, ParkedIn
  <2>2. CASE HeldBack(r) /\ UNCHANGED rule
    <3>1. run'.status = "Pending" /\ UNCHANGED heard
      BY <1>2, <2>2 DEF HeldBack, RunState
    <3> QED  BY <1>2, <2>2, <3>1 DEF Waiting
  <2> QED  BY <1>2, <2>1, <2>2 DEF Park
<1>3. ASSUME NEW s \in 1..NumGates, Present(s) PROVE [Decision!Next]_(Decision!dvars)
  <2>1. run.status = "Running" /\ ~Waiting
    BY <1>3 DEF Present, Waiting
  <2>2. CASE HeldBack([run EXCEPT !.step = s]) /\ UNCHANGED rule
    <3>1. run'.status = "Pending" /\ UNCHANGED heard
      BY <1>1, <2>2 DEF HeldBack, RunState
    <3> QED  BY <2>1, <2>2, <3>1 DEF Waiting
  <2>3. ASSUME NEW rev \in Nat,
               Park([run EXCEPT !.status = Parked, !.step = s, !.revision = rev,
                                !.base = IF flavor = "checkpoint" THEN rev ELSE @])
        PROVE  [Decision!Next]_(Decision!dvars)
    <3> DEFINE r == [run EXCEPT !.status = Parked, !.step = s, !.revision = rev,
                                !.base = IF flavor = "checkpoint" THEN rev ELSE @]
    <3>1. (IF flavor = "checkpoint" THEN rev ELSE run.base) \in Nat /\ s \in 0..NumGates
      BY <1>1, <2>3 DEF RunState
    <3>2. r \in RunState /\ ParkedIn(r)
      BY <1>1, <2>3, <3>1 DEF RunState, ParkedIn, Parked
    <3> QED  BY <1>2, <2>1, <2>3, <3>2 DEF Decision!Next
  <2>4. \A earlier : NextRevision(earlier) \in Nat
    BY <1>1 DEF NextRevision, RunState
  <2> QED  BY <1>3, <2>2, <2>3, <2>4 DEF Present
<1>4. CASE PresentHeldBack
  <2>1. run.status = "Pending" /\ ~Waiting
    BY <1>4 DEF PresentHeldBack, Waiting
  <2>2. [run EXCEPT !.status = Parked] \in RunState /\ ParkedIn([run EXCEPT !.status = Parked])
    BY <1>1 DEF RunState, ParkedIn, Parked
  <2> QED  BY <1>2, <1>4, <2>1, <2>2 DEF PresentHeldBack, Decision!Next
<1>5. ASSUME NEW p \in Principals, NEW d \in Decisions, Resolve(p, d)
      PROVE  Decision!Next
  BY <1>5, ResolveRefines DEF Decision!Next
<1>6. CASE TimeOut
  <2>1. CASE UNCHANGED <<run, heard, rule>>
    BY <2>1 DEF Waiting
  <2>2. CASE /\ rule.timeout \in {"Cancel", "AutoApprove"} /\ heard' = {} /\ UNCHANGED rule
             /\ run' \in {[run EXCEPT !.status = "Ended"],
                          [run EXCEPT !.status = "Running", !.passed = TRUE]}
    <3>1. run'.status \in {"Ended", "Running"}
      BY <1>1, <2>2 DEF RunState
    <3> QED  BY <1>6, <2>2, <3>1 DEF TimeOut, Waiting, Decision!TimeOut, Decision!Next
  <2> QED  BY <1>6, <2>1, <2>2 DEF TimeOut, Commit
<1>7. CASE Finish
  <2>1. run.status = "Running" /\ run'.status = "Ended" /\ UNCHANGED <<heard, rule>>
    BY <1>1, <1>7 DEF Finish, RunState
  <2> QED  BY <2>1 DEF Waiting
<1>8. CASE Reload
  BY <1>8 DEF Reload, Waiting, Decision!Reconfigure, Decision!Next
<1>9. CASE Restart
  <2>1. Waiting' = Waiting \/ (heard = {} /\ Waiting' = FALSE)
    BY <1>9 DEF Restart, QInv, Parking, Waiting, ParkedIn
  <2> QED  BY <1>9, <2>1 DEF Restart, Decision!Reconfigure, Decision!Next
<1>10. CASE UNCHANGED <<run, heard, rule>>
  BY <1>10 DEF Waiting
<1>11. CASE SettlePark
  BY <1>10, <1>11 DEF SettlePark
<1>12. ASSUME NEW p, NEW d, NEW ref, ChannelCheck(p, d, ref)
       PROVE  [Decision!Next]_(Decision!dvars)
  BY <1>10, <1>12 DEF ChannelCheck
<1>13. ASSUME NEW a \in inflight, ChannelResolve(a) PROVE [Decision!Next]_(Decision!dvars)
  <2>1. a.by \in Principals /\ a.decision \in Decisions
    BY DEF QInv, TypeOK
  <2> QED  BY <1>5, <1>10, <1>13, <2>1 DEF ChannelResolve
<1> QED
  BY <1>3, <1>4, <1>5, <1>6, <1>7, <1>8, <1>9, <1>10, <1>11, <1>12, <1>13
     DEF Next, Answer, vars

\* The broker and the engine decide gates as SopDecision promises, for any
\* principals and rules and with answers, restarts, reloads, timeouts and
\* failing writes in any order: no gate is decided by fewer than its quorum.
THEOREM BrokerImplementsDecision ==
  ASSUME Renumbers
  PROVE  Spec => DecidesByQuorum
<1>1. QInv /\ [Next]_vars => QInv'
  BY QInvNext
<1>2. Init => Decision!Init
  BY DEF Init, Decision!Init, Waiting
<1>3. QInv /\ [Next]_vars => [Decision!Next]_(Decision!dvars)
  BY StepRefines
<1> QED  BY QInvInit, <1>1, <1>2, <1>3, PTL DEF Spec, DecidesByQuorum, Decision!DSpec
=============================================================================
