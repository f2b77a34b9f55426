---------------------------- MODULE SopDecision ----------------------------
(* What the approval broker promises of one run, gate by gate: a gate is      *)
(* opened, principals answer it, and it is decided by enough distinct         *)
(* approvers who answered THIS opening, by one authorised denial, or by the   *)
(* timeout the operator configured.  Nothing heard is lost by a restart.      *)
EXTENDS SopPrincipal

CONSTANTS Decisions,  \* records [kind, text]
          Rules       \* the rules a gate may be under

VARIABLES open,   \* a gate waits for answers
          heard,  \* the answers this opening was given
          rule    \* what the configuration says of it now

dvars == <<open, heard, rule>>

\* The distinct approvers of decision d that still count under the rule.
Backers(answers, d) ==
  {VoterKey(a.by) : a \in {a \in answers :
      /\ a.decision = d
      /\ a.policy = rule.policy
      /\ rule.grouped => IsMember(rule, a.by)}}

MayAnswer(p) == open /\ MayAct(rule, p) /\ ~RejectedByMode(rule, p)

Init == open = FALSE /\ heard = {} /\ rule \in Rules

Open == ~open /\ open' = TRUE /\ heard' = {} /\ UNCHANGED rule

\* An answer is heard.  It decides the gate when it completes the quorum, or
\* is the only one needed; a revision opens the gate again, unanswered.
Answer(p, d) ==
  LET all == heard \cup {[by |-> p, decision |-> d, policy |-> rule.policy]} IN
  /\ MayAnswer(p)
  /\ d.kind # "deny"
  /\ \/ open' = TRUE /\ heard' = all
     \/ /\ Need(rule) = 1 \/ Cardinality(Backers(all, d)) >= Need(rule)
        /\ open' = (d.kind = "revise")
        /\ heard' = {}
  /\ UNCHANGED rule

\* One authorised denial is enough.
Deny(p) == MayAnswer(p) /\ open' = FALSE /\ heard' = {} /\ UNCHANGED rule

TimeOut ==
  /\ open /\ rule.timeout \in {"Cancel", "AutoApprove"}
  /\ open' = FALSE /\ heard' = {}
  /\ UNCHANGED rule

\* A reload of the SOPs or a restart brings another rule.  A restart may take
\* back an opening that was never saved, which nobody has answered.
Reconfigure ==
  /\ rule' \in Rules
  /\ open' = open \/ (heard = {} /\ open' = FALSE)
  /\ UNCHANGED heard

Next ==
  \/ Open
  \/ \E p \in Principals, d \in Decisions : Answer(p, d)
  \/ \E p \in Principals : Deny(p)
  \/ TimeOut
  \/ Reconfigure

DSpec == Init /\ [][Next]_dvars
=============================================================================
