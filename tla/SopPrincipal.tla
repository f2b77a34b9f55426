---------------------------- MODULE SopPrincipal ----------------------------
(* Who answers a gate (sop/approval/principal.rs) and which approver group    *)
(* it belongs to (sop/approval/identity.rs).  A principal is a record         *)
(*   source    the transport the answer came over                             *)
(*   identity  the person, or Anonymous                                       *)
(*   channel   the chat channel of a channel answer                           *)
(* and a rule is what the loaded SOP and [sop.approval] say of the gate:      *)
(*   kind      "unpoliced", "named", "missing" or "unavailable"               *)
(*   policy    the name of the policy                                         *)
(*   grouped   whether it requires a group, and members its member entries    *)
(*   quorum    how many distinct approvers it asks for                        *)
(*   mode      approval_mode;  timeout  approval_timeout_action               *)
EXTENDS Naturals, FiniteSets

CONSTANTS Principals,  \* the principals that answer gates
          Anonymous    \* the identity of nobody

\* Entries of a group that name the principal.  A channel answer is named by
\* channel and sender only, the others by source and identity or by identity.
MemberKeys(p) ==
  IF p.identity = Anonymous THEN {}
  ELSE IF p.source = "channel" THEN {<<"channel", p.channel, p.identity>>}
  ELSE {<<p.source, p.identity>>, <<p.identity>>}

IsMember(rule, p) == MemberKeys(p) \cap rule.members # {}

\* One paired token is one voter, over HTTP or WebSocket.
VoterKey(p) ==
  IF p.source = "channel" THEN <<"channel", p.channel, p.identity>>
  ELSE <<IF p.source \in {"http", "ws"} THEN "gateway" ELSE p.source, p.identity>>

\* The agent may not answer for people, nor people for the agent.
RejectedByMode(rule, p) ==
  \/ rule.mode = "OutOfBandRequired" /\ p.source = "agent"
  \/ rule.mode = "AgentTool" /\ p.source # "agent"

\* Only a gate whose rule is known, and a member where a group is required.
MayAct(rule, p) ==
  /\ rule.kind \in {"unpoliced", "named"}
  /\ rule.kind = "named" /\ rule.grouped => IsMember(rule, p)

Need(rule) == IF rule.kind = "named" /\ rule.quorum > 1 THEN rule.quorum ELSE 1
=============================================================================
