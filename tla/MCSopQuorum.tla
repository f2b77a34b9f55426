---------------------------- MODULE MCSopQuorum ----------------------------
(* Instances of SopQuorum for TLC. *)
EXTENDS SopQuorum

Person(s, i, c) == [source |-> s, identity |-> i, channel |-> c]

\* One paired device over two transports, and two others.
OverHttp == Person("http", "tok", "none")
OverWs   == Person("ws", "tok", "none")
Agent    == Person("agent", "bot", "none")
InChat   == Person("channel", "ann", "chat")

People == {OverHttp, OverWs, Agent, InChat}

Said(k, t) == [kind |-> k, text |-> t]
TwoAnswers == {Said("approve", "none"), Said("deny", "none"), Said("revise", "shorter")}

Rule(k, g, m, q, o, t) ==
  [kind |-> k, policy |-> "release", grouped |-> g, members |-> m, quorum |-> q,
   mode |-> o, timeout |-> t]

Everyone == {<<"tok">>, <<"bot">>}

Released == {Rule("named", TRUE, Everyone, 2, "Both", "Escalate"),
             Rule("named", FALSE, {}, 2, "OutOfBandRequired", "Cancel"),
             Rule("unpoliced", FALSE, {}, 1, "AgentTool", "AutoApprove")}
=============================================================================
