------------------------- MODULE RpcSessions_proofs -------------------------
(* For any sessions, requests and limits: one request holds a session, a turn *)
(* has the cause of its own cancellation, a killed session is not brought     *)
(* back, a configuration changes the incarnation it was called for, an agent  *)
(* has the model of its overrides, and a saved profile reaches the sessions   *)
(* that were there.  The argument starts from the queue: whatever a handler   *)
(* does between its admission and its end, no other handler of that session   *)
(* is in between (RInv).  Updates do not pass through the queue; theirs is    *)
(* about the lock and the incarnation it belongs to (UInv).                   *)
EXTENDS RpcSessions, TLAPS

ReqState ==
  [op : Methods \cup {None}, sid : Sessions \cup {None}, at : States,
   slot : (Sessions \X {0, 1}) \cup {None}, seen : Incarnations \cup {None},
   ver : Nat, over : Override, bound : Incarnations \cup {None}, todo : SUBSET Sessions]

\* The steps of a handler while it has the session's permit.
PromptSteps == {"token", "lookup", "rebuild", "rehydrate", "rehydrated", "turn", "take",
                "unregister", "clear"}
NewSteps    == {"preload", "build", "insert", "in_flight", "evict", "load"}
HeldSteps   == PromptSteps \cup NewSteps \cup {"remove", "tombstone", "kill"}

\* A turn has a token registered, and its cause is not taken yet.
TokenSteps == PromptSteps \ {"token", "clear"}
CauseSteps == TokenSteps \ {"unregister"}

\* A request that may still insert its incarnation.
NotYet == {"idle", "signal", "acquire", "waiting", "token", "lookup", "rebuild",
           "rehydrate", "preload", "build", "insert"}

UpdateSteps == {"generation", "lock", "locking", "verify", "provider", "apply", "swap"}

\* An update that knows the incarnation it is for.
BoundSteps == (UpdateSteps \cup {"override", "model"}) \ {"generation"}

Queued == {"prompt", "new_chat", "new_acp", "close", "delete", "kill"}

\* The steps of a request are those of its method.
Suits(q) ==
  /\ q.at \in PromptSteps => q.op = "prompt"
  /\ q.at \in NewSteps => q.op \in {"new_chat", "new_acp"}
  /\ q.at \in {"acquire", "waiting"} => q.op \in Queued
  /\ q.at = "signal" => q.op \in {"close", "delete", "kill"}
  /\ q.at = "remove" => q.op \in {"close", "delete"}
  /\ q.at \in {"tombstone", "kill"} => q.op = "kill"
  /\ q.at \in {"override", "model"} => q.op = "configure"
  /\ q.at \in {"save", "list", "next"} => q.op = "edit"
  /\ q.at \in UpdateSteps => q.op \in {"configure", "edit"}
  /\ q.at \in BoundSteps => q.seen # None
  /\ q.at \in {"owner", "cancel"} => q.op = "cancel"
  /\ q.at \notin {"idle", "done"} => q.op \in Methods /\ q.sid \in Sessions

\* A request is at a step of its method, and has a slot exactly from its
\* registration to its end: the one the queue has for its session.
Flow(r) ==
  /\ Suits(req[r])
  /\ req[r].slot # None <=> req[r].at \in HeldSteps \cup {"waiting"}
  /\ req[r].slot # None => /\ current[Sid(r)] \in {0, 1}
                           /\ req[r].slot = <<Sid(r), current[Sid(r)]>>

\* A turn's token is registered until the turn unregisters it; a cause belongs
\* to a turn that has not ended.
Turn(r) ==
  /\ req[r].at \in TokenSteps => token[Sid(r)] = r
  /\ r \in fired => req[r].at \in TokenSteps
  /\ req[r].at \in CauseSteps => (r \in fired <=> cause[Sid(r)] # None)

Signals(s) ==
  /\ token[s] # None => Sid(token[s]) = s /\ req[token[s]].at \in TokenSteps
  /\ cause[s] # None => \E r \in Requests : Sid(r) = s /\ req[r].at \in TokenSteps \cup {"clear"}

\* A request inserts one incarnation at most, and only of a row that is not
\* marked, which stays so while the request has the session.
Insertion(r) ==
  /\ req[r].at \in NotYet => \A s \in Sessions : live[s] # r
  /\ req[r].at \in {"rebuild", "rehydrate"} => row[Sid(r)] = "restorable"
  /\ req[r].at \in {"build", "insert"} /\ req[r].op = "new_acp" => row[Sid(r)] # "killed"
  /\ req[r].at = "override" => req[r].over = <<req[r].seen, r>>

RInv ==
  /\ TypeOK
  /\ \A r \in Requests : Flow(r) /\ Turn(r) /\ Insertion(r)
  /\ \A s \in Sessions : Signals(s)
  /\ OneRequestHoldsSession /\ KilledStaysDead /\ ConfiguresItsIncarnation

-----------------------------------------------------------------------------
(* Types.                                                                     *)

Stored ==
  /\ current \in [Sessions -> {0, 1, None}]
  /\ live \in [Sessions -> Incarnations \cup {None}]
  /\ inc \in [Incarnations -> [mode : {Chat, Acp}, over : Override, ver : Nat,
                               model : Override, born : Nat]]
  /\ lock \in [Incarnations -> Requests \cup {None}]
  /\ token \in [Sessions -> Requests \cup {None}] /\ fired \subseteq Requests
  /\ cause \in [Sessions -> Causes \cup {None}]
  /\ row \in [Sessions -> {"restorable", "killed", None}]
  /\ cfg \in Nat

LEMMA RequestTypes ==
  /\ \A at \in {"idle", "done", "generation"} : Request(at) \in ReqState
  /\ TypeOK <=> req \in [Requests -> ReqState] /\ Stored
  /\ TypeOK' <=> (req' \in [Requests -> ReqState] /\ Stored')
<1>1. \A at \in {"idle", "done", "generation"} : Request(at) \in ReqState
  BY DEF Request, ReqState, States, Override
<1>2. TypeOK <=> req \in [Requests -> ReqState] /\ Stored
  BY DEF ReqState, TypeOK, Stored
<1>3. TypeOK' <=> (req' \in [Requests -> ReqState] /\ Stored')
  BY DEF ReqState, TypeOK, Stored
<1> QED
  BY <1>1, <1>2, <1>3

\* A step of a request to another record of its kind.
LEMMA Goes ==
  ASSUME TypeOK, NEW r \in Requests, NEW at \in States, Goto(r, at)
  PROVE  /\ [req[r] EXCEPT !.at = at] \in ReqState
         /\ req' = [req EXCEPT ![r] = [req[r] EXCEPT !.at = at]]
         /\ req' \in [Requests -> ReqState]
<1>1. req \in [Requests -> ReqState]
  BY RequestTypes
<1>2. [req[r] EXCEPT !.at = at] \in ReqState
  BY <1>1 DEF ReqState
<1>3. req' = [req EXCEPT ![r] = [req[r] EXCEPT !.at = at]]
  BY <1>1 DEF Goto
<1> QED
  BY <1>1, <1>2, <1>3

LEMMA Finishes ==
  ASSUME TypeOK, NEW r \in Requests, Finish(r)
  PROVE  req' \in [Requests -> ReqState]
BY RequestTypes DEF Finish

\* A request at a step has a session.
LEMMA HasSession ==
  ASSUME RInv, NEW r \in Requests, ~At(r, "idle"), ~At(r, "done")
  PROVE  Sid(r) \in Sessions /\ req[r].op \in Methods
BY DEF RInv, Flow, Suits, At, Sid

LEMMA GivesUp ==
  ASSUME TypeOK, NEW r \in Requests, GiveUp(r)
  PROVE  req' \in [Requests -> ReqState]
<1>1. "next" \in States
  BY DEF States
<1> QED
  BY <1>1, Goes, Finishes DEF GiveUp

LEMMA StepNames ==
  {"idle", "done", "acquire", "waiting", "token", "lookup", "rebuild", "rehydrate", "rehydrated",
   "turn", "take", "unregister", "clear", "build", "cancel", "in_flight", "remove", "preload",
   "tombstone", "kill", "evict", "insert", "load", "list", "next", "lock", "locking", "override", "verify", "provider", "model", "apply", "swap"}
    \subseteq States
BY DEF States

\* Admission.
LEMMA QueueTypes ==
  ASSUME RInv, NEW r \in Requests, Register(r) \/ Admit(r) \/ LockTimeout(r)
  PROVE  TypeOK'
<1>1. TypeOK /\ Stored /\ req \in [Requests -> ReqState] /\ req[r] \in ReqState /\ Requests \subseteq Incarnations
  BY RequestTypes DEF RInv, Incarnations
<1>2. ~At(r, "idle") /\ ~At(r, "done") => Sid(r) \in Sessions /\ req[r].op \in Methods
  BY HasSession
<1>3. CASE Register(r)
  <2>1. req' \in [Requests -> ReqState]
    BY <1>1, <1>2, <1>3, Finishes DEF Register, At, ReqState, States, Incarnations
  <2>2. Stored'
    BY <1>1, <1>2, <1>3 DEF Register, At, Stored, turnVars
  <2> QED
    BY <2>1, <2>2, RequestTypes
<1>4. CASE Admit(r)
  <2>0. FirstHeldStep(req[r].op) \in {"token", "preload", "remove", "tombstone"}
    BY <1>4 DEF Admit, Waits, At, RInv, Flow, Suits, Queued, FirstHeldStep
  <2>1. req' \in [Requests -> ReqState]
    BY <1>1, <1>2, <1>4, StepNames, Goes, <2>0 DEF Admit
  <2>2. Stored'
    BY <1>1, <1>2, <1>4 DEF Admit, At, Stored, turnVars
  <2> QED
    BY <2>1, <2>2, RequestTypes
<1>5. CASE LockTimeout(r)
  <2>1. req' \in [Requests -> ReqState]
    BY <1>1, <1>2, <1>5, Finishes DEF LockTimeout, At
  <2>2. Stored'
    BY <1>1, <1>2, <1>5 DEF LockTimeout, At, Stored, turnVars
  <2> QED
    BY <2>1, <2>2, RequestTypes
<1> QED
  BY <1>3, <1>4, <1>5

\* Cancellation.
LEMMA SignalTypes ==
  ASSUME RInv, NEW r \in Requests, Signal(r) \/ CheckOwner(r) \/ CancelSession(r)
  PROVE  TypeOK'
<1>1. TypeOK /\ Stored /\ req \in [Requests -> ReqState] /\ req[r] \in ReqState /\ Requests \subseteq Incarnations
  BY RequestTypes DEF RInv, Incarnations
<1>2. ~At(r, "idle") /\ ~At(r, "done") => Sid(r) \in Sessions /\ req[r].op \in Methods
  BY HasSession
<1>3. CASE Signal(r)
  <2>1. req' \in [Requests -> ReqState]
    BY <1>1, <1>2, <1>3, StepNames, Goes DEF Signal, At
  <2>2. Stored'
    BY <1>1, <1>2, <1>3 DEF Signal, At, Stored, turnVars, Fire, Causes
  <2> QED
    BY <2>1, <2>2, RequestTypes
<1>4. CASE CheckOwner(r)
  <2>1. req' \in [Requests -> ReqState]
    BY <1>1, <1>2, <1>4, StepNames, Goes, Finishes DEF CheckOwner, At
  <2>2. Stored'
    BY <1>1, <1>2, <1>4 DEF CheckOwner, At, Stored, turnVars
  <2> QED
    BY <2>1, <2>2, RequestTypes
<1>5. CASE CancelSession(r)
  <2>1. req' \in [Requests -> ReqState]
    BY <1>1, <1>2, <1>5, Finishes DEF CancelSession, At
  <2>2. Stored'
    BY <1>1, <1>2, <1>5 DEF CancelSession, At, Stored, turnVars, Fire, Causes
  <2> QED
    BY <2>1, <2>2, RequestTypes
<1> QED
  BY <1>3, <1>4, <1>5

\* A prompt.
LEMMA PromptTypes ==
  ASSUME RInv, NEW r \in Requests, RegisterToken(r) \/ LookupAgent(r) \/ RebuildAgent(r) \/ Rehydrate(r) \/ EndTurn(r) \/ TakeCause(r) \/ RemoveToken(r) \/ ClearCause(r)
  PROVE  TypeOK'
<1>1. TypeOK /\ Stored /\ req \in [Requests -> ReqState] /\ req[r] \in ReqState /\ Requests \subseteq Incarnations
  BY RequestTypes DEF RInv, Incarnations
<1>2. ~At(r, "idle") /\ ~At(r, "done") => Sid(r) \in Sessions /\ req[r].op \in Methods
  BY HasSession
<1>3. CASE RegisterToken(r)
  <2>1. req' \in [Requests -> ReqState]
    BY <1>1, <1>2, <1>3, StepNames, Goes DEF RegisterToken, At
  <2>2. Stored'
    BY <1>1, <1>2, <1>3 DEF RegisterToken, At, Stored, turnVars
  <2> QED
    BY <2>1, <2>2, RequestTypes
<1>4. CASE LookupAgent(r)
  <2>1. req' \in [Requests -> ReqState]
    <3>1. CASE Live(Sid(r)) /\ req' = [req EXCEPT ![r].at = "turn", ![r].seen = live[Sid(r)]]
      <4>1. live[Sid(r)] \in Incarnations
        BY <1>1, <1>2, <1>4, <3>1 DEF LookupAgent, At, Stored, Live
      <4> QED
        BY <1>1, <3>1, <4>1, StepNames DEF ReqState
    <3>2. CASE Goto(r, "rebuild") \/ Goto(r, "unregister")
      BY <1>1, <3>2, StepNames, Goes
    <3> QED
      BY <1>4, <3>1, <3>2 DEF LookupAgent
  <2>2. Stored'
    BY <1>1, <1>2, <1>4 DEF LookupAgent, At, Stored, turnVars
  <2> QED
    BY <2>1, <2>2, RequestTypes
<1>5. CASE RebuildAgent(r)
  <2>1. req' \in [Requests -> ReqState]
    <3>1. CASE Build(r, "rehydrate")
      BY <1>1, <3>1, StepNames DEF Build, Stored, ReqState
    <3>2. CASE Goto(r, "unregister")
      BY <1>1, <3>2, StepNames, Goes
    <3> QED
      BY <1>5, <3>1, <3>2 DEF RebuildAgent
  <2>2. Stored'
    BY <1>1, <1>2, <1>5 DEF RebuildAgent, At, Stored, turnVars
  <2> QED
    BY <2>1, <2>2, RequestTypes
<1>6. CASE Rehydrate(r)
  <2>1. req' \in [Requests -> ReqState]
    BY <1>1, <1>2, <1>6, StepNames, Goes DEF Rehydrate, At
  <2>2. Stored'
    BY <1>1, <1>2, <1>6 DEF Rehydrate, At, Stored, turnVars, InsertSession, Incarnation, Override, ReqState
  <2> QED
    BY <2>1, <2>2, RequestTypes
<1>7. CASE EndTurn(r)
  <2>1. req' \in [Requests -> ReqState]
    BY <1>1, <1>2, <1>7, StepNames, Goes DEF EndTurn, At
  <2>2. Stored'
    BY <1>1, <1>2, <1>7 DEF EndTurn, At, Stored, turnVars
  <2> QED
    BY <2>1, <2>2, RequestTypes
<1>8. CASE TakeCause(r)
  <2>1. req' \in [Requests -> ReqState]
    BY <1>1, <1>2, <1>8, StepNames, Goes DEF TakeCause, At
  <2>2. Stored'
    BY <1>1, <1>2, <1>8 DEF TakeCause, At, Stored, turnVars
  <2> QED
    BY <2>1, <2>2, RequestTypes
<1>9. CASE RemoveToken(r)
  <2>1. req' \in [Requests -> ReqState]
    BY <1>1, <1>2, <1>9, StepNames, Goes, Finishes DEF RemoveToken, At
  <2>2. Stored'
    BY <1>1, <1>2, <1>9 DEF RemoveToken, At, Stored, turnVars
  <2> QED
    BY <2>1, <2>2, RequestTypes
<1>10. CASE ClearCause(r)
  <2>1. req' \in [Requests -> ReqState]
    BY <1>1, <1>2, <1>10, Finishes DEF ClearCause, At
  <2>2. Stored'
    BY <1>1, <1>2, <1>10 DEF ClearCause, At, Stored, turnVars
  <2> QED
    BY <2>1, <2>2, RequestTypes
<1> QED
  BY <1>3, <1>4, <1>5, <1>6, <1>7, <1>8, <1>9, <1>10

\* A new session.
LEMMA NewTypes ==
  ASSUME RInv, NEW r \in Requests, Preload(r) \/ BuildAgent(r) \/ InsertNew(r) \/ ListInFlight(r) \/ EvictSiblings(r) \/ LoadOrCreate(r)
  PROVE  TypeOK'
<1>1. TypeOK /\ Stored /\ req \in [Requests -> ReqState] /\ req[r] \in ReqState /\ Requests \subseteq Incarnations
  BY RequestTypes DEF RInv, Incarnations
<1>2. ~At(r, "idle") /\ ~At(r, "done") => Sid(r) \in Sessions /\ req[r].op \in Methods
  BY HasSession
<1>3. CASE Preload(r)
  <2>1. req' \in [Requests -> ReqState]
    BY <1>1, <1>2, <1>3, StepNames, Goes, Finishes DEF Preload, At
  <2>2. Stored'
    BY <1>1, <1>2, <1>3 DEF Preload, At, Stored, turnVars
  <2> QED
    BY <2>1, <2>2, RequestTypes
<1>4. CASE BuildAgent(r)
  <2>1. req' \in [Requests -> ReqState]
    <3>1. CASE Build(r, "insert")
      BY <1>1, <3>1, StepNames DEF Build, Stored, ReqState
    <3> QED
      BY <1>1, <1>4, <3>1, Finishes DEF BuildAgent
  <2>2. Stored'
    BY <1>1, <1>2, <1>4 DEF BuildAgent, At, Stored, turnVars
  <2> QED
    BY <2>1, <2>2, RequestTypes
<1>5. CASE InsertNew(r)
  <2>1. req' \in [Requests -> ReqState]
    BY <1>1, <1>2, <1>5, StepNames, Goes, Finishes DEF InsertNew, At
  <2>2. Stored'
    BY <1>1, <1>2, <1>5 DEF InsertNew, At, Stored, turnVars, InsertSession, Incarnation, Override, Mode, ReqState
  <2> QED
    BY <2>1, <2>2, RequestTypes
<1>6. CASE ListInFlight(r)
  <2>1. req' \in [Requests -> ReqState]
    BY <1>1, <1>6, StepNames DEF ListInFlight, ReqState
  <2>2. Stored'
    BY <1>1, <1>2, <1>6 DEF ListInFlight, At, Stored, turnVars
  <2> QED
    BY <2>1, <2>2, RequestTypes
<1>7. CASE EvictSiblings(r)
  <2>1. req' \in [Requests -> ReqState]
    BY <1>1, <1>7, StepNames DEF EvictSiblings, ReqState
  <2>2. Stored'
    BY <1>1, <1>2, <1>7 DEF EvictSiblings, At, Stored, turnVars
  <2> QED
    BY <2>1, <2>2, RequestTypes
<1>8. CASE LoadOrCreate(r)
  <2>1. req' \in [Requests -> ReqState]
    BY <1>1, <1>2, <1>8, Finishes DEF LoadOrCreate, At
  <2>2. Stored'
    BY <1>1, <1>2, <1>8 DEF LoadOrCreate, At, Stored, turnVars, RemoveSession, Fire, Causes
  <2> QED
    BY <2>1, <2>2, RequestTypes
<1> QED
  BY <1>3, <1>4, <1>5, <1>6, <1>7, <1>8

\* A removal.
LEMMA RemovalTypes ==
  ASSUME RInv, NEW r \in Requests, Remove(r) \/ Tombstone(r) \/ KillSession(r)
  PROVE  TypeOK'
<1>1. TypeOK /\ Stored /\ req \in [Requests -> ReqState] /\ req[r] \in ReqState /\ Requests \subseteq Incarnations
  BY RequestTypes DEF RInv, Incarnations
<1>2. ~At(r, "idle") /\ ~At(r, "done") => Sid(r) \in Sessions /\ req[r].op \in Methods
  BY HasSession
<1>3. CASE Remove(r)
  <2>1. req' \in [Requests -> ReqState]
    BY <1>1, <1>2, <1>3, Finishes DEF Remove, At
  <2>2. Stored'
    BY <1>1, <1>2, <1>3 DEF Remove, At, Stored, turnVars, RemoveSession, Fire, Causes
  <2> QED
    BY <2>1, <2>2, RequestTypes
<1>4. CASE Tombstone(r)
  <2>1. req' \in [Requests -> ReqState]
    BY <1>1, <1>2, <1>4, StepNames, Goes, Finishes DEF Tombstone, At
  <2>2. Stored'
    BY <1>1, <1>2, <1>4 DEF Tombstone, At, Stored, turnVars
  <2> QED
    BY <2>1, <2>2, RequestTypes
<1>5. CASE KillSession(r)
  <2>1. req' \in [Requests -> ReqState]
    BY <1>1, <1>2, <1>5, Finishes DEF KillSession, At
  <2>2. Stored'
    BY <1>1, <1>2, <1>5 DEF KillSession, At, Stored, turnVars, RemoveSession, Fire, Causes
  <2> QED
    BY <2>1, <2>2, RequestTypes
<1> QED
  BY <1>3, <1>4, <1>5

\* An update of sessions.
LEMMA UpdateTypes ==
  ASSUME RInv, NEW r \in Requests, SaveProfile(r) \/ ListSessions(r) \/ NextSession(r) \/ ReadGeneration(r) \/ FetchLock(r) \/ TakeLock(r) \/ VerifyGeneration(r) \/ BuildProvider(r) \/ SetOverrides(r) \/ SetModelName(r) \/ ApplyModelProvider(r) \/ SwapProvider(r)
  PROVE  TypeOK'
<1>1. TypeOK /\ Stored /\ req \in [Requests -> ReqState] /\ req[r] \in ReqState /\ Requests \subseteq Incarnations
  BY RequestTypes DEF RInv, Incarnations
<1>2. ~At(r, "idle") /\ ~At(r, "done") => Sid(r) \in Sessions /\ req[r].op \in Methods
  BY HasSession
<1>3. CASE SaveProfile(r)
  <2>1. req' \in [Requests -> ReqState]
    BY <1>1, <1>2, <1>3, StepNames, Goes DEF SaveProfile, At
  <2>2. Stored'
    BY <1>1, <1>2, <1>3 DEF SaveProfile, At, Stored, turnVars
  <2> QED
    BY <2>1, <2>2, RequestTypes
<1>4. CASE ListSessions(r)
  <2>1. req' \in [Requests -> ReqState]
    BY <1>1, <1>4, StepNames DEF ListSessions, ReqState
  <2>2. Stored'
    BY <1>1, <1>2, <1>4 DEF ListSessions, At, Stored, turnVars
  <2> QED
    BY <2>1, <2>2, RequestTypes
<1>5. CASE NextSession(r)
  <2>1. req' \in [Requests -> ReqState]
    <3>1. ASSUME NEW s \in req[r].todo,
                 req' = [req EXCEPT ![r] = [Request("generation") EXCEPT !.op = "edit",
                                              !.sid = s, !.todo = req[r].todo \ {s}]]
          PROVE  req' \in [Requests -> ReqState]
      <4>1. s \in Sessions /\ req[r].todo \ {s} \in SUBSET Sessions
        BY <1>1 DEF ReqState
      <4>2. Request("generation") \in ReqState /\ "edit" \in Methods
        BY RequestTypes DEF Methods
      <4>3. [Request("generation") EXCEPT !.op = "edit", !.sid = s, !.todo = req[r].todo \ {s}]
              \in ReqState
        BY <4>1, <4>2 DEF ReqState
      <4> QED
        BY <1>1, <3>1, <4>3
    <3> QED
      BY <1>1, <1>5, <3>1, Finishes DEF NextSession
  <2>2. Stored'
    BY <1>1, <1>2, <1>5 DEF NextSession, At, Stored, turnVars
  <2> QED
    BY <2>1, <2>2, RequestTypes
<1>6. CASE ReadGeneration(r)
  <2>1. req' \in [Requests -> ReqState]
    <3>1. CASE Live(Sid(r)) /\ req' = [req EXCEPT ![r].at = "lock", ![r].seen = live[Sid(r)]]
      <4>1. live[Sid(r)] \in Incarnations
        BY <1>1, <1>2, <1>6, <3>1 DEF ReadGeneration, At, Stored, Live
      <4> QED
        BY <1>1, <3>1, <4>1, StepNames DEF ReqState
    <3> QED
      BY <1>1, <1>6, <3>1, GivesUp DEF ReadGeneration
  <2>2. Stored'
    BY <1>1, <1>2, <1>6 DEF ReadGeneration, At, Stored, turnVars
  <2> QED
    BY <2>1, <2>2, RequestTypes
<1>7. CASE FetchLock(r)
  <2>1. req' \in [Requests -> ReqState]
    <3>1. CASE Live(Sid(r)) /\ req' = [req EXCEPT ![r].at = "locking", ![r].bound = live[Sid(r)]]
      <4>1. live[Sid(r)] \in Incarnations
        BY <1>1, <1>2, <1>7, <3>1 DEF FetchLock, At, Stored, Live
      <4> QED
        BY <1>1, <3>1, <4>1, StepNames DEF ReqState
    <3> QED
      BY <1>1, <1>7, <3>1, GivesUp DEF FetchLock
  <2>2. Stored'
    BY <1>1, <1>2, <1>7 DEF FetchLock, At, Stored, turnVars
  <2> QED
    BY <2>1, <2>2, RequestTypes
<1>8. CASE TakeLock(r)
  <2>1. req' \in [Requests -> ReqState]
    BY <1>1, <1>2, <1>8, StepNames, Goes DEF TakeLock, At
  <2>2. Stored'
    BY <1>1, <1>2, <1>8 DEF TakeLock, At, Stored, turnVars
  <2> QED
    BY <2>1, <2>2, RequestTypes
<1>9. CASE VerifyGeneration(r)
  <2>1. req' \in [Requests -> ReqState]
    BY <1>1, <1>2, <1>9, StepNames, Goes, GivesUp DEF VerifyGeneration, At
  <2>2. Stored'
    BY <1>1, <1>2, <1>9 DEF VerifyGeneration, At, Stored, turnVars, Unlock, ReqState
  <2> QED
    BY <2>1, <2>2, RequestTypes
<1>10. CASE BuildProvider(r)
  <2>1. req' \in [Requests -> ReqState]
    <3> DEFINE at == IF Refreshes(r) THEN "apply" ELSE "override"
               over == IF Refreshes(r) THEN inc[live[Sid(r)]].over ELSE <<req[r].seen, r>>
    <3>1. CASE Live(Sid(r)) /\ req' = [req EXCEPT ![r].at = at, ![r].ver = cfg, ![r].over = over]
      <4>1. over \in Override
        <5>1. Refreshes(r) => over \in Override
          BY <1>1, <1>2, <1>10, <3>1 DEF BuildProvider, At, Stored, Live
        <5>2. req[r].seen # None
          BY <1>10 DEF BuildProvider, At, RInv, Flow, Suits, BoundSteps, UpdateSteps
        <5> QED
          BY <1>1, <5>1, <5>2 DEF Override, ReqState
      <4>2. at \in States
        BY StepNames
      <4> HIDE DEF at, over
      <4> QED
        BY <1>1, <3>1, <4>1, <4>2 DEF ReqState, Stored
    <3> QED
      BY <1>1, <1>10, <3>1, GivesUp DEF BuildProvider
  <2>2. Stored'
    BY <1>1, <1>2, <1>10 DEF BuildProvider, At, Stored, turnVars, Unlock, ReqState
  <2> QED
    BY <2>1, <2>2, RequestTypes
<1>11. CASE SetOverrides(r)
  <2>1. req' \in [Requests -> ReqState]
    BY <1>1, <1>2, <1>11, StepNames, Goes, GivesUp DEF SetOverrides, At
  <2>2. Stored'
    BY <1>1, <1>2, <1>11 DEF SetOverrides, At, Stored, turnVars, Unlock, ReqState, Override, SameIncarnation
  <2> QED
    BY <2>1, <2>2, RequestTypes
<1>12. CASE SetModelName(r)
  <2>1. req' \in [Requests -> ReqState]
    BY <1>1, <1>2, <1>12, StepNames, Goes DEF SetModelName, At
  <2>2. Stored'
    <3>1. req[r].over \in Override
      BY <1>1 DEF ReqState
    <3> QED
      BY <1>1, <1>12, <3>1 DEF SetModelName, Stored, turnVars
  <2> QED
    BY <2>1, <2>2, RequestTypes
<1>13. CASE ApplyModelProvider(r)
  <2>1. req' \in [Requests -> ReqState]
    BY <1>1, <1>2, <1>13, StepNames, Goes, GivesUp DEF ApplyModelProvider, At
  <2>2. Stored'
    BY <1>1, <1>2, <1>13 DEF ApplyModelProvider, At, Stored, turnVars, Unlock
  <2> QED
    BY <2>1, <2>2, RequestTypes
<1>14. CASE SwapProvider(r)
  <2>1. req' \in [Requests -> ReqState]
    BY <1>1, <1>2, <1>14, StepNames, Goes, GivesUp DEF SwapProvider, At
  <2>2. Stored'
    <3>1. req[r].over \in Override /\ req[r].ver \in Nat
      BY <1>1 DEF ReqState
    <3>2. inc' = [inc EXCEPT ![req[r].seen].ver = req[r].ver, ![req[r].seen].model = req[r].over]
      BY <1>14 DEF SwapProvider
    <3>3. inc' \in [Incarnations -> [mode : {Chat, Acp}, over : Override, ver : Nat,
                                     model : Override, born : Nat]]
      <4> DEFINE Kept == [mode : {Chat, Acp}, over : Override, ver : Nat,
                          model : Override, born : Nat]
                 first == [inc EXCEPT ![req[r].seen].ver = req[r].ver]
      <4>1. inc \in [Incarnations -> Kept]
        BY <1>1 DEF Stored
      <4>2. first \in [Incarnations -> Kept]
        BY <3>1, <4>1
      <4>3. inc' = [first EXCEPT ![req[r].seen].model = req[r].over]
        BY <3>2, <4>1
      <4> HIDE DEF first
      <4> QED
        BY <3>1, <4>2, <4>3
    <3>4. lock' \in [Incarnations -> Requests \cup {None}]
      BY <1>1, <1>14 DEF SwapProvider, Unlock, Stored
    <3> QED
      BY <1>1, <1>14, <3>3, <3>4 DEF SwapProvider, Stored, turnVars
  <2> QED
    BY <2>1, <2>2, RequestTypes
<1> QED
  BY <1>3, <1>4, <1>5, <1>6, <1>7, <1>8, <1>9, <1>10, <1>11, <1>12, <1>13, <1>14

-----------------------------------------------------------------------------
(* Steps that leave the turns' tokens alone.                                  *)

\* A step of one request.
Moves(r) == \A x \in Requests : x # r => req'[x] = req[x]

\* What a step changes in a request that goes on, beside where it stands.
Keeps(r) ==
  /\ Moves(r)
  /\ \A f \in {"op", "sid", "slot"} : req'[r][f] = req[r][f]

\* A request that goes on has the permit it had.
Continues(q, p) ==
  /\ Suits(q)
  /\ q.slot = p.slot /\ (q.slot # None => q.sid = p.sid)
  /\ q.at \in HeldSteps <=> p.at \in HeldSteps
  /\ q.at = "waiting" <=> p.at = "waiting"

\* It has not inserted its incarnation yet, or does not come back to before it,
\* and stands only before a step whose condition it has seen.
Unseen(q, p) ==
  /\ q.at \in NotYet => p.at \in NotYet
  /\ q.at \in {"rebuild", "rehydrate"} => row[q.sid] = "restorable"
  /\ q.at \in {"build", "insert"} /\ q.op = "new_acp" => row[q.sid] # "killed"

\* It has as much of the turn as before.
Mildly(q, p) ==
  /\ \A C \in {TokenSteps, {"clear"}, {"kill"}} : q.at \in C <=> p.at \in C
  /\ q.at \in CauseSteps => p.at \in CauseSteps
  /\ Unseen(q, p)

\* Sessions may be removed and rows made, but none is inserted or marked.
Stays ==
  /\ \A s \in Sessions : live'[s] \in {live[s], None}
  /\ \A s \in Sessions : row'[s] = row[s] \/ (row[s] = None /\ row'[s] = "restorable")
  /\ \A i \in Incarnations : /\ inc'[i].mode = inc[i].mode
                             /\ inc'[i].over # None => inc'[i].over[1] = i

Quiet == UNCHANGED <<current, turnVars>> /\ Stays

LEMMA GotoKeeps ==
  ASSUME TypeOK, NEW r \in Requests, NEW at \in States, Goto(r, at)
  PROVE  Keeps(r) /\ req'[r].at = at /\ req'[r].seen = req[r].seen /\ req'[r].over = req[r].over
<1>1. req \in [Requests -> ReqState]
  BY RequestTypes
<1> QED
  BY <1>1 DEF Goto, Keeps, Moves, ReqState

LEMMA FinishMoves ==
  ASSUME TypeOK, NEW r \in Requests, Finish(r)
  PROVE  Moves(r) /\ req'[r] = Request("done")
<1>1. req \in [Requests -> ReqState]
  BY RequestTypes
<1> QED
  BY <1>1 DEF Finish, Moves

\* What is neither admission nor the end of a request keeps the permits.
LEMMA ContinuesKeepsPermits ==
  ASSUME RInv, NEW r \in Requests, Moves(r), current' = current,
         Continues(req'[r], req[r]) \/ req'[r] = Request("done")
  PROVE  (\A x \in Requests : Flow(x))' /\ OneRequestHoldsSession'
<1> DEFINE q == req'[r]
<1>1. \A x \in Requests : req'[x] = IF x = r THEN q ELSE req[x]
  BY DEF Moves
<1> HIDE DEF q
<1>0. Continues(q, req[r]) \/ q = Request("done")
  BY DEF q
<1>2. Suits(q)
  BY <1>0 DEF Continues, Request, Suits, PromptSteps, NewSteps, UpdateSteps, BoundSteps
<1>3. \A x \in Requests : Flow(x)'
  BY <1>0, <1>1, <1>2 DEF RInv, Flow, Continues, Request, Sid, HeldSteps, PromptSteps, NewSteps
<1>4. \A x \in Requests : Holds(x)' => Holds(x) /\ Sid(x)' = Sid(x)
  BY <1>0, <1>1 DEF RInv, Flow, Continues, Request, Sid, Holds, Waits, At
<1> QED
  BY <1>3, <1>4 DEF RInv, OneRequestHoldsSession

\* The turns and their signals.
LEMMA TurnsKept ==
  ASSUME RInv, NEW r \in Requests, Moves(r), UNCHANGED turnVars,
         \A C \in {TokenSteps, {"clear"}} : req'[r].at \in C <=> req[r].at \in C,
         req'[r].at \in CauseSteps => req[r].at \in CauseSteps,
         req[r].at \in TokenSteps \cup {"clear"} => req'[r].sid = Sid(r)
  PROVE  (\A x \in Requests : Turn(x))' /\ (\A s \in Sessions : Signals(s))'
<1> DEFINE q == req'[r]
<1>1. \A x \in Requests : req'[x] = IF x = r THEN q ELSE req[x]
  BY DEF Moves
<1>2. /\ q.at \in TokenSteps <=> req[r].at \in TokenSteps
      /\ q.at = "clear" <=> req[r].at = "clear"
      /\ q.at \in CauseSteps => req[r].at \in CauseSteps
      /\ req[r].at \in TokenSteps \cup {"clear"} => q.sid = Sid(r)
  OBVIOUS
<1> HIDE DEF q
<1>3. \A x \in Requests : /\ req'[x].at \in TokenSteps <=> req[x].at \in TokenSteps
                          /\ req'[x].at = "clear" <=> req[x].at = "clear"
                          /\ req'[x].at \in CauseSteps => req[x].at \in CauseSteps
                          /\ req[x].at \in TokenSteps \cup {"clear"} => Sid(x)' = Sid(x)
  BY <1>1, <1>2 DEF Sid
<1>4. \A x \in Requests : Turn(x)'
  BY <1>3 DEF RInv, Turn, turnVars, CauseSteps
<1>5. \A s \in Sessions : Signals(s)'
  BY <1>3 DEF RInv, Signals, turnVars, TypeOK
<1> QED
  BY <1>4, <1>5

\* The incarnations and rows.
LEMMA IncarnationsKept ==
  ASSUME RInv, TypeOK', NEW r \in Requests, Moves(r), Stays, Suits(req'[r]),
         Unseen(req'[r], req[r]),
         req[r].at = "kill" => req'[r].at = "kill" /\ req'[r].sid = Sid(r),
         req'[r].at = "override" => req'[r].over = <<req'[r].seen, r>>
  PROVE  (\A x \in Requests : Insertion(x))' /\ KilledStaysDead' /\ ConfiguresItsIncarnation'
<1> DEFINE q == req'[r]
<1>1. \A x \in Requests : req'[x] = IF x = r THEN q ELSE req[x]
  BY DEF Moves
<1>2. /\ Suits(q) /\ Unseen(q, req[r])
      /\ req[r].at = "kill" => q.at = "kill" /\ q.sid = Sid(r)
      /\ q.at = "override" => q.over = <<q.seen, r>>
  OBVIOUS
<1> HIDE DEF q
<1>3. \A x \in Requests : Insertion(x)'
  <2>1. SUFFICES ASSUME NEW x \in Requests PROVE Insertion(x)'
    OBVIOUS
  <2>2. req'[x].at \in NotYet => req[x].at \in NotYet
    BY <1>1, <1>2 DEF Unseen
  <2>3. req'[x].at \in NotYet => \A s \in Sessions : live'[s] # x
    BY <2>2, RpcAssumption DEF RInv, Insertion, Stays
  <2>4. \A s \in Sessions : /\ row[s] = "restorable" => row'[s] = "restorable"
                            /\ row[s] # "killed" => row'[s] # "killed"
    BY DEF Stays
  <2>5. CASE x = r
    <3>1. q.at \in {"rebuild", "rehydrate", "build", "insert"} => q.sid \in Sessions
      BY <1>2 DEF Suits
    <3> QED
      BY <1>1, <1>2, <2>3, <2>4, <2>5, <3>1 DEF Insertion, Unseen, Sid
  <2>6. CASE x # r
    <3>1. req[x].at \in {"rebuild", "rehydrate", "build", "insert"} => Sid(x) \in Sessions
      BY DEF RInv, Flow, Suits, Sid
    <3>2. Insertion(x) /\ req'[x] = req[x] /\ Sid(x)' = Sid(x)
      BY <1>1, <2>6 DEF RInv, Sid
    <3> QED
      BY <2>3, <2>4, <3>1, <3>2 DEF Insertion
  <2> QED
    BY <2>5, <2>6
<1>4. \A x \in Requests : At(x, "kill") => At(x, "kill")' /\ Sid(x)' = Sid(x)
  BY <1>1, <1>2 DEF Sid, At
<1>5. KilledStaysDead'
  BY <1>4, RpcAssumption DEF RInv, KilledStaysDead, Live, TypeOK, Stays
<1>6. ConfiguresItsIncarnation'
  BY DEF ConfiguresItsIncarnation, Stays
<1> QED
  BY <1>3, <1>5, <1>6

\* A step outside the turns' tokens that inserts no session and marks no row.
LEMMA MildStep ==
  ASSUME RInv, TypeOK', NEW r \in Requests, Moves(r),
         Continues(req'[r], req[r]) \/ req'[r] = Request("done"),
         Mildly(req'[r], req[r]), Quiet,
         req'[r].at = "override" => req'[r].over = <<req'[r].seen, r>>
  PROVE  RInv'
<1>1. (\A x \in Requests : Flow(x))' /\ OneRequestHoldsSession'
  BY ContinuesKeepsPermits DEF Quiet
<1>2. Suits(req'[r]) /\ Unseen(req'[r], req[r])
  BY <1>1 DEF Flow, Mildly
<1>3. req[r].at \in TokenSteps \cup {"clear", "kill"} => req'[r].sid = Sid(r)
  <2>1. req[r].at \in TokenSteps \cup {"clear", "kill"} => req[r].at \in HeldSteps
    BY DEF HeldSteps, TokenSteps, PromptSteps
  <2>2. CASE Continues(req'[r], req[r])
    BY <2>1, <2>2 DEF Continues, Sid, RInv, Flow
  <2>3. CASE req'[r] = Request("done")
    <3>1. req'[r].at = "done"
      BY <2>3 DEF Request
    <3>2. "done" \notin TokenSteps \cup {"clear", "kill"}
      BY DEF TokenSteps, PromptSteps
    <3> QED
      BY <3>1, <3>2 DEF Mildly
  <2> QED
    BY <2>2, <2>3
<1>4. (\A x \in Requests : Turn(x))' /\ (\A s \in Sessions : Signals(s))'
  BY <1>3, TurnsKept DEF Mildly, Quiet
<1>5. (\A x \in Requests : Insertion(x))' /\ KilledStaysDead' /\ ConfiguresItsIncarnation'
  BY <1>2, <1>3, IncarnationsKept DEF Mildly, Quiet
<1> QED
  BY <1>1, <1>4, <1>5 DEF RInv

\* An update of sessions is outside the queue.
Outside == {"save", "list", "next", "override", "model"} \cup UpdateSteps

LEMMA OutsideStep ==
  ASSUME RInv, TypeOK', NEW r \in Requests, Moves(r),
         req[r].at \in Outside, req'[r].at \in Outside,
         Suits(req'[r]), req'[r].slot = req[r].slot, Quiet,
         req'[r].at = "override" => req'[r].over = <<req'[r].seen, r>>
  PROVE  RInv'
<1> DEFINE q == req'[r]  p == req[r]
<1>1. req[r].slot = None
  BY DEF RInv, Flow, Outside, UpdateSteps, HeldSteps, PromptSteps, NewSteps
<1>2. Continues(req'[r], req[r])
  BY <1>1 DEF Continues, Outside, UpdateSteps, HeldSteps, PromptSteps, NewSteps
<1>3. Mildly(req'[r], req[r])
  BY DEF Mildly, Unseen, Outside, UpdateSteps, TokenSteps, CauseSteps, PromptSteps, NotYet
<1> QED
  BY <1>2, <1>3, MildStep

\* The end of a request that has no turn and does not kill.
LEMMA QuietEnd ==
  ASSUME RInv, TypeOK', NEW r \in Requests, Finish(r), Quiet,
         req[r].at \notin TokenSteps \cup {"clear", "kill"}
  PROVE  RInv'
<1>1. Moves(r) /\ req'[r] = Request("done")
  BY FinishMoves DEF RInv
<1>2. Mildly(Request("done"), req[r])
  BY DEF Mildly, Unseen, Request, TokenSteps, CauseSteps, PromptSteps, NotYet
<1>3. req'[r].at # "override"
  BY <1>1 DEF Request
<1> QED
  BY <1>1, <1>2, <1>3, MildStep

LEMMA UnchangedIsQuiet ==
  ASSUME RInv, UNCHANGED <<current, turnVars, live, inc, row>>
  PROVE  Quiet
BY DEF RInv, Quiet, Stays, ConfiguresItsIncarnation

-----------------------------------------------------------------------------
(* Updates of sessions.                                                       *)

LEMMA GoesOn ==
  ASSUME RInv, TypeOK', NEW r \in Requests, NEW at \in Outside \ {"override"}, Goto(r, at),
         req[r].at \in Outside, Quiet,
         at \in {"save", "list", "next"} => req[r].op = "edit",
         at = "model" => req[r].op = "configure",
         at \in BoundSteps => req[r].seen # None
  PROVE  RInv'
<1>1. Keeps(r) /\ req'[r].at = at /\ req'[r].seen = req[r].seen
  BY GotoKeeps DEF RInv, Outside, UpdateSteps, States
<1>2. req[r].op \in {"configure", "edit"} /\ Sid(r) \in Sessions
  BY DEF RInv, Flow, Suits, Outside, UpdateSteps, Sid
<1>3. Suits(req'[r])
  BY <1>1, <1>2 DEF Suits, Keeps, Outside, UpdateSteps, PromptSteps, NewSteps, Sid, Methods
<1> QED
  BY <1>1, <1>3, OutsideStep DEF Keeps

LEMMA GivesUpQuietly ==
  ASSUME RInv, TypeOK', NEW r \in Requests, GiveUp(r), req[r].at \in Outside, Quiet
  PROVE  RInv'
<1>1. CASE Refreshes(r)
  BY <1>1, GoesOn DEF GiveUp, Refreshes, Outside, UpdateSteps, BoundSteps
<1>2. CASE ~Refreshes(r)
  BY <1>2, QuietEnd DEF GiveUp, Outside, UpdateSteps, TokenSteps, PromptSteps
<1> QED
  BY <1>1, <1>2

LEMMA UpdateStep ==
  ASSUME RInv, NEW r \in Requests, Update(r)
  PROVE  RInv'
<1>1. TypeOK'
  BY UpdateTypes DEF Update
<1>2. TypeOK /\ req \in [Requests -> ReqState] /\ req[r] \in ReqState
  BY RequestTypes DEF RInv
<1>3. ~At(r, "idle") /\ ~At(r, "done") => Sid(r) \in Sessions /\ req[r].op \in Methods
  BY HasSession
<1>4. Suits(req[r])
  BY DEF RInv, Flow
<1>5. {"save", "list", "next", "generation", "lock", "locking", "verify", "provider", "override",
       "model", "apply", "swap"} = Outside
  BY DEF Outside, UpdateSteps
<1>6. CASE SaveProfile(r)
  <2>1. Quiet
    BY <1>6, UnchangedIsQuiet DEF SaveProfile
  <2> QED
    BY <1>1, <1>4, <1>5, <1>6, <2>1, GoesOn DEF SaveProfile, At, Suits, BoundSteps, UpdateSteps
<1>7. CASE ListSessions(r)
  <2>1. Quiet
    BY <1>7, UnchangedIsQuiet DEF ListSessions
  <2>2. Keeps(r) /\ req'[r].at = "next"
    BY <1>2, <1>7 DEF ListSessions, Keeps, Moves, ReqState
  <2>3. req[r].op = "edit" /\ Sid(r) \in Sessions
    BY <1>3, <1>4, <1>7 DEF ListSessions, At, Suits
  <2>4. Suits(req'[r])
    BY <2>2, <2>3 DEF Keeps, Suits, PromptSteps, NewSteps, UpdateSteps, BoundSteps, Sid, Methods
  <2>5. req[r].at \in Outside /\ req'[r].at \in Outside /\ req'[r].slot = req[r].slot
    BY <1>5, <1>7, <2>2 DEF ListSessions, At, Keeps
  <2> QED
    BY <1>1, <2>1, <2>2, <2>4, <2>5, OutsideStep DEF Keeps
<1>8. CASE NextSession(r)
  <2>1. Quiet
    BY <1>8, UnchangedIsQuiet DEF NextSession
  <2>2. CASE Finish(r)
    BY <1>1, <1>8, <2>1, <2>2, QuietEnd DEF NextSession, At, TokenSteps, PromptSteps
  <2>3. ASSUME NEW s \in req[r].todo,
               req' = [req EXCEPT ![r] = [Request("generation") EXCEPT !.op = "edit",
                                            !.sid = s, !.todo = req[r].todo \ {s}]]
        PROVE  RInv'
    <3>1. s \in Sessions
      BY <1>2 DEF ReqState
    <3>2. /\ Moves(r) /\ req'[r].at = "generation" /\ req'[r].op = "edit" /\ req'[r].sid = s
          /\ req'[r].slot = None
      BY <1>2, <2>3 DEF Moves, Request
    <3>3. Suits(req'[r])
      BY <3>1, <3>2 DEF Suits, PromptSteps, NewSteps, UpdateSteps, BoundSteps, Methods
    <3>4. req[r].slot = None
      BY <1>8 DEF NextSession, At, RInv, Flow, HeldSteps, PromptSteps, NewSteps
    <3> QED
      BY <1>1, <1>5, <1>8, <2>1, <3>2, <3>3, <3>4, OutsideStep DEF NextSession, At
  <2> QED
    BY <1>8, <2>2, <2>3 DEF NextSession
<1>9. CASE ReadGeneration(r)
  <2>1. Quiet
    BY <1>9, UnchangedIsQuiet DEF ReadGeneration
  <2>2. CASE Live(Sid(r)) /\ req' = [req EXCEPT ![r].at = "lock", ![r].seen = live[Sid(r)]]
    <3>1. Keeps(r) /\ req'[r].at = "lock" /\ req'[r].seen = live[Sid(r)]
      BY <1>2, <2>2 DEF Keeps, Moves, ReqState
    <3>2. Suits(req'[r])
      BY <1>3, <1>4, <1>9, <2>2, <3>1
      DEF ReadGeneration, At, Live, Keeps, Suits, PromptSteps, NewSteps, UpdateSteps, BoundSteps, Sid
    <3> QED
      BY <1>1, <1>5, <1>9, <2>1, <3>1, <3>2, OutsideStep DEF ReadGeneration, At, Keeps
  <2> QED
    BY <1>1, <1>5, <1>9, <2>1, <2>2, GivesUpQuietly DEF ReadGeneration, At
<1>10. CASE FetchLock(r)
  <2>1. Quiet
    BY <1>10, UnchangedIsQuiet DEF FetchLock
  <2>2. CASE Live(Sid(r)) /\ req' = [req EXCEPT ![r].at = "locking", ![r].bound = live[Sid(r)]]
    <3>1. Keeps(r) /\ req'[r].at = "locking" /\ req'[r].seen = req[r].seen
      BY <1>2, <2>2 DEF Keeps, Moves, ReqState
    <3>2. Suits(req'[r])
      BY <1>3, <1>4, <1>10, <3>1
      DEF FetchLock, At, Keeps, Suits, PromptSteps, NewSteps, UpdateSteps, BoundSteps, Sid
    <3> QED
      BY <1>1, <1>5, <1>10, <2>1, <3>1, <3>2, OutsideStep DEF FetchLock, At, Keeps
  <2> QED
    BY <1>1, <1>5, <1>10, <2>1, <2>2, GivesUpQuietly DEF FetchLock, At
<1>11. CASE TakeLock(r)
  <2>1. Quiet
    BY <1>11, UnchangedIsQuiet DEF TakeLock
  <2> QED
    BY <1>1, <1>4, <1>5, <1>11, <2>1, GoesOn DEF TakeLock, At, Suits, BoundSteps, UpdateSteps
<1>12. CASE VerifyGeneration(r)
  <2>1. Quiet
    BY <1>12, UnchangedIsQuiet DEF VerifyGeneration
  <2>2. CASE Goto(r, "provider")
    BY <1>1, <1>4, <1>5, <1>12, <2>1, <2>2, GoesOn
    DEF VerifyGeneration, At, Suits, BoundSteps, UpdateSteps
  <2> QED
    BY <1>1, <1>5, <1>12, <2>1, <2>2, GivesUpQuietly DEF VerifyGeneration, At
<1>13. CASE BuildProvider(r)
  <2>1. Quiet
    BY <1>13, UnchangedIsQuiet DEF BuildProvider
  <2>2. CASE GiveUp(r)
    BY <1>1, <1>5, <1>13, <2>1, <2>2, GivesUpQuietly DEF BuildProvider, At
  <2>3. CASE ~GiveUp(r)
    <3> DEFINE over == IF Refreshes(r) THEN inc[live[Sid(r)]].over ELSE <<req[r].seen, r>>
               at == IF Refreshes(r) THEN "apply" ELSE "override"
    <3>1. req' = [req EXCEPT ![r].at = at, ![r].ver = cfg, ![r].over = over]
      BY <1>13, <2>3 DEF BuildProvider
    <3> HIDE DEF over, at
    <3>2. Keeps(r) /\ req'[r].at = at /\ req'[r].seen = req[r].seen /\ req'[r].over = over
      BY <1>2, <3>1 DEF Keeps, Moves, ReqState
    <3>3. at = "apply" \/ (at = "override" /\ over = <<req[r].seen, r>> /\ req[r].op # "edit")
      BY DEF at, over, Refreshes
    <3>4. Suits(req'[r])
      BY <1>3, <1>4, <1>13, <3>2, <3>3
      DEF BuildProvider, At, Keeps, Suits, PromptSteps, NewSteps, UpdateSteps, BoundSteps, Sid
    <3>5. req'[r].at \in Outside /\ req[r].at \in Outside
      BY <1>5, <1>13, <3>2, <3>3 DEF BuildProvider, At
    <3>6. req'[r].at = "override" => req'[r].over = <<req'[r].seen, r>>
      BY <3>2, <3>3
    <3> QED
      BY <1>1, <2>1, <3>2, <3>4, <3>5, <3>6, OutsideStep DEF Keeps
  <2> QED
    BY <2>2, <2>3
<1>14. CASE SetOverrides(r)
  <2>1. req[r].seen # None /\ req[r].over = <<req[r].seen, r>> /\ req[r].op = "configure"
    BY <1>4, <1>14 DEF SetOverrides, At, Suits, BoundSteps, UpdateSteps, RInv, Insertion
  <2>2. CASE SameIncarnation(r) /\ Goto(r, "model")
                /\ inc' = [inc EXCEPT ![live[Sid(r)]].over = req[r].over]
    <3>1. live[Sid(r)] = req[r].seen
      BY <2>2 DEF SameIncarnation
    <3>2. \A i \in Incarnations : /\ inc'[i].mode = inc[i].mode
                                  /\ inc'[i].over # None => inc'[i].over[1] = i
      BY <1>2, <2>1, <2>2, <3>1 DEF RInv, ConfiguresItsIncarnation, TypeOK
    <3>3. Quiet
      BY <1>14, <3>2 DEF SetOverrides, Quiet, Stays
    <3> QED
      BY <1>1, <1>5, <1>14, <2>1, <2>2, <3>3, GoesOn DEF SetOverrides, At
  <2>3. CASE GiveUp(r) /\ UNCHANGED inc
    <3>1. Quiet
      BY <1>14, <2>3, UnchangedIsQuiet DEF SetOverrides
    <3> QED
      BY <1>1, <1>5, <1>14, <2>3, <3>1, GivesUpQuietly DEF SetOverrides, At
  <2> QED
    BY <1>14, <2>2, <2>3 DEF SetOverrides
<1>15. CASE SetModelName(r)
  <2>1. \A i \in Incarnations : inc'[i].mode = inc[i].mode /\ inc'[i].over = inc[i].over
    BY <1>15 DEF SetModelName, RInv, TypeOK
  <2>2. Quiet
    BY <1>15, <2>1 DEF SetModelName, Quiet, Stays, RInv, ConfiguresItsIncarnation
  <2> QED
    BY <1>1, <1>4, <1>5, <1>15, <2>2, GoesOn DEF SetModelName, At, Suits, BoundSteps, UpdateSteps
<1>16. CASE ApplyModelProvider(r)
  <2>1. Quiet
    BY <1>16, UnchangedIsQuiet DEF ApplyModelProvider
  <2>2. CASE Goto(r, "swap")
    BY <1>1, <1>4, <1>5, <1>16, <2>1, <2>2, GoesOn
    DEF ApplyModelProvider, At, Suits, BoundSteps, UpdateSteps
  <2> QED
    BY <1>1, <1>5, <1>16, <2>1, <2>2, GivesUpQuietly DEF ApplyModelProvider, At
<1>17. CASE SwapProvider(r)
  <2>1. \A i \in Incarnations : inc'[i].mode = inc[i].mode /\ inc'[i].over = inc[i].over
    BY <1>17 DEF SwapProvider, RInv, TypeOK
  <2>2. Quiet
    BY <1>17, <2>1 DEF SwapProvider, Quiet, Stays, RInv, ConfiguresItsIncarnation
  <2> QED
    BY <1>1, <1>5, <1>17, <2>2, GivesUpQuietly DEF SwapProvider, At
<1> QED
  BY <1>6, <1>7, <1>8, <1>9, <1>10, <1>11, <1>12, <1>13, <1>14, <1>15, <1>16, <1>17 DEF Update

-----------------------------------------------------------------------------
(* The queue.                                                                 *)

LEMMA SubmitStep ==
  ASSUME RInv, NEW r \in Requests, NEW c \in Calls, Submit(r, c[1], c[2])
  PROVE  RInv'
<1>1. c[1] \in Methods /\ c[2] \in Sessions
  BY RpcAssumption
<1>2. TypeOK /\ Stored /\ req \in [Requests -> ReqState] /\ req[r] \in ReqState
  BY RequestTypes DEF RInv
<1>3. /\ FirstStep(c[1]) \in {"signal", "acquire", "owner", "generation", "save"}
      /\ c[1] \in {"close", "delete", "kill"} <=> FirstStep(c[1]) = "signal"
      /\ c[1] \in {"new_chat", "new_acp", "prompt"} <=> FirstStep(c[1]) = "acquire"
      /\ c[1] = "cancel" <=> FirstStep(c[1]) = "owner"
      /\ c[1] = "configure" <=> FirstStep(c[1]) = "generation"
      /\ c[1] = "edit" <=> FirstStep(c[1]) = "save"
  BY <1>1 DEF FirstStep, Methods
<1>4. req' = [req EXCEPT ![r].op = c[1], ![r].sid = c[2], ![r].at = FirstStep(c[1])]
  BY DEF Submit
<1> DEFINE at == FirstStep(c[1])
<1> HIDE DEF at
<1>5. at \in States
  BY <1>3 DEF at, States
<1>6. req' = [req EXCEPT ![r].op = c[1], ![r].sid = c[2], ![r].at = at]
  BY <1>4 DEF at
<1>7. req' \in [Requests -> ReqState]
  BY <1>1, <1>2, <1>5, <1>6 DEF ReqState
<1>8. TypeOK'
  BY <1>2, <1>7, RequestTypes DEF Submit, Stored, turnVars
<1>9. /\ Moves(r) /\ req'[r].op = c[1] /\ req'[r].sid = c[2] /\ req'[r].at = at
      /\ req'[r].slot = req[r].slot
  BY <1>2, <1>6 DEF Moves, ReqState
<1>10. at \in {"signal", "acquire", "owner", "generation", "save"}
  BY <1>3 DEF at
<1>11. Suits(req'[r])
  BY <1>1, <1>3, <1>9, <1>10
  DEF at, Suits, PromptSteps, NewSteps, UpdateSteps, BoundSteps, Queued
<1>12. req[r].at = "idle" /\ req[r].slot = None
  BY DEF Submit, At, RInv, Flow, HeldSteps, PromptSteps, NewSteps
<1>13. Continues(req'[r], req[r])
  BY <1>9, <1>10, <1>11, <1>12 DEF Continues, HeldSteps, PromptSteps, NewSteps
<1>14. Mildly(req'[r], req[r])
  BY <1>9, <1>10, <1>12 DEF Mildly, Unseen, TokenSteps, CauseSteps, PromptSteps, NotYet
<1>15. Quiet
  BY UnchangedIsQuiet DEF Submit
<1> QED
  BY <1>8, <1>9, <1>10, <1>13, <1>14, <1>15, MildStep

LEMMA RegisterStep ==
  ASSUME RInv, NEW r \in Requests, Register(r)
  PROVE  RInv'
<1> DEFINE s == Sid(r)
           n == IF current[s] # None THEN current[s]
                ELSE CHOOSE n \in {0, 1} : Registered(<<s, n>>) = {} \/ n = 1
<1>1. TypeOK'
  BY QueueTypes
<1>2. TypeOK /\ Stored /\ req \in [Requests -> ReqState] /\ req[r] \in ReqState
  BY RequestTypes DEF RInv
<1>3. s \in Sessions /\ req[r].at = "acquire" /\ req[r].op \in Queued \cap Methods
  BY HasSession DEF Register, At, RInv, Flow, Suits
<1>4. n \in {0, 1} /\ (current[s] # None => n = current[s])
  <2>1. \E k \in {0, 1} : Registered(<<s, k>>) = {} \/ k = 1
    OBVIOUS
  <2> QED
    BY <1>2, <1>3, <2>1 DEF Stored
<1>5. /\ current' = [current EXCEPT ![s] = n]
      /\ \/ Finish(r)
         \/ req' = [req EXCEPT ![r].at = "waiting", ![r].slot = <<s, n>>]
  BY DEF Register
<1> HIDE DEF n
<1>6. \/ Moves(r) /\ req'[r] = Request("done")
      \/ /\ Moves(r) /\ req'[r].at = "waiting" /\ req'[r].slot = <<s, n>>
         /\ req'[r].sid = s /\ req'[r].op = req[r].op
  BY <1>2, <1>5, FinishMoves DEF Moves, ReqState, Sid
<1> HIDE DEF s
<1>7. <<s, n>> # None
  BY <1>3, <1>4, RpcAssumption
<1>8. \A x \in Requests : Flow(x)'
  <2>1. SUFFICES ASSUME NEW x \in Requests PROVE Flow(x)'
    OBVIOUS
  <2>2. CASE x # r
    <3>1. Flow(x) /\ req'[x] = req[x]
      BY <1>6, <2>2 DEF Moves, RInv
    <3>2. current' = current \/ current[s] = None
      BY <1>2, <1>3, <1>4, <1>5 DEF Stored
    <3>3. req[x].slot # None => current[Sid(x)] # None /\ Sid(x) \in Sessions
      BY <3>1, RpcAssumption DEF Flow, Suits, HeldSteps, PromptSteps, NewSteps, Sid
    <3>4. req[x].slot # None => current'[Sid(x)] = current[Sid(x)]
      BY <1>2, <1>5, <3>2, <3>3 DEF Stored
    <3> QED
      BY <3>1, <3>4 DEF Flow, Sid
  <2>3. CASE x = r /\ req'[r] = Request("done")
    BY <2>3 DEF Flow, Suits, Request, HeldSteps, PromptSteps, NewSteps, UpdateSteps, BoundSteps
  <2>4. CASE x = r /\ req'[r] # Request("done")
    <3>1. Suits(req'[r])
      BY <1>3, <1>6, <2>4 DEF Suits, PromptSteps, NewSteps, UpdateSteps, BoundSteps
    <3>2. current'[s] = n
      BY <1>2, <1>3, <1>5 DEF Stored
    <3> QED
      BY <1>4, <1>6, <1>7, <2>4, <3>1, <3>2 DEF Flow, Sid
  <2> QED
    BY <2>2, <2>3, <2>4
<1>9. OneRequestHoldsSession'
  <2>1. \A x \in Requests : Holds(x)' => Holds(x) /\ Sid(x)' = Sid(x)
    BY <1>6 DEF Holds, Waits, At, Sid, Moves, Request
  <2> QED
    BY <2>1 DEF RInv, OneRequestHoldsSession
<1>10. req'[r].at \in {"waiting", "done"}
  BY <1>6 DEF Request
<1>11. (\A x \in Requests : Turn(x))' /\ (\A t \in Sessions : Signals(t))'
  BY <1>3, <1>6, <1>10, TurnsKept DEF Register, TokenSteps, CauseSteps, PromptSteps
<1>12. (\A x \in Requests : Insertion(x))' /\ KilledStaysDead' /\ ConfiguresItsIncarnation'
  <2>1. Suits(req'[r])
    BY <1>8 DEF Flow
  <2>2. Stays
    BY DEF Register, Stays, RInv, ConfiguresItsIncarnation
  <2> QED
    BY <1>1, <1>3, <1>6, <1>10, <2>1, <2>2, IncarnationsKept DEF Unseen, NotYet
<1> QED
  BY <1>1, <1>8, <1>9, <1>11, <1>12 DEF RInv

LEMMA AdmitStep ==
  ASSUME RInv, NEW r \in Requests, Admit(r)
  PROVE  RInv'
<1>1. TypeOK'
  BY QueueTypes
<1>2. req[r].at = "waiting" /\ Suits(req[r]) /\ Flow(r)
  BY DEF Admit, Waits, At, RInv, Flow
<1> DEFINE at == FirstHeldStep(req[r].op)
<1>3. /\ at \in {"token", "preload", "remove", "tombstone"}
      /\ req[r].op = "prompt" <=> at = "token"
      /\ req[r].op \in {"new_chat", "new_acp"} <=> at = "preload"
      /\ req[r].op \in {"close", "delete"} <=> at = "remove"
      /\ req[r].op = "kill" <=> at = "tombstone"
  BY <1>2 DEF Suits, Queued, FirstHeldStep
<1> HIDE DEF at
<1>4. Keeps(r) /\ req'[r].at = at
  BY <1>3, GotoKeeps DEF at, Admit, RInv, States
<1>5. Suits(req'[r])
  BY <1>2, <1>3, <1>4 DEF Keeps, Suits, PromptSteps, NewSteps, UpdateSteps, BoundSteps
<1>6. \A x \in Requests : Flow(x)'
  BY <1>2, <1>3, <1>4, <1>5
  DEF RInv, Flow, Admit, Keeps, Moves, HeldSteps, PromptSteps, NewSteps, Sid
<1>7. OneRequestHoldsSession'
  <2>1. \A x \in Requests : Holds(x) => Sid(x) # Sid(r)
    BY <1>2 DEF Admit, Registered, RInv, Flow, Holds
  <2>2. \A x \in Requests : x # r => (Holds(x)' <=> Holds(x)) /\ Sid(x)' = Sid(x)
    BY <1>4 DEF Keeps, Moves, Holds, Waits, At, Sid
  <2>3. Sid(r)' = Sid(r)
    BY <1>4 DEF Keeps, Sid
  <2> QED
    BY <2>1, <2>2, <2>3 DEF RInv, OneRequestHoldsSession
<1>8. (\A x \in Requests : Turn(x))' /\ (\A s \in Sessions : Signals(s))'
  BY <1>2, <1>3, <1>4, TurnsKept DEF Admit, Keeps, TokenSteps, CauseSteps, PromptSteps
<1>9. (\A x \in Requests : Insertion(x))' /\ KilledStaysDead' /\ ConfiguresItsIncarnation'
  <2>1. Stays
    BY DEF Admit, Stays, RInv, ConfiguresItsIncarnation
  <2> QED
    BY <1>1, <1>2, <1>3, <1>4, <1>5, <2>1, IncarnationsKept DEF Keeps, Unseen, NotYet
<1> QED
  BY <1>1, <1>6, <1>7, <1>8, <1>9 DEF RInv

LEMMA EvictIdleStep ==
  ASSUME RInv, NEW s \in Sessions, EvictIdle(s)
  PROVE  RInv'
<1>1. TypeOK'
  BY DEF RInv, EvictIdle, TypeOK, turnVars
<1>2. \A x \in Requests : Flow(x)'
  <2>1. SUFFICES ASSUME NEW x \in Requests PROVE Flow(x)'
    OBVIOUS
  <2>2. Flow(x) /\ req' = req /\ current' = [current EXCEPT ![s] = None]
    BY DEF RInv, EvictIdle
  <2>3. req[x].slot # None => Sid(x) # s
    BY <2>2 DEF Flow, EvictIdle, Registered
  <2>4. req[x].slot # None => Sid(x) \in Sessions
    BY <2>2 DEF Flow, Suits, HeldSteps, PromptSteps, NewSteps, Sid
  <2>5. req[x].slot # None => current'[Sid(x)] = current[Sid(x)]
    BY <2>2, <2>3, <2>4 DEF RInv, TypeOK
  <2> QED
    BY <2>2, <2>5 DEF Flow, Sid
<1>3. UNCHANGED <<req, live, inc, lock, turnVars, row, cfg>>
  BY DEF EvictIdle
<1>4. /\ (\A x \in Requests : Turn(x) /\ Insertion(x))'
      /\ (\A t \in Sessions : Signals(t))'
  BY <1>3 DEF RInv, Turn, Insertion, Signals, Sid, turnVars
<1>5. OneRequestHoldsSession' /\ KilledStaysDead' /\ ConfiguresItsIncarnation'
  BY <1>3 DEF RInv, OneRequestHoldsSession, KilledStaysDead, ConfiguresItsIncarnation, Holds,
              Waits, At, Sid, Live
<1> QED
  BY <1>1, <1>2, <1>4, <1>5 DEF RInv

LEMMA QueueStep ==
  ASSUME RInv, NEW r \in Requests, Register(r) \/ Admit(r) \/ LockTimeout(r)
  PROVE  RInv'
<1>1. CASE LockTimeout(r)
  <2>1. Quiet /\ req[r].at = "waiting" /\ Finish(r)
    BY <1>1, UnchangedIsQuiet DEF LockTimeout, Waits, At
  <2> QED
    BY <1>1, <2>1, QueueTypes, QuietEnd DEF TokenSteps, PromptSteps
<1> QED
  BY <1>1, RegisterStep, AdmitStep

-----------------------------------------------------------------------------
(* Cancellation.                                                              *)

\* The token that is fired is of a turn of the session, which then has a cause.
LEMMA FireStep ==
  ASSUME RInv, TypeOK', NEW r \in Requests, Moves(r), Stays, UNCHANGED <<current, token>>,
         NEW s \in Sessions, NEW c \in Causes, Fire(s, c),
         \/ req[r].at = "signal" /\ req'[r].at = "acquire"
         \/ req[r].at = "cancel" /\ req'[r].at = "done",
         Continues(req'[r], req[r]) \/ req'[r] = Request("done")
  PROVE  RInv'
<1>1. (\A x \in Requests : Flow(x))' /\ OneRequestHoldsSession'
  BY ContinuesKeepsPermits
<1>2. (\A x \in Requests : Insertion(x))' /\ KilledStaysDead' /\ ConfiguresItsIncarnation'
  <2>1. Suits(req'[r])
    BY <1>1 DEF Flow
  <2>2. Unseen(req'[r], req[r]) /\ req[r].at # "kill" /\ req'[r].at # "override"
    BY DEF Unseen, NotYet
  <2> QED
    BY <2>1, <2>2, IncarnationsKept
<1>3. \A x \in Requests : /\ req'[x].at \in TokenSteps <=> req[x].at \in TokenSteps
                          /\ req'[x].at \in CauseSteps <=> req[x].at \in CauseSteps
                          /\ req'[x].at = "clear" <=> req[x].at = "clear"
                          /\ req[x].at \in TokenSteps \cup {"clear"} => Sid(x)' = Sid(x)
  BY DEF Moves, TokenSteps, CauseSteps, PromptSteps, Sid
<1>4. c # None
  BY RpcAssumption
<1>5. CASE token[s] = None
  BY <1>1, <1>2, <1>3, <1>5 DEF RInv, Turn, Signals, Fire, TypeOK, CauseSteps
<1>6. CASE token[s] # None
  <2>1. /\ fired' = fired \cup {token[s]} /\ cause' = [cause EXCEPT ![s] = c]
        /\ token[s] \in Requests /\ Sid(token[s]) = s /\ req[token[s]].at \in TokenSteps
    BY <1>6 DEF Fire, RInv, TypeOK, Signals
  <2>2. \A x \in Requests : Turn(x)'
    <3>1. SUFFICES ASSUME NEW x \in Requests PROVE Turn(x)'
      OBVIOUS
    <3>2. Turn(x)
      BY DEF RInv
    <3>3. req[x].at \in CauseSteps => req[x].at \in TokenSteps /\ Sid(x) \in Sessions
      BY DEF CauseSteps, TokenSteps, PromptSteps, RInv, Flow, Suits, Sid
    <3>4. req[x].at \in CauseSteps => (x \in fired' <=> cause'[Sid(x)] # None)
      <4>1. CASE Sid(x) = s /\ req[x].at \in CauseSteps
        BY <1>4, <2>1, <3>2, <3>3, <4>1 DEF Turn, RInv, TypeOK
      <4>2. CASE Sid(x) # s /\ req[x].at \in CauseSteps
        BY <2>1, <3>2, <3>3, <4>2 DEF Turn, RInv, TypeOK
      <4> QED
        BY <4>1, <4>2
    <3> QED
      BY <1>3, <2>1, <3>2, <3>3, <3>4 DEF Turn
  <2>3. \A t \in Sessions : Signals(t)'
    BY <1>3, <2>1 DEF RInv, Signals, TypeOK
  <2> QED
    BY <1>1, <1>2, <2>2, <2>3 DEF RInv
<1> QED
  BY <1>5, <1>6

LEMMA SignalStep ==
  ASSUME RInv, NEW r \in Requests, Signal(r) \/ Cancel(r)
  PROVE  RInv'
<1>1. TypeOK' /\ TypeOK
  BY SignalTypes DEF Cancel, RInv
<1>2. Sid(r) \in Sessions /\ Suits(req[r])
  BY HasSession DEF Signal, Cancel, CheckOwner, CancelSession, At, RInv, Flow
<1>3. CASE Signal(r)
  <2>1. Keeps(r) /\ req'[r].at = "acquire" /\ req[r].at = "signal"
    BY <1>1, <1>3, StepNames, GotoKeeps DEF Signal, At
  <2>2. Continues(req'[r], req[r])
    BY <1>2, <2>1 DEF Continues, Keeps, Suits, Queued, HeldSteps, PromptSteps, NewSteps,
                      UpdateSteps, BoundSteps
  <2>3. Stays
    BY <1>3 DEF Signal, Stays, RInv, ConfiguresItsIncarnation
  <2>4. \E c \in Causes : Fire(Sid(r), c)
    BY <1>3 DEF Signal, Causes
  <2> QED
    BY <1>1, <1>2, <1>3, <2>1, <2>2, <2>3, <2>4, FireStep DEF Signal, Keeps
<1>4. CASE CheckOwner(r)
  <2>1. Quiet
    BY <1>4, UnchangedIsQuiet DEF CheckOwner
  <2>2. CASE Goto(r, "cancel")
    <3>1. Keeps(r) /\ req'[r].at = "cancel" /\ req[r].at = "owner"
      BY <1>1, <1>4, <2>2, StepNames, GotoKeeps DEF CheckOwner, At
    <3>2. Continues(req'[r], req[r])
      BY <1>2, <3>1 DEF Continues, Keeps, Suits, HeldSteps, PromptSteps, NewSteps,
                        UpdateSteps, BoundSteps
    <3>3. Mildly(req'[r], req[r])
      BY <3>1 DEF Mildly, Unseen, TokenSteps, CauseSteps, PromptSteps, NotYet
    <3> QED
      BY <1>1, <2>1, <3>1, <3>2, <3>3, MildStep DEF Keeps
  <2> QED
    BY <1>1, <1>4, <2>1, <2>2, QuietEnd DEF CheckOwner, At, TokenSteps, PromptSteps
<1>5. CASE CancelSession(r)
  <2>1. Moves(r) /\ req'[r] = Request("done") /\ req'[r].at = "done" /\ req[r].at = "cancel"
    BY <1>1, <1>5, FinishMoves DEF CancelSession, At, Request
  <2>2. Stays
    BY <1>5 DEF CancelSession, Stays, RInv, ConfiguresItsIncarnation
  <2>3. "client_rpc" \in Causes /\ Fire(Sid(r), "client_rpc")
    BY <1>5 DEF CancelSession, Causes
  <2> QED
    BY <1>1, <1>2, <1>5, <2>1, <2>2, <2>3, FireStep DEF CancelSession
<1> QED
  BY <1>3, <1>4, <1>5 DEF Cancel

-----------------------------------------------------------------------------
(* A request that holds its session.                                          *)

\* Whoever holds a session stands alone in it.
LEMMA HoldsAlone ==
  ASSUME RInv, NEW r \in Requests, req[r].at \in HeldSteps
  PROVE  /\ \A x \in Requests : x # r /\ req[x].at \in HeldSteps => Sid(x) # Sid(r)
         /\ req[r].at \notin TokenSteps => token[Sid(r)] = None
         /\ req[r].at \notin TokenSteps \cup {"clear"} => cause[Sid(r)] = None
<1>1. \A x \in Requests : req[x].at \in HeldSteps => Holds(x)
  BY DEF RInv, Flow, Holds, Waits, At, HeldSteps, PromptSteps, NewSteps
<1>2. \A x \in Requests : x # r /\ req[x].at \in HeldSteps => Sid(x) # Sid(r)
  BY <1>1 DEF RInv, OneRequestHoldsSession
<1>3. Sid(r) \in Sessions
  BY HasSession DEF At, HeldSteps, PromptSteps, NewSteps
<1>4. TokenSteps \cup {"clear"} \subseteq HeldSteps
  BY DEF TokenSteps, HeldSteps, PromptSteps
<1>5. token[Sid(r)] # None => /\ token[Sid(r)] \in Requests
                              /\ Sid(token[Sid(r)]) = Sid(r)
                              /\ req[token[Sid(r)]].at \in TokenSteps
  BY <1>3 DEF RInv, Signals, TypeOK
<1>6. cause[Sid(r)] # None =>
        \E x \in Requests : Sid(x) = Sid(r) /\ req[x].at \in TokenSteps \cup {"clear"}
  BY <1>3 DEF RInv, Signals
<1> QED
  BY <1>2, <1>4, <1>5, <1>6

\* The next step of a request that holds its session, of the same kind.
LEMMA HeldGoto ==
  ASSUME RInv, TypeOK', NEW r \in Requests, Quiet, Keeps(r), Suits(req'[r]),
         \/ req[r].at \in CauseSteps /\ req'[r].at \in CauseSteps \cup {"unregister"}
         \/ req[r].at \in NewSteps /\ req'[r].at \in NewSteps,
         Unseen(req'[r], req[r])
  PROVE  RInv'
<1>1. Continues(req'[r], req[r])
  BY DEF Continues, Keeps, HeldSteps, CauseSteps, TokenSteps, PromptSteps, NewSteps
<1>2. Mildly(req'[r], req[r])
  BY DEF Mildly, CauseSteps, TokenSteps, PromptSteps, NewSteps
<1>3. req'[r].at # "override"
  BY DEF CauseSteps, TokenSteps, PromptSteps, NewSteps
<1> QED
  BY <1>1, <1>2, <1>3, MildStep DEF Keeps

\* A removal by a request that has no turn finds no token.
LEMMA RemovalIsQuiet ==
  ASSUME RInv, NEW r \in Requests, req[r].at \in HeldSteps \ TokenSteps,
         NEW c, RemoveSession(Sid(r), c), UNCHANGED <<current, inc, row>>
  PROVE  Quiet /\ live'[Sid(r)] = None
<1>1. token[Sid(r)] = None /\ Sid(r) \in Sessions
  BY HoldsAlone, HasSession DEF At, HeldSteps, PromptSteps, NewSteps
<1>2. UNCHANGED turnVars
  BY <1>1 DEF RemoveSession, Fire, turnVars, RInv, TypeOK
<1>3. live' = [live EXCEPT ![Sid(r)] = None]
  BY DEF RemoveSession
<1> QED
  BY <1>1, <1>2, <1>3 DEF Quiet, Stays, RInv, TypeOK, ConfiguresItsIncarnation

-----------------------------------------------------------------------------
(* session/prompt.                                                            *)

LEMMA RegisterTokenStep ==
  ASSUME RInv, NEW r \in Requests, RegisterToken(r)
  PROVE  RInv'
<1> DEFINE s == Sid(r)
<1>1. TypeOK' /\ TypeOK
  BY PromptTypes DEF RInv
<1>2. Keeps(r) /\ req'[r].at = "lookup" /\ req[r].at = "token"
  BY <1>1, StepNames, GotoKeeps DEF RegisterToken, At
<1>3. s \in Sessions /\ Suits(req[r]) /\ req[r].op = "prompt"
  BY <1>2, HasSession DEF At, RInv, Flow, Suits, PromptSteps
<1>4. /\ \A x \in Requests : x # r /\ req[x].at \in HeldSteps => Sid(x) # s
      /\ token[s] = None /\ cause[s] = None
  BY <1>2, HoldsAlone DEF HeldSteps, TokenSteps, PromptSteps
<1>5. token' = [token EXCEPT ![s] = r] /\ UNCHANGED <<fired, cause>>
  BY <1>1, <1>4 DEF RegisterToken, TypeOK
<1> HIDE DEF s
<1>6. Suits(req'[r])
  BY <1>2, <1>3 DEF Keeps, Suits, PromptSteps, NewSteps, UpdateSteps, BoundSteps
<1>7. (\A x \in Requests : Flow(x))' /\ OneRequestHoldsSession'
  <2>1. Continues(req'[r], req[r])
    BY <1>2, <1>6 DEF Keeps, Continues, HeldSteps, PromptSteps, NewSteps
  <2> QED
    BY <1>2, <2>1, ContinuesKeepsPermits DEF RegisterToken, Keeps
<1>8. (\A x \in Requests : Insertion(x))' /\ KilledStaysDead' /\ ConfiguresItsIncarnation'
  <2>1. Stays
    BY DEF RegisterToken, Stays, RInv, ConfiguresItsIncarnation
  <2>2. Unseen(req'[r], req[r])
    BY <1>2 DEF Unseen, NotYet
  <2> QED
    BY <1>1, <1>2, <1>6, <2>1, <2>2, IncarnationsKept DEF Keeps
<1>9. \A x \in Requests : Sid(x)' = Sid(x) /\ (x # r => req'[x] = req[x])
  BY <1>2 DEF Keeps, Moves, Sid
<1>10. \A x \in Requests : Turn(x)'
  <2>1. SUFFICES ASSUME NEW x \in Requests PROVE Turn(x)'
    OBVIOUS
  <2>2. Turn(x) /\ Sid(x)' = Sid(x)
    BY <1>9 DEF RInv
  <2>3. CASE x = r
    <3>1. r \notin fired /\ token'[s] = r /\ cause'[s] = None
      BY <1>1, <1>2, <1>3, <1>4, <1>5, <2>2, <2>3 DEF Turn, TokenSteps, PromptSteps, TypeOK
    <3> QED
      BY <1>2, <1>5, <2>2, <2>3, <3>1 DEF Turn, TokenSteps, PromptSteps, s
  <2>4. CASE x # r
    <3>1. req[x].at \in TokenSteps \cup CauseSteps => Sid(x) # s /\ Sid(x) \in Sessions
      BY <1>4, <2>4 DEF HeldSteps, TokenSteps, CauseSteps, PromptSteps, RInv, Flow, Suits, Sid
    <3> QED
      BY <1>1, <1>5, <1>9, <2>2, <2>4, <3>1 DEF Turn, TypeOK
  <2> QED
    BY <2>3, <2>4
<1>11. \A t \in Sessions : Signals(t)'
  <2>1. SUFFICES ASSUME NEW t \in Sessions PROVE Signals(t)'
    OBVIOUS
  <2>2. Signals(t)
    BY DEF RInv
  <2>3. CASE t = s
    BY <1>1, <1>2, <1>3, <1>4, <1>5, <1>9, <2>3 DEF Signals, TokenSteps, PromptSteps, TypeOK, s
  <2>4. CASE t # s
    <3>1. token'[t] = token[t] /\ cause'[t] = cause[t]
      BY <1>1, <1>5, <2>4 DEF TypeOK
    <3>2. req[r].at \notin TokenSteps \cup {"clear"}
      BY <1>2 DEF TokenSteps
    <3> QED
      BY <1>1, <1>9, <2>2, <3>1, <3>2 DEF Signals, TypeOK
  <2> QED
    BY <2>3, <2>4
<1> QED
  BY <1>1, <1>7, <1>8, <1>10, <1>11 DEF RInv

\* The end of a turn: its token and its cause are taken back.
LEMMA TurnEnds ==
  ASSUME RInv, NEW r \in Requests, TakeCause(r) \/ RemoveToken(r) \/ ClearCause(r)
  PROVE  RInv'
<1> DEFINE s == Sid(r)
<1>1. TypeOK' /\ TypeOK
  BY PromptTypes DEF RInv
<1>2. req[r].at \in {"take", "unregister", "clear"}
  BY DEF TakeCause, RemoveToken, ClearCause, At
<1>3. s \in Sessions /\ Suits(req[r]) /\ req[r].op = "prompt"
  BY <1>2, HasSession DEF At, RInv, Flow, Suits, PromptSteps
<1>4. /\ \A x \in Requests : x # r /\ req[x].at \in HeldSteps => Sid(x) # s
      /\ req[r].at = "clear" => token[s] = None
  BY <1>2, HoldsAlone DEF HeldSteps, TokenSteps, PromptSteps
<1>5. req[r].at \in {"take", "unregister"} => token[s] = r
  BY DEF RInv, Turn, TokenSteps, PromptSteps
<1>6. \/ /\ req[r].at = "take" /\ Goto(r, "unregister")
         /\ cause' = [cause EXCEPT ![s] = None] /\ UNCHANGED <<token, fired>>
      \/ /\ req[r].at = "unregister" /\ Goto(r, "clear")
         /\ token' = [token EXCEPT ![s] = None] /\ fired' = fired \ {r} /\ UNCHANGED cause
      \/ /\ req[r].at = "clear" /\ Finish(r)
         /\ cause' = [cause EXCEPT ![s] = None] /\ UNCHANGED <<token, fired>>
  BY <1>5 DEF TakeCause, RemoveToken, ClearCause, At
<1> HIDE DEF s
<1>7. /\ Moves(r)
      /\ req[r].at = "take" => Keeps(r) /\ req'[r].at = "unregister"
      /\ req[r].at = "unregister" => Keeps(r) /\ req'[r].at = "clear"
      /\ req[r].at = "clear" => req'[r] = Request("done") /\ req'[r].at = "done"
  BY <1>1, <1>6, StepNames, GotoKeeps, FinishMoves DEF Keeps, Request
<1>8. (\A x \in Requests : Flow(x))' /\ OneRequestHoldsSession'
  <2>1. Continues(req'[r], req[r]) \/ req'[r] = Request("done")
    BY <1>2, <1>3, <1>7
    DEF Keeps, Continues, Suits, HeldSteps, PromptSteps, NewSteps, UpdateSteps, BoundSteps
  <2>2. UNCHANGED current
    BY DEF TakeCause, RemoveToken, ClearCause
  <2> QED
    BY <1>7, <2>1, <2>2, ContinuesKeepsPermits
<1>9. (\A x \in Requests : Insertion(x))' /\ KilledStaysDead' /\ ConfiguresItsIncarnation'
  <2>1. Stays
    BY DEF TakeCause, RemoveToken, ClearCause, Stays, RInv, ConfiguresItsIncarnation
  <2>2. Unseen(req'[r], req[r]) /\ req[r].at # "kill" /\ req'[r].at # "override"
    BY <1>2, <1>7 DEF Unseen, NotYet
  <2>3. Suits(req'[r])
    BY <1>8 DEF Flow
  <2> QED
    BY <1>1, <1>7, <2>1, <2>2, <2>3, IncarnationsKept
<1>10. \A x \in Requests : x # r => req'[x] = req[x] /\ Sid(x)' = Sid(x)
  BY <1>7 DEF Moves, Sid
<1>11. \A x \in Requests : Turn(x)'
  <2>1. SUFFICES ASSUME NEW x \in Requests PROVE Turn(x)'
    OBVIOUS
  <2>2. Turn(x)
    BY DEF RInv
  <2>3. CASE x = r
    <3>1. req[r].at # "clear" => Sid(r)' = s
      BY <1>2, <1>7 DEF Keeps, Sid, s
    <3> QED
      BY <1>1, <1>2, <1>5, <1>6, <1>7, <2>2, <2>3, <3>1
      DEF Turn, CauseSteps, TokenSteps, PromptSteps, TypeOK
  <2>4. CASE x # r
    <3>1. req[x].at \in TokenSteps \cup CauseSteps => Sid(x) # s /\ Sid(x) \in Sessions
      BY <1>4, <2>4 DEF HeldSteps, TokenSteps, CauseSteps, PromptSteps, RInv, Flow, Suits, Sid
    <3> QED
      BY <1>1, <1>6, <1>10, <2>2, <2>4, <3>1 DEF Turn, TypeOK
  <2> QED
    BY <2>3, <2>4
<1>12. \A t \in Sessions : Signals(t)'
  <2>1. SUFFICES ASSUME NEW t \in Sessions PROVE Signals(t)'
    OBVIOUS
  <2>2. Signals(t)
    BY DEF RInv
  <2>3. CASE t = s
    <3>1. req[r].at # "clear" => Sid(r)' = s
      BY <1>2, <1>7 DEF Keeps, Sid, s
    <3> QED
      BY <1>1, <1>2, <1>3, <1>4, <1>5, <1>6, <1>7, <2>3, <3>1
      DEF Signals, TokenSteps, PromptSteps, TypeOK
  <2>4. CASE t # s
    <3>1. token'[t] = token[t] /\ cause'[t] = cause[t]
      BY <1>1, <1>6, <2>4 DEF TypeOK
    <3>2. Sid(r) # t
      BY <2>4 DEF s
    <3> QED
      BY <1>1, <1>10, <2>2, <3>1, <3>2 DEF Signals, TypeOK
  <2> QED
    BY <2>3, <2>4
<1> QED
  BY <1>1, <1>8, <1>9, <1>11, <1>12 DEF RInv

\* A session is inserted by the one request that holds it.
LEMMA InsertStep ==
  ASSUME RInv, TypeOK', NEW r \in Requests, NEW mode, Keeps(r), InsertSession(r, mode),
         UNCHANGED <<current, turnVars, row>>,
         \/ /\ req[r].at = "rehydrate" /\ req'[r].at = "rehydrated" /\ mode = Acp
         \/ /\ req[r].at = "insert" /\ req'[r].at = "in_flight" /\ mode = Mode(r)
  PROVE  RInv'
<1> DEFINE s == Sid(r)
<1>1. s \in Sessions /\ Suits(req[r])
  BY HasSession DEF At, RInv, Flow
<1>2. Suits(req'[r])
  BY <1>1 DEF Keeps, Suits, PromptSteps, NewSteps, UpdateSteps, BoundSteps
<1>3. (\A x \in Requests : Flow(x))' /\ OneRequestHoldsSession'
  <2>1. Continues(req'[r], req[r])
    BY <1>2 DEF Keeps, Continues, HeldSteps, PromptSteps, NewSteps
  <2> QED
    BY <2>1, ContinuesKeepsPermits DEF Keeps
<1>4. (\A x \in Requests : Turn(x))' /\ (\A t \in Sessions : Signals(t))'
  BY TurnsKept DEF Keeps, TokenSteps, CauseSteps, PromptSteps, Sid
<1>5. /\ live' = [live EXCEPT ![s] = r]
      /\ inc' = [inc EXCEPT ![r] = Incarnation(mode, req[r].ver)]
      /\ r \in Incarnations /\ TypeOK /\ r # None
  BY RpcAssumption DEF InsertSession, Incarnations, RInv
<1>6. /\ \A t \in Sessions : live'[t] = IF t = s THEN r ELSE live[t]
      /\ \A i \in Incarnations : i # r => inc'[i] = inc[i]
      /\ inc'[r].mode = mode /\ inc'[r].over = None
  BY <1>5 DEF TypeOK, Incarnation
<1>7. \A t \in Sessions : live[t] # r
  BY DEF RInv, Insertion, NotYet
<1>8. \A x \in Requests : Sid(x)' = Sid(x) /\ (x # r => req'[x] = req[x])
  BY DEF Keeps, Moves, Sid
<1>9. \A x \in Requests : Insertion(x)'
  <2>1. SUFFICES ASSUME NEW x \in Requests PROVE Insertion(x)'
    OBVIOUS
  <2>2. CASE x = r
    BY <2>2 DEF Insertion, NotYet
  <2>3. CASE x # r
    BY <1>6, <1>8, <2>3 DEF RInv, Insertion
  <2> QED
    BY <2>2, <2>3
<1>10. mode = Acp => row[s] # "killed"
  <2>1. req[r].at = "insert" => req[r].op \in {"new_chat", "new_acp"}
    BY <1>1 DEF Suits, NewSteps
  <2> QED
    BY <2>1 DEF RInv, Insertion, Mode, Acp, Chat
<1>11. KilledStaysDead'
  <2>1. \A x \in Requests : At(x, "kill") => At(x, "kill")'
    BY <1>8 DEF At
  <2>2. SUFFICES ASSUME NEW t \in Sessions, row'[t] = "killed", Live(t)',
                        inc'[live'[t]].mode = Acp
                 PROVE  \E x \in Requests : Sid(x)' = t /\ At(x, "kill")'
    BY DEF KilledStaysDead
  <2>3. t # s
    BY <1>6, <1>10, <2>2
  <2>4. live'[t] = live[t] /\ live[t] \in Incarnations \cup {None} /\ live[t] # r
    BY <1>5, <1>6, <1>7, <2>3 DEF TypeOK
  <2>5. Live(t) /\ inc[live[t]].mode = Acp /\ row[t] = "killed"
    BY <1>6, <2>2, <2>4 DEF Live
  <2> QED
    BY <1>8, <2>1, <2>5 DEF RInv, KilledStaysDead
<1>12. ConfiguresItsIncarnation'
  BY <1>6 DEF RInv, ConfiguresItsIncarnation
<1> QED
  BY <1>3, <1>4, <1>9, <1>11, <1>12 DEF RInv

LEMMA PromptStep ==
  ASSUME RInv, NEW r \in Requests, Prompt(r)
  PROVE  RInv'
<1>1. TypeOK' /\ TypeOK /\ req[r] \in ReqState /\ req \in [Requests -> ReqState]
  BY PromptTypes, RequestTypes DEF Prompt, RInv
<1>2. Suits(req[r])
  BY DEF RInv, Flow
<1>3. ASSUME NEW at \in CauseSteps \cup {"unregister"}, req[r].at \in CauseSteps, Keeps(r),
             req'[r].at = at, Quiet, at = "lookup" => req[r].at = "lookup",
             at \in {"rebuild", "rehydrate"} =>
               Restorable(Sid(r)) /\ req[r].at \in {"lookup", "rebuild"}
      PROVE  RInv'
  <2>1. req[r].op = "prompt" /\ Sid(r) \in Sessions /\ req[r].op \in Methods
    BY <1>2, <1>3 DEF Suits, CauseSteps, TokenSteps, PromptSteps, Sid
  <2>2. Suits(req'[r])
    BY <1>3, <2>1
    DEF Keeps, Suits, CauseSteps, TokenSteps, PromptSteps, NewSteps, UpdateSteps, BoundSteps, Sid
  <2>3. Unseen(req'[r], req[r])
    BY <1>3 DEF Keeps, Unseen, Restorable, Sid, NotYet, CauseSteps, TokenSteps, PromptSteps
  <2> QED
    BY <1>1, <1>3, <2>2, <2>3, HeldGoto
<1>4. CASE LookupAgent(r)
  <2>1. Quiet /\ req[r].at \in {"lookup", "rehydrated"}
    BY <1>4, UnchangedIsQuiet DEF LookupAgent
  <2>2. \/ Keeps(r) /\ req'[r].at \in {"turn", "unregister"}
        \/ Keeps(r) /\ req'[r].at = "rebuild" /\ Restorable(Sid(r)) /\ At(r, "lookup")
    BY <1>1, <1>4, StepNames, GotoKeeps DEF LookupAgent, Keeps, Moves, ReqState
  <2> QED
    BY <1>3, <2>1, <2>2 DEF At, CauseSteps, TokenSteps, PromptSteps
<1>5. CASE RebuildAgent(r)
  <2>1. Quiet /\ req[r].at = "rebuild" /\ Restorable(Sid(r))
    BY <1>5, UnchangedIsQuiet DEF RebuildAgent, At, RInv, Insertion, Restorable
  <2>2. Keeps(r) /\ req'[r].at \in {"rehydrate", "unregister"}
    BY <1>1, <1>5, StepNames, GotoKeeps DEF RebuildAgent, Build, Keeps, Moves, ReqState
  <2> QED
    BY <1>3, <2>1, <2>2 DEF CauseSteps, TokenSteps, PromptSteps
<1>6. CASE Rehydrate(r)
  <2>1. CASE InsertSession(r, Acp) /\ Goto(r, "rehydrated")
    <3>1. Keeps(r) /\ req'[r].at = "rehydrated"
      BY <1>1, <2>1, StepNames, GotoKeeps
    <3> QED
      BY <1>1, <1>6, <2>1, <3>1, InsertStep DEF Rehydrate, At, turnVars
  <2>2. CASE Goto(r, "unregister") /\ UNCHANGED <<live, inc>>
    <3>1. Quiet /\ req[r].at = "rehydrate"
      BY <1>6, <2>2, UnchangedIsQuiet DEF Rehydrate, At
    <3>2. Keeps(r) /\ req'[r].at = "unregister"
      BY <1>1, <2>2, StepNames, GotoKeeps
    <3> QED
      BY <1>3, <3>1, <3>2 DEF CauseSteps, TokenSteps, PromptSteps
  <2> QED
    BY <1>6, <2>1, <2>2 DEF Rehydrate
<1>7. CASE EndTurn(r)
  <2>1. Quiet /\ req[r].at = "turn"
    BY <1>7, UnchangedIsQuiet DEF EndTurn, At
  <2>2. Keeps(r) /\ req'[r].at = "take"
    BY <1>1, <1>7, StepNames, GotoKeeps DEF EndTurn
  <2> QED
    BY <1>3, <2>1, <2>2 DEF CauseSteps, TokenSteps, PromptSteps
<1> QED
  BY <1>4, <1>5, <1>6, <1>7, RegisterTokenStep, TurnEnds DEF Prompt

-----------------------------------------------------------------------------
(* session/new.                                                               *)

LEMMA NewStep ==
  ASSUME RInv, NEW r \in Requests, New(r)
  PROVE  RInv'
<1>1. TypeOK' /\ TypeOK /\ req[r] \in ReqState /\ req \in [Requests -> ReqState]
  BY NewTypes, RequestTypes DEF New, RInv
<1>2. Suits(req[r])
  BY DEF RInv, Flow
<1>3. ASSUME NEW at \in NewSteps \ {"preload"}, req[r].at \in NewSteps, Keeps(r),
             req'[r].at = at, Quiet,
             at \in {"build", "insert"} /\ req[r].op = "new_acp" => row[Sid(r)] # "killed",
             at \in {"build", "insert"} => req[r].at \in {"preload", "build"}
      PROVE  RInv'
  <2>1. req[r].op \in {"new_chat", "new_acp"} /\ Sid(r) \in Sessions /\ req[r].op \in Methods
    BY <1>2, <1>3 DEF Suits, NewSteps, Sid
  <2>2. Suits(req'[r])
    BY <1>3, <2>1 DEF Keeps, Suits, PromptSteps, NewSteps, UpdateSteps, BoundSteps, Sid
  <2>3. Unseen(req'[r], req[r])
    BY <1>3 DEF Keeps, Unseen, Sid, NotYet, NewSteps
  <2> QED
    BY <1>1, <1>3, <2>2, <2>3, HeldGoto
<1>4. ASSUME Finish(r), req[r].at \in NewSteps, Quiet
      PROVE  RInv'
  BY <1>1, <1>4, QuietEnd DEF NewSteps, TokenSteps, PromptSteps
<1>5. CASE Preload(r)
  <2>1. Quiet /\ req[r].at = "preload"
    BY <1>5, UnchangedIsQuiet DEF Preload, At
  <2>2. CASE Finish(r)
    BY <1>4, <2>1, <2>2 DEF NewSteps
  <2>3. CASE ~Finish(r)
    <3>1. Goto(r, "build") /\ (req[r].op = "new_acp" => row[Sid(r)] # "killed")
      BY <1>5, <2>3 DEF Preload, Mode
    <3>2. Keeps(r) /\ req'[r].at = "build"
      BY <1>1, <3>1, StepNames, GotoKeeps
    <3> QED
      BY <1>3, <2>1, <3>1, <3>2 DEF NewSteps
  <2> QED
    BY <2>2, <2>3
<1>6. CASE BuildAgent(r)
  <2>1. Quiet /\ req[r].at = "build" /\ (req[r].op = "new_acp" => row[Sid(r)] # "killed")
    BY <1>6, UnchangedIsQuiet DEF BuildAgent, At, RInv, Insertion
  <2>2. CASE Finish(r)
    BY <1>4, <2>1, <2>2 DEF NewSteps
  <2>3. CASE ~Finish(r)
    <3>1. Keeps(r) /\ req'[r].at = "insert"
      BY <1>1, <1>6, <2>3 DEF BuildAgent, Build, Keeps, Moves, ReqState
    <3> QED
      BY <1>3, <2>1, <3>1 DEF NewSteps
  <2> QED
    BY <2>2, <2>3
<1>7. CASE InsertNew(r)
  <2>1. CASE InsertSession(r, Mode(r)) /\ Goto(r, "in_flight")
    <3>1. Keeps(r) /\ req'[r].at = "in_flight"
      BY <1>1, <2>1, StepNames, GotoKeeps
    <3> QED
      BY <1>1, <1>7, <2>1, <3>1, InsertStep DEF InsertNew, At, turnVars
  <2>2. CASE Finish(r) /\ UNCHANGED <<live, inc>>
    <3>1. Quiet /\ req[r].at = "insert"
      BY <1>7, <2>2, UnchangedIsQuiet DEF InsertNew, At
    <3> QED
      BY <1>4, <2>2, <3>1 DEF NewSteps
  <2> QED
    BY <1>7, <2>1, <2>2 DEF InsertNew
<1>8. CASE ListInFlight(r)
  <2>1. Quiet /\ req[r].at = "in_flight"
    BY <1>8, UnchangedIsQuiet DEF ListInFlight, At
  <2>2. Keeps(r) /\ req'[r].at = "evict"
    BY <1>1, <1>8 DEF ListInFlight, Keeps, Moves, ReqState
  <2> QED
    BY <1>3, <2>1, <2>2 DEF NewSteps
<1>9. CASE EvictSiblings(r)
  <2>1. req[r].at = "evict" /\ \A s \in Sessions : live'[s] \in {live[s], None}
    BY <1>1, <1>9 DEF EvictSiblings, At
  <2>2. Quiet
    BY <1>9, <2>1 DEF EvictSiblings, Quiet, Stays, RInv, ConfiguresItsIncarnation
  <2>3. Keeps(r) /\ req'[r].at = "load"
    BY <1>1, <1>9 DEF EvictSiblings, Keeps, Moves, ReqState
  <2> QED
    BY <1>3, <2>1, <2>2, <2>3 DEF NewSteps
<1>10. CASE LoadOrCreate(r)
  <2>1. Finish(r) /\ req[r].at = "load" /\ UNCHANGED <<current, inc>>
    BY <1>10 DEF LoadOrCreate, At
  <2>2. CASE RemoveSession(Sid(r), "session_removed") /\ UNCHANGED row
    <3>1. req[r].at \in HeldSteps \ TokenSteps
      BY <2>1 DEF HeldSteps, NewSteps, TokenSteps, PromptSteps
    <3>2. Quiet
      BY <2>1, <2>2, <3>1, RemovalIsQuiet
    <3> QED
      BY <1>4, <2>1, <3>2 DEF NewSteps
  <2>3. CASE /\ row' = IF Mode(r) = Acp /\ row[Sid(r)] = None
                       THEN [row EXCEPT ![Sid(r)] = "restorable"] ELSE row
             /\ UNCHANGED <<live, turnVars>>
    <3>1. Quiet
      BY <1>1, <2>1, <2>3 DEF Quiet, Stays, RInv, ConfiguresItsIncarnation, TypeOK
    <3> QED
      BY <1>4, <2>1, <3>1 DEF NewSteps
  <2> QED
    BY <1>10, <2>2, <2>3 DEF LoadOrCreate
<1> QED
  BY <1>5, <1>6, <1>7, <1>8, <1>9, <1>10 DEF New

-----------------------------------------------------------------------------
(* session/close, session/delete, session/kill.                               *)

LEMMA TombstoneStep ==
  ASSUME RInv, NEW r \in Requests, Tombstone(r)
  PROVE  RInv'
<1>1. TypeOK' /\ TypeOK
  BY RemovalTypes DEF RInv
<1>2. Sid(r) \in Sessions /\ Suits(req[r]) /\ req[r].at = "tombstone" /\ req[r].op = "kill"
  BY HasSession DEF Tombstone, At, RInv, Flow, Suits
<1>3. CASE Finish(r) /\ UNCHANGED row
  <2>1. Quiet
    BY <1>3, UnchangedIsQuiet DEF Tombstone
  <2> QED
    BY <1>1, <1>2, <1>3, <2>1, QuietEnd DEF TokenSteps, PromptSteps
<1>4. CASE Goto(r, "kill") /\ (row' = row \/ row' = [row EXCEPT ![Sid(r)] = "killed"])
  <2>1. Keeps(r) /\ req'[r].at = "kill"
    BY <1>1, <1>4, StepNames, GotoKeeps
  <2>2. Suits(req'[r])
    BY <1>2, <2>1 DEF Keeps, Suits, PromptSteps, NewSteps, UpdateSteps, BoundSteps
  <2>3. (\A x \in Requests : Flow(x))' /\ OneRequestHoldsSession'
    <3>1. Continues(req'[r], req[r])
      BY <1>2, <2>1, <2>2 DEF Keeps, Continues, HeldSteps, PromptSteps, NewSteps
    <3> QED
      BY <2>1, <3>1, ContinuesKeepsPermits DEF Tombstone, Keeps
  <2>4. (\A x \in Requests : Turn(x))' /\ (\A s \in Sessions : Signals(s))'
    BY <1>2, <2>1, TurnsKept DEF Tombstone, Keeps, TokenSteps, CauseSteps, PromptSteps, Sid
  <2>5. /\ \A x \in Requests : Sid(x)' = Sid(x) /\ (x # r => req'[x] = req[x])
        /\ UNCHANGED <<live, inc>>
        /\ \A s \in Sessions : s # Sid(r) => row'[s] = row[s]
    BY <1>1, <1>4, <2>1 DEF Keeps, Moves, Sid, Tombstone, TypeOK
  <2>6. \A x \in Requests : Insertion(x)'
    <3>1. SUFFICES ASSUME NEW x \in Requests PROVE Insertion(x)'
      OBVIOUS
    <3>2. CASE x = r
      BY <2>1, <3>2 DEF Insertion, NotYet
    <3>3. CASE x # r
      <4>1. req[x].at \in {"rebuild", "rehydrate", "build", "insert"} =>
              Sid(x) \in Sessions /\ Sid(x) # Sid(r)
        BY <1>2, <3>3, HoldsAlone DEF HeldSteps, PromptSteps, NewSteps, RInv, Flow, Suits, Sid
      <4>2. Insertion(x)
        BY DEF RInv
      <4> QED
        BY <2>5, <3>3, <4>1, <4>2 DEF Insertion
    <3> QED
      BY <3>2, <3>3
  <2>7. KilledStaysDead'
    <3>1. At(r, "kill")' /\ \A x \in Requests : At(x, "kill") => At(x, "kill")'
      BY <2>1, <2>5 DEF At
    <3>2. SUFFICES ASSUME NEW s \in Sessions, row'[s] = "killed", Live(s)',
                          inc'[live'[s]].mode = Acp
                   PROVE  \E x \in Requests : Sid(x)' = s /\ At(x, "kill")'
      BY DEF KilledStaysDead
    <3>3. CASE s = Sid(r)
      BY <2>5, <3>1, <3>3
    <3>4. CASE s # Sid(r)
      BY <2>5, <3>1, <3>2, <3>4 DEF RInv, KilledStaysDead, Live
    <3> QED
      BY <3>3, <3>4
  <2>8. ConfiguresItsIncarnation'
    BY <2>5 DEF RInv, ConfiguresItsIncarnation
  <2> QED
    BY <1>1, <2>3, <2>4, <2>6, <2>7, <2>8 DEF RInv
<1> QED
  BY <1>3, <1>4 DEF Tombstone

LEMMA KillSessionStep ==
  ASSUME RInv, NEW r \in Requests, KillSession(r)
  PROVE  RInv'
<1>1. TypeOK' /\ TypeOK
  BY RemovalTypes DEF RInv
<1>2. req[r].at = "kill" /\ Finish(r) /\ RemoveSession(Sid(r), "admin_kill")
      /\ UNCHANGED <<current, inc, row>>
  BY DEF KillSession, At
<1>3. Moves(r) /\ req'[r] = Request("done") /\ req'[r].at = "done"
  BY <1>1, <1>2, FinishMoves DEF Request
<1>4. Quiet /\ live'[Sid(r)] = None
  <2>1. req[r].at \in HeldSteps \ TokenSteps
    BY <1>2 DEF HeldSteps, TokenSteps, PromptSteps
  <2> QED
    BY <1>2, <2>1, RemovalIsQuiet
<1>5. (\A x \in Requests : Flow(x))' /\ OneRequestHoldsSession'
  BY <1>2, <1>3, ContinuesKeepsPermits
<1>6. (\A x \in Requests : Turn(x))' /\ (\A s \in Sessions : Signals(s))'
  BY <1>2, <1>3, <1>4, TurnsKept DEF Quiet, TokenSteps, CauseSteps, PromptSteps
<1>7. \A x \in Requests : x # r => req'[x] = req[x] /\ Sid(x)' = Sid(x)
  BY <1>3 DEF Moves, Sid
<1>8. \A x \in Requests : Insertion(x)'
  <2>1. SUFFICES ASSUME NEW x \in Requests PROVE Insertion(x)'
    OBVIOUS
  <2>2. CASE x = r
    BY <1>3, <2>2 DEF Insertion, NotYet
  <2>3. CASE x # r
    BY <1>2, <1>4, <1>7, <2>3, RpcAssumption DEF RInv, Insertion, Quiet, Stays
  <2> QED
    BY <2>2, <2>3
<1>9. KilledStaysDead'
  <2>1. SUFFICES ASSUME NEW s \in Sessions, row'[s] = "killed", Live(s)',
                        inc'[live'[s]].mode = Acp
                 PROVE  \E x \in Requests : Sid(x)' = s /\ At(x, "kill")'
    BY DEF KilledStaysDead
  <2>2. s # Sid(r) /\ live'[s] = live[s] /\ Live(s)
    BY <1>4, <2>1 DEF Live, Quiet, Stays
  <2>3. PICK x \in Requests : Sid(x) = s /\ At(x, "kill")
    BY <1>2, <2>1, <2>2 DEF RInv, KilledStaysDead
  <2> QED
    BY <1>7, <2>2, <2>3 DEF At
<1>10. ConfiguresItsIncarnation'
  BY <1>4 DEF ConfiguresItsIncarnation, Quiet, Stays
<1> QED
  BY <1>1, <1>5, <1>6, <1>8, <1>9, <1>10 DEF RInv

LEMMA RemovalStep ==
  ASSUME RInv, NEW r \in Requests, Removal(r)
  PROVE  RInv'
<1>1. CASE Remove(r)
  <2>1. /\ req[r].at = "remove" /\ Finish(r) /\ RemoveSession(Sid(r), "session_removed")
        /\ UNCHANGED <<current, inc, row>>
    BY <1>1 DEF Remove, At
  <2>2. req[r].at \in HeldSteps \ TokenSteps
    BY <2>1 DEF HeldSteps, TokenSteps, PromptSteps
  <2>3. Quiet
    BY <2>1, <2>2, RemovalIsQuiet
  <2> QED
    BY <1>1, <2>1, <2>3, RemovalTypes, QuietEnd DEF TokenSteps, PromptSteps
<1> QED
  BY <1>1, SignalStep, TombstoneStep, KillSessionStep DEF Removal

-----------------------------------------------------------------------------
(* The invariant.                                                             *)

LEMMA RpcStarts ==
  Init => RInv
<1> SUFFICES ASSUME Init PROVE RInv
  OBVIOUS
<1>1. \A r \in Requests : /\ req[r].at = "idle" /\ req[r].slot = None
                          /\ req[r] = Request("idle")
  BY DEF Init, Request
<1>2. TypeOK
  <2>1. req \in [Requests -> ReqState]
    BY RequestTypes DEF Init
  <2>2. \A m \in {Chat, Acp} : Incarnation(m, 0) \in
          [mode : {Chat, Acp}, over : Override, ver : Nat, model : Override, born : Nat]
    BY DEF Init, Incarnation, Override
  <2>3. inc \in [Incarnations -> [mode : {Chat, Acp}, over : Override, ver : Nat,
                                  model : Override, born : Nat]]
    BY <2>2 DEF Init
  <2>4. live \in [Sessions -> Incarnations \cup {None}]
    BY DEF Init, Incarnations
  <2>5. Stored
    BY <2>3, <2>4 DEF Init, Stored
  <2> QED
    BY <2>1, <2>5, RequestTypes
<1>3. \A r \in Requests : Flow(r) /\ Turn(r)
  BY <1>1 DEF Init, Flow, Turn, Suits, TokenSteps, CauseSteps, HeldSteps, PromptSteps, NewSteps,
              UpdateSteps, BoundSteps
<1>4. \A r \in Requests : Insertion(r)
  <2>1. \A r \in Requests, s \in Sessions : live[s] # r
    BY RpcAssumption DEF Init
  <2> QED
    BY <1>1, <2>1 DEF Insertion
<1>5. \A s \in Sessions : Signals(s)
  BY DEF Init, Signals
<1>6. OneRequestHoldsSession
  BY <1>1 DEF OneRequestHoldsSession, Holds
<1>7. KilledStaysDead
  BY RpcAssumption DEF Init, KilledStaysDead
<1>8. ConfiguresItsIncarnation
  <2>1. \A i \in Incarnations : inc[i].over = None
    BY DEF Init, Incarnation
  <2> QED
    BY <2>1 DEF ConfiguresItsIncarnation
<1> QED
  BY <1>2, <1>3, <1>4, <1>5, <1>6, <1>7, <1>8 DEF RInv

LEMMA RpcKeeps ==
  RInv /\ [Next]_vars => RInv'
<1> SUFFICES ASSUME RInv, [Next]_vars PROVE RInv'
  OBVIOUS
<1>1. ASSUME NEW r \in Requests, NEW c \in Calls, Submit(r, c[1], c[2]) PROVE RInv'
  BY <1>1, SubmitStep
<1>2. ASSUME NEW r \in Requests,
             \/ Register(r) \/ Admit(r) \/ LockTimeout(r)
             \/ Cancel(r) \/ Prompt(r) \/ New(r) \/ Removal(r) \/ Update(r)
      PROVE  RInv'
  BY <1>2, QueueStep, SignalStep, PromptStep, NewStep, RemovalStep, UpdateStep
<1>3. ASSUME NEW s \in Sessions, EvictIdle(s) PROVE RInv'
  BY <1>3, EvictIdleStep
<1>4. CASE UNCHANGED vars
  <2>1. TypeOK'
    BY <1>4 DEF RInv, TypeOK, vars, turnVars
  <2>2. /\ (\A x \in Requests : Flow(x) /\ Turn(x) /\ Insertion(x))'
        /\ (\A s \in Sessions : Signals(s))'
    BY <1>4 DEF RInv, Flow, Turn, Insertion, Signals, Sid, vars, turnVars
  <2>3. OneRequestHoldsSession' /\ KilledStaysDead' /\ ConfiguresItsIncarnation'
    BY <1>4 DEF RInv, OneRequestHoldsSession, KilledStaysDead, ConfiguresItsIncarnation, Holds,
                Waits, At, Sid, Live, vars
  <2> QED
    BY <2>1, <2>2, <2>3 DEF RInv
<1> QED
  BY <1>1, <1>2, <1>3, <1>4 DEF Next

LEMMA RpcInvariant ==
  Spec => []RInv
BY RpcStarts, RpcKeeps, PTL DEF Spec

\* The variables hold what the code stores in them (RpcSession, the maps of
\* SessionStore, the queue's slots).
THEOREM RpcTyped == Spec => []TypeOK
<1>1. RInv => TypeOK
  BY DEF RInv
<1> QED
  BY <1>1, RpcInvariant, PTL

\* What the permit of SessionActorQueue protects is done by one request of a
\* session at a time, whatever slots evict_idle removed in between.
THEOREM PermitIsExclusive == Spec => []OneRequestHoldsSession
<1>1. RInv => OneRequestHoldsSession
  BY DEF RInv
<1> QED
  BY <1>1, RpcInvariant, PTL

\* A turn finds a cause exactly when its own token was fired
\* (CancelTokenRegistration, take_cancel_cause).
THEOREM CauseOfOwnTurn == Spec => []CauseIsOfThisTurn
<1>1. RInv => CauseIsOfThisTurn
  BY DEF RInv, CauseIsOfThisTurn, Turn, CauseSteps, TokenSteps, PromptSteps
<1> QED
  BY <1>1, RpcInvariant, PTL

\* No prompt and no session/new brings a session back whose ACP row has the
\* mark of an administrative kill (load_session_for_restore).
THEOREM KilledStays == Spec => []KilledStaysDead
<1>1. RInv => KilledStaysDead
  BY DEF RInv
<1> QED
  BY <1>1, RpcInvariant, PTL

\* A configuration changes the incarnation it was called for
\* (set_overrides_gated).
THEOREM OverridesOfOwnIncarnation == Spec => []ConfiguresItsIncarnation
<1>1. RInv => ConfiguresItsIncarnation
  BY DEF RInv
<1> QED
  BY <1>1, RpcInvariant, PTL

-----------------------------------------------------------------------------
(* What updates leave behind.  A handler that is about to change a session's  *)
(* agent has the update lock of the incarnation it read, and an incarnation   *)
(* that is replaced never comes back; so the model an agent is given is that  *)
(* of its overrides, and a saved profile reaches a session by the refresh     *)
(* that listed it or by whoever built the provider after it.                  *)

\* The steps of an update that has the lock, and those after the second look.
LockedSteps   == {"verify", "provider", "override", "model", "apply", "swap"}
VerifiedSteps == LockedSteps \ {"verify"}

\* An update has the lock of the incarnation it read, if that is still there,
\* and the overrides it applies are those of the session.
Updating(r) ==
  /\ req[r].at \in BoundSteps /\ req[r].seen \in Requests => req[req[r].seen].at \notin NotYet
  /\ req[r].at \in LockedSteps \cup {"locking"} => req[r].bound # None
  /\ req[r].at \in LockedSteps => lock[req[r].bound] = r
  /\ req[r].at \in {"locking", "verify"} /\ SameIncarnation(r) => req[r].bound = req[r].seen
  /\ req[r].at \in VerifiedSteps => req[r].bound = req[r].seen
  /\ req[r].at \in {"model", "swap"} => inc[req[r].seen].over = req[r].over
  /\ req[r].at = "apply" /\ (req[r].op = "configure" \/ SameIncarnation(r))
       => inc[req[r].seen].over = req[r].over

\* An agent lags behind its overrides only while an update is about to name
\* the model to it.
ModelFollows(i) ==
  \/ inc[i].model = inc[i].over
  \/ \E r \in Requests : req[r].at = "model" /\ req[r].seen = i

\* The provider is that of the last save, and nobody is about to put an older
\* one in its place.
Fresh(i) ==
  /\ inc[i].ver = cfg
  /\ \A r \in Requests :
       req[r].at \in {"override", "model", "apply", "swap"} /\ req[r].seen = i
         => req[r].ver = cfg

\* A refresh still comes to the session, or has the new provider for it.
Comes(r, s) ==
  /\ req[r].op = "edit"
  /\ \/ req[r].at = "list"
     \/ req[r].at \in {"next"} \cup UpdateSteps /\ s \in req[r].todo
     \/ req[r].at = "generation" /\ Sid(r) = s
     \/ /\ Sid(r) = s /\ req[r].seen = live[s]
        /\ \/ req[r].at \in {"lock", "locking", "verify", "provider"}
           \/ req[r].at \in {"apply", "swap"} /\ req[r].ver = cfg

Reached(s) ==
  Live(s) /\ inc[live[s]].born < cfg =>
    Fresh(live[s]) \/ \E r \in Requests : Comes(r, s)

UInv ==
  /\ \A r \in Requests : Updating(r)
  /\ \A i \in Incarnations : ModelFollows(i)
  /\ \A s \in Sessions : Reached(s)

-----------------------------------------------------------------------------
(* Steps of requests that update nothing.                                     *)

\* Sessions may be removed, and one that is inserted is a new incarnation.
Bystands(r) ==
  /\ Moves(r) /\ UNCHANGED <<lock, cfg>>
  /\ req[r].at \notin Outside /\ req'[r].at \notin Outside \ {"generation", "save"}
  /\ req'[r].at \in NotYet => req[r].at \in NotYet
  /\ \/ UNCHANGED inc /\ \A s \in Sessions : live'[s] \in {live[s], None}
     \/ req[r].at \in NotYet /\ Sid(r) \in Sessions /\ \E m : InsertSession(r, m)

\* The incarnation an update has read was there before, and does not come back.
LEMMA SeenIsOld ==
  ASSUME RInv, UInv, NEW x \in Requests, req[x].at \in BoundSteps
  PROVE  /\ req[x].seen \in Incarnations /\ Sid(x) \in Sessions
         /\ \A r \in Requests : req[r].at \in NotYet => req[x].seen # r
<1>1. req[x] \in ReqState
  BY RequestTypes DEF RInv
<1>2. Updating(x) /\ Flow(x)
  BY DEF UInv, RInv
<1>3. req[x].seen # None /\ Sid(x) \in Sessions
  BY <1>2 DEF Flow, Suits, BoundSteps, UpdateSteps, Sid
<1> QED
  BY <1>1, <1>2, <1>3 DEF Updating, ReqState

LEMMA BystandersStep ==
  ASSUME RInv, RInv', UInv, NEW r \in Requests, Bystands(r)
  PROVE  UInv'
<1>1. \A s \in Sessions : \/ live'[s] \in {live[s], None}
                          \/ live'[s] = r /\ req[r].at \in NotYet /\ inc'[r].born = cfg
  BY DEF Bystands, RInv, TypeOK, InsertSession, Incarnation, Incarnations
<1>2. \A i \in Incarnations : \/ inc'[i] = inc[i]
                              \/ /\ i = r /\ req[r].at \in NotYet
                                 /\ inc'[i].model = inc'[i].over
  BY DEF Bystands, RInv, TypeOK, InsertSession, Incarnation, Incarnations
<1>3. req[r].at \in NotYet => \A s \in Sessions : live[s] # r
  BY DEF RInv, Insertion
<1>4. \A x \in Requests : x # r => req'[x] = req[x]
  BY DEF Bystands, Moves
<1>5. req'[r].at \notin BoundSteps \cup LockedSteps \cup {"list", "next", "locking"}
  BY DEF Bystands, Outside, BoundSteps, UpdateSteps, LockedSteps
<1>6. req[r].at \notin BoundSteps \cup LockedSteps \cup {"list", "next", "generation"}
  BY DEF Bystands, Outside, BoundSteps, UpdateSteps, LockedSteps
<1>7. \A x \in Requests : Updating(x)'
  <2>1. SUFFICES ASSUME NEW x \in Requests PROVE Updating(x)'
    OBVIOUS
  <2>2. CASE x = r
    BY <1>5, <2>2 DEF Updating, VerifiedSteps, LockedSteps
  <2>3. CASE x # r /\ req[x].at \in BoundSteps
    <3>1. req[x].seen \in Incarnations /\ Sid(x) \in Sessions /\ req'[x] = req[x]
          /\ (req[r].at \in NotYet => req[x].seen # r) /\ Updating(x) /\ Sid(x)' = Sid(x)
      BY <1>4, <2>3, SeenIsOld DEF UInv, Sid
    <3>2. inc'[req[x].seen] = inc[req[x].seen]
      BY <1>2, <3>1
    <3>3. SameIncarnation(x)' => SameIncarnation(x)
      BY <1>1, <3>1, RpcAssumption DEF SameIncarnation, Incarnations
    <3>4. req[x].seen \in Requests => req'[req[x].seen].at \notin NotYet
      BY <1>4, <2>3, <3>1 DEF Bystands, Updating
    <3> QED
      BY <3>1, <3>2, <3>3, <3>4 DEF Updating, Bystands
  <2>4. CASE x # r /\ req[x].at \notin BoundSteps
    BY <1>4, <2>4 DEF Updating, BoundSteps, UpdateSteps, LockedSteps, VerifiedSteps
  <2> QED
    BY <2>2, <2>3, <2>4
<1>8. \A i \in Incarnations : ModelFollows(i)'
  <2>1. SUFFICES ASSUME NEW i \in Incarnations PROVE ModelFollows(i)'
    OBVIOUS
  <2>2. ModelFollows(i)
    BY DEF UInv
  <2>3. \A x \in Requests : req[x].at = "model" => req'[x] = req[x]
    BY <1>4, <1>6 DEF BoundSteps
  <2> QED
    BY <1>2, <2>2, <2>3 DEF ModelFollows
<1>9. \A s \in Sessions : Reached(s)'
  <2>1. SUFFICES ASSUME NEW s \in Sessions, Live(s)', inc'[live'[s]].born < cfg
                 PROVE  \/ Fresh(live[s])' /\ live'[s] = live[s]
                        \/ \E x \in Requests : Comes(x, s)'
    BY DEF Reached, Bystands
  <2>2. live'[s] = live[s] /\ Live(s)
    <3>1. live'[s] # None
      BY <2>1 DEF Live
    <3>2. live'[s] = r => ~(inc'[r].born = cfg)
      BY <2>1 DEF RInv, TypeOK
    <3> QED
      BY <1>1, <3>1, <3>2 DEF Live
  <2>3. inc'[live[s]] = inc[live[s]]
    BY <1>2, <1>3, <2>2 DEF RInv, TypeOK, Live
  <2>4. Fresh(live[s]) \/ \E x \in Requests : Comes(x, s)
    BY <2>1, <2>2, <2>3 DEF UInv, Reached
  <2>5. CASE Fresh(live[s])
    BY <1>4, <1>5, <2>2, <2>3, <2>5 DEF Fresh, Bystands, BoundSteps, UpdateSteps
  <2>6. ASSUME NEW x \in Requests, Comes(x, s) PROVE Comes(x, s)'
    <3>1. x # r
      BY <1>6, <2>6 DEF Comes, BoundSteps, UpdateSteps
    <3> QED
      BY <1>4, <2>2, <2>6, <3>1 DEF Comes, Sid, Bystands
  <2> QED
    BY <2>2, <2>4, <2>5, <2>6
<1> QED
  BY <1>7, <1>8, <1>9 DEF UInv

\* Requests that do not update stand by.
LEMMA Bystanders ==
  ASSUME RInv, NEW r \in Requests,
         \/ \E c \in Calls : Submit(r, c[1], c[2])
         \/ Register(r) \/ Admit(r) \/ LockTimeout(r)
         \/ Cancel(r) \/ Prompt(r) \/ New(r) \/ Removal(r)
  PROVE  Bystands(r)
<1>1. TypeOK /\ req \in [Requests -> ReqState]
  BY RequestTypes DEF RInv
<1>2. Finish(r) => Moves(r) /\ req'[r].at = "done"
  BY <1>1, FinishMoves DEF Request
<1>3. \A at \in States : Goto(r, at) => Moves(r) /\ req'[r].at = at
  BY <1>1, GotoKeeps DEF Keeps
<1>5. UNCHANGED live => \A s \in Sessions : live'[s] \in {live[s], None}
  OBVIOUS
<1>6. CASE \E c \in Calls : Submit(r, c[1], c[2])
  <2> SUFFICES ASSUME NEW m, NEW t, m \in Methods, Submit(r, m, t) PROVE Bystands(r)
    BY <1>6, RpcAssumption
  <2> DEFINE at == FirstStep(m)
  <2>1. at \in {"signal", "acquire", "owner", "generation", "save"}
    BY DEF FirstStep, Methods
  <2>2. req' = [req EXCEPT ![r].op = m, ![r].sid = t, ![r].at = at]
    BY DEF Submit
  <2>3. req[r].at = "idle" /\ UNCHANGED <<lock, cfg, inc, live>>
    BY DEF Submit, At
  <2> HIDE DEF at
  <2>4. Moves(r) /\ req'[r].at = at
    BY <1>1, <2>2 DEF Moves, ReqState
  <2> QED
    BY <1>5, <2>1, <2>3, <2>4 DEF Bystands, Outside, UpdateSteps, NotYet
<1>7. CASE Register(r)
  <2>1. CASE Finish(r)
    BY <1>2, <1>5, <1>7, <2>1 DEF Register, At, Bystands, Outside, UpdateSteps, NotYet
  <2>2. ASSUME NEW q, req' = [req EXCEPT ![r].at = "waiting", ![r].slot = q]
        PROVE  Bystands(r)
    <3>1. Moves(r) /\ req'[r].at = "waiting"
      BY <1>1, <2>2 DEF Moves, ReqState
    <3> QED
      BY <1>5, <1>7, <3>1 DEF Register, At, Bystands, Outside, UpdateSteps, NotYet
  <2> QED
    BY <1>7, <2>1, <2>2 DEF Register
<1>8. CASE Admit(r)
  <2>1. req[r].op \in Queued /\ req[r].at = "waiting"
    BY <1>8 DEF Admit, Waits, At, RInv, Flow, Suits
  <2> DEFINE at == FirstHeldStep(req[r].op)
  <2>2. at \in {"token", "preload", "remove", "tombstone"}
    BY <2>1 DEF FirstHeldStep, Queued
  <2> HIDE DEF at
  <2>3. Goto(r, at)
    BY <1>8 DEF Admit, at
  <2>4. Moves(r) /\ req'[r].at = at
    BY <1>3, <2>2, <2>3, StepNames
  <2> QED
    BY <1>5, <1>8, <2>1, <2>2, <2>4 DEF Admit, Bystands, Outside, UpdateSteps, NotYet
<1>9. CASE LockTimeout(r)
  BY <1>2, <1>5, <1>9 DEF LockTimeout, Waits, At, Bystands, Outside, UpdateSteps, NotYet
<1>10. CASE Cancel(r)
  BY <1>2, <1>3, <1>5, <1>10, StepNames
  DEF Cancel, CheckOwner, CancelSession, At, Bystands, Outside, UpdateSteps, NotYet
<1>11. CASE Removal(r)
  <2>1. \A c : RemoveSession(Sid(r), c) => \A s \in Sessions : live'[s] \in {live[s], None}
    BY <1>1 DEF RemoveSession, TypeOK
  <2>2. CASE Signal(r) \/ Tombstone(r)
    BY <1>2, <1>3, <1>5, <2>2, StepNames
    DEF Signal, Tombstone, At, Bystands, Outside, UpdateSteps, NotYet
  <2>3. CASE Remove(r) \/ KillSession(r)
    BY <1>2, <2>1, <2>3 DEF Remove, KillSession, At, Bystands, Outside, UpdateSteps, NotYet
  <2> QED
    BY <1>11, <2>2, <2>3 DEF Removal
<1>12. CASE Prompt(r)
  <2>1. CASE RegisterToken(r) \/ EndTurn(r) \/ TakeCause(r) \/ RemoveToken(r) \/ ClearCause(r)
    BY <1>2, <1>3, <1>5, <2>1, StepNames
    DEF RegisterToken, EndTurn, TakeCause, RemoveToken, ClearCause, At, Bystands, Outside,
        UpdateSteps, NotYet
  <2>2. CASE LookupAgent(r)
    <3>1. req[r].at \in {"lookup", "rehydrated"} /\ UNCHANGED <<lock, cfg, inc, live>>
      BY <2>2 DEF LookupAgent
    <3>2. CASE req' = [req EXCEPT ![r].at = "turn", ![r].seen = live[Sid(r)]]
      <4>1. Moves(r) /\ req'[r].at = "turn"
        BY <1>1, <3>2 DEF Moves, ReqState
      <4> QED
        BY <1>5, <3>1, <4>1 DEF Bystands, Outside, UpdateSteps, NotYet
    <3>3. CASE Goto(r, "rebuild") /\ req[r].at = "lookup"
      BY <1>3, <1>5, <3>1, <3>3, StepNames DEF Bystands, Outside, UpdateSteps, NotYet
    <3>4. CASE Goto(r, "unregister")
      BY <1>3, <1>5, <3>1, <3>4, StepNames DEF Bystands, Outside, UpdateSteps, NotYet
    <3> QED
      BY <2>2, <3>2, <3>3, <3>4 DEF LookupAgent, At
  <2>3. CASE RebuildAgent(r)
    <3>1. Moves(r) /\ req'[r].at \in {"rehydrate", "unregister"}
      BY <1>1, <1>3, <2>3, StepNames DEF RebuildAgent, Build, Moves, ReqState
    <3> QED
      BY <1>5, <2>3, <3>1 DEF RebuildAgent, At, Bystands, Outside, UpdateSteps, NotYet
  <2>4. CASE Rehydrate(r)
    <3>1. Sid(r) \in Sessions
      BY <2>4, HasSession DEF Rehydrate, At
    <3> QED
      BY <1>3, <1>5, <2>4, <3>1, StepNames
      DEF Rehydrate, At, Bystands, Outside, UpdateSteps, NotYet
  <2> QED
    BY <1>12, <2>1, <2>2, <2>3, <2>4 DEF Prompt
<1>13. CASE New(r)
  <2>1. CASE Preload(r)
    BY <1>2, <1>3, <1>5, <2>1, StepNames
    DEF Preload, At, Bystands, Outside, UpdateSteps, NotYet
  <2>2. CASE BuildAgent(r)
    <3>1. Moves(r) /\ req'[r].at \in {"insert", "done"}
      BY <1>1, <1>2, <2>2 DEF BuildAgent, Build, Moves, ReqState
    <3> QED
      BY <1>5, <2>2, <3>1 DEF BuildAgent, At, Bystands, Outside, UpdateSteps, NotYet
  <2>3. CASE InsertNew(r)
    <3>1. Sid(r) \in Sessions
      BY <2>3, HasSession DEF InsertNew, At
    <3> QED
      BY <1>2, <1>3, <1>5, <2>3, <3>1, StepNames
      DEF InsertNew, At, Bystands, Outside, UpdateSteps, NotYet
  <2>4. CASE ListInFlight(r)
    <3>1. Moves(r) /\ req'[r].at = "evict"
      BY <1>1, <2>4 DEF ListInFlight, Moves, ReqState
    <3> QED
      BY <1>5, <2>4, <3>1 DEF ListInFlight, At, Bystands, Outside, UpdateSteps, NotYet
  <2>5. CASE EvictSiblings(r)
    <3>1. Moves(r) /\ req'[r].at = "load" /\ \A s \in Sessions : live'[s] \in {live[s], None}
      BY <1>1, <2>5 DEF EvictSiblings, Moves, ReqState
    <3> QED
      BY <2>5, <3>1 DEF EvictSiblings, At, Bystands, Outside, UpdateSteps, NotYet
  <2>6. CASE LoadOrCreate(r)
    <3>1. \A s \in Sessions : live'[s] \in {live[s], None}
      BY <1>1, <1>5, <2>6 DEF LoadOrCreate, RemoveSession, TypeOK
    <3> QED
      BY <1>2, <2>6, <3>1 DEF LoadOrCreate, At, Bystands, Outside, UpdateSteps, NotYet
  <2> QED
    BY <1>13, <2>1, <2>2, <2>3, <2>4, <2>5, <2>6 DEF New
<1> QED
  BY <1>6, <1>7, <1>8, <1>9, <1>10, <1>11, <1>12, <1>13

-----------------------------------------------------------------------------
(* Steps of an update.                                                        *)

\* What one update does leaves the others as they were: two of them never have
\* the lock of one incarnation.
LEMMA OthersUpdate ==
  ASSUME RInv, UInv, NEW r \in Requests, Moves(r), live' = live, req'[r].at \notin NotYet,
         \A i \in Incarnations : lock'[i] = lock[i] \/ lock[i] \in {None, r},
         \A i \in Incarnations : inc'[i].over = inc[i].over \/ lock[i] = r
  PROVE  \A x \in Requests : x # r => Updating(x)'
<1>1. SUFFICES ASSUME NEW x \in Requests, x # r PROVE Updating(x)'
  OBVIOUS
<1>2. req'[x] = req[x] /\ Sid(x)' = Sid(x) /\ Updating(x) /\ req[x] \in ReqState
  BY <1>1, RequestTypes DEF Moves, Sid, UInv, RInv
<1>3. req[x].at \in BoundSteps /\ req[x].seen \in Requests => req'[req[x].seen].at \notin NotYet
  BY <1>2 DEF Moves, Updating
<1>4. req[x].at \in LockedSteps => lock'[req[x].bound] = x
  <2>1. SUFFICES ASSUME req[x].at \in LockedSteps PROVE lock'[req[x].bound] = x
    OBVIOUS
  <2>2. lock[req[x].bound] = x /\ req[x].bound \in Incarnations
    BY <1>2, <2>1 DEF Updating, ReqState
  <2> QED  BY <1>1, <2>2, RpcAssumption
<1>5. req[x].at \in VerifiedSteps => inc'[req[x].seen].over = inc[req[x].seen].over
  <2>1. SUFFICES ASSUME req[x].at \in VerifiedSteps
                 PROVE  inc'[req[x].seen].over = inc[req[x].seen].over
    OBVIOUS
  <2>2. lock[req[x].seen] = x /\ req[x].seen \in Incarnations
    BY <1>2, <2>1 DEF Updating, ReqState, VerifiedSteps, LockedSteps
  <2> QED  BY <1>1, <2>2
<1>6. SameIncarnation(x)' = SameIncarnation(x)
  BY <1>2 DEF SameIncarnation
<1> QED  BY <1>2, <1>3, <1>4, <1>5, <1>6 DEF Updating, VerifiedSteps, LockedSteps

\* A session that is reached stays reached, if the update hands it on.
LEMMA ReachKept ==
  ASSUME RInv, UInv, NEW r \in Requests, Moves(r), UNCHANGED <<live, cfg>>,
         \A i \in Incarnations : inc'[i].born = inc[i].born,
         \A s \in Sessions : Live(s) /\ Comes(r, s) => Comes(r, s)' \/ Fresh(live[s])',
         \A i \in Incarnations : Fresh(i) => Fresh(i)'
  PROVE  \A s \in Sessions : Reached(s)'
<1>1. SUFFICES ASSUME NEW s \in Sessions, Live(s)', (inc[live[s]].born < cfg)'
               PROVE  Fresh(live[s])' \/ (\E x \in Requests : Comes(x, s)')
  BY DEF Reached
<1>2. live[s] \in Incarnations /\ Live(s)
  BY <1>1 DEF RInv, TypeOK, Live
<1>3. Fresh(live[s]) \/ \E x \in Requests : Comes(x, s)
  BY <1>1, <1>2 DEF UInv, Reached
<1>4. ASSUME NEW x \in Requests, x # r, Comes(x, s) PROVE Comes(x, s)'
  BY <1>4 DEF Comes, Moves, Sid
<1>5. Fresh(live[s]) => Fresh(live[s])'
  BY <1>2
<1> QED  BY <1>2, <1>3, <1>4, <1>5

\* A step before the lock is asked for, or that only looks again.
LEMMA FreshKept ==
  ASSUME NEW r \in Requests, Moves(r), UNCHANGED <<inc, cfg>>,
         \/ req'[r].at \notin {"override", "model", "apply", "swap"}
         \/ req'[r].ver = cfg
         \/ /\ req[r].at \in {"override", "model", "apply", "swap"}
            /\ req'[r].seen = req[r].seen /\ req'[r].ver = req[r].ver
  PROVE  \A i \in Incarnations : Fresh(i) => Fresh(i)'
BY DEF Fresh, Moves

LEMMA ModelsKept ==
  ASSUME UInv, NEW r \in Requests, Moves(r), UNCHANGED inc, req[r].at # "model"
  PROVE  \A i \in Incarnations : ModelFollows(i)'
BY DEF UInv, ModelFollows, Moves

\* What an update does that neither changes an agent nor ends.
LEMMA GoesAhead ==
  ASSUME RInv, UInv, NEW r \in Requests, Moves(r), UNCHANGED <<live, inc, cfg>>,
         req[r].at # "model", req'[r].at \notin NotYet,
         \A i \in Incarnations : lock'[i] = lock[i] \/ lock[i] \in {None, r},
         Updating(r)',
         \A s \in Sessions : Live(s) /\ Comes(r, s) => Comes(r, s)',
         \/ req'[r].at \notin {"override", "model", "apply", "swap"}
         \/ req'[r].ver = cfg
         \/ /\ req[r].at \in {"override", "model", "apply", "swap"}
            /\ req'[r].seen = req[r].seen /\ req'[r].ver = req[r].ver
  PROVE  UInv'
<1>1. \A x \in Requests : Updating(x)'
  BY OthersUpdate
<1>2. \A s \in Sessions : Reached(s)'
  BY FreshKept, ReachKept
<1> QED  BY <1>1, <1>2, ModelsKept DEF UInv

\* An update that gives up: the session is gone or another, or the provider
\* cannot be built.
LEMMA GivenUp ==
  ASSUME TypeOK, NEW r \in Requests, GiveUp(r)
  PROVE  /\ Moves(r)
         /\ \/ req'[r] = Request("done") /\ req[r].op # "edit"
            \/ /\ req'[r].at = "next" /\ req[r].op = "edit"
               /\ req'[r].op = req[r].op /\ req'[r].todo = req[r].todo
<1>1. req \in [Requests -> ReqState]
  BY RequestTypes
<1>2. CASE Refreshes(r)
  <2>1. req' = [req EXCEPT ![r].at = "next"] /\ req[r].op = "edit"
    BY <1>2 DEF GiveUp, Refreshes, Goto
  <2> QED  BY <1>1, <2>1 DEF Moves, ReqState
<1>3. CASE ~Refreshes(r)
  BY <1>3, FinishMoves DEF GiveUp, Refreshes
<1> QED  BY <1>2, <1>3

LEMMA GiveUpStep ==
  ASSUME RInv, UInv, NEW r \in Requests, GiveUp(r), UNCHANGED <<live, inc, cfg>>,
         req[r].at \in UpdateSteps \cup {"override"},
         lock' = lock \/ (Unlock(r) /\ req[r].at \in LockedSteps),
         \/ ~Live(Sid(r))
         \/ ~SameIncarnation(r) /\ req[r].at # "generation"
         \/ req[r].op = "configure"
  PROVE  UInv'
<1>1. TypeOK /\ req[r] \in ReqState /\ Updating(r)
  BY RequestTypes DEF RInv, UInv
<1>2. /\ Moves(r)
      /\ \/ req'[r].at = "done" /\ req[r].op # "edit"
         \/ /\ req'[r].at = "next" /\ req[r].op = "edit"
            /\ req'[r].op = req[r].op /\ req'[r].todo = req[r].todo
  BY <1>1, GivenUp DEF Request
<1>3. \A i \in Incarnations : lock'[i] = lock[i] \/ lock[i] \in {None, r}
  BY <1>1 DEF Unlock, Updating, TypeOK
<1>4. Updating(r)'
  BY <1>2 DEF Updating, BoundSteps, UpdateSteps, LockedSteps, VerifiedSteps
<1>5. ASSUME NEW s \in Sessions, Live(s), Comes(r, s) PROVE Comes(r, s)'
  <2>1. req[r].at \in UpdateSteps /\ s \in req[r].todo
    BY <1>5 DEF Comes, SameIncarnation, UpdateSteps
  <2> QED  BY <1>2, <1>5, <2>1 DEF Comes
<1>6. req[r].at # "model" /\ req'[r].at \notin NotYet \cup {"override", "model", "apply", "swap"}
  BY <1>2 DEF UpdateSteps, NotYet
<1> QED  BY <1>2, <1>3, <1>4, <1>5, <1>6, GoesAhead

\* An update that goes on to its next step.
LEMMA NextStep ==
  ASSUME RInv, UInv, NEW r \in Requests, NEW at \in States, Goto(r, at),
         UNCHANGED <<live, inc, cfg>>,
         \A i \in Incarnations : lock'[i] = lock[i] \/ lock[i] \in {None, r},
         \/ req[r].at = "locking" /\ at = "verify" /\ lock'[req[r].bound] = r
         \/ req[r].at = "verify" /\ at = "provider" /\ SameIncarnation(r) /\ lock' = lock
         \/ req[r].at = "apply" /\ at = "swap" /\ SameIncarnation(r) /\ lock' = lock
  PROVE  UInv'
<1>1. TypeOK /\ req \in [Requests -> ReqState] /\ Updating(r)
  BY RequestTypes DEF RInv, UInv
<1>2. /\ Moves(r) /\ req'[r].at = at
      /\ \A f \in {"op", "sid", "todo", "seen", "ver", "over", "bound"} : req'[r][f] = req[r][f]
  BY <1>1 DEF Goto, Moves, ReqState
<1>3. /\ req'[r].op = req[r].op /\ req'[r].sid = req[r].sid /\ req'[r].todo = req[r].todo
      /\ req'[r].seen = req[r].seen /\ req'[r].ver = req[r].ver /\ req'[r].over = req[r].over
      /\ req'[r].bound = req[r].bound
  BY <1>2
<1>4. Updating(r)'
  <2>1. req[r].seen \in Requests => req'[req[r].seen].at \notin NotYet
    BY <1>1, <1>2 DEF Updating, Moves, NotYet, BoundSteps, UpdateSteps
  <2>2. SameIncarnation(r)' = SameIncarnation(r)
    BY <1>3 DEF SameIncarnation, Sid
  <2> QED
    BY <1>1, <1>2, <1>3, <2>1, <2>2 DEF Updating, LockedSteps, VerifiedSteps, BoundSteps, UpdateSteps
<1>5. ASSUME NEW s \in Sessions, Live(s), Comes(r, s) PROVE Comes(r, s)'
  BY <1>2, <1>3, <1>5 DEF Comes, Sid, UpdateSteps
<1> QED  BY <1>2, <1>3, <1>4, <1>5, GoesAhead DEF NotYet

\* A profile is saved: the refresh that follows comes to every session.
LEMMA SaveReaches ==
  ASSUME RInv, UInv, NEW r \in Requests, SaveProfile(r)
  PROVE  UInv'
<1>1. TypeOK /\ req[r].at = "save" /\ req[r].op = "edit" /\ UNCHANGED <<live, inc, lock>>
  BY DEF SaveProfile, At, RInv, Flow, Suits
<1>2. Keeps(r) /\ Moves(r) /\ req'[r].at = "list" /\ req'[r].op = "edit"
  BY <1>1, GotoKeeps, StepNames DEF SaveProfile, Keeps
<1>3. \A x \in Requests : Updating(x)'
  BY <1>1, <1>2, OthersUpdate
  DEF Updating, BoundSteps, UpdateSteps, LockedSteps, VerifiedSteps, NotYet
<1>4. \A s \in Sessions : Reached(s)'
  BY <1>2 DEF Reached, Comes
<1> QED  BY <1>1, <1>2, <1>3, <1>4, ModelsKept DEF UInv

\* The refresh lists the sessions that are there, and takes one after the other.
LEMMA ListReaches ==
  ASSUME RInv, UInv, NEW r \in Requests, ListSessions(r) \/ NextSession(r)
  PROVE  UInv'
<1>1. TypeOK /\ req \in [Requests -> ReqState] /\ req[r].op = "edit"
      /\ UNCHANGED <<live, inc, lock, cfg>>
  BY RequestTypes DEF ListSessions, NextSession, At, RInv, Flow, Suits
<1>2. CASE ListSessions(r)
  <2>1. /\ Moves(r) /\ req'[r].at = "next" /\ req'[r].op = "edit"
        /\ req'[r].todo = {s \in Sessions : Live(s)} /\ req[r].at = "list"
    BY <1>1, <1>2 DEF ListSessions, At, Moves, ReqState
  <2>2. \A s \in Sessions : Live(s) => Comes(r, s)'
    BY <2>1 DEF Comes
  <2>3. Updating(r)'
    BY <2>1 DEF Updating, BoundSteps, UpdateSteps, LockedSteps, VerifiedSteps
  <2> QED  BY <1>1, <2>1, <2>2, <2>3, GoesAhead DEF NotYet
<1>3. CASE NextSession(r) /\ Finish(r) /\ req[r].todo = {}
  <2>1. Moves(r) /\ req'[r].at = "done" /\ req[r].at = "next"
    BY <1>1, <1>3, FinishMoves DEF NextSession, At, Request
  <2>2. \A s \in Sessions : ~Comes(r, s)
    BY <1>3, <2>1 DEF Comes
  <2>3. Updating(r)'
    BY <2>1 DEF Updating, BoundSteps, UpdateSteps, LockedSteps, VerifiedSteps
  <2> QED  BY <1>1, <2>1, <2>2, <2>3, GoesAhead DEF NotYet
<1>4. ASSUME NextSession(r), NEW t \in req[r].todo,
             req' = [req EXCEPT ![r] = [Request("generation") EXCEPT !.op = "edit",
                                          !.sid = t, !.todo = req[r].todo \ {t}]]
      PROVE  UInv'
  <2>1. /\ Moves(r) /\ req'[r].at = "generation" /\ req'[r].op = "edit"
        /\ req'[r].todo = req[r].todo \ {t} /\ req'[r].sid = t /\ req[r].at = "next"
    BY <1>1, <1>4 DEF NextSession, At, Moves, ReqState, Request
  <2>2. \A s \in Sessions : Live(s) /\ Comes(r, s) => Comes(r, s)'
    BY <2>1 DEF Comes, Sid, UpdateSteps
  <2>3. Updating(r)'
    BY <2>1 DEF Updating, BoundSteps, UpdateSteps, LockedSteps, VerifiedSteps
  <2> QED  BY <1>1, <2>1, <2>2, <2>3, GoesAhead DEF NotYet
<1> QED  BY <1>2, <1>3, <1>4 DEF NextSession

\* The incarnation is read, and then the lock of the incarnation of now.
LEMMA ReadReaches ==
  ASSUME RInv, UInv, NEW r \in Requests, ReadGeneration(r) \/ FetchLock(r)
  PROVE  UInv'
<1>1. /\ TypeOK /\ req \in [Requests -> ReqState] /\ Sid(r) \in Sessions /\ Updating(r)
      /\ UNCHANGED <<live, inc, lock, cfg>>
  BY RequestTypes, HasSession DEF ReadGeneration, FetchLock, At, RInv, UInv
<1>2. CASE GiveUp(r) /\ ~Live(Sid(r))
  BY <1>1, <1>2, GiveUpStep DEF ReadGeneration, FetchLock, At, UpdateSteps
<1>3. CASE ReadGeneration(r) /\ Live(Sid(r))
  <2>1. req' = [req EXCEPT ![r].at = "lock", ![r].seen = live[Sid(r)]]
        /\ req[r].at = "generation"
    BY <1>3 DEF ReadGeneration, At
  <2>2. /\ Moves(r) /\ req'[r].at = "lock" /\ req'[r].seen = live[Sid(r)]
        /\ req'[r].op = req[r].op /\ req'[r].sid = Sid(r) /\ req'[r].todo = req[r].todo
    BY <1>1, <2>1 DEF Moves, ReqState, Sid
  <2>3. Updating(r)'
    <3>1. req'[r].seen \in Requests => req'[req'[r].seen].at \notin NotYet
      BY <1>1, <2>2 DEF RInv, Insertion, Moves, NotYet
    <3> QED  BY <2>2, <3>1 DEF Updating, LockedSteps, VerifiedSteps
  <2>4. \A s \in Sessions : Live(s) /\ Comes(r, s) => Comes(r, s)'
    BY <1>1, <2>1, <2>2 DEF Comes, Sid, UpdateSteps
  <2> QED  BY <1>1, <2>1, <2>2, <2>3, <2>4, GoesAhead DEF NotYet
<1>4. CASE FetchLock(r) /\ Live(Sid(r))
  <2>1. req' = [req EXCEPT ![r].at = "locking", ![r].bound = live[Sid(r)]]
        /\ req[r].at = "lock"
    BY <1>4 DEF FetchLock, At
  <2>2. /\ Moves(r) /\ req'[r].at = "locking" /\ req'[r].bound = live[Sid(r)]
        /\ req'[r].op = req[r].op /\ req'[r].sid = Sid(r) /\ req'[r].todo = req[r].todo
        /\ req'[r].seen = req[r].seen
    BY <1>1, <2>1 DEF Moves, ReqState, Sid
  <2>3. Updating(r)'
    <3>1. req[r].seen \in Requests => req'[req[r].seen].at \notin NotYet
      BY <1>1, <2>1, <2>2 DEF Updating, Moves, NotYet, BoundSteps, UpdateSteps
    <3>2. SameIncarnation(r)' => req'[r].bound = req'[r].seen
      BY <1>1, <2>2 DEF SameIncarnation, Sid
    <3> QED  BY <1>4, <2>2, <3>1, <3>2 DEF Updating, LockedSteps, VerifiedSteps, Live
  <2>4. \A s \in Sessions : Live(s) /\ Comes(r, s) => Comes(r, s)'
    BY <1>1, <2>1, <2>2 DEF Comes, Sid, UpdateSteps
  <2> QED  BY <1>1, <2>1, <2>2, <2>3, <2>4, GoesAhead DEF NotYet
<1> QED  BY <1>2, <1>3, <1>4 DEF ReadGeneration, FetchLock

\* The lock is taken, the generation read again.
LEMMA LockReaches ==
  ASSUME RInv, UInv, NEW r \in Requests,
         TakeLock(r) \/ VerifyGeneration(r) \/ ApplyModelProvider(r)
  PROVE  UInv'
<1>1. TypeOK /\ Updating(r) /\ req[r] \in ReqState
  BY RequestTypes DEF RInv, UInv
<1>2. CASE TakeLock(r)
  <2>1. req[r].bound \in Incarnations /\ req[r].at = "locking"
    BY <1>1, <1>2 DEF TakeLock, At, Updating, ReqState
  <2>2. lock'[req[r].bound] = r /\ \A i \in Incarnations : lock'[i] = lock[i] \/ lock[i] = None
    BY <1>1, <1>2, <2>1 DEF TakeLock, TypeOK
  <2> QED  BY <1>2, <2>1, <2>2, NextStep, StepNames DEF TakeLock
<1>3. CASE VerifyGeneration(r)
  <2>1. CASE SameIncarnation(r) /\ Goto(r, "provider") /\ UNCHANGED lock
    BY <1>3, <2>1, NextStep, StepNames DEF VerifyGeneration, At
  <2>2. CASE ~SameIncarnation(r) /\ GiveUp(r) /\ Unlock(r)
    BY <1>3, <2>2, GiveUpStep DEF VerifyGeneration, At, UpdateSteps, LockedSteps
  <2> QED  BY <1>3, <2>1, <2>2 DEF VerifyGeneration
<1>4. CASE ApplyModelProvider(r)
  <2>1. CASE SameIncarnation(r) /\ Goto(r, "swap") /\ UNCHANGED lock
    BY <1>4, <2>1, NextStep, StepNames DEF ApplyModelProvider, At
  <2>2. CASE ~SameIncarnation(r) /\ GiveUp(r) /\ Unlock(r)
    BY <1>4, <2>2, GiveUpStep DEF ApplyModelProvider, At, UpdateSteps, LockedSteps
  <2> QED  BY <1>4, <2>1, <2>2 DEF ApplyModelProvider
<1> QED  BY <1>2, <1>3, <1>4

\* The provider is built from the configuration of now.
LEMMA BuildReaches ==
  ASSUME RInv, UInv, NEW r \in Requests, BuildProvider(r)
  PROVE  UInv'
<1>1. /\ TypeOK /\ req \in [Requests -> ReqState] /\ Updating(r) /\ req[r].at = "provider"
      /\ UNCHANGED <<live, inc, cfg>> /\ req[r].op \in {"configure", "edit"}
  BY RequestTypes DEF BuildProvider, At, RInv, UInv, Flow, Suits, UpdateSteps
<1>2. CASE (Refreshes(r) => ~Live(Sid(r))) /\ GiveUp(r) /\ Unlock(r)
  BY <1>1, <1>2, GiveUpStep DEF Refreshes, UpdateSteps, LockedSteps
<1>3. CASE BuildProvider(r) /\ Live(Sid(r)) /\ UNCHANGED lock
             /\ req' = [req EXCEPT ![r].at = IF Refreshes(r) THEN "apply" ELSE "override",
                          ![r].ver = cfg,
                          ![r].over = IF Refreshes(r) THEN inc[live[Sid(r)]].over
                                      ELSE <<req[r].seen, r>>]
  <2> DEFINE at == IF Refreshes(r) THEN "apply" ELSE "override"
             over == IF Refreshes(r) THEN inc[live[Sid(r)]].over ELSE <<req[r].seen, r>>
  <2>1. \/ at = "override" /\ req[r].op = "configure"
        \/ at = "apply" /\ req[r].op = "edit" /\ over = inc[live[Sid(r)]].over
    BY <1>1 DEF Refreshes
  <2>2. req' = [req EXCEPT ![r].at = at, ![r].ver = cfg, ![r].over = over]
    BY <1>3
  <2> HIDE DEF at, over
  <2>3. /\ Moves(r) /\ req'[r].at = at /\ req'[r].ver = cfg /\ req'[r].over = over
        /\ req'[r].op = req[r].op /\ req'[r].sid = Sid(r) /\ req'[r].todo = req[r].todo
        /\ req'[r].seen = req[r].seen /\ req'[r].bound = req[r].bound
    BY <1>1, <2>2 DEF Moves, ReqState, Sid
  <2>4. Updating(r)'
    <3>1. req[r].seen \in Requests => req'[req[r].seen].at \notin NotYet
      BY <1>1, <2>1, <2>3 DEF Updating, Moves, NotYet, BoundSteps, UpdateSteps
    <3>2. SameIncarnation(r)' => live[Sid(r)] = req[r].seen
      BY <1>1, <2>3 DEF SameIncarnation, Sid
    <3> QED
      BY <1>1, <1>3, <2>1, <2>3, <3>1, <3>2 DEF Updating, LockedSteps, VerifiedSteps
  <2>5. \A s \in Sessions : Live(s) /\ Comes(r, s) => Comes(r, s)'
    BY <1>1, <2>1, <2>3 DEF Comes, Sid, UpdateSteps
  <2> QED  BY <1>1, <1>3, <2>1, <2>3, <2>4, <2>5, GoesAhead DEF NotYet
<1> QED  BY <1>1, <1>2, <1>3 DEF BuildProvider

\* The overrides change in the map; the agent follows.
LEMMA OverridesReach ==
  ASSUME RInv, UInv, NEW r \in Requests, SetOverrides(r)
  PROVE  UInv'
<1>1. /\ TypeOK /\ req \in [Requests -> ReqState] /\ Updating(r) /\ req[r].at = "override"
      /\ UNCHANGED <<live, cfg>> /\ req[r].op = "configure"
      /\ req[r].seen \in Incarnations /\ lock[req[r].seen] = r /\ req[r].bound = req[r].seen
  BY RequestTypes, SeenIsOld
  DEF SetOverrides, At, RInv, UInv, Flow, Suits, BoundSteps, Updating, LockedSteps, VerifiedSteps
<1>2. CASE ~SameIncarnation(r) /\ GiveUp(r) /\ Unlock(r) /\ UNCHANGED inc
  BY <1>1, <1>2, GiveUpStep DEF LockedSteps
<1>3. CASE SameIncarnation(r) /\ Goto(r, "model") /\ UNCHANGED lock
             /\ inc' = [inc EXCEPT ![live[Sid(r)]].over = req[r].over]
  <2> DEFINE i == req[r].seen
  <2>1. inc' = [inc EXCEPT ![i].over = req[r].over]
    BY <1>3 DEF SameIncarnation
  <2>2. /\ inc'[i].over = req[r].over
        /\ \A j \in Incarnations : /\ inc'[j].born = inc[j].born /\ inc'[j].ver = inc[j].ver
                                   /\ j # i => inc'[j] = inc[j]
    BY <1>1, <2>1 DEF TypeOK
  <2>3. /\ Moves(r) /\ req'[r].at = "model" /\ req'[r].seen = i /\ req'[r].bound = i
        /\ req'[r].over = req[r].over /\ req'[r].ver = req[r].ver
    BY <1>1, <1>3 DEF Goto, Moves, ReqState
  <2>4. \A x \in Requests : Updating(x)'
    <3>1. i \in Requests => req'[i].at \notin NotYet
      BY <1>1, <2>3 DEF Updating, Moves, NotYet, BoundSteps
    <3>2. Updating(r)'
      BY <1>1, <1>3, <2>2, <2>3, <3>1, RpcAssumption
      DEF Updating, LockedSteps, VerifiedSteps, Incarnations
    <3>3. \A j \in Incarnations : inc'[j].over = inc[j].over \/ lock[j] = r
      BY <1>1, <2>2
    <3> QED  BY <1>1, <1>3, <2>3, <3>2, <3>3, OthersUpdate DEF NotYet
  <2>5. \A j \in Incarnations : ModelFollows(j)'
    BY <1>1, <2>2, <2>3 DEF UInv, ModelFollows, Moves
  <2>6. \A j \in Incarnations : Fresh(j) => Fresh(j)'
    BY <1>1, <2>2, <2>3 DEF Fresh, Moves
  <2>7. \A s \in Sessions : ~Comes(r, s)
    BY <1>1 DEF Comes
  <2>8. \A s \in Sessions : Reached(s)'
    BY <1>1, <2>2, <2>3, <2>6, <2>7, ReachKept
  <2> QED  BY <2>4, <2>5, <2>8 DEF UInv
<1> QED  BY <1>2, <1>3 DEF SetOverrides

\* The agent is given the model of its overrides.
LEMMA ModelReaches ==
  ASSUME RInv, UInv, NEW r \in Requests, SetModelName(r) \/ SwapProvider(r)
  PROVE  UInv'
<1>0. /\ TypeOK /\ req \in [Requests -> ReqState] /\ Updating(r) /\ req[r].at \in {"model", "swap"}
      /\ UNCHANGED <<live, cfg>>
      /\ req[r].at = "model" => req[r].op = "configure"
      /\ req[r].seen \in Incarnations /\ lock[req[r].seen] = r
      /\ req[r].bound = req[r].seen /\ inc[req[r].seen].over = req[r].over
  BY RequestTypes, SeenIsOld
  DEF SetModelName, SwapProvider, At, RInv, UInv, Flow, Suits, BoundSteps, UpdateSteps, Updating,
      LockedSteps, VerifiedSteps
<1> SUFFICES ASSUME NEW i \in Incarnations, i = req[r].seen PROVE UInv'
  BY <1>0
<1>1. /\ TypeOK /\ req \in [Requests -> ReqState] /\ Updating(r) /\ req[r].at \in {"model", "swap"}
      /\ UNCHANGED <<live, cfg>>
      /\ req[r].at = "model" => req[r].op = "configure"
      /\ req[r].seen = i /\ lock[i] = r /\ req[r].bound = i /\ inc[i].over = req[r].over
  BY <1>0
<1>2. /\ inc'[i].model = req[r].over /\ inc'[i].over = inc[i].over
      /\ inc'[i].ver = IF req[r].at = "swap" THEN req[r].ver ELSE inc[i].ver
      /\ \A j \in Incarnations : /\ inc'[j].born = inc[j].born /\ inc'[j].over = inc[j].over
                                 /\ j # i => inc'[j] = inc[j]
  <2>1. CASE SetModelName(r)
    BY <1>1, <2>1 DEF SetModelName, At, TypeOK
  <2>2. CASE SwapProvider(r)
    <3> DEFINE first == [inc EXCEPT ![i].ver = req[r].ver]
    <3>1. inc' = [first EXCEPT ![i].model = req[r].over] /\ req[r].at = "swap"
      BY <1>1, <2>2 DEF SwapProvider, At, TypeOK
    <3>2. /\ first \in [Incarnations -> [mode : {Chat, Acp}, over : Override, ver : Nat,
                                         model : Override, born : Nat]]
          /\ first[i].over = inc[i].over /\ first[i].ver = req[r].ver
          /\ \A j \in Incarnations : /\ first[j].born = inc[j].born
                                     /\ first[j].over = inc[j].over
                                     /\ j # i => first[j] = inc[j]
      BY <1>1 DEF TypeOK, ReqState
    <3> HIDE DEF first
    <3> QED  BY <1>1, <3>1, <3>2
  <2> QED  BY <2>1, <2>2
<1>3. \A x \in Requests : x # r /\ req[x].at \in VerifiedSteps => req[x].seen # i
  BY <1>1 DEF UInv, Updating, VerifiedSteps
<1>4. \A j \in Incarnations : ModelFollows(j)'
  <2>1. SUFFICES ASSUME NEW j \in Incarnations, j # i PROVE ModelFollows(j)'
    BY <1>1, <1>2 DEF ModelFollows
  <2>2. inc'[j] = inc[j] /\ ModelFollows(j)
    BY <1>2, <2>1 DEF UInv
  <2>3. Moves(r)
    BY <1>1, StepNames, GotoKeeps, GivenUp DEF SetModelName, SwapProvider, Keeps
  <2> QED  BY <2>1, <2>2, <2>3 DEF ModelFollows, Moves
<1>5. CASE SetModelName(r)
  <2>1. req[r].at = "model" /\ Goto(r, "apply") /\ lock' = lock
    BY <1>5 DEF SetModelName, At
  <2>2. /\ Moves(r) /\ req'[r].at = "apply" /\ req'[r].seen = i /\ req'[r].bound = i
        /\ req'[r].over = req[r].over /\ req'[r].ver = req[r].ver
    BY <1>1, <2>1 DEF Goto, Moves, ReqState
  <2>3. i \in Requests => req'[i].at \notin NotYet
    BY <1>1, <2>1, <2>2 DEF Updating, Moves, NotYet, BoundSteps
  <2>4. Updating(r)'
    BY <1>1, <1>2, <2>1, <2>2, <2>3, RpcAssumption
    DEF Updating, LockedSteps, VerifiedSteps, Incarnations
  <2>5. \A x \in Requests : Updating(x)'
    BY <1>1, <1>2, <2>1, <2>2, <2>4, OthersUpdate DEF NotYet
  <2>6. \A j \in Incarnations : Fresh(j) => Fresh(j)'
    BY <1>1, <1>2, <2>1, <2>2 DEF Fresh, Moves
  <2>7. \A s \in Sessions : ~Comes(r, s)
    BY <1>1, <2>1 DEF Comes
  <2>8. \A s \in Sessions : Reached(s)'
    BY <1>1, <1>2, <2>2, <2>6, <2>7, ReachKept
  <2> QED  BY <1>4, <2>5, <2>8 DEF UInv
<1>6. CASE SwapProvider(r)
  <2>1. req[r].at = "swap" /\ GiveUp(r) /\ lock' = [lock EXCEPT ![i] = None]
    BY <1>1, <1>6 DEF SwapProvider, At, Unlock
  <2>2. /\ Moves(r)
        /\ \/ req'[r].at = "done" /\ req[r].op # "edit"
           \/ /\ req'[r].at = "next" /\ req[r].op = "edit"
              /\ req'[r].op = req[r].op /\ req'[r].todo = req[r].todo
    BY <1>1, <2>1, GivenUp DEF Request
  <2>3. Updating(r)'
    BY <2>2 DEF Updating, BoundSteps, UpdateSteps, LockedSteps, VerifiedSteps
  <2>4. \A j \in Incarnations : lock'[j] = lock[j] \/ lock[j] \in {None, r}
    BY <1>1, <2>1 DEF TypeOK
  <2>5. \A x \in Requests : Updating(x)'
    BY <1>1, <1>2, <2>2, <2>3, <2>4, OthersUpdate DEF NotYet
  <2>6. req[r].ver = cfg => Fresh(i)'
    BY <1>1, <1>2, <1>3, <2>1, <2>2 DEF Fresh, Moves, VerifiedSteps, LockedSteps
  <2>7. \A j \in Incarnations : Fresh(j) => Fresh(j)'
    <3>1. SUFFICES ASSUME NEW j \in Incarnations, Fresh(j) PROVE Fresh(j)'
      OBVIOUS
    <3>2. CASE j = i
      BY <2>1, <2>6, <3>1, <3>2 DEF Fresh
    <3>3. CASE j # i
      BY <1>1, <1>2, <2>2, <3>1, <3>3 DEF Fresh, Moves
    <3> QED  BY <3>2, <3>3
  <2>8. \A s \in Sessions : Live(s) /\ Comes(r, s) => Comes(r, s)' \/ Fresh(live[s])'
    <3>1. SUFFICES ASSUME NEW s \in Sessions, Comes(r, s)
                   PROVE  Comes(r, s)' \/ Fresh(live[s])'
      OBVIOUS
    <3>2. CASE s \in req[r].todo
      BY <2>2, <3>1, <3>2 DEF Comes
    <3>3. CASE req[r].seen = live[s] /\ req[r].ver = cfg
      BY <1>1, <2>6, <3>3
    <3> QED  BY <2>1, <3>1, <3>2, <3>3 DEF Comes
  <2>9. \A s \in Sessions : Reached(s)'
    BY <1>1, <1>2, <2>2, <2>7, <2>8, ReachKept
  <2> QED  BY <1>4, <2>5, <2>9 DEF UInv
<1> QED  BY <1>5, <1>6

-----------------------------------------------------------------------------
(* The invariant of updates.                                                  *)

LEMMA UpdatesStart ==
  Init => UInv
<1> SUFFICES ASSUME Init PROVE UInv
  OBVIOUS
<1>1. \A r \in Requests : req[r].at = "idle"
  BY DEF Init, Request
<1>2. \A i \in Incarnations : /\ inc[i].over = None /\ inc[i].model = None
                              /\ inc[i].born = 0
  BY DEF Init, Incarnation
<1>3. cfg = 0
  BY DEF Init
<1>4. \A s \in Sessions : Live(s) => live[s] \in Incarnations
  BY DEF Init, Live, Incarnations
<1> QED
  BY <1>1, <1>2, <1>3, <1>4
  DEF UInv, Updating, ModelFollows, Reached, BoundSteps, UpdateSteps, LockedSteps, VerifiedSteps

LEMMA UpdatesKeep ==
  RInv /\ RInv' /\ UInv /\ [Next]_vars => UInv'
<1> SUFFICES ASSUME RInv, RInv', UInv, [Next]_vars PROVE UInv'
  OBVIOUS
<1>1. ASSUME NEW r \in Requests, NEW c \in Calls, Submit(r, c[1], c[2]) PROVE UInv'
  BY <1>1, Bystanders, BystandersStep
<1>2. ASSUME NEW r \in Requests,
             \/ Register(r) \/ Admit(r) \/ LockTimeout(r)
             \/ Cancel(r) \/ Prompt(r) \/ New(r) \/ Removal(r)
      PROVE  UInv'
  BY <1>2, Bystanders, BystandersStep
<1>3. ASSUME NEW r \in Requests, Update(r) PROVE UInv'
  BY <1>3, SaveReaches, ListReaches, ReadReaches, LockReaches, BuildReaches, OverridesReach,
     ModelReaches DEF Update
<1>4. CASE UNCHANGED <<req, live, inc, lock, cfg>>
  <2>1. \A r \in Requests : Updating(r)' = Updating(r)
    BY <1>4 DEF Updating, SameIncarnation, Sid
  <2>2. \A i \in Incarnations : ModelFollows(i)' = ModelFollows(i)
    BY <1>4 DEF ModelFollows
  <2>3. \A s \in Sessions : Reached(s)' = Reached(s)
    BY <1>4 DEF Reached, Live, Fresh, Comes, Sid
  <2> QED  BY <2>1, <2>2, <2>3 DEF UInv
<1>5. ASSUME NEW s \in Sessions, EvictIdle(s) PROVE UInv'
  BY <1>4, <1>5 DEF EvictIdle
<1>6. UNCHANGED vars => UInv'
  BY <1>4 DEF vars
<1> QED  BY <1>1, <1>2, <1>3, <1>5, <1>6 DEF Next

LEMMA UpdateInvariant ==
  Spec => [](RInv /\ UInv)
<1>1. RInv /\ UInv /\ [Next]_vars => (RInv /\ UInv)'
  BY RpcKeeps, UpdatesKeep
<1> QED  BY RpcStarts, UpdatesStart, <1>1, PTL DEF Spec

\* While nobody holds the update lock of a session its agent has the model its
\* overrides name (lock_model_provider_update, apply_model_provider).
THEOREM AgentFollowsOverrides == Spec => []AgentHasOverrides
<1>1. RInv /\ UInv => AgentHasOverrides
  <2> SUFFICES ASSUME RInv, UInv, NEW s \in Sessions, Live(s), lock[live[s]] = None
               PROVE  inc[live[s]].model = inc[live[s]].over
    BY DEF AgentHasOverrides
  <2>1. live[s] \in Incarnations /\ ModelFollows(live[s])
    BY DEF RInv, TypeOK, Live, UInv
  <2>2. \A r \in Requests : req[r].at = "model" => lock[req[r].seen] = r
    BY DEF UInv, Updating, LockedSteps, VerifiedSteps
  <2> QED  BY <2>1, <2>2, RpcAssumption DEF ModelFollows
<1> QED  BY <1>1, UpdateInvariant, PTL

\* When the refreshes and configurations are over, a session that was there at
\* the last save has the provider of that save (refresh_model_provider_sessions).
THEOREM RefreshesReach == Spec => []EditsReachSessions
<1>1. RInv /\ UInv => EditsReachSessions
  <2> SUFFICES ASSUME RInv, UInv, \A r \in Requests : req[r].op \notin {"edit", "configure"},
                      NEW s \in Sessions, Live(s), inc[live[s]].born < cfg
               PROVE  inc[live[s]].ver = cfg
    BY DEF EditsReachSessions
  <2>1. Reached(s) /\ \A r \in Requests : ~Comes(r, s)
    BY DEF UInv, Comes
  <2> QED  BY <2>1 DEF Reached, Fresh
<1> QED  BY <1>1, UpdateInvariant, PTL

=============================================================================
