---------------------------- MODULE RpcSessions ----------------------------
(* The sessions of the daemon's RPC server (rpc/session.rs and the handlers   *)
(* of rpc/dispatch.rs): the per-session admission queue                       *)
(* (omnesagent-infra/src/session_queue.rs), turns and their cancellation, the *)
(* durable rows that bring an ACP session back, and the changes of a          *)
(* session's model provider, which do not pass through the queue.  All        *)
(* requests come from the client that owns the sessions.                      *)
EXTENDS Naturals, FiniteSets

CONSTANTS
  Sessions,       \* the session ids
  Opened,         \* the sessions that may have a past when a behaviour begins
  Requests,       \* the requests of a behaviour
  Calls,          \* the calls they may be: method and session
  MaxQueueDepth,  \* requests a queue slot takes (max_queue_depth)
  MaxSessions,    \* sessions held in memory (max_sessions)
  None

Methods == {"new_chat", "new_acp", "prompt", "close", "delete", "kill",
            "cancel", "configure", "edit"}

Causes == {"client_rpc", "admin_kill", "session_removed"}

ASSUME RpcAssumption ==
  /\ IsFiniteSet(Requests) /\ MaxQueueDepth \in Nat /\ MaxSessions \in Nat
  /\ Opened \subseteq Sessions
  /\ Calls \subseteq Methods \X Sessions
  /\ Sessions \cap Requests = {} /\ None \notin Sessions \cup Requests
  /\ None \notin Methods \cup Causes \cup {"restorable", "killed"}
  /\ None \notin {0, 1} /\ None \notin Sessions \X {0, 1}

VARIABLES
  req,      \* each request: method, session, where it stands, what it has read
  current,  \* which slot object the queue's map has for each session, or None
  live,     \* SessionStore.sessions: the incarnation of each session
  inc,      \* each incarnation: its mode and overrides, and its agent
  lock,     \* who holds the incarnation's model_provider_update
  token,    \* cancel_tokens: the turn registered for each session
  fired,    \* the turns whose token was cancelled
  cause,    \* cancel_causes
  row,      \* the rows of the ACP session store
  cfg       \* how often a provider profile was saved

turnVars == <<token, fired, cause>>
vars == <<req, current, live, inc, lock, turnVars, row, cfg>>

\* An incarnation is named by the request that inserted it, for the generation
\* RpcSession counts; the sessions of the initial state are their own first one.
Incarnations == Requests \cup Sessions
Chat == "chat"
Acp  == "acp"

\* What a session and its agent are made with.  The agent has the provider of
\* the configuration `ver` and the model of the override `model`.
Incarnation(mode, v) ==
  [mode |-> mode, over |-> None, ver |-> v, model |-> None, born |-> cfg]

\* The slot a request is registered with, the incarnation it works with, the
\* configuration and overrides it read, the incarnation whose update lock it
\* wants, and the sessions it has listed.
Request(at) ==
  [op |-> None, sid |-> None, at |-> at, slot |-> None, seen |-> None,
   ver |-> 0, over |-> None, bound |-> None, todo |-> {}]

At(r, at) == req[r].at = at
Goto(r, at) == req' = [req EXCEPT ![r].at = at]
Sid(r) == req[r].sid
Live(s) == live[s] # None
AgentIdle(i) == \A p \in Requests : req[p].seen = i => ~At(p, "turn")

Init ==
  /\ req = [r \in Requests |-> Request("idle")]
  /\ current = [s \in Sessions |-> None]
  /\ cfg = 0
  /\ inc \in [Incarnations -> {Incarnation(m, 0) : m \in {Chat, Acp}}]
  /\ live \in [Sessions -> Sessions \cup {None}]
  /\ row \in [Sessions -> {"restorable", None}]
  /\ \A s \in Sessions : Live(s) => (inc[s].mode = Acp <=> row[s] # None)
  /\ \A i \in Incarnations : inc[i].mode = Acp => i \in Sessions /\ Live(i)
  /\ \A s \in Sessions : /\ live[s] \in {s, None}
                         /\ s \notin Opened => live[s] = None /\ row[s] = None
  /\ lock = [i \in Incarnations |-> None]
  /\ token = [s \in Sessions |-> None]
  /\ fired = {}
  /\ cause = [s \in Sessions |-> None]

-----------------------------------------------------------------------------
(* The admission queue.                                                       *)

Registered(q) == {r \in Requests : req[r].slot = q}
Waits(r) == At(r, "waiting")
Holds(r) == req[r].slot # None /\ ~Waits(r)

\* A removal signals the turn before it waits for admission, a cancellation
\* only reads the owner, and a configuration is not admitted at all.
FirstStep(m) ==
  CASE m \in {"close", "delete", "kill"} -> "signal"
    [] m \in {"new_chat", "new_acp", "prompt"} -> "acquire"
    [] m = "cancel" -> "owner"
    [] m = "configure" -> "generation"
    [] m = "edit" -> "save"

Submit(r, m, s) ==
  /\ At(r, "idle")
  /\ req' = [req EXCEPT ![r].op = m, ![r].sid = s, ![r].at = FirstStep(m)]
  /\ UNCHANGED <<current, live, inc, lock, turnVars, row, cfg>>

\* The guard's drop returns the permit and the registration.
Finish(r) == req' = [req EXCEPT ![r] = Request("done")]

\* acquire: with the map locked the slot is found, or made, and the request
\* counted; beyond the depth it is turned away.
Register(r) ==
  LET s == Sid(r)
      q == IF current[s] # None THEN current[s]
           ELSE CHOOSE n \in {0, 1} : Registered(<<s, n>>) = {} \/ n = 1
  IN  /\ At(r, "acquire")
      /\ current' = [current EXCEPT ![s] = q]
      /\ IF Cardinality(Registered(<<s, q>>)) >= MaxQueueDepth THEN Finish(r)
         ELSE req' = [req EXCEPT ![r].at = "waiting", ![r].slot = <<s, q>>]
      /\ UNCHANGED <<live, inc, lock, turnVars, row, cfg>>

FirstHeldStep(m) ==
  CASE m = "prompt" -> "token"
    [] m \in {"new_chat", "new_acp"} -> "preload"
    [] m \in {"close", "delete"} -> "remove"
    [] m = "kill" -> "tombstone"

Admit(r) ==
  /\ Waits(r) /\ \A q \in Registered(req[r].slot) : ~Holds(q)
  /\ Goto(r, FirstHeldStep(req[r].op))
  /\ UNCHANGED <<current, live, inc, lock, turnVars, row, cfg>>

LockTimeout(r) ==
  /\ Waits(r) /\ Finish(r)
  /\ UNCHANGED <<current, live, inc, lock, turnVars, row, cfg>>

\* Broken on purpose: a slot is idle when nobody has its permit for a while.
EvictIdleSlot(s) ==
  /\ current[s] # None
  /\ current' = [current EXCEPT ![s] = None]
  /\ UNCHANGED <<req, live, inc, lock, turnVars, row, cfg>>

\* evict_idle: nothing is registered with the slot.
EvictIdle(s) ==
  /\ current[s] # None /\ Registered(<<s, current[s]>>) = {}
  /\ current' = [current EXCEPT ![s] = None]
  /\ UNCHANGED <<req, live, inc, lock, turnVars, row, cfg>>

-----------------------------------------------------------------------------
(* Cancellation.                                                              *)

\* The cause is recorded and the token fired while the token map is locked.
Fire(s, c) ==
  IF token[s] = None THEN UNCHANGED <<fired, cause>>
  ELSE fired' = fired \cup {token[s]} /\ cause' = [cause EXCEPT ![s] = c]

\* signal_session_removal, signal_session_kill.
Signal(r) ==
  /\ At(r, "signal")
  /\ Fire(Sid(r), IF req[r].op = "kill" THEN "admin_kill" ELSE "session_removed")
  /\ Goto(r, "acquire")
  /\ UNCHANGED <<current, live, inc, lock, token, row, cfg>>

\* handle_session_cancel: a session that is not there has no owner, and the
\* call is refused.
CheckOwner(r) ==
  /\ At(r, "owner")
  /\ IF Live(Sid(r)) THEN Goto(r, "cancel") ELSE Finish(r)
  /\ UNCHANGED <<current, live, inc, lock, turnVars, row, cfg>>

CancelSession(r) ==
  /\ At(r, "cancel")
  /\ Fire(Sid(r), "client_rpc")
  /\ Finish(r)
  /\ UNCHANGED <<current, live, inc, lock, token, row, cfg>>

Cancel(r) == CheckOwner(r) \/ CancelSession(r)

\* SessionStore::remove and kill_session fire a token that is still there.
RemoveSession(s, c) ==
  /\ live' = [live EXCEPT ![s] = None]
  /\ token' = [token EXCEPT ![s] = None]
  /\ Fire(s, c)

-----------------------------------------------------------------------------
(* session/prompt.                                                            *)

\* register_cancel_token fires the token of an earlier turn that is there.
RegisterToken(r) ==
  /\ At(r, "token")
  /\ fired' = fired \cup ({token[Sid(r)]} \ {None})
  /\ token' = [token EXCEPT ![Sid(r)] = r]
  /\ Goto(r, "lookup")
  /\ UNCHANGED <<current, live, inc, lock, cause, row, cfg>>

\* Broken on purpose: a killed session is brought back too.
HasRow(s) == row[s] # None

\* load_session_for_restore.
Restorable(s) == row[s] = "restorable"

\* get_agent; without a session the row is read, once.  An attachment may fail.
LookupAgent(r) ==
  /\ req[r].at \in {"lookup", "rehydrated"}
  /\ \/ /\ Live(Sid(r))
        /\ req' = [req EXCEPT ![r].at = "turn", ![r].seen = live[Sid(r)]]
     \/ ~Live(Sid(r)) /\ At(r, "lookup") /\ Restorable(Sid(r)) /\ Goto(r, "rebuild")
     \/ (At(r, "lookup") => Live(Sid(r)) \/ ~Restorable(Sid(r))) /\ Goto(r, "unregister")
  /\ UNCHANGED <<current, live, inc, lock, turnVars, row, cfg>>

\* The agent is built, from the configuration of now, before the session is
\* inserted.
Build(r, next) == req' = [req EXCEPT ![r].at = next, ![r].ver = cfg]

RebuildAgent(r) ==
  /\ At(r, "rebuild")
  /\ Build(r, "rehydrate") \/ Goto(r, "unregister")
  /\ UNCHANGED <<current, live, inc, lock, turnVars, row, cfg>>

RoomForSession == Cardinality({s \in Sessions : Live(s)}) < MaxSessions

\* SessionStore::insert, for which there must be room also when it replaces a
\* session.
InsertSession(r, mode) ==
  /\ live' = [live EXCEPT ![Sid(r)] = r]
  /\ inc' = [inc EXCEPT ![r] = Incarnation(mode, req[r].ver)]

\* The end of rehydrate_reaped_session.
Rehydrate(r) ==
  /\ At(r, "rehydrate")
  /\ IF RoomForSession THEN InsertSession(r, Acp) /\ Goto(r, "rehydrated")
     ELSE Goto(r, "unregister") /\ UNCHANGED <<live, inc>>
  /\ UNCHANGED <<current, lock, turnVars, row, cfg>>

\* execute_turn: the model answers, the agent fails, or the drain saw that the
\* token was fired.
EndTurn(r) ==
  /\ At(r, "turn") /\ Goto(r, "take")
  /\ UNCHANGED <<current, live, inc, lock, turnVars, row, cfg>>

\* CancelTokenRegistration::finish drains the cause before it unregisters.
TakeCause(r) ==
  /\ At(r, "take")
  /\ cause' = [cause EXCEPT ![Sid(r)] = None]
  /\ Goto(r, "unregister")
  /\ UNCHANGED <<current, live, inc, lock, token, fired, row, cfg>>

\* remove_cancel_token leaves the token of another turn, and then the cause.
RemoveToken(r) ==
  /\ At(r, "unregister")
  /\ \/ /\ token[Sid(r)] = r
        /\ token' = [token EXCEPT ![Sid(r)] = None] /\ Goto(r, "clear")
     \/ token[Sid(r)] # r /\ Finish(r) /\ UNCHANGED token
  /\ fired' = fired \ {r}
  /\ UNCHANGED <<current, live, inc, lock, cause, row, cfg>>

\* Broken on purpose: the cause of a turn that failed is left.
KeepCause(r) ==
  /\ At(r, "clear") /\ Finish(r)
  /\ UNCHANGED <<current, live, inc, lock, turnVars, row, cfg>>

ClearCause(r) ==
  /\ At(r, "clear")
  /\ cause' = [cause EXCEPT ![Sid(r)] = None]
  /\ Finish(r)
  /\ UNCHANGED <<current, live, inc, lock, token, fired, row, cfg>>

Prompt(r) ==
  \/ RegisterToken(r) \/ LookupAgent(r) \/ RebuildAgent(r) \/ Rehydrate(r) \/ EndTurn(r)
  \/ TakeCause(r) \/ RemoveToken(r) \/ ClearCause(r)

-----------------------------------------------------------------------------
(* session/new.                                                               *)

Mode(r) == IF req[r].op = "new_acp" THEN Acp ELSE Chat

\* A resumed ACP session reads its row first; one that was killed is refused.
Preload(r) ==
  /\ At(r, "preload")
  /\ IF Mode(r) = Acp /\ row[Sid(r)] = "killed" THEN Finish(r) ELSE Goto(r, "build")
  /\ UNCHANGED <<current, live, inc, lock, turnVars, row, cfg>>

BuildAgent(r) ==
  /\ At(r, "build")
  /\ Build(r, "insert") \/ Finish(r)
  /\ UNCHANGED <<current, live, inc, lock, turnVars, row, cfg>>

InsertNew(r) ==
  /\ At(r, "insert")
  /\ IF RoomForSession THEN InsertSession(r, Mode(r)) /\ Goto(r, "in_flight")
     ELSE Finish(r) /\ UNCHANGED <<live, inc>>
  /\ UNCHANGED <<current, lock, turnVars, row, cfg>>

\* evict_same_mode_sibling lists the sessions with a turn under one lock ...
ListInFlight(r) ==
  /\ At(r, "in_flight")
  /\ req' = [req EXCEPT ![r].at = "evict", ![r].todo = {s \in Sessions : token[s] # None}]
  /\ UNCHANGED <<current, live, inc, lock, turnVars, row, cfg>>

\* ... and removes the siblings that are not in its list under another: a turn
\* may have begun in one of them in between.
EvictSiblings(r) ==
  LET siblings == {s \in Sessions \ {Sid(r)} : Live(s) /\ inc[live[s]].mode = Mode(r)}
  IN  /\ At(r, "evict")
      /\ live' = [s \in Sessions |-> IF s \in siblings \ req[r].todo THEN None ELSE live[s]]
      /\ req' = [req EXCEPT ![r].at = "load", ![r].todo = {}]
      /\ UNCHANGED <<current, inc, lock, turnVars, row, cfg>>

\* An ACP session gets its row; when that fails the session is removed again.
LoadOrCreate(r) ==
  /\ At(r, "load")
  /\ \/ /\ row' = IF Mode(r) = Acp /\ row[Sid(r)] = None
                  THEN [row EXCEPT ![Sid(r)] = "restorable"] ELSE row
        /\ UNCHANGED <<live, turnVars>>
     \/ /\ Mode(r) = Acp /\ row[Sid(r)] = None
        /\ RemoveSession(Sid(r), "session_removed") /\ UNCHANGED row
  /\ Finish(r)
  /\ UNCHANGED <<current, inc, lock, cfg>>

New(r) ==
  \/ Preload(r) \/ BuildAgent(r) \/ InsertNew(r)
  \/ ListInFlight(r) \/ EvictSiblings(r) \/ LoadOrCreate(r)

-----------------------------------------------------------------------------
(* session/close, session/delete, session/kill.                               *)

\* A deletion takes the chat transcript too; the ACP row stays.
Remove(r) ==
  /\ At(r, "remove")
  /\ RemoveSession(Sid(r), "session_removed")
  /\ Finish(r)
  /\ UNCHANGED <<current, inc, lock, row, cfg>>

\* mark_session_killed, for a session that is there; when it fails the session
\* stays.
Tombstone(r) ==
  LET acp == inc[live[Sid(r)]].mode = Acp
  IN  /\ At(r, "tombstone")
      /\ \/ /\ Live(Sid(r)) /\ Goto(r, "kill")
            /\ row' = IF acp /\ row[Sid(r)] # None
                      THEN [row EXCEPT ![Sid(r)] = "killed"] ELSE row
         \/ (Live(Sid(r)) => acp) /\ Finish(r) /\ UNCHANGED row
      /\ UNCHANGED <<current, live, inc, lock, turnVars, cfg>>

KillSession(r) ==
  /\ At(r, "kill")
  /\ RemoveSession(Sid(r), "admin_kill")
  /\ Finish(r)
  /\ UNCHANGED <<current, inc, lock, row, cfg>>

Removal(r) == Signal(r) \/ Remove(r) \/ Tombstone(r) \/ KillSession(r)

-----------------------------------------------------------------------------
(* session/configure, and the refresh that follows a saved provider profile.  *)

Refreshes(r) == req[r].op = "edit"

\* handle_config_set saves the profile and starts the refresh.
SaveProfile(r) ==
  /\ At(r, "save")
  /\ cfg' = cfg + 1
  /\ Goto(r, "list")
  /\ UNCHANGED <<current, live, inc, lock, turnVars, row>>

ListSessions(r) ==
  /\ At(r, "list")
  /\ req' = [req EXCEPT ![r].at = "next", ![r].todo = {s \in Sessions : Live(s)}]
  /\ UNCHANGED <<current, live, inc, lock, turnVars, row, cfg>>

NextSession(r) ==
  /\ At(r, "next")
  /\ \/ req[r].todo = {} /\ Finish(r)
     \/ \E s \in req[r].todo :
          req' = [req EXCEPT ![r] = [Request("generation") EXCEPT !.op = "edit",
                                       !.sid = s, !.todo = req[r].todo \ {s}]]
  /\ UNCHANGED <<current, live, inc, lock, turnVars, row, cfg>>

\* Broken on purpose: a refresh ends at the first session that is gone.
GiveUpAll(r) == Finish(r)

\* A configuration is answered "not found", a refresh goes to the next session.
GiveUp(r) == IF Refreshes(r) THEN Goto(r, "next") ELSE Finish(r)
Unlock(r) == lock' = [lock EXCEPT ![req[r].bound] = None]

\* Broken on purpose: any session of that id will do.
StillLive(r) == Live(Sid(r))

\* The session is the incarnation whose generation the request has read.
SameIncarnation(r) == live[Sid(r)] = req[r].seen

\* get_generation.
ReadGeneration(r) ==
  /\ At(r, "generation")
  /\ IF Live(Sid(r)) THEN req' = [req EXCEPT ![r].at = "lock", ![r].seen = live[Sid(r)]]
     ELSE GiveUp(r)
  /\ UNCHANGED <<current, live, inc, lock, turnVars, row, cfg>>

\* lock_model_provider_update: the lock is that of the incarnation of now,
\* which may be another than the one whose generation was read ...
FetchLock(r) ==
  /\ At(r, "lock")
  /\ IF Live(Sid(r)) THEN req' = [req EXCEPT ![r].at = "locking", ![r].bound = live[Sid(r)]]
     ELSE GiveUp(r)
  /\ UNCHANGED <<current, live, inc, lock, turnVars, row, cfg>>

\* Broken on purpose: nobody waits for the lock.
ShareLock(r) ==
  /\ At(r, "locking") /\ Goto(r, "verify")
  /\ lock' = [lock EXCEPT ![req[r].bound] = r]
  /\ UNCHANGED <<current, live, inc, turnVars, row, cfg>>

TakeLock(r) ==
  /\ At(r, "locking") /\ lock[req[r].bound] = None
  /\ lock' = [lock EXCEPT ![req[r].bound] = r]
  /\ Goto(r, "verify")
  /\ UNCHANGED <<current, live, inc, turnVars, row, cfg>>

\* ... so that the generation is read again.
VerifyGeneration(r) ==
  /\ At(r, "verify")
  /\ \/ SameIncarnation(r) /\ Goto(r, "provider") /\ UNCHANGED lock
     \/ ~SameIncarnation(r) /\ GiveUp(r) /\ Unlock(r)
  /\ UNCHANGED <<current, live, inc, turnVars, row, cfg>>

\* The provider is built from the overrides and the configuration of now.  The
\* override of a configuration is named by the incarnation it is for and the
\* request; a provider that it cannot have makes it fail.
BuildProvider(r) ==
  /\ At(r, "provider")
  /\ \/ /\ Live(Sid(r)) /\ UNCHANGED lock
        /\ req' = [req EXCEPT ![r].at = IF Refreshes(r) THEN "apply" ELSE "override",
                     ![r].ver = cfg,
                     ![r].over = IF Refreshes(r) THEN inc[live[Sid(r)]].over
                                 ELSE <<req[r].seen, r>>]
     \/ (Refreshes(r) => ~Live(Sid(r))) /\ GiveUp(r) /\ Unlock(r)
  /\ UNCHANGED <<current, live, inc, turnVars, row, cfg>>

\* set_overrides_gated: the entry changes with the map locked, the agent after
\* that, when no turn has it.
SetOverrides(r) ==
  /\ At(r, "override")
  /\ \/ /\ SameIncarnation(r)
        /\ inc' = [inc EXCEPT ![live[Sid(r)]].over = req[r].over]
        /\ Goto(r, "model") /\ UNCHANGED lock
     \/ ~SameIncarnation(r) /\ GiveUp(r) /\ Unlock(r) /\ UNCHANGED inc
  /\ UNCHANGED <<current, live, turnVars, row, cfg>>

SetModelName(r) ==
  /\ At(r, "model") /\ AgentIdle(req[r].seen)
  /\ inc' = [inc EXCEPT ![req[r].seen].model = req[r].over]
  /\ Goto(r, "apply")
  /\ UNCHANGED <<current, live, lock, turnVars, row, cfg>>

\* apply_model_provider: the agent is taken when the generation still is the
\* one that was read, and changed when no turn has it.
ApplyModelProvider(r) ==
  /\ At(r, "apply")
  /\ \/ SameIncarnation(r) /\ Goto(r, "swap") /\ UNCHANGED lock
     \/ ~SameIncarnation(r) /\ GiveUp(r) /\ Unlock(r)
  /\ UNCHANGED <<current, live, inc, turnVars, row, cfg>>

SwapProvider(r) ==
  /\ At(r, "swap") /\ AgentIdle(req[r].seen)
  /\ inc' = [inc EXCEPT ![req[r].seen].ver = req[r].ver, ![req[r].seen].model = req[r].over]
  /\ GiveUp(r) /\ Unlock(r)
  /\ UNCHANGED <<current, live, turnVars, row, cfg>>

Update(r) ==
  \/ SaveProfile(r) \/ ListSessions(r) \/ NextSession(r)
  \/ ReadGeneration(r) \/ FetchLock(r) \/ TakeLock(r) \/ VerifyGeneration(r)
  \/ BuildProvider(r) \/ SetOverrides(r) \/ SetModelName(r)
  \/ ApplyModelProvider(r) \/ SwapProvider(r)

-----------------------------------------------------------------------------

Next ==
  \/ \E r \in Requests, c \in Calls : Submit(r, c[1], c[2])
  \/ \E r \in Requests :
       \/ Register(r) \/ Admit(r) \/ LockTimeout(r)
       \/ Cancel(r) \/ Prompt(r) \/ New(r) \/ Removal(r) \/ Update(r)
  \/ \E s \in Sessions : EvictIdle(s)

Spec == Init /\ [][Next]_vars

-----------------------------------------------------------------------------

States ==
  {"idle", "done", "acquire", "waiting", "signal", "owner", "cancel",
   "token", "lookup", "rebuild", "rehydrate", "rehydrated", "turn", "take",
   "unregister", "clear", "preload", "build", "insert", "in_flight", "evict", "load",
   "remove", "tombstone", "kill",
   "save", "list", "next", "generation", "lock", "locking", "verify", "provider",
   "override", "model", "apply", "swap"}

Override == (Incarnations \X Requests) \cup {None}

\* The variables hold what the code stores in them.
TypeOK ==
  /\ req \in [Requests -> [op : Methods \cup {None}, sid : Sessions \cup {None}, at : States,
                slot : (Sessions \X {0, 1}) \cup {None}, seen : Incarnations \cup {None},
                ver : Nat, over : Override, bound : Incarnations \cup {None},
                todo : SUBSET Sessions]]
  /\ current \in [Sessions -> {0, 1, None}]
  /\ live \in [Sessions -> Incarnations \cup {None}]
  /\ inc \in [Incarnations -> [mode : {Chat, Acp}, over : Override, ver : Nat,
                               model : Override, born : Nat]]
  /\ lock \in [Incarnations -> Requests \cup {None}]
  /\ token \in [Sessions -> Requests \cup {None}] /\ fired \subseteq Requests
  /\ cause \in [Sessions -> Causes \cup {None}]
  /\ row \in [Sessions -> {"restorable", "killed", None}]
  /\ cfg \in Nat

\* What a session's permit protects (a turn with its durable writes, a
\* replacement, a removal) is done by one request at a time, also when the idle
\* slot of the session was evicted and a new one made in between
\* (session_queue.rs, registration_and_eviction_are_atomic).
OneRequestHoldsSession ==
  \A q, r \in Requests : Holds(q) /\ Holds(r) /\ Sid(q) = Sid(r) => q = r

\* A turn finds a cause exactly when its own token was fired, and never one
\* that was left by an earlier turn (take_cancel_cause).
CauseIsOfThisTurn ==
  \A r \in Requests :
    req[r].at \in {"lookup", "rebuild", "rehydrate", "rehydrated", "turn", "take"} =>
      (r \in fired <=> cause[Sid(r)] # None)

\* A session whose row has the mark of an administrative kill is not brought
\* back as an ACP session, by a prompt or by session/new; it is in memory only
\* until the kill that marked it has removed it.
KilledStaysDead ==
  \A s \in Sessions : row[s] = "killed" /\ Live(s) /\ inc[live[s]].mode = Acp =>
    \E r \in Requests : Sid(r) = s /\ At(r, "kill")

\* A configuration changes the incarnation it was called for, never one that
\* took its session id in the meantime (set_overrides_gated).
ConfiguresItsIncarnation ==
  \A i \in Incarnations : inc[i].over # None => inc[i].over[1] = i

\* While nobody holds a session's update lock its agent has the model that its
\* overrides name, whatever configurations and refreshes came together.
AgentHasOverrides ==
  \A s \in Sessions : Live(s) /\ lock[live[s]] = None =>
    inc[live[s]].model = inc[live[s]].over

\* When the refreshes and configurations are over, every session that was
\* there when a profile was last saved has the provider of that profile.
EditsReachSessions ==
  (\A r \in Requests : req[r].op \notin {"edit", "configure"}) =>
    \A s \in Sessions : Live(s) /\ inc[live[s]].born < cfg => inc[live[s]].ver = cfg
=============================================================================
