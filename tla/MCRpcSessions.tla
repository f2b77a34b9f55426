--------------------------- MODULE MCRpcSessions ---------------------------
(* Instances of RpcSessions for TLC. *)
EXTENDS RpcSessions, TLC

CONSTANTS main, sibling

RequestsAlike == Permutations(Requests)

\* Everything is called for one session, and for its sibling what may evict it.
CallsOfOne ==
  ((Methods \ {"edit"}) \X {main})
    \cup {<<"new_chat", sibling>>, <<"new_acp", sibling>>, <<"edit", sibling>>}
=============================================================================
