-------------------------- MODULE ConnectionRefines --------------------------
(***************************************************************************)
(* Connection implements ConnLifecycle: the phase of a connection is read  *)
(* off its memory and its state, the three handles, the pending counts,    *)
(* the writes and the exchange behind it are implementation detail.        *)
(***************************************************************************)
EXTENDS Connection

Phase(r) ==
  CASE r.mem \in {"none", "discarded"} -> "unused"
    [] r.mem = "allocated" /\ r.state # "CLOSING" -> "open"
    [] r.mem = "allocated" /\ r.state = "CLOSING" -> "closing"
    [] r.mem = "freed" -> "released"

Lifecycle == INSTANCE ConnLifecycle
  WITH Limit <- MaxConnections, phase <- [c \in Conns |-> Phase(conn[c])]

\* Every behaviour of the connection layer, with the fairness libuv gives it,
\* is a behaviour of the abstract life cycle: uvhttp_connection_close,
\* on_handle_close and connection_timeout_cb together open below the limit,
\* close once, release once and always finish.
LifecycleSpec == Lifecycle!Spec
=============================================================================
