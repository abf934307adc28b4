---------------------------- MODULE ConnLifecycle ----------------------------
(***************************************************************************)
(* What the connection layer promises, without handles, counters or        *)
(* callbacks: a connection is opened while fewer than Limit exist, at some *)
(* point it starts to close, and it is then released, once and for good.   *)
(* ConnectionRefines shows that Connection implements this.                *)
(***************************************************************************)
EXTENDS Naturals, FiniteSets

CONSTANTS Conns, Limit

VARIABLE phase

Existing == {c \in Conns : phase[c] \in {"open", "closing"}}

Init == phase = [c \in Conns |-> "unused"]

\* A client is accepted; the connection may be unusable from the start.
Open(c) ==
  /\ phase[c] = "unused" /\ Cardinality(Existing) < Limit
  /\ \E p \in {"open", "closing"} : phase' = [phase EXCEPT ![c] = p]

BeginClose(c) ==
  phase[c] = "open" /\ phase' = [phase EXCEPT ![c] = "closing"]

Release(c) ==
  phase[c] = "closing" /\ phase' = [phase EXCEPT ![c] = "released"]

Next == \E c \in Conns : Open(c) \/ BeginClose(c) \/ Release(c)

\* Without fairness: what a connection may do, though not that it ends.
Safe == Init /\ [][Next]_phase

\* Every connection ends: the timeout closes it and libuv closes its handles.
Spec ==
  /\ Safe
  /\ \A c \in Conns : WF_phase(BeginClose(c)) /\ WF_phase(Release(c))
=============================================================================
