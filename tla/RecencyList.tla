----------------------------- MODULE RecencyList -----------------------------
(***************************************************************************)
(* What a least-recently-used cache promises, without pointers: the cached *)
(* paths form a sequence, most recently used first; a use brings a path to *)
(* the front, and an eviction takes a path behind which there are only     *)
(* shielded ones.                                                          *)
(***************************************************************************)
EXTENDS Naturals, Sequences, SequencesExt

CONSTANTS Items, None

VARIABLES
  order,   \* cached paths, most recently used first
  shield,  \* paths whose priority protects them at present
  used,    \* the path the last step found or stored, or None
  victim   \* the path evicted by the last step, or None

Init == order = <<>> /\ shield \subseteq Items /\ used = None /\ victim = None

\* The first use of a path, or another one.
Use(p) ==
  /\ \/ (\A i \in 1 .. Len(order) : order[i] # p) /\ order' = <<p>> \o order
     \/ \E i \in 1 .. Len(order) : order[i] = p /\ order' = <<p>> \o RemoveAt(order, i)
  /\ used' = p /\ victim' = None

Discard(i) == order' = RemoveAt(order, i) /\ used' = None /\ victim' = None

Evict(i) ==
  /\ \A j \in i + 1 .. Len(order) : order[j] \in shield
  /\ order' = RemoveAt(order, i)
  /\ used' = None /\ victim' = order[i]

Empty == order' = <<>> /\ used' = None /\ victim' = None

Next ==
  /\ shield' \in SUBSET Items
  /\ \/ \E p \in Items : Use(p)
     \/ \E i \in 1 .. Len(order) : Discard(i) \/ Evict(i)
     \/ Empty
     \/ order' = order /\ used' = None /\ victim' = None

Spec == Init /\ [][Next]_<<order, shield, used, victim>>
=============================================================================
