--------------------------- MODULE LruCacheRefines ---------------------------
(* The pointer-based cache of LruCache implements the sequence of          *)
(* RecencyList.                                                            *)
EXTENDS LruCache

\* The n entries read from the head of L along the next pointers.
Along(L, n) ==
  LET at[k \in 1 .. n] == IF k = 1 THEN L.head
                          ELSE IF at[k-1] = NULL THEN NULL ELSE L.next[at[k-1]]
  IN  at

Order == Along(Links, Cardinality(hash))

Shield == {p \in hash : Protected(p)}

Recency == INSTANCE RecencyList WITH
  Items <- Paths, None <- NULL, order <- Order, shield <- Shield,
  used <- returned, victim <- evicted

\* Every call of the cache, whatever the limits, priorities and expiry do, is
\* a use, a discard, an eviction behind which everything is protected, or a
\* reset of the sequence the pointers spell out.
RecencySpec == Recency!Spec
=============================================================================
