------------------------------ MODULE GzipCache ------------------------------
(***************************************************************************)
(* The cache of compressed response bodies (uvhttp_gzip_cache.c), which    *)
(* every response of a server borrows: an array of slots searched from the *)
(* front, a memory budget, a limit on the entries and a time to live.      *)
(*                                                                         *)
(* The operations are functions of the cache.  An entry's key stands for   *)
(* the 64-bit hash and the length of the body.  last_used only orders the  *)
(* entries, so that order is what is kept, as a relation; stored_at only   *)
(* matters up to the largest TTL, so the age is counted that far.  The     *)
(* counters of the statistics are left out.                                *)
(***************************************************************************)
EXTENDS Integers, Sequences, FiniteSets, FiniteSetsExt

CONSTANTS
  GzOverhead,  \* GZIP_CACHE_ENTRY_OVERHEAD
  GzDefaultEntries, GzDefaultMemory,
  GzMaxTTL     \* no TTL in use is larger

ASSUME GzipAssumption ==
  /\ GzOverhead \in Nat /\ GzMaxTTL \in Nat
  /\ GzDefaultEntries \in Nat \ {0} /\ GzDefaultMemory \in Nat \ {0}

\* A slot that is not valid.
GzNoEntry == [key |-> "none", len |-> 0, age |-> 0]

\* uvhttp_gzip_cache_create
GzCreate(max_memory_usage, max_entries, cache_ttl) ==
  LET n == IF max_entries = 0 THEN GzDefaultEntries ELSE max_entries IN
  [slots |-> [i \in 1 .. n |-> GzNoEntry],
   older |-> {},                          \* <<i, j>>: last_used of slot i is less than that of j
   max_entries |-> n,
   max_memory |-> IF max_memory_usage = 0 THEN GzDefaultMemory ELSE max_memory_usage,
   total |-> 0, ttl |-> cache_ttl]

\* The slots in use.
GzValid(c) == {i \in DOMAIN c.slots : c.slots[i] # GzNoEntry}

\* gzip_cache_entry_count
GzCount(c) == Cardinality(GzValid(c))

\* What the slots of S count for in total_memory.
GzMemory(c, S) == SumFunctionOnSet([i \in S |-> c.slots[i].len + GzOverhead], S)

\* The slots of S are freed, as eviction and expiry do one by one.
GzFree(c, S) ==
  [c EXCEPT !.slots = [i \in DOMAIN @ |-> IF i \in S THEN GzNoEntry ELSE @[i]],
            !.total = @ - GzMemory(c, S),
            !.older = {p \in @ : p[1] \notin S /\ p[2] \notin S}]

\* The victims of gzip_cache_evict_one, called k times: each has the least
\* last_used of those left.
GzOldest(c, k) ==
  {i \in GzValid(c) : Cardinality({j \in GzValid(c) : <<j, i>> \in c.older}) < k}

GzEvict(c, k) == GzFree(c, GzOldest(c, k))

\* The eviction loops: while the bodies take more than memory, or there are more
\* than entries of them, and one is left.
GzEvictDownTo(c, memory, entries) ==
  GzEvict(c, Min({k \in 0 .. GzCount(c) :
                    \/ k = GzCount(c)
                    \/ GzEvict(c, k).total <= memory /\ GzCount(GzEvict(c, k)) <= entries}))

\* Slot i was used: last_used = ++tick.
GzTouch(c, i) ==
  [c EXCEPT !.older = {p \in @ : p[1] # i} \cup {<<j, i>> : j \in GzValid(c) \ {i}}]

\* uvhttp_gzip_cache_clear
GzClear(c) ==
  [c EXCEPT !.slots = [i \in DOMAIN @ |-> GzNoEntry], !.older = {}, !.total = 0]

GzExpired(c, i) == c.ttl > 0 /\ c.slots[i] # GzNoEntry /\ c.slots[i].age > c.ttl

\* The slots that hold a body and are not expired: one at most.
GzHolding(c, key) == {i \in DOMAIN c.slots : c.slots[i].key = key /\ ~GzExpired(c, i)}

\* uvhttp_gzip_cache_find: the scan frees the expired entries it passes, up to
\* the one it returns.
GzFind(c, key) ==
  LET hits == GzHolding(c, key)
      upto == IF hits = {} THEN Len(c.slots) ELSE Min(hits)
      swept == GzFree(c, {i \in 1 .. upto : GzExpired(c, i)})
  IN  [cache |-> IF hits = {} THEN swept ELSE GzTouch(swept, upto),
       slot |-> IF hits = {} THEN 0 ELSE upto]

\* The body is stored in slot i.
GzStore(c, i, key, len) ==
  GzTouch([c EXCEPT !.slots[i] = [key |-> key, len |-> len, age |-> 0],
                  !.total = @ + len + GzOverhead], i)

\* A body that is cached already is replaced, expired or not.
GzReplace(c, i, key, len) ==
  GzStore([c EXCEPT !.total = @ - (c.slots[i].len + GzOverhead)], i, key, len)

\* Mutant: the limit of the entries is checked only for more than the limit.
GzMakeRoomLate(c, len) == GzEvictDownTo(c, c.max_memory - len, c.max_entries)

\* The two eviction loops of a put.
GzMakeRoom(c, len) == GzEvictDownTo(c, c.max_memory - len, c.max_entries - 1)

\* uvhttp_gzip_cache_put; mem: the copy can be allocated.  What was evicted
\* before the allocation failed stays evicted.
GzPut(c, key, len, mem) ==
  LET same == {i \in DOMAIN c.slots : c.slots[i].key = key}
      roomy == GzMakeRoom(c, len)
      free == {i \in DOMAIN roomy.slots : roomy.slots[i] = GzNoEntry}
  IN  CASE len > c.max_memory -> c
        [] len <= c.max_memory /\ same # {} ->
             IF mem THEN GzReplace(c, Min(same), key, len) ELSE c
        [] OTHER -> IF free # {} /\ mem THEN GzStore(roomy, Min(free), key, len)
                    ELSE roomy

\* uvhttp_gzip_cache_set_max_entries
GzSetMaxEntries(c, n, mem) ==
  LET grown == [c EXCEPT !.slots = [i \in 1 .. n |-> IF i <= Len(@) THEN @[i] ELSE GzNoEntry]]
      large == IF n > Len(c.slots) THEN grown ELSE c
  IN  IF n > Len(c.slots) /\ ~mem THEN c
      ELSE GzEvictDownTo([large EXCEPT !.max_entries = n], c.total, n)

\* uvhttp_gzip_cache_set_max_memory_usage
GzSetMaxMemory(c, n) ==
  GzEvictDownTo([c EXCEPT !.max_memory = n], n, GzCount(c))

\* uvhttp_gzip_cache_set_cache_ttl
GzSetTTL(c, t) == [c EXCEPT !.ttl = t]

\* A second passes.
GzAged(e) == [e EXCEPT !.age = IF @ > GzMaxTTL THEN @ ELSE @ + 1]

GzAge(c) ==
  [c EXCEPT !.slots = [i \in DOMAIN @ |-> IF @[i] = GzNoEntry THEN GzNoEntry ELSE GzAged(@[i])]]

-----------------------------------------------------------------------------

\* R orders S, strictly and without ties.
GzOrders(R, S) ==
  /\ R \subseteq S \X S
  /\ \A i \in S : <<i, i>> \notin R
  /\ \A i, j \in S : i # j => (<<i, j>> \in R <=> <<j, i>> \notin R)
  /\ \A i, j, k \in S : <<i, j>> \in R /\ <<j, k>> \in R => <<i, k>> \in R

\* The total that the budget is compared with is the memory of the entries, no
\* matter in which order they were replaced, evicted, expired and moved to a
\* larger array; there are never more of them than allowed, no body is there
\* twice, and their last uses order just them.
GzAccounted(c) ==
  /\ c.total = GzMemory(c, GzValid(c))
  /\ GzCount(c) <= c.max_entries
  /\ \A i, j \in GzValid(c) : c.slots[i].key = c.slots[j].key => i = j
  /\ GzOrders(c.older, GzValid(c))

=============================================================================
