------------------------------- MODULE LruCache -------------------------------
(***************************************************************************)
(* The static file cache of uvhttp_lru_cache.c: a hash table of entries    *)
(* that are also threaded, by pointers, on a doubly linked list from the   *)
(* most to the least recently used.                                        *)
(*                                                                         *)
(* The cache is single-threaded: a call runs to its end before the next.   *)
(* The calls that loop over the list (put, force_eviction and              *)
(* cleanup_expired) take one action per iteration, with `op' holding their *)
(* local variables; every other call waits for op to be Idle.  An entry is *)
(* identified by its path, a NULL pointer is the value NULL.  What an      *)
(* entry's content is does not matter, only whether there is any; its size *)
(* is memory_usage, the struct included.  Statistics, mime types and etags *)
(* are left out.                                                           *)
(***************************************************************************)
EXTENDS Integers, FiniteSets, FiniteSetsExt

CONSTANTS
  Paths,         \* file paths
  NULL,          \* the null pointer
  Usages,        \* values of memory_usage that put computes
  MemoryLimits,  \* values the embedder sets for max_memory_usage (0: none)
  EntryLimits,   \* ... max_entries (0: none)
  TTLs,          \* ... cache_ttl (0: entries do not expire)
  PriorityModes, \* ... enable_priority_eviction
  Thresholds,    \* ... min_priority_threshold
  Priorities,    \* ... the priority of an entry
  SizeMod,       \* number of values of size_t
  StartTime,     \* the clock when the cache is created, far from the epoch
  MaxTime,       \* bound: the clock stops here
  MaxForce,      \* bound: largest count given to force_eviction
  Env            \* {"alloc_fail", "cleanup"}: behaviours a run includes

ASSUME CacheAssumption ==
  /\ NULL \notin Paths
  /\ SizeMod \in Nat \ {0} /\ Usages \subseteq 1 .. SizeMod - 1
  /\ MemoryLimits \subseteq Nat /\ EntryLimits \subseteq Nat /\ TTLs \subseteq Nat
  /\ PriorityModes \subseteq BOOLEAN /\ Thresholds \subseteq Nat
  /\ Priorities \subseteq Nat /\ 0 \in Priorities
  /\ StartTime \in Nat /\ \A t \in TTLs : t < StartTime
  /\ MaxTime \in Nat /\ MaxForce \in Nat
  /\ Env \subseteq {"alloc_fail", "cleanup"}

VARIABLES
  hash,                \* the paths in cache->hash_table
  entry,               \* the data of each entry
  lru_head, lru_tail,  \* cache->lru_head, cache->lru_tail
  lru_prev, lru_next,  \* the list pointers of each entry
  total_memory_usage,
  entry_count,
  config,              \* the limits set by the embedder
  now,                 \* the wall clock
  op,                  \* locals of the call in progress
  returned,            \* the entry the last step found or stored
  evicted              \* the entry it gave to the eviction callback

links == <<lru_head, lru_tail, lru_prev, lru_next>>
store == <<hash, entry, total_memory_usage, entry_count>>
vars == <<hash, entry, lru_head, lru_tail, lru_prev, lru_next,
          total_memory_usage, entry_count, config, now, op, returned, evicted>>

PathOrNull == Paths \cup {NULL}

NoPriority == -1   \* a plain put leaves the priority alone

EntryType == [memory_usage : Nat, content : BOOLEAN, cache_time : Nat, priority : Nat]

ConfigType == [max_memory_usage : MemoryLimits, max_entries : EntryLimits,
               cache_ttl : TTLs, enable_priority_eviction : BOOLEAN,
               min_priority_threshold : Thresholds]

OpType == [call : {"none", "put", "force", "cleanup"}, path : PathOrNull,
           usage : Nat, priority : Int, cursor : PathOrNull, count : Nat]

NoEntry == [memory_usage |-> 0, content |-> FALSE, cache_time |-> 0, priority |-> 0]

NoOp == [call |-> "none", path |-> NULL, usage |-> 0, priority |-> NoPriority,
         cursor |-> NULL, count |-> 0]

Init ==
  /\ hash = {} /\ entry = [p \in Paths |-> NoEntry]
  /\ lru_head = NULL /\ lru_tail = NULL
  /\ lru_prev = [p \in Paths |-> NULL] /\ lru_next = [p \in Paths |-> NULL]
  /\ total_memory_usage = 0 /\ entry_count = 0
  /\ config \in [max_memory_usage : MemoryLimits, max_entries : EntryLimits,
                 cache_ttl : TTLs, enable_priority_eviction : PriorityModes,
                 min_priority_threshold : Thresholds]
  /\ now = StartTime /\ op = NoOp
  /\ returned = NULL /\ evicted = NULL

-----------------------------------------------------------------------------
(* List surgery, on a record of the four pointers.                         *)

Links == [head |-> lru_head, tail |-> lru_tail, prev |-> lru_prev, next |-> lru_next]

Become(L) ==
  /\ lru_head' = L.head /\ lru_tail' = L.tail
  /\ lru_prev' = L.prev /\ lru_next' = L.next

\* Assignment through the pointer p, which may be NULL (then to nothing).
Set(f, p, v) == [q \in Paths |-> IF q = p THEN v ELSE f[q]]

\* The entry's own pointers are cleared, or die with it.
Detached(L, p) == [head |-> L.head, tail |-> L.tail,
                   prev |-> Set(L.prev, p, NULL), next |-> Set(L.next, p, NULL)]

\* "Remove from LRU list" of cleanup_expired: head and tail change places.
CleanupUnlink(L, p) ==
  LET a == L.prev[p]  b == L.next[p]
  IN  Detached([head |-> IF b = NULL THEN a ELSE L.head,
                tail |-> IF a = NULL THEN b ELSE L.tail,
                next |-> Set(L.next, a, b),
                prev |-> Set(L.prev, b, a)], p)

\* Mutant: removing the tail forgets to move lru_tail.
UnlinkKeepsTail(L, p) ==
  LET a == L.prev[p]  b == L.next[p]
  IN  Detached([L EXCEPT !.head = IF a = NULL THEN b ELSE @,
                         !.next = Set(@, a, b), !.prev = Set(@, b, a)], p)

\* "Remove from LRU list" of remove, remove_lowest_priority and move_to_head.
Unlink(L, p) ==
  LET a == L.prev[p]  b == L.next[p]
  IN  Detached([head |-> IF a = NULL THEN b ELSE L.head,
                tail |-> IF b = NULL THEN a ELSE L.tail,
                next |-> Set(L.next, a, b),
                prev |-> Set(L.prev, b, a)], p)

\* uvhttp_lru_cache_remove_tail, of a non-empty list.
RemoveTail(L) ==
  LET a == L.prev[L.tail]
  IN  Detached([head |-> IF a = NULL THEN NULL ELSE L.head,
                tail |-> a,
                next |-> Set(L.next, a, NULL),
                prev |-> L.prev], L.tail)

PushHead(L, p) ==
  [head |-> p,
   tail |-> IF L.tail = NULL THEN p ELSE L.tail,
   next |-> Set(L.next, p, L.head),
   prev |-> Set(Set(L.prev, p, NULL), L.head, p)]

\* Mutant: a find does not move the entry it finds.
StayInPlace(L, p) ==
  IF p = L.head \/ L.next[p] # NULL \/ L.tail = p THEN L ELSE PushHead(L, p)

\* uvhttp_lru_cache_move_to_head.
MoveToHead(L, p) ==
  IF p = L.head THEN L
  ELSE IF L.prev[p] = NULL /\ L.head # NULL THEN PushHead(L, p)
  ELSE PushHead(Unlink(L, p), p)

-----------------------------------------------------------------------------
(* Calls without a loop.                                                   *)

\* What the caller and the eviction callback see of a step.
Silent == returned' = NULL /\ evicted' = NULL
Returns(p) == returned' = p /\ evicted' = NULL
Evicts(p) == returned' = NULL /\ evicted' = p

\* size_t arithmetic.
Minus(a, b) == (a - b) % SizeMod
Plus(a, b) == (a + b) % SizeMod

Idle == op.call = "none"

Expired(p) ==
  config.cache_ttl > 0 /\ now - entry[p].cache_time > config.cache_ttl

\* Mutants: an entry is not subtracted from entry_count; its memory is not
\* given back.
DropUncounted(p) ==
  /\ hash' = hash \ {p}
  /\ entry' = [entry EXCEPT ![p] = NoEntry]
  /\ total_memory_usage' = Minus(total_memory_usage, entry[p].memory_usage)
  /\ UNCHANGED entry_count

DropLeaks(p) ==
  /\ hash' = hash \ {p}
  /\ entry' = [entry EXCEPT ![p] = NoEntry]
  /\ entry_count' = entry_count - 1
  /\ UNCHANGED total_memory_usage

\* HASH_DEL, the statistics and free_cache_entry.
Drop(p) ==
  /\ hash' = hash \ {p}
  /\ entry' = [entry EXCEPT ![p] = NoEntry]
  /\ total_memory_usage' = Minus(total_memory_usage, entry[p].memory_usage)
  /\ entry_count' = entry_count - 1

\* The body of uvhttp_lru_cache_remove.
RemoveEntry(p) == Drop(p) /\ Become(Unlink(Links, p))

\* uvhttp_lru_cache_remove.
Remove(p) ==
  /\ Idle /\ p \in hash
  /\ RemoveEntry(p)
  /\ Silent /\ UNCHANGED <<config, now, op>>

\* uvhttp_lru_cache_find, also as called by get_entry_priority and by
\* set_entry_priority of an expired entry.  A miss
\* changes only statistics.
Find(p) ==
  /\ Idle /\ p \in hash
  /\ IF Expired(p) THEN RemoveEntry(p) /\ Silent
     ELSE Become(MoveToHead(Links, p)) /\ Returns(p) /\ UNCHANGED store
  /\ UNCHANGED <<config, now, op>>

\* uvhttp_lru_cache_set_entry_priority, and prewarm of a path that is cached:
\* find, the new priority, and move_to_head once more.
SetEntryPriority(p, pr) ==
  /\ Idle /\ p \in hash /\ ~Expired(p)
  /\ entry' = [entry EXCEPT ![p].priority = pr]
  /\ Become(MoveToHead(MoveToHead(Links, p), p))
  /\ Returns(p)
  /\ UNCHANGED <<hash, total_memory_usage, entry_count, config, now, op>>

\* uvhttp_lru_cache_clear.
Clear ==
  /\ Idle
  /\ hash' = {} /\ entry' = [p \in Paths |-> NoEntry]
  /\ Become([head |-> NULL, tail |-> NULL, prev |-> [p \in Paths |-> NULL],
             next |-> [p \in Paths |-> NULL]])
  /\ total_memory_usage' = 0 /\ entry_count' = 0
  /\ Silent /\ UNCHANGED <<config, now, op>>

\* The setters assign one field; none of them evicts.
Configure ==
  /\ Idle
  /\ \/ \E v \in MemoryLimits : config' = [config EXCEPT !.max_memory_usage = v]
     \/ \E v \in EntryLimits : config' = [config EXCEPT !.max_entries = v]
     \/ \E v \in TTLs : config' = [config EXCEPT !.cache_ttl = v]
     \/ \E v \in PriorityModes : config' = [config EXCEPT !.enable_priority_eviction = v]
     \/ \E v \in Thresholds : config' = [config EXCEPT !.min_priority_threshold = v]
  /\ Silent
  /\ UNCHANGED store /\ UNCHANGED links /\ UNCHANGED <<now, op>>

Tick ==
  /\ Idle /\ now < MaxTime
  /\ now' = now + 1
  /\ Silent
  /\ UNCHANGED store /\ UNCHANGED links /\ UNCHANGED <<config, op>>

-----------------------------------------------------------------------------
(* uvhttp_lru_cache_put.                                                   *)

\* Mutant: the limit on entries is checked one too late.
NeedsRoomLate ==
  \/ /\ config.max_memory_usage > 0
     /\ 10 * Plus(total_memory_usage, op.usage) > 9 * config.max_memory_usage
  \/ config.max_entries > 0 /\ entry_count > config.max_entries

\* The loop condition of put: 90% of the memory, all of the entries.
NeedsRoom ==
  \/ /\ config.max_memory_usage > 0
     /\ 10 * Plus(total_memory_usage, op.usage) > 9 * config.max_memory_usage
  \/ config.max_entries > 0 /\ entry_count >= config.max_entries

Protected(p) ==
  config.enable_priority_eviction /\ entry[p].priority >= config.min_priority_threshold

\* put (pr = NoPriority), or prewarm of a path that is not cached: the find
\* prewarm begins with removes an expired entry.
PutCall(p, u, pr) ==
  /\ Idle
  /\ IF pr = NoPriority \/ p \notin hash THEN UNCHANGED store /\ UNCHANGED links
     ELSE Expired(p) /\ RemoveEntry(p)
  /\ op' = [call |-> "put", path |-> p, usage |-> u, priority |-> pr,
            cursor |-> lru_tail', count |-> 0]
  /\ Silent
  /\ UNCHANGED <<config, now>>

\* remove_lowest_priority walks over a protected entry.
PutSkip ==
  /\ op.call = "put" /\ NeedsRoom /\ op.cursor # NULL /\ Protected(op.cursor)
  /\ op' = [op EXCEPT !.cursor = lru_prev[op.cursor]]
  /\ Silent
  /\ UNCHANGED store /\ UNCHANGED links /\ UNCHANGED <<config, now>>

\* It evicts the one it stands on; without priorities that is the tail.
PutEvict ==
  /\ op.call = "put" /\ NeedsRoom /\ op.cursor # NULL /\ ~Protected(op.cursor)
  /\ Drop(op.cursor)
  /\ IF config.enable_priority_eviction THEN Become(Unlink(Links, op.cursor))
     ELSE Become(RemoveTail(Links))
  /\ Evicts(op.cursor)
  /\ op' = [op EXCEPT !.cursor = lru_tail']
  /\ UNCHANGED <<config, now>>

\* Mutant: the empty cache is not noticed.
PutFullSpins ==
  /\ op.call = "put" /\ NeedsRoom /\ lru_tail = NULL
  /\ UNCHANGED vars

\* The list is empty and there is still no room: put returns an error.
PutFull ==
  /\ op.call = "put" /\ NeedsRoom /\ lru_tail = NULL
  /\ op' = NoOp /\ Silent
  /\ UNCHANGED store /\ UNCHANGED links /\ UNCHANGED <<config, now>>

\* Every entry is protected: the batch ends, and the outer loop starts another.
PutSpin ==
  /\ op.call = "put" /\ NeedsRoom /\ lru_tail # NULL /\ op.cursor = NULL
  /\ op' = [op EXCEPT !.cursor = lru_tail]
  /\ Silent
  /\ UNCHANGED store /\ UNCHANGED links /\ UNCHANGED <<config, now>>

\* There is room: the entry is updated or created and becomes the head.
PutStore ==
  /\ op.call = "put" /\ ~NeedsRoom
  /\ LET p == op.path
         old == entry[p]   \* NoEntry when p is not cached
     IN  /\ hash' = hash \cup {p}
         /\ entry_count' = entry_count + IF p \in hash THEN 0 ELSE 1
         /\ total_memory_usage' =
              Plus(Minus(total_memory_usage, old.memory_usage), op.usage)
         /\ entry' = [entry EXCEPT ![p] =
                        [memory_usage |-> op.usage, content |-> TRUE,
                         cache_time |-> now,
                         priority |-> IF op.priority = NoPriority
                                      THEN old.priority ELSE op.priority]]
         /\ Become(MoveToHead(Links, p))
  /\ op' = NoOp /\ Returns(op.path)
  /\ UNCHANGED <<config, now>>

\* The allocation of a new entry fails.
PutNoEntry ==
  /\ "alloc_fail" \in Env
  /\ op.call = "put" /\ ~NeedsRoom /\ op.path \notin hash
  /\ op' = NoOp /\ Silent
  /\ UNCHANGED store /\ UNCHANGED links /\ UNCHANGED <<config, now>>

\* The allocation of the content fails.  file_path[0] is set by then, so the
\* entry stays in the hash table, without content; the memory of the content
\* it had is no longer counted.
PutNoContent ==
  /\ "alloc_fail" \in Env
  /\ op.call = "put" /\ ~NeedsRoom
  /\ LET p == op.path
     IN  /\ hash' = hash \cup {p}
         /\ entry_count' = entry_count + IF p \in hash THEN 0 ELSE 1
         /\ total_memory_usage' = Minus(total_memory_usage, entry[p].memory_usage)
         /\ entry' = [entry EXCEPT ![p].content = FALSE]
  /\ op' = NoOp /\ Silent
  /\ UNCHANGED links /\ UNCHANGED <<config, now>>

-----------------------------------------------------------------------------
(* uvhttp_lru_cache_force_eviction and uvhttp_lru_cache_cleanup_expired.   *)

ForceCall(n) ==
  /\ Idle
  /\ op' = [NoOp EXCEPT !.call = "force", !.count = n]
  /\ Silent
  /\ UNCHANGED store /\ UNCHANGED links /\ UNCHANGED <<config, now>>

ForceEvict ==
  /\ op.call = "force" /\ op.count > 0 /\ lru_tail # NULL
  /\ Drop(lru_tail) /\ Become(RemoveTail(Links))
  /\ Evicts(lru_tail)
  /\ op' = [op EXCEPT !.count = @ - 1]
  /\ UNCHANGED <<config, now>>

ForceDone ==
  /\ op.call = "force" /\ (op.count = 0 \/ lru_tail = NULL)
  /\ op' = NoOp /\ Silent
  /\ UNCHANGED store /\ UNCHANGED links /\ UNCHANGED <<config, now>>

CleanupCall ==
  /\ "cleanup" \in Env /\ Idle /\ config.cache_ttl > 0
  /\ op' = [NoOp EXCEPT !.call = "cleanup", !.cursor = lru_tail]
  /\ Silent
  /\ UNCHANGED store /\ UNCHANGED links /\ UNCHANGED <<config, now>>

\* One iteration; the next entry is read before this one is freed.
CleanupStep ==
  /\ op.call = "cleanup" /\ op.cursor # NULL
  /\ op' = [op EXCEPT !.cursor = lru_prev[op.cursor]]
  /\ IF Expired(op.cursor)
     THEN Drop(op.cursor) /\ Become(CleanupUnlink(Links, op.cursor))
     ELSE UNCHANGED store /\ UNCHANGED links
  /\ Silent /\ UNCHANGED <<config, now>>

CleanupDone ==
  /\ op.call = "cleanup" /\ op.cursor = NULL
  /\ op' = NoOp /\ Silent
  /\ UNCHANGED store /\ UNCHANGED links /\ UNCHANGED <<config, now>>

-----------------------------------------------------------------------------
SoundCall ==
  \/ \E p \in Paths : Find(p) \/ Remove(p)
  \/ \E p \in Paths, pr \in Priorities : SetEntryPriority(p, pr)
  \/ \E p \in Paths, u \in Usages, pr \in Priorities \cup {NoPriority} : PutCall(p, u, pr)
  \/ \E n \in 1 .. MaxForce : ForceCall(n)
  \/ Clear \/ Configure \/ Tick

\* A call in progress goes on.
SoundIterate ==
  \/ PutSkip \/ PutEvict \/ PutFull \/ PutSpin \/ PutStore
  \/ ForceEvict \/ ForceDone

Call == SoundCall \/ CleanupCall
Iterate == SoundIterate \/ PutNoEntry \/ PutNoContent \/ CleanupStep \/ CleanupDone

Next == Call \/ Iterate

Spec == Init /\ [][Next]_vars

\* The cache of a program that does not call cleanup_expired and has memory, which
\* is Spec when Env is empty; the processor executes a call that was made.
SoundSpec ==
  /\ Init /\ [][SoundCall \/ SoundIterate]_vars
  /\ WF_vars(SoundIterate)

-----------------------------------------------------------------------------
(* What must hold.                                                         *)

TypeOK ==
  /\ hash \subseteq Paths
  /\ entry \in [Paths -> EntryType]
  /\ lru_head \in PathOrNull /\ lru_tail \in PathOrNull
  /\ lru_prev \in [Paths -> PathOrNull] /\ lru_next \in [Paths -> PathOrNull]
  /\ total_memory_usage \in 0 .. SizeMod - 1 /\ entry_count \in Int
  /\ config \in ConfigType /\ now \in Nat
  /\ op \in OpType /\ returned \in PathOrNull /\ evicted \in PathOrNull

\* L is a doubly linked list of entries of S: prev and next are inverse to
\* each other, head and tail are its ends, and no pointer leads out of S.
Threaded(L, S) ==
  /\ \A p \in S :
       /\ IF L.prev[p] = NULL THEN L.head = p
          ELSE L.prev[p] \in S /\ L.next[L.prev[p]] = p
       /\ IF L.next[p] = NULL THEN L.tail = p
          ELSE L.next[p] \in S /\ L.prev[L.next[p]] = p
  /\ L.head # NULL => L.head \in S /\ L.prev[L.head] = NULL
  /\ L.tail # NULL => L.tail \in S /\ L.next[L.tail] = NULL
  /\ L.head = NULL <=> L.tail = NULL

\* The entries of the hash table, and no others, are threaded on the LRU list,
\* and neither the list nor the cursor of a call in progress leads to an entry
\* that was freed.
LinksOK ==
  /\ Threaded(Links, hash)
  /\ op.cursor # NULL => op.cursor \in hash

\* entry_count is the number of entries.
CountOK == entry_count = Cardinality(hash)

MemoryOf(entries, S) == SumFunctionOnSet([p \in S |-> entries[p].memory_usage], S)

\* total_memory_usage is the memory the entries use: nothing is counted twice,
\* given back twice or forgotten by put, find, remove, an eviction or clear.
MemoryOK == total_memory_usage = MemoryOf(entry, hash)

\* A put that stores its entry leaves the cache within the limits of that
\* moment, however far above them the cache was (the setters do not evict, and
\* an update does not give the old content back before it makes room).
PutWithinLimits ==
  [][PutStore =>
       /\ config.max_entries > 0 => Cardinality(hash') <= config.max_entries
       /\ config.max_memory_usage > 0 =>
            MemoryOf(entry', hash') <= config.max_memory_usage]_vars

\* Every call of the cache returns, whatever limits it meets, but a put that
\* finds only protected entries: remove_lowest_priority then has no victim to
\* offer, and the eviction loop has no other way out.
CallsReturn ==
  (op.call # "none") ~>
     (op.call = "none" \/ (hash # {} /\ \A p \in hash : Protected(p)))
=============================================================================
