---------------------------- MODULE LruCacheProofs ----------------------------
(***************************************************************************)
(* Proofs about LruCache, for every set of paths, of limits and of         *)
(* priorities: as long as no allocation of content fails and               *)
(* cleanup_expired is not called, the pointers of the cache always form a  *)
(* doubly linked list of the entries in the hash table, ordered by recency *)
(* of use, and, where size_t holds all there is to cache, the accounted    *)
(* memory is that of the entries.                                          *)
(***************************************************************************)
EXTENDS LruCacheRefines, SumFacts, FiniteSetTheorems, SequenceTheorems, TLAPS

LinksType == [head : PathOrNull, tail : PathOrNull,
              prev : [Paths -> PathOrNull], next : [Paths -> PathOrNull]]

\* Entries outside S have no list pointers.
Loose(L, S) == \A p \in Paths \ S : L.prev[p] = NULL /\ L.next[p] = NULL

-----------------------------------------------------------------------------
(* The list operations.                                                    *)

\* Taking an entry out of the list, as uvhttp_lru_cache_remove does, leaves a
\* list of the others.
LEMMA UnlinkThreaded ==
  ASSUME NEW L \in LinksType, NEW S \in SUBSET Paths, NEW p \in S,
         Threaded(L, S), Loose(L, S)
  PROVE  /\ Unlink(L, p) \in LinksType
         /\ Threaded(Unlink(L, p), S \ {p})
         /\ Loose(Unlink(L, p), S \ {p})
<1> DEFINE a == L.prev[p]
           b == L.next[p]
           M == Unlink(L, p)
<1>1. a \in PathOrNull /\ b \in PathOrNull /\ NULL \notin Paths /\ p \in Paths
  BY CacheAssumption DEF LinksType
<1>2. /\ M.head = (IF a = NULL THEN b ELSE L.head)
      /\ M.tail = (IF b = NULL THEN a ELSE L.tail)
      /\ M.next = [q \in Paths |-> IF q = p THEN NULL ELSE IF q = a THEN b ELSE L.next[q]]
      /\ M.prev = [q \in Paths |-> IF q = p THEN NULL ELSE IF q = b THEN a ELSE L.prev[q]]
  BY DEF Unlink, Detached, Set
<1>3. M \in LinksType
  BY <1>1 DEF LinksType, PathOrNull, Unlink, Detached, Set
<1> HIDE DEF M
<1>4. \A q \in Paths :
        /\ M.next[q] = IF q = p THEN NULL ELSE IF q = a THEN b ELSE L.next[q]
        /\ M.prev[q] = IF q = p THEN NULL ELSE IF q = b THEN a ELSE L.prev[q]
  BY <1>2
<1>5. ASSUME NEW q \in S \ {p}
      PROVE  /\ IF M.prev[q] = NULL THEN M.head = q
                ELSE M.prev[q] \in S \ {p} /\ M.next[M.prev[q]] = q
             /\ IF M.next[q] = NULL THEN M.tail = q
                ELSE M.next[q] \in S \ {p} /\ M.prev[M.next[q]] = q
  BY <1>1, <1>2, <1>4 DEF Threaded
<1>6. M.head # NULL => M.head \in S \ {p} /\ M.prev[M.head] = NULL
  BY <1>1, <1>2, <1>4 DEF Threaded
<1>7. M.tail # NULL => M.tail \in S \ {p} /\ M.next[M.tail] = NULL
  BY <1>1, <1>2, <1>4 DEF Threaded
<1>8. M.head = NULL <=> M.tail = NULL
  BY <1>1, <1>2, <1>4 DEF Threaded
<1>9. Loose(M, S \ {p})
  BY <1>1, <1>4 DEF Loose, Threaded
<1> QED
  BY <1>3, <1>5, <1>6, <1>7, <1>8, <1>9 DEF Threaded, M

\* uvhttp_lru_cache_remove_tail takes out the tail.
LEMMA RemoveTailIsUnlink ==
  ASSUME NEW L \in LinksType, NEW S \in SUBSET Paths, Threaded(L, S), L.tail # NULL
  PROVE  RemoveTail(L) = Unlink(L, L.tail)
<1>1. L.tail \in Paths /\ L.next[L.tail] = NULL /\ NULL \notin Paths
  BY CacheAssumption DEF Threaded
<1>2. Set(L.prev, NULL, L.prev[L.tail]) = L.prev
  BY <1>1 DEF Set, LinksType
<1> QED
  BY <1>1, <1>2 DEF RemoveTail, Unlink

\* A new entry becomes the head.
LEMMA PushThreaded ==
  ASSUME NEW L \in LinksType, NEW S \in SUBSET Paths, NEW p \in Paths \ S,
         Threaded(L, S), Loose(L, S)
  PROVE  /\ PushHead(L, p) \in LinksType
         /\ Threaded(PushHead(L, p), S \cup {p})
         /\ Loose(PushHead(L, p), S \cup {p})
<1> DEFINE M == PushHead(L, p)
<1>1. L.head \in PathOrNull /\ NULL \notin Paths
  BY CacheAssumption DEF LinksType
<1>2. /\ M.head = p
      /\ M.tail = (IF L.tail = NULL THEN p ELSE L.tail)
      /\ \A q \in Paths :
           /\ M.next[q] = IF q = p THEN L.head ELSE L.next[q]
           /\ M.prev[q] = IF q = L.head THEN p ELSE IF q = p THEN NULL ELSE L.prev[q]
  BY DEF PushHead, Set
<1>3. M \in LinksType
  BY <1>1 DEF LinksType, PathOrNull, PushHead, Set
<1> HIDE DEF M
<1>4. ASSUME NEW q \in S \cup {p}
      PROVE  /\ IF M.prev[q] = NULL THEN M.head = q
                ELSE M.prev[q] \in S \cup {p} /\ M.next[M.prev[q]] = q
             /\ IF M.next[q] = NULL THEN M.tail = q
                ELSE M.next[q] \in S \cup {p} /\ M.prev[M.next[q]] = q
  BY <1>1, <1>2 DEF Threaded, Loose
<1>5. M.head \in S \cup {p} /\ M.prev[M.head] = NULL
  BY <1>1, <1>2 DEF Threaded
<1>6. M.tail # NULL => M.tail \in S \cup {p} /\ M.next[M.tail] = NULL
  BY <1>1, <1>2 DEF Threaded
<1>7. M.head # NULL /\ M.tail # NULL
  BY <1>1, <1>2
<1>8. Loose(M, S \cup {p})
  BY <1>1, <1>2 DEF Loose, Threaded
<1> QED
  BY <1>3, <1>4, <1>5, <1>6, <1>7, <1>8 DEF Threaded, M

\* To uvhttp_lru_cache_move_to_head an entry without pointers is a new one.
LEMMA MoveNewIsPush ==
  ASSUME NEW L \in LinksType, NEW S \in SUBSET Paths, NEW p \in Paths \ S,
         Threaded(L, S), Loose(L, S)
  PROVE  MoveToHead(L, p) = PushHead(L, p)
<1>0. NULL \notin Paths
  BY CacheAssumption
<1>1. L.prev[p] = NULL /\ L.next[p] = NULL /\ p # L.head
  BY <1>0 DEF Loose, Threaded
<1>2. CASE L.head # NULL
  BY <1>1, <1>2 DEF MoveToHead
<1>3. CASE L.head = NULL
  <2>1. L.tail = NULL
    BY <1>3 DEF Threaded
  <2>2. Unlink(L, p) = L
    <3>1. Set(L.next, NULL, NULL) = L.next /\ Set(L.prev, NULL, NULL) = L.prev
      BY <1>0 DEF Set, LinksType
    <3>2. Set(L.next, p, NULL) = L.next /\ Set(L.prev, p, NULL) = L.prev
      BY <1>1 DEF Set, LinksType
    <3> QED
      BY <1>1, <1>3, <2>1, <3>1, <3>2 DEF Unlink, Detached, LinksType
  <2> QED
    BY <1>1, <1>3, <2>2 DEF MoveToHead
<1> QED
  BY <1>2, <1>3

\* uvhttp_lru_cache_move_to_head keeps the list intact, whether the entry was
\* on it or is new.
LEMMA MoveThreaded ==
  ASSUME NEW L \in LinksType, NEW S \in SUBSET Paths, NEW p \in Paths,
         Threaded(L, S), Loose(L, S)
  PROVE  /\ MoveToHead(L, p) \in LinksType
         /\ Threaded(MoveToHead(L, p), S \cup {p})
         /\ Loose(MoveToHead(L, p), S \cup {p})
<1>0. NULL \notin Paths
  BY CacheAssumption
<1>1. CASE p = L.head
  <2>1. p \in S /\ S \cup {p} = S
    BY <1>0, <1>1 DEF Threaded
  <2> QED
    BY <1>1, <2>1 DEF MoveToHead
<1>2. CASE p # L.head /\ p \in S
  <2>1. L.prev[p] # NULL
    BY <1>2 DEF Threaded
  <2>2. MoveToHead(L, p) = PushHead(Unlink(L, p), p)
    BY <1>2, <2>1 DEF MoveToHead
  <2>3. /\ Unlink(L, p) \in LinksType
        /\ Threaded(Unlink(L, p), S \ {p})
        /\ Loose(Unlink(L, p), S \ {p})
    BY <1>2, UnlinkThreaded
  <2>4. S \ {p} \in SUBSET Paths /\ p \in Paths \ (S \ {p}) /\ (S \ {p}) \cup {p} = S \cup {p}
    OBVIOUS
  <2>5. /\ PushHead(Unlink(L, p), p) \in LinksType
        /\ Threaded(PushHead(Unlink(L, p), p), (S \ {p}) \cup {p})
        /\ Loose(PushHead(Unlink(L, p), p), (S \ {p}) \cup {p})
    BY <2>3, <2>4, PushThreaded
  <2> QED
    BY <2>2, <2>4, <2>5
<1>3. CASE p \notin S
  BY <1>3, MoveNewIsPush, PushThreaded
<1> QED
  BY <1>1, <1>2, <1>3

-----------------------------------------------------------------------------
(* The inductive invariant.                                                *)

\* What LinksOK needs besides itself: entries that are not cached have no
\* pointers, so that move_to_head takes them for new; a put knows its path;
\* without priority eviction the entry a put evicts is the tail; the number of
\* entries is finite.
Inv ==
  /\ TypeOK /\ LinksOK /\ CountOK
  /\ Loose(Links, hash)
  /\ IsFiniteSet(hash)
  /\ op.call = "put" => op.path \in Paths
  /\ op.priority # NoPriority => op.priority \in Nat
  /\ op.call = "put" /\ ~config.enable_priority_eviction => op.cursor = lru_tail
  /\ op.call # "put" => op.cursor = NULL
  /\ op.call # "cleanup"

\* The pointers after a list operation.
LEMMA LinksRecord ==
  ASSUME NEW L \in LinksType, Become(L)
  PROVE  Links' = L
BY DEF Become, Links, LinksType

\* The four pointers as a record.
LEMMA LinksTyped == TypeOK => Links \in LinksType
BY DEF TypeOK, Links, LinksType

\* size_t arithmetic stays in range.
LEMMA SizeArithmetic ==
  ASSUME NEW m \in Int, NEW n \in Int
  PROVE  Minus(m, n) \in 0 .. SizeMod - 1 /\ Plus(m, n) \in 0 .. SizeMod - 1
<1>1. SizeMod \in Nat /\ SizeMod > 0
  BY CacheAssumption
<1>2. m - n \in Int /\ m + n \in Int
  OBVIOUS
<1>3. \A k \in Int : k % SizeMod \in 0 .. SizeMod - 1
  BY <1>1
<1> QED
  BY <1>2, <1>3 DEF Minus, Plus

\* Dropping a cached entry: hash, entry and the counters stay consistent.
LEMMA DropOK ==
  ASSUME Inv, NEW p \in hash, Drop(p)
  PROVE  /\ hash' \in SUBSET Paths /\ IsFiniteSet(hash')
         /\ entry' \in [Paths -> EntryType]
         /\ total_memory_usage' \in 0 .. SizeMod - 1
         /\ entry_count' \in Int /\ entry_count' = Cardinality(hash')
<1>1. hash' = hash \ {p} /\ hash \subseteq Paths /\ IsFiniteSet(hash) /\ p \in Paths
  BY DEF Inv, TypeOK, Drop
<1>2. IsFiniteSet(hash') /\ Cardinality(hash') = Cardinality(hash) - 1
  BY <1>1, FS_RemoveElement
<1>3. entry' \in [Paths -> EntryType]
  BY DEF Inv, TypeOK, Drop, NoEntry, EntryType
<1>4. entry[p].memory_usage \in Int /\ total_memory_usage \in Int
  BY <1>1 DEF Inv, TypeOK, EntryType
<1>5. total_memory_usage' \in 0 .. SizeMod - 1
  BY <1>4, SizeArithmetic DEF Drop
<1>6. entry_count' = entry_count - 1 /\ entry_count = Cardinality(hash) /\ entry_count \in Int
  BY DEF Inv, TypeOK, CountOK, Drop
<1> QED
  BY <1>1, <1>2, <1>3, <1>5, <1>6

\* Removing a cached entry keeps the list.
LEMMA RemoveEntryOK ==
  ASSUME Inv, NEW p \in hash, Drop(p), Become(Unlink(Links, p))
  PROVE  Links' \in LinksType /\ Threaded(Links', hash') /\ Loose(Links', hash')
<1>1. Links \in LinksType /\ hash \in SUBSET Paths /\ Threaded(Links, hash) /\ Loose(Links, hash)
  BY LinksTyped DEF Inv, TypeOK, LinksOK
<1>2. /\ Unlink(Links, p) \in LinksType
      /\ Threaded(Unlink(Links, p), hash \ {p})
      /\ Loose(Unlink(Links, p), hash \ {p})
  BY <1>1, UnlinkThreaded
<1>3. Links' = Unlink(Links, p)
  BY <1>2, LinksRecord
<1> QED
  BY <1>2, <1>3 DEF Drop

\* Removing the tail keeps the list.
LEMMA RemoveTailOK ==
  ASSUME Inv, lru_tail # NULL, Drop(lru_tail), Become(RemoveTail(Links))
  PROVE  /\ lru_tail \in hash
         /\ Links' \in LinksType /\ Threaded(Links', hash') /\ Loose(Links', hash')
<1>1. Links \in LinksType /\ hash \in SUBSET Paths /\ Threaded(Links, hash)
  BY LinksTyped DEF Inv, TypeOK, LinksOK
<1>2. Links.tail = lru_tail
  BY DEF Links
<1>3. lru_tail \in hash
  BY <1>1, <1>2 DEF Threaded
<1>4. RemoveTail(Links) = Unlink(Links, lru_tail)
  BY <1>1, <1>2, RemoveTailIsUnlink
<1> QED
  BY <1>3, <1>4, RemoveEntryOK

\* A used or new entry becomes the head.
LEMMA MoveOK ==
  ASSUME Inv, NEW p \in Paths, Become(MoveToHead(Links, p)), hash' = hash \cup {p}
  PROVE  Links' \in LinksType /\ Threaded(Links', hash') /\ Loose(Links', hash')
<1>1. Links \in LinksType /\ hash \in SUBSET Paths /\ Threaded(Links, hash) /\ Loose(Links, hash)
  BY LinksTyped DEF Inv, TypeOK, LinksOK
<1>2. /\ MoveToHead(Links, p) \in LinksType
      /\ Threaded(MoveToHead(Links, p), hash \cup {p})
      /\ Loose(MoveToHead(Links, p), hash \cup {p})
  BY <1>1, MoveThreaded
<1>3. Links' = MoveToHead(Links, p)
  BY <1>2, LinksRecord
<1> QED
  BY <1>2, <1>3

\* The invariant of the next state, from its parts.
LEMMA InvFromParts ==
  ASSUME hash' \in SUBSET Paths, IsFiniteSet(hash'),
         entry' \in [Paths -> EntryType],
         total_memory_usage' \in 0 .. SizeMod - 1,
         entry_count' \in Int, entry_count' = Cardinality(hash'),
         Links' \in LinksType, Threaded(Links', hash'), Loose(Links', hash'),
         config' \in ConfigType, now' \in Nat,
         op' \in OpType, returned' \in PathOrNull, evicted' \in PathOrNull,
         op'.cursor # NULL => op'.cursor \in hash',
         op'.call = "put" => op'.path \in Paths,
         op'.priority # NoPriority => op'.priority \in Nat,
         op'.call = "put" /\ ~config'.enable_priority_eviction => op'.cursor = lru_tail',
         op'.call # "put" => op'.cursor = NULL,
         op'.call # "cleanup"
  PROVE  Inv'
<1>1. /\ lru_head' \in PathOrNull /\ lru_tail' \in PathOrNull
      /\ lru_prev' \in [Paths -> PathOrNull] /\ lru_next' \in [Paths -> PathOrNull]
  BY DEF Links, LinksType
<1> QED
  BY <1>1 DEF Inv, TypeOK, LinksOK, CountOK

\* A step that leaves the cache alone.
LEMMA SameStore ==
  ASSUME Inv, UNCHANGED store, UNCHANGED links
  PROVE  /\ hash' = hash /\ lru_tail' = lru_tail /\ Links' = Links
         /\ hash' \in SUBSET Paths /\ IsFiniteSet(hash')
         /\ entry' \in [Paths -> EntryType]
         /\ total_memory_usage' \in 0 .. SizeMod - 1
         /\ entry_count' \in Int /\ entry_count' = Cardinality(hash')
         /\ Links' \in LinksType /\ Threaded(Links', hash') /\ Loose(Links', hash')
<1>1. hash' = hash /\ lru_tail' = lru_tail /\ Links' = Links
  BY DEF store, links, Links
<1>2. Links \in LinksType
  BY LinksTyped DEF Inv
<1> QED
  BY <1>1, <1>2 DEF Inv, TypeOK, LinksOK, CountOK, store

\* No call in progress.
LEMMA NoOpTyped ==
  NoOp \in OpType /\ NoOp.call = "none" /\ NoOp.cursor = NULL /\ NoOp.priority = NoPriority
BY DEF NoOp, OpType, PathOrNull, NoPriority

\* Where the end of the list can be.
LEMMA TailCached ==
  ASSUME Threaded(Links', hash'), Links' \in LinksType
  PROVE  lru_tail' \in PathOrNull /\ (lru_tail' # NULL => lru_tail' \in hash')
BY DEF Threaded, Links, LinksType

\* The cache starts empty.
LEMMA InvInit == Init => Inv
<1> SUFFICES ASSUME Init PROVE Inv
  OBVIOUS
<1>1. IsFiniteSet({}) /\ Cardinality({}) = 0
  BY FS_EmptySet
<1>2. 0 \in 0 .. SizeMod - 1 /\ StartTime \in Nat /\ PriorityModes \subseteq BOOLEAN
  BY CacheAssumption
<1>3. op \in OpType /\ op.call = "none" /\ op.cursor = NULL /\ op.priority = NoPriority
  BY NoOpTyped DEF Init
<1>4. entry \in [Paths -> EntryType]
  BY DEF Init, NoEntry, EntryType
<1>5. config \in ConfigType
  BY <1>2 DEF Init, ConfigType
<1>6. TypeOK
  BY <1>2, <1>3, <1>4, <1>5 DEF Init, TypeOK, PathOrNull
<1>7. Threaded(Links, hash) /\ Loose(Links, hash)
  BY DEF Init, Links, Threaded, Loose
<1> QED
  BY <1>1, <1>3, <1>6, <1>7 DEF Init, Inv, LinksOK, CountOK

\* Every call, and every first step of a call that loops, keeps the invariant.
LEMMA CallKeeps == ASSUME Inv, SoundCall PROVE Inv'
<1>0. /\ op \in OpType /\ config \in ConfigType /\ now \in Nat /\ NULL \in PathOrNull
      /\ Paths \subseteq PathOrNull /\ hash \subseteq Paths
      /\ op.call # "put" => op.cursor = NULL
      /\ op.priority # NoPriority => op.priority \in Nat
  BY DEF Inv, TypeOK, PathOrNull
<1>1. ASSUME NEW p \in Paths, Find(p) PROVE Inv'
  <2>1. /\ p \in hash /\ op' = op /\ config' = config /\ now' = now
        /\ op.call = "none" /\ returned' \in PathOrNull /\ evicted' \in PathOrNull
    BY <1>0, <1>1 DEF Find, Idle, Silent, Returns
  <2>2. CASE Expired(p)
    <3>1. Drop(p) /\ Become(Unlink(Links, p))
      BY <1>1, <2>2 DEF Find, RemoveEntry
    <3> QED
      BY <1>0, <2>1, <3>1, DropOK, RemoveEntryOK, InvFromParts
  <2>3. CASE ~Expired(p)
    <3>1. Become(MoveToHead(Links, p)) /\ UNCHANGED store
      BY <1>1, <2>3 DEF Find
    <3>2. hash' = hash \cup {p}
      BY <2>1, <3>1 DEF store
    <3>3. Links' \in LinksType /\ Threaded(Links', hash') /\ Loose(Links', hash')
      BY <3>1, <3>2, MoveOK
    <3>4. /\ hash' \in SUBSET Paths /\ IsFiniteSet(hash') /\ entry' \in [Paths -> EntryType]
          /\ total_memory_usage' \in 0 .. SizeMod - 1
          /\ entry_count' \in Int /\ entry_count' = Cardinality(hash')
      BY <3>1 DEF store, Inv, TypeOK, CountOK
    <3> QED
      BY <1>0, <2>1, <3>3, <3>4, InvFromParts
  <2> QED
    BY <2>2, <2>3
<1>2. ASSUME NEW p \in Paths, Remove(p) PROVE Inv'
  <2>1. /\ p \in hash /\ op' = op /\ config' = config /\ now' = now
        /\ op.call = "none" /\ returned' \in PathOrNull /\ evicted' \in PathOrNull
        /\ Drop(p) /\ Become(Unlink(Links, p))
    BY <1>0, <1>2 DEF Remove, Idle, Silent, RemoveEntry
  <2> QED
    BY <1>0, <2>1, DropOK, RemoveEntryOK, InvFromParts
<1>3. ASSUME NEW p \in Paths, NEW pr \in Priorities, SetEntryPriority(p, pr) PROVE Inv'
  <2>1. /\ p \in hash /\ op' = op /\ config' = config /\ now' = now
        /\ op.call = "none" /\ returned' \in PathOrNull /\ evicted' \in PathOrNull
        /\ hash' = hash /\ total_memory_usage' = total_memory_usage
        /\ entry_count' = entry_count /\ entry' = [entry EXCEPT ![p].priority = pr]
        /\ Become(MoveToHead(MoveToHead(Links, p), p))
    BY <1>0, <1>3 DEF SetEntryPriority, Idle, Returns
  <2>2. /\ Links \in LinksType /\ hash \in SUBSET Paths /\ hash \cup {p} = hash
        /\ Threaded(Links, hash) /\ Loose(Links, hash)
    BY <2>1, LinksTyped DEF Inv, TypeOK, LinksOK
  <2>3. /\ MoveToHead(Links, p) \in LinksType
        /\ Threaded(MoveToHead(Links, p), hash) /\ Loose(MoveToHead(Links, p), hash)
    BY <2>2, MoveThreaded
  <2>4. /\ MoveToHead(MoveToHead(Links, p), p) \in LinksType
        /\ Threaded(MoveToHead(MoveToHead(Links, p), p), hash)
        /\ Loose(MoveToHead(MoveToHead(Links, p), p), hash)
    BY <2>2, <2>3, MoveThreaded
  <2>5. Links' = MoveToHead(MoveToHead(Links, p), p)
    BY <2>1, <2>4, LinksRecord
  <2>6. pr \in Nat
    BY CacheAssumption
  <2>7. entry' \in [Paths -> EntryType]
    BY <2>1, <2>6 DEF Inv, TypeOK, EntryType
  <2>8. /\ IsFiniteSet(hash') /\ total_memory_usage' \in 0 .. SizeMod - 1
        /\ entry_count' \in Int /\ entry_count' = Cardinality(hash')
    BY <2>1 DEF Inv, TypeOK, CountOK
  <2> QED
    BY <1>0, <2>1, <2>2, <2>4, <2>5, <2>7, <2>8, InvFromParts
<1>4. ASSUME NEW p \in Paths, NEW u \in Usages, NEW pr \in Priorities \cup {NoPriority},
             PutCall(p, u, pr)
      PROVE  Inv'
  <2>1. /\ config' = config /\ now' = now
        /\ returned' \in PathOrNull /\ evicted' \in PathOrNull
        /\ op' = [call |-> "put", path |-> p, usage |-> u, priority |-> pr,
                  cursor |-> lru_tail', count |-> 0]
    BY <1>0, <1>4 DEF PutCall, Silent
  <2>2. u \in Nat /\ pr \in Int /\ (pr # NoPriority => pr \in Nat)
    BY CacheAssumption DEF NoPriority
  <2>3. /\ hash' \in SUBSET Paths /\ IsFiniteSet(hash') /\ entry' \in [Paths -> EntryType]
        /\ total_memory_usage' \in 0 .. SizeMod - 1
        /\ entry_count' \in Int /\ entry_count' = Cardinality(hash')
        /\ Links' \in LinksType /\ Threaded(Links', hash') /\ Loose(Links', hash')
    <3>1. CASE pr = NoPriority \/ p \notin hash
      BY <1>4, <3>1, SameStore DEF PutCall
    <3>2. CASE ~(pr = NoPriority \/ p \notin hash)
      <4>1. p \in hash /\ Drop(p) /\ Become(Unlink(Links, p))
        BY <1>4, <3>2 DEF PutCall, RemoveEntry
      <4> QED
        BY <4>1, DropOK, RemoveEntryOK
    <3> QED
      BY <3>1, <3>2
  <2>4. lru_tail' \in PathOrNull /\ (lru_tail' # NULL => lru_tail' \in hash')
    BY <2>3, TailCached
  <2>5. op' \in OpType
    BY <1>0, <2>1, <2>2, <2>4 DEF OpType
  <2>6. /\ op'.cursor = lru_tail' /\ op'.path = p /\ op'.call = "put" /\ op'.priority = pr
    BY <2>1
  <2> QED
    BY <1>0, <2>1, <2>2, <2>3, <2>4, <2>5, <2>6, InvFromParts
<1>5. ASSUME NEW n \in 1 .. MaxForce, ForceCall(n) PROVE Inv'
  <2>1. /\ config' = config /\ now' = now /\ UNCHANGED store /\ UNCHANGED links
        /\ returned' \in PathOrNull /\ evicted' \in PathOrNull
        /\ op' = [NoOp EXCEPT !.call = "force", !.count = n]
    BY <1>0, <1>5 DEF ForceCall, Silent
  <2>2. n \in Nat
    BY CacheAssumption
  <2>3. op' \in OpType /\ op'.call = "force" /\ op'.cursor = NULL
        /\ op'.priority = NoPriority
    <3>2. NoOp \in OpType
      BY NoOpTyped
    <3>3. op' \in OpType
      BY <2>1, <2>2, <3>2, Zenon DEF OpType
    <3>4. op'.call = "force" /\ op'.cursor = NULL /\ op'.priority = NoPriority
      BY <2>1, Zenon DEF NoOp
    <3> QED
      BY <3>3, <3>4
  <2> QED
    BY <1>0, <2>1, <2>3, SameStore, InvFromParts
<1>6. ASSUME Clear PROVE Inv'
  <2>1. /\ config' = config /\ now' = now /\ op' = op /\ op.call = "none"
        /\ returned' \in PathOrNull /\ evicted' \in PathOrNull
        /\ hash' = {} /\ entry' = [p \in Paths |-> NoEntry]
        /\ total_memory_usage' = 0 /\ entry_count' = 0
        /\ lru_head' = NULL /\ lru_tail' = NULL
        /\ lru_prev' = [p \in Paths |-> NULL] /\ lru_next' = [p \in Paths |-> NULL]
    BY <1>0, <1>6 DEF Clear, Silent, Idle, Become
  <2>2. Links' \in LinksType /\ Threaded(Links', hash') /\ Loose(Links', hash')
    BY <2>1, <1>0 DEF Links, LinksType, Threaded, Loose
  <2>3. IsFiniteSet(hash') /\ Cardinality(hash') = 0
    BY <2>1, FS_EmptySet
  <2>4. entry' \in [Paths -> EntryType]
    BY <2>1 DEF NoEntry, EntryType
  <2>5. 0 \in 0 .. SizeMod - 1
    BY CacheAssumption
  <2> QED
    BY <1>0, <2>1, <2>2, <2>3, <2>4, <2>5, InvFromParts
<1>7. ASSUME Configure PROVE Inv'
  <2>1. /\ now' = now /\ op' = op /\ op.call = "none" /\ UNCHANGED store /\ UNCHANGED links
        /\ returned' \in PathOrNull /\ evicted' \in PathOrNull
    BY <1>0, <1>7 DEF Configure, Silent, Idle
  <2>2. PriorityModes \subseteq BOOLEAN
    BY CacheAssumption
  <2>3. config' \in ConfigType
    BY <1>0, <1>7, <2>2 DEF Configure, ConfigType
  <2> QED
    BY <1>0, <2>1, <2>3, SameStore, InvFromParts
<1>8. ASSUME Tick PROVE Inv'
  <2>1. /\ now' = now + 1 /\ op' = op /\ op.call = "none" /\ config' = config
        /\ UNCHANGED store /\ UNCHANGED links
        /\ returned' \in PathOrNull /\ evicted' \in PathOrNull
    BY <1>0, <1>8 DEF Tick, Silent, Idle
  <2>2. now' \in Nat
    BY <1>0, <2>1
  <2> QED
    BY <1>0, <2>1, <2>2, SameStore, InvFromParts
<1> QED
  BY <1>1, <1>2, <1>3, <1>4, <1>5, <1>6, <1>7, <1>8 DEF SoundCall

\* Every iteration of put and of force_eviction keeps the invariant.
LEMMA IterateKeeps == ASSUME Inv, SoundIterate PROVE Inv'
<1>0. /\ op \in OpType /\ config \in ConfigType /\ now \in Nat /\ NULL \in PathOrNull
      /\ Paths \subseteq PathOrNull /\ hash \subseteq Paths /\ NULL \notin Paths
      /\ op.call # "put" => op.cursor = NULL
      /\ op.priority # NoPriority => op.priority \in Nat
      /\ op.cursor # NULL => op.cursor \in hash
      /\ op.call = "put" => op.path \in Paths
  BY CacheAssumption DEF Inv, TypeOK, PathOrNull, LinksOK
<1>1. CASE PutSkip
  <2>1. /\ config' = config /\ now' = now /\ UNCHANGED store /\ UNCHANGED links
        /\ returned' \in PathOrNull /\ evicted' \in PathOrNull
        /\ op.call = "put" /\ op.cursor \in hash /\ op.path \in Paths
        /\ op' = [op EXCEPT !.cursor = lru_prev[op.cursor]]
        /\ config.enable_priority_eviction
    BY <1>0, <1>1 DEF PutSkip, Silent, Protected
  <2>2. /\ lru_prev[op.cursor] \in PathOrNull
        /\ lru_prev[op.cursor] # NULL => lru_prev[op.cursor] \in hash
    BY <1>0, <2>1 DEF Inv, TypeOK, LinksOK, Threaded, Links
  <2>3. op' \in OpType
    BY <1>0, <2>1, <2>2, Zenon DEF OpType
  <2>4. op'.cursor = lru_prev[op.cursor] /\ op'.call = "put" /\ op'.path = op.path
        /\ op'.priority = op.priority
    BY <1>0, <2>1 DEF OpType
  <2>5. hash' = hash
    BY <2>1, SameStore
  <2> QED
    BY <1>0, <2>1, <2>2, <2>3, <2>4, <2>5, SameStore, InvFromParts
<1>2. CASE PutEvict
  <2>1. /\ config' = config /\ now' = now
        /\ returned' \in PathOrNull /\ evicted' \in PathOrNull
        /\ op.call = "put" /\ op.cursor \in hash /\ op.path \in Paths
        /\ op' = [op EXCEPT !.cursor = lru_tail']
        /\ Drop(op.cursor)
    BY <1>0, <1>2 DEF PutEvict, Evicts
  <2>2. Links' \in LinksType /\ Threaded(Links', hash') /\ Loose(Links', hash')
    <3>1. CASE config.enable_priority_eviction
      BY <1>2, <2>1, <3>1, RemoveEntryOK DEF PutEvict
    <3>2. CASE ~config.enable_priority_eviction
      <4>1. op.cursor = lru_tail /\ lru_tail # NULL
        BY <1>0, <2>1, <3>2 DEF Inv
      <4>2. Drop(lru_tail) /\ Become(RemoveTail(Links))
        BY <1>2, <2>1, <3>2, <4>1 DEF PutEvict
      <4> QED
        BY <4>1, <4>2, RemoveTailOK
    <3> QED
      BY <3>1, <3>2
  <2>3. lru_tail' \in PathOrNull /\ (lru_tail' # NULL => lru_tail' \in hash')
    BY <2>2, TailCached
  <2>4. op' \in OpType
    BY <1>0, <2>1, <2>3, Zenon DEF OpType
  <2>5. op'.cursor = lru_tail' /\ op'.call = "put" /\ op'.path = op.path
        /\ op'.priority = op.priority
    BY <1>0, <2>1 DEF OpType
  <2> QED
    BY <1>0, <2>1, <2>2, <2>3, <2>4, <2>5, DropOK, InvFromParts
<1>3. CASE PutFull \/ ForceDone
  <2>1. /\ config' = config /\ now' = now /\ UNCHANGED store /\ UNCHANGED links
        /\ returned' \in PathOrNull /\ evicted' \in PathOrNull /\ op' = NoOp
    BY <1>0, <1>3 DEF PutFull, ForceDone, Silent
  <2> QED
    BY <1>0, <2>1, NoOpTyped, SameStore, InvFromParts
<1>4. CASE PutSpin
  <2>1. /\ config' = config /\ now' = now /\ UNCHANGED store /\ UNCHANGED links
        /\ returned' \in PathOrNull /\ evicted' \in PathOrNull
        /\ op.call = "put" /\ op.path \in Paths
        /\ op' = [op EXCEPT !.cursor = lru_tail]
    BY <1>0, <1>4 DEF PutSpin, Silent
  <2>2. /\ Links' \in LinksType /\ Threaded(Links', hash') /\ lru_tail' = lru_tail
        /\ hash' = hash
    BY <2>1, SameStore
  <2>3. lru_tail \in PathOrNull /\ (lru_tail # NULL => lru_tail \in hash)
    BY <2>2, TailCached
  <2>4. op' \in OpType
    BY <1>0, <2>1, <2>3, Zenon DEF OpType
  <2>5. op'.cursor = lru_tail /\ op'.call = "put" /\ op'.path = op.path
        /\ op'.priority = op.priority
    BY <1>0, <2>1 DEF OpType
  <2> QED
    BY <1>0, <2>1, <2>2, <2>3, <2>4, <2>5, SameStore, InvFromParts
<1>5. CASE PutStore
  <2> DEFINE p == op.path
             new == [memory_usage |-> op.usage, content |-> TRUE, cache_time |-> now,
                     priority |-> IF op.priority = NoPriority
                                  THEN entry[p].priority ELSE op.priority]
  <2>1. /\ config' = config /\ now' = now
        /\ returned' \in PathOrNull /\ evicted' \in PathOrNull
        /\ op' = NoOp /\ p \in Paths
        /\ hash' = hash \cup {p}
        /\ entry_count' = entry_count + (IF p \in hash THEN 0 ELSE 1)
        /\ total_memory_usage' =
             Plus(Minus(total_memory_usage, entry[p].memory_usage), op.usage)
        /\ entry' = [entry EXCEPT ![p] = new]
        /\ Become(MoveToHead(Links, p))
    BY <1>0, <1>5 DEF PutStore, Returns
  <2>2. entry[p].memory_usage \in Nat /\ entry[p].priority \in Nat /\ op.usage \in Nat
    BY <1>0, <2>1 DEF Inv, TypeOK, EntryType, OpType
  <2>3. op.priority # NoPriority => op.priority \in Nat
    BY <1>5 DEF PutStore, Inv
  <2>4. entry' \in [Paths -> EntryType]
    BY <1>0, <2>1, <2>2, <2>3 DEF Inv, TypeOK, EntryType
  <2>5. total_memory_usage' \in 0 .. SizeMod - 1
    <3>1. total_memory_usage \in Int
      BY DEF Inv, TypeOK
    <3>2. Minus(total_memory_usage, entry[p].memory_usage) \in 0 .. SizeMod - 1
      <4>1. entry[p].memory_usage \in Int
        BY <2>2
      <4> QED
        BY <3>1, <4>1, SizeArithmetic
    <3> QED
      BY <2>1, <2>2, <3>2, SizeArithmetic
  <2>6. IsFiniteSet(hash') /\ entry_count' = Cardinality(hash') /\ entry_count' \in Int
    <3>1. IsFiniteSet(hash) /\ entry_count = Cardinality(hash) /\ entry_count \in Int
      BY DEF Inv, TypeOK, CountOK
    <3>2. /\ IsFiniteSet(hash \cup {p})
          /\ Cardinality(hash \cup {p}) =
               IF p \in hash THEN Cardinality(hash) ELSE Cardinality(hash) + 1
      BY <3>1, FS_AddElement
    <3>3. CASE p \in hash
      BY <2>1, <3>1, <3>2, <3>3
    <3>4. CASE p \notin hash
      BY <2>1, <3>1, <3>2, <3>4
    <3> QED
      BY <3>3, <3>4
  <2>7. Links' \in LinksType /\ Threaded(Links', hash') /\ Loose(Links', hash')
    BY <2>1, MoveOK
  <2>8. hash' \in SUBSET Paths
    BY <1>0, <2>1
  <2> QED
    BY <1>0, <2>1, <2>4, <2>5, <2>6, <2>7, <2>8, NoOpTyped, InvFromParts
<1>6. CASE ForceEvict
  <2>1. /\ config' = config /\ now' = now
        /\ returned' = NULL /\ evicted' = lru_tail
        /\ op.call = "force" /\ op.count > 0 /\ op.count \in Nat
        /\ op' = [op EXCEPT !.count = op.count - 1]
        /\ lru_tail # NULL /\ Drop(lru_tail) /\ Become(RemoveTail(Links))
    BY <1>0, <1>6 DEF ForceEvict, Evicts, OpType
  <2>2. /\ lru_tail \in hash
        /\ Links' \in LinksType /\ Threaded(Links', hash') /\ Loose(Links', hash')
    BY <2>1, RemoveTailOK
  <2>3. op.count - 1 \in Nat
    BY <2>1
  <2>4. op' \in OpType
    BY <1>0, <2>1, <2>3, Zenon DEF OpType
  <2>5. op'.cursor = op.cursor /\ op'.call = "force" /\ op'.priority = op.priority
    BY <1>0, <2>1 DEF OpType
  <2> QED
    BY <1>0, <2>1, <2>2, <2>4, <2>5, DropOK, InvFromParts
<1> QED
  BY <1>1, <1>2, <1>3, <1>4, <1>5, <1>6 DEF SoundIterate

\* Without failed allocations and without cleanup_expired there are no other
\* steps.
LEMMA OnlySound ==
  ASSUME Inv, Next, "alloc_fail" \notin Env, "cleanup" \notin Env
  PROVE  SoundCall \/ SoundIterate
BY DEF Next, Call, Iterate, CleanupCall, CleanupStep, CleanupDone, PutNoEntry,
       PutNoContent, Inv

-----------------------------------------------------------------------------
(* The theorems.                                                           *)

\* Without failed allocations and without cleanup_expired, Inv is an invariant
\* of the cache.
THEOREM Invariance ==
  ASSUME "alloc_fail" \notin Env, "cleanup" \notin Env
  PROVE  Spec => []Inv
<1>1. Inv /\ [Next]_vars => Inv'
  <2> SUFFICES ASSUME Inv, [Next]_vars PROVE Inv'
    OBVIOUS
  <2>1. CASE Next
    BY <2>1, OnlySound, CallKeeps, IterateKeeps
  <2>2. CASE UNCHANGED vars
    BY <2>2 DEF vars, Inv, TypeOK, LinksOK, CountOK, Links, Loose, Threaded
  <2> QED
    BY <2>1, <2>2
<1> QED
  BY <1>1, InvInit, PTL DEF Spec

\* The entries of the hash table, and no others, are on the LRU list, and no
\* pointer of the list or of a running call leads to a freed entry, whatever
\* find, put, remove, clear, force_eviction and the setters do.
THEOREM ListIntact ==
  ASSUME "alloc_fail" \notin Env, "cleanup" \notin Env
  PROVE  Spec => []LinksOK
<1>1. Inv => LinksOK
  BY DEF Inv
<1> QED
  BY <1>1, Invariance, PTL

\* entry_count is the number of cached entries.
THEOREM CountExact ==
  ASSUME "alloc_fail" \notin Env, "cleanup" \notin Env
  PROVE  Spec => []CountOK
<1>1. Inv => CountOK
  BY DEF Inv
<1> QED
  BY <1>1, Invariance, PTL

-----------------------------------------------------------------------------
(* The memory of the entries.                                              *)

\* size_t holds the memory of all there is to cache, and of one entry more.
Addressable ==
  /\ IsFiniteSet(Paths)
  /\ \A f \in [Paths -> Usages \cup {0}], u \in Usages : SumFunctionOnSet(f, Paths) + u < SizeMod

\* What MemoryOK needs besides itself: an entry is as large as put computed, and
\* what is not cached has no size, so that put has nothing to subtract for it.
SizesOK ==
  /\ \A p \in hash : entry[p].memory_usage \in Usages
  /\ \A p \in Paths \ hash : entry[p].memory_usage = 0
  /\ op.call = "put" => op.usage \in Usages

MemoryInv == Inv /\ SizesOK /\ MemoryOK

\* The memory without an entry.
LEMMA MemoryWithout ==
  ASSUME NEW S, IsFiniteSet(S), NEW e, NEW p \in S, \A q \in S : e[q].memory_usage \in Nat,
         NEW d, \A q \in S \ {p} : d[q].memory_usage = e[q].memory_usage
  PROVE  /\ MemoryOf(d, S \ {p}) \in Nat
         /\ MemoryOf(e, S) = e[p].memory_usage + MemoryOf(d, S \ {p})
<1> DEFINE R == S \ {p}
           f == [q \in S |-> e[q].memory_usage]
           g == [q \in R |-> d[q].memory_usage]
<1>1. IsFiniteSet(R) BY FS_Subset
<1>2. \A q \in S : f[q] \in Nat OBVIOUS
<1>3. \A q \in R : f[q] = g[q] /\ g[q] \in Nat OBVIOUS
<1>4. f[p] = e[p].memory_usage OBVIOUS
<1>5. MemoryOf(e, S) = SumFunctionOnSet(f, S) /\ MemoryOf(d, R) = SumFunctionOnSet(g, R)
  BY DEF MemoryOf
<1> HIDE DEF f, g
<1>6. \A q \in S : f[q] \in Int BY <1>2
<1>7. SumFunctionOnSet(f, S) = f[p] + SumFunctionOnSet(f, R) BY <1>6, SumRemove
<1>8. SumFunctionOnSet(f, R) = SumFunctionOnSet(g, R) BY <1>1, <1>3, SumSame
<1>9. SumFunctionOnSet(g, R) \in Nat BY <1>1, <1>3, SumNat
<1> QED BY <1>4, <1>5, <1>7, <1>8, <1>9

\* The memory depends on the sizes of the entries.
LEMMA MemorySame ==
  ASSUME NEW S, IsFiniteSet(S), NEW e, NEW d,
         \A q \in S : d[q].memory_usage = e[q].memory_usage
  PROVE  MemoryOf(d, S) = MemoryOf(e, S)
<1>1. [q \in S |-> d[q].memory_usage] = [q \in S |-> e[q].memory_usage] OBVIOUS
<1> QED BY <1>1 DEF MemoryOf

\* Whatever is cached, and one entry more, fits in size_t.
LEMMA MemoryFits ==
  ASSUME Addressable, NEW S \in SUBSET Paths, NEW e,
         \A q \in S : e[q].memory_usage \in Usages, NEW u \in Usages
  PROVE  MemoryOf(e, S) \in Nat /\ MemoryOf(e, S) + u < SizeMod
<1> DEFINE f == [q \in Paths |-> IF q \in S THEN e[q].memory_usage ELSE 0]
           g == [q \in S |-> e[q].memory_usage]
<1>1. Usages \subseteq Nat /\ SizeMod \in Nat BY CacheAssumption
<1>2. f \in [Paths -> Usages \cup {0}] OBVIOUS
<1>3. \A q \in Paths : f[q] \in Nat BY <1>1
<1>4. \A q \in S : f[q] = g[q] OBVIOUS
<1>5. MemoryOf(e, S) = SumFunctionOnSet(g, S) BY DEF MemoryOf
<1>6. IsFiniteSet(Paths) /\ IsFiniteSet(S) /\ IsFiniteSet(Paths \ S)
  BY FS_Subset DEF Addressable
<1>7. SumFunctionOnSet(f, Paths) + u < SizeMod BY <1>2 DEF Addressable
<1> HIDE DEF f, g
<1>8. SumFunctionOnSet(f, S) = SumFunctionOnSet(g, S) BY <1>4, <1>6, SumSame
<1>9. SumFunctionOnSet(f, S) \in Nat /\ SumFunctionOnSet(f, Paths \ S) \in Nat
  BY <1>3, <1>6, SumNat
<1>10. SumFunctionOnSet(f, Paths) = SumFunctionOnSet(f, S) + SumFunctionOnSet(f, Paths \ S)
  <2>1. \A q \in Paths : f[q] \in Int BY <1>3
  <2> QED BY <1>6, <2>1, SumWithout
<1> QED BY <1>1, <1>5, <1>7, <1>8, <1>9, <1>10

\* An entry that is dropped takes just its memory with it.
LEMMA DropMemory ==
  ASSUME Addressable, MemoryInv, NEW p \in hash, Drop(p), op'.call = "put" => op'.usage \in Usages
  PROVE  SizesOK' /\ MemoryOK'
<1> DEFINE m == MemoryOf(entry, hash)
           r == MemoryOf(entry', hash \ {p})
<1>1. /\ hash' = hash \ {p} /\ hash \subseteq Paths /\ IsFiniteSet(hash) /\ p \in Paths
      /\ entry \in [Paths -> EntryType] /\ Usages \subseteq Nat /\ SizeMod \in Nat
  BY CacheAssumption DEF MemoryInv, Inv, TypeOK, Drop
<1>2. \A q \in Paths : entry'[q] = IF q = p THEN NoEntry ELSE entry[q]
  BY <1>1 DEF Drop
<1>3. NoEntry.memory_usage = 0 BY DEF NoEntry
<1>4. \A q \in hash : entry[q].memory_usage \in Usages BY DEF MemoryInv, SizesOK
<1>5. SizesOK' BY <1>1, <1>2, <1>3 DEF MemoryInv, SizesOK
<1>6. r \in Nat /\ m = entry[p].memory_usage + r
  <2>1. \A q \in hash : entry[q].memory_usage \in Nat BY <1>1, <1>4
  <2>2. \A q \in hash \ {p} : entry'[q].memory_usage = entry[q].memory_usage BY <1>1, <1>2
  <2> QED BY <1>1, <2>1, <2>2, MemoryWithout
<1>7. m + entry[p].memory_usage < SizeMod /\ m \in Nat BY <1>1, <1>4, MemoryFits
<1>8. total_memory_usage' = (m - entry[p].memory_usage) % SizeMod
  BY DEF MemoryInv, MemoryOK, Drop, Minus
<1>9. entry[p].memory_usage \in Nat BY <1>1, <1>4
<1>10. MemoryOK' <=> total_memory_usage' = r BY <1>1 DEF MemoryOK
<1> HIDE DEF m, r
<1>11. m - entry[p].memory_usage = r /\ r < SizeMod BY <1>6, <1>7, <1>9, <1>1
<1>12. r % SizeMod = r BY <1>1, <1>6, <1>11
<1> QED BY <1>5, <1>8, <1>10, <1>11, <1>12

\* put counts the entry it stores, and no longer what it replaces.
LEMMA StoreMemory ==
  ASSUME Addressable, MemoryInv, PutStore
  PROVE  SizesOK' /\ MemoryOK'
         /\ MemoryOf(entry', hash') <= total_memory_usage + op.usage
<1> DEFINE p == op.path
           m == MemoryOf(entry, hash)
           n == MemoryOf(entry', hash')
           r == MemoryOf(entry, hash \ {p})
           old == entry[p].memory_usage
           u == op.usage
<1>1. /\ hash' = hash \cup {p} /\ hash \subseteq Paths /\ IsFiniteSet(hash) /\ p \in Paths
      /\ entry \in [Paths -> EntryType] /\ Usages \subseteq Nat /\ SizeMod \in Nat
      /\ u \in Usages /\ op' = NoOp
  BY CacheAssumption DEF MemoryInv, Inv, TypeOK, SizesOK, PutStore
<1>2. \A q \in Paths : entry'[q].memory_usage = IF q = p THEN u ELSE entry[q].memory_usage
  BY <1>1 DEF PutStore
<1>3. /\ \A q \in hash : entry[q].memory_usage \in Usages
      /\ \A q \in Paths \ hash : entry[q].memory_usage = 0
  BY DEF MemoryInv, SizesOK
<1>4. SizesOK' BY <1>1, <1>2, <1>3, NoOpTyped DEF SizesOK
<1>5. /\ IsFiniteSet(hash') /\ IsFiniteSet(hash \ {p}) /\ hash' \ {p} = hash \ {p} /\ p \in hash'
      /\ hash' \in SUBSET Paths /\ hash \ {p} \in SUBSET Paths
  BY <1>1, FS_AddElement, FS_Subset
<1>6. \A q \in hash' : entry'[q].memory_usage \in Usages BY <1>1, <1>2, <1>3
<1>7. r \in Nat /\ n = u + r
  <2>1. \A q \in hash' : entry'[q].memory_usage \in Nat BY <1>1, <1>6
  <2>2. \A q \in hash' \ {p} : entry[q].memory_usage = entry'[q].memory_usage BY <1>1, <1>2
  <2>3. entry'[p].memory_usage = u BY <1>1, <1>2
  <2> QED BY <1>5, <2>1, <2>2, <2>3, MemoryWithout
<1>8. old \in Nat /\ m = old + r
  <2>1. CASE p \in hash
    <3>1. \A q \in hash : entry[q].memory_usage \in Nat BY <1>1, <1>3
    <3> QED BY <1>1, <2>1, <3>1, MemoryWithout
  <2>2. CASE p \notin hash
    <3>1. hash \ {p} = hash /\ old = 0 BY <1>1, <1>3, <2>2
    <3> QED BY <1>7, <3>1
  <2> QED BY <2>1, <2>2
<1>9. n + u < SizeMod /\ n \in Nat BY <1>1, <1>5, <1>6, MemoryFits
<1>10. m + u < SizeMod /\ m \in Nat BY <1>1, <1>3, MemoryFits
<1>11. total_memory_usage = m BY DEF MemoryInv, MemoryOK
<1>12. total_memory_usage' = (((m - old) % SizeMod) + u) % SizeMod
  BY <1>11 DEF PutStore, Plus, Minus
<1>13. MemoryOK' <=> total_memory_usage' = n BY DEF MemoryOK
<1>14. u \in Nat BY <1>1
<1> HIDE DEF p, m, n, r, old, u
<1>15. m - old = r /\ r < SizeMod /\ r + u = n /\ n < SizeMod
  BY <1>1, <1>7, <1>8, <1>9, <1>10, <1>14
<1>16. r % SizeMod = r /\ n % SizeMod = n BY <1>1, <1>7, <1>9, <1>15
<1>17. total_memory_usage' = n BY <1>12, <1>15, <1>16
<1>18. n <= total_memory_usage + u BY <1>7, <1>8, <1>11, <1>14
<1> QED BY <1>4, <1>13, <1>17, <1>18 DEF n, u

\* A step that leaves sizes, hash table and total alone.
LEMMA SameMemory ==
  ASSUME MemoryInv, hash' = hash, total_memory_usage' = total_memory_usage,
         \A q \in Paths : entry'[q].memory_usage = entry[q].memory_usage,
         op'.call = "put" => op'.usage \in Usages
  PROVE  SizesOK' /\ MemoryOK'
<1>1. IsFiniteSet(hash) /\ hash \subseteq Paths BY DEF MemoryInv, Inv, TypeOK
<1>2. MemoryOf(entry', hash) = MemoryOf(entry, hash) BY <1>1, MemorySame
<1>3. SizesOK' BY <1>1 DEF MemoryInv, SizesOK
<1> QED BY <1>2, <1>3 DEF MemoryInv, MemoryOK

\* Every step keeps the total exact.
LEMMA MemoryStep ==
  ASSUME Addressable, "alloc_fail" \notin Env, "cleanup" \notin Env, MemoryInv, Next
  PROVE  SizesOK' /\ MemoryOK'
<1>1. /\ op \in OpType /\ entry \in [Paths -> EntryType] /\ hash \subseteq Paths
      /\ op.call = "put" => op.usage \in Usages
      /\ NoOp.call = "none" /\ Inv
  BY NoOpTyped DEF MemoryInv, Inv, TypeOK, SizesOK
<1>2. ASSUME UNCHANGED store, op'.call = "put" => op'.usage \in Usages
      PROVE  SizesOK' /\ MemoryOK'
  BY <1>2, SameMemory DEF store
<1>3. CASE \E p \in Paths : Find(p) \/ Remove(p)
  <2>1. PICK p \in Paths : Find(p) \/ Remove(p) BY <1>3
  <2>2. op' = op /\ p \in hash /\ (Drop(p) \/ UNCHANGED store)
    BY <2>1 DEF Find, Remove, RemoveEntry
  <2> QED BY <1>1, <1>2, <2>2, DropMemory
<1>4. CASE \E p \in Paths, pr \in Priorities : SetEntryPriority(p, pr)
  <2>1. PICK p \in Paths, pr \in Priorities : SetEntryPriority(p, pr) BY <1>4
  <2>2. /\ op' = op /\ hash' = hash /\ total_memory_usage' = total_memory_usage
        /\ entry' = [entry EXCEPT ![p] = [entry[p] EXCEPT !.priority = pr]]
    BY <2>1 DEF SetEntryPriority
  <2>3. [entry[p] EXCEPT !.priority = pr].memory_usage = entry[p].memory_usage
    BY <1>1 DEF EntryType
  <2>4. \A q \in Paths : entry'[q].memory_usage = entry[q].memory_usage
    BY <1>1, <2>2, <2>3
  <2> QED BY <1>1, <2>2, <2>4, SameMemory
<1>5. CASE \E p \in Paths, u \in Usages, pr \in Priorities \cup {NoPriority} : PutCall(p, u, pr)
  <2>1. PICK p \in Paths, u \in Usages, pr \in Priorities \cup {NoPriority} : PutCall(p, u, pr)
    BY <1>5
  <2>2. op'.usage = u BY <2>1 DEF PutCall
  <2>3. UNCHANGED store \/ (p \in hash /\ Drop(p)) BY <2>1 DEF PutCall, RemoveEntry
  <2> QED BY <1>2, <2>2, <2>3, DropMemory
<1>6. CASE \E n \in 1 .. MaxForce : ForceCall(n)
  <2>1. UNCHANGED store /\ op'.call = "force" BY <1>6 DEF ForceCall, NoOp
  <2> QED BY <1>2, <2>1
<1>7. CASE Clear
  <2>1. /\ hash' = {} /\ total_memory_usage' = 0 /\ op' = op /\ op.call = "none"
        /\ entry' = [p \in Paths |-> NoEntry]
    BY <1>7 DEF Clear, Idle
  <2>2. MemoryOf(entry', {}) = 0 BY SumEmpty DEF MemoryOf
  <2>3. NoEntry.memory_usage = 0 BY DEF NoEntry
  <2> QED BY <2>1, <2>2, <2>3 DEF SizesOK, MemoryOK
<1>8. CASE Configure \/ Tick
  <2>1. UNCHANGED store /\ op' = op BY <1>8 DEF Configure, Tick
  <2> QED BY <1>1, <1>2, <2>1
<1>9. CASE PutSkip \/ PutFull \/ PutSpin \/ ForceDone
  <2>1. UNCHANGED store BY <1>9 DEF PutSkip, PutFull, PutSpin, ForceDone
  <2>2. op' = NoOp \/ (op'.usage = op.usage /\ op'.call = op.call)
    BY <1>1, <1>9 DEF PutSkip, PutFull, PutSpin, ForceDone, OpType
  <2> QED BY <1>1, <1>2, <2>1, <2>2
<1>10. CASE PutEvict
  <2>1. Drop(op.cursor) /\ op.cursor \in hash BY <1>1, <1>10 DEF PutEvict, Inv, LinksOK
  <2>2. op'.usage = op.usage /\ op'.call = op.call BY <1>1, <1>10 DEF PutEvict, OpType
  <2> QED BY <1>1, <2>1, <2>2, DropMemory
<1>11. CASE PutStore BY <1>11, StoreMemory
<1>12. CASE ForceEvict
  <2>1. Drop(lru_tail) /\ lru_tail \in hash
    BY <1>1, <1>12, RemoveTailOK DEF ForceEvict
  <2>2. op'.call = "force" BY <1>1, <1>12 DEF ForceEvict, OpType
  <2> QED BY <2>1, <2>2, DropMemory
<1>13. ~CleanupCall /\ ~PutNoEntry /\ ~PutNoContent /\ ~CleanupStep /\ ~CleanupDone
  BY <1>1 DEF CleanupCall, PutNoEntry, PutNoContent, CleanupStep, CleanupDone, Inv
<1> QED
  BY <1>3, <1>4, <1>5, <1>6, <1>7, <1>8, <1>9, <1>10, <1>11, <1>12, <1>13
  DEF Next, Call, SoundCall, Iterate, SoundIterate

\* Where memory is exact, MemoryInv is an invariant.
LEMMA MemoryInvariance ==
  ASSUME Addressable, "alloc_fail" \notin Env, "cleanup" \notin Env
  PROVE  Spec => []MemoryInv
<1>1. Init => MemoryInv
  <2> SUFFICES ASSUME Init PROVE MemoryInv OBVIOUS
  <2>1. Inv BY InvInit
  <2>2. MemoryOf(entry, {}) = 0 BY SumEmpty DEF MemoryOf
  <2>3. NoEntry.memory_usage = 0 BY DEF NoEntry
  <2>4. SizesOK BY <2>3, NoOpTyped DEF Init, SizesOK
  <2>5. MemoryOK BY <2>2 DEF Init, MemoryOK
  <2> QED BY <2>1, <2>4, <2>5 DEF MemoryInv
<1>2. MemoryInv /\ [Next]_vars => MemoryInv'
  <2> SUFFICES ASSUME MemoryInv, [Next]_vars PROVE MemoryInv' OBVIOUS
  <2>1. CASE Next BY <2>1, MemoryStep, OnlySound, CallKeeps, IterateKeeps DEF MemoryInv
  <2>2. CASE UNCHANGED vars
    <3>1. Inv' BY <2>2 DEF MemoryInv, vars, Inv, TypeOK, LinksOK, CountOK, Links, Loose, Threaded
    <3>2. SizesOK' /\ MemoryOK' BY <2>2 DEF MemoryInv, SizesOK, MemoryOK, vars
    <3> QED BY <3>1, <3>2 DEF MemoryInv
  <2> QED BY <2>1, <2>2
<1> QED BY <1>1, <1>2, PTL DEF Spec

\* total_memory_usage is the memory of the cached entries, whatever put, find,
\* remove, clear and the evictions replace and drop: without failed allocations
\* and cleanup_expired, in a process whose size_t holds all there is to cache.
THEOREM MemoryExact ==
  ASSUME Addressable, "alloc_fail" \notin Env, "cleanup" \notin Env
  PROVE  Spec => []MemoryOK
<1>1. MemoryInv => MemoryOK BY DEF MemoryInv
<1> QED BY <1>1, MemoryInvariance, PTL

\* A put that stores its entry leaves the cache within the limits of entries and
\* memory set at that moment: uvhttp_lru_cache_put evicts until there is room for
\* the new entry beside everything that is cached, and stores nothing before.
THEOREM PutStaysWithinLimits ==
  ASSUME Addressable, "alloc_fail" \notin Env, "cleanup" \notin Env
  PROVE  Spec => PutWithinLimits
<1> DEFINE Within ==
             /\ config.max_entries > 0 => Cardinality(hash') <= config.max_entries
             /\ config.max_memory_usage > 0 =>
                  MemoryOf(entry', hash') <= config.max_memory_usage
<1>1. MemoryInv /\ MemoryInv' /\ [Next]_vars => [PutStore => Within]_vars
  <2> SUFFICES ASSUME MemoryInv, MemoryInv', PutStore PROVE Within OBVIOUS
  <2>1. /\ hash \subseteq Paths /\ config \in ConfigType /\ entry_count = Cardinality(hash)
        /\ IsFiniteSet(hash) /\ MemoryOf(entry, hash) = total_memory_usage
        /\ op.usage \in Usages /\ ~NeedsRoom /\ hash' = hash \cup {op.path}
    BY DEF MemoryInv, Inv, TypeOK, CountOK, SizesOK, MemoryOK, PutStore
  <2>2. /\ config.max_entries \in Nat /\ config.max_memory_usage \in Nat
        /\ op.usage \in Nat /\ SizeMod \in Nat
    <3>1. config.max_entries \in EntryLimits /\ config.max_memory_usage \in MemoryLimits
      BY <2>1 DEF ConfigType
    <3>2. /\ EntryLimits \subseteq Nat /\ MemoryLimits \subseteq Nat
          /\ Usages \subseteq Nat /\ SizeMod \in Nat
      BY CacheAssumption
    <3> QED BY <2>1, <3>1, <3>2
  <2>3. config.max_entries > 0 => Cardinality(hash') <= config.max_entries
    <3>1. Cardinality(hash) \in Nat /\ Cardinality(hash') \in Nat
          /\ Cardinality(hash') <= Cardinality(hash) + 1
      BY <2>1, FS_AddElement, FS_CardinalityType
    <3> QED BY <2>1, <2>2, <3>1 DEF NeedsRoom
  <2>4. config.max_memory_usage > 0 => MemoryOf(entry', hash') <= config.max_memory_usage
    <3>1. /\ total_memory_usage \in Nat /\ total_memory_usage + op.usage < SizeMod
      <4>1. \A q \in hash : entry[q].memory_usage \in Usages BY DEF MemoryInv, SizesOK
      <4> QED BY <2>1, <4>1, MemoryFits
    <3>2. Plus(total_memory_usage, op.usage) = total_memory_usage + op.usage
      BY <2>2, <3>1 DEF Plus
    <3>3. MemoryOf(entry', hash') <= total_memory_usage + op.usage BY StoreMemory
    <3>4. MemoryOf(entry', hash') = total_memory_usage' /\ total_memory_usage' \in Nat
      BY DEF MemoryInv, MemoryOK, Inv, TypeOK
    <3>5. config.max_memory_usage > 0 =>
            10 * (total_memory_usage + op.usage) <= 9 * config.max_memory_usage
      <4>1. config.max_memory_usage > 0 =>
              ~(10 * (total_memory_usage + op.usage) > 9 * config.max_memory_usage)
        BY <2>1, <3>2 DEF NeedsRoom
      <4> QED BY <2>2, <3>1, <4>1
    <3> QED BY <2>2, <3>1, <3>3, <3>4, <3>5
  <2> QED BY <2>3, <2>4
<1> QED BY <1>1, MemoryInvariance, PTL DEF Spec, PutWithinLimits

-----------------------------------------------------------------------------
(* The order the pointers spell out.                                       *)

\* The n entries of S are, along the pointers of L, s[1], ..., s[n].
Spells(s, n, L, S) ==
  /\ n \in Nat /\ s \in [1 .. n -> S]
  /\ \A i \in 1 .. n, j \in 1 .. n : s[i] = s[j] => i = j
  /\ \A p \in S : \E i \in 1 .. n : s[i] = p
  /\ L.head = IF n = 0 THEN NULL ELSE s[1]
  /\ L.tail = IF n = 0 THEN NULL ELSE s[n]
  /\ \A i \in 1 .. n : /\ L.prev[s[i]] = IF i = 1 THEN NULL ELSE s[i - 1]
                       /\ L.next[s[i]] = IF i = n THEN NULL ELSE s[i + 1]

\* s without its i-th element, and with p in front.
Cut(s, n, i) == [k \in 1 .. n - 1 |-> IF k < i THEN s[k] ELSE s[k + 1]]
Front(p, s, n) == [k \in 1 .. n + 1 |-> IF k = 1 THEN p ELSE s[k - 1]]

\* An order lists each entry once.
LEMMA SpelledCount ==
  ASSUME NEW s, NEW n, NEW L, NEW S, Spells(s, n, L, S)
  PROVE  IsFiniteSet(S) /\ Cardinality(S) = n
<1>1. n \in Nat /\ s \in Bijection(1 .. n, S)
  BY DEF Spells, Bijection, Injection, Surjection, IsInjective
<1>2. IsFiniteSet(1 .. n) /\ Cardinality(1 .. n) = n
  BY <1>1, FS_Interval
<1> QED
  BY <1>1, <1>2, FS_Bijection DEF ExistsBijection

\* Reading the list from its head gives the order.
LEMMA AlongIs ==
  ASSUME NEW s, NEW n, NEW L, NEW S, Spells(s, n, L, S), NULL \notin S
  PROVE  Along(L, n) = s
<1> DEFINE Reads(f) == f = [k \in 1 .. n |-> IF k = 1 THEN L.head
                              ELSE IF f[k-1] = NULL THEN NULL ELSE L.next[f[k-1]]]
           at == CHOOSE f : Reads(f)
<1>1. Along(L, n) = at
  BY DEF Along
<1>2. n \in Nat /\ s \in [1 .. n -> S]
  BY DEF Spells
<1>3. ASSUME NEW k \in 1 .. n
      PROVE  s[k] = IF k = 1 THEN L.head
                    ELSE IF s[k-1] = NULL THEN NULL ELSE L.next[s[k-1]]
  <2>1. CASE k = 1
    BY <1>2, <2>1 DEF Spells
  <2>2. CASE k # 1
    <3>1. k - 1 \in 1 .. n /\ k - 1 # n /\ (k - 1) + 1 = k
      BY <1>2, <2>2
    <3>2. s[k - 1] \in S /\ L.next[s[k - 1]] = s[k]
      BY <1>2, <3>1 DEF Spells
    <3> QED
      BY <2>2, <3>2
  <2> QED
    BY <2>1, <2>2
<1>4. Reads(s)
  BY <1>2, <1>3
<1>5. Reads(at)
  BY <1>4
<1> HIDE DEF at
<1>6. \A k \in 1 .. n : at[k] = s[k]
  <2> DEFINE T == {k \in 1 .. n : at[k] # s[k]}
  <2>1. ASSUME T # {} PROVE FALSE
    <3>1. T \in SUBSET Nat
      BY <1>2
    <3>2. PICK k \in T : \A j \in T : k <= j
      BY <2>1, <3>1, LeastNat
    <3>3. k \in 1 .. n /\ at[k] # s[k]
      BY <3>2
    <3>4. k # 1 => k - 1 \in 1 .. n /\ at[k - 1] = s[k - 1]
      BY <1>2, <3>2, <3>3
    <3>5. at[k] = IF k = 1 THEN L.head
                  ELSE IF at[k-1] = NULL THEN NULL ELSE L.next[at[k-1]]
      BY <1>5, <3>3
    <3> QED
      BY <1>3, <3>3, <3>4, <3>5
  <2> QED
    BY <2>1
<1>7. DOMAIN at = 1 .. n /\ at = [k \in 1 .. n |-> at[k]]
  BY <1>5
<1> QED
  BY <1>1, <1>2, <1>6, <1>7

\* Taking an entry out of the list takes it out of the order.
LEMMA UnlinkSpells ==
  ASSUME NEW s, NEW n, NEW L \in LinksType, NEW S \in SUBSET Paths, Spells(s, n, L, S),
         NEW i \in 1 .. n
  PROVE  Spells(Cut(s, n, i), n - 1, Unlink(L, s[i]), S \ {s[i]})
<1> DEFINE p == s[i]
           M == Unlink(L, p)
           t == Cut(s, n, i)
           a == L.prev[p]
           b == L.next[p]
<1>1. /\ n \in Nat /\ n - 1 \in Nat /\ s \in [1 .. n -> S] /\ p \in S /\ p \in Paths
      /\ NULL \notin S /\ NULL \notin Paths
  BY CacheAssumption DEF Spells
<1>2. /\ a = (IF i = 1 THEN NULL ELSE s[i - 1])
      /\ b = (IF i = n THEN NULL ELSE s[i + 1])
  BY DEF Spells
<1>3. /\ M.head = (IF a = NULL THEN b ELSE L.head)
      /\ M.tail = (IF b = NULL THEN a ELSE L.tail)
      /\ \A q \in Paths :
           /\ M.next[q] = IF q = p THEN NULL ELSE IF q = a THEN b ELSE L.next[q]
           /\ M.prev[q] = IF q = p THEN NULL ELSE IF q = b THEN a ELSE L.prev[q]
  BY DEF Unlink, Detached, Set
<1>4. /\ \A k \in 1 .. n - 1 : t[k] = IF k < i THEN s[k] ELSE s[k + 1]
      /\ DOMAIN t = 1 .. n - 1 /\ t = [k \in 1 .. n - 1 |-> t[k]]
  BY DEF Cut
<1>5. \A j \in 1 .. n : \A k \in 1 .. n : s[j] = s[k] => j = k
  BY DEF Spells
<1> HIDE DEF M, t, a, b
<1>6. \A k \in 1 .. n - 1 : t[k] \in S \ {p}
  <2>1. ASSUME NEW k \in 1 .. n - 1 PROVE t[k] \in S \ {p}
    <3>1. k \in 1 .. n /\ k + 1 \in 1 .. n
      BY <1>1
    <3> QED
      BY <1>1, <1>4, <1>5, <3>1
  <2> QED
    BY <2>1
<1>7. t \in [1 .. n - 1 -> S \ {p}]
  BY <1>4, <1>6
<1>8. \A j \in 1 .. n - 1, k \in 1 .. n - 1 : t[j] = t[k] => j = k
  <2>1. ASSUME NEW j \in 1 .. n - 1, NEW k \in 1 .. n - 1, t[j] = t[k] PROVE j = k
    <3>1. k \in 1 .. n /\ k + 1 \in 1 .. n /\ j \in 1 .. n /\ j + 1 \in 1 .. n
      BY <1>1
    <3> QED
      BY <1>1, <1>4, <1>5, <2>1, <3>1
  <2> QED
    BY <2>1
<1>9. \A q \in S \ {p} : \E k \in 1 .. n - 1 : t[k] = q
  <2>1. ASSUME NEW q \in S \ {p} PROVE \E k \in 1 .. n - 1 : t[k] = q
    <3>1. PICK j \in 1 .. n : s[j] = q
      BY DEF Spells
    <3>2. j # i
      BY <3>1
    <3>3. CASE j < i
      <4>1. j \in 1 .. n - 1
        BY <1>1, <3>3
      <4> QED
        BY <1>4, <3>1, <3>3, <4>1
    <3>4. CASE j > i
      <4>1. j - 1 \in 1 .. n - 1 /\ ~(j - 1 < i) /\ (j - 1) + 1 = j
        BY <1>1, <3>4
      <4>2. t[j - 1] = s[j]
        BY <1>4, <4>1
      <4> QED
        BY <3>1, <4>1, <4>2
    <3> QED
      BY <1>1, <3>2, <3>3, <3>4
  <2> QED
    BY <2>1
<1>10. M.head = IF n - 1 = 0 THEN NULL ELSE t[1]
  <2>1. L.head = s[1]
    BY <1>1 DEF Spells
  <2>2. CASE i = 1
    <3>1. M.head = b
      BY <1>2, <1>3, <2>2
    <3>2. n - 1 # 0 => 1 \in 1 .. n - 1 /\ t[1] = s[2]
      BY <1>1, <1>4, <2>2
    <3> QED
      BY <1>1, <1>2, <2>2, <3>1, <3>2
  <2>3. CASE i # 1
    <3>1. i - 1 \in 1 .. n /\ a # NULL
      BY <1>1, <1>2, <2>3
    <3>2. n - 1 # 0 /\ 1 \in 1 .. n - 1 /\ 1 < i
      BY <1>1, <2>3
    <3> QED
      BY <1>3, <1>4, <2>1, <3>1, <3>2
  <2> QED
    BY <2>2, <2>3
<1>11. M.tail = IF n - 1 = 0 THEN NULL ELSE t[n - 1]
  <2>1. L.tail = s[n]
    BY <1>1 DEF Spells
  <2>2. CASE i = n
    <3>1. M.tail = a
      BY <1>2, <1>3, <2>2
    <3>2. n - 1 # 0 => n - 1 \in 1 .. n - 1 /\ t[n - 1] = s[n - 1]
      BY <1>1, <1>4, <2>2
    <3> QED
      BY <1>1, <1>2, <2>2, <3>1, <3>2
  <2>3. CASE i # n
    <3>1. i + 1 \in 1 .. n /\ b # NULL
      BY <1>1, <1>2, <2>3
    <3>2. n - 1 # 0 /\ n - 1 \in 1 .. n - 1 /\ ~(n - 1 < i) /\ (n - 1) + 1 = n
      BY <1>1, <2>3
    <3>3. t[n - 1] = s[n]
      BY <1>4, <3>2
    <3> QED
      BY <1>3, <2>1, <3>1, <3>2, <3>3
  <2> QED
    BY <2>2, <2>3
<1>12. ASSUME NEW k \in 1 .. n - 1
       PROVE  /\ M.prev[t[k]] = IF k = 1 THEN NULL ELSE t[k - 1]
              /\ M.next[t[k]] = IF k = n - 1 THEN NULL ELSE t[k + 1]
  <2>0. /\ t[k] \in S \ {p} /\ t[k] \in Paths /\ k \in 1 .. n /\ k + 1 \in 1 .. n
        /\ k # 1 => k - 1 \in 1 .. n /\ k - 1 \in 1 .. n - 1 /\ (k - 1) + 1 = k
        /\ k # n - 1 => k + 1 \in 1 .. n - 1 /\ (k + 1) + 1 \in 1 .. n
    BY <1>1, <1>6
  <2>1. /\ M.next[t[k]] = IF t[k] = a THEN b ELSE L.next[t[k]]
        /\ M.prev[t[k]] = IF t[k] = b THEN a ELSE L.prev[t[k]]
    BY <1>3, <2>0
  <2>2. CASE k < i
    <3>1. t[k] = s[k] /\ L.prev[s[k]] = (IF k = 1 THEN NULL ELSE s[k - 1])
          /\ L.next[s[k]] = (IF k = n THEN NULL ELSE s[k + 1])
      BY <1>4, <2>0, <2>2 DEF Spells
    <3>2. t[k] # b
      <4>1. CASE i = n
        BY <1>1, <1>2, <2>0, <4>1
      <4>2. CASE i # n
        <5>1. i + 1 \in 1 .. n /\ i + 1 # k
          BY <1>1, <2>2, <4>2
        <5> QED
          BY <1>2, <1>5, <2>0, <3>1, <4>2, <5>1
      <4> QED
        BY <4>1, <4>2
    <3>3. k # 1 => t[k - 1] = s[k - 1]
      <4>1. k # 1 => k - 1 < i
        BY <2>0, <2>2
      <4> QED
        BY <1>4, <2>0, <4>1
    <3>4. M.prev[t[k]] = IF k = 1 THEN NULL ELSE t[k - 1]
      BY <2>1, <3>1, <3>2, <3>3
    <3>5. CASE k + 1 = i
      <4>1. i # 1 /\ i - 1 = k
        BY <1>1, <2>0, <3>5
      <4>2. M.next[t[k]] = b
        BY <1>2, <2>1, <3>1, <4>1
      <4>3. k = n - 1 <=> i = n
        BY <1>1, <3>5
      <4>4. k # n - 1 => t[k + 1] = s[i + 1]
        <5>1. ~(k + 1 < i)
          BY <1>1, <3>5
        <5> QED
          BY <1>4, <2>0, <3>5, <5>1
      <4> QED
        BY <1>2, <3>4, <4>2, <4>3, <4>4
    <3>6. CASE k + 1 # i
      <4>1. k + 1 < i /\ k # n - 1 /\ k # n
        BY <1>1, <2>2, <3>6
      <4>2. t[k] # a
        <5>1. CASE i = 1
          BY <1>1, <1>2, <2>0, <5>1
        <5>2. CASE i # 1
          <6>1. i - 1 \in 1 .. n /\ i - 1 # k
            BY <1>1, <3>6, <5>2
          <6> QED
            BY <1>2, <1>5, <2>0, <3>1, <5>2, <6>1
        <5> QED
          BY <5>1, <5>2
      <4>3. t[k + 1] = s[k + 1]
        BY <1>4, <2>0, <4>1
      <4> QED
        BY <2>1, <3>1, <3>4, <4>1, <4>2, <4>3
    <3> QED
      BY <3>4, <3>5, <3>6
  <2>3. CASE ~(k < i)
    <3>1. t[k] = s[k + 1] /\ L.prev[s[k + 1]] = s[k]
          /\ L.next[s[k + 1]] = (IF k + 1 = n THEN NULL ELSE s[(k + 1) + 1])
      <4>1. k + 1 # 1 /\ (k + 1) - 1 = k
        BY <2>0
      <4>2. L.prev[s[k + 1]] = (IF k + 1 = 1 THEN NULL ELSE s[(k + 1) - 1])
            /\ L.next[s[k + 1]] = (IF k + 1 = n THEN NULL ELSE s[(k + 1) + 1])
        BY <2>0 DEF Spells
      <4> QED
        BY <1>4, <2>3, <4>1, <4>2
    <3>2. t[k] # a
      <4>1. CASE i = 1
        BY <1>1, <1>2, <2>0, <4>1
      <4>2. CASE i # 1
        <5>1. i - 1 \in 1 .. n /\ i - 1 # k + 1
          BY <1>1, <2>3, <4>2
        <5> QED
          BY <1>2, <1>5, <2>0, <3>1, <4>2, <5>1
      <4> QED
        BY <4>1, <4>2
    <3>3. k # n - 1 => t[k + 1] = s[(k + 1) + 1]
      <4>1. ~(k + 1 < i)
        BY <2>0, <2>3
      <4> QED
        BY <1>4, <2>0, <4>1
    <3>4. M.next[t[k]] = IF k = n - 1 THEN NULL ELSE t[k + 1]
      <4>1. k + 1 = n <=> k = n - 1
        BY <1>1
      <4> QED
        BY <2>1, <3>1, <3>2, <3>3, <4>1
    <3>5. CASE k = i
      <4>1. i # n
        BY <1>1, <3>5
      <4>2. t[k] = b
        BY <1>2, <3>1, <3>5, <4>1
      <4>3. M.prev[t[k]] = IF i = 1 THEN NULL ELSE s[i - 1]
        BY <1>2, <2>1, <4>2
      <4>4. k # 1 => t[k - 1] = s[k - 1]
        <5>1. k - 1 < i
          BY <3>5
        <5> QED
          BY <1>4, <2>0, <5>1
      <4> QED
        BY <3>4, <3>5, <4>3, <4>4
    <3>6. CASE k # i
      <4>1. k > i /\ k # 1
        BY <2>0, <2>3, <3>6
      <4>2. t[k] # b
        <5>1. CASE i = n
          BY <1>1, <1>2, <2>0, <5>1
        <5>2. CASE i # n
          <6>1. i + 1 \in 1 .. n /\ i + 1 # k + 1
            BY <1>1, <3>6, <5>2
          <6> QED
            BY <1>2, <1>5, <2>0, <3>1, <5>2, <6>1
        <5> QED
          BY <5>1, <5>2
      <4>3. t[k - 1] = s[k]
        <5>1. ~(k - 1 < i)
          BY <2>0, <4>1
        <5> QED
          BY <1>4, <2>0, <4>1, <5>1
      <4> QED
        BY <2>1, <3>1, <3>4, <4>1, <4>2, <4>3
    <3> QED
      BY <3>4, <3>5, <3>6
  <2> QED
    BY <2>2, <2>3
<1>13. Spells(t, n - 1, M, S \ {p})
  BY <1>1, <1>7, <1>8, <1>9, <1>10, <1>11, <1>12 DEF Spells
<1> QED
  BY <1>13 DEF t, M

\* A new entry comes first.
LEMMA PushSpells ==
  ASSUME NEW s, NEW n, NEW L \in LinksType, NEW S \in SUBSET Paths, Spells(s, n, L, S),
         NEW p \in Paths \ S
  PROVE  Spells(Front(p, s, n), n + 1, PushHead(L, p), S \cup {p})
<1> DEFINE M == PushHead(L, p)
           t == Front(p, s, n)
<1>1. /\ n \in Nat /\ n + 1 \in Nat /\ s \in [1 .. n -> S] /\ 1 \in 1 .. n + 1
      /\ NULL \notin S /\ NULL \notin Paths
  BY CacheAssumption DEF Spells
<1>2. /\ M.head = p
      /\ M.tail = (IF L.tail = NULL THEN p ELSE L.tail)
      /\ \A q \in Paths :
           /\ M.next[q] = IF q = p THEN L.head ELSE L.next[q]
           /\ M.prev[q] = IF q = L.head THEN p ELSE IF q = p THEN NULL ELSE L.prev[q]
  BY DEF PushHead, Set
<1>3. /\ \A k \in 1 .. n + 1 : t[k] = IF k = 1 THEN p ELSE s[k - 1]
      /\ t = [k \in 1 .. n + 1 |-> t[k]]
  BY DEF Front
<1> HIDE DEF M, t
<1>4. t[1] = p /\ \A k \in 1 .. n : k + 1 \in 1 .. n + 1 /\ t[k + 1] = s[k]
  <2>1. ASSUME NEW k \in 1 .. n PROVE k + 1 \in 1 .. n + 1 /\ t[k + 1] = s[k]
    <3>1. k + 1 \in 1 .. n + 1 /\ k + 1 # 1 /\ (k + 1) - 1 = k
      BY <1>1
    <3> QED
      BY <1>3, <3>1
  <2> QED
    BY <1>1, <1>3, <2>1
<1>5. \A k \in 1 .. n + 1 : k # 1 => k - 1 \in 1 .. n /\ t[k] = s[k - 1] /\ t[k] \in S
  BY <1>1, <1>3
<1>6. t \in [1 .. n + 1 -> S \cup {p}]
  <2>1. \A k \in 1 .. n + 1 : t[k] \in S \cup {p}
    BY <1>4, <1>5
  <2> QED
    BY <1>3, <2>1
<1>7. \A j \in 1 .. n + 1, k \in 1 .. n + 1 : t[j] = t[k] => j = k
  <2>1. ASSUME NEW j \in 1 .. n + 1, NEW k \in 1 .. n + 1, t[j] = t[k], j # 1, k # 1
        PROVE  j = k
    <3>1. j - 1 \in 1 .. n /\ k - 1 \in 1 .. n /\ s[j - 1] = s[k - 1]
      BY <1>5, <2>1
    <3>2. j - 1 = k - 1
      BY <3>1 DEF Spells
    <3> QED
      BY <1>1, <3>2
  <2> QED
    BY <1>4, <1>5, <2>1
<1>8. \A q \in S \cup {p} : \E k \in 1 .. n + 1 : t[k] = q
  <2>1. ASSUME NEW q \in S PROVE \E k \in 1 .. n + 1 : t[k] = q
    <3>1. PICK k \in 1 .. n : s[k] = q
      BY DEF Spells
    <3> QED
      BY <1>4, <3>1
  <2> QED
    BY <1>1, <1>4, <2>1
<1>9. M.head = IF n + 1 = 0 THEN NULL ELSE t[1]
  BY <1>1, <1>2, <1>4
<1>10. M.tail = IF n + 1 = 0 THEN NULL ELSE t[n + 1]
  <2>1. CASE n = 0
    BY <1>1, <1>2, <1>4, <2>1 DEF Spells
  <2>2. CASE n # 0
    <3>1. n \in 1 .. n
      BY <1>1, <2>2
    <3>2. L.tail = s[n] /\ L.tail # NULL
      BY <1>1, <2>2, <3>1 DEF Spells
    <3> QED
      BY <1>1, <1>2, <1>4, <3>1, <3>2
  <2> QED
    BY <2>1, <2>2
<1>11. ASSUME NEW k \in 1 .. n + 1
       PROVE  /\ M.prev[t[k]] = IF k = 1 THEN NULL ELSE t[k - 1]
              /\ M.next[t[k]] = IF k = n + 1 THEN NULL ELSE t[k + 1]
  <2>1. CASE k = 1
    <3>1. t[k] = p /\ L.head # p
      BY <1>1, <1>4, <2>1 DEF Spells
    <3>2. M.prev[p] = NULL /\ M.next[p] = L.head
      BY <1>2, <3>1
    <3>3. CASE n = 0
      BY <2>1, <3>1, <3>2, <3>3 DEF Spells
    <3>4. CASE n # 0
      <4>1. 1 \in 1 .. n /\ k # n + 1 /\ k + 1 = 1 + 1
        BY <1>1, <2>1, <3>4
      <4>2. t[k + 1] = s[1]
        BY <1>4, <4>1
      <4>3. L.head = s[1]
        BY <3>4 DEF Spells
      <4> QED
        BY <2>1, <3>1, <3>2, <4>1, <4>2, <4>3
    <3> QED
      BY <3>3, <3>4
  <2>2. CASE k # 1
    <3> DEFINE j == k - 1
    <3>1. j \in 1 .. n /\ j + 1 = k /\ t[k] = s[j] /\ s[j] \in S /\ s[j] # p /\ s[j] \in Paths
      BY <1>1, <1>5, <2>2
    <3>2. /\ L.prev[s[j]] = IF j = 1 THEN NULL ELSE s[j - 1]
          /\ L.next[s[j]] = IF j = n THEN NULL ELSE s[j + 1]
      BY <3>1 DEF Spells
    <3>3. L.head = s[1] /\ (j # 1 => s[j] # s[1])
      <4>1. 1 \in 1 .. n /\ n # 0
        BY <1>1, <3>1
      <4> QED
        BY <3>1, <4>1 DEF Spells
    <3>4. M.prev[t[k]] = t[j]
      <4>1. CASE j = 1
        BY <1>2, <1>4, <3>1, <3>3, <4>1
      <4>2. CASE j # 1
        <5>1. j - 1 \in 1 .. n /\ (j - 1) + 1 = j
          BY <1>1, <3>1, <4>2
        <5>2. t[j] = s[j - 1]
          BY <1>4, <5>1
        <5> QED
          BY <1>2, <3>1, <3>2, <3>3, <4>2, <5>2
      <4> QED
        BY <4>1, <4>2
    <3>5. M.next[t[k]] = IF k = n + 1 THEN NULL ELSE t[k + 1]
      <4>1. M.next[t[k]] = L.next[s[j]]
        BY <1>2, <3>1
      <4>2. j = n <=> k = n + 1
        BY <1>1, <3>1
      <4>3. k # n + 1 => t[k + 1] = s[j + 1]
        <5>1. k # n + 1 => k \in 1 .. n
          BY <1>1
        <5> QED
          BY <1>4, <3>1, <5>1
      <4> QED
        BY <3>2, <4>1, <4>2, <4>3
    <3> QED
      BY <2>2, <3>4, <3>5
  <2> QED
    BY <2>1, <2>2
<1>12. Spells(t, n + 1, M, S \cup {p})
  BY <1>1, <1>6, <1>7, <1>8, <1>9, <1>10, <1>11 DEF Spells
<1> QED
  BY <1>12 DEF t, M

\* An order that an entry is taken out of and put in front of, or just put in
\* front of.
Moved(s, n, p, t, m) ==
  \/ (\A i \in 1 .. n : s[i] # p) /\ m = n + 1 /\ t = Front(p, s, n)
  \/ m = n /\ \E i \in 1 .. n : s[i] = p /\ t = Front(p, Cut(s, n, i), n - 1)

\* uvhttp_lru_cache_move_to_head brings the entry to the front of the order.
LEMMA MoveSpells ==
  ASSUME NEW s, NEW n, NEW L \in LinksType, NEW S \in SUBSET Paths, Spells(s, n, L, S),
         Threaded(L, S), Loose(L, S), NEW p \in Paths
  PROVE  \E t, m : Spells(t, m, MoveToHead(L, p), S \cup {p}) /\ Moved(s, n, p, t, m)
<1>0. n \in Nat /\ s \in [1 .. n -> S] /\ NULL \notin Paths
  BY CacheAssumption DEF Spells
<1>1. CASE p \notin S
  <2>1. MoveToHead(L, p) = PushHead(L, p)
    BY <1>1, MoveNewIsPush
  <2>2. Spells(Front(p, s, n), n + 1, MoveToHead(L, p), S \cup {p})
    BY <1>1, <2>1, PushSpells
  <2>3. Moved(s, n, p, Front(p, s, n), n + 1)
    BY <1>0, <1>1 DEF Moved
  <2> QED
    BY <2>2, <2>3
<1>2. CASE p \in S
  <2>1. PICK i \in 1 .. n : s[i] = p
    BY <1>2 DEF Spells
  <2> DEFINE t == Front(p, Cut(s, n, i), n - 1)
  <2>2. Moved(s, n, p, t, n)
    BY <2>1 DEF Moved
  <2>3. S \cup {p} = S /\ (S \ {p}) \cup {p} = S /\ n \in Nat /\ n - 1 \in Nat
        /\ (n - 1) + 1 = n /\ p \in Paths \ (S \ {p}) /\ S \ {p} \in SUBSET Paths
    BY <1>0, <1>2
  <2>4. CASE p = L.head
    <3>1. i = 1
      BY <1>0, <2>1, <2>4 DEF Spells
    <3>2. t = s
      <4>1. \A k \in 1 .. n : t[k] = s[k]
        <5>1. ASSUME NEW k \in 1 .. n PROVE t[k] = s[k]
          <6>1. CASE k = 1
            BY <2>1, <2>3, <3>1, <6>1 DEF Front
          <6>2. CASE k # 1
            <7>1. k - 1 \in 1 .. n - 1 /\ ~(k - 1 < 1) /\ (k - 1) + 1 = k
              BY <1>0, <6>2
            <7>2. t[k] = Cut(s, n, i)[k - 1]
              BY <2>3, <6>2 DEF Front
            <7>3. Cut(s, n, i)[k - 1] = s[(k - 1) + 1]
              BY <3>1, <7>1 DEF Cut
            <7> QED
              BY <7>1, <7>2, <7>3
          <6> QED
            BY <6>1, <6>2
        <5> QED
          BY <5>1
      <4>2. t = [k \in 1 .. n |-> t[k]]
        BY <2>3 DEF Front
      <4> HIDE DEF t
      <4> QED
        BY <1>0, <4>1, <4>2
    <3>3. MoveToHead(L, p) = L
      BY <2>4 DEF MoveToHead
    <3>4. Spells(s, n, MoveToHead(L, p), S \cup {p})
      BY <2>3, <3>3
    <3>5. Moved(s, n, p, s, n)
      BY <2>2, <3>2
    <3> QED
      BY <3>4, <3>5
  <2>5. CASE p # L.head
    <3>1. MoveToHead(L, p) = PushHead(Unlink(L, p), p)
      BY <1>2, <2>5 DEF MoveToHead, Threaded
    <3>2. Unlink(L, p) \in LinksType
      BY <1>2, UnlinkThreaded
    <3>3. Spells(Cut(s, n, i), n - 1, Unlink(L, p), S \ {p})
      BY <2>1, UnlinkSpells
    <3>4. Spells(t, (n - 1) + 1, PushHead(Unlink(L, p), p), (S \ {p}) \cup {p})
      BY <2>3, <3>2, <3>3, PushSpells
    <3>5. Spells(t, n, MoveToHead(L, p), S \cup {p})
      BY <2>3, <3>1, <3>4
    <3> HIDE DEF t
    <3> QED
      BY <2>2, <3>5
  <2> QED
    BY <2>4, <2>5
<1> QED
  BY <1>1, <1>2

\* A second move to the head changes nothing.
LEMMA MovedIsHead ==
  ASSUME NEW L \in LinksType, NEW p \in Paths
  PROVE  MoveToHead(MoveToHead(L, p), p) = MoveToHead(L, p)
<1>1. MoveToHead(L, p).head = p
  BY DEF MoveToHead, PushHead
<1> QED
  BY <1>1 DEF MoveToHead

-----------------------------------------------------------------------------
(* The pointer list implements the sequence of RecencyList.                *)

\* The pointers spell an order; a put has found nothing but protected entries
\* behind its cursor.
Listed == Spells(Order, Cardinality(hash), Links, hash)

Behind ==
  op.call = "put" /\ op.cursor # NULL =>
    \E c \in 1 .. Cardinality(hash) :
      /\ Order[c] = op.cursor
      /\ \A j \in c + 1 .. Cardinality(hash) : Protected(Order[j])

RecencyInv == Inv /\ Listed /\ Behind

\* The order of the next state, once its pointers are known.
LEMMA OrderBecomes ==
  ASSUME NEW s, NEW n, NEW L, Links' = L, hash' \in SUBSET Paths, Spells(s, n, L, hash')
  PROVE  Order' = s /\ Cardinality(hash') = n /\ Listed'
<1>1. NULL \notin hash'
  BY CacheAssumption
<1>2. Cardinality(hash') = n
  BY SpelledCount
<1>3. Along(L, n) = s
  BY <1>1, AlongIs
<1>4. Order' = s
  BY <1>2, <1>3 DEF Order
<1> QED
  BY <1>2, <1>4 DEF Listed

\* An entry that is removed leaves the order.
LEMMA RemoveOrder ==
  ASSUME RecencyInv, NEW i \in 1 .. Cardinality(hash), hash' = hash \ {Order[i]},
         Become(Unlink(Links, Order[i]))
  PROVE  Order' = Cut(Order, Cardinality(hash), i) /\ Listed'
<1>1. Links \in LinksType /\ hash \in SUBSET Paths /\ Threaded(Links, hash) /\ Loose(Links, hash)
  BY LinksTyped DEF RecencyInv, Inv, TypeOK, LinksOK
<1>2. Spells(Order, Cardinality(hash), Links, hash)
  BY DEF RecencyInv, Listed
<1>3. Order[i] \in hash
  BY <1>2 DEF Spells
<1>4. Unlink(Links, Order[i]) \in LinksType
  BY <1>1, <1>3, UnlinkThreaded
<1>5. Links' = Unlink(Links, Order[i])
  BY <1>4, LinksRecord
<1>6. Spells(Cut(Order, Cardinality(hash), i), Cardinality(hash) - 1,
             Unlink(Links, Order[i]), hash')
  BY <1>1, <1>2, UnlinkSpells
<1>7. hash' \in SUBSET Paths
  BY <1>1
<1> QED
  BY <1>5, <1>6, <1>7, OrderBecomes

\* An entry that is used or stored comes first.
LEMMA MoveOrder ==
  ASSUME RecencyInv, NEW p \in Paths, hash' = hash \cup {p},
         Become(MoveToHead(Links, p))
  PROVE  Moved(Order, Cardinality(hash), p, Order', Cardinality(hash')) /\ Listed'
<1>1. Links \in LinksType /\ hash \in SUBSET Paths /\ Threaded(Links, hash) /\ Loose(Links, hash)
  BY LinksTyped DEF RecencyInv, Inv, TypeOK, LinksOK
<1>2. Spells(Order, Cardinality(hash), Links, hash)
  BY DEF RecencyInv, Listed
<1>3. MoveToHead(Links, p) \in LinksType
  BY <1>1, MoveThreaded
<1>4. Links' = MoveToHead(Links, p)
  BY <1>3, LinksRecord
<1>5. PICK t, m : /\ Spells(t, m, MoveToHead(Links, p), hash')
                  /\ Moved(Order, Cardinality(hash), p, t, m)
  BY <1>1, <1>2, MoveSpells
<1>6. hash' \in SUBSET Paths
  BY <1>1
<1>7. Order' = t /\ Cardinality(hash') = m /\ Listed'
  BY <1>4, <1>5, <1>6, OrderBecomes
<1> QED
  BY <1>5, <1>7

\* A step that leaves the list alone leaves the order alone.
LEMMA SameOrder ==
  ASSUME RecencyInv, hash' = hash, UNCHANGED links
  PROVE  Order' = Order /\ Listed'
<1>1. Links' = Links
  BY DEF links, Links
<1> QED
  BY <1>1 DEF RecencyInv, Listed, Order

\* The tail is the last of the order.
LEMMA TailLast ==
  ASSUME RecencyInv, lru_tail # NULL
  PROVE  Cardinality(hash) \in 1 .. Cardinality(hash) /\ Order[Cardinality(hash)] = lru_tail
<1>1. Spells(Order, Cardinality(hash), Links, hash) /\ Links.tail = lru_tail
  BY DEF RecencyInv, Listed, Links
<1> QED
  BY <1>1 DEF Spells

\* A put that starts at the tail has nothing behind its cursor.
LEMMA BehindTail ==
  ASSUME Listed', op'.cursor = lru_tail'
  PROVE  Behind'
<1>1. Spells(Order', Cardinality(hash'), Links', hash') /\ Links'.tail = lru_tail'
  BY DEF Listed, Links
<1>2. ASSUME lru_tail' # NULL
      PROVE  /\ Cardinality(hash') \in 1 .. Cardinality(hash')
             /\ Order'[Cardinality(hash')] = lru_tail'
             /\ Cardinality(hash') + 1 .. Cardinality(hash') = {}
  BY <1>1, <1>2 DEF Spells
<1> QED
  BY <1>2 DEF Behind

\* Orders as sequences.
LEMMA OrderSeq ==
  ASSUME NEW s, NEW n \in Nat, NEW S, s \in [1 .. n -> S]
  PROVE  /\ s \in Seq(S) /\ Len(s) = n
         /\ \A p : <<p>> \o s = Front(p, s, n)
         /\ \A i \in 1 .. n : Recency!RemoveAt(s, i) = Cut(s, n, i)
                              /\ Cut(s, n, i) \in [1 .. n - 1 -> S]
<1>1. s \in Seq(S) /\ Len(s) = n
  OBVIOUS
<1>2. ASSUME NEW p PROVE <<p>> \o s = Front(p, s, n)
  BY <1>1 DEF Front
<1>3. ASSUME NEW i \in 1 .. n
      PROVE  Recency!RemoveAt(s, i) = Cut(s, n, i) /\ Cut(s, n, i) \in [1 .. n - 1 -> S]
  <2> DEFINE A == SubSeq(s, 1, i - 1)
             B == SubSeq(s, i + 1, n)
  <2>1. Recency!RemoveAt(s, i) = A \o B
    BY <1>1 DEF Recency!RemoveAt
  <2>2. /\ A \in Seq(S) /\ Len(A) = i - 1 /\ \A k \in 1 .. i - 1 : A[k] = s[k]
        /\ B \in Seq(S) /\ Len(B) = n - i /\ \A k \in 1 .. n - i : B[k] = s[i + k]
    BY <1>1
  <2> HIDE DEF A, B
  <2>3. /\ A \o B \in Seq(S) /\ Len(A \o B) = n - 1
        /\ \A k \in 1 .. n - 1 : (A \o B)[k] = IF k <= i - 1 THEN A[k] ELSE B[k - (i - 1)]
    BY <2>2
  <2>4. \A k \in 1 .. n - 1 : (A \o B)[k] = IF k < i THEN s[k] ELSE s[k + 1]
    <3>1. ASSUME NEW k \in 1 .. n - 1 PROVE (A \o B)[k] = IF k < i THEN s[k] ELSE s[k + 1]
      <4>1. CASE k < i
        BY <2>2, <2>3, <4>1
      <4>2. CASE ~(k < i)
        <5>1. k - (i - 1) \in 1 .. n - i /\ i + (k - (i - 1)) = k + 1 /\ ~(k <= i - 1)
          BY <4>2
        <5> QED
          BY <2>2, <2>3, <4>2, <5>1
      <4> QED
        BY <4>1, <4>2
    <3> QED
      BY <3>1
  <2>5. A \o B \in [1 .. n - 1 -> S]
    BY <2>3, LenProperties
  <2>6. A \o B = Cut(s, n, i)
    BY <2>4, <2>5 DEF Cut
  <2> QED
    BY <2>1, <2>5, <2>6
<1> QED
  BY <1>1, <1>2, <1>3

\* The abstract steps, in terms of the orders before and after.
LEMMA AbstractSteps ==
  ASSUME RecencyInv, Inv'
  PROVE  /\ Order' = Order /\ Silent => Recency!Next
         /\ Order' = <<>> /\ Silent => Recency!Next
         /\ \A i \in 1 .. Cardinality(hash) :
              Order' = Cut(Order, Cardinality(hash), i) /\ Silent => Recency!Next
         /\ \A i \in 1 .. Cardinality(hash) :
              /\ Order' = Cut(Order, Cardinality(hash), i)
              /\ \A j \in i + 1 .. Cardinality(hash) : Protected(Order[j])
              /\ Evicts(Order[i])
              => Recency!Next
         /\ \A p \in Paths :
              Moved(Order, Cardinality(hash), p, Order', Cardinality(hash')) /\ Returns(p)
              => Recency!Next
<1> DEFINE n == Cardinality(hash)
<1>1. n \in Nat /\ Order \in [1 .. n -> hash]
  BY DEF RecencyInv, Listed, Spells
<1>2. /\ Len(Order) = n
      /\ \A p : <<p>> \o Order = Front(p, Order, n)
      /\ \A i \in 1 .. n : Recency!RemoveAt(Order, i) = Cut(Order, n, i)
                           /\ Cut(Order, n, i) \in [1 .. n - 1 -> hash]
  BY <1>1, OrderSeq
<1>3. ASSUME NEW p, NEW i \in 1 .. n
      PROVE  <<p>> \o Recency!RemoveAt(Order, i) = Front(p, Cut(Order, n, i), n - 1)
  <2> DEFINE t == Cut(Order, n, i)
  <2>1. n - 1 \in Nat
    BY <1>1
  <2>2. t \in [1 .. n - 1 -> hash] /\ Recency!RemoveAt(Order, i) = t
    BY <1>2
  <2> HIDE DEF t, n
  <2>3. <<p>> \o t = Front(p, t, n - 1)
    BY <2>1, <2>2, OrderSeq
  <2> QED
    BY <2>2, <2>3 DEF t
<1>4. Shield' \in SUBSET Paths
  BY DEF Shield, Inv, TypeOK
<1> HIDE DEF n
<1>5. ASSUME Order' = Order, Silent PROVE Recency!Next
  BY <1>4, <1>5 DEF Recency!Next, Silent
<1>6. ASSUME Order' = <<>>, Silent PROVE Recency!Next
  BY <1>4, <1>6 DEF Recency!Next, Recency!Empty, Silent
<1>7. ASSUME NEW i \in 1 .. n, Order' = Cut(Order, n, i), Silent PROVE Recency!Next
  <2>1. Recency!Discard(i)
    BY <1>2, <1>7 DEF Recency!Discard, Silent
  <2> QED
    BY <1>2, <1>4, <2>1 DEF Recency!Next
<1>8. ASSUME NEW i \in 1 .. n, Order' = Cut(Order, n, i), Evicts(Order[i]),
             \A j \in i + 1 .. n : Protected(Order[j])
      PROVE  Recency!Next
  <2>1. \A j \in i + 1 .. n : Order[j] \in Shield
    <3>1. \A j \in i + 1 .. n : j \in 1 .. n
      BY <1>1
    <3> QED
      BY <1>1, <1>8, <3>1 DEF Shield
  <2>2. Recency!Evict(i)
    BY <1>2, <1>8, <2>1 DEF Recency!Evict, Evicts
  <2> QED
    BY <1>2, <1>4, <2>2 DEF Recency!Next
<1>9. ASSUME NEW p \in Paths, NEW m, Moved(Order, n, p, Order', m), Returns(p)
      PROVE  Recency!Next
  <2>1. Recency!Use(p)
    BY <1>2, <1>3, <1>9 DEF Moved, Recency!Use, Returns
  <2> QED
    BY <1>4, <2>1 DEF Recency!Next
<1> QED
  BY <1>5, <1>6, <1>7, <1>8, <1>9 DEF n

\* Where a cached path stands in the order.
LEMMA Standing ==
  ASSUME RecencyInv, NEW p \in hash
  PROVE  \E i \in 1 .. Cardinality(hash) : Order[i] = p
BY DEF RecencyInv, Listed, Spells

\* Removing a cached entry is a discard.
LEMMA RemoveStep ==
  ASSUME RecencyInv, Inv', NEW p \in hash, RemoveEntry(p), Silent
  PROVE  Listed' /\ Recency!Next
<1>1. PICK i \in 1 .. Cardinality(hash) : Order[i] = p
  BY Standing
<1>2. Order' = Cut(Order, Cardinality(hash), i) /\ Listed'
  BY <1>1, RemoveOrder DEF RemoveEntry, Drop
<1> QED
  BY <1>2, AbstractSteps

\* Finding or storing an entry is a use.
LEMMA UseStep ==
  ASSUME RecencyInv, Inv', NEW p \in Paths, hash' = hash \cup {p},
         Become(MoveToHead(Links, p)), Returns(p)
  PROVE  Listed' /\ Recency!Next
BY MoveOrder, AbstractSteps

\* A step that leaves the list alone and reports nothing is none.
LEMMA QuietStep ==
  ASSUME RecencyInv, Inv', hash' = hash, UNCHANGED links, Silent
  PROVE  Order' = Order /\ Listed' /\ Recency!Next
BY SameOrder, AbstractSteps

\* Every call is a step of the sequence.
LEMMA CallRefines == ASSUME RecencyInv, SoundCall PROVE RecencyInv' /\ Recency!Next
<1>0. Inv /\ Inv' /\ NULL \notin Paths
  BY CallKeeps, CacheAssumption DEF RecencyInv
<1>1. ASSUME NEW p \in Paths, Find(p) PROVE Listed' /\ Behind' /\ Recency!Next
  <2>1. p \in hash /\ op' = op /\ op.call # "put"
    BY <1>1 DEF Find, Idle
  <2>2. Behind'
    BY <2>1 DEF Behind
  <2>3. CASE Expired(p)
    BY <1>0, <1>1, <2>1, <2>2, <2>3, RemoveStep DEF Find
  <2>4. CASE ~Expired(p)
    <3>1. Become(MoveToHead(Links, p)) /\ Returns(p) /\ hash' = hash \cup {p}
      BY <1>1, <2>1, <2>4 DEF Find, store
    <3> QED
      BY <1>0, <2>2, <3>1, UseStep
  <2> QED
    BY <2>3, <2>4
<1>2. ASSUME NEW p \in Paths, Remove(p) PROVE Listed' /\ Behind' /\ Recency!Next
  <2>1. p \in hash /\ op' = op /\ op.call # "put" /\ RemoveEntry(p) /\ Silent
    BY <1>2 DEF Remove, Idle
  <2>2. Behind'
    BY <2>1 DEF Behind
  <2> QED
    BY <1>0, <2>1, <2>2, RemoveStep
<1>3. ASSUME NEW p \in Paths, NEW pr \in Priorities, SetEntryPriority(p, pr)
      PROVE  Listed' /\ Behind' /\ Recency!Next
  <2>1. /\ p \in hash /\ op' = op /\ op.call # "put" /\ hash' = hash \cup {p} /\ Returns(p)
        /\ Become(MoveToHead(MoveToHead(Links, p), p))
    BY <1>3 DEF SetEntryPriority, Idle
  <2>2. MoveToHead(MoveToHead(Links, p), p) = MoveToHead(Links, p)
    BY <1>0, LinksTyped, MovedIsHead DEF Inv
  <2>3. Become(MoveToHead(Links, p))
    BY <2>1, <2>2
  <2>4. Behind'
    BY <2>1 DEF Behind
  <2> QED
    BY <1>0, <2>1, <2>3, <2>4, UseStep
<1>4. ASSUME NEW p \in Paths, NEW u \in Usages, NEW pr \in Priorities \cup {NoPriority},
             PutCall(p, u, pr)
      PROVE  Listed' /\ Behind' /\ Recency!Next
  <2>1. op'.cursor = lru_tail' /\ Silent
    BY <1>4 DEF PutCall
  <2>2. Listed' /\ Recency!Next
    <3>1. CASE pr = NoPriority \/ p \notin hash
      <4>1. hash' = hash /\ UNCHANGED links
        BY <1>4, <3>1 DEF PutCall, store
      <4> QED
        BY <1>0, <2>1, <4>1, QuietStep
    <3>2. CASE ~(pr = NoPriority \/ p \notin hash)
      <4>1. p \in hash /\ RemoveEntry(p)
        BY <1>4, <3>2 DEF PutCall
      <4> QED
        BY <1>0, <2>1, <4>1, RemoveStep
    <3> QED
      BY <3>1, <3>2
  <2> QED
    BY <2>1, <2>2, BehindTail
<1>5. ASSUME NEW n \in 1 .. MaxForce, ForceCall(n) PROVE Listed' /\ Behind' /\ Recency!Next
  <2>1. hash' = hash /\ UNCHANGED links /\ Silent
    BY <1>5 DEF ForceCall, store
  <2>2. op'.call # "put"
    BY <1>5, Zenon DEF ForceCall, NoOp
  <2> QED
    BY <1>0, <2>1, <2>2, QuietStep DEF Behind
<1>6. ASSUME Clear PROVE Listed' /\ Behind' /\ Recency!Next
  <2>1. /\ op' = op /\ op.call # "put" /\ Silent /\ hash' = {}
        /\ lru_head' = NULL /\ lru_tail' = NULL
    BY <1>6 DEF Clear, Idle, Become
  <2>2. Spells(<<>>, 0, Links', hash')
    BY <2>1 DEF Spells, Links
  <2>3. Order' = <<>> /\ Listed'
    BY <2>1, <2>2, OrderBecomes
  <2>4. Behind'
    BY <2>1 DEF Behind
  <2> QED
    BY <1>0, <2>1, <2>3, <2>4, AbstractSteps
<1>7. ASSUME Configure \/ Tick PROVE Listed' /\ Behind' /\ Recency!Next
  <2>1. op' = op /\ op.call # "put" /\ Silent /\ hash' = hash /\ UNCHANGED links
    BY <1>7 DEF Configure, Tick, Idle, store
  <2>2. Behind'
    BY <2>1 DEF Behind
  <2> QED
    BY <1>0, <2>1, <2>2, QuietStep
<1>8. Listed' /\ Behind' /\ Recency!Next
  BY <1>1, <1>2, <1>3, <1>4, <1>5, <1>6, <1>7 DEF SoundCall
<1> QED
  BY <1>0, <1>8 DEF RecencyInv

\* Every iteration is a step of the sequence: what put evicts has only protected
\* entries behind it, what force_eviction evicts is the last one.
LEMMA IterateRefines == ASSUME RecencyInv, SoundIterate PROVE RecencyInv' /\ Recency!Next
<1>0. Inv /\ Inv' /\ NULL \notin Paths /\ op \in OpType
  BY IterateKeeps, CacheAssumption DEF RecencyInv, Inv, TypeOK
<1>1. CASE PutSkip
  <2>1. /\ op.call = "put" /\ op.cursor # NULL /\ Protected(op.cursor) /\ Silent
        /\ hash' = hash /\ entry' = entry /\ config' = config /\ UNCHANGED links
        /\ op' = [op EXCEPT !.cursor = lru_prev[op.cursor]]
    BY <1>1 DEF PutSkip, store
  <2>2. Order' = Order /\ Listed' /\ Recency!Next
    BY <1>0, <2>1, QuietStep
  <2>3. PICK c \in 1 .. Cardinality(hash) :
          Order[c] = op.cursor /\ \A j \in c + 1 .. Cardinality(hash) : Protected(Order[j])
    BY <2>1 DEF RecencyInv, Behind
  <2>4. op'.cursor = lru_prev[op.cursor]
    BY <1>0, <2>1 DEF OpType
  <2>5. lru_prev[op.cursor] = IF c = 1 THEN NULL ELSE Order[c - 1]
    BY <2>3 DEF RecencyInv, Listed, Spells, Links
  <2>6. ASSUME op'.cursor # NULL
        PROVE  \E d \in 1 .. Cardinality(hash) :
                 /\ Order[d] = op'.cursor
                 /\ \A j \in d + 1 .. Cardinality(hash) : Protected(Order[j])
    <3>1. c # 1 /\ op'.cursor = Order[c - 1]
      BY <2>4, <2>5, <2>6
    <3>2. Cardinality(hash) \in Nat
      BY DEF RecencyInv, Listed, Spells
    <3>3. c - 1 \in 1 .. Cardinality(hash)
          /\ \A j \in (c - 1) + 1 .. Cardinality(hash) :
               j = c \/ j \in c + 1 .. Cardinality(hash)
      BY <3>1, <3>2
    <3>4. \A j \in (c - 1) + 1 .. Cardinality(hash) : Protected(Order[j])
      BY <2>1, <2>3, <3>3
    <3> QED
      BY <3>1, <3>3, <3>4
  <2>7. \A q : Protected(q)' <=> Protected(q)
    BY <2>1 DEF Protected
  <2>8. Behind'
    BY <2>1, <2>2, <2>6, <2>7 DEF Behind, Protected
  <2> QED
    BY <1>0, <2>2, <2>8 DEF RecencyInv
<1>2. CASE PutEvict
  <2>1. /\ op.call = "put" /\ op.cursor # NULL /\ Drop(op.cursor) /\ Evicts(op.cursor)
        /\ op' = [op EXCEPT !.cursor = lru_tail']
    BY <1>2 DEF PutEvict
  <2>2. PICK c \in 1 .. Cardinality(hash) :
          Order[c] = op.cursor /\ \A j \in c + 1 .. Cardinality(hash) : Protected(Order[j])
    BY <2>1 DEF RecencyInv, Behind
  <2>3. Become(Unlink(Links, op.cursor))
    <3>1. CASE config.enable_priority_eviction
      BY <1>2, <3>1 DEF PutEvict
    <3>2. CASE ~config.enable_priority_eviction
      <4>1. op.cursor = lru_tail /\ Links.tail = lru_tail
        BY <1>0, <2>1, <3>2 DEF Inv, Links
      <4>2. Links \in LinksType /\ hash \in SUBSET Paths /\ Threaded(Links, hash)
        BY <1>0, LinksTyped DEF Inv, TypeOK, LinksOK
      <4>3. RemoveTail(Links) = Unlink(Links, op.cursor)
        BY <2>1, <4>1, <4>2, RemoveTailIsUnlink
      <4>4. Become(RemoveTail(Links))
        BY <1>2, <3>2 DEF PutEvict
      <4> QED
        BY <4>3, <4>4
    <3> QED
      BY <3>1, <3>2
  <2>4. Order' = Cut(Order, Cardinality(hash), c) /\ Listed'
    BY <2>1, <2>2, <2>3, RemoveOrder DEF Drop
  <2>5. Recency!Next
    BY <1>0, <2>1, <2>2, <2>4, AbstractSteps
  <2>6. op'.cursor = lru_tail'
    BY <1>0, <2>1 DEF OpType
  <2> QED
    BY <1>0, <2>4, <2>5, <2>6, BehindTail DEF RecencyInv
<1>3. CASE PutFull \/ ForceDone
  <2>1. op' = NoOp /\ Silent /\ hash' = hash /\ UNCHANGED links
    BY <1>3 DEF PutFull, ForceDone, store
  <2>2. Behind'
    BY <2>1, NoOpTyped DEF Behind
  <2> QED
    BY <1>0, <2>1, <2>2, QuietStep DEF RecencyInv
<1>4. CASE PutSpin
  <2>1. /\ op' = [op EXCEPT !.cursor = lru_tail] /\ Silent /\ hash' = hash
        /\ UNCHANGED links /\ lru_tail' = lru_tail
    BY <1>4 DEF PutSpin, store, links
  <2>2. op'.cursor = lru_tail'
    BY <1>0, <2>1 DEF OpType
  <2>3. Listed' /\ Recency!Next
    BY <1>0, <2>1, QuietStep
  <2> QED
    BY <1>0, <2>2, <2>3, BehindTail DEF RecencyInv
<1>5. CASE PutStore
  <2>1. /\ op' = NoOp /\ Returns(op.path) /\ hash' = hash \cup {op.path}
        /\ Become(MoveToHead(Links, op.path)) /\ op.path \in Paths
    BY <1>0, <1>5 DEF PutStore, Inv
  <2>2. Behind'
    BY <2>1, NoOpTyped DEF Behind
  <2> QED
    BY <1>0, <2>1, <2>2, UseStep DEF RecencyInv
<1>6. CASE ForceEvict
  <2>1. /\ op.call = "force" /\ lru_tail # NULL /\ Drop(lru_tail) /\ Evicts(lru_tail)
        /\ Become(RemoveTail(Links)) /\ op' = [op EXCEPT !.count = op.count - 1]
    BY <1>6 DEF ForceEvict
  <2>2. Cardinality(hash) \in 1 .. Cardinality(hash) /\ Order[Cardinality(hash)] = lru_tail
    BY <2>1, TailLast
  <2>3. Links \in LinksType /\ hash \in SUBSET Paths /\ Threaded(Links, hash)
        /\ Links.tail = lru_tail
    BY <1>0, LinksTyped DEF Inv, TypeOK, LinksOK, Links
  <2>4. Become(Unlink(Links, lru_tail))
    BY <2>1, <2>3, RemoveTailIsUnlink
  <2>5. Order' = Cut(Order, Cardinality(hash), Cardinality(hash)) /\ Listed'
    BY <2>1, <2>2, <2>4, RemoveOrder DEF Drop
  <2>6. Cardinality(hash) + 1 .. Cardinality(hash) = {}
    BY <2>2
  <2>7. Recency!Next
    BY <1>0, <2>1, <2>2, <2>5, <2>6, AbstractSteps
  <2>8. op'.call # "put"
    BY <1>0, <2>1 DEF OpType
  <2> QED
    BY <1>0, <2>5, <2>7, <2>8 DEF RecencyInv, Behind
<1> QED
  BY <1>1, <1>2, <1>3, <1>4, <1>5, <1>6 DEF SoundIterate

\* The list pointers of the cache implement a sequence ordered by recency of use:
\* find, put and the priority setters bring an entry to the front, and an eviction
\* by put or force_eviction takes the last entry that its priority does not protect,
\* for any number of paths, limits, priorities and expiry times.
THEOREM ListOrdersByRecency == SoundSpec => RecencySpec
<1>1. Init => RecencyInv /\ Recency!Init
  <2> SUFFICES ASSUME Init PROVE RecencyInv /\ Recency!Init
    OBVIOUS
  <2>1. Inv
    BY InvInit
  <2>2. Spells(<<>>, 0, Links, hash) /\ NULL \notin hash
    BY DEF Init, Spells, Links
  <2>3. Cardinality(hash) = 0 /\ Order = <<>>
    BY <2>2, SpelledCount, AlongIs DEF Order
  <2>4. Listed /\ Behind
    BY <2>2, <2>3, NoOpTyped DEF Listed, Behind, Init
  <2>5. Shield \subseteq Paths
    BY DEF Shield, Init
  <2> QED
    BY <2>1, <2>3, <2>4, <2>5 DEF RecencyInv, Recency!Init, Init
<1>2. RecencyInv /\ [SoundCall \/ SoundIterate]_vars
        => RecencyInv' /\ [Recency!Next]_<<Order, Shield, returned, evicted>>
  <2> SUFFICES ASSUME RecencyInv, [SoundCall \/ SoundIterate]_vars
               PROVE  RecencyInv' /\ [Recency!Next]_<<Order, Shield, returned, evicted>>
    OBVIOUS
  <2>1. CASE SoundCall \/ SoundIterate
    BY <2>1, CallRefines, IterateRefines
  <2>2. CASE UNCHANGED vars
    <3>1. UNCHANGED <<Order, Shield, returned, evicted>>
      BY <2>2 DEF vars, Order, Links, Shield, Protected
    <3>2. Inv'
      BY <2>2 DEF RecencyInv, vars, Inv, TypeOK, LinksOK, CountOK, Links, Loose, Threaded
    <3>3. Listed'
      BY <2>2, <3>1 DEF RecencyInv, vars, Listed, Links
    <3>4. Behind'
      BY <2>2, <3>1 DEF RecencyInv, vars, Behind, Protected
    <3> QED
      BY <3>1, <3>2, <3>3, <3>4 DEF RecencyInv
  <2> QED
    BY <2>1, <2>2
<1> QED
  BY <1>1, <1>2, PTL DEF SoundSpec, RecencySpec, Recency!Spec
=============================================================================
