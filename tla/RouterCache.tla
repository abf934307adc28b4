----------------------------- MODULE RouterCache -----------------------------
(***************************************************************************)
(* The other implementation of the router (uvhttp_router_cache.c, built    *)
(* with UVHTTP_FEATURE_ROUTER_CACHE): an open-addressing hash table of the *)
(* routes, searched for the path itself and then, slot by slot, for a      *)
(* pattern that fits; a static prefix in front of it, a fallback behind    *)
(* it, and binary routes, which share the static route's fields.           *)
(*                                                                         *)
(* Paths are names; their hash, which have parameters and what these fit   *)
(* are constants.  A handler is the route it was registered with.          *)
(***************************************************************************)
EXTENDS Integers, FiniteSets, FiniteSetsExt

CONSTANTS
  RcPaths, RcRequests, \* paths of routes, paths asked for
  RcHash,              \* route_hash
  RcParams,            \* the paths with a ':'
  RcFits,              \* the requests that fit each of them
  RcUnder,             \* the requests below the static prefix
  RcMethods,           \* methods of requests; routes may have ANY as well
  BaseSize, MaxSize,   \* UVHTTP_ROUTER_HASH_BASE_SIZE, UVHTTP_ROUTER_HASH_MAX_SIZE
  RcHybrid             \* HYBRID_THRESHOLD

ASSUME RouterCacheAssumption ==
  /\ RcParams \subseteq RcPaths /\ RcUnder \subseteq RcRequests
  /\ RcHash \in [RcPaths \cup RcRequests -> Nat] /\ RcFits \in [RcParams -> SUBSET RcRequests]
  /\ BaseSize \in Nat \ {0} /\ MaxSize \in Nat /\ RcHybrid \in Nat
  /\ "ANY" \notin RcMethods

Routes == RcPaths \X (RcMethods \cup {"ANY"})

VARIABLES
  rc_table,   \* hash_table.entries, from 0: a route or Free
  rc_count,   \* hash_table.count
  rc_trie,    \* use_trie: this build only remembers it
  rc_array,   \* array_route_count
  rc_static,  \* static_prefix is set, and what static_context points to
  rc_fallback,
  rc_binary,  \* the binary route whose data static_data is
  rc_binaries, \* the routes whose handler is binary_route_handler
  rc_crashed  \* an entry was written outside the table

routerCacheVars ==
  <<rc_table, rc_count, rc_trie, rc_array, rc_static, rc_fallback, rc_binary,
    rc_binaries, rc_crashed>>

Free == <<"", "">>
NoRoute == <<"", "none">>
STATIC == <<"", "static">>

\* A method is none of the marks in the table and in answers.
ASSUME MarksAssumption == Routes \cap {Free, NoRoute, STATIC} = {}

Empty(n) == [i \in 0 .. n - 1 |-> Free]

RouterCacheInit ==
  /\ rc_table = Empty(BaseSize) /\ rc_count = 0 /\ rc_trie = FALSE /\ rc_array = 0
  /\ rc_static = [prefix |-> FALSE, context |-> "none"] /\ rc_fallback = FALSE
  /\ rc_binary = NoRoute /\ rc_binaries = {} /\ rc_crashed = FALSE

-----------------------------------------------------------------------------
(* The hash table.                                                         *)

Slots(t) == Cardinality(DOMAIN t)
Threshold(t) == (Slots(t) * 3) \div 4     \* UVHTTP_ROUTER_HASH_LOAD_FACTOR

\* The slot k steps from where the search for a path begins.
Probe(t, path, k) == (RcHash[path] + k) % Slots(t)

\* How far a search goes that stops at a slot that holds one of ends; Slots(t) if
\* none does.
Steps(t, path, ends) ==
  Min({k \in 0 .. Slots(t) - 1 : t[Probe(t, path, k)] \in ends} \cup {Slots(t)})

\* find_slot; -1 for UINT32_MAX
FindSlot(t, route) ==
  LET k == Steps(t, route[1], {Free, route}) IN
  IF k = Slots(t) THEN -1 ELSE Probe(t, route[1], k)

\* Mutant: a route keeps its slot in the larger table.
ResizeInPlace(t, n) == [i \in 0 .. n - 1 |-> IF i < Slots(t) THEN t[i] ELSE Free]

\* The larger table with the content of one slot of the old one.
Move(t, e) == IF e = Free THEN t ELSE [t EXCEPT ![FindSlot(t, e)] = e]

\* hash_table_resize: the routes are moved in the order of their slots.
Resize(t, n) ==
  LET moved[i \in 0 .. Slots(t)] ==
        IF i = 0 THEN Empty(n) ELSE Move(moved[i - 1], t[i - 1])
  IN  moved[Slots(t)]

\* The table that add_to_hash_table inserts into.
Larger(t) ==
  IF rc_count >= Threshold(t) /\ Min({2 * Slots(t), MaxSize}) > Slots(t)
  THEN Resize(t, Min({2 * Slots(t), MaxSize})) ELSE t

\* Mutant: the search does not wrap around at the end of the table.
ExactNoWrap(t, path, method) ==
  LET k == Steps(t, path, {Free, <<path, method>>, <<path, "ANY">>}) IN
  IF Probe(t, path, 0) + k >= Slots(t) THEN NoRoute ELSE t[Probe(t, path, k)]

\* find_in_hash_table_ex, the first search: for the path as it stands.
Exact(t, path, method) ==
  LET k == Steps(t, path, {Free, <<path, method>>, <<path, "ANY">>}) IN
  IF k = Slots(t) THEN NoRoute ELSE t[Probe(t, path, k)]

\* ... and the second: the first slot with a pattern that fits.
ByPattern(t, path, method) ==
  LET fit == {i \in DOMAIN t : t[i] # Free /\ t[i][2] \in {method, "ANY"}
                                /\ t[i][1] \in RcParams /\ path \in RcFits[t[i][1]]}
  IN  IF fit = {} THEN NoRoute ELSE t[Min(fit)]

FindInHashTable(path, method) ==
  LET e == Exact(rc_table, path, method) IN
  IF e \notin {Free, NoRoute} THEN e ELSE ByPattern(rc_table, path, method)

-----------------------------------------------------------------------------
(* Lookups.                                                                *)

\* static_prefix_handler
UnderPrefix(path) == rc_static.prefix /\ rc_static.context # "none" /\ path \in RcUnder

\* uvhttp_router_find_handler
RcFindHandler(path, method) ==
  LET e == FindInHashTable(path, method) IN
  IF UnderPrefix(path) THEN STATIC
  ELSE IF e # NoRoute THEN e
  ELSE IF rc_fallback THEN STATIC ELSE NoRoute

\* uvhttp_router_match: the prefix only counts before the first pattern, the
\* fallback never.
RcMatch(path, method) ==
  IF ~rc_trie /\ UnderPrefix(path) THEN STATIC ELSE FindInHashTable(path, method)

\* What static_file_handler_wrapper takes for its uvhttp_static_context_t.
StaticContext ==
  IF rc_static.context # "none" THEN rc_static.context
  ELSE IF rc_fallback THEN "files" ELSE "none"

\* binary_route_handler: the data of whichever binary route came last, under the
\* name that static_context holds now; nothing if there is none.
BinaryAnswer == IF rc_static.context = "none" THEN NoRoute ELSE rc_binary

-----------------------------------------------------------------------------
(* The embedder's calls.                                                   *)

\* The counters of uvhttp_router_add_route_method.
Counters(path) ==
  IF path \in RcParams \/ rc_array >= RcHybrid \/ rc_trie
  THEN rc_trie' = TRUE /\ rc_array' = IF rc_trie THEN rc_array ELSE 0
  ELSE rc_array' = rc_array + 1 /\ UNCHANGED rc_trie

\* uvhttp_router_add_route_method, with add_to_hash_table.  A table that is full
\* and may not grow has no slot: the entry is written at index UINT32_MAX.  One
\* that has to grow may find no memory.
Add(route) ==
  LET t == Larger(rc_table)
      slot == FindSlot(t, route)
  IN
  \/ /\ slot >= 0 /\ t[slot] = Free
     /\ rc_table' = [t EXCEPT ![slot] = route] /\ rc_count' = rc_count + 1
     /\ Counters(route[1]) /\ UNCHANGED rc_crashed
  \/ /\ slot >= 0 /\ t[slot] = route              \* UVHTTP_ERROR_ALREADY_EXISTS
     /\ rc_table' = t /\ UNCHANGED <<rc_count, rc_trie, rc_array, rc_crashed>>
  \/ /\ slot < 0
     /\ rc_crashed' = TRUE /\ UNCHANGED <<rc_table, rc_count, rc_trie, rc_array>>
  \/ /\ t # rc_table
     /\ UNCHANGED <<rc_table, rc_count, rc_trie, rc_array, rc_crashed>>

RcAddRouteMethod(route) ==
  /\ ~rc_crashed /\ Add(route)
  /\ UNCHANGED <<rc_static, rc_fallback, rc_binary, rc_binaries>>

\* uvhttp_router_add_binary_route: its fields are set before the route is added.
RcAddBinaryRoute(path) ==
  /\ ~rc_crashed
  /\ rc_static' = [rc_static EXCEPT !.context = "mime"]
  /\ rc_binary' = <<path, "ANY">>
  /\ Add(<<path, "ANY">>)
  /\ rc_binaries' = IF rc_count' = rc_count THEN rc_binaries ELSE rc_binaries \cup {<<path, "ANY">>}
  /\ UNCHANGED rc_fallback

\* uvhttp_router_add_static_route.  The prefix before it is freed first: without
\* memory for the new one, static_prefix becomes NULL and the route before is lost.
RcAddStaticRoute ==
  /\ ~rc_crashed
  /\ \/ rc_static' = [prefix |-> TRUE, context |-> "files"]
     \/ rc_static' = [rc_static EXCEPT !.prefix = FALSE]
  /\ UNCHANGED <<rc_table, rc_count, rc_trie, rc_array, rc_fallback, rc_binary, rc_binaries,
                 rc_crashed>>

\* uvhttp_router_add_fallback_route
RcAddFallbackRoute ==
  /\ ~rc_crashed /\ rc_fallback' = TRUE
  /\ UNCHANGED <<rc_table, rc_count, rc_trie, rc_array, rc_static, rc_binary, rc_binaries,
                 rc_crashed>>

RouterCacheNext ==
  \/ \E route \in Routes : RcAddRouteMethod(route)
  \/ \E path \in RcPaths \ RcParams : RcAddBinaryRoute(path)
  \/ RcAddStaticRoute \/ RcAddFallbackRoute

RouterCacheSpec == RouterCacheInit /\ [][RouterCacheNext]_routerCacheVars

-----------------------------------------------------------------------------

Registered == {rc_table[i] : i \in DOMAIN rc_table} \ {Free}

Fitting(path, method) ==
  LET mine == {r \in Registered : r[2] \in {method, "ANY"}}
      exact == {r \in mine : r[1] = path}
  IN  IF exact # {} THEN exact
      ELSE {r \in mine : r[1] \in RcParams /\ path \in RcFits[r[1]]}

\* Whatever was added and however the table grew, a request finds a route of its
\* very path if there is one, else a pattern that fits, and nothing only if
\* there is neither; no route is there twice.  uvhttp_router_match and
\* uvhttp_router_find_handler agree but for fallbacks and, once there is a
\* pattern, the static prefix.  An entry is written outside the table only when
\* it has MaxSize entries and no room.
RoutesFound ==
  /\ \A path \in RcRequests, method \in RcMethods :
       LET found == FindInHashTable(path, method) IN
       IF Fitting(path, method) = {} THEN found = NoRoute
       ELSE found \in Fitting(path, method)
  /\ \A path \in RcRequests, method \in RcMethods :
       rc_fallback \/ rc_trie \/ RcMatch(path, method) = RcFindHandler(path, method)
  /\ rc_count = Cardinality(Registered)
  /\ rc_count = Cardinality({i \in DOMAIN rc_table : rc_table[i] # Free})
  /\ rc_crashed => rc_count >= MaxSize

\* What the client is sent for a request.
Answer(path, method) ==
  LET h == RcFindHandler(path, method) IN
  IF h = STATIC THEN <<"files", StaticContext>>
  ELSE IF h \in rc_binaries THEN <<"data", BinaryAnswer>>
  ELSE h

\* The call sets up the first user of static_context, and that is no prefix.
FirstContext == rc_static.context = "none" /\ ~rc_fallback /\ ~rc_static'.prefix

\* Adding a route leaves the answers to all requests alone that it does not fit:
\* not even a table that grows and moves every route changes them, as long as
\* one route fits a request (of two, growing may prefer the other).  A binary
\* route does so only if neither a static, nor a fallback, nor another binary
\* route uses static_context: that of one is overwritten by the other.
RcAddKeepsOthers ==
  [][ <<rc_table, rc_static>>' # <<rc_table, rc_static>> =>
      \A path \in RcRequests, method \in RcMethods :
        /\ Fitting(path, method)' = Fitting(path, method)
        /\ Cardinality(Fitting(path, method)) <= 1
        /\ rc_fallback' = rc_fallback
        /\ (rc_static' = rc_static /\ rc_binary' = rc_binary) \/ FirstContext
        => Answer(path, method)' = Answer(path, method) ]_routerCacheVars

=============================================================================
