------------------------------- MODULE Router -------------------------------
(***************************************************************************)
(* The router of src/uvhttp_router.c (the build without the router cache): *)
(* routes live in an array that is searched in order, until a route with a *)
(* parameter or the HYBRID_THRESHOLD-th route moves all of them to a trie  *)
(* in a pool of nodes.  A static prefix is tried before, a fallback after  *)
(* the routes.                                                             *)
(*                                                                         *)
(* A path is the sequence of its texts between slashes: "/" is <<"">> and  *)
(* "/a/" is <<"a", "">>; in the path of a route each text has a flag for   *)
(* the ':' in front of it.  Rejected arguments (NULL, an empty or          *)
(* overlong path, a '?') change nothing and are left out, as is            *)
(* route_count, which nothing reads.                                       *)
(***************************************************************************)
EXTENDS Integers, Sequences, FiniteSetsExt, SequencesExt

CONSTANTS
  Names,             \* texts between slashes, "" among them
  Truncated,         \* segment_data keeps 31 bytes: a shorter name is itself
  ColonNames,        \* the names that have a ':' inside
  TextPrefixes,      \* <<x, y>>: the text x starts the longer text y
  RoutePaths,        \* paths given to add_route
  RequestPaths,      \* paths looked up
  StaticPrefixes,    \* paths given to add_static_route
  Methods,           \* methods a route is registered for, besides UVHTTP_ANY
  HYBRID_THRESHOLD,
  MaxChildren,       \* length of child_indices
  PoolSize,          \* first node_pool_size
  MaxCalls,          \* bound on the calls made
  RouterEnv          \* {"alloc_fail"}: realloc and alloc may fail

NoText == ""

ASSUME NameAssumption ==
  /\ NoText \in Names /\ ColonNames \subseteq Names
  /\ Truncated \in [Names -> Names]
  /\ \A n \in Names : Truncated[Truncated[n]] = Truncated[n]
ASSUME BoundAssumption ==
  /\ {HYBRID_THRESHOLD, MaxChildren, PoolSize} \subseteq Nat \ {0}
  /\ MaxCalls \in Nat
ASSUME PathAssumption ==
  /\ RoutePaths \subseteq Seq([name : Names, param : BOOLEAN]) \ {<<>>}
  /\ RequestPaths \cup StaticPrefixes \subseteq Seq(Names) \ {<<>>}

VARIABLES
  array_routes,      \* the array, as far as array_route_count
  array_mem,         \* its memory: "allocated", "null" after the migration,
                     \* "freed" when the pointer is left on freed memory
  use_trie,
  node_pool,         \* the nodes in use; the first is the root
  node_pool_size,
  static_prefix,     \* {} for NULL
  static_context,    \* "NULL", a static file context ("dir"), or the MIME type
                     \* of a binary route ("mime")
  fallback_context,  \* set or not
  accepted,          \* history: routes whose registration returned UVHTTP_OK
  refused,           \* history: paths whose registration failed
  calls              \* history: number of calls made

routerVars == <<array_routes, array_mem, use_trie, node_pool, node_pool_size,
          static_prefix, static_context, fallback_context, accepted, refused, calls>>

-----------------------------------------------------------------------------
(* Handlers and paths.                                                     *)

NoHandler == 0
StaticHandler == -1      \* static_file_handler_wrapper
BinaryHandler == -2      \* binary_route_handler
Undefined == -3          \* whatever is read from freed memory

\* Every registration brings a handler of its own, named by its call.
Handlers == 1 .. MaxCalls

ANY == "ANY"
Route == [path : RoutePaths, method : Methods \cup {ANY},
          handler : Handlers \cup {BinaryHandler}]

Node(segment, is_param) ==
  [segment |-> segment, is_param |-> is_param, method |-> ANY,
   handler |-> NoHandler, children |-> <<>>]

Accepts(routed, method) == routed = ANY \/ routed = method

\* strtok(path, "/") skips empty texts.
Tokens(path) ==
  LET ts[k \in 0 .. Len(path)] ==
        IF k = 0 THEN <<>>
        ELSE IF path[k] = NoText THEN ts[k - 1] ELSE Append(ts[k - 1], path[k])
  IN  ts[Len(path)]
RouteTokens(path) ==
  LET ts[k \in 0 .. Len(path)] ==
        IF k = 0 THEN <<>>
        ELSE IF path[k].name = NoText /\ ~path[k].param THEN ts[k - 1]
        ELSE Append(ts[k - 1], path[k])
  IN  ts[Len(path)]

\* strchr(path, ':'): a colon inside a text counts, too.
HasParams(path) == \E i \in DOMAIN path : path[i].param \/ path[i].name \in ColonNames

Plain(path) == [i \in DOMAIN path |-> path[i].name]

\* strncmp(path, prefix, strlen(prefix)) = 0.
StartsWith(path, prefix) ==
  LET n == Len(prefix)
      last == prefix[n]
  IN  /\ n <= Len(path)
      /\ \A i \in 1 .. n - 1 : path[i] = prefix[i]
      /\ last \in {NoText, path[n]} \/ <<last, path[n]>> \in TextPrefixes

-----------------------------------------------------------------------------
(* Insertion into the trie.  w is a walk: the pool, its size, the node     *)
(* reached, and whether every child so far was found or created.           *)

\* create_route_node and the new child of find_or_create_child; the realloc of
\* the pool to more than cap nodes fails.
CreateChild(w, segment, is_param, cap) ==
  LET child == Len(w.pool) + 1
      size == IF child > w.size THEN 2 * w.size ELSE w.size
  IN  IF size > w.size /\ size > cap
      THEN [w EXCEPT !.ok = FALSE]
      ELSE [w EXCEPT
              !.pool = Append([w.pool EXCEPT ![w.at].children = Append(@, child)],
                              Node(Truncated[segment], is_param)),
              !.size = size,
              !.at = child]

\* Mutant: a child is always created.
FindNoChild(w, token, cap) ==
  IF ~w.ok \/ Len(w.pool[w.at].children) >= MaxChildren
  THEN [w EXCEPT !.ok = FALSE]
  ELSE CreateChild(w, token.name, token.param, cap)

\* Mutant: any child is taken for the segment.
FindAnyChild(w, token, cap) ==
  LET children == w.pool[w.at].children
  IN  IF ~w.ok THEN w
      ELSE IF children # <<>> THEN [w EXCEPT !.at = children[1]]
      ELSE CreateChild(w, token.name, token.param, cap)

\* Mutant: a child that is found moves to the front of its siblings.
FindMovesToFront(w, token, cap) ==
  LET children == w.pool[w.at].children
      i == SelectInSeq(children, LAMBDA c : w.pool[c].segment = token.name)
  IN  IF ~w.ok \/ (i = 0 /\ Len(children) >= MaxChildren)
      THEN [w EXCEPT !.ok = FALSE]
      ELSE IF i = 0 THEN CreateChild(w, token.name, token.param, cap)
      ELSE [w EXCEPT !.at = children[i], !.pool[w.at].children =
              <<children[i]>> \o SelectSeq(@, LAMBDA c : c # children[i])]

\* find_or_create_child: the text alone decides, is_param is not compared.
FindOrCreateChild(w, token, cap) ==
  LET children == w.pool[w.at].children
      i == SelectInSeq(children, LAMBDA c : w.pool[c].segment = token.name)
  IN  IF ~w.ok THEN w
      ELSE IF i # 0 THEN [w EXCEPT !.at = children[i]]
      ELSE IF Len(children) >= MaxChildren THEN [w EXCEPT !.ok = FALSE]
      ELSE CreateChild(w, token.name, token.param, cap)

\* The path of a route is walked from the root and the node at its end takes
\* the route's method and handler, whatever it had.
Insert(w, route, cap) ==
  LET Step(v, token) == FindOrCreateChild(v, token, cap)
      v == FoldLeft(Step, [w EXCEPT !.at = 1], RouteTokens(route.path))
  IN  IF ~v.ok THEN v
      ELSE [v EXCEPT !.pool[v.at].method = route.method,
                     !.pool[v.at].handler = route.handler]

Walk == [pool |-> node_pool, size |-> node_pool_size, at |-> 1, ok |-> TRUE]

\* Mutant: the migration stops one short of array_route_count.
MigrateAllButLast(cap) ==
  FoldLeft(LAMBDA w, route : Insert(w, route, cap), Walk, Front(array_routes))

\* The loop of migrate_to_trie; a failed route ends it.
Migrated(cap) ==
  FoldLeft(LAMBDA w, route : IF w.ok THEN Insert(w, route, cap) ELSE w,
           Walk, array_routes)

-----------------------------------------------------------------------------
(* Lookup.                                                                 *)

NoMatch == [handler |-> NoHandler, params |-> <<>>]

\* A segment taken by a parameter node comes first among the parameters.
Report(match, child, segment) ==
  IF child.is_param THEN [match EXCEPT !.params = <<segment>> \o @] ELSE match

\* Mutant: a parameter node is compared as text.
TakesText(child, segment) == child.segment = segment

\* A parameter node takes any segment, another one its own text.
Takes(child, segment) == child.is_param \/ child.segment = segment

\* The end of match_route_node's recursion.
Leaf(node, method) ==
  IF node.handler # NoHandler /\ Accepts(node.method, method)
  THEN [NoMatch EXCEPT !.handler = node.handler] ELSE NoMatch

\* The children of a node are tried in the order of their creation; below is
\* what the nodes answer to the segments after this one.
NodeAnswer(pool, n, segment, below) ==
  LET children == pool[n].children
      hits == {i \in DOMAIN children : /\ Takes(pool[children[i]], segment)
                                       /\ below[children[i]].handler # NoHandler}
      first == children[Min(hits)]
  IN  IF hits = {} THEN NoMatch
      ELSE Report(below[first], pool[first], segment)

\* match_route_node: depth first; a parameter node takes any segment and gives
\* it back when it leads nowhere.  left[j][n] is what node n answers to the last
\* j segments.
MatchRouteNode(segments, method) ==
  LET N == 1 .. Len(node_pool)
      left[j \in 0 .. Len(segments)] ==
        IF j = 0 THEN [n \in N |-> Leaf(node_pool[n], method)]
        ELSE [n \in N |-> NodeAnswer(node_pool, n, segments[Len(segments) - j + 1],
                                 left[j - 1])]
  IN  left[Len(segments)][1]

\* find_array_route: the first route with this very path.
FindArrayRoute(path, method) ==
  LET i == SelectInSeq(array_routes, LAMBDA r :
             Accepts(r.method, method) /\ Plain(r.path) = path)
  IN  IF array_mem = "freed" THEN Undefined
      ELSE IF i = 0 THEN NoHandler ELSE array_routes[i].handler

\* The prefix check of both lookups.
StaticHit(path) ==
  static_context # "NULL" /\ \E p \in static_prefix : StartsWith(path, p)

\* uvhttp_router_find_handler.
FindHandler(path, method) ==
  LET route == IF use_trie THEN MatchRouteNode(Tokens(path), method).handler
                           ELSE FindArrayRoute(path, method)
  IN  IF StaticHit(path) THEN StaticHandler
      ELSE IF route # NoHandler THEN route
      ELSE IF fallback_context THEN StaticHandler ELSE NoHandler

\* uvhttp_router_match: no fallback, and the static prefix only in array mode.
\* Its search of the array in trie mode is dead: array_routes is NULL there.
Match(path, method) ==
  IF use_trie THEN MatchRouteNode(Tokens(path), method)
  ELSE [NoMatch EXCEPT !.handler = IF StaticHit(path) THEN StaticHandler
                                   ELSE FindArrayRoute(path, method)]

-----------------------------------------------------------------------------
(* The calls.                                                              *)

\* uvhttp_router_new.
RouterInit ==
  /\ array_routes = <<>> /\ array_mem = "allocated"
  /\ use_trie = FALSE
  /\ node_pool = <<Node(NoText, FALSE)>> /\ node_pool_size = PoolSize
  /\ static_prefix = {} /\ static_context = "NULL"
  /\ fallback_context = FALSE
  /\ accepted = <<>> /\ refused = {} /\ calls = 0

\* A call on a router whose array pointer dangles is not followed any further.
Called == calls < MaxCalls /\ array_mem # "freed" /\ calls' = calls + 1

\* How far realloc can grow the pool in one call.
Unlimited == 2 * PoolSize * (1 + 8 * MaxCalls)
Caps == {Unlimited} \cup IF "alloc_fail" \in RouterEnv
                          THEN {node_pool_size, 2 * node_pool_size} ELSE {}

\* add_array_route; the array's growth beyond HYBRID_THRESHOLD is ArrayFits.
AddArrayRoute(route) ==
  /\ array_routes' = Append(array_routes, route)
  /\ accepted' = Append(accepted, route)
  /\ UNCHANGED <<array_mem, use_trie, node_pool, node_pool_size, refused>>

\* What the call returned.
Returned(ok, route) ==
  /\ accepted' = IF ok THEN Append(accepted, route) ELSE accepted
  /\ refused' = IF ok THEN refused ELSE refused \cup {route.path}

\* uvhttp_router_add_route_method in trie mode.
AddTrieRoute(route, cap) ==
  LET w == Insert(Walk, route, cap)
  IN  /\ node_pool' = w.pool /\ node_pool_size' = w.size
      /\ Returned(w.ok, route)
      /\ UNCHANGED <<array_routes, array_mem, use_trie>>

\* migrate_to_trie, and then the new route.  A migration that fails frees the
\* array, keeps the pointer and stays in array mode.
MigrateAndAdd(route, cap) ==
  LET m == Migrated(cap)
      w == Insert(m, route, cap)
  IN  IF m.ok
      THEN /\ use_trie' = TRUE
           /\ array_routes' = <<>> /\ array_mem' = "null"
           /\ node_pool' = w.pool /\ node_pool_size' = w.size
           /\ Returned(w.ok, route)
      ELSE /\ array_mem' = "freed"
           /\ node_pool' = m.pool /\ node_pool_size' = m.size
           /\ Returned(FALSE, route)
           /\ UNCHANGED <<use_trie, array_routes>>

\* uvhttp_router_add_route_method.
AddRouteMethod(route, cap) ==
  IF use_trie THEN AddTrieRoute(route, cap)
  ELSE IF HasParams(route.path) \/ Len(array_routes) >= HYBRID_THRESHOLD
  THEN MigrateAndAdd(route, cap)
  ELSE AddArrayRoute(route)

\* uvhttp_router_add_route and uvhttp_router_add_route_method.
AddRoute(path, method) ==
  /\ Called
  /\ \E cap \in Caps :
       AddRouteMethod([path |-> path, method |-> method, handler |-> calls + 1],
                      cap)
  /\ UNCHANGED <<static_prefix, static_context, fallback_context>>

\* uvhttp_router_add_binary_route: the context of a static route is replaced,
\* and stays replaced if the route cannot be added.
AddBinaryRoute(path) ==
  /\ Called
  /\ static_context' = "mime"
  /\ \E cap \in Caps :
       AddRouteMethod([path |-> path, method |-> ANY, handler |-> BinaryHandler],
                      cap)
  /\ UNCHANGED <<static_prefix, fallback_context>>

\* uvhttp_router_add_static_route: the old prefix is gone even if the copy of
\* the new one cannot be allocated.
AddStaticRoute(prefix) ==
  /\ Called
  /\ \/ static_prefix' = {prefix} /\ static_context' = "dir"
     \/ /\ "alloc_fail" \in RouterEnv
        /\ static_prefix' = {} /\ UNCHANGED static_context
  /\ UNCHANGED <<array_routes, array_mem, use_trie, node_pool, node_pool_size,
                 fallback_context, accepted, refused>>

\* uvhttp_router_add_fallback_route.
AddFallbackRoute ==
  /\ Called
  /\ fallback_context' = TRUE
  /\ UNCHANGED <<array_routes, array_mem, use_trie, node_pool, node_pool_size,
                 static_prefix, static_context, accepted, refused>>

RouterNext ==
  \/ \E path \in RoutePaths, method \in Methods \cup {ANY} : AddRoute(path, method)
  \/ \E path \in RoutePaths : AddBinaryRoute(path)
  \/ \E prefix \in StaticPrefixes : AddStaticRoute(prefix)
  \/ AddFallbackRoute

RouterSpec == RouterInit /\ [][RouterNext]_routerVars

-----------------------------------------------------------------------------
(* Properties.                                                             *)

\* The state of uvhttp_router_t is well typed, and migrate_to_trie gives up the
\* array pointer exactly when it switches to the trie.
RouterTypeOK ==
  /\ array_routes \in Seq(Route) /\ accepted \in Seq(Route) /\ refused \subseteq RoutePaths
  /\ array_mem \in {"allocated", "null", "freed"}
  /\ use_trie <=> array_mem = "null"
  /\ use_trie \in BOOLEAN /\ fallback_context \in BOOLEAN
  /\ node_pool \in Seq([segment : Names, is_param : BOOLEAN,
                        method : Methods \cup {ANY},
                        handler : Handlers \cup {NoHandler, BinaryHandler},
                        children : Seq(Nat)])
  /\ node_pool_size \in Nat /\ calls \in 0 .. MaxCalls
  /\ static_prefix \subseteq StaticPrefixes
  /\ static_context \in {"NULL", "dir", "mime"}

Children(n) == node_pool[n].children

\* However routes are added, whichever additions fail, RouterTypeOK holds and the pool
\* is a tree: find_or_create_child gives every node but the root exactly one
\* parent, an older one, fills no child_indices beyond its end, never makes two
\* children of one segment unless the segment was truncated, and
\* create_route_node stays within the pool.
TrieOK ==
  LET N == 1 .. Len(node_pool)
  IN  /\ RouterTypeOK
      /\ Len(node_pool) <= node_pool_size
      /\ \A n \in N : /\ Len(Children(n)) <= MaxChildren
                      /\ \A i \in DOMAIN Children(n) :
                           Children(n)[i] \in n + 1 .. Len(node_pool)
      /\ \A c \in N \ {1} :
           \E n \in N : \E i \in DOMAIN Children(n) :
             /\ Children(n)[i] = c
             /\ \A m \in N : \A j \in DOMAIN Children(m) :
                  Children(m)[j] = c => m = n /\ j = i
      /\ \A n \in N : \A i, j \in DOMAIN Children(n) :
           LET s == node_pool[Children(n)[i]].segment
           IN  s = node_pool[Children(n)[j]].segment
                 => i = j \/ \E long \in Names \ {s} : Truncated[long] = s

\* Until the migration the array holds every route add_route accepted, in order
\* and without a parameter (find_array_route compares texts), and never more
\* than the HYBRID_THRESHOLD entries uvhttp_router_new allocates: the growth
\* in add_array_route is dead code.  Afterwards it is empty.
ArrayFits ==
  /\ Len(array_routes) <= HYBRID_THRESHOLD
  /\ array_routes = IF use_trie THEN <<>> ELSE accepted
  /\ \A i \in DOMAIN array_routes : ~HasParams(array_routes[i].path)

\* As long as two paths agree in their texts they agree on what is a parameter.
SameParams(r, s) ==
  LET p == RouteTokens(r)
      q == RouteTokens(s)
      Agree(k) == \A i \in 1 .. k : p[i].name = q[i].name
  IN  \A k \in 1 .. Len(p) : k <= Len(q) /\ Agree(k) => p[k].param = q[k].param

\* Two routes of one trie keep apart if besides their texts differ somewhere.
Apart(r, s) ==
  /\ Plain(RouteTokens(r.path)) # Plain(RouteTokens(s.path))
  /\ SameParams(r.path, s.path)

\* No segment is cut by segment_data, no text between slashes is empty.
Clean(path) ==
  \/ path = <<[name |-> NoText, param |-> FALSE]>>
  \/ \A i \in DOMAIN path :
       path[i].name # NoText /\ Truncated[path[i].name] = path[i].name

\* The routes an application can rely on.  A registration that failed counts as
\* well: the nodes it created stay in the trie, and a literal segment that is
\* registered later takes over such a node, with its is_param.
Orderly ==
  /\ array_mem # "freed"
  /\ \A i \in DOMAIN accepted :
       /\ Clean(accepted[i].path)
       /\ \A j \in DOMAIN accepted : i # j => Apart(accepted[i], accepted[j])
       /\ \A path \in refused : SameParams(accepted[i].path, path)
  /\ \A path \in refused : Clean(path)

\* What a route means, without arrays and tries.
Fits(route, path, method) ==
  LET p == RouteTokens(route.path)
  IN  /\ Accepts(route.method, method)
      /\ Len(p) = Len(Tokens(path))
      /\ \A i \in DOMAIN p : p[i].param \/ p[i].name = Tokens(path)[i]

Candidates(path, method) ==
  {accepted[i].handler :
     i \in {j \in DOMAIN accepted : Fits(accepted[j], path, method)}}

Requests == RequestPaths \X (Methods \cup {ANY, "OTHER"})

CleanRequest(path) == path = <<NoText>> \/ \A i \in DOMAIN path : path[i] # NoText

\* The segments at the parameters of a route's tokens.
Values(tokens, segments) ==
  FoldLeft(LAMBDA vs, x : IF x[1].param THEN Append(vs, x[2]) ELSE vs, <<>>,
           [k \in DOMAIN tokens |-> <<tokens[k], segments[k]>>])

\* uvhttp_router_find_handler, in array and in trie mode and after any history
\* of additions and failures, answers a request outside the static prefix with
\* the handler of a registered route that fits it, and falls through to the
\* fallback only if there is none: for routes that are apart and clean.
HandlerFits ==
  Orderly =>
    \A q \in Requests :
      LET found == FindHandler(q[1], q[2])
          fits == Candidates(q[1], q[2])
      IN  CleanRequest(q[1]) /\ ~StaticHit(q[1]) =>
            IF fits # {} THEN found \in fits
            ELSE found = IF fallback_context THEN StaticHandler ELSE NoHandler

\* The parameters uvhttp_router_match reports are the segments at the
\* parameters of a route with the handler it reports, also after a search that
\* had to back out of other parameters.
ParamsBelong ==
  Orderly =>
    \A q \in Requests :
      LET m == Match(q[1], q[2])
      IN  use_trie /\ m.handler # NoHandler =>
            \E i \in DOMAIN accepted :
              /\ accepted[i].handler = m.handler
              /\ Fits(accepted[i], q[1], q[2])
              /\ m.params = Values(RouteTokens(accepted[i].path), Tokens(q[1]))

\* Both lookups agree with what the routes mean, in handler and parameters.
FindsWhatFits == HandlerFits /\ ParamsBelong

Added == IF Len(accepted') > Len(accepted) THEN {accepted'[Len(accepted')]} ELSE {}

\* Adding a route, the move of all routes to the trie included, and a failed
\* addition change the answer of no request that a route answered and that the
\* new route does not fit: for routes that are apart and clean.
AddKeepsOthers ==
  [][calls' # calls /\ Orderly' =>
       \A q \in Requests :
         LET found == Match(q[1], q[2]).handler
         IN  /\ found \in Handlers
             /\ \A r \in Added : ~Fits(r, q[1], q[2])
             => (use_trie' \/ ~StaticHit(q[1])' => Match(q[1], q[2]).handler' = found)
    ]_routerVars

\* docs/spec/router-api.md: "Migration is transparent: all routes remain
\* functional."  A request that a route of the array answered is still answered
\* by a route of the trie.
MigrationTransparent ==
  [][array_mem = "allocated" /\ array_mem' # "allocated" =>
       \A q \in Requests :
         FindArrayRoute(q[1], q[2]) # NoHandler
           => use_trie' /\ MatchRouteNode(Tokens(q[1]), q[2]).handler' # NoHandler
    ]_routerVars
=============================================================================
