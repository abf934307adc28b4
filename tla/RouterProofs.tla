---------------------------- MODULE RouterProofs ----------------------------
(***************************************************************************)
(* The two routers.  Of the one with the trie (Router): the array, the     *)
(* shape of the trie, and what both lookups find, for every threshold, set *)
(* of paths, pool and number of calls.  Of the one with the hash table     *)
(* (RouterCache): its lookups, for every set of routes, hash function and  *)
(* table size.                                                             *)
(***************************************************************************)
EXTENDS Router, RouterCache, SumFacts, FiniteSetTheorems, SequenceTheorems, TLAPS

\* The inductive invariant: ArrayFits with the types it needs.
Inv ==
  /\ use_trie \in BOOLEAN
  /\ array_routes \in Seq(Route)
  /\ calls \in 0 .. MaxCalls
  /\ ArrayFits

\* An empty router has an empty array.
LEMMA InitInv == RouterInit => Inv
<1> SUFFICES ASSUME RouterInit PROVE Inv
  OBVIOUS
<1> USE BoundAssumption
<1>1. use_trie = FALSE /\ array_routes = <<>> /\ accepted = <<>> /\ calls = 0
  BY DEF RouterInit
<1>2. HYBRID_THRESHOLD \in Nat /\ MaxCalls \in Nat
  OBVIOUS
<1>3. array_routes \in Seq(Route) /\ Len(array_routes) = 0
      /\ DOMAIN array_routes = {}
  BY <1>1
<1>4. array_routes = IF use_trie THEN <<>> ELSE accepted
  BY <1>1
<1>5. ArrayFits
  BY <1>2, <1>3, <1>4 DEF ArrayFits
<1>6. calls \in 0 .. MaxCalls
  BY <1>1, <1>2
<1>7. use_trie \in BOOLEAN
  BY <1>1
<1> QED
  BY <1>3, <1>5, <1>6, <1>7 DEF Inv

\* A route that goes to the array is counted against the threshold first.
LEMMA AddPreserves ==
  ASSUME Inv, NEW route \in Route, NEW cap, calls' \in 0 .. MaxCalls,
         AddRouteMethod(route, cap)
  PROVE  Inv'
<1> USE BoundAssumption
<1>1. CASE use_trie
  BY <1>1 DEF AddRouteMethod, AddTrieRoute, Inv, ArrayFits
<1>2. CASE ~use_trie /\ (HasParams(route.path) \/ Len(array_routes) >= HYBRID_THRESHOLD)
  <2>1. MigrateAndAdd(route, cap)
    BY <1>2 DEF AddRouteMethod
  <2>2. CASE Migrated(cap).ok
    <3>1. use_trie' = TRUE /\ array_routes' = <<>>
      BY <2>1, <2>2 DEF MigrateAndAdd
    <3> QED
      BY <3>1 DEF Inv, ArrayFits
  <2>3. CASE ~Migrated(cap).ok
    <3>1. UNCHANGED <<use_trie, array_routes, accepted>>
      BY <2>1, <2>3 DEF MigrateAndAdd, Returned
    <3> QED
      BY <3>1 DEF Inv, ArrayFits
  <2> QED
    BY <2>2, <2>3
<1>3. CASE ~use_trie /\ ~HasParams(route.path) /\ Len(array_routes) < HYBRID_THRESHOLD
  <2>1. AddArrayRoute(route)
    BY <1>3 DEF AddRouteMethod, Inv
  <2>2. /\ array_routes' = Append(array_routes, route)
        /\ accepted' = Append(accepted, route)
        /\ use_trie' = use_trie
    BY <2>1 DEF AddArrayRoute
  <2>3. \A i \in DOMAIN array_routes' : ~HasParams(array_routes'[i].path)
    BY <1>3, <2>2 DEF Inv, ArrayFits
  <2> QED
    BY <1>3, <2>2, <2>3 DEF Inv, ArrayFits
<1> QED
  BY <1>1, <1>2, <1>3 DEF Inv

\* Every call keeps the array side as it should be.
LEMMA NextInv == Inv /\ [RouterNext]_routerVars => Inv'
<1> SUFFICES ASSUME Inv, [RouterNext]_routerVars PROVE Inv'
  OBVIOUS
<1> USE BoundAssumption
<1>1. ASSUME NEW path \in RoutePaths, NEW method \in Methods \cup {ANY},
             AddRoute(path, method)
      PROVE  Inv'
  <2>1. PICK cap \in Caps :
          AddRouteMethod([path |-> path, method |-> method,
                          handler |-> calls + 1], cap)
    BY <1>1 DEF AddRoute
  <2>2. calls' \in 0 .. MaxCalls /\ calls + 1 \in Handlers
    BY <1>1 DEF AddRoute, Called, Handlers, Inv
  <2>3. [path |-> path, method |-> method, handler |-> calls + 1] \in Route
    BY <2>2 DEF Route
  <2> QED
    BY <2>1, <2>2, <2>3, AddPreserves
<1>2. ASSUME NEW path \in RoutePaths, AddBinaryRoute(path)
      PROVE  Inv'
  <2>1. PICK cap \in Caps :
          AddRouteMethod([path |-> path, method |-> ANY,
                          handler |-> BinaryHandler], cap)
    BY <1>2 DEF AddBinaryRoute
  <2>2. calls' \in 0 .. MaxCalls
    BY <1>2 DEF AddBinaryRoute, Called, Inv
  <2>3. [path |-> path, method |-> ANY, handler |-> BinaryHandler] \in Route
    BY DEF Route
  <2> QED
    BY <2>1, <2>2, <2>3, AddPreserves
<1>3. ASSUME NEW prefix \in StaticPrefixes, AddStaticRoute(prefix)
      PROVE  Inv'
  BY <1>3 DEF AddStaticRoute, Called, Inv, ArrayFits
<1>4. CASE AddFallbackRoute
  BY <1>4 DEF AddFallbackRoute, Called, Inv, ArrayFits
<1>5. CASE UNCHANGED routerVars
  BY <1>5 DEF routerVars, Inv, ArrayFits
<1> QED
  BY <1>1, <1>2, <1>3, <1>4, <1>5 DEF RouterNext

\* Whatever is registered, and whichever migrations fail, add_array_route
\* never outgrows the array of uvhttp_router_new, and until the migration
\* find_array_route searches exactly the accepted routes, all of them literal.
THEOREM ArrayWithinCapacity == RouterSpec => []ArrayFits
<1>1. Inv => ArrayFits
  BY DEF Inv
<1> QED
  BY InitInv, NextInv, <1>1, PTL DEF RouterSpec

-----------------------------------------------------------------------------
(* The trie of Router: its nodes.                                          *)

NodeType == [segment : Names, is_param : BOOLEAN, method : Methods \cup {ANY},
             handler : Handlers \cup {NoHandler, BinaryHandler}, children : Seq(Nat)]
TokenType == [name : Names, param : BOOLEAN]
WalkType == [pool : Seq(NodeType), size : Nat, at : Nat, ok : BOOLEAN]

\* The conjuncts of TrieOK, of any pool.
ChildrenOK(pool) ==
  \A n \in 1 .. Len(pool) :
    /\ Len(pool[n].children) <= MaxChildren
    /\ \A i \in DOMAIN pool[n].children : pool[n].children[i] \in n + 1 .. Len(pool)

OneParent(pool, c) ==
  \E n \in 1 .. Len(pool) : \E i \in DOMAIN pool[n].children :
    /\ pool[n].children[i] = c
    /\ \A m \in 1 .. Len(pool) : \A j \in DOMAIN pool[m].children :
         pool[m].children[j] = c => m = n /\ j = i

Cut(s) == \E long \in Names \ {s} : Truncated[long] = s

SiblingsOK(pool) ==
  \A n \in 1 .. Len(pool) : \A i, j \in DOMAIN pool[n].children :
    pool[pool[n].children[i]].segment = pool[pool[n].children[j]].segment
      => i = j \/ Cut(pool[pool[n].children[i]].segment)

TreeOK(pool, size) ==
  /\ pool \in Seq(NodeType) /\ Len(pool) >= 1 /\ size \in Nat /\ Len(pool) <= size
  /\ ChildrenOK(pool)
  /\ \A c \in 2 .. Len(pool) : OneParent(pool, c)
  /\ SiblingsOK(pool)

WalkOK(w) == w \in WalkType /\ TreeOK(w.pool, w.size) /\ w.at \in 1 .. Len(w.pool)

\* Q is P with a new child of node n.
Grown(P, Q, n, segment, is_param) ==
  /\ Q \in Seq(NodeType) /\ Len(Q) = Len(P) + 1
  /\ \A m \in 1 .. Len(P) :
       /\ Q[m].segment = P[m].segment /\ Q[m].is_param = P[m].is_param
       /\ Q[m].method = P[m].method /\ Q[m].handler = P[m].handler
       /\ Q[m].children = IF m = n THEN Append(P[m].children, Len(P) + 1) ELSE P[m].children
  /\ Q[Len(P) + 1].segment = segment /\ Q[Len(P) + 1].is_param = is_param
  /\ Q[Len(P) + 1].handler = NoHandler /\ Q[Len(P) + 1].children = <<>>

\* The node that create_route_node makes.
LEMMA NodeIs ==
  ASSUME NEW s \in Names, NEW b \in BOOLEAN
  PROVE  Node(s, b) \in NodeType
BY DEF Node, NodeType, NoHandler

\* Appending a node and making it a child of node n.
LEMMA GrownIs ==
  ASSUME NEW P \in Seq(NodeType), NEW n \in 1 .. Len(P), NEW s \in Names, NEW b \in BOOLEAN
  PROVE  Grown(P, Append([P EXCEPT ![n].children = Append(@, Len(P) + 1)], Node(s, b)), n, s, b)
<1> DEFINE R == [P EXCEPT ![n].children = Append(@, Len(P) + 1)]
           N == Node(s, b)
           Q == Append(R, N)
<1>1. Len(P) \in Nat /\ DOMAIN P = 1 .. Len(P) BY LenProperties
<1>2. \A m \in 1 .. Len(P) : P[m] \in NodeType BY <1>1, ElementOfSeq
<1>3. N \in NodeType /\ N.segment = s /\ N.is_param = b /\ N.handler = NoHandler /\ N.children = <<>>
  BY NodeIs DEF Node
<1>4. R \in Seq(NodeType) /\ Len(R) = Len(P)
  <2>1. P[n].children \in Seq(Nat) /\ Len(P) + 1 \in Nat BY <1>1, <1>2 DEF NodeType
  <2>2. Append(P[n].children, Len(P) + 1) \in Seq(Nat) BY <2>1, AppendProperties
  <2>3. [P[n] EXCEPT !.children = Append(P[n].children, Len(P) + 1)] \in NodeType
    BY <1>2, <2>2 DEF NodeType
  <2> DEFINE x == [P[n] EXCEPT !.children = Append(P[n].children, Len(P) + 1)]
  <2>4. R = [P EXCEPT ![n] = x] OBVIOUS
  <2> HIDE DEF x
  <2> QED BY <1>1, <2>3, <2>4, ExceptSeq DEF x
<1>5. \A m \in 1 .. Len(P) :
       /\ R[m].segment = P[m].segment /\ R[m].is_param = P[m].is_param
       /\ R[m].method = P[m].method /\ R[m].handler = P[m].handler
       /\ R[m].children = IF m = n THEN Append(P[m].children, Len(P) + 1) ELSE P[m].children
  BY <1>1, <1>2 DEF NodeType
<1> HIDE DEF R, N
<1>6. Q \in Seq(NodeType) /\ Len(Q) = Len(R) + 1 /\ (\A i \in 1 .. Len(R) : Q[i] = R[i])
      /\ Q[Len(R) + 1] = N
  BY <1>3, <1>4, AppendProperties
<1>7. Grown(P, Q, n, s, b)
  <2> HIDE DEF Q
  <2> QED BY <1>1, <1>3, <1>4, <1>5, <1>6 DEF Grown
<1> QED BY <1>7 DEF R, N

\* The three ends of find_or_create_child.
Found(w, v, token, i) ==
  /\ i \in DOMAIN w.pool[w.at].children
  /\ w.pool[w.pool[w.at].children[i]].segment = token.name
  /\ v.pool = w.pool /\ v.size = w.size /\ v.at = w.pool[w.at].children[i] /\ v.ok = w.ok

Failed(w, v) == v.pool = w.pool /\ v.size = w.size /\ v.at = w.at /\ v.ok = FALSE

Created(w, v, token) ==
  /\ \A i \in DOMAIN w.pool[w.at].children :
       w.pool[w.pool[w.at].children[i]].segment # token.name
  /\ Len(w.pool[w.at].children) < MaxChildren
  /\ Grown(w.pool, v.pool, w.at, Truncated[token.name], token.param)
  /\ v.at = Len(w.pool) + 1 /\ v.ok = w.ok
  /\ v.size \in Nat /\ Len(w.pool) + 1 <= v.size

FindEnds(w, v, token) ==
  v \in WalkType /\ ((\E i : Found(w, v, token, i)) \/ Failed(w, v) \/ Created(w, v, token))

\* What find_or_create_child does.
LEMMA FindIs ==
  ASSUME NEW w, WalkOK(w), w.ok, NEW token \in TokenType, NEW cap
  PROVE  FindEnds(w, FindOrCreateChild(w, token, cap), token)
<1> DEFINE kids == w.pool[w.at].children
           I == {i \in 1 .. Len(kids) : w.pool[kids[i]].segment = token.name}
           i == SelectInSeq(kids, LAMBDA c : w.pool[c].segment = token.name)
           v == FindOrCreateChild(w, token, cap)
<1>1. /\ w \in WalkType /\ w.pool \in Seq(NodeType) /\ w.size \in Nat /\ w.at \in 1 .. Len(w.pool)
      /\ Len(w.pool) \in Nat /\ w.pool[w.at] \in NodeType /\ w.ok \in BOOLEAN
  <2>1. w \in WalkType /\ w.pool \in Seq(NodeType) /\ w.size \in Nat /\ w.at \in 1 .. Len(w.pool)
        /\ w.ok \in BOOLEAN
    BY DEF WalkOK, TreeOK, WalkType
  <2> QED BY <2>1, LenProperties, ElementOfSeq
<1>2. kids \in Seq(Nat) BY <1>1 DEF NodeType
<1>3. Len(kids) \in Nat /\ DOMAIN kids = 1 .. Len(kids) BY <1>2, LenProperties
<1>4. I \in SUBSET Nat /\ I \subseteq 1 .. Len(kids) BY <1>3
<1>5. i = IF I # {} THEN Min(I) ELSE 0 BY DEF SelectInSeq
<1>6. /\ i = 0 => \A k \in 1 .. Len(kids) : w.pool[kids[k]].segment # token.name
      /\ i # 0 => i \in DOMAIN kids /\ w.pool[kids[i]].segment = token.name
  <2>1. CASE I = {}
    <3>1. i = 0 /\ \A k \in 1 .. Len(kids) : w.pool[kids[k]].segment # token.name BY <1>5, <2>1
    <3> QED BY <3>1
  <2>2. CASE I # {}
    <3> DEFINE J == Min(I)
    <3>1. J \in I
      <4> HIDE DEF I
      <4> QED BY <1>4, <2>2, MinIsLeast
    <3>2. i = J BY <1>5, <2>2
    <3> HIDE DEF J, i
    <3>3. J \in 1 .. Len(kids) /\ w.pool[kids[J]].segment = token.name BY <3>1
    <3> QED BY <1>3, <3>2, <3>3
  <2> QED BY <2>1, <2>2
<1>7. v = IF i # 0 THEN [w EXCEPT !.at = kids[i]]
          ELSE IF Len(kids) >= MaxChildren THEN [w EXCEPT !.ok = FALSE]
          ELSE CreateChild(w, token.name, token.param, cap)
  BY DEF FindOrCreateChild
<1> HIDE DEF i, I, v
<1>8. CASE i # 0
  <2>1. kids[i] \in Nat BY <1>2, <1>6, <1>8, <1>3
  <2>2. v = [w EXCEPT !.at = kids[i]] BY <1>7, <1>8
  <2>3. v \in WalkType /\ v.pool = w.pool /\ v.size = w.size /\ v.at = kids[i] /\ v.ok = w.ok
    BY <1>1, <2>1, <2>2 DEF WalkType
  <2>4. Found(w, v, token, i) BY <1>6, <1>8, <2>3 DEF Found
  <2> QED BY <2>3, <2>4 DEF FindEnds, v
<1>9. ASSUME v = [w EXCEPT !.ok = FALSE] PROVE FindEnds(w, v, token)
  <2>1. v \in WalkType /\ Failed(w, v) BY <1>1, <1>9 DEF WalkType, Failed
  <2> QED BY <2>1 DEF FindEnds
<1>10. CASE i = 0 /\ Len(kids) >= MaxChildren BY <1>7, <1>9, <1>10 DEF v
<1>11. CASE i = 0 /\ ~(Len(kids) >= MaxChildren)
  <2> DEFINE child == Len(w.pool) + 1
             size == IF child > w.size THEN 2 * w.size ELSE w.size
             Q == Append([w.pool EXCEPT ![w.at].children = Append(@, child)],
                         Node(Truncated[token.name], token.param))
  <2>1. v = IF size > w.size /\ size > cap THEN [w EXCEPT !.ok = FALSE]
            ELSE [w EXCEPT !.pool = Q, !.size = size, !.at = child]
    <3>1. v = CreateChild(w, token.name, token.param, cap) BY <1>7, <1>11
    <3> QED BY <3>1, Zenon DEF CreateChild
  <2>2. token.name \in Names /\ Truncated[token.name] \in Names /\ token.param \in BOOLEAN
    BY NameAssumption DEF TokenType
  <2>3. Grown(w.pool, Q, w.at, Truncated[token.name], token.param)
    BY <1>1, <2>2, GrownIs
  <2>4. size \in Nat /\ child <= size /\ child \in Nat
    BY <1>1 DEF WalkOK, TreeOK
  <2> HIDE DEF Q, size, child
  <2>5. CASE v = [w EXCEPT !.pool = Q, !.size = size, !.at = child]
    <3>1. Q \in Seq(NodeType) BY <2>3 DEF Grown
    <3>2. v \in WalkType /\ v.pool = Q /\ v.size = size /\ v.at = child /\ v.ok = w.ok
      BY <1>1, <2>4, <2>5, <3>1 DEF WalkType
    <3>3. Len(kids) < MaxChildren BY <1>3, <1>11, BoundAssumption
    <3>4. Created(w, v, token)
      BY <1>3, <1>6, <1>11, <2>3, <2>4, <3>2, <3>3 DEF Created, child
    <3> QED BY <3>2, <3>4 DEF FindEnds, v
  <2> QED BY <1>9, <2>1, <2>5 DEF v
<1> QED BY <1>8, <1>10, <1>11

\* The types of a node's fields.
LEMMA NodeFacts ==
  ASSUME NEW pool \in Seq(NodeType), NEW n \in 1 .. Len(pool)
  PROVE  /\ pool[n] \in NodeType /\ pool[n].children \in Seq(Nat)
         /\ Len(pool[n].children) \in Nat
         /\ DOMAIN pool[n].children = 1 .. Len(pool[n].children)
         /\ \A i \in DOMAIN pool[n].children : pool[n].children[i] \in Nat
<1>1. pool[n] \in NodeType BY LenProperties, ElementOfSeq
<1>2. pool[n].children \in Seq(Nat) BY <1>1 DEF NodeType
<1> QED BY <1>1, <1>2, LenProperties, ElementOfSeq

\* The children of the nodes of a pool that has grown.
LEMMA GrownChildren ==
  ASSUME NEW P \in Seq(NodeType), NEW Q, NEW n \in 1 .. Len(P), NEW s, NEW b,
         Grown(P, Q, n, s, b)
  PROVE  /\ Len(P) \in Nat /\ Len(Q) = Len(P) + 1
         /\ \A m \in 1 .. Len(P) : m # n => Q[m].children = P[m].children
         /\ DOMAIN Q[n].children = 1 .. Len(P[n].children) + 1
         /\ Len(Q[n].children) = Len(P[n].children) + 1
         /\ \A i \in 1 .. Len(P[n].children) : Q[n].children[i] = P[n].children[i]
         /\ Q[n].children[Len(P[n].children) + 1] = Len(P) + 1
         /\ DOMAIN Q[Len(P) + 1].children = {}
<1>1. Len(P) \in Nat BY LenProperties
<1>2. P[n].children \in Seq(Nat) /\ Len(P[n].children) \in Nat BY NodeFacts
<1>3. Q[n].children = Append(P[n].children, Len(P) + 1) BY DEF Grown
<1>4. /\ Append(P[n].children, Len(P) + 1) \in Seq(Nat)
      /\ Len(Append(P[n].children, Len(P) + 1)) = Len(P[n].children) + 1
      /\ \A i \in 1 .. Len(P[n].children) :
           Append(P[n].children, Len(P) + 1)[i] = P[n].children[i]
      /\ Append(P[n].children, Len(P) + 1)[Len(P[n].children) + 1] = Len(P) + 1
  BY <1>1, <1>2, AppendProperties
<1>5. DOMAIN Q[n].children = 1 .. Len(P[n].children) + 1 BY <1>3, <1>4, LenProperties
<1> QED BY <1>1, <1>3, <1>4, <1>5 DEF Grown

\* The new child keeps the pool a tree.
LEMMA GrownTree ==
  ASSUME NEW P, NEW size, TreeOK(P, size), NEW Q, NEW n \in 1 .. Len(P),
         NEW name \in Names, NEW b \in BOOLEAN, Grown(P, Q, n, Truncated[name], b),
         Len(P[n].children) < MaxChildren,
         \A i \in DOMAIN P[n].children : P[P[n].children[i]].segment # name,
         NEW more \in Nat, Len(P) + 1 <= more
  PROVE  TreeOK(Q, more)
<1> DEFINE c == Len(P) + 1
           L == Len(P[n].children)
<1>1. P \in Seq(NodeType) /\ Q \in Seq(NodeType) /\ Len(P) >= 1 /\ ChildrenOK(P) /\ SiblingsOK(P)
      /\ \A d \in 2 .. Len(P) : OneParent(P, d)
  BY DEF TreeOK, Grown
<1>0. /\ Len(P) \in Nat /\ Len(Q) = Len(P) + 1
      /\ \A m \in 1 .. Len(P) : m # n => Q[m].children = P[m].children
      /\ DOMAIN Q[n].children = 1 .. Len(P[n].children) + 1
      /\ Len(Q[n].children) = Len(P[n].children) + 1
      /\ \A i \in 1 .. Len(P[n].children) : Q[n].children[i] = P[n].children[i]
      /\ Q[n].children[Len(P[n].children) + 1] = Len(P) + 1
      /\ DOMAIN Q[Len(P) + 1].children = {}
  <2> HIDE DEF c, L
  <2>1. P \in Seq(NodeType) BY <1>1
  <2> QED BY ONLY <2>1, n \in 1 .. Len(P), Grown(P, Q, n, Truncated[name], b), GrownChildren
<1>a. Q[Len(P) + 1].children = <<>> BY DEF Grown
<1>2. /\ Len(P) \in Nat /\ Len(Q) = c
      /\ \A m \in 1 .. Len(P) : m # n => Q[m].children = P[m].children
      /\ DOMAIN Q[n].children = 1 .. L + 1 /\ Len(Q[n].children) = L + 1
      /\ \A i \in 1 .. L : Q[n].children[i] = P[n].children[i]
      /\ Q[n].children[L + 1] = c
      /\ DOMAIN Q[c].children = {} /\ Q[c].children = <<>>
  BY <1>0, <1>a
<1>3. L \in Nat /\ DOMAIN P[n].children = 1 .. L BY <1>1, NodeFacts
<1>4. \A m \in 1 .. Len(P) : \A i \in DOMAIN P[m].children : P[m].children[i] \in m + 1 .. Len(P)
  BY <1>1 DEF ChildrenOK
<1>5. \A m \in 1 .. Len(P) : Q[m].segment = P[m].segment BY DEF Grown
<1>6. Q[c].segment = Truncated[name] BY DEF Grown
<1>7. MaxChildren \in Nat BY BoundAssumption
<1>8. \A m \in 1 .. c : m \in 1 .. Len(P) \/ m = c
  <2>1. \A k \in Nat : \A m \in 1 .. k + 1 : m \in 1 .. k \/ m = k + 1 OBVIOUS
  <2> QED BY <1>2, <2>1
<1> HIDE DEF c, L
<1>9. ChildrenOK(Q)
  <2> SUFFICES ASSUME NEW m \in 1 .. c
               PROVE  /\ Len(Q[m].children) <= MaxChildren
                      /\ \A i \in DOMAIN Q[m].children : Q[m].children[i] \in m + 1 .. c
    BY <1>2 DEF ChildrenOK
  <2>1. CASE m = c
    <3>1. Len(Q[m].children) = 0 BY <1>2, <2>1
    <3> QED BY <1>2, <1>7, <2>1, <3>1
  <2>2. CASE m = n
    <3>1. L < MaxChildren BY DEF L
    <3>2. \A i \in 1 .. L : P[n].children[i] \in n + 1 .. Len(P) BY <1>3, <1>4
    <3>3. c = Len(P) + 1 BY DEF c
    <3>4. Len(Q[n].children) <= MaxChildren BY <1>2, <1>3, <1>7, <3>1
    <3>5. ASSUME NEW i \in 1 .. L + 1 PROVE Q[n].children[i] \in n + 1 .. c
      <4>1. n \in Nat /\ n <= Len(P) BY <1>2
      <4>2. CASE i = L + 1
        <5>1. Q[n].children[i] = c BY <1>2, <4>2
        <5> QED BY <1>2, <3>3, <4>1, <5>1
      <4>3. CASE i \in 1 .. L
        <5>1. Q[n].children[i] \in n + 1 .. Len(P) BY <1>2, <3>2, <4>3
        <5> QED BY <1>2, <3>3, <4>1, <5>1
      <4> QED BY <1>3, <4>2, <4>3
    <3> QED BY <1>2, <2>2, <3>4, <3>5
  <2>3. CASE m \in 1 .. Len(P) /\ m # n
    <3>1. Len(P[m].children) <= MaxChildren BY <1>1, <2>3 DEF ChildrenOK
    <3>2. Q[m].children = P[m].children BY <1>2, <2>3
    <3>3. \A i \in DOMAIN P[m].children : P[m].children[i] \in m + 1 .. c
      BY <1>2, <1>4, <2>3 DEF c
    <3> QED BY <3>1, <3>2, <3>3
  <2> QED BY <1>8, <2>1, <2>2, <2>3
<1>10. ASSUME NEW m \in 1 .. c, NEW j \in DOMAIN Q[m].children
       PROVE  \/ m = n /\ j = L + 1 /\ Q[m].children[j] = c
              \/ /\ m \in 1 .. Len(P) /\ j \in DOMAIN P[m].children
                 /\ Q[m].children[j] = P[m].children[j]
                 /\ ~(m = n /\ j = L + 1) /\ Q[m].children[j] \in 2 .. Len(P)
  <2>1. CASE m = c BY <1>2, <2>1
  <2>2. CASE m = n /\ j = L + 1 BY <1>2, <2>2
  <2>3. CASE m = n /\ j # L + 1
    <3>1. j \in 1 .. L BY <1>2, <1>3, <2>3
    <3>2. P[n].children[j] \in n + 1 .. Len(P) BY <1>3, <1>4, <3>1
    <3>3. P[n].children[j] \in 2 .. Len(P) BY <1>2, <3>2
    <3> QED BY <1>2, <1>3, <2>3, <3>1, <3>3
  <2>4. CASE m \in 1 .. Len(P) /\ m # n
    <3>1. Q[m].children = P[m].children BY <1>2, <2>4
    <3>2. P[m].children[j] \in m + 1 .. Len(P) BY <1>4, <2>4, <3>1
    <3>3. P[m].children[j] \in 2 .. Len(P) BY <1>2, <2>4, <3>2
    <3> QED BY <2>4, <3>1, <3>3
  <2> QED BY <1>8, <2>1, <2>2, <2>3, <2>4
<1>11. ASSUME NEW d \in 2 .. c PROVE OneParent(Q, d)
  <2>1. n \in 1 .. c /\ L + 1 \in DOMAIN Q[n].children /\ L + 1 \in Nat /\ c \notin 2 .. Len(P)
    BY <1>2, <1>3 DEF c
  <2>2. CASE d = c
    <3>1. \A m \in 1 .. c : \A j \in DOMAIN Q[m].children :
            Q[m].children[j] = d => m = n /\ j = L + 1
      BY <1>10, <2>1, <2>2
    <3> QED BY <1>2, <2>1, <2>2, <3>1 DEF OneParent
  <2>3. CASE d # c
    <3>1. d \in 2 .. Len(P) BY <1>2, <2>3 DEF c
    <3>2. PICK m \in 1 .. Len(P) : \E i \in DOMAIN P[m].children :
            /\ P[m].children[i] = d
            /\ \A k \in 1 .. Len(P) : \A j \in DOMAIN P[k].children :
                 P[k].children[j] = d => k = m /\ j = i
      BY <1>1, <3>1 DEF OneParent
    <3>3. PICK i \in DOMAIN P[m].children :
            /\ P[m].children[i] = d
            /\ \A k \in 1 .. Len(P) : \A j \in DOMAIN P[k].children :
                 P[k].children[j] = d => k = m /\ j = i
      BY <3>2
    <3>4. m \in 1 .. c /\ i \in DOMAIN Q[m].children /\ Q[m].children[i] = d
      BY <1>2, <1>3, <3>3 DEF c
    <3>5. \A k \in 1 .. c : \A j \in DOMAIN Q[k].children : Q[k].children[j] = d => k = m /\ j = i
      BY <1>10, <2>3, <3>3
    <3> QED BY <1>2, <3>4, <3>5 DEF OneParent
  <2> QED BY <2>2, <2>3
<1>12. SiblingsOK(Q)
  <2> SUFFICES ASSUME NEW m \in 1 .. c, NEW i \in DOMAIN Q[m].children,
                      NEW j \in DOMAIN Q[m].children, i # j,
                      Q[Q[m].children[i]].segment = Q[Q[m].children[j]].segment
               PROVE  Cut(Q[Q[m].children[i]].segment)
    BY <1>2 DEF SiblingsOK
  <2>1. ASSUME NEW k \in DOMAIN P[n].children, Truncated[name] = P[P[n].children[k]].segment
        PROVE  Cut(Truncated[name])
    <3>1. Truncated[name] # name BY <2>1
    <3> QED BY <3>1 DEF Cut
  <2>2. 2 .. Len(P) \subseteq 1 .. Len(P) BY <1>2
  <2>3. CASE m = n /\ i = L + 1
    <3>1. j \in DOMAIN P[n].children /\ Q[n].children[j] = P[n].children[j]
          /\ Q[n].children[j] \in 2 .. Len(P)
      BY <1>10, <2>3
    <3>2. Q[Q[n].children[j]].segment = P[P[n].children[j]].segment BY <1>5, <2>2, <3>1
    <3>3. Q[Q[m].children[i]].segment = Truncated[name] BY <1>2, <1>6, <2>3
    <3> QED BY <2>1, <2>3, <3>1, <3>2, <3>3
  <2>4. CASE m = n /\ j = L + 1
    <3>1. i \in DOMAIN P[n].children /\ Q[n].children[i] = P[n].children[i]
          /\ Q[n].children[i] \in 2 .. Len(P)
      BY <1>10, <2>4
    <3>2. Q[Q[n].children[i]].segment = P[P[n].children[i]].segment BY <1>5, <2>2, <3>1
    <3>3. Q[Q[m].children[j]].segment = Truncated[name] BY <1>2, <1>6, <2>4
    <3> QED BY <2>1, <2>4, <3>1, <3>2, <3>3
  <2>5. CASE ~(m = n /\ i = L + 1) /\ ~(m = n /\ j = L + 1)
    <3>1. /\ m \in 1 .. Len(P) /\ i \in DOMAIN P[m].children /\ j \in DOMAIN P[m].children
          /\ Q[m].children[i] = P[m].children[i] /\ Q[m].children[i] \in 2 .. Len(P)
          /\ Q[m].children[j] = P[m].children[j] /\ Q[m].children[j] \in 2 .. Len(P)
      BY <1>10, <2>5
    <3>2. /\ Q[Q[m].children[i]].segment = P[P[m].children[i]].segment
          /\ Q[Q[m].children[j]].segment = P[P[m].children[j]].segment
      BY <1>5, <2>2, <3>1
    <3> QED BY <1>1, <3>1, <3>2 DEF SiblingsOK
  <2> QED BY <2>3, <2>4, <2>5
<1> QED BY <1>1, <1>2, <1>9, <1>11, <1>12 DEF TreeOK, c

\* A step of a walk keeps the pool a tree and stays on it.
LEMMA StepKeeps ==
  ASSUME NEW w, WalkOK(w), NEW token \in TokenType, NEW cap
  PROVE  WalkOK(FindOrCreateChild(w, token, cap))
<1> DEFINE v == FindOrCreateChild(w, token, cap)
<1> SUFFICES WalkOK(v) OBVIOUS
<1>1. CASE ~w.ok
  <2>1. v = w BY <1>1 DEF FindOrCreateChild
  <2> HIDE DEF v
  <2> QED BY <2>1
<1>2. CASE w.ok
  <2>1. FindEnds(w, v, token) BY <1>2, FindIs
  <2> HIDE DEF v
  <2>2. v \in WalkType BY <2>1 DEF FindEnds
  <2>3. TreeOK(w.pool, w.size) /\ w.at \in 1 .. Len(w.pool) /\ w.pool \in Seq(NodeType)
    BY DEF WalkOK, TreeOK
  <2>4. Len(w.pool) \in Nat BY <2>3, LenProperties
  <2>5. ASSUME NEW i, Found(w, v, token, i) PROVE WalkOK(v)
    <3>1. w.pool[w.at].children[i] \in w.at + 1 .. Len(w.pool)
      BY <2>3, <2>5 DEF Found, TreeOK, ChildrenOK
    <3>2. w.pool[w.at].children[i] \in 1 .. Len(w.pool) BY <2>3, <2>4, <3>1
    <3> QED BY <2>2, <2>3, <2>5, <3>2 DEF WalkOK, Found
  <2>6. CASE Failed(w, v) BY <2>2, <2>3, <2>6 DEF WalkOK, Failed
  <2>7. CASE Created(w, v, token)
    <3>1. token.name \in Names /\ token.param \in BOOLEAN BY DEF TokenType
    <3>2. TreeOK(v.pool, v.size) BY <2>3, <2>7, <3>1, GrownTree DEF Created
    <3>3. v.at = Len(v.pool) /\ v.at \in 1 .. Len(v.pool) BY <2>4, <2>7 DEF Created, Grown
    <3> QED BY <2>2, <3>2, <3>3 DEF WalkOK
  <2> QED BY <2>1, <2>5, <2>6, <2>7 DEF FindEnds
<1>3. w.ok \in BOOLEAN BY DEF WalkOK, WalkType
<1> HIDE DEF v
<1> QED BY <1>1, <1>2, <1>3

-----------------------------------------------------------------------------
(* The tokens of a path.                                                   *)

TokenStep(ts, k, path) ==
  IF path[k].name = NoText /\ ~path[k].param THEN ts ELSE Append(ts, path[k])
TextStep(ts, k, path) == IF path[k] = NoText THEN ts ELSE Append(ts, path[k])

TokenRec == INSTANCE SumFacts WITH FoldOp <- TokenStep
TextRec == INSTANCE SumFacts WITH FoldOp <- TextStep
Walking == INSTANCE SumFacts WITH FoldOp <- FindOrCreateChild

\* The tokens are collected text by text.
LEMMA RouteTokensRun ==
  ASSUME NEW path, Len(path) \in Nat
  PROVE  \E ts : /\ ts[0] = <<>> /\ RouteTokens(path) = ts[Len(path)]
                 /\ \A k \in 1 .. Len(path) : ts[k] = TokenStep(ts[k - 1], k, path)
<1> DEFINE ts == TokenRec!RecOf(<<>>, path, Len(path))
<1>1. RouteTokens(path) = ts[Len(path)]
  BY DEF RouteTokens, TokenRec!RecOf, TokenRec!RecBy, TokenStep
<1>2. TokenRec!RecBy(<<>>, path, Len(path), ts) BY TokenRec!RecExists
<1> HIDE DEF ts
<1>3. ts = [k \in 0 .. Len(path) |-> IF k = 0 THEN <<>> ELSE TokenStep(ts[k - 1], k, path)]
  BY <1>2 DEF TokenRec!RecBy
<1>4. ts[0] = <<>> /\ \A k \in 1 .. Len(path) : ts[k] = TokenStep(ts[k - 1], k, path)
  BY <1>3
<1> QED BY <1>1, <1>4

\* The segments of a request are collected text by text.
LEMMA TokensRun ==
  ASSUME NEW path, Len(path) \in Nat
  PROVE  \E ts : /\ ts[0] = <<>> /\ Tokens(path) = ts[Len(path)]
                 /\ \A k \in 1 .. Len(path) : ts[k] = TextStep(ts[k - 1], k, path)
<1> DEFINE ts == TextRec!RecOf(<<>>, path, Len(path))
<1>1. Tokens(path) = ts[Len(path)]
  BY DEF Tokens, TextRec!RecOf, TextRec!RecBy, TextStep
<1>2. TextRec!RecBy(<<>>, path, Len(path), ts) BY TextRec!RecExists
<1> HIDE DEF ts
<1>3. ts = [k \in 0 .. Len(path) |-> IF k = 0 THEN <<>> ELSE TextStep(ts[k - 1], k, path)]
  BY <1>2 DEF TextRec!RecBy
<1>4. ts[0] = <<>> /\ \A k \in 1 .. Len(path) : ts[k] = TextStep(ts[k - 1], k, path)
  BY <1>3
<1> QED BY <1>1, <1>4

\* Something that holds before a loop and is kept by every round.
LEMMA RoundsType ==
  ASSUME NEW S, NEW n \in Nat, NEW f, f[0] \in S,
         \A k \in 1 .. n : f[k - 1] \in S => f[k] \in S
  PROVE  \A k \in 0 .. n : f[k] \in S
<1> DEFINE B == {b \in 0 .. n : ~(f[b] \in S)}
<1> SUFFICES ASSUME B # {} PROVE FALSE OBVIOUS
<1>1. B \in SUBSET Nat OBVIOUS
<1>2. PICK b \in B : \A a \in B : b <= a
  <2> HIDE DEF B
  <2> QED BY <1>1, LeastNat
<1>3. b # 0 /\ b - 1 \in 0 .. n /\ b \in 1 .. n /\ b - 1 \notin B BY <1>2
<1> QED BY <1>2, <1>3

\* The tokens of a path are texts with a flag.
LEMMA RouteTokensType ==
  ASSUME NEW path \in RoutePaths
  PROVE  /\ path \in Seq(TokenType) /\ Len(path) \in Nat /\ RouteTokens(path) \in Seq(TokenType)
         /\ Len(RouteTokens(path)) \in Nat /\ DOMAIN RouteTokens(path) = 1 .. Len(RouteTokens(path))
         /\ \A i \in 1 .. Len(RouteTokens(path)) : RouteTokens(path)[i] \in TokenType
<1>1. path \in Seq(TokenType) BY PathAssumption DEF TokenType
<1>2. Len(path) \in Nat /\ \A k \in 1 .. Len(path) : path[k] \in TokenType
  BY <1>1, LenProperties, ElementOfSeq
<1>3. PICK ts : /\ ts[0] = <<>> /\ RouteTokens(path) = ts[Len(path)]
                /\ \A k \in 1 .. Len(path) : ts[k] = TokenStep(ts[k - 1], k, path)
  BY <1>2, RouteTokensRun
<1>4. ts[0] \in Seq(TokenType) BY <1>3, EmptySeq
<1>5. ASSUME NEW k \in 1 .. Len(path), ts[k - 1] \in Seq(TokenType) PROVE ts[k] \in Seq(TokenType)
  <2>1. Append(ts[k - 1], path[k]) \in Seq(TokenType) BY <1>2, <1>5, AppendProperties
  <2>2. ts[k] = TokenStep(ts[k - 1], k, path) BY <1>3
  <2>3. TokenStep(ts[k - 1], k, path) \in {ts[k - 1], Append(ts[k - 1], path[k])} BY DEF TokenStep
  <2> QED BY ONLY <1>5, <2>1, <2>2, <2>3
<1>6. \A k \in 0 .. Len(path) : ts[k] \in Seq(TokenType) BY <1>2, <1>4, <1>5, RoundsType
<1>7. RouteTokens(path) \in Seq(TokenType) BY <1>2, <1>3, <1>6
<1> QED BY <1>1, <1>2, <1>7, LenProperties, ElementOfSeq

\* The segments of a request are texts.
LEMMA TokensType ==
  ASSUME NEW path \in RequestPaths
  PROVE  /\ path \in Seq(Names) /\ Len(path) \in Nat /\ Tokens(path) \in Seq(Names)
         /\ Len(Tokens(path)) \in Nat /\ DOMAIN Tokens(path) = 1 .. Len(Tokens(path))
<1>1. path \in Seq(Names) BY PathAssumption
<1>2. Len(path) \in Nat /\ \A k \in 1 .. Len(path) : path[k] \in Names
  BY <1>1, LenProperties, ElementOfSeq
<1>3. PICK ts : /\ ts[0] = <<>> /\ Tokens(path) = ts[Len(path)]
                /\ \A k \in 1 .. Len(path) : ts[k] = TextStep(ts[k - 1], k, path)
  BY <1>2, TokensRun
<1>4. ts[0] \in Seq(Names) BY <1>3, EmptySeq
<1>5. ASSUME NEW k \in 1 .. Len(path), ts[k - 1] \in Seq(Names) PROVE ts[k] \in Seq(Names)
  BY <1>2, <1>3, <1>5, AppendProperties DEF TextStep
<1>6. \A k \in 0 .. Len(path) : ts[k] \in Seq(Names) BY <1>2, <1>4, <1>5, RoundsType
<1>7. Tokens(path) \in Seq(Names) BY <1>2, <1>3, <1>6
<1> QED BY <1>1, <1>2, <1>7, LenProperties

-----------------------------------------------------------------------------
(* Insertion.                                                              *)

\* The walk from the root along the tokens.
Went(f, w, tokens, cap) ==
  /\ f[0] = [w EXCEPT !.at = 1]
  /\ \A k \in 1 .. Len(tokens) : f[k] = FindOrCreateChild(f[k - 1], tokens[k], cap)

\* Q is P with another method and handler at node n.
Marked(P, Q, n, method, handler) ==
  /\ Q \in Seq(NodeType) /\ Len(Q) = Len(P)
  /\ \A m \in 1 .. Len(P) :
       /\ Q[m].segment = P[m].segment /\ Q[m].is_param = P[m].is_param
       /\ Q[m].children = P[m].children
       /\ m # n => Q[m].method = P[m].method /\ Q[m].handler = P[m].handler
       /\ m = n => Q[m].method = method /\ Q[m].handler = handler

\* u is the end of an insertion that walked to v.
Ends(v, u, route) ==
  /\ u \in WalkType /\ u.ok = v.ok /\ u.at = v.at /\ u.size = v.size
  /\ ~v.ok => u.pool = v.pool
  /\ v.ok => Marked(v.pool, u.pool, v.at, route.method, route.handler)

\* The node at the end of a route takes its method and handler.
LEMMA MarkedIs ==
  ASSUME NEW P \in Seq(NodeType), NEW n \in 1 .. Len(P), NEW method \in Methods \cup {ANY},
         NEW handler \in Handlers \cup {BinaryHandler}
  PROVE  Marked(P, [P EXCEPT ![n].method = method, ![n].handler = handler], n, method, handler)
<1> DEFINE x == [P[n] EXCEPT !.method = method, !.handler = handler]
           Q == [P EXCEPT ![n] = x]
<1>1. Len(P) \in Nat /\ DOMAIN P = 1 .. Len(P) /\ \A m \in 1 .. Len(P) : P[m] \in NodeType
  BY LenProperties, ElementOfSeq
<1>2. [P EXCEPT ![n].method = method, ![n].handler = handler] = Q BY <1>1 DEF NodeType
<1>3. x \in NodeType /\ x.segment = P[n].segment /\ x.is_param = P[n].is_param
      /\ x.children = P[n].children /\ x.method = method /\ x.handler = handler
  BY <1>1 DEF NodeType
<1> HIDE DEF x
<1>4. Q \in Seq(NodeType) /\ Len(Q) = Len(P) /\ \A m \in 1 .. Len(P) : Q[m] = IF m = n THEN x ELSE P[m]
  BY <1>1, <1>3, ExceptSeq
<1> HIDE DEF Q
<1>5. Marked(P, Q, n, method, handler) BY <1>3, <1>4 DEF Marked
<1> QED BY <1>2, <1>5

\* The nodes keep their place when one is marked.
LEMMA MarkedTree ==
  ASSUME NEW P, NEW size, TreeOK(P, size), NEW Q, NEW n, NEW method, NEW handler,
         Marked(P, Q, n, method, handler)
  PROVE  TreeOK(Q, size)
<1>1. P \in Seq(NodeType) /\ Len(P) \in Nat /\ ChildrenOK(P) BY LenProperties DEF TreeOK
<1>2. \A m \in 1 .. Len(P) : Q[m].segment = P[m].segment /\ Q[m].children = P[m].children
  BY DEF Marked
<1>3. Q \in Seq(NodeType) /\ Len(Q) = Len(P) BY DEF Marked
<1>4. ChildrenOK(Q) BY <1>1, <1>2, <1>3 DEF ChildrenOK
<1>5. \A c \in 2 .. Len(Q) : OneParent(Q, c)
  <2> SUFFICES ASSUME NEW c \in 2 .. Len(P) PROVE OneParent(Q, c) BY <1>3
  <2>1. OneParent(P, c) BY DEF TreeOK
  <2> QED BY <1>2, <1>3, <2>1 DEF OneParent
<1>6. \A m \in 1 .. Len(P) : \A i \in DOMAIN P[m].children : P[m].children[i] \in 1 .. Len(P)
  <2> SUFFICES ASSUME NEW m \in 1 .. Len(P), NEW i \in DOMAIN P[m].children
               PROVE  P[m].children[i] \in 1 .. Len(P)
    OBVIOUS
  <2>1. P[m].children[i] \in m + 1 .. Len(P) BY <1>1 DEF ChildrenOK
  <2> QED BY <1>1, <2>1
<1>7. SiblingsOK(Q)
  <2>1. SiblingsOK(P) BY DEF TreeOK
  <2> QED BY <1>2, <1>3, <1>6, <2>1 DEF SiblingsOK
<1> QED BY <1>3, <1>4, <1>5, <1>7 DEF TreeOK

\* An insertion walks from the root and marks the node it reaches.
Inserts(f, w, u, route, cap) ==
  /\ Went(f, w, RouteTokens(route.path), cap)
  /\ \A k \in 0 .. Len(RouteTokens(route.path)) : WalkOK(f[k])
  /\ Ends(f[Len(RouteTokens(route.path))], u, route)
  /\ WalkOK(u)

\* A walk that stands on the root.
LEMMA AtRoot ==
  ASSUME NEW w, WalkOK(w)
  PROVE  /\ WalkOK([w EXCEPT !.at = 1]) /\ [w EXCEPT !.at = 1].pool = w.pool
         /\ [w EXCEPT !.at = 1].size = w.size /\ [w EXCEPT !.at = 1].at = 1
         /\ [w EXCEPT !.at = 1].ok = w.ok
<1> DEFINE v == [w EXCEPT !.at = 1]
<1>1. w \in WalkType /\ TreeOK(w.pool, w.size) BY DEF WalkOK
<1>2. v \in WalkType /\ v.pool = w.pool /\ v.size = w.size /\ v.at = 1 /\ v.ok = w.ok
  BY <1>1 DEF WalkType
<1> HIDE DEF v
<1>3. 1 \in 1 .. Len(w.pool)
  <2>1. w.pool \in Seq(NodeType) /\ Len(w.pool) >= 1 BY <1>1 DEF TreeOK
  <2>2. Len(w.pool) \in Nat BY <2>1, LenProperties
  <2> QED BY <2>1, <2>2
<1>4. WalkOK(v) BY <1>1, <1>2, <1>3 DEF WalkOK
<1> QED BY <1>2, <1>4 DEF v

\* What insertion does.
LEMMA InsertIs ==
  ASSUME NEW w, WalkOK(w), NEW route \in Route, NEW cap
  PROVE  \E f : Inserts(f, w, Insert(w, route, cap), route, cap)
<1> DEFINE tokens == RouteTokens(route.path)
           base == [w EXCEPT !.at = 1]
           u == Insert(w, route, cap)
           v == Walking!Folded(base, tokens, cap)
<1>1. /\ tokens \in Seq(TokenType) /\ Len(tokens) \in Nat /\ DOMAIN tokens = 1 .. Len(tokens)
      /\ \A i \in 1 .. Len(tokens) : tokens[i] \in TokenType
  BY RouteTokensType DEF Route
<1>2. u = IF ~v.ok THEN v
          ELSE [v EXCEPT !.pool[v.at].method = route.method, !.pool[v.at].handler = route.handler]
  BY Zenon DEF Insert, FoldLeft, Walking!Folded, MapThenFoldSet, Walking!MapThenFoldSet, Max, Walking!Max
<1>3. PICK f : Walking!IsRun(f, base, tokens, cap) /\ v = f[Len(tokens)]
  <2> HIDE DEF base
  <2> QED BY <1>1, Walking!FoldRuns
<1>4. WalkOK(base) BY AtRoot
<1> HIDE DEF tokens, v, u
<1>5. Went(f, w, tokens, cap) BY <1>3 DEF Went, Walking!IsRun
<1> HIDE DEF base
<1>6. \A k \in 0 .. Len(tokens) : WalkOK(f[k])
  <2> DEFINE B == {x \in {f[k] : k \in 0 .. Len(tokens)} : WalkOK(x)}
  <2>1. f[0] \in B BY <1>1, <1>3, <1>4 DEF Walking!IsRun
  <2>2. ASSUME NEW k \in 1 .. Len(tokens), f[k - 1] \in B PROVE f[k] \in B
    <3>1. f[k] = FindOrCreateChild(f[k - 1], tokens[k], cap) BY <1>3 DEF Walking!IsRun
    <3>2. WalkOK(f[k - 1]) BY <2>2
    <3>3. WalkOK(f[k]) BY <1>1, <3>1, <3>2, StepKeeps
    <3>4. k \in 0 .. Len(tokens) BY <1>1
    <3> QED BY <3>3, <3>4
  <2> HIDE DEF B
  <2>3. \A k \in 0 .. Len(tokens) : f[k] \in B BY <1>1, <2>1, <2>2, RoundsType
  <2> QED BY <2>3 DEF B
<1>7. WalkOK(v) BY <1>1, <1>3, <1>6
<1>8. /\ v \in WalkType /\ v.pool \in Seq(NodeType) /\ v.at \in 1 .. Len(v.pool)
      /\ TreeOK(v.pool, v.size) /\ v.ok \in BOOLEAN
  BY <1>7 DEF WalkOK, WalkType
<1>9. CASE ~v.ok
  <2>1. u = v BY <1>2, <1>9
  <2>2. Ends(v, u, route) /\ WalkOK(u) BY <1>7, <1>8, <1>9, <2>1 DEF Ends
  <2> QED BY <1>3, <1>5, <1>6, <2>2 DEF Inserts, tokens, u
<1>10. CASE v.ok
  <2> DEFINE Q == [v.pool EXCEPT ![v.at].method = route.method, ![v.at].handler = route.handler]
  <2>1. route.method \in Methods \cup {ANY} /\ route.handler \in Handlers \cup {BinaryHandler}
    BY DEF Route
  <2>2. Marked(v.pool, Q, v.at, route.method, route.handler)
    <3> DEFINE P == v.pool
               n == v.at
    <3>1. P \in Seq(NodeType) /\ n \in 1 .. Len(P) BY <1>8
    <3> HIDE DEF P, n
    <3>2. Marked(P, [P EXCEPT ![n].method = route.method, ![n].handler = route.handler], n,
                 route.method, route.handler)
      BY <2>1, <3>1, MarkedIs
    <3> QED BY <3>2 DEF P, n
  <2>3. u = [v EXCEPT !.pool = Q]
    <3>1. u = [v EXCEPT !.pool[v.at].method = route.method, !.pool[v.at].handler = route.handler]
      BY <1>2, <1>10
    <3> QED BY <1>8, <3>1 DEF WalkType
  <2> HIDE DEF Q
  <2>4. Q \in Seq(NodeType) /\ Len(Q) = Len(v.pool) BY <2>2 DEF Marked
  <2>5. u \in WalkType /\ u.ok = v.ok /\ u.at = v.at /\ u.size = v.size /\ u.pool = Q
    BY <1>8, <2>3, <2>4 DEF WalkType
  <2>6. Ends(v, u, route) BY <1>10, <2>2, <2>5 DEF Ends
  <2>7. TreeOK(Q, v.size) BY <1>8, <2>2, MarkedTree
  <2>8. WalkOK(u) BY <1>8, <2>4, <2>5, <2>7 DEF WalkOK
  <2> QED BY <1>3, <1>5, <1>6, <2>6, <2>8 DEF Inserts, tokens, u
<1> QED BY <1>8, <1>9, <1>10

-----------------------------------------------------------------------------
(* Migration.                                                              *)

MigrateStep(w, route, cap) == IF w.ok THEN Insert(w, route, cap) ELSE w
Moves == INSTANCE SumFacts WITH FoldOp <- MigrateStep

\* The migration inserts one route after the other.
Migrates(g, base, routes, cap) ==
  /\ g[0] = base
  /\ \A k \in 1 .. Len(routes) : g[k] = MigrateStep(g[k - 1], routes[k], cap)
  /\ \A k \in 0 .. Len(routes) : WalkOK(g[k])

\* What the migration does.
LEMMA MigratedIs ==
  ASSUME NEW cap, array_routes \in Seq(Route), WalkOK(Walk)
  PROVE  \E g : Migrates(g, Walk, array_routes, cap) /\ Migrated(cap) = g[Len(array_routes)]
<1> DEFINE base == Walk
           m == Moves!Folded(base, array_routes, cap)
<1>1. /\ Len(array_routes) \in Nat /\ DOMAIN array_routes = 1 .. Len(array_routes)
      /\ \A i \in 1 .. Len(array_routes) : array_routes[i] \in Route
  BY LenProperties, ElementOfSeq
<1>2. Migrated(cap) = m 
  BY Zenon DEF Migrated, FoldLeft, Moves!Folded, MigrateStep, MapThenFoldSet,
               Moves!MapThenFoldSet, Max, Moves!Max
<1> HIDE DEF base
<1>3. PICK g : Moves!IsRun(g, base, array_routes, cap) /\ m = g[Len(array_routes)]
  BY <1>1, Moves!FoldRuns
<1>4. WalkOK(base) BY DEF base
<1>6. \A k \in 0 .. Len(array_routes) : WalkOK(g[k])
  <2> DEFINE B == {x \in {g[k] : k \in 0 .. Len(array_routes)} : WalkOK(x)}
  <2>1. g[0] \in B BY <1>1, <1>3, <1>4 DEF Moves!IsRun
  <2>2. ASSUME NEW k \in 1 .. Len(array_routes), g[k - 1] \in B PROVE g[k] \in B
    <3>1. g[k] = MigrateStep(g[k - 1], array_routes[k], cap) BY <1>3 DEF Moves!IsRun
    <3>2. WalkOK(g[k - 1]) BY <2>2
    <3>3. WalkOK(g[k])
      <4>1. CASE ~g[k - 1].ok BY <3>1, <3>2, <4>1 DEF MigrateStep
      <4>2. CASE g[k - 1].ok
        <5>1. g[k] = Insert(g[k - 1], array_routes[k], cap) BY <3>1, <4>2 DEF MigrateStep
        <5>2. \E f : Inserts(f, g[k - 1], Insert(g[k - 1], array_routes[k], cap), array_routes[k], cap)
          BY <1>1, <3>2, InsertIs
        <5> QED BY <5>1, <5>2 DEF Inserts
      <4> QED BY <4>1, <4>2
    <3>4. k \in 0 .. Len(array_routes) BY <1>1
    <3> QED BY <3>3, <3>4
  <2> HIDE DEF B
  <2>3. \A k \in 0 .. Len(array_routes) : g[k] \in B BY <1>1, <2>1, <2>2, RoundsType
  <2> QED BY <2>3 DEF B
<1>7. Migrates(g, base, array_routes, cap) BY <1>3, <1>6 DEF Migrates, Moves!IsRun
<1> QED BY <1>2, <1>3, <1>7 DEF base

\* The inductive invariant of TrieOK.
TrieInv == RouterTypeOK /\ TreeOK(node_pool, node_pool_size)

\* It says what TrieOK says.
LEMMA TrieInvTrie == TrieInv => TrieOK
<1> SUFFICES ASSUME TrieInv PROVE TrieOK OBVIOUS
<1>1. RouterTypeOK /\ TreeOK(node_pool, node_pool_size) BY DEF TrieInv
<1>2. Len(node_pool) <= node_pool_size BY <1>1 DEF TreeOK
<1>3. \A n \in 1 .. Len(node_pool) :
        /\ Len(Children(n)) <= MaxChildren
        /\ \A i \in DOMAIN Children(n) : Children(n)[i] \in n + 1 .. Len(node_pool)
  BY <1>1 DEF TreeOK, ChildrenOK, Children
<1>4. \A c \in (1 .. Len(node_pool)) \ {1} :
        \E n \in 1 .. Len(node_pool) : \E i \in DOMAIN Children(n) :
          /\ Children(n)[i] = c
          /\ \A m \in 1 .. Len(node_pool) : \A j \in DOMAIN Children(m) :
               Children(m)[j] = c => m = n /\ j = i
  <2> SUFFICES ASSUME NEW c \in (1 .. Len(node_pool)) \ {1}
               PROVE  OneParent(node_pool, c)
    BY DEF OneParent, Children
  <2>1. node_pool \in Seq(NodeType) BY <1>1 DEF TreeOK
  <2>2. c \in 2 .. Len(node_pool) BY <2>1, LenProperties
  <2> QED BY <1>1, <2>2 DEF TreeOK
<1>5. \A n \in 1 .. Len(node_pool) : \A i, j \in DOMAIN Children(n) :
        LET s == node_pool[Children(n)[i]].segment
        IN  s = node_pool[Children(n)[j]].segment
              => i = j \/ \E long \in Names \ {s} : Truncated[long] = s
  BY <1>1 DEF TreeOK, SiblingsOK, Children, Cut
<1> QED BY <1>1, <1>2, <1>3, <1>4, <1>5 DEF TrieOK

\* An empty router has a root without children.
LEMMA InitTrie == RouterInit => TrieInv
<1> SUFFICES ASSUME RouterInit PROVE TrieInv OBVIOUS
<1> DEFINE root == Node(NoText, FALSE)
<1>1. root \in NodeType /\ root.children = <<>> BY NameAssumption, NodeIs DEF Node
<1>2. node_pool = <<root>> BY DEF RouterInit
<1> HIDE DEF root
<1>3. node_pool \in Seq(NodeType) /\ Len(node_pool) = 1 /\ node_pool[1] = root
  BY <1>1, <1>2
<1>4. PoolSize \in Nat /\ MaxCalls \in Nat /\ MaxChildren \in Nat /\ 1 <= PoolSize
  BY BoundAssumption
<1>5. TreeOK(node_pool, node_pool_size)
  <2>1. \A n \in 1 .. Len(node_pool) : n = 1 /\ node_pool[n].children = <<>> BY <1>1, <1>3
  <2>2. ChildrenOK(node_pool) BY <1>4, <2>1 DEF ChildrenOK
  <2>3. SiblingsOK(node_pool) BY <2>1 DEF SiblingsOK
  <2>4. \A c \in 2 .. Len(node_pool) : OneParent(node_pool, c) BY <1>3
  <2>5. node_pool_size = PoolSize BY DEF RouterInit
  <2> QED BY <1>3, <1>4, <2>2, <2>3, <2>4, <2>5 DEF TreeOK
<1>6. RouterTypeOK
  <2>1. /\ array_routes = <<>> /\ array_mem = "allocated" /\ use_trie = FALSE
        /\ node_pool_size = PoolSize /\ static_prefix = {} /\ static_context = "NULL"
        /\ fallback_context = FALSE /\ accepted = <<>> /\ refused = {} /\ calls = 0
    BY DEF RouterInit
  <2>2. array_routes \in Seq(Route) /\ accepted \in Seq(Route) BY <2>1, EmptySeq
  <2>3. node_pool \in Seq(NodeType) /\ node_pool_size \in Nat /\ calls \in 0 .. MaxCalls
    BY <1>3, <1>4, <2>1
  <2> HIDE DEF Route
  <2>4. array_mem \in {"allocated", "null", "freed"} /\ (use_trie <=> array_mem = "null")
        /\ use_trie \in BOOLEAN /\ fallback_context \in BOOLEAN
        /\ static_prefix \subseteq StaticPrefixes /\ static_context \in {"NULL", "dir", "mime"}
        /\ refused \subseteq RoutePaths
    BY <2>1
  <2> QED BY ONLY <2>2, <2>3, <2>4 DEF RouterTypeOK, NodeType
<1> QED BY <1>5, <1>6 DEF TrieInv

\* The walk of an addition starts on the trie.
LEMMA WalkIsOK ==
  ASSUME TrieInv
  PROVE  WalkOK(Walk) /\ Walk.ok /\ Walk.pool = node_pool /\ Walk.size = node_pool_size
<1>1. node_pool \in Seq(NodeType) /\ node_pool_size \in Nat /\ Len(node_pool) >= 1
      /\ TreeOK(node_pool, node_pool_size)
  BY DEF TrieInv, TreeOK
<1>2. 1 \in 1 .. Len(node_pool) BY <1>1, LenProperties
<1>3. Walk \in WalkType /\ Walk.ok /\ Walk.at = 1 /\ Walk.pool = node_pool
      /\ Walk.size = node_pool_size
  BY <1>1 DEF Walk, WalkType
<1> QED BY <1>1, <1>2, <1>3 DEF WalkOK

\* What a finished walk leaves in the router.
LEMMA WalkTree ==
  ASSUME NEW u, WalkOK(u)
  PROVE  TreeOK(u.pool, u.size) /\ u.pool \in Seq(NodeType) /\ u.size \in Nat
         /\ u.ok \in BOOLEAN
BY DEF WalkOK, WalkType, TreeOK

\* What Returned keeps.
LEMMA ReturnedTypes ==
  ASSUME accepted \in Seq(Route), refused \subseteq RoutePaths, NEW route \in Route,
         NEW ok, Returned(ok, route)
  PROVE  accepted' \in Seq(Route) /\ refused' \subseteq RoutePaths
<1>1. Append(accepted, route) \in Seq(Route) BY AppendProperties
<1>2. route.path \in RoutePaths BY DEF Route
<1> QED BY <1>1, <1>2 DEF Returned

\* An addition, finished or not, leaves the pool a tree.
LEMMA AddTrie ==
  ASSUME TrieInv, NEW route \in Route, NEW cap, calls' \in 0 .. MaxCalls,
         array_mem # "freed", AddRouteMethod(route, cap),
         static_prefix' \subseteq StaticPrefixes, static_context' \in {"NULL", "dir", "mime"},
         fallback_context' \in BOOLEAN
  PROVE  TrieInv'
<1>1. /\ WalkOK(Walk) /\ array_routes \in Seq(Route) /\ accepted \in Seq(Route)
      /\ refused \subseteq RoutePaths /\ use_trie \in BOOLEAN
      /\ (use_trie <=> array_mem = "null") /\ array_mem \in {"allocated", "null", "freed"}
      /\ node_pool \in Seq(NodeType) /\ node_pool_size \in Nat
      /\ TreeOK(node_pool, node_pool_size)
  BY WalkIsOK DEF TrieInv, RouterTypeOK, NodeType
<1>2. SUFFICES /\ array_routes' \in Seq(Route) /\ accepted' \in Seq(Route)
               /\ refused' \subseteq RoutePaths /\ use_trie' \in BOOLEAN
               /\ (use_trie' <=> array_mem' = "null") /\ array_mem' \in {"allocated", "null", "freed"}
               /\ TreeOK(node_pool', node_pool_size')
  <2>1. node_pool' \in Seq(NodeType) /\ node_pool_size' \in Nat BY <1>2 DEF TreeOK
  <2> QED BY <1>2, <2>1 DEF TrieInv, RouterTypeOK, NodeType
<1>3. \A w : WalkOK(w) => WalkOK(Insert(w, route, cap))
  <2> SUFFICES ASSUME NEW w, WalkOK(w) PROVE WalkOK(Insert(w, route, cap)) OBVIOUS
  <2>1. \E f : Inserts(f, w, Insert(w, route, cap), route, cap) BY InsertIs
  <2> QED BY <2>1 DEF Inserts
<1>4. CASE use_trie
  <2> DEFINE w == Insert(Walk, route, cap)
  <2>1. WalkOK(w) BY <1>1, <1>3
  <2>2. /\ node_pool' = w.pool /\ node_pool_size' = w.size /\ Returned(w.ok, route)
        /\ UNCHANGED <<array_routes, array_mem, use_trie>>
    BY <1>4 DEF AddRouteMethod, AddTrieRoute
  <2> HIDE DEF w
  <2>3. TreeOK(w.pool, w.size) BY <2>1, WalkTree
  <2> QED BY <1>1, <2>2, <2>3, ReturnedTypes
<1>5. CASE ~use_trie /\ (HasParams(route.path) \/ Len(array_routes) >= HYBRID_THRESHOLD)
  <2> DEFINE m == Migrated(cap)
             w == Insert(m, route, cap)
  <2>1. MigrateAndAdd(route, cap) BY <1>5 DEF AddRouteMethod
  <2>2. WalkOK(m)
    <3>1. PICK g : Migrates(g, Walk, array_routes, cap) /\ Migrated(cap) = g[Len(array_routes)]
      BY <1>1, MigratedIs
    <3>2. Len(array_routes) \in Nat BY <1>1, LenProperties
    <3> QED BY <3>1, <3>2 DEF Migrates
  <2>3. WalkOK(w) BY <1>3, <2>2
  <2>4. CASE m.ok
    <3>1. /\ use_trie' = TRUE /\ array_routes' = <<>> /\ array_mem' = "null"
          /\ node_pool' = w.pool /\ node_pool_size' = w.size /\ Returned(w.ok, route)
      BY <2>1, <2>4 DEF MigrateAndAdd
    <3> HIDE DEF w
    <3>2. TreeOK(w.pool, w.size) BY <2>3, WalkTree
    <3>3. array_routes' \in Seq(Route) BY <3>1, EmptySeq
    <3> QED BY <1>1, <3>1, <3>2, <3>3, ReturnedTypes
  <2>5. CASE ~m.ok
    <3>1. /\ array_mem' = "freed" /\ node_pool' = m.pool /\ node_pool_size' = m.size
          /\ Returned(FALSE, route) /\ UNCHANGED <<use_trie, array_routes>>
      BY <2>1, <2>5 DEF MigrateAndAdd
    <3> HIDE DEF m
    <3>2. TreeOK(m.pool, m.size) BY <2>2, WalkTree
    <3> QED BY <1>1, <1>5, <3>1, <3>2, ReturnedTypes
  <2> QED BY <2>4, <2>5
<1>6. CASE ~use_trie /\ ~(HasParams(route.path) \/ Len(array_routes) >= HYBRID_THRESHOLD)
  <2>1. /\ array_routes' = Append(array_routes, route) /\ accepted' = Append(accepted, route)
        /\ UNCHANGED <<array_mem, use_trie, node_pool, node_pool_size, refused>>
    BY <1>6 DEF AddRouteMethod, AddArrayRoute
  <2>2. Append(array_routes, route) \in Seq(Route) /\ Append(accepted, route) \in Seq(Route)
    BY <1>1, AppendProperties
  <2> QED BY <1>1, <2>1, <2>2
<1> QED BY <1>4, <1>5, <1>6

\* A call that registers a route, and one that does not.
Registers(route, cap) ==
  /\ AddRouteMethod(route, cap)
  /\ calls' \in 0 .. MaxCalls /\ array_mem # "freed"
  /\ static_prefix' = static_prefix /\ static_context' \in {static_context, "mime"}
  /\ fallback_context' = fallback_context

LeavesRoutes ==
  /\ UNCHANGED <<array_routes, array_mem, use_trie, node_pool, node_pool_size,
                 accepted, refused>>
  /\ calls' \in 0 .. MaxCalls
  /\ static_prefix' \subseteq StaticPrefixes
  /\ static_context' \in {static_context, "dir"} /\ fallback_context' \in BOOLEAN

\* Every call is one of the two.
LEMMA CallIs ==
  ASSUME RouterTypeOK, [RouterNext]_routerVars
  PROVE  LeavesRoutes \/ \E route \in Route : \E cap : Registers(route, cap)
<1> USE BoundAssumption
<1>0. calls \in 0 .. MaxCalls /\ MaxCalls \in Nat BY DEF RouterTypeOK
<1>1. ASSUME NEW path \in RoutePaths, NEW method \in Methods \cup {ANY}, AddRoute(path, method)
      PROVE  \E route \in Route : \E cap : Registers(route, cap)
  <2>1. PICK cap \in Caps :
          AddRouteMethod([path |-> path, method |-> method, handler |-> calls + 1], cap)
    BY <1>1 DEF AddRoute
  <2>2. calls' \in 0 .. MaxCalls /\ calls + 1 \in Handlers /\ array_mem # "freed"
    BY <1>0, <1>1 DEF AddRoute, Called, Handlers
  <2>3. [path |-> path, method |-> method, handler |-> calls + 1] \in Route
    BY <2>2 DEF Route
  <2> DEFINE route == [path |-> path, method |-> method, handler |-> calls + 1]
  <2>4. Registers(route, cap) BY <1>1, <2>1, <2>2 DEF AddRoute, Registers
  <2> QED BY <2>3, <2>4
<1>2. ASSUME NEW path \in RoutePaths, AddBinaryRoute(path)
      PROVE  \E route \in Route : \E cap : Registers(route, cap)
  <2>1. PICK cap \in Caps :
          AddRouteMethod([path |-> path, method |-> ANY, handler |-> BinaryHandler], cap)
    BY <1>2 DEF AddBinaryRoute
  <2>2. calls' \in 0 .. MaxCalls /\ array_mem # "freed" BY <1>0, <1>2 DEF AddBinaryRoute, Called
  <2>3. [path |-> path, method |-> ANY, handler |-> BinaryHandler] \in Route BY DEF Route
  <2> DEFINE route == [path |-> path, method |-> ANY, handler |-> BinaryHandler]
  <2>4. Registers(route, cap) BY <1>2, <2>1, <2>2 DEF AddBinaryRoute, Registers
  <2> QED BY <2>3, <2>4
<1>3. ASSUME NEW prefix \in StaticPrefixes, AddStaticRoute(prefix) PROVE LeavesRoutes
  BY <1>0, <1>3 DEF AddStaticRoute, Called, RouterTypeOK, LeavesRoutes
<1>4. CASE AddFallbackRoute BY <1>0, <1>4 DEF AddFallbackRoute, Called, RouterTypeOK, LeavesRoutes
<1>5. CASE UNCHANGED routerVars BY <1>0, <1>5 DEF routerVars, RouterTypeOK, LeavesRoutes
<1> QED BY <1>1, <1>2, <1>3, <1>4, <1>5 DEF RouterNext

\* Every call leaves the pool a tree.
LEMMA NextTrie == TrieInv /\ [RouterNext]_routerVars => TrieInv'
<1> SUFFICES ASSUME TrieInv, [RouterNext]_routerVars PROVE TrieInv' OBVIOUS
<1>1. RouterTypeOK /\ static_prefix \subseteq StaticPrefixes /\ static_context \in {"NULL", "dir", "mime"}
      /\ fallback_context \in BOOLEAN
  BY DEF TrieInv, RouterTypeOK
<1>2. ASSUME NEW route \in Route, NEW cap, Registers(route, cap) PROVE TrieInv'
  <2>2. /\ static_prefix' \subseteq StaticPrefixes /\ static_context' \in {"NULL", "dir", "mime"}
        /\ fallback_context' \in BOOLEAN
    BY <1>1, <1>2 DEF Registers
  <2>3. AddRouteMethod(route, cap) /\ calls' \in 0 .. MaxCalls /\ array_mem # "freed"
    BY <1>2 DEF Registers
  <2> QED BY <2>2, <2>3, AddTrie
<1>3. CASE LeavesRoutes
  <2>1. RouterTypeOK' BY <1>1, <1>3 DEF RouterTypeOK, LeavesRoutes
  <2>2. TreeOK(node_pool', node_pool_size') BY <1>3 DEF TrieInv, LeavesRoutes
  <2> QED BY <2>1, <2>2 DEF TrieInv
<1> QED BY <1>1, <1>2, <1>3, CallIs

\* However routes are added and whichever additions fail, the pool that
\* find_or_create_child and create_route_node build is a tree: every node but the
\* root has exactly one parent, an older one, no child_indices overflows, and two
\* children of one node share a segment only if it was truncated.
THEOREM TrieIsATree == RouterSpec => []TrieOK
<1>1. TrieInv => TrieOK BY TrieInvTrie
<1> QED BY InitTrie, NextTrie, <1>1, PTL DEF RouterSpec

-----------------------------------------------------------------------------
(* What the trie holds.  Every node has a spelling, the tokens on the way  *)
(* to it from the root: sp[n] is that of node n.                           *)

Token(node) == [name |-> node.segment, param |-> node.is_param]

Spelled(P, sp) ==
  /\ sp \in Seq(Seq(TokenType)) /\ Len(sp) = Len(P) /\ sp[1] = <<>>
  /\ \A n \in 1 .. Len(P) : \A i \in DOMAIN P[n].children :
       sp[P[n].children[i]] = Append(sp[n], Token(P[P[n].children[i]]))

\* Node n is the end of route r.
Holds(P, sp, n, r) ==
  sp[n] = RouteTokens(r.path) /\ P[n].handler = r.handler /\ P[n].method = r.method

\* The node with the spelling t can have been created for the path p.
Traced(t, p) ==
  /\ Len(t) <= Len(RouteTokens(p))
  /\ \A i \in 1 .. Len(t) : t[i].name = RouteTokens(p)[i].name
  /\ t[Len(t)].param = RouteTokens(p)[Len(t)].param

\* The trie holds the routes A, and was built for the paths G.
Known(P, sp, A, G) ==
  /\ \A r \in A : \E n \in 1 .. Len(P) : Holds(P, sp, n, r)
  /\ \A n \in 1 .. Len(P) : P[n].handler # NoHandler => \E r \in A : Holds(P, sp, n, r)
  /\ \A n \in 2 .. Len(P) : \E p \in G : Traced(sp[n], p)

\* The walk along p has taken k tokens; ex: and every one is of the same kind.
OnPath(w, sp, p, k, ex) ==
  /\ Len(sp[w.at]) = k
  /\ \A i \in 1 .. k : /\ sp[w.at][i].name = RouteTokens(p)[i].name
                       /\ ex => sp[w.at][i].param = RouteTokens(p)[i].param

\* The spellings of the nodes of a pool.
LEMMA SpelledFacts ==
  ASSUME NEW P, NEW size, TreeOK(P, size), NEW sp, Spelled(P, sp)
  PROVE  /\ P \in Seq(NodeType) /\ Len(P) \in Nat /\ sp \in Seq(Seq(TokenType))
         /\ \A n \in 1 .. Len(P) :
              /\ sp[n] \in Seq(TokenType) /\ Len(sp[n]) \in Nat
              /\ P[n] \in NodeType /\ Token(P[n]) \in TokenType
         /\ \A n \in 1 .. Len(P) : \A i \in DOMAIN P[n].children :
              P[n].children[i] \in n + 1 .. Len(P) /\ P[n].children[i] \in 2 .. Len(P)
<1>1. P \in Seq(NodeType) /\ Len(P) \in Nat BY LenProperties DEF TreeOK
<1>2. sp \in Seq(Seq(TokenType)) /\ Len(sp) = Len(P) BY DEF Spelled
<1>3. ASSUME NEW n \in 1 .. Len(P)
      PROVE  sp[n] \in Seq(TokenType) /\ Len(sp[n]) \in Nat /\ P[n] \in NodeType
             /\ Token(P[n]) \in TokenType
  <2>1. sp[n] \in Seq(TokenType) BY <1>2, ElementOfSeq
  <2>2. P[n] \in NodeType BY <1>1, ElementOfSeq
  <2>3. Token(P[n]) \in TokenType BY <2>2 DEF NodeType, TokenType, Token
  <2> QED BY <2>1, <2>2, <2>3, LenProperties
<1>4. ASSUME NEW n \in 1 .. Len(P), NEW i \in DOMAIN P[n].children
      PROVE  P[n].children[i] \in n + 1 .. Len(P) /\ P[n].children[i] \in 2 .. Len(P)
  <2>1. P[n].children[i] \in n + 1 .. Len(P) BY DEF TreeOK, ChildrenOK
  <2> QED BY <1>1, <2>1
<1> QED BY <1>1, <1>2, <1>3, <1>4

\* One token more.
LEMMA SpellOn ==
  ASSUME NEW t \in Seq(TokenType), NEW x \in TokenType
  PROVE  /\ Append(t, x) \in Seq(TokenType) /\ Len(t) \in Nat /\ Len(Append(t, x)) = Len(t) + 1
         /\ \A i \in 1 .. Len(t) : Append(t, x)[i] = t[i]
         /\ Append(t, x)[Len(t) + 1] = x
BY AppendProperties, LenProperties

\* A new child is spelled one token further than its parent.
LEMMA GrownSpelled ==
  ASSUME NEW P, NEW size, TreeOK(P, size), NEW Q, NEW n \in 1 .. Len(P),
         NEW s \in Names, NEW b \in BOOLEAN, Grown(P, Q, n, s, b),
         NEW sp, Spelled(P, sp)
  PROVE  Spelled(Q, Append(sp, Append(sp[n], [name |-> s, param |-> b])))
<1> DEFINE x == [name |-> s, param |-> b]
           y == Append(sp[n], x)
           sq == Append(sp, y)
           c == Len(P) + 1
<1>1. /\ P \in Seq(NodeType) /\ Len(P) \in Nat /\ sp \in Seq(Seq(TokenType)) /\ Len(sp) = Len(P)
      /\ sp[n] \in Seq(TokenType) /\ Len(P) >= 1 /\ sp[1] = <<>>
  BY SpelledFacts DEF Spelled, TreeOK
<1>2. x \in TokenType BY DEF TokenType
<1> HIDE DEF x
<1>3. y \in Seq(TokenType) BY <1>1, <1>2, SpellOn
<1> HIDE DEF y
<1>4. sq \in Seq(Seq(TokenType)) /\ Len(sq) = Len(P) + 1 /\ (\A i \in 1 .. Len(P) : sq[i] = sp[i])
      /\ sq[c] = y
  BY <1>1, <1>3, AppendProperties
<1> HIDE DEF sq
<1>5. Len(Q) = c /\ sq[1] = <<>> BY <1>1, <1>4 DEF Grown
<1>6. /\ \A m \in 1 .. Len(P) : m # n => Q[m].children = P[m].children
      /\ DOMAIN Q[n].children = 1 .. Len(P[n].children) + 1
      /\ \A i \in 1 .. Len(P[n].children) : Q[n].children[i] = P[n].children[i]
      /\ Q[n].children[Len(P[n].children) + 1] = Len(P) + 1
      /\ DOMAIN Q[Len(P) + 1].children = {}
  <2>1. P \in Seq(NodeType) BY <1>1
  <2> QED BY ONLY <2>1, n \in 1 .. Len(P), Grown(P, Q, n, s, b), GrownChildren
<1>7. \A m \in 1 .. Len(P) : Token(Q[m]) = Token(P[m]) BY DEF Grown, Token
<1>8. Token(Q[c]) = x BY DEF Grown, Token, x
<1>9. \A m \in 1 .. Len(P) : \A i \in DOMAIN P[m].children :
        /\ sp[P[m].children[i]] = Append(sp[m], Token(P[P[m].children[i]]))
        /\ P[m].children[i] \in 1 .. Len(P)
  <2>1. \A m \in 1 .. Len(P) : \A i \in DOMAIN P[m].children : P[m].children[i] \in 2 .. Len(P)
    BY SpelledFacts
  <2>2. 2 .. Len(P) \subseteq 1 .. Len(P) BY <1>1
  <2> QED BY <2>1, <2>2 DEF Spelled
<1>10. \A m \in 1 .. c : m \in 1 .. Len(P) \/ m = c BY <1>1
<1>11. DOMAIN P[n].children = 1 .. Len(P[n].children) /\ Len(P[n].children) \in Nat
  BY <1>1, NodeFacts
<1> HIDE DEF c
<1>12. ASSUME NEW m \in 1 .. c, NEW i \in DOMAIN Q[m].children
       PROVE  sq[Q[m].children[i]] = Append(sq[m], Token(Q[Q[m].children[i]]))
  <2>1. CASE m = c BY <1>6, <2>1 DEF c
  <2>2. CASE m = n /\ i = Len(P[n].children) + 1
    <3>1. Q[m].children[i] = c BY <1>6, <2>2 DEF c
    <3>2. sq[m] = sp[n] BY <1>4, <2>2
    <3> QED BY <1>4, <1>8, <3>1, <3>2 DEF y
  <2>3. CASE /\ m \in 1 .. Len(P) /\ i \in DOMAIN P[m].children
             /\ Q[m].children[i] = P[m].children[i]
    <3>1. sq[m] = sp[m] /\ sq[P[m].children[i]] = sp[P[m].children[i]]
      BY <1>4, <1>9, <2>3
    <3>2. Token(Q[P[m].children[i]]) = Token(P[P[m].children[i]]) BY <1>7, <1>9, <2>3
    <3> QED BY <1>9, <2>3, <3>1, <3>2
  <2>4. CASE m \in 1 .. Len(P) /\ m # n BY <1>6, <2>3, <2>4
  <2>5. CASE m = n /\ i # Len(P[n].children) + 1
    <3>1. i \in 1 .. Len(P[n].children) BY <1>6, <1>11, <2>5
    <3> QED BY <1>6, <1>11, <2>3, <2>5, <3>1
  <2> QED BY <1>10, <2>1, <2>2, <2>4, <2>5
<1>13. Spelled(Q, sq) BY <1>4, <1>5, <1>12 DEF Spelled, c
<1> QED BY <1>13 DEF sq, y, x

\* The new node is the only thing that is new.
LEMMA GrownKnown ==
  ASSUME NEW P, NEW size, TreeOK(P, size), NEW Q, NEW n \in 1 .. Len(P),
         NEW s \in Names, NEW b \in BOOLEAN, Grown(P, Q, n, s, b),
         NEW sp, Spelled(P, sp), NEW A, NEW G, Known(P, sp, A, G),
         NEW p \in G, Traced(Append(sp[n], [name |-> s, param |-> b]), p)
  PROVE  Known(Q, Append(sp, Append(sp[n], [name |-> s, param |-> b])), A, G)
<1> DEFINE y == Append(sp[n], [name |-> s, param |-> b])
           sq == Append(sp, y)
           c == Len(P) + 1
<1>1. /\ P \in Seq(NodeType) /\ Len(P) \in Nat /\ sp \in Seq(Seq(TokenType)) /\ Len(sp) = Len(P)
      /\ sp[n] \in Seq(TokenType) /\ Len(P) >= 1 /\ [name |-> s, param |-> b] \in TokenType
  BY SpelledFacts DEF Spelled, TreeOK, TokenType
<1>2. y \in Seq(TokenType) BY <1>1, SpellOn
<1> HIDE DEF y
<1>3. (\A i \in 1 .. Len(P) : sq[i] = sp[i]) /\ sq[c] = y BY <1>1, <1>2, AppendProperties
<1> HIDE DEF sq
<1>4. /\ Len(Q) = c /\ Q[c].handler = NoHandler
      /\ \A m \in 1 .. Len(P) : Q[m].handler = P[m].handler /\ Q[m].method = P[m].method
  BY DEF Grown
<1>5. \A m \in 1 .. Len(P) : \A r : Holds(P, sp, m, r) => Holds(Q, sq, m, r)
  BY <1>3, <1>4 DEF Holds
<1>6. \A m \in 1 .. c : m \in 1 .. Len(P) \/ m = c BY <1>1
<1>7. \A m \in 2 .. c : m \in 2 .. Len(P) \/ m = c
  <2>1. \A k \in Nat : \A m \in 2 .. k + 1 : m \in 2 .. k \/ m = k + 1 OBVIOUS
  <2> QED BY <1>1, <2>1
<1>8. 1 .. Len(P) \subseteq 1 .. c /\ 2 .. Len(P) \subseteq 1 .. Len(P) BY <1>1
<1> HIDE DEF c
<1>9. ASSUME NEW r \in A PROVE \E m \in 1 .. c : Holds(Q, sq, m, r)
  <2>1. PICK m \in 1 .. Len(P) : Holds(P, sp, m, r) BY DEF Known
  <2> QED BY <1>5, <1>8, <2>1
<1>10. ASSUME NEW m \in 1 .. c, Q[m].handler # NoHandler PROVE \E r \in A : Holds(Q, sq, m, r)
  <2>1. m \in 1 .. Len(P) /\ P[m].handler # NoHandler BY <1>4, <1>6, <1>10
  <2>2. PICK r \in A : Holds(P, sp, m, r) BY <2>1 DEF Known
  <2> QED BY <1>5, <2>1, <2>2
<1>11. ASSUME NEW m \in 2 .. c PROVE \E q \in G : Traced(sq[m], q)
  <2>1. CASE m = c
    <3>1. Traced(y, p) BY DEF y
    <3> QED BY <1>3, <2>1, <3>1 DEF c
  <2>2. CASE m \in 2 .. Len(P)
    <3>1. PICK q \in G : Traced(sp[m], q) BY <2>2 DEF Known
    <3> QED BY <1>3, <1>8, <2>2, <3>1
  <2> QED BY <1>7, <2>1, <2>2
<1>12. Known(Q, sq, A, G) BY <1>4, <1>9, <1>10, <1>11 DEF Known
<1> QED BY <1>12 DEF sq, y

\* The spelling one token on, and the path it came from.
LEMMA TracedOn ==
  ASSUME NEW t \in Seq(TokenType), NEW x \in TokenType, NEW p \in RoutePaths,
         NEW k \in 1 .. Len(RouteTokens(p)), Len(t) = k - 1,
         \A i \in 1 .. k - 1 : t[i].name = RouteTokens(p)[i].name,
         x.name = RouteTokens(p)[k].name
  PROVE  /\ Len(Append(t, x)) = k
         /\ \A i \in 1 .. k : Append(t, x)[i].name = RouteTokens(p)[i].name
         /\ \A i \in 1 .. k - 1 : Append(t, x)[i] = t[i]
         /\ Append(t, x)[k] = x
         /\ x.param = RouteTokens(p)[k].param => Traced(Append(t, x), p)
<1>1. Len(RouteTokens(p)) \in Nat /\ k \in Nat BY RouteTokensType
<1>2. /\ Len(Append(t, x)) = Len(t) + 1 /\ (\A i \in 1 .. Len(t) : Append(t, x)[i] = t[i])
      /\ Append(t, x)[Len(t) + 1] = x
  BY SpellOn
<1> DEFINE y == Append(t, x)
<1>3. Len(y) = k /\ (\A i \in 1 .. k - 1 : y[i] = t[i]) /\ y[k] = x BY <1>1, <1>2
<1> HIDE DEF y
<1>4. \A i \in 1 .. k : i \in 1 .. k - 1 \/ i = k BY <1>1
<1>5. \A i \in 1 .. k : y[i].name = RouteTokens(p)[i].name BY <1>3, <1>4
<1>6. ASSUME x.param = RouteTokens(p)[k].param PROVE Traced(y, p)
  <2>1. k <= Len(RouteTokens(p)) BY <1>1
  <2> QED BY <1>3, <1>5, <1>6, <2>1 DEF Traced
<1> QED BY <1>3, <1>5, <1>6 DEF y

\* The path p, as far as ex asks for it, agrees with all of G on what is a parameter.
Agrees(p, G, ex) == ex => \A q \in G : SameParams(p, q)

\* The walk is on its path, in a trie that holds A and was built for G.
Along(w, A, G, p, k, ex) ==
  \E sp : Spelled(w.pool, sp) /\ Known(w.pool, sp, A, G) /\ (w.ok => OnPath(w, sp, p, k, ex))

\* A step of the walk along a path.
LEMMA StepSpells ==
  ASSUME NEW w, WalkOK(w), NEW sp, Spelled(w.pool, sp), NEW A, NEW G \in SUBSET RoutePaths,
         Known(w.pool, sp, A, G), NEW p \in G, NEW k \in 1 .. Len(RouteTokens(p)),
         Truncated[RouteTokens(p)[k].name] = RouteTokens(p)[k].name,
         NEW ex \in BOOLEAN, Agrees(p, G, ex),
         OnPath(w, sp, p, k - 1, ex), NEW v, FindEnds(w, v, RouteTokens(p)[k])
  PROVE  Along(v, A, G, p, k, ex)
<1> DEFINE x == RouteTokens(p)[k]
           t == sp[w.at]
<1>1. /\ TreeOK(w.pool, w.size) /\ w.at \in 1 .. Len(w.pool) /\ w.pool \in Seq(NodeType)
      /\ Len(w.pool) \in Nat
  BY LenProperties DEF WalkOK, TreeOK
<1>2. t \in Seq(TokenType) /\ Len(t) \in Nat BY <1>1, SpelledFacts
<1>3. x \in TokenType /\ x.name \in Names /\ x.param \in BOOLEAN /\ Len(RouteTokens(p)) \in Nat
      /\ p \in RoutePaths
  BY RouteTokensType DEF TokenType
<1>4. /\ Len(t) = k - 1 /\ \A i \in 1 .. k - 1 : t[i].name = RouteTokens(p)[i].name
      /\ ex => \A i \in 1 .. k - 1 : t[i].param = RouteTokens(p)[i].param
  BY DEF OnPath
<1> HIDE DEF x, t
<1>5. ASSUME NEW i, Found(w, v, x, i)
      PROVE  Spelled(v.pool, sp) /\ Known(v.pool, sp, A, G) /\ OnPath(v, sp, p, k, ex)
  <2> DEFINE c == w.pool[w.at].children[i]
             z == Token(w.pool[c])
  <2>1. /\ i \in DOMAIN w.pool[w.at].children /\ w.pool[c].segment = x.name
        /\ v.pool = w.pool /\ v.at = c
    BY <1>5 DEF Found
  <2>2. sp[c] = Append(t, z) BY <1>1, <2>1 DEF Spelled, t
  <2>3. c \in 2 .. Len(w.pool) /\ 2 .. Len(w.pool) \subseteq 1 .. Len(w.pool)
    BY <1>1, <2>1, SpelledFacts
  <2>4. z \in TokenType BY <1>1, <2>3, SpelledFacts
  <2>5. z.name = x.name BY <2>1 DEF Token
  <2> HIDE DEF z, c
  <2>6. /\ Len(sp[c]) = k /\ (\A j \in 1 .. k : sp[c][j].name = RouteTokens(p)[j].name)
        /\ (\A j \in 1 .. k - 1 : sp[c][j] = t[j]) /\ sp[c][k] = z
    BY <1>2, <1>3, <1>4, <2>2, <2>4, <2>5, TracedOn DEF x
  <2>7. ASSUME ex PROVE z.param = x.param
    <3>1. PICK q \in G : Traced(sp[c], q) BY <2>3 DEF Known
    <3>2. k <= Len(RouteTokens(q)) /\ sp[c][k].param = RouteTokens(q)[k].param
          /\ \A j \in 1 .. k : RouteTokens(p)[j].name = RouteTokens(q)[j].name
      BY <2>6, <3>1 DEF Traced
    <3>3. SameParams(p, q) BY <2>7 DEF Agrees
    <3>4. x.param = RouteTokens(q)[k].param BY <3>2, <3>3 DEF SameParams, x
    <3> QED BY <2>6, <3>2, <3>4
  <2>8. \A j \in 1 .. k : j \in 1 .. k - 1 \/ j = k BY <1>3
  <2>9. ASSUME ex, NEW j \in 1 .. k PROVE sp[c][j].param = RouteTokens(p)[j].param
    BY <1>4, <2>6, <2>7, <2>8, <2>9 DEF x
  <2>10. OnPath(v, sp, p, k, ex) BY <2>1, <2>6, <2>9 DEF OnPath, c
  <2> QED BY <2>1, <2>10
<1>6. CASE Failed(w, v) BY <1>6 DEF Failed, Along
<1>7. CASE Created(w, v, x)
  <2> DEFINE y == Append(t, x)
             sq == Append(sp, y)
  <2>1. x = [name |-> x.name, param |-> x.param] BY <1>3 DEF TokenType
  <2>2. Truncated[x.name] = x.name BY DEF x
  <2>3. Grown(w.pool, v.pool, w.at, x.name, x.param) /\ v.at = Len(w.pool) + 1
    BY <1>7, <2>2 DEF Created
  <2>4. /\ Len(y) = k /\ (\A j \in 1 .. k : y[j].name = RouteTokens(p)[j].name)
        /\ (\A j \in 1 .. k - 1 : y[j] = t[j]) /\ y[k] = x /\ Traced(y, p)
    BY <1>2, <1>3, <1>4, TracedOn DEF x
  <2>5. y \in Seq(TokenType) BY <1>2, <1>3, SpellOn
  <2>6. y = Append(sp[w.at], [name |-> x.name, param |-> x.param]) BY <2>1 DEF t
  <2> HIDE DEF y
  <2>7. Spelled(v.pool, sq)
    <3>1. Spelled(v.pool, Append(sp, Append(sp[w.at], [name |-> x.name, param |-> x.param])))
      BY ONLY <1>1, <1>3, <2>3, Spelled(w.pool, sp), GrownSpelled
    <3> QED BY <2>6, <3>1
  <2>8. Known(v.pool, sq, A, G)
    <3>1. Traced(Append(sp[w.at], [name |-> x.name, param |-> x.param]), p) BY <2>4, <2>6
    <3>2. Known(v.pool, Append(sp, Append(sp[w.at], [name |-> x.name, param |-> x.param])), A, G)
      BY ONLY <1>1, <1>3, <2>3, <3>1, p \in G, Spelled(w.pool, sp), Known(w.pool, sp, A, G), GrownKnown
    <3> QED BY <2>6, <3>2
  <2>9. sq[v.at] = y
    <3>1. sp \in Seq(Seq(TokenType)) /\ Len(sp) = Len(w.pool) BY DEF Spelled
    <3> QED BY <2>3, <2>5, <3>1, AppendProperties
  <2> HIDE DEF sq
  <2>10. \A j \in 1 .. k : j \in 1 .. k - 1 \/ j = k BY <1>3
  <2>11. ASSUME ex, NEW j \in 1 .. k PROVE y[j].param = RouteTokens(p)[j].param
    BY <1>4, <2>4, <2>10, <2>11 DEF x
  <2>12. OnPath(v, sq, p, k, ex) BY <2>4, <2>9, <2>11 DEF OnPath
  <2> QED BY <2>7, <2>8, <2>12 DEF Along
<1>8. (\E i : Found(w, v, x, i)) \/ Failed(w, v) \/ Created(w, v, x) BY DEF FindEnds, x
<1>9. ASSUME NEW i, Found(w, v, x, i) PROVE Along(v, A, G, p, k, ex) BY <1>5, <1>9 DEF Along
<1> QED BY <1>6, <1>7, <1>8, <1>9

\* Induction over the numbers up to n.
LEMMA Rounds ==
  ASSUME NEW K, NEW n \in Nat, 0 \in K, \A k \in 1 .. n : k - 1 \in K => k \in K
  PROVE  \A k \in 0 .. n : k \in K
<1> DEFINE B == {b \in 0 .. n : b \notin K}
<1> SUFFICES ASSUME B # {} PROVE FALSE OBVIOUS
<1>1. B \in SUBSET Nat OBVIOUS
<1>2. PICK b \in B : \A a \in B : b <= a
  <2> HIDE DEF B
  <2> QED BY <1>1, LeastNat
<1>3. b # 0 /\ b - 1 \in 0 .. n /\ b \in 1 .. n /\ b - 1 \notin B BY <1>2
<1> QED BY <1>2, <1>3

\* Q is P with nodes without a handler added below its nodes.
KeepsNode(P, Q, n) ==
  /\ Q[n].segment = P[n].segment /\ Q[n].is_param = P[n].is_param
  /\ Q[n].method = P[n].method /\ Q[n].handler = P[n].handler
  /\ Len(P[n].children) <= Len(Q[n].children)
  /\ \A i \in 1 .. Len(P[n].children) : Q[n].children[i] = P[n].children[i]
  /\ \A i \in Len(P[n].children) + 1 .. Len(Q[n].children) : Q[n].children[i] > Len(P)

Grows(P, Q) ==
  /\ Len(P) <= Len(Q)
  /\ \A n \in 1 .. Len(P) : KeepsNode(P, Q, n)
  /\ \A n \in Len(P) + 1 .. Len(Q) : Q[n].handler = NoHandler

\* A pool is itself.
LEMMA GrowsNot ==
  ASSUME NEW P \in Seq(NodeType)
  PROVE  Grows(P, P)
<1>1. Len(P) \in Nat BY LenProperties
<1>2. \A n \in 1 .. Len(P) : Len(P[n].children) \in Nat BY NodeFacts
<1>3. \A n \in 1 .. Len(P) : KeepsNode(P, P, n) BY <1>1, <1>2 DEF KeepsNode
<1>4. \A n \in Len(P) + 1 .. Len(P) : P[n].handler = NoHandler BY <1>1
<1> QED BY <1>1, <1>3, <1>4 DEF Grows

\* A node more.
LEMMA GrowsOn ==
  ASSUME NEW P \in Seq(NodeType), NEW W \in Seq(NodeType), Grows(P, W), NEW V \in Seq(NodeType),
         NEW at \in 1 .. Len(W), NEW s, NEW b, Grown(W, V, at, s, b)
  PROVE  Grows(P, V)
<1>1. Len(P) \in Nat /\ Len(W) \in Nat /\ Len(P) <= Len(W) /\ Len(V) = Len(W) + 1
  BY LenProperties DEF Grows, Grown
<1>2. /\ \A m \in 1 .. Len(W) : m # at => V[m].children = W[m].children
      /\ DOMAIN V[at].children = 1 .. Len(W[at].children) + 1
      /\ Len(V[at].children) = Len(W[at].children) + 1
      /\ \A i \in 1 .. Len(W[at].children) : V[at].children[i] = W[at].children[i]
      /\ V[at].children[Len(W[at].children) + 1] = Len(W) + 1
  BY ONLY W \in Seq(NodeType), at \in 1 .. Len(W), Grown(W, V, at, s, b), GrownChildren
<1>3. ASSUME NEW n \in 1 .. Len(P) PROVE KeepsNode(P, V, n)
  <2>1. n \in 1 .. Len(W) /\ KeepsNode(P, W, n) BY <1>1 DEF Grows
  <2>2. /\ V[n].segment = P[n].segment /\ V[n].is_param = P[n].is_param
        /\ V[n].method = P[n].method /\ V[n].handler = P[n].handler
    BY <2>1 DEF Grown, KeepsNode
  <2>3. CASE n # at
    <3>1. V[n].children = W[n].children BY <1>2, <2>1, <2>3
    <3> QED BY <2>1, <2>2, <3>1 DEF KeepsNode
  <2>4. CASE n = at
    <3> DEFINE p == P[n].children
               w == W[n].children
               v == V[n].children
               lp == Len(p)
               lw == Len(w)
    <3>1. lp \in Nat /\ lw \in Nat BY <2>1, NodeFacts
    <3>2. lp <= lw /\ (\A i \in 1 .. lp : w[i] = p[i]) /\ (\A i \in lp + 1 .. lw : w[i] > Len(P))
      BY <2>1 DEF KeepsNode
    <3>3. Len(v) = lw + 1 /\ (\A i \in 1 .. lw : v[i] = w[i]) /\ v[lw + 1] = Len(W) + 1
      BY <1>2, <2>4
    <3> HIDE DEF p, w, v, lp, lw
    <3>4. \A i \in 1 .. lp : v[i] = p[i] BY <3>1, <3>2, <3>3
    <3>5. ASSUME NEW i \in lp + 1 .. lw + 1 PROVE v[i] > Len(P)
      <4>1. CASE i = lw + 1 BY <1>1, <3>3, <4>1
      <4>2. CASE i # lw + 1
        <5>1. i \in 1 .. lw /\ i \in lp + 1 .. lw BY <3>1, <4>2
        <5> QED BY <3>2, <3>3, <5>1
      <4> QED BY <4>1, <4>2
    <3>6. lp <= lw + 1 BY <3>1, <3>2
    <3> QED BY <2>2, <3>3, <3>4, <3>5, <3>6 DEF KeepsNode, p, v, lp
  <2> QED BY <2>3, <2>4
<1>4. ASSUME NEW n \in Len(P) + 1 .. Len(V) PROVE V[n].handler = NoHandler
  <2>1. CASE n = Len(W) + 1 BY <2>1 DEF Grown
  <2>2. CASE n # Len(W) + 1
    <3>1. n \in Len(P) + 1 .. Len(W) /\ n \in 1 .. Len(W) BY <1>1, <2>2
    <3>2. W[n].handler = NoHandler BY <3>1 DEF Grows
    <3> QED BY <3>1, <3>2 DEF Grown
  <2> QED BY <2>1, <2>2
<1>5. Len(P) <= Len(V) BY <1>1
<1> QED BY <1>3, <1>4, <1>5 DEF Grows

\* A step of the walk.
LEMMA StepGrows ==
  ASSUME NEW P \in Seq(NodeType), NEW w, WalkOK(w), Grows(P, w.pool), NEW token,
         NEW v, FindEnds(w, v, token)
  PROVE  Grows(P, v.pool)
<1>1. w.pool \in Seq(NodeType) /\ w.at \in 1 .. Len(w.pool) BY DEF WalkOK, TreeOK
<1>2. v.pool \in Seq(NodeType) BY DEF FindEnds, WalkType
<1>3. CASE v.pool = w.pool BY <1>3
<1>4. CASE Created(w, v, token)
  <2>1. Grown(w.pool, v.pool, w.at, Truncated[token.name], token.param) BY <1>4 DEF Created
  <2> QED BY <1>1, <1>2, <2>1, GrowsOn
<1> QED BY <1>3, <1>4 DEF FindEnds, Found, Failed

-----------------------------------------------------------------------------
\* A trie that holds the routes A.
Filed(P, A, G) == \E sp : Spelled(P, sp) /\ Known(P, sp, A, G)

CleanTokens(p) == \A k \in 1 .. Len(RouteTokens(p)) :
                    Truncated[RouteTokens(p)[k].name] = RouteTokens(p)[k].name

Underway(P, w, A, G, p, k, ex) == Grows(P, w.pool) /\ Along(w, A, G, p, k, ex)

\* The walk along a path.
LEMMA WalkSpells ==
  ASSUME NEW w, WalkOK(w), NEW A, NEW G \in SUBSET RoutePaths, NEW p \in RoutePaths,
         Filed(w.pool, A, G), CleanTokens(p), NEW ex \in BOOLEAN,
         Agrees(p, G, ex),
         NEW f, NEW cap, Went(f, w, RouteTokens(p), cap),
         \A k \in 0 .. Len(RouteTokens(p)) : WalkOK(f[k])
  PROVE  Underway(w.pool, f[Len(RouteTokens(p))], A, G \cup {p}, p, Len(RouteTokens(p)), ex)
<1> DEFINE n == Len(RouteTokens(p))
           H == G \cup {p}
           K == {k \in 0 .. n : Underway(w.pool, f[k], A, H, p, k, ex)}
<1>1. n \in Nat /\ \A k \in 1 .. n : RouteTokens(p)[k] \in TokenType BY RouteTokensType
<1>2. f[0].pool = w.pool /\ f[0].at = 1
  <2>1. f[0] = [w EXCEPT !.at = 1] BY DEF Went
  <2> QED BY <2>1, AtRoot
<1>3. H \in SUBSET RoutePaths /\ p \in H OBVIOUS
<1>4. Agrees(p, H, ex)
  <2>1. SameParams(p, p) BY DEF SameParams
  <2> QED BY <2>1 DEF Agrees
<1> HIDE DEF H, n
<1>5. 0 \in K
  <2>1. PICK sp : Spelled(w.pool, sp) /\ Known(w.pool, sp, A, G) BY DEF Filed
  <2>2. Known(w.pool, sp, A, H) BY <2>1 DEF Known, H
  <2>3. sp[1] = <<>> BY <2>1 DEF Spelled
  <2>4. OnPath(f[0], sp, p, 0, ex)
    <3>1. Len(sp[f[0].at]) = 0 BY <1>2, <2>3
    <3> QED BY <3>1 DEF OnPath
  <2>5. Grows(w.pool, f[0].pool)
    <3>1. w.pool \in Seq(NodeType) BY DEF WalkOK, TreeOK
    <3> QED BY <1>2, <3>1, GrowsNot
  <2>6. Spelled(f[0].pool, sp) /\ Known(f[0].pool, sp, A, H) BY <1>2, <2>1, <2>2
  <2>7. Underway(w.pool, f[0], A, H, p, 0, ex) BY <2>4, <2>5, <2>6 DEF Underway, Along
  <2> QED BY <1>1, <2>7
<1>6. ASSUME NEW k \in 1 .. n, k - 1 \in K PROVE k \in K
  <2> DEFINE u == f[k - 1]
             v == f[k]
             x == RouteTokens(p)[k]
  <2>1. k - 1 \in 0 .. n /\ k \in 0 .. n BY <1>1
  <2>2. WalkOK(u) /\ Underway(w.pool, u, A, H, p, k - 1, ex) BY <1>6, <2>1 DEF n
  <2>3. v = FindOrCreateChild(u, x, cap) BY DEF Went, n
  <2>4. x \in TokenType BY <1>1
  <2>5. u.ok \in BOOLEAN BY <2>2 DEF WalkOK, WalkType
  <2> HIDE DEF u, v
  <2>6. CASE ~u.ok
    <3>1. v = u BY <2>3, <2>6 DEF FindOrCreateChild
    <3>2. Underway(w.pool, v, A, H, p, k, ex) BY <2>2, <2>6, <3>1 DEF Underway, Along
    <3> QED BY <2>1, <3>2 DEF v
  <2>7. CASE u.ok
    <3>1. FindEnds(u, v, x)
      <4> HIDE DEF x
      <4> QED BY <2>2, <2>3, <2>4, <2>7, FindIs
    <3>2. PICK sp : Spelled(u.pool, sp) /\ Known(u.pool, sp, A, H) /\ OnPath(u, sp, p, k - 1, ex)
      BY <2>2, <2>7 DEF Underway, Along
    <3>3. Truncated[RouteTokens(p)[k].name] = RouteTokens(p)[k].name BY DEF CleanTokens, n
    <3>4. Along(v, A, H, p, k, ex)
      <4>1. k \in 1 .. Len(RouteTokens(p)) /\ FindEnds(u, v, RouteTokens(p)[k]) BY <3>1 DEF n
      <4>2. WalkOK(u) BY <2>2
      <4> QED BY ONLY <1>3, <1>4, <3>2, <3>3, <4>1, <4>2, ex \in BOOLEAN, StepSpells
    <3>5. Grows(w.pool, v.pool)
      <4>1. w.pool \in Seq(NodeType) BY DEF WalkOK, TreeOK
      <4>2. Grows(w.pool, u.pool) BY <2>2 DEF Underway
      <4> HIDE DEF x
      <4> QED BY <2>2, <3>1, <4>1, <4>2, StepGrows
    <3>6. Underway(w.pool, v, A, H, p, k, ex) BY <3>4, <3>5 DEF Underway
    <3> QED BY <2>1, <3>6 DEF v
  <2> QED BY <2>5, <2>6, <2>7
<1> HIDE DEF K
<1>7. \A k \in 0 .. n : k \in K BY <1>1, <1>5, <1>6, Rounds
<1>8. n \in K BY <1>1, <1>7
<1> QED BY <1>8 DEF K, n, H

\* The route r can be added to the routes A of a trie built for G.
Fresh(r, A, G) ==
  /\ \A q \in G : SameParams(r.path, q)
  /\ \A s \in A : Plain(RouteTokens(s.path)) # Plain(RouteTokens(r.path))

\* The insertion into P that ends in u added r: nodes without a handler first, and
\* then the handler, at a node that had none.
Files(P, u, r, A, G) ==
  \E sp, Q :
    /\ Spelled(u.pool, sp) /\ Known(u.pool, sp, A \cup {r}, G \cup {r.path})
    /\ sp[u.at] = RouteTokens(r.path)
    /\ Grows(P, Q) /\ Q \in Seq(NodeType) /\ Q[u.at].handler = NoHandler
    /\ Marked(Q, u.pool, u.at, r.method, r.handler)

\* A walk that took every token of its path spells it.
LEMMA SpellsPath ==
  ASSUME NEW w, NEW sp, sp[w.at] \in Seq(TokenType), NEW p \in RoutePaths,
         OnPath(w, sp, p, Len(RouteTokens(p)), TRUE)
  PROVE  sp[w.at] = RouteTokens(p)
<1> DEFINE t == sp[w.at]
           q == RouteTokens(p)
<1>1. q \in Seq(TokenType) /\ Len(q) \in Nat /\ \A i \in 1 .. Len(q) : q[i] \in TokenType
  BY RouteTokensType
<1>2. /\ Len(t) = Len(q)
      /\ \A i \in 1 .. Len(q) : t[i].name = q[i].name /\ t[i].param = q[i].param
  BY DEF OnPath
<1>3. t \in Seq(TokenType) OBVIOUS
<1> HIDE DEF t, q
<1>4. \A i \in 1 .. Len(q) : t[i] \in TokenType BY <1>2, <1>3, ElementOfSeq
<1>5. \A i \in 1 .. Len(q) : t[i] = q[i] BY <1>1, <1>2, <1>4 DEF TokenType
<1>6. t = q BY <1>1, <1>2, <1>3, <1>5, SeqEqual
<1> QED BY <1>6 DEF t, q

\* Marking a node changes no spelling.
LEMMA MarkedSpelled ==
  ASSUME NEW P, NEW size, TreeOK(P, size), NEW sp, Spelled(P, sp), NEW Q, NEW n,
         NEW method, NEW handler, Marked(P, Q, n, method, handler)
  PROVE  Spelled(Q, sp)
<1>1. \A m \in 1 .. Len(P) : \A i \in DOMAIN P[m].children : P[m].children[i] \in 1 .. Len(P)
  <2>1. \A m \in 1 .. Len(P) : \A i \in DOMAIN P[m].children : P[m].children[i] \in 2 .. Len(P)
    BY SpelledFacts
  <2>2. 2 .. Len(P) \subseteq 1 .. Len(P) BY SpelledFacts
  <2> QED BY <2>1, <2>2
<1>2. \A m \in 1 .. Len(P) : Q[m].children = P[m].children /\ Token(Q[m]) = Token(P[m])
  BY DEF Marked, Token
<1>3. Len(Q) = Len(P) BY DEF Marked
<1>4. ASSUME NEW m \in 1 .. Len(P), NEW i \in DOMAIN Q[m].children
      PROVE  sp[Q[m].children[i]] = Append(sp[m], Token(Q[Q[m].children[i]]))
  <2>1. i \in DOMAIN P[m].children /\ Q[m].children[i] = P[m].children[i] BY <1>2
  <2>2. sp[P[m].children[i]] = Append(sp[m], Token(P[P[m].children[i]])) BY <2>1 DEF Spelled
  <2>3. Token(Q[P[m].children[i]]) = Token(P[P[m].children[i]]) BY <1>1, <1>2, <2>1
  <2> QED BY <2>1, <2>2, <2>3
<1> QED BY <1>3, <1>4 DEF Spelled

\* Marking the end of a route adds that route.
LEMMA MarkedKnown ==
  ASSUME NEW P, NEW sp, NEW A, NEW G, Known(P, sp, A, G), NEW Q, NEW r, NEW n \in 1 .. Len(P),
         Marked(P, Q, n, r.method, r.handler), sp[n] = RouteTokens(r.path),
         \A s \in A : RouteTokens(s.path) # RouteTokens(r.path)
  PROVE  Known(Q, sp, A \cup {r}, G)
<1>1. Len(Q) = Len(P) BY DEF Marked
<1>2. Holds(Q, sp, n, r) BY DEF Marked, Holds
<1>3. ASSUME NEW m \in 1 .. Len(P), m # n, NEW s PROVE Holds(P, sp, m, s) <=> Holds(Q, sp, m, s)
  <2>1. Q[m].handler = P[m].handler /\ Q[m].method = P[m].method BY <1>3 DEF Marked
  <2> QED BY <2>1 DEF Holds
<1>4. ASSUME NEW s \in A PROVE \E m \in 1 .. Len(P) : Holds(Q, sp, m, s)
  <2>1. PICK m \in 1 .. Len(P) : Holds(P, sp, m, s) BY DEF Known
  <2>2. m # n BY <2>1 DEF Holds
  <2> QED BY <1>3, <2>1, <2>2
<1>5. ASSUME NEW m \in 1 .. Len(P), Q[m].handler # NoHandler
      PROVE  \E s \in A \cup {r} : Holds(Q, sp, m, s)
  <2>1. CASE m = n BY <1>2, <2>1
  <2>2. CASE m # n
    <3>1. P[m].handler # NoHandler BY <1>5, <2>2 DEF Marked
    <3>2. PICK s \in A : Holds(P, sp, m, s) BY <3>1 DEF Known
    <3> QED BY <1>3, <2>2, <3>2
  <2> QED BY <2>1, <2>2
<1>6. \A s \in A \cup {r} : \E m \in 1 .. Len(P) : Holds(Q, sp, m, s) BY <1>2, <1>4
<1>7. \A m \in 2 .. Len(P) : \E p \in G : Traced(sp[m], p) BY DEF Known
<1> QED BY <1>1, <1>5, <1>6, <1>7 DEF Known

\* What an insertion adds, and what a failed one leaves.
LEMMA InsertFiles ==
  ASSUME NEW w, WalkOK(w), NEW A, NEW G \in SUBSET RoutePaths, NEW r \in Route,
         Filed(w.pool, A, G), CleanTokens(r.path), NEW f, NEW cap, NEW u,
         Inserts(f, w, u, r, cap)
  PROVE  /\ u.ok \in BOOLEAN
         /\ ~u.ok => Grows(w.pool, u.pool) /\ Filed(u.pool, A, G \cup {r.path})
         /\ u.ok /\ Fresh(r, A, G) => Files(w.pool, u, r, A, G)
<1> DEFINE p == r.path
           n == Len(RouteTokens(p))
           v == f[n]
           H == G \cup {p}
<1>1. p \in RoutePaths /\ n \in Nat BY RouteTokensType DEF Route
<1>2. /\ Went(f, w, RouteTokens(p), cap) /\ (\A k \in 0 .. n : WalkOK(f[k])) /\ Ends(v, u, r)
      /\ WalkOK(u)
  BY DEF Inserts
<1>3. WalkOK(v) /\ v.ok \in BOOLEAN /\ u.ok = v.ok /\ u.at = v.at
  <2>1. WalkOK(v) BY <1>1, <1>2
  <2> QED BY <1>2, <2>1 DEF WalkOK, WalkType, Ends
<1>4. ASSUME NEW ex \in BOOLEAN, Agrees(p, G, ex) PROVE Underway(w.pool, v, A, H, p, n, ex)
  <2>1. CleanTokens(p) OBVIOUS
  <2> HIDE DEF p
  <2> QED BY <1>1, <1>2, <1>4, <2>1, WalkSpells
<1> HIDE DEF p, n, v, H
<1>5. ASSUME ~u.ok PROVE Grows(w.pool, u.pool) /\ Filed(u.pool, A, H)
  <2>1. Agrees(p, G, FALSE) BY DEF Agrees
  <2>2. Underway(w.pool, v, A, H, p, n, FALSE) BY <1>4, <2>1
  <2>3. u.pool = v.pool BY <1>2, <1>3, <1>5 DEF Ends
  <2> QED BY <2>2, <2>3 DEF Underway, Along, Filed
<1>6. ASSUME u.ok, Fresh(r, A, G) PROVE Files(w.pool, u, r, A, G)
  <2>1. Agrees(p, G, TRUE) BY <1>6 DEF Fresh, Agrees, p
  <2>2. Underway(w.pool, v, A, H, p, n, TRUE) BY <1>4, <2>1
  <2>3. v.ok /\ v.pool \in Seq(NodeType) /\ v.at \in 1 .. Len(v.pool) /\ TreeOK(v.pool, v.size)
    BY <1>3, <1>6 DEF WalkOK, TreeOK
  <2>4. PICK sp : Spelled(v.pool, sp) /\ Known(v.pool, sp, A, H) /\ OnPath(v, sp, p, n, TRUE)
    BY <2>2, <2>3 DEF Underway, Along
  <2>5. sp[v.at] = RouteTokens(p)
    <3>1. sp[v.at] \in Seq(TokenType) BY <2>3, <2>4, SpelledFacts
    <3> QED BY <1>1, <2>4, <3>1, SpellsPath DEF n
  <2>6. Marked(v.pool, u.pool, v.at, r.method, r.handler) BY <1>2, <2>3 DEF Ends
  <2>7. \A s \in A : RouteTokens(s.path) # RouteTokens(r.path) BY <1>6 DEF Fresh
  <2>8. v.pool[v.at].handler = NoHandler
    <3> SUFFICES ASSUME v.pool[v.at].handler # NoHandler PROVE FALSE OBVIOUS
    <3>1. PICK s \in A : Holds(v.pool, sp, v.at, s) BY <2>3, <2>4 DEF Known
    <3> QED BY <2>5, <2>7, <3>1 DEF Holds, p
  <2>9. Spelled(u.pool, sp) BY <2>3, <2>4, <2>6, MarkedSpelled
  <2>10. Known(u.pool, sp, A \cup {r}, H)
    <3>1. sp[v.at] = RouteTokens(r.path) BY <2>5 DEF p
    <3> QED BY <2>3, <2>4, <2>6, <2>7, <3>1, MarkedKnown
  <2>11. Grows(w.pool, v.pool) BY <2>2 DEF Underway
  <2> QED BY <1>3, <2>3, <2>5, <2>6, <2>8, <2>9, <2>10, <2>11 DEF Files, H, p
<1>7. H = G \cup {r.path} BY DEF H, p
<1> QED BY <1>3, <1>5, <1>6, <1>7

-----------------------------------------------------------------------------
(* Clean paths.                                                            *)

Slash == <<[name |-> NoText, param |-> FALSE]>>

\* Texts that are all collected are the path.
LEMMA CopyRun ==
  ASSUME NEW S, NEW path \in Seq(S), NEW ts, ts[0] = <<>>,
         \A k \in 1 .. Len(path) : ts[k] = Append(ts[k - 1], path[k])
  PROVE  ts[Len(path)] = path
<1> DEFINE n == Len(path)
           K == {k \in 0 .. n : /\ ts[k] \in Seq(S) /\ Len(ts[k]) = k
                                /\ \A i \in 1 .. k : ts[k][i] = path[i]}
<1>1. n \in Nat /\ \A i \in 1 .. n : path[i] \in S BY LenProperties, ElementOfSeq
<1>2. 0 \in K
  <2>1. ts[0] \in Seq(S) /\ Len(ts[0]) = 0 BY EmptySeq
  <2>2. 0 \in 0 .. n /\ \A i \in 1 .. 0 : ts[0][i] = path[i] BY <1>1
  <2> QED BY <2>1, <2>2
<1>3. ASSUME NEW k \in 1 .. n, k - 1 \in K PROVE k \in K
  <2> DEFINE t == ts[k - 1]
             x == path[k]
  <2>1. t \in Seq(S) /\ Len(t) = k - 1 /\ (\A i \in 1 .. k - 1 : t[i] = path[i])
        /\ ts[k] = Append(t, x) /\ x \in S
    BY <1>1, <1>3
  <2> HIDE DEF t, x
  <2>2. /\ Append(t, x) \in Seq(S) /\ Len(Append(t, x)) = Len(t) + 1
        /\ (\A i \in 1 .. Len(t) : Append(t, x)[i] = t[i]) /\ Append(t, x)[Len(t) + 1] = x
    BY <2>1, AppendProperties
  <2>3. ts[k] \in Seq(S) /\ Len(ts[k]) = k /\ (\A i \in 1 .. k - 1 : ts[k][i] = path[i])
        /\ ts[k][k] = path[k]
    BY <1>1, <2>1, <2>2 DEF x
  <2>4. \A i \in 1 .. k : i \in 1 .. k - 1 \/ i = k BY <1>1
  <2>5. \A i \in 1 .. k : ts[k][i] = path[i] BY <2>3, <2>4
  <2>6. k \in 0 .. n BY <1>1
  <2> QED BY <2>3, <2>5, <2>6
<1> HIDE DEF K
<1>4. \A k \in 0 .. n : k \in K BY <1>1, <1>2, <1>3, Rounds
<1>5. n \in K BY <1>1, <1>4
<1>6. ts[n] \in Seq(S) /\ Len(ts[n]) = n /\ \A i \in 1 .. n : ts[n][i] = path[i]
  BY <1>5 DEF K
<1> QED BY <1>1, <1>6, SeqEqual

\* The tokens of a clean path are its texts.
LEMMA CleanIs ==
  ASSUME NEW path \in RoutePaths, Clean(path)
  PROVE  /\ \/ path = Slash /\ RouteTokens(path) = <<>>
            \/ RouteTokens(path) = path /\ \A i \in 1 .. Len(path) : path[i].name # NoText
         /\ CleanTokens(path)
<1>1. path \in Seq(TokenType) /\ Len(path) \in Nat /\ DOMAIN path = 1 .. Len(path)
      /\ \A i \in 1 .. Len(path) : path[i] \in TokenType
  BY RouteTokensType, LenProperties, ElementOfSeq
<1>2. PICK ts : /\ ts[0] = <<>> /\ RouteTokens(path) = ts[Len(path)]
                /\ \A k \in 1 .. Len(path) : ts[k] = TokenStep(ts[k - 1], k, path)
  BY <1>1, RouteTokensRun
<1>3. CASE path = Slash
  <2>1. Len(path) = 1 /\ path[1] = [name |-> NoText, param |-> FALSE] BY <1>3 DEF Slash
  <2>2. ts[1] = TokenStep(ts[0], 1, path) BY <1>2, <2>1
  <2>3. path[1].name = NoText /\ ~path[1].param BY <2>1
  <2>4. ts[1] = <<>> BY <1>2, <2>2, <2>3 DEF TokenStep
  <2>5. RouteTokens(path) = <<>> BY <1>2, <2>1, <2>4
  <2>6. CleanTokens(path) BY <2>5 DEF CleanTokens
  <2> QED BY <1>3, <2>5, <2>6
<1>4. CASE \A i \in DOMAIN path : path[i].name # NoText /\ Truncated[path[i].name] = path[i].name
  <2>1. ASSUME NEW k \in 1 .. Len(path) PROVE ts[k] = Append(ts[k - 1], path[k])
    <3>1. path[k].name # NoText BY <1>1, <1>4
    <3> QED BY <1>2, <3>1 DEF TokenStep
  <2>5. ts[Len(path)] = path BY <1>1, <1>2, <2>1, CopyRun
  <2>6. RouteTokens(path) = path BY <1>2, <2>5
  <2>7. CleanTokens(path) BY <1>1, <1>4, <2>6 DEF CleanTokens
  <2> QED BY <1>1, <1>4, <2>6, <2>7
<1> QED BY <1>3, <1>4 DEF Clean, Slash

\* The segments of a clean request are its texts.
LEMMA CleanRequestIs ==
  ASSUME NEW path \in RequestPaths, CleanRequest(path)
  PROVE  \/ path = <<NoText>> /\ Tokens(path) = <<>>
         \/ Tokens(path) = path /\ \A i \in 1 .. Len(path) : path[i] # NoText
<1>1. path \in Seq(Names) /\ Len(path) \in Nat /\ DOMAIN path = 1 .. Len(path)
      /\ \A i \in 1 .. Len(path) : path[i] \in Names
  BY TokensType, LenProperties, ElementOfSeq
<1>2. PICK ts : /\ ts[0] = <<>> /\ Tokens(path) = ts[Len(path)]
                /\ \A k \in 1 .. Len(path) : ts[k] = TextStep(ts[k - 1], k, path)
  BY <1>1, TokensRun
<1>3. CASE path = <<NoText>>
  <2>1. Len(path) = 1 /\ path[1] = NoText BY <1>3
  <2>2. ts[1] = TextStep(ts[0], 1, path) BY <1>2, <2>1
  <2>3. ts[1] = <<>> BY <1>2, <2>1, <2>2 DEF TextStep
  <2> QED BY <1>2, <1>3, <2>1, <2>3
<1>4. CASE \A i \in DOMAIN path : path[i] # NoText
  <2>1. ASSUME NEW k \in 1 .. Len(path) PROVE ts[k] = Append(ts[k - 1], path[k])
    <3>1. path[k] # NoText BY <1>1, <1>4
    <3> QED BY <1>2, <3>1 DEF TextStep
  <2>5. ts[Len(path)] = path BY <1>1, <1>2, <2>1, CopyRun
  <2> QED BY <1>1, <1>2, <1>4, <2>5
<1> QED BY <1>3, <1>4 DEF CleanRequest

-----------------------------------------------------------------------------
(* The routes of the router in its trie.                                   *)

RoutesOf(s) == {s[i] : i \in DOMAIN s}
PathsOf(s) == {s[i].path : i \in DOMAIN s}

\* A route more.
LEMMA AppendRoutes ==
  ASSUME NEW s \in Seq(Route), NEW r \in Route
  PROVE  /\ RoutesOf(Append(s, r)) = RoutesOf(s) \cup {r}
         /\ PathsOf(Append(s, r)) = PathsOf(s) \cup {r.path}
         /\ DOMAIN Append(s, r) = 1 .. Len(s) + 1 /\ DOMAIN s = 1 .. Len(s) /\ Len(s) \in Nat
         /\ \A i \in DOMAIN s : Append(s, r)[i] = s[i]
         /\ Append(s, r)[Len(s) + 1] = r
<1> DEFINE t == Append(s, r)
<1>1. Len(s) \in Nat /\ DOMAIN s = 1 .. Len(s) BY LenProperties
<1>2. /\ t \in Seq(Route) /\ Len(t) = Len(s) + 1 /\ (\A i \in 1 .. Len(s) : t[i] = s[i])
      /\ t[Len(s) + 1] = r
  BY AppendProperties
<1>3. DOMAIN t = 1 .. Len(s) + 1 BY <1>2, LenProperties
<1> HIDE DEF t
<1>4. \A i \in 1 .. Len(s) + 1 : i \in 1 .. Len(s) \/ i = Len(s) + 1 BY <1>1
<1>5. 1 .. Len(s) \subseteq 1 .. Len(s) + 1 /\ Len(s) + 1 \in 1 .. Len(s) + 1 BY <1>1
<1>6. RoutesOf(t) = RoutesOf(s) \cup {r} BY <1>1, <1>2, <1>3, <1>4, <1>5 DEF RoutesOf
<1>7. PathsOf(t) = PathsOf(s) \cup {r.path} BY <1>1, <1>2, <1>3, <1>4, <1>5 DEF PathsOf
<1> QED BY <1>1, <1>2, <1>3, <1>6, <1>7 DEF t

\* The root alone holds nothing.
LEMMA RootFiled == Filed(<<Node(NoText, FALSE)>>, {}, {})
<1> DEFINE root == Node(NoText, FALSE)
           P == <<root>>
           sp == << <<>> >>
<1>1. root.children = <<>> /\ root.handler = NoHandler BY DEF Node
<1> HIDE DEF root
<1>2. Len(P) = 1 /\ P[1] = root /\ Len(sp) = 1 /\ sp[1] = <<>> OBVIOUS
<1>3. sp \in Seq(Seq(TokenType))
  <2>1. <<>> \in Seq(TokenType) BY EmptySeq
  <2> QED BY <2>1
<1> HIDE DEF P, sp
<1>4. \A n \in 1 .. Len(P) : n = 1 BY <1>2
<1>5. DOMAIN root.children = {} BY <1>1
<1>6. Spelled(P, sp) BY <1>2, <1>3, <1>4, <1>5 DEF Spelled
<1>7. Known(P, sp, {}, {}) BY <1>1, <1>2, <1>4 DEF Known
<1> QED BY <1>6, <1>7 DEF Filed, P, root

\* The routes of a sequence are clean and keep apart.
Tidy(s) == \A i \in DOMAIN s : Clean(s[i].path) /\ \A j \in DOMAIN s : i # j => Apart(s[i], s[j])

\* The first k of them.
FirstRoutes(s, k) == {s[i] : i \in 1 .. k}
FirstPaths(s, k) == {s[i].path : i \in 1 .. k}

\* A migration that succeeds moves every route.
LEMMA MigratesFiled ==
  ASSUME NEW s \in Seq(Route), Tidy(s), NEW g, NEW base, NEW cap, Migrates(g, base, s, cap),
         base.pool = <<Node(NoText, FALSE)>>, g[Len(s)].ok
  PROVE  Filed(g[Len(s)].pool, RoutesOf(s), PathsOf(s))
<1> DEFINE n == Len(s)
           K == {k \in 0 .. n : g[k].ok => Filed(g[k].pool, FirstRoutes(s, k), FirstPaths(s, k))}
<1>1. n \in Nat /\ DOMAIN s = 1 .. n /\ \A i \in 1 .. n : s[i] \in Route
  BY LenProperties, ElementOfSeq
<1>2. 0 \in K
  <2>1. FirstRoutes(s, 0) = {} /\ FirstPaths(s, 0) = {} BY DEF FirstRoutes, FirstPaths
  <2>2. g[0].pool = <<Node(NoText, FALSE)>> BY DEF Migrates
  <2>3. Filed(g[0].pool, FirstRoutes(s, 0), FirstPaths(s, 0)) BY <2>1, <2>2, RootFiled
  <2> QED BY <1>1, <2>3
<1>3. ASSUME NEW k \in 1 .. n, k - 1 \in K PROVE k \in K
  <2> DEFINE w == g[k - 1]
             u == g[k]
             r == s[k]
             A == FirstRoutes(s, k - 1)
             G == FirstPaths(s, k - 1)
  <2>1. k - 1 \in 0 .. n /\ k \in 0 .. n BY <1>1
  <2>2. WalkOK(w) /\ u = MigrateStep(w, r, cap) BY <2>1 DEF Migrates
  <2>3. w.ok => Filed(w.pool, A, G) BY <1>3
  <2>4. r \in Route /\ r.path \in RoutePaths BY <1>1 DEF Route
  <2>5. Clean(r.path) BY <1>1 DEF Tidy
  <2>6. FirstRoutes(s, k) = A \cup {r} /\ FirstPaths(s, k) = G \cup {r.path}
    <3>1. \A i \in 1 .. k : i \in 1 .. k - 1 \/ i = k BY <1>1
    <3>2. 1 .. k - 1 \subseteq 1 .. k /\ k \in 1 .. k BY <1>1
    <3> QED BY <3>1, <3>2 DEF FirstRoutes, FirstPaths
  <2>7. G \in SUBSET RoutePaths BY <1>1 DEF FirstPaths, Route
  <2>8. Fresh(r, A, G)
    <3>1. \A i \in 1 .. k - 1 : i \in 1 .. n /\ i # k BY <1>1
    <3>2. \A i \in 1 .. k - 1 : Apart(s[k], s[i]) BY <1>1, <3>1 DEF Tidy
    <3> QED BY <3>2 DEF Fresh, FirstRoutes, FirstPaths, Apart
  <2>9. SUFFICES ASSUME u.ok PROVE Filed(u.pool, A \cup {r}, G \cup {r.path})
    BY <2>1, <2>6
  <2>10. w.ok \in BOOLEAN BY <2>2 DEF WalkOK, WalkType
  <2> HIDE DEF w, u, r, A, G
  <2>11. w.ok BY <2>2, <2>9, <2>10 DEF MigrateStep
  <2>12. u = Insert(w, r, cap) BY <2>2, <2>11 DEF MigrateStep
  <2>13. PICK f : Inserts(f, w, u, r, cap) BY <2>2, <2>4, <2>12, InsertIs
  <2>14. CleanTokens(r.path) BY <2>4, <2>5, CleanIs
  <2>15. Files(w.pool, u, r, A, G)
    BY <2>2, <2>3, <2>4, <2>7, <2>8, <2>9, <2>11, <2>13, <2>14, InsertFiles
  <2> QED BY <2>15 DEF Files, Filed
<1> HIDE DEF K, n
<1>4. \A k \in 0 .. n : k \in K BY <1>1, <1>2, <1>3, Rounds
<1>5. n \in K BY <1>1, <1>4
<1>6. FirstRoutes(s, n) = RoutesOf(s) /\ FirstPaths(s, n) = PathsOf(s)
  BY <1>1 DEF FirstRoutes, FirstPaths, RoutesOf, PathsOf
<1> QED BY <1>5, <1>6 DEF K, n

\* The inductive invariant of FindsWhatFits: a trie in use holds the accepted routes.
FiledInv ==
  /\ TrieInv /\ Inv
  /\ array_mem = "allocated" => node_pool = <<Node(NoText, FALSE)>>
  /\ use_trie /\ Orderly => Filed(node_pool, RoutesOf(accepted), PathsOf(accepted) \cup refused)

\* The three ends of a registration.
IntoArray(route) ==
  /\ ~use_trie /\ ~use_trie' /\ array_routes' = Append(array_routes, route)
  /\ accepted' = Append(accepted, route)
  /\ UNCHANGED <<array_mem, node_pool, refused>>

IntoTrie(w, f, u, route, cap) ==
  /\ use_trie' = TRUE /\ array_mem' = "null"
  /\ WalkOK(w) /\ Inserts(f, w, u, route, cap)
  /\ use_trie => w.pool = node_pool
  /\ node_pool' = u.pool
  /\ Returned(u.ok, route)
  /\ Orderly => Filed(w.pool, RoutesOf(accepted), PathsOf(accepted) \cup refused)

\* A trie may have been built for more paths than it was.
LEMMA FiledMore ==
  ASSUME NEW P, NEW A, NEW G, NEW H, Filed(P, A, G), G \subseteq H
  PROVE  Filed(P, A, H)
BY DEF Filed, Known

\* What a registration does.
LEMMA RegisterIs ==
  ASSUME FiledInv, NEW route \in Route, NEW cap, Registers(route, cap)
  PROVE  \/ IntoArray(route)
         \/ array_mem' = "freed" /\ ~use_trie'
         \/ \E w, f, u : IntoTrie(w, f, u, route, cap)
<1>1. /\ TrieInv /\ RouterTypeOK /\ WalkOK(Walk) /\ Walk.pool = node_pool /\ array_routes \in Seq(Route)
      /\ accepted \in Seq(Route) /\ use_trie \in BOOLEAN /\ (use_trie <=> array_mem = "null")
      /\ array_mem \in {"allocated", "null", "freed"} /\ array_mem # "freed"
      /\ AddRouteMethod(route, cap)
  BY WalkIsOK DEF FiledInv, TrieInv, RouterTypeOK, Registers
<1>2. CASE use_trie
  <2> DEFINE u == Insert(Walk, route, cap)
             w == Walk
  <2>1. PICK f : Inserts(f, w, u, route, cap) BY <1>1, InsertIs
  <2>2. node_pool' = u.pool /\ Returned(u.ok, route) /\ UNCHANGED <<array_mem, use_trie>>
    BY <1>1, <1>2 DEF AddRouteMethod, AddTrieRoute
  <2>3. WalkOK(w) /\ w.pool = node_pool BY <1>1
  <2>4. Orderly => Filed(w.pool, RoutesOf(accepted), PathsOf(accepted) \cup refused)
    BY <1>2, <2>3 DEF FiledInv
  <2> HIDE DEF u, w
  <2>5. IntoTrie(w, f, u, route, cap)
    BY <1>1, <1>2, <2>1, <2>2, <2>3, <2>4 DEF IntoTrie
  <2> QED BY <2>5
<1>3. CASE ~use_trie /\ (HasParams(route.path) \/ Len(array_routes) >= HYBRID_THRESHOLD)
  <2> DEFINE w == Migrated(cap)
             u == Insert(w, route, cap)
  <2>1. MigrateAndAdd(route, cap) BY <1>1, <1>3 DEF AddRouteMethod
  <2>2. PICK g : Migrates(g, Walk, array_routes, cap) /\ w = g[Len(array_routes)]
    BY <1>1, MigratedIs
  <2>3. Len(array_routes) \in Nat BY <1>1, LenProperties
  <2>4. WalkOK(w) BY <2>2, <2>3 DEF Migrates
  <2>5. CASE ~w.ok
    <3>1. array_mem' = "freed" /\ use_trie' = use_trie BY <2>1, <2>5 DEF MigrateAndAdd
    <3> QED BY <1>3, <3>1
  <2>6. CASE w.ok
    <3>1. /\ use_trie' = TRUE /\ array_mem' = "null"
          /\ node_pool' = u.pool /\ Returned(u.ok, route)
      BY <2>1, <2>6 DEF MigrateAndAdd
    <3>2. PICK f : Inserts(f, w, u, route, cap) BY <2>4, InsertIs
    <3>3. ASSUME Orderly
          PROVE  Filed(w.pool, RoutesOf(accepted), PathsOf(accepted) \cup refused)
      <4>1. array_routes = accepted BY <1>3 DEF FiledInv, Inv, ArrayFits
      <4>2. Tidy(array_routes) BY <3>3, <4>1 DEF Orderly, Tidy
      <4>3. Walk.pool = <<Node(NoText, FALSE)>> BY <1>1, <1>3 DEF FiledInv
      <4>4. g[Len(array_routes)].ok BY <2>2, <2>6
      <4>5. Filed(g[Len(array_routes)].pool, RoutesOf(array_routes), PathsOf(array_routes))
        BY <1>1, <2>2, <4>2, <4>3, <4>4, MigratesFiled
      <4>6. Filed(w.pool, RoutesOf(accepted), PathsOf(accepted)) BY <2>2, <4>1, <4>5
      <4> HIDE DEF w
      <4> QED BY <4>6, FiledMore
    <3> HIDE DEF u, w
    <3>4. IntoTrie(w, f, u, route, cap) BY <1>3, <2>4, <3>1, <3>2, <3>3 DEF IntoTrie
    <3> QED BY <3>4
  <2> QED BY <2>5, <2>6
<1>4. CASE ~use_trie /\ ~(HasParams(route.path) \/ Len(array_routes) >= HYBRID_THRESHOLD)
  <2>1. AddArrayRoute(route) BY <1>1, <1>4 DEF AddRouteMethod
  <2>2. IntoArray(route) BY <1>4, <2>1 DEF AddArrayRoute, IntoArray
  <2> QED BY <2>2
<1> QED BY <1>2, <1>3, <1>4

\* The routes an application can rely on were reliable before the last call.
LEMMA OrderlyBefore ==
  ASSUME accepted \in Seq(Route), NEW route \in Route, array_mem # "freed",
         accepted' \in {accepted, Append(accepted, route)}, refused \subseteq refused', Orderly'
  PROVE  Orderly
<1>1. \A i \in DOMAIN accepted : i \in DOMAIN accepted' /\ accepted'[i] = accepted[i]
  <2>1. CASE accepted' = accepted BY <2>1
  <2>2. CASE accepted' = Append(accepted, route)
    <3>1. /\ DOMAIN Append(accepted, route) = 1 .. Len(accepted) + 1 /\ Len(accepted) \in Nat
          /\ DOMAIN accepted = 1 .. Len(accepted)
          /\ \A i \in DOMAIN accepted : Append(accepted, route)[i] = accepted[i]
      BY AppendRoutes
    <3>2. 1 .. Len(accepted) \subseteq 1 .. Len(accepted) + 1 BY <3>1
    <3> QED BY <2>2, <3>1, <3>2
  <2> QED BY <2>1, <2>2
<1>2. ASSUME NEW i \in DOMAIN accepted
      PROVE  /\ Clean(accepted[i].path)
             /\ \A j \in DOMAIN accepted : i # j => Apart(accepted[i], accepted[j])
             /\ \A path \in refused : SameParams(accepted[i].path, path)
  <2>1. /\ Clean(accepted'[i].path)
        /\ \A j \in DOMAIN accepted' : i # j => Apart(accepted'[i], accepted'[j])
        /\ \A path \in refused' : SameParams(accepted'[i].path, path)
    BY <1>1 DEF Orderly
  <2> QED BY <1>1, <2>1
<1>3. \A path \in refused : Clean(path) BY DEF Orderly
<1> QED BY <1>2, <1>3 DEF Orderly

\* What Orderly says of a route that was just accepted, or refused.
LEMMA OrderlyNew ==
  ASSUME accepted \in Seq(Route), NEW route \in Route, NEW ok \in BOOLEAN, Returned(ok, route), Orderly'
  PROVE  /\ Clean(route.path)
         /\ ok => Fresh(route, RoutesOf(accepted), PathsOf(accepted) \cup refused)
<1>1. CASE ~ok
  <2>1. route.path \in refused' BY <1>1 DEF Returned
  <2> QED BY <1>1, <2>1 DEF Orderly
<1>2. CASE ok
  <2> DEFINE n == Len(accepted) + 1
  <2>1. accepted' = Append(accepted, route) /\ refused' = refused BY <1>2 DEF Returned
  <2>2. /\ DOMAIN accepted' = 1 .. n /\ Len(accepted) \in Nat
        /\ DOMAIN accepted = 1 .. Len(accepted) /\ accepted'[n] = route
        /\ \A i \in DOMAIN accepted : accepted'[i] = accepted[i]
    BY <2>1, AppendRoutes
  <2>3. n \in DOMAIN accepted' /\ \A i \in DOMAIN accepted : i \in DOMAIN accepted' /\ i # n
    BY <2>2
  <2> HIDE DEF n
  <2>4. /\ Clean(accepted'[n].path)
        /\ \A j \in DOMAIN accepted' : n # j => Apart(accepted'[n], accepted'[j])
        /\ \A path \in refused' : SameParams(accepted'[n].path, path)
    BY <2>3 DEF Orderly
  <2>5. /\ Clean(route.path) /\ (\A j \in DOMAIN accepted : Apart(route, accepted[j]))
        /\ \A path \in refused : SameParams(route.path, path)
    BY <2>1, <2>2, <2>3, <2>4
  <2>6. \A q \in PathsOf(accepted) : SameParams(route.path, q)
    BY <2>5 DEF PathsOf, Apart
  <2>7. \A s \in RoutesOf(accepted) : Plain(RouteTokens(s.path)) # Plain(RouteTokens(route.path))
    BY <2>5 DEF RoutesOf, Apart
  <2> QED BY <2>5, <2>6, <2>7 DEF Fresh
<1> QED BY <1>1, <1>2

\* The trie after a registration.
LEMMA IntoTrieFiles ==
  ASSUME FiledInv, NEW route \in Route, NEW cap, array_mem # "freed", NEW w, NEW f, NEW u,
         IntoTrie(w, f, u, route, cap), Orderly'
  PROVE  /\ Orderly /\ u.ok \in BOOLEAN
         /\ ~u.ok => Grows(w.pool, u.pool)
         /\ u.ok => Files(w.pool, u, route, RoutesOf(accepted), PathsOf(accepted) \cup refused)
         /\ Filed(u.pool, RoutesOf(accepted)', PathsOf(accepted)' \cup refused')
<1>1. accepted \in Seq(Route) /\ refused \subseteq RoutePaths BY DEF FiledInv, TrieInv, RouterTypeOK
<1>2. Returned(u.ok, route) /\ WalkOK(w) /\ Inserts(f, w, u, route, cap) BY DEF IntoTrie
<1>3. u.ok \in BOOLEAN BY <1>2 DEF Inserts, WalkOK, WalkType
<1>4. accepted' \in {accepted, Append(accepted, route)} /\ refused \subseteq refused'
  BY <1>2 DEF Returned
<1>5. Orderly BY <1>1, <1>4, OrderlyBefore
<1> DEFINE A == RoutesOf(accepted)
           G == PathsOf(accepted) \cup refused
<1>6. Filed(w.pool, A, G) BY <1>5 DEF IntoTrie
<1>7. G \in SUBSET RoutePaths
  <2>1. \A i \in DOMAIN accepted : accepted[i] \in Route BY <1>1, LenProperties, ElementOfSeq
  <2> QED BY <1>1, <2>1 DEF PathsOf, Route
<1>8. Clean(route.path) /\ (u.ok => Fresh(route, A, G)) BY <1>1, <1>2, <1>3, OrderlyNew
<1>9. CleanTokens(route.path)
  <2>1. route.path \in RoutePaths BY DEF Route
  <2> QED BY <1>8, <2>1, CleanIs
<1> HIDE DEF A, G
<1>10. /\ ~u.ok => Grows(w.pool, u.pool) /\ Filed(u.pool, A, G \cup {route.path})
       /\ u.ok /\ Fresh(route, A, G) => Files(w.pool, u, route, A, G)
  BY <1>2, <1>6, <1>7, <1>9, InsertFiles
<1>11. CASE ~u.ok
  <2>1. accepted' = accepted /\ refused' = refused \cup {route.path} BY <1>2, <1>11 DEF Returned
  <2>2. RoutesOf(accepted)' = A /\ PathsOf(accepted)' \cup refused' = G \cup {route.path}
    BY <2>1 DEF A, G, RoutesOf, PathsOf
  <2> QED BY <1>3, <1>5, <1>10, <1>11, <2>2
<1>12. CASE u.ok
  <2>1. accepted' = Append(accepted, route) /\ refused' = refused BY <1>2, <1>12 DEF Returned
  <2>2. /\ RoutesOf(Append(accepted, route)) = RoutesOf(accepted) \cup {route}
        /\ PathsOf(Append(accepted, route)) = PathsOf(accepted) \cup {route.path}
    BY <1>1, AppendRoutes
  <2>3. RoutesOf(accepted') = A \cup {route} /\ PathsOf(accepted') \cup refused' = G \cup {route.path}
    BY <2>1, <2>2 DEF A, G
  <2>4. RoutesOf(accepted)' = RoutesOf(accepted') /\ PathsOf(accepted)' = PathsOf(accepted')
    BY DEF RoutesOf, PathsOf
  <2>5. Files(w.pool, u, route, A, G) BY <1>8, <1>10, <1>12
  <2>6. Filed(u.pool, A \cup {route}, G \cup {route.path}) BY <2>5 DEF Files, Filed
  <2> QED BY <1>3, <1>5, <1>12, <2>3, <2>4, <2>5, <2>6 DEF A, G
<1> QED BY <1>3, <1>11, <1>12

\* An empty router.
LEMMA InitFiled == RouterInit => FiledInv
<1> SUFFICES ASSUME RouterInit PROVE FiledInv OBVIOUS
<1>1. TrieInv /\ Inv BY InitTrie, InitInv
<1>2. use_trie = FALSE /\ node_pool = <<Node(NoText, FALSE)>> BY DEF RouterInit
<1> QED BY <1>1, <1>2 DEF FiledInv

\* Every call leaves a trie in use with the accepted routes.
LEMMA NextFiled == FiledInv /\ [RouterNext]_routerVars => FiledInv'
<1> SUFFICES ASSUME FiledInv, [RouterNext]_routerVars PROVE FiledInv' OBVIOUS
<1>1. TrieInv /\ Inv /\ RouterTypeOK /\ TrieInv' /\ Inv' BY NextTrie, NextInv DEF FiledInv, TrieInv
<1>2. CASE LeavesRoutes
  <2>1. UNCHANGED <<array_mem, use_trie, node_pool, accepted, refused>> BY <1>2 DEF LeavesRoutes
  <2>2. Orderly' <=> Orderly BY <2>1 DEF Orderly
  <2>3. (RoutesOf(accepted))' = RoutesOf(accepted) /\ PathsOf(accepted)' = PathsOf(accepted) BY <2>1
  <2> QED BY <1>1, <2>1, <2>2, <2>3 DEF FiledInv
<1>3. ASSUME NEW route \in Route, NEW cap, Registers(route, cap) PROVE FiledInv'
  <2>1. array_mem # "freed" BY <1>3 DEF Registers
  <2>2. CASE IntoArray(route)
    <3>1. UNCHANGED <<array_mem, node_pool>> /\ ~use_trie' BY <2>2 DEF IntoArray
    <3> QED BY <1>1, <3>1 DEF FiledInv
  <2>3. CASE array_mem' = "freed" /\ ~use_trie' BY <1>1, <2>3 DEF FiledInv
  <2>4. ASSUME NEW w, NEW f, NEW u, IntoTrie(w, f, u, route, cap) PROVE FiledInv'
    <3>1. array_mem' = "null" /\ node_pool' = u.pool BY <2>4 DEF IntoTrie
    <3>2. ASSUME Orderly'
          PROVE  Filed(node_pool', RoutesOf(accepted)', PathsOf(accepted)' \cup refused')
      BY <2>1, <2>4, <3>1, <3>2, IntoTrieFiles
    <3> QED BY <1>1, <3>1, <3>2 DEF FiledInv
  <2> QED BY <1>3, <2>2, <2>3, <2>4, RegisterIs
<1> QED BY <1>1, <1>2, <1>3, CallIs

-----------------------------------------------------------------------------
(* Lookup in a trie, of any pool.                                          *)

MatchIn(P, segments, method) ==
  LET N == 1 .. Len(P)
      left[j \in 0 .. Len(segments)] ==
        IF j = 0 THEN [n \in N |-> Leaf(P[n], method)]
        ELSE [n \in N |-> NodeAnswer(P, n, segments[Len(segments) - j + 1], left[j - 1])]
  IN  left[Len(segments)][1]

LeftBy(P, segments, method, left) ==
  left = [j \in 0 .. Len(segments) |->
            IF j = 0 THEN [n \in 1 .. Len(P) |-> Leaf(P[n], method)]
            ELSE [n \in 1 .. Len(P) |->
                    NodeAnswer(P, n, segments[Len(segments) - j + 1], left[j - 1])]]
LeftOf(P, segments, method) == CHOOSE left : LeftBy(P, segments, method, left)

\* What the nodes answer, from the leaves up.
LeftRun(P, segments, method, left) ==
  /\ \A n \in 1 .. Len(P) : left[0][n] = Leaf(P[n], method)
  /\ \A j \in 1 .. Len(segments) : \A n \in 1 .. Len(P) :
       left[j][n] = NodeAnswer(P, n, segments[Len(segments) - j + 1], left[j - 1])

LeftStep(before, j, c) ==
  [n \in 1 .. Len(c[1]) |-> NodeAnswer(c[1], n, c[2][Len(c[2]) - j + 1], before)]
Lefts == INSTANCE SumFacts WITH FoldOp <- LeftStep

\* The lookup in the trie of the router.
LEMMA MatchIs ==
  ASSUME NEW segments, NEW method
  PROVE  MatchRouteNode(segments, method) = MatchIn(node_pool, segments, method)
BY Zenon DEF MatchRouteNode, MatchIn

\* And in the one after the next call.
LEMMA MatchIsNext ==
  ASSUME NEW segments, NEW method
  PROVE  MatchRouteNode(segments, method)' = MatchIn(node_pool', segments, method)
BY Zenon DEF MatchRouteNode, MatchIn

\* The answers exist.
LEMMA MatchRun ==
  ASSUME NEW P, NEW segments, Len(segments) \in Nat, NEW method
  PROVE  \E left : /\ LeftRun(P, segments, method, left)
                   /\ MatchIn(P, segments, method) = left[Len(segments)][1]
<1> DEFINE L == Len(segments)
           base == [n \in 1 .. Len(P) |-> Leaf(P[n], method)]
           c == <<P, segments>>
           f == Lefts!RecOf(base, c, L)
           left == LeftOf(P, segments, method)
<1>1. Lefts!RecBy(base, c, L, f)
  <2> HIDE DEF base, c
  <2> QED BY Lefts!RecExists
<1> HIDE DEF f
<1>2. f = [j \in 0 .. L |-> IF j = 0 THEN base ELSE LeftStep(f[j - 1], j, c)]
  BY <1>1 DEF Lefts!RecBy
<1>3. ASSUME NEW j \in 1 .. L
      PROVE  LeftStep(f[j - 1], j, c) =
               [n \in 1 .. Len(P) |-> NodeAnswer(P, n, segments[L - j + 1], f[j - 1])]
  <2>1. c[1] = P /\ c[2] = segments OBVIOUS
  <2> HIDE DEF c
  <2> QED BY <2>1 DEF LeftStep
<1>4. LeftBy(P, segments, method, f)
  <2> HIDE DEF c
  <2>1. ASSUME NEW j \in 0 .. L
        PROVE  (IF j = 0 THEN base ELSE LeftStep(f[j - 1], j, c)) =
               (IF j = 0 THEN [n \in 1 .. Len(P) |-> Leaf(P[n], method)]
                ELSE [n \in 1 .. Len(P) |-> NodeAnswer(P, n, segments[L - j + 1], f[j - 1])])
    <3>1. CASE j = 0 BY <3>1
    <3>2. CASE j # 0
      <4>1. j \in 1 .. L BY <3>2
      <4>2. LeftStep(f[j - 1], j, c) =
              [n \in 1 .. Len(P) |-> NodeAnswer(P, n, segments[L - j + 1], f[j - 1])]
        BY <1>3, <4>1
      <4> QED BY <3>2, <4>2
    <3> QED BY <3>1, <3>2
  <2>2. f = [j \in 0 .. L |->
               IF j = 0 THEN [n \in 1 .. Len(P) |-> Leaf(P[n], method)]
               ELSE [n \in 1 .. Len(P) |-> NodeAnswer(P, n, segments[L - j + 1], f[j - 1])]]
    BY <1>2, <2>1, Zenon
  <2> QED BY <2>2 DEF LeftBy
<1>5. LeftBy(P, segments, method, left) BY <1>4 DEF LeftOf
<1>6. MatchIn(P, segments, method) = left[L][1] BY Zenon DEF MatchIn, LeftOf, LeftBy
<1> HIDE DEF left
<1>7. LeftRun(P, segments, method, left)
  <2>1. ASSUME NEW j \in 0 .. L
        PROVE  left[j] = IF j = 0 THEN [n \in 1 .. Len(P) |-> Leaf(P[n], method)]
                         ELSE [n \in 1 .. Len(P) |->
                                 NodeAnswer(P, n, segments[L - j + 1], left[j - 1])]
    BY <1>5, Zenon DEF LeftBy
  <2>2. \A n \in 1 .. Len(P) : left[0][n] = Leaf(P[n], method)
    <3>1. 0 \in 0 .. L OBVIOUS
    <3>2. left[0] = [n \in 1 .. Len(P) |-> Leaf(P[n], method)] BY <2>1, <3>1
    <3> QED BY <3>2, Zenon
  <2>3. ASSUME NEW j \in 1 .. L, NEW n \in 1 .. Len(P)
        PROVE  left[j][n] = NodeAnswer(P, n, segments[L - j + 1], left[j - 1])
    <3>1. j \in 0 .. L /\ j # 0 OBVIOUS
    <3>2. left[j] = [m \in 1 .. Len(P) |-> NodeAnswer(P, m, segments[L - j + 1], left[j - 1])]
      BY <2>1, <3>1
    <3> QED BY <3>2, Zenon
  <2> QED BY <2>2, <2>3 DEF LeftRun
<1> QED BY <1>6, <1>7

MatchType == [handler : Int, params : Seq(Names)]

\* Child i of node n takes the segment and has an answer to the rest.
Hit(P, n, segment, below, i) ==
  /\ i \in DOMAIN P[n].children
  /\ Takes(P[P[n].children[i]], segment) /\ below[P[n].children[i]].handler # NoHandler

\* A node answers as one of its children does, or not at all.
LEMMA AnswerIs ==
  ASSUME NEW P \in Seq(NodeType), NEW n \in 1 .. Len(P), NEW segment, NEW below
  PROVE  \/ /\ NodeAnswer(P, n, segment, below) = NoMatch
            /\ \A i \in DOMAIN P[n].children : ~Hit(P, n, segment, below, i)
         \/ \E i \in DOMAIN P[n].children :
              /\ Hit(P, n, segment, below, i)
              /\ NodeAnswer(P, n, segment, below) =
                   Report(below[P[n].children[i]], P[P[n].children[i]], segment)
<1> DEFINE kids == P[n].children
           hits == {i \in DOMAIN kids : /\ Takes(P[kids[i]], segment)
                                        /\ below[kids[i]].handler # NoHandler}
           k == Min(hits)
<1>1. NodeAnswer(P, n, segment, below) =
        IF hits = {} THEN NoMatch ELSE Report(below[kids[k]], P[kids[k]], segment)
  BY Zenon DEF NodeAnswer
<1>2. hits \in SUBSET Nat /\ \A i \in hits : i \in DOMAIN kids /\ Hit(P, n, segment, below, i)
  BY NodeFacts DEF Hit
<1>3. CASE hits = {}
  <2>1. \A i \in DOMAIN kids : ~Hit(P, n, segment, below, i) BY <1>3 DEF Hit
  <2> QED BY <1>1, <1>3, <2>1
<1>4. CASE hits # {}
  <2> HIDE DEF hits
  <2>1. k \in hits BY <1>2, <1>4, MinIsLeast
  <2> HIDE DEF k
  <2> QED BY <1>1, <1>2, <1>4, <2>1
<1> QED BY <1>3, <1>4

\* Reporting a parameter changes no handler.
LEMMA ReportIs ==
  ASSUME NEW match \in MatchType, NEW child, NEW segment \in Names
  PROVE  /\ Report(match, child, segment) \in MatchType
         /\ Report(match, child, segment).handler = match.handler
         /\ Report(match, child, segment).params =
              IF child.is_param THEN <<segment>> \o match.params ELSE match.params
<1>1. match.params \in Seq(Names) BY DEF MatchType
<1>2. <<segment>> \in Seq(Names) OBVIOUS
<1>3. <<segment>> \o match.params \in Seq(Names) BY <1>1, <1>2, ConcatProperties
<1> QED BY <1>1, <1>3 DEF Report, MatchType

\* What a leaf answers.
LEMMA LeafIs ==
  ASSUME NEW node \in NodeType, NEW method
  PROVE  /\ Leaf(node, method) \in MatchType /\ Leaf(node, method).params = <<>>
         /\ Leaf(node, method).handler # NoHandler
              <=> node.handler # NoHandler /\ Accepts(node.method, method)
         /\ Leaf(node, method).handler # NoHandler => Leaf(node, method).handler = node.handler
<1>1. node.handler \in Int
  <2>1. node.handler \in Handlers \cup {NoHandler, BinaryHandler} BY DEF NodeType
  <2> QED BY <2>1, BoundAssumption DEF Handlers, NoHandler, BinaryHandler
<1>2. <<>> \in Seq(Names) BY EmptySeq
<1>3. CASE node.handler # NoHandler /\ Accepts(node.method, method)
  <2>1. Leaf(node, method) = [handler |-> node.handler, params |-> <<>>]
    BY <1>3 DEF Leaf, NoMatch
  <2> QED BY <1>1, <1>2, <1>3, <2>1 DEF MatchType
<1>4. CASE ~(node.handler # NoHandler /\ Accepts(node.method, method))
  <2>1. Leaf(node, method) = [handler |-> NoHandler, params |-> <<>>]
    BY <1>4 DEF Leaf, NoMatch
  <2> QED BY <1>2, <1>4, <2>1 DEF MatchType, NoHandler
<1> QED BY <1>3, <1>4

\* Every answer is a handler with parameters.
LEMMA LeftType ==
  ASSUME NEW P \in Seq(NodeType), ChildrenOK(P), NEW segments \in Seq(Names), NEW method,
         NEW left, LeftRun(P, segments, method, left)
  PROVE  \A j \in 0 .. Len(segments) : \A n \in 1 .. Len(P) : left[j][n] \in MatchType
<1> DEFINE L == Len(segments)
           K == {j \in 0 .. L : \A n \in 1 .. Len(P) : left[j][n] \in MatchType}
<1>1. L \in Nat /\ (\A i \in 1 .. L : segments[i] \in Names) /\ Len(P) \in Nat
      /\ \A n \in 1 .. Len(P) : P[n] \in NodeType
  BY LenProperties, ElementOfSeq
<1>2. 0 \in K
  <2>1. \A n \in 1 .. Len(P) : left[0][n] \in MatchType BY <1>1, LeafIs DEF LeftRun
  <2> QED BY <1>1, <2>1
<1>3. ASSUME NEW j \in 1 .. L, j - 1 \in K PROVE j \in K
  <2>1. ASSUME NEW n \in 1 .. Len(P) PROVE left[j][n] \in MatchType
    <3> DEFINE seg == segments[L - j + 1]
               below == left[j - 1]
    <3>1. left[j][n] = NodeAnswer(P, n, seg, below) BY DEF LeftRun
    <3>2. seg \in Names
      <4>1. L - j + 1 \in 1 .. L BY <1>1
      <4> QED BY <1>1, <4>1
    <3>3. \A m \in 1 .. Len(P) : below[m] \in MatchType BY <1>3
    <3> HIDE DEF seg, below
    <3>4. NoMatch \in MatchType
      <4>1. <<>> \in Seq(Names) BY EmptySeq
      <4> QED BY <4>1 DEF NoMatch, MatchType, NoHandler
    <3>5. ASSUME NEW i \in DOMAIN P[n].children
          PROVE  Report(below[P[n].children[i]], P[P[n].children[i]], seg) \in MatchType
      <4>1. P[n].children[i] \in n + 1 .. Len(P) BY DEF ChildrenOK
      <4>2. P[n].children[i] \in 1 .. Len(P) BY <1>1, <4>1
      <4>3. below[P[n].children[i]] \in MatchType BY <3>3, <4>2
      <4> QED BY <3>2, <4>3, ReportIs
    <3> QED BY <3>1, <3>4, <3>5, AnswerIs
  <2>2. j \in 0 .. L BY <1>1
  <2> QED BY <2>1, <2>2
<1> HIDE DEF K, L
<1>4. \A j \in 0 .. L : j \in K BY <1>1, <1>2, <1>3, Rounds
<1> QED BY <1>4 DEF K, L

\* The token x of a route takes the segment.
TokenTakes(x, segment) == x.param \/ x.name = segment

\* The values at the parameters of the tokens t, one token after the other.
ValueRun(g, t, segments) ==
  /\ g[0] = <<>>
  /\ \A k \in 1 .. Len(t) : g[k] = IF t[k].param THEN Append(g[k - 1], segments[k]) ELSE g[k - 1]

\* A node takes a segment just as its token does.
LEMMA TakesIs ==
  ASSUME NEW node, NEW segment
  PROVE  Takes(node, segment) <=> TokenTakes(Token(node), segment)
BY DEF Takes, TokenTakes, Token

\* The values are texts.
LEMMA ValueType ==
  ASSUME NEW g, NEW t, NEW segments \in Seq(Names), Len(t) = Len(segments), ValueRun(g, t, segments)
  PROVE  \A k \in 0 .. Len(segments) : g[k] \in Seq(Names)
<1>1. Len(segments) \in Nat /\ \A i \in 1 .. Len(segments) : segments[i] \in Names
  BY LenProperties, ElementOfSeq
<1>2. g[0] \in Seq(Names) BY EmptySeq DEF ValueRun
<1>3. ASSUME NEW k \in 1 .. Len(segments), g[k - 1] \in Seq(Names) PROVE g[k] \in Seq(Names)
  <2>1. Append(g[k - 1], segments[k]) \in Seq(Names) BY <1>1, <1>3, AppendProperties
  <2>2. g[k] \in {g[k - 1], Append(g[k - 1], segments[k])} BY DEF ValueRun
  <2> QED BY <1>3, <2>1, <2>2
<1> QED BY <1>1, <1>2, <1>3, RoundsType

\* A value moves from the front of the rest to the end of what is before it.
LEMMA MoveValue ==
  ASSUME NEW a \in Seq(Names), NEW x \in Names, NEW b \in Seq(Names)
  PROVE  a \o (<<x>> \o b) = Append(a, x) \o b
<1>1. <<x>> \in Seq(Names) /\ Append(a, x) \in Seq(Names) BY AppendProperties
<1>2. Append(a, x) = a \o <<x>> BY <1>1, AppendIsConcat
<1>3. (a \o <<x>>) \o b = a \o (<<x>> \o b) BY <1>1, ConcatAssociative
<1> QED BY <1>2, <1>3

\* What the answer of node n to the last j segments means: it is that of a node m
\* below, which takes them all.
Means(P, sp, segments, method, answer, n, j, m) ==
  LET L == Len(segments) IN
  /\ Len(sp[m]) = L /\ P[m].handler = answer.handler /\ Accepts(P[m].method, method)
  /\ \A i \in 1 .. L - j : sp[m][i] = sp[n][i]
  /\ \A i \in L - j + 1 .. L : TokenTakes(sp[m][i], segments[i])
  /\ \A g : ValueRun(g, sp[m], segments) => g[L - j] \o answer.params = g[L]

\* The answers of a trie are those of its routes.
LEMMA AnswersMean ==
  ASSUME NEW P, NEW size, TreeOK(P, size), NEW sp, Spelled(P, sp), NEW segments \in Seq(Names),
         NEW method, NEW left, LeftRun(P, segments, method, left)
  PROVE  \A j \in 0 .. Len(segments) : \A n \in 1 .. Len(P) :
           Len(sp[n]) = Len(segments) - j /\ left[j][n].handler # NoHandler
             => \E m \in 1 .. Len(P) : Means(P, sp, segments, method, left[j][n], n, j, m)
<1> DEFINE L == Len(segments)
           Good(j) == \A n \in 1 .. Len(P) :
             Len(sp[n]) = L - j /\ left[j][n].handler # NoHandler
               => \E m \in 1 .. Len(P) : Means(P, sp, segments, method, left[j][n], n, j, m)
           K == {j \in 0 .. L : Good(j)}
<1>1. L \in Nat /\ (\A i \in 1 .. L : segments[i] \in Names) BY LenProperties, ElementOfSeq
<1>2. P \in Seq(NodeType) /\ Len(P) \in Nat /\ ChildrenOK(P) BY LenProperties DEF TreeOK
<1>3. \A n \in 1 .. Len(P) : /\ sp[n] \in Seq(TokenType) /\ Len(sp[n]) \in Nat
                             /\ P[n] \in NodeType /\ Token(P[n]) \in TokenType
  BY SpelledFacts
<1>4. \A j \in 0 .. L : \A n \in 1 .. Len(P) : left[j][n] \in MatchType BY <1>2, LeftType
<1>5. ASSUME NEW m \in 1 .. Len(P), Len(sp[m]) = L, NEW g, ValueRun(g, sp[m], segments),
             NEW k \in 0 .. L
      PROVE  g[k] \in Seq(Names)
  BY <1>5, ValueType
<1>6. Good(0)
  <2> SUFFICES ASSUME NEW n \in 1 .. Len(P), Len(sp[n]) = L, left[0][n].handler # NoHandler
               PROVE  Means(P, sp, segments, method, left[0][n], n, 0, n)
    BY <1>1
  <2>1. left[0][n] = Leaf(P[n], method) BY DEF LeftRun
  <2>2. /\ left[0][n].params = <<>> /\ Accepts(P[n].method, method)
        /\ left[0][n].handler = P[n].handler
    BY <1>3, <2>1, LeafIs
  <2>3. ASSUME NEW g, ValueRun(g, sp[n], segments) PROVE g[L - 0] \o left[0][n].params = g[L]
    <3>1. g[L] \in Seq(Names) BY <1>1, <1>5, <2>3
    <3>2. L - 0 = L BY <1>1
    <3> QED BY <2>2, <3>1, <3>2, ConcatEmptySeq
  <2>4. \A i \in L - 0 + 1 .. L : TokenTakes(sp[n][i], segments[i]) BY <1>1
  <2> QED BY <2>2, <2>3, <2>4 DEF Means
<1>7. ASSUME NEW j \in 1 .. L, Good(j - 1) PROVE Good(j)
  <2> SUFFICES ASSUME NEW n \in 1 .. Len(P), Len(sp[n]) = L - j, left[j][n].handler # NoHandler
               PROVE  \E m \in 1 .. Len(P) : Means(P, sp, segments, method, left[j][n], n, j, m)
    OBVIOUS
  <2> DEFINE k == L - j + 1
             seg == segments[k]
             below == left[j - 1]
             ans == left[j][n]
  <2>1. k \in 1 .. L /\ k \in Nat /\ j - 1 \in 0 .. L /\ L - (j - 1) = k /\ L - j = k - 1
        /\ k - 1 \in 0 .. L /\ k \in 0 .. L
    BY <1>1
  <2>2. ans = NodeAnswer(P, n, seg, below) BY DEF LeftRun
  <2>3. seg \in Names BY <1>1, <2>1
  <2>4. ans.handler # NoHandler OBVIOUS
  <2>6. \A m \in 1 .. Len(P) : Len(sp[m]) = k /\ below[m].handler # NoHandler
          => \E q \in 1 .. Len(P) : Means(P, sp, segments, method, below[m], m, j - 1, q)
    BY <1>7, <2>1
  <2>7. Len(sp[n]) = k - 1 BY <2>1
  <2> HIDE DEF Good, L, k, seg, below, ans
  <2>8. PICK i \in DOMAIN P[n].children :
          /\ Hit(P, n, seg, below, i)
          /\ ans = Report(below[P[n].children[i]], P[P[n].children[i]], seg)
    <3>1. NoMatch.handler = NoHandler BY DEF NoMatch
    <3> QED BY <1>2, <2>2, <2>4, <3>1, AnswerIs
  <2> DEFINE c == P[n].children[i]
  <2>9. c \in 1 .. Len(P) /\ sp[c] = Append(sp[n], Token(P[c]))
    <3>1. c \in n + 1 .. Len(P) BY <1>2 DEF ChildrenOK
    <3>2. sp[c] = Append(sp[n], Token(P[c])) BY DEF Spelled
    <3> HIDE DEF c
    <3> QED BY <1>2, <3>1, <3>2
  <2>10. Takes(P[c], seg) /\ below[c].handler # NoHandler BY <2>8 DEF Hit
  <2>11. ans = Report(below[c], P[c], seg) BY <2>8
  <2> HIDE DEF c
  <2>12. /\ Len(sp[c]) = k /\ (\A h \in 1 .. k - 1 : sp[c][h] = sp[n][h]) /\ sp[c][k] = Token(P[c])
    <3>1. /\ Len(sp[c]) = Len(sp[n]) + 1 /\ (\A h \in 1 .. Len(sp[n]) : sp[c][h] = sp[n][h])
          /\ sp[c][Len(sp[n]) + 1] = Token(P[c])
      BY <1>3, <2>9, SpellOn
    <3> QED BY <2>1, <2>7, <3>1
  <2>13. PICK m \in 1 .. Len(P) : Means(P, sp, segments, method, below[c], c, j - 1, m)
    BY <2>6, <2>9, <2>10, <2>12
  <2>14. /\ Len(sp[m]) = L /\ P[m].handler = below[c].handler /\ Accepts(P[m].method, method)
         /\ \A h \in 1 .. k : sp[m][h] = sp[c][h]
         /\ \A h \in k + 1 .. L : TokenTakes(sp[m][h], segments[h])
         /\ \A g : ValueRun(g, sp[m], segments) => g[k] \o below[c].params = g[L]
    BY <2>1, <2>13 DEF Means, L
  <2>15. /\ below[c] \in MatchType BY <1>4, <2>1, <2>9 DEF below
  <2>16. /\ ans.handler = below[c].handler
         /\ ans.params = IF P[c].is_param THEN <<seg>> \o below[c].params ELSE below[c].params
    BY <2>3, <2>11, <2>15, ReportIs
  <2>17. below[c].params \in Seq(Names) BY <2>15 DEF MatchType
  <2>18. sp[m][k] = Token(P[c]) /\ \A h \in 1 .. k - 1 : sp[m][h] = sp[n][h]
    BY <2>1, <2>12, <2>14
  <2>19. TokenTakes(sp[m][k], segments[k]) BY <2>10, <2>18, TakesIs DEF seg
  <2>20. ASSUME NEW g, ValueRun(g, sp[m], segments) PROVE g[k - 1] \o ans.params = g[L]
    <3>1. g[k - 1] \in Seq(Names) BY <1>5, <2>1, <2>14, <2>20 DEF L
    <3>2. g[k] = IF sp[m][k].param THEN Append(g[k - 1], segments[k]) ELSE g[k - 1]
      BY <2>1, <2>14, <2>20 DEF ValueRun
    <3>3. g[k] \o below[c].params = g[L] BY <2>14, <2>20
    <3>4. sp[m][k].param = P[c].is_param BY <2>18 DEF Token
    <3>5. CASE P[c].is_param
      <4>1. g[k] = Append(g[k - 1], seg) /\ ans.params = <<seg>> \o below[c].params
        BY <2>16, <3>2, <3>4, <3>5 DEF seg
      <4>2. g[k - 1] \o (<<seg>> \o below[c].params) = Append(g[k - 1], seg) \o below[c].params
        BY <2>3, <2>17, <3>1, MoveValue
      <4> QED BY <3>3, <4>1, <4>2
    <3>6. CASE ~P[c].is_param BY <2>16, <3>2, <3>3, <3>4, <3>6
    <3> QED BY <3>5, <3>6
  <2>21. \A h \in k .. L : TokenTakes(sp[m][h], segments[h])
    <3>1. \A h \in k .. L : h = k \/ h \in k + 1 .. L BY <1>1, <2>1
    <3> QED BY <2>14, <2>19, <3>1
  <2>22. L - j + 1 = k BY DEF k
  <2>23. Means(P, sp, segments, method, ans, n, j, m)
    BY <2>1, <2>14, <2>16, <2>18, <2>20, <2>21, <2>22 DEF Means, L
  <2> QED BY <2>23 DEF ans
<1>8. 0 \in K BY <1>1, <1>6
<1>9. ASSUME NEW j \in 1 .. L, j - 1 \in K PROVE j \in K
  <2>1. Good(j - 1) /\ j \in 0 .. L BY <1>1, <1>9
  <2>2. Good(j) BY <1>7, <2>1
  <2> QED BY <2>1, <2>2
<1> HIDE DEF K
<1>10. \A j \in 0 .. L : j \in K BY <1>1, <1>8, <1>9, Rounds
<1>11. \A j \in 0 .. L : Good(j) BY <1>10 DEF K
<1> QED BY <1>11

\* Node m is the end of a route that takes all segments.
Accepting(P, sp, segments, method, m) ==
  /\ Len(sp[m]) = Len(segments) /\ P[m].handler # NoHandler /\ Accepts(P[m].method, method)
  /\ \A i \in 1 .. Len(segments) : TokenTakes(sp[m][i], segments[i])

\* A route that takes the segments is found, if not its own way then another.
LEMMA AnswersFind ==
  ASSUME NEW P, NEW size, TreeOK(P, size), NEW sp, Spelled(P, sp), NEW segments \in Seq(Names),
         NEW method, NEW left, LeftRun(P, segments, method, left),
         NEW m \in 1 .. Len(P), Accepting(P, sp, segments, method, m)
  PROVE  left[Len(segments)][1].handler # NoHandler
<1> DEFINE L == Len(segments)
           Good(j) == \E n \in 1 .. Len(P) :
             /\ Len(sp[n]) = L - j /\ left[j][n].handler # NoHandler
             /\ \A i \in 1 .. L - j : sp[n][i] = sp[m][i]
           K == {j \in 0 .. L : Good(j)}
<1>1. L \in Nat /\ (\A i \in 1 .. L : segments[i] \in Names) BY LenProperties, ElementOfSeq
<1>2. P \in Seq(NodeType) /\ Len(P) \in Nat /\ ChildrenOK(P) BY LenProperties DEF TreeOK
<1>3. \A n \in 1 .. Len(P) : /\ sp[n] \in Seq(TokenType) /\ Len(sp[n]) \in Nat
                             /\ P[n] \in NodeType /\ Token(P[n]) \in TokenType
  BY SpelledFacts
<1>4. \A j \in 0 .. L : \A n \in 1 .. Len(P) : left[j][n] \in MatchType BY <1>2, LeftType
<1>5. /\ Len(sp[m]) = L /\ P[m].handler # NoHandler /\ Accepts(P[m].method, method)
      /\ \A i \in 1 .. L : TokenTakes(sp[m][i], segments[i])
  BY DEF Accepting
<1>6. Good(0)
  <2>1. left[0][m] = Leaf(P[m], method) BY DEF LeftRun
  <2>2. left[0][m].handler # NoHandler BY <1>3, <1>5, <2>1, LeafIs
  <2>3. L - 0 = L BY <1>1
  <2> QED BY <1>5, <2>2, <2>3
<1>7. ASSUME NEW j \in 1 .. L, Good(j - 1) PROVE Good(j)
  <2> DEFINE k == L - j + 1
             seg == segments[k]
             below == left[j - 1]
  <2>1. k \in 1 .. L /\ k \in Nat /\ j - 1 \in 0 .. L /\ j \in 0 .. L /\ L - (j - 1) = k
        /\ L - j = k - 1
    BY <1>1
  <2>2. PICK c \in 1 .. Len(P) : /\ Len(sp[c]) = k /\ below[c].handler # NoHandler
                                 /\ \A i \in 1 .. k : sp[c][i] = sp[m][i]
    BY <1>7, <2>1
  <2>3. c # 1
    <3>1. Len(sp[1]) = 0 BY DEF Spelled
    <3> QED BY <2>1, <2>2, <3>1
  <2>4. PICK n \in 1 .. Len(P) : \E i \in DOMAIN P[n].children : P[n].children[i] = c
    <3>1. c \in 2 .. Len(P) BY <1>2, <2>3
    <3>2. OneParent(P, c) BY <3>1 DEF TreeOK
    <3> QED BY <3>2 DEF OneParent
  <2>5. PICK i \in DOMAIN P[n].children : P[n].children[i] = c BY <2>4
  <2>6. sp[c] = Append(sp[n], Token(P[c])) BY <2>5 DEF Spelled
  <2>7. /\ Len(sp[c]) = Len(sp[n]) + 1 /\ (\A h \in 1 .. Len(sp[n]) : sp[c][h] = sp[n][h])
        /\ sp[c][Len(sp[n]) + 1] = Token(P[c])
    BY <1>3, <2>6, SpellOn
  <2>8. Len(sp[n]) = k - 1 /\ (\A h \in 1 .. k - 1 : sp[n][h] = sp[m][h]) /\ sp[m][k] = Token(P[c])
    <3>0. \A a, b \in Nat : b = a + 1 => a = b - 1 OBVIOUS
    <3>1. Len(sp[n]) \in Nat /\ Len(sp[n]) = k - 1
      <4> HIDE DEF k
      <4> QED BY <1>3, <2>1, <2>2, <2>7, <3>0
    <3>2. \A h \in 1 .. k - 1 : h \in 1 .. k BY <2>1
    <3>3. \A h \in 1 .. k - 1 : sp[n][h] = sp[m][h] BY <2>2, <2>7, <3>1, <3>2
    <3>4. Len(sp[n]) + 1 = k /\ k \in 1 .. k BY <2>1, <3>1
    <3> QED BY <2>2, <2>7, <3>1, <3>3, <3>4
  <2>9. Takes(P[c], seg) BY <1>5, <2>1, <2>8, TakesIs
  <2>10. Hit(P, n, seg, below, i) BY <2>2, <2>5, <2>9 DEF Hit
  <2>11. left[j][n] = NodeAnswer(P, n, seg, below) BY DEF LeftRun
  <2>12. seg \in Names BY <1>1, <2>1
  <2>13. \A q \in 1 .. Len(P) : below[q] \in MatchType BY <1>4, <2>1
  <2> HIDE DEF Good, L, k, seg, below
  <2>14. PICK h \in DOMAIN P[n].children :
           /\ Hit(P, n, seg, below, h)
           /\ NodeAnswer(P, n, seg, below) =
                Report(below[P[n].children[h]], P[P[n].children[h]], seg)
    BY <1>2, <2>10, AnswerIs
  <2>15. P[n].children[h] \in 1 .. Len(P)
    <3>1. P[n].children[h] \in n + 1 .. Len(P) BY <1>2 DEF ChildrenOK
    <3> QED BY <1>2, <3>1
  <2>16. left[j][n].handler # NoHandler
    <3>1. below[P[n].children[h]].handler # NoHandler BY <2>14 DEF Hit
    <3>2. below[P[n].children[h]] \in MatchType BY <2>13, <2>15
    <3>3. Report(below[P[n].children[h]], P[P[n].children[h]], seg).handler =
            below[P[n].children[h]].handler
      BY <2>12, <3>2, ReportIs
    <3> QED BY <2>11, <2>14, <3>1, <3>3
  <2> QED BY <2>1, <2>8, <2>16 DEF Good
<1>8. 0 \in K BY <1>1, <1>6
<1>9. ASSUME NEW j \in 1 .. L, j - 1 \in K PROVE j \in K
  <2> HIDE DEF Good
  <2>1. Good(j - 1) BY <1>9
  <2>2. Good(j) BY <1>7, <2>1
  <2>3. j \in 0 .. L BY <1>1
  <2> QED BY <2>2, <2>3
<1> HIDE DEF K
<1>10. \A j \in 0 .. L : j \in K BY <1>1, <1>8, <1>9, Rounds
<1>11. Good(L) BY <1>1, <1>10 DEF K
<1>12. PICK n \in 1 .. Len(P) : Len(sp[n]) = 0 /\ left[L][n].handler # NoHandler BY <1>1, <1>11
<1>13. n = 1
  <2> SUFFICES ASSUME n # 1 PROVE FALSE OBVIOUS
  <2>1. n \in 2 .. Len(P) BY <1>2
  <2>2. OneParent(P, n) BY <2>1 DEF TreeOK
  <2>3. PICK q \in 1 .. Len(P) : \E i \in DOMAIN P[q].children : P[q].children[i] = n
    BY <2>2 DEF OneParent
  <2>4. sp[n] = Append(sp[q], Token(P[n])) BY <2>3 DEF Spelled
  <2>5. Len(sp[n]) = Len(sp[q]) + 1 /\ Len(sp[q]) \in Nat BY <1>3, <2>4, SpellOn
  <2> QED BY <1>12, <2>5
<1> QED BY <1>12, <1>13

ValueStep(vs, x, c) == IF x[1].param THEN Append(vs, x[2]) ELSE vs
Valued == INSTANCE SumFacts WITH FoldOp <- ValueStep

\* The values at the parameters are collected one after the other.
LEMMA ValuesRun ==
  ASSUME NEW t, NEW segments, Len(t) \in Nat, DOMAIN t = 1 .. Len(t)
  PROVE  \E g : ValueRun(g, t, segments) /\ Values(t, segments) = g[Len(t)]
<1> DEFINE s == [k \in DOMAIN t |-> <<t[k], segments[k]>>]
<1>1. s \in Seq({<<t[k], segments[k]>> : k \in 1 .. Len(t)}) /\ Len(s) = Len(t)
      /\ DOMAIN s = 1 .. Len(s)
  OBVIOUS
<1>2. \A k \in 1 .. Len(t) : s[k] = <<t[k], segments[k]>> OBVIOUS
<1>3. Values(t, segments) = Valued!Folded(<<>>, s, 0)
  BY Zenon DEF Values, FoldLeft, Valued!Folded, MapThenFoldSet, Valued!MapThenFoldSet, Max,
               Valued!Max, ValueStep
<1> HIDE DEF s
<1>4. PICK g : Valued!IsRun(g, <<>>, s, 0) /\ Valued!Folded(<<>>, s, 0) = g[Len(s)]
  BY <1>1, Valued!FoldRuns
<1>5. \A k \in 1 .. Len(t) : g[k] = ValueStep(g[k - 1], s[k], 0)
  BY <1>1, <1>4 DEF Valued!IsRun
<1>6. \A k \in 1 .. Len(t) : g[k] = IF t[k].param THEN Append(g[k - 1], segments[k]) ELSE g[k - 1]
  BY <1>2, <1>5 DEF ValueStep
<1>7. g[0] = <<>> BY <1>4 DEF Valued!IsRun
<1>8. ValueRun(g, t, segments) BY <1>6, <1>7 DEF ValueRun
<1> QED BY <1>1, <1>3, <1>4, <1>8

\* What it means that a route fits, by its tokens.
LEMMA FitsIs ==
  ASSUME NEW r \in Route, NEW path \in RequestPaths, NEW method
  PROVE  Fits(r, path, method) <=>
           /\ Accepts(r.method, method) /\ Len(RouteTokens(r.path)) = Len(Tokens(path))
           /\ \A i \in 1 .. Len(Tokens(path)) : TokenTakes(RouteTokens(r.path)[i], Tokens(path)[i])
<1>1. r.path \in RoutePaths BY DEF Route
<1>2. DOMAIN RouteTokens(r.path) = 1 .. Len(RouteTokens(r.path)) BY <1>1, RouteTokensType
<1> QED BY <1>2 DEF Fits, TokenTakes

\* Every route has a handler.
LEMMA RouteHandler ==
  ASSUME NEW r \in Route
  PROVE  r.handler # NoHandler
<1>1. r.handler \in Handlers \cup {BinaryHandler} BY DEF Route
<1> QED BY <1>1, BoundAssumption DEF Handlers, BinaryHandler, NoHandler

\* A trie that holds the routes A answers with a route that fits, if there is one.
LEMMA FiledFinds ==
  ASSUME NEW P, NEW size, TreeOK(P, size), NEW A \in SUBSET Route, NEW G, Filed(P, A, G),
         NEW path \in RequestPaths, NEW method
  PROVE  /\ MatchIn(P, Tokens(path), method).handler # NoHandler
              => \E r \in A :
                   /\ r.handler = MatchIn(P, Tokens(path), method).handler
                   /\ Fits(r, path, method)
                   /\ MatchIn(P, Tokens(path), method).params =
                        Values(RouteTokens(r.path), Tokens(path))
         /\ \A r \in A : Fits(r, path, method)
              => MatchIn(P, Tokens(path), method).handler # NoHandler
<1> DEFINE segments == Tokens(path)
           L == Len(segments)
           answer == MatchIn(P, segments, method)
<1>1. segments \in Seq(Names) /\ L \in Nat BY TokensType
<1>2. PICK sp : Spelled(P, sp) /\ Known(P, sp, A, G) BY DEF Filed
<1>3. P \in Seq(NodeType) /\ Len(P) \in Nat /\ Len(P) >= 1 /\ ChildrenOK(P) BY LenProperties DEF TreeOK
<1> HIDE DEF segments, L, answer
<1>4. PICK left : LeftRun(P, segments, method, left) /\ answer = left[L][1]
  BY <1>1, MatchRun DEF answer, L
<1>5. ASSUME answer.handler # NoHandler
      PROVE  \E r \in A : /\ r.handler = answer.handler /\ Fits(r, path, method)
                          /\ answer.params = Values(RouteTokens(r.path), segments)
  <2>1. Len(sp[1]) = L - L BY <1>1, <1>2 DEF Spelled
  <2>2. L \in 0 .. L /\ 1 \in 1 .. Len(P) BY <1>1, <1>3
  <2>3. PICK m \in 1 .. Len(P) : Means(P, sp, segments, method, answer, 1, L, m)
    BY <1>1, <1>2, <1>4, <1>5, <2>1, <2>2, AnswersMean DEF L
  <2>4. /\ Len(sp[m]) = L /\ P[m].handler = answer.handler /\ Accepts(P[m].method, method)
        /\ \A i \in L - L + 1 .. L : TokenTakes(sp[m][i], segments[i])
        /\ \A g : ValueRun(g, sp[m], segments) => g[L - L] \o answer.params = g[L]
    BY <2>3 DEF Means, L
  <2>5. PICK r \in A : Holds(P, sp, m, r) BY <1>2, <1>5, <2>4 DEF Known
  <2>6. /\ sp[m] = RouteTokens(r.path) /\ r.handler = answer.handler /\ P[m].method = r.method
    BY <2>4, <2>5 DEF Holds
  <2>7. L - L + 1 = 1 /\ L - L = 0 BY <1>1
  <2>8. Fits(r, path, method) BY <2>4, <2>6, <2>7, FitsIs DEF L, segments
  <2>9. /\ Len(sp[m]) \in Nat /\ DOMAIN sp[m] = 1 .. Len(sp[m])
    <3>1. sp[m] \in Seq(TokenType) BY <1>2, SpelledFacts
    <3> QED BY <3>1, LenProperties
  <2>10. PICK g : ValueRun(g, sp[m], segments) /\ Values(sp[m], segments) = g[Len(sp[m])]
    BY <2>9, ValuesRun
  <2>11. g[0] \o answer.params = g[L] /\ g[0] = <<>> BY <2>4, <2>7, <2>10 DEF ValueRun
  <2>12. answer.params \in Seq(Names)
    <3>1. answer \in MatchType BY <1>1, <1>3, <1>4, <2>2, LeftType DEF L
    <3> QED BY <3>1 DEF MatchType
  <2>13. answer.params = g[L] BY <2>11, <2>12, ConcatEmptySeq
  <2> QED BY <2>4, <2>6, <2>8, <2>10, <2>13
<1>6. ASSUME NEW r \in A, Fits(r, path, method) PROVE answer.handler # NoHandler
  <2>1. PICK m \in 1 .. Len(P) : Holds(P, sp, m, r) BY <1>2 DEF Known
  <2>2. Accepting(P, sp, segments, method, m)
    <3>1. sp[m] = RouteTokens(r.path) /\ P[m].handler = r.handler /\ P[m].method = r.method
      BY <2>1 DEF Holds
    <3>2. r.handler # NoHandler BY RouteHandler
    <3>3. /\ Accepts(r.method, method) /\ Len(RouteTokens(r.path)) = Len(segments)
          /\ \A i \in 1 .. Len(segments) : TokenTakes(RouteTokens(r.path)[i], segments[i])
      BY <1>6, FitsIs DEF segments
    <3> QED BY <3>1, <3>2, <3>3 DEF Accepting
  <2> QED BY <1>1, <1>2, <1>4, <2>2, AnswersFind DEF L
<1> QED BY <1>5, <1>6 DEF answer, segments

-----------------------------------------------------------------------------
(* Lookup in the array.                                                    *)

\* The entries of an array that answer a request.
ArrayHits(s, path, method) ==
  {i \in 1 .. Len(s) : Accepts(s[i].method, method) /\ Plain(s[i].path) = path}

\* The lookup in any array.
FindArrayIn(s, mem, path, method) ==
  LET i == SelectInSeq(s, LAMBDA r : Accepts(r.method, method) /\ Plain(r.path) = path)
  IN  IF mem = "freed" THEN Undefined
      ELSE IF i = 0 THEN NoHandler ELSE s[i].handler

\* It is the lookup in the array of the router, before a call and after it.
LEMMA FindArrayIs ==
  ASSUME NEW path, NEW method
  PROVE  /\ FindArrayRoute(path, method) = FindArrayIn(array_routes, array_mem, path, method)
         /\ FindArrayRoute(path, method)' = FindArrayIn(array_routes', array_mem', path, method)
<1>1. FindArrayRoute(path, method) = FindArrayIn(array_routes, array_mem, path, method)
  BY Zenon DEF FindArrayRoute, FindArrayIn
<1>2. FindArrayRoute(path, method)' = FindArrayIn(array_routes', array_mem', path, method)
  BY Zenon DEF FindArrayRoute, FindArrayIn, SelectInSeq
<1> QED BY <1>1, <1>2

\* The first entry that answers is found.
LEMMA FindArrayFirst ==
  ASSUME NEW s \in Seq(Route), NEW mem, mem # "freed", NEW path, NEW method
  PROVE  IF ArrayHits(s, path, method) = {} THEN FindArrayIn(s, mem, path, method) = NoHandler
         ELSE FindArrayIn(s, mem, path, method) = s[Min(ArrayHits(s, path, method))].handler
<1> DEFINE I == {i \in 1 .. Len(s) : Accepts(s[i].method, method) /\ Plain(s[i].path) = path}
           i == SelectInSeq(s, LAMBDA r : Accepts(r.method, method) /\ Plain(r.path) = path)
<1>1. I = ArrayHits(s, path, method) BY DEF ArrayHits
<1>2. i = IF I = {} THEN 0 ELSE Min(I) BY Zenon DEF SelectInSeq
<1>3. FindArrayIn(s, mem, path, method) = IF i = 0 THEN NoHandler ELSE s[i].handler
  BY Zenon DEF FindArrayIn
<1>4. I \in SUBSET (Nat \ {0})
  <2>1. Len(s) \in Nat BY LenProperties
  <2> QED BY <2>1
<1> HIDE DEF i, I
<1>5. I # {} => Min(I) # 0
  <2>1. I \in SUBSET Nat BY <1>4
  <2>2. I # {} => Min(I) \in I BY <2>1, MinIsLeast
  <2> QED BY <1>4, <2>2
<1> QED BY <1>1, <1>2, <1>3, <1>5

\* The texts of a path.
LEMMA PlainIs ==
  ASSUME NEW p \in RoutePaths
  PROVE  /\ DOMAIN p = 1 .. Len(p) /\ DOMAIN Plain(p) = 1 .. Len(p) /\ Len(p) \in Nat /\ Len(p) >= 1
         /\ \A i \in 1 .. Len(p) : Plain(p)[i] = p[i].name /\ p[i] \in TokenType
         /\ \A q \in Seq(Names) : Plain(p) = q <=>
              Len(p) = Len(q) /\ \A i \in 1 .. Len(p) : p[i].name = q[i]
<1>1. p \in Seq(TokenType) /\ p # <<>> BY RouteTokensType, PathAssumption
<1>2. DOMAIN p = 1 .. Len(p) /\ Len(p) \in Nat /\ \A i \in 1 .. Len(p) : p[i] \in TokenType
  BY <1>1, LenProperties, ElementOfSeq
<1>3. Len(p) # 0 BY <1>1, EmptySeq
<1>4. Plain(p) = [i \in 1 .. Len(p) |-> p[i].name] BY <1>2 DEF Plain
<1>5. ASSUME NEW q \in Seq(Names)
      PROVE  Plain(p) = q <=> Len(p) = Len(q) /\ \A i \in 1 .. Len(p) : p[i].name = q[i]
  <2>1. q = [i \in 1 .. Len(q) |-> q[i]] /\ Len(q) \in Nat /\ DOMAIN q = 1 .. Len(q)
    BY LenProperties
  <2>2. ASSUME Plain(p) = q PROVE Len(p) = Len(q) /\ \A i \in 1 .. Len(p) : p[i].name = q[i]
    <3>1. 1 .. Len(p) = 1 .. Len(q) BY <1>4, <2>1, <2>2
    <3>2. Len(p) = Len(q)
      <4>1. \A a, b \in Nat : 1 .. a = 1 .. b => a = b
        <5> SUFFICES ASSUME NEW a \in Nat, NEW b \in Nat, 1 .. a = 1 .. b PROVE a = b OBVIOUS
        <5>1. \A x \in Nat : (x >= 1 /\ x <= a) <=> (x >= 1 /\ x <= b)
          <6>1. \A x \in Nat : x \in 1 .. a <=> x \in 1 .. b OBVIOUS
          <6> QED BY <6>1
        <5> QED BY <5>1
      <4> QED BY <1>2, <2>1, <3>1, <4>1
    <3> QED BY <1>4, <2>2, <3>2
  <2>3. ASSUME Len(p) = Len(q), \A i \in 1 .. Len(p) : p[i].name = q[i] PROVE Plain(p) = q
    BY <1>4, <2>1, <2>3
  <2> QED BY <2>2, <2>3
<1> QED BY <1>2, <1>3, <1>4, <1>5

\* A literal route fits the requests for its very path.
LEMMA LiteralFits ==
  ASSUME NEW r \in Route, Clean(r.path), ~HasParams(r.path), NEW path \in RequestPaths,
         CleanRequest(path), NEW method
  PROVE  Fits(r, path, method) <=> Accepts(r.method, method) /\ Plain(r.path) = path
<1> DEFINE p == r.path
           t == RouteTokens(p)
           q == Tokens(path)
<1>1. p \in RoutePaths BY DEF Route
<1>2. /\ DOMAIN p = 1 .. Len(p) /\ Len(p) \in Nat /\ Len(p) >= 1
      /\ Plain(p) = path <=> Len(p) = Len(path) /\ \A i \in 1 .. Len(p) : p[i].name = path[i]
  <2>1. path \in Seq(Names) BY TokensType
  <2> QED BY <1>1, <2>1, PlainIs
<1>3. \A i \in 1 .. Len(p) : ~p[i].param BY <1>2 DEF HasParams
<1>4. Len(path) \in Nat /\ Len(path) >= 1
  <2>1. path \in Seq(Names) /\ path # <<>> BY PathAssumption
  <2> QED BY <2>1, LenProperties, EmptySeq
<1>5. \/ p = Slash /\ t = <<>>
      \/ t = p /\ \A i \in 1 .. Len(p) : p[i].name # NoText
  BY <1>1, CleanIs
<1>6. \/ path = <<NoText>> /\ q = <<>>
      \/ q = path /\ \A i \in 1 .. Len(path) : path[i] # NoText
  BY CleanRequestIs
<1>7. Fits(r, path, method) <=> /\ Accepts(r.method, method) /\ Len(t) = Len(q)
                                /\ \A i \in 1 .. Len(q) : TokenTakes(t[i], q[i])
  BY FitsIs
<1> HIDE DEF p, t, q
<1>8. SUFFICES (Len(t) = Len(q) /\ \A i \in 1 .. Len(q) : TokenTakes(t[i], q[i]))
                 <=> Plain(p) = path
  BY <1>7 DEF p
<1>9. Len(<<>>) = 0 OBVIOUS
<1>10. 1 \in 1 .. Len(p) /\ 1 \in 1 .. Len(path) BY <1>2, <1>4
<1>11. Len(Slash) = 1 /\ Slash[1].name = NoText BY DEF Slash
<1>12. Len(<<NoText>>) = 1 /\ <<NoText>>[1] = NoText OBVIOUS
<1>13. CASE p = Slash /\ t = <<>> /\ path = <<NoText>> /\ q = <<>>
  <2>1. Len(p) = 1 /\ p[1].name = NoText /\ Len(path) = 1 /\ path[1] = NoText BY <1>11, <1>12, <1>13
  <2>2. \A i \in 1 .. 1 : i = 1 OBVIOUS
  <2>3. Plain(p) = path BY <1>2, <2>1, <2>2
  <2>4. Len(t) = 0 /\ Len(q) = 0 BY <1>9, <1>13
  <2>5. \A i \in 1 .. 0 : FALSE OBVIOUS
  <2> QED BY <2>3, <2>4, <2>5
<1>14. CASE p = Slash /\ t = <<>> /\ q = path /\ \A i \in 1 .. Len(path) : path[i] # NoText
  <2>1. Len(t) # Len(q) BY <1>4, <1>9, <1>14
  <2>2. p[1].name # path[1] BY <1>10, <1>11, <1>14
  <2> QED BY <1>2, <1>10, <2>1, <2>2
<1>15. CASE t = p /\ (\A i \in 1 .. Len(p) : p[i].name # NoText) /\ path = <<NoText>> /\ q = <<>>
  <2>1. Len(t) # Len(q) BY <1>2, <1>9, <1>15
  <2>2. p[1].name # path[1] BY <1>10, <1>12, <1>15
  <2> QED BY <1>2, <1>10, <2>1, <2>2
<1>16. CASE t = p /\ q = path
  <2>1. \A i \in 1 .. Len(p) : TokenTakes(p[i], path[i]) <=> p[i].name = path[i]
    BY <1>3 DEF TokenTakes
  <2> QED BY <1>2, <1>16, <2>1
<1> QED BY <1>5, <1>6, <1>13, <1>14, <1>15, <1>16

\* A request that a clean literal route answers is clean.
LEMMA LiteralRequest ==
  ASSUME NEW r \in Route, Clean(r.path), NEW path \in RequestPaths, Plain(r.path) = path
  PROVE  CleanRequest(path)
<1> DEFINE p == r.path
<1>1. p \in RoutePaths BY DEF Route
<1>2. path \in Seq(Names) /\ DOMAIN path = 1 .. Len(path) /\ Len(path) \in Nat
  BY TokensType, LenProperties
<1>3. Len(p) = Len(path) /\ \A i \in 1 .. Len(p) : p[i].name = path[i] BY <1>1, <1>2, PlainIs
<1>4. CASE p = Slash
  <2>1. Len(Slash) = 1 /\ Slash[1].name = NoText BY DEF Slash
  <2>2. Len(path) = 1 /\ path[1] = NoText
    <3>1. 1 \in 1 .. 1 OBVIOUS
    <3> HIDE DEF p
    <3> QED BY <1>3, <1>4, <2>1, <3>1
  <2>3. path = [i \in 1 .. 1 |-> NoText]
    <3>1. path = [i \in 1 .. Len(path) |-> path[i]] BY <1>2
    <3>2. \A i \in 1 .. 1 : i = 1 OBVIOUS
    <3> QED BY <2>2, <3>1, <3>2
  <2>4. <<NoText>> = [i \in 1 .. 1 |-> NoText] OBVIOUS
  <2> QED BY <2>3, <2>4 DEF CleanRequest
<1>5. CASE \A i \in 1 .. Len(p) : p[i].name # NoText BY <1>2, <1>3, <1>5 DEF CleanRequest
<1> QED BY <1>1, <1>4, <1>5, CleanIs

-----------------------------------------------------------------------------
\* The invariant says what the lookups find.
LEMMA TrieAnswers ==
  ASSUME FiledInv, Orderly, use_trie, NEW path \in RequestPaths, NEW method
  PROVE  /\ MatchRouteNode(Tokens(path), method).handler # NoHandler
              => \E i \in DOMAIN accepted :
                   /\ accepted[i].handler = MatchRouteNode(Tokens(path), method).handler
                   /\ Fits(accepted[i], path, method)
                   /\ MatchRouteNode(Tokens(path), method).params =
                        Values(RouteTokens(accepted[i].path), Tokens(path))
         /\ \A i \in DOMAIN accepted : Fits(accepted[i], path, method)
              => MatchRouteNode(Tokens(path), method).handler # NoHandler
<1> DEFINE A == RoutesOf(accepted)
<1>1. accepted \in Seq(Route) /\ TreeOK(node_pool, node_pool_size)
  BY DEF FiledInv, TrieInv, RouterTypeOK
<1>2. A \in SUBSET Route BY <1>1, LenProperties, ElementOfSeq DEF RoutesOf
<1>3. Filed(node_pool, A, PathsOf(accepted) \cup refused) BY DEF FiledInv
<1>4. MatchRouteNode(Tokens(path), method) = MatchIn(node_pool, Tokens(path), method) BY MatchIs
<1> HIDE DEF A
<1>5. /\ MatchRouteNode(Tokens(path), method).handler # NoHandler
           => \E r \in A : /\ r.handler = MatchRouteNode(Tokens(path), method).handler
                           /\ Fits(r, path, method)
                           /\ MatchRouteNode(Tokens(path), method).params =
                                Values(RouteTokens(r.path), Tokens(path))
      /\ \A r \in A : Fits(r, path, method)
           => MatchRouteNode(Tokens(path), method).handler # NoHandler
  BY <1>1, <1>2, <1>3, <1>4, FiledFinds
<1> QED BY <1>5 DEF A, RoutesOf

\* And so does the array.
LEMMA ArrayAnswers ==
  ASSUME FiledInv, Orderly, ~use_trie, NEW path \in RequestPaths, CleanRequest(path), NEW method
  PROVE  /\ FindArrayRoute(path, method) # NoHandler
              => \E i \in DOMAIN accepted : /\ accepted[i].handler = FindArrayRoute(path, method)
                                            /\ Fits(accepted[i], path, method)
         /\ \A i \in DOMAIN accepted : Fits(accepted[i], path, method)
              => FindArrayRoute(path, method) # NoHandler
<1> DEFINE I == ArrayHits(array_routes, path, method)
<1>1. /\ array_routes = accepted /\ array_routes \in Seq(Route)
      /\ \A i \in DOMAIN accepted : ~HasParams(accepted[i].path)
  BY DEF FiledInv, TrieInv, RouterTypeOK, Inv, ArrayFits
<1>2. array_mem # "freed" /\ \A i \in DOMAIN accepted : Clean(accepted[i].path) BY DEF Orderly
<1>3. /\ Len(accepted) \in Nat /\ DOMAIN accepted = 1 .. Len(accepted)
      /\ \A i \in DOMAIN accepted : accepted[i] \in Route
  BY <1>1, LenProperties, ElementOfSeq
<1>4. \A i \in DOMAIN accepted : i \in I <=> Fits(accepted[i], path, method)
  BY <1>1, <1>2, <1>3, LiteralFits DEF ArrayHits
<1>5. I \in SUBSET Nat /\ I \subseteq DOMAIN accepted BY <1>1, <1>3 DEF ArrayHits
<1>6. IF I = {} THEN FindArrayRoute(path, method) = NoHandler
      ELSE FindArrayRoute(path, method) = array_routes[Min(I)].handler
  <2>1. FindArrayRoute(path, method) = FindArrayIn(array_routes, array_mem, path, method) BY FindArrayIs
  <2>2. array_routes \in Seq(Route) BY <1>1
  <2>3. array_mem # "freed" BY <1>2
  <2> QED BY ONLY <2>1, <2>2, <2>3, FindArrayFirst
<1> HIDE DEF I
<1>7. CASE I = {} BY <1>4, <1>6, <1>7
<1>8. CASE I # {}
  <2>1. Min(I) \in I BY <1>5, <1>8, MinIsLeast
  <2>2. accepted[Min(I)].handler # NoHandler BY <1>3, <1>5, <2>1, RouteHandler
  <2> QED BY <1>1, <1>4, <1>5, <1>6, <1>8, <2>1, <2>2
<1> QED BY <1>7, <1>8

\* The invariant implies FindsWhatFits.
LEMMA FiledInvFinds == FiledInv => FindsWhatFits
<1> SUFFICES ASSUME FiledInv, Orderly PROVE FindsWhatFits BY DEF FindsWhatFits, HandlerFits, ParamsBelong
<1>1. use_trie \in BOOLEAN /\ fallback_context \in BOOLEAN BY DEF FiledInv, TrieInv, RouterTypeOK
<1>2. HandlerFits
  <2> SUFFICES ASSUME NEW q \in Requests, CleanRequest(q[1]), ~StaticHit(q[1])
               PROVE  IF Candidates(q[1], q[2]) # {}
                      THEN FindHandler(q[1], q[2]) \in Candidates(q[1], q[2])
                      ELSE FindHandler(q[1], q[2]) =
                             IF fallback_context THEN StaticHandler ELSE NoHandler
    BY DEF HandlerFits
  <2> DEFINE path == q[1]
             method == q[2]
             route == IF use_trie THEN MatchRouteNode(Tokens(path), method).handler
                                  ELSE FindArrayRoute(path, method)
             fits == Candidates(path, method)
  <2>1. path \in RequestPaths BY DEF Requests
  <2>2. FindHandler(path, method) =
          IF route # NoHandler THEN route
          ELSE IF fallback_context THEN StaticHandler ELSE NoHandler
    BY Zenon DEF FindHandler
  <2>3. CleanRequest(path) OBVIOUS
  <2> HIDE DEF path, method
  <2>4. /\ route # NoHandler => \E i \in DOMAIN accepted : /\ accepted[i].handler = route
                                                           /\ Fits(accepted[i], path, method)
        /\ \A i \in DOMAIN accepted : Fits(accepted[i], path, method) => route # NoHandler
    <3>1. CASE use_trie BY <2>1, <3>1, TrieAnswers
    <3>2. CASE ~use_trie BY <2>1, <2>3, <3>2, ArrayAnswers
    <3> QED BY <1>1, <3>1, <3>2
  <2> HIDE DEF route
  <2>5. /\ route # NoHandler => route \in fits
        /\ fits # {} => route # NoHandler
    BY <2>4 DEF Candidates
  <2> HIDE DEF fits
  <2>6. IF fits # {} THEN FindHandler(path, method) \in fits
        ELSE FindHandler(path, method) = IF fallback_context THEN StaticHandler ELSE NoHandler
    BY <2>2, <2>5
  <2> QED BY <2>6 DEF fits, path, method
<1>3. ParamsBelong
  <2> SUFFICES ASSUME NEW q \in Requests, use_trie, Match(q[1], q[2]).handler # NoHandler
               PROVE  \E i \in DOMAIN accepted :
                        /\ accepted[i].handler = Match(q[1], q[2]).handler
                        /\ Fits(accepted[i], q[1], q[2])
                        /\ Match(q[1], q[2]).params =
                             Values(RouteTokens(accepted[i].path), Tokens(q[1]))
    BY DEF ParamsBelong
  <2>1. q[1] \in RequestPaths BY DEF Requests
  <2>2. Match(q[1], q[2]) = MatchRouteNode(Tokens(q[1]), q[2]) BY DEF Match
  <2> QED BY <2>1, <2>2, TrieAnswers
<1> QED BY <1>2, <1>3 DEF FindsWhatFits

\* FindsWhatFits holds of every router: whatever was registered, in whichever order
\* and with whichever failures, find_handler and match answer with a route that fits
\* the request, its parameters included, if there is one, and with none otherwise.
THEOREM FindsWhatIsRegistered == RouterSpec => []FindsWhatFits
<1>1. RouterInit => FiledInv BY InitFiled
<1>2. FiledInv /\ [RouterNext]_routerVars => FiledInv' BY NextFiled
<1>3. FiledInv => FindsWhatFits BY FiledInvFinds
<1> QED BY <1>1, <1>2, <1>3, PTL DEF RouterSpec

-----------------------------------------------------------------------------
(* What a registration does to the answers of the others.                  *)

\* Q is P with nodes added and, besides, a handler at the node at that had none.
Enlarged(P, Q, at) ==
  /\ Len(P) <= Len(Q)
  /\ \A n \in 1 .. Len(P) :
       /\ Q[n].segment = P[n].segment /\ Q[n].is_param = P[n].is_param
       /\ n # at => Q[n].method = P[n].method /\ Q[n].handler = P[n].handler
       /\ n = at => P[n].handler = NoHandler
       /\ Len(P[n].children) <= Len(Q[n].children)
       /\ \A i \in 1 .. Len(P[n].children) : Q[n].children[i] = P[n].children[i]
       /\ \A i \in Len(P[n].children) + 1 .. Len(Q[n].children) : Q[n].children[i] > Len(P)
  /\ \A n \in Len(P) + 1 .. Len(Q) : n # at => Q[n].handler = NoHandler

\* Nodes without handlers do.
LEMMA GrowsEnlarged ==
  ASSUME NEW P \in Seq(NodeType), NEW Q \in Seq(NodeType), Grows(P, Q)
  PROVE  Enlarged(P, Q, 0)
<1>1. Len(P) \in Nat /\ Len(Q) \in Nat BY LenProperties
<1>2. \A n \in 1 .. Len(P) : n # 0 BY <1>1
<1> QED BY <1>2 DEF Grows, KeepsNode, Enlarged

\* And a handler at one of them.
LEMMA MarkedEnlarged ==
  ASSUME NEW P \in Seq(NodeType), NEW W \in Seq(NodeType), Grows(P, W), NEW Q, NEW at,
         NEW method, NEW handler, W[at].handler = NoHandler, Marked(W, Q, at, method, handler)
  PROVE  Enlarged(P, Q, at)
<1>1. Len(P) \in Nat /\ Len(W) \in Nat /\ Len(Q) = Len(W) /\ Len(P) <= Len(W)
  BY LenProperties DEF Grows, Marked
<1>2. \A n \in 1 .. Len(P) : n \in 1 .. Len(W) BY <1>1
<1>3. \A n \in Len(P) + 1 .. Len(W) : n \in 1 .. Len(W) BY <1>1
<1>4. \A n \in 1 .. Len(W) :
        /\ Q[n].segment = W[n].segment /\ Q[n].is_param = W[n].is_param
        /\ Q[n].children = W[n].children
        /\ n # at => Q[n].method = W[n].method /\ Q[n].handler = W[n].handler
  BY DEF Marked
<1>5. /\ \A n \in 1 .. Len(P) : KeepsNode(P, W, n)
      /\ \A n \in Len(P) + 1 .. Len(W) : W[n].handler = NoHandler
  BY DEF Grows
<1>6. ASSUME NEW n \in 1 .. Len(P)
      PROVE  /\ Q[n].segment = P[n].segment /\ Q[n].is_param = P[n].is_param
             /\ n # at => Q[n].method = P[n].method /\ Q[n].handler = P[n].handler
             /\ n = at => P[n].handler = NoHandler
             /\ Len(P[n].children) <= Len(Q[n].children)
             /\ \A i \in 1 .. Len(P[n].children) : Q[n].children[i] = P[n].children[i]
             /\ \A i \in Len(P[n].children) + 1 .. Len(Q[n].children) : Q[n].children[i] > Len(P)
  <2>1. n \in 1 .. Len(W) /\ KeepsNode(P, W, n) BY <1>2, <1>5
  <2>2. Q[n].children = W[n].children BY <1>4, <2>1
  <2> QED BY <1>4, <2>1, <2>2 DEF KeepsNode
<1>7. \A n \in Len(P) + 1 .. Len(Q) : n # at => Q[n].handler = NoHandler
  BY <1>1, <1>3, <1>4, <1>5
<1> QED BY <1>1, <1>6, <1>7 DEF Enlarged

\* The children that answer.
Hits(P, n, segment, below) == {i \in DOMAIN P[n].children : Hit(P, n, segment, below, i)}

\* The first of them gives the answer.
LEMMA AnswerBy ==
  ASSUME NEW P, NEW n, NEW segment, NEW below
  PROVE  NodeAnswer(P, n, segment, below) =
           IF Hits(P, n, segment, below) = {} THEN NoMatch
           ELSE Report(below[P[n].children[Min(Hits(P, n, segment, below))]],
                       P[P[n].children[Min(Hits(P, n, segment, below))]], segment)
<1> DEFINE kids == P[n].children
           hits == {i \in DOMAIN kids : /\ Takes(P[kids[i]], segment)
                                        /\ below[kids[i]].handler # NoHandler}
<1>1. NodeAnswer(P, n, segment, below) =
        IF hits = {} THEN NoMatch
        ELSE Report(below[kids[Min(hits)]], P[kids[Min(hits)]], segment)
  BY Zenon DEF NodeAnswer
<1>2. hits = Hits(P, n, segment, below) BY DEF Hits, Hit
<1> QED BY <1>1, <1>2

\* The segments before the last j take the node to the spelling t.
TakenTo(t, segments, j) ==
  /\ Len(t) = Len(segments) - j
  /\ \A i \in 1 .. Len(segments) - j : TokenTakes(t[i], segments[i])

\* What the nodes answer after the pool was enlarged.
SameAnswer(P, left, right, j, n) ==
  /\ n <= Len(P) => right[j][n] = left[j][n]
  /\ n > Len(P) => right[j][n].handler = NoHandler

\* A child that takes the next segment.
LEMMA TakenOn ==
  ASSUME NEW Q, NEW size, TreeOK(Q, size), NEW sp, Spelled(Q, sp), NEW segments \in Seq(Names),
         NEW j \in 1 .. Len(segments), NEW n \in 1 .. Len(Q), TakenTo(sp[n], segments, j),
         NEW i \in DOMAIN Q[n].children,
         Takes(Q[Q[n].children[i]], segments[Len(segments) - j + 1])
  PROVE  TakenTo(sp[Q[n].children[i]], segments, j - 1)
<1> DEFINE L == Len(segments)
           k == L - j + 1
           c == Q[n].children[i]
           t == sp[n]
           x == Token(Q[c])
<1>1. L \in Nat BY LenProperties
<1>2. k \in 1 .. L /\ k \in Nat /\ L - j = k - 1 /\ L - (j - 1) = k BY <1>1
<1>3. c \in 1 .. Len(Q) /\ sp[c] = Append(t, x) /\ t \in Seq(TokenType) /\ x \in TokenType
  <2>1. c \in n + 1 .. Len(Q) BY DEF TreeOK, ChildrenOK
  <2>2. Len(Q) \in Nat BY LenProperties DEF TreeOK
  <2>3. sp[c] = Append(sp[n], Token(Q[c])) BY DEF Spelled
  <2> HIDE DEF c
  <2>4. c \in 1 .. Len(Q) BY <2>1, <2>2
  <2>5. t \in Seq(TokenType) /\ x \in TokenType BY <2>4, SpelledFacts
  <2> QED BY <2>3, <2>4, <2>5
<1>4. TokenTakes(x, segments[k]) BY TakesIs
<1>5. Len(t) = L - j /\ \A h \in 1 .. L - j : TokenTakes(t[h], segments[h]) BY DEF TakenTo
<1> HIDE DEF L, k, c, t, x
<1>6. /\ Len(Append(t, x)) = Len(t) + 1 /\ (\A h \in 1 .. Len(t) : Append(t, x)[h] = t[h])
      /\ Append(t, x)[Len(t) + 1] = x
  BY <1>3, SpellOn
<1>7. Len(t) + 1 = k /\ Len(t) = k - 1 BY <1>2, <1>5
<1>8. \A h \in 1 .. k : h = k \/ h \in 1 .. k - 1 BY <1>2
<1>9. \A h \in 1 .. k : TokenTakes(sp[c][h], segments[h])
  BY <1>2, <1>3, <1>4, <1>5, <1>6, <1>7, <1>8
<1>10. Len(sp[c]) = k BY <1>3, <1>6, <1>7
<1> QED BY <1>2, <1>9, <1>10 DEF TakenTo, L, c

\* The answers of a pool that was enlarged by a route that does not take all segments.
LEMMA EnlargedAnswers ==
  ASSUME NEW P, NEW psize, TreeOK(P, psize), NEW Q, NEW qsize, TreeOK(Q, qsize),
         NEW at, Enlarged(P, Q, at), NEW sp, Spelled(Q, sp), NEW segments \in Seq(Names), NEW method,
         at \in 1 .. Len(Q) => ~(Accepts(Q[at].method, method) /\ TakenTo(sp[at], segments, 0))
  PROVE  MatchIn(Q, segments, method) = MatchIn(P, segments, method)
<1> DEFINE L == Len(segments)
<1>1. L \in Nat BY LenProperties
<1>2. PICK left : LeftRun(P, segments, method, left) /\ MatchIn(P, segments, method) = left[L][1]
  BY <1>1, MatchRun
<1>3. PICK right : LeftRun(Q, segments, method, right) /\ MatchIn(Q, segments, method) = right[L][1]
  BY <1>1, MatchRun
<1>4. /\ P \in Seq(NodeType) /\ Q \in Seq(NodeType) /\ Len(P) \in Nat /\ Len(Q) \in Nat
      /\ Len(P) >= 1 /\ Len(P) <= Len(Q)
      /\ \A n \in 1 .. Len(P) : \A i \in DOMAIN P[n].children : P[n].children[i] \in n + 1 .. Len(P)
      /\ \A n \in 1 .. Len(Q) : \A i \in DOMAIN Q[n].children : Q[n].children[i] \in n + 1 .. Len(Q)
  BY LenProperties DEF TreeOK, ChildrenOK, Enlarged
<1> DEFINE Good(j) == \A n \in 1 .. Len(Q) :
             TakenTo(sp[n], segments, j) => SameAnswer(P, left, right, j, n)
           K == {j \in 0 .. L : Good(j)}
<1>5. ASSUME NEW n \in 1 .. Len(Q), TakenTo(sp[n], segments, 0)
      PROVE  SameAnswer(P, left, right, 0, n)
  <2>1. right[0][n] = Leaf(Q[n], method) BY <1>3 DEF LeftRun
  <2>2. NoMatch.handler = NoHandler BY DEF NoMatch
  <2>3. CASE n <= Len(P)
    <3>1. n \in 1 .. Len(P) BY <1>4, <2>3
    <3>2. left[0][n] = Leaf(P[n], method) BY <1>2, <3>1 DEF LeftRun
    <3>3. CASE n = at
      <4>1. P[n].handler = NoHandler BY <3>1, <3>3 DEF Enlarged
      <4>2. ~Accepts(Q[n].method, method) BY <1>5, <3>3
      <4> QED BY <1>4, <2>1, <2>3, <3>2, <4>1, <4>2 DEF Leaf, SameAnswer
    <3>4. CASE n # at
      <4>1. Q[n].method = P[n].method /\ Q[n].handler = P[n].handler BY <3>1, <3>4 DEF Enlarged
      <4> QED BY <1>4, <2>1, <2>3, <3>2, <4>1 DEF Leaf, SameAnswer
    <3> QED BY <3>3, <3>4
  <2>4. CASE n > Len(P)
    <3>1. Leaf(Q[n], method) = NoMatch
      <4>1. CASE n = at
        <5>1. ~Accepts(Q[n].method, method) BY <1>5, <4>1
        <5> QED BY <5>1 DEF Leaf
      <4>2. CASE n # at
        <5>1. n \in Len(P) + 1 .. Len(Q) BY <1>4, <2>4
        <5>2. Q[n].handler = NoHandler BY <4>2, <5>1 DEF Enlarged
        <5> QED BY <5>2 DEF Leaf
      <4> QED BY <4>1, <4>2
    <3> QED BY <1>4, <2>1, <2>2, <2>4, <3>1 DEF SameAnswer
  <2> QED BY <1>4, <2>3, <2>4
<1>6. ASSUME NEW j \in 1 .. L, Good(j - 1), NEW n \in 1 .. Len(Q), TakenTo(sp[n], segments, j)
      PROVE  SameAnswer(P, left, right, j, n)
  <2> DEFINE seg == segments[L - j + 1]
             lo == left[j - 1]
             ro == right[j - 1]
  <2>1. right[j][n] = NodeAnswer(Q, n, seg, ro) BY <1>3 DEF LeftRun
  <2>2. ASSUME NEW i \in DOMAIN Q[n].children, Takes(Q[Q[n].children[i]], seg)
        PROVE  SameAnswer(P, left, right, j - 1, Q[n].children[i])
    <3>1. TakenTo(sp[Q[n].children[i]], segments, j - 1) BY <1>6, <2>2, TakenOn
    <3>2. Q[n].children[i] \in n + 1 .. Len(Q) BY <1>4
    <3>3. Q[n].children[i] \in 1 .. Len(Q) BY <1>4, <3>2
    <3> QED BY <1>6, <3>1, <3>3
  <2>3. NoMatch.handler = NoHandler BY DEF NoMatch
  <2>4. DOMAIN Q[n].children = 1 .. Len(Q[n].children) /\ Len(Q[n].children) \in Nat BY <1>4, NodeFacts
  <2>5. CASE n > Len(P)
    <3>1. Hits(Q, n, seg, ro) = {}
      <4> SUFFICES ASSUME NEW i \in DOMAIN Q[n].children, Hit(Q, n, seg, ro, i) PROVE FALSE
        BY DEF Hits
      <4>1. Takes(Q[Q[n].children[i]], seg) /\ ro[Q[n].children[i]].handler # NoHandler BY DEF Hit
      <4>2. Q[n].children[i] \in n + 1 .. Len(Q) BY <1>4
      <4>3. Q[n].children[i] > Len(P) BY <1>4, <2>5, <4>2
      <4> QED BY <2>2, <4>1, <4>3 DEF SameAnswer
    <3> HIDE DEF seg, ro
    <3>2. NodeAnswer(Q, n, seg, ro) = NoMatch BY <3>1, AnswerBy
    <3> QED BY <1>4, <2>1, <2>3, <2>5, <3>2 DEF SameAnswer
  <2>6. CASE n <= Len(P)
    <3>1. n \in 1 .. Len(P) BY <1>4, <2>6
    <3>2. left[j][n] = NodeAnswer(P, n, seg, lo) BY <1>2, <3>1 DEF LeftRun
    <3>3. DOMAIN P[n].children = 1 .. Len(P[n].children) /\ Len(P[n].children) \in Nat
      BY <1>4, <3>1, NodeFacts
    <3>4. /\ Len(P[n].children) <= Len(Q[n].children)
          /\ \A i \in 1 .. Len(P[n].children) : Q[n].children[i] = P[n].children[i]
          /\ \A i \in Len(P[n].children) + 1 .. Len(Q[n].children) : Q[n].children[i] > Len(P)
      BY <3>1 DEF Enlarged
    <3>5. ASSUME NEW i \in DOMAIN P[n].children
          PROVE  /\ i \in DOMAIN Q[n].children /\ Q[n].children[i] = P[n].children[i]
                 /\ P[n].children[i] \in 1 .. Len(P)
                 /\ Takes(Q[P[n].children[i]], seg) <=> Takes(P[P[n].children[i]], seg)
                 /\ Q[P[n].children[i]].is_param = P[P[n].children[i]].is_param
                 /\ Takes(P[P[n].children[i]], seg) => ro[P[n].children[i]] = lo[P[n].children[i]]
      <4>1. i \in DOMAIN Q[n].children BY <2>4, <3>3, <3>4
      <4>2. Q[n].children[i] = P[n].children[i] BY <3>3, <3>4
      <4>3. P[n].children[i] \in n + 1 .. Len(P) BY <1>4, <3>1
      <4>4. P[n].children[i] \in 1 .. Len(P) /\ P[n].children[i] <= Len(P) BY <1>4, <3>1, <4>3
      <4>5. /\ Q[P[n].children[i]].is_param = P[P[n].children[i]].is_param
            /\ Q[P[n].children[i]].segment = P[P[n].children[i]].segment
        BY <4>4 DEF Enlarged
      <4>6. Takes(Q[P[n].children[i]], seg) <=> Takes(P[P[n].children[i]], seg)
        BY <4>5 DEF Takes
      <4>7. Takes(P[P[n].children[i]], seg) => ro[P[n].children[i]] = lo[P[n].children[i]]
        BY <2>2, <4>1, <4>2, <4>4, <4>6 DEF SameAnswer
      <4> QED BY <4>1, <4>2, <4>4, <4>5, <4>6, <4>7
    <3>6. \A i \in DOMAIN P[n].children : Hit(Q, n, seg, ro, i) <=> Hit(P, n, seg, lo, i)
      BY <3>5 DEF Hit
    <3>7. ASSUME NEW i \in DOMAIN Q[n].children, i \notin DOMAIN P[n].children
          PROVE  ~Hit(Q, n, seg, ro, i)
      <4>1. i \in Len(P[n].children) + 1 .. Len(Q[n].children) BY <2>4, <3>3, <3>7
      <4>2. Q[n].children[i] > Len(P) BY <3>4, <4>1
      <4>3. Takes(Q[Q[n].children[i]], seg) => ro[Q[n].children[i]].handler = NoHandler
        BY <2>2, <4>2 DEF SameAnswer
      <4> QED BY <4>3 DEF Hit
    <3>8. Hits(Q, n, seg, ro) = Hits(P, n, seg, lo)
      <4>1. \A i : i \in Hits(Q, n, seg, ro) <=> i \in Hits(P, n, seg, lo)
        BY <3>5, <3>6, <3>7 DEF Hits
      <4> QED BY <4>1
    <3> DEFINE H == Hits(P, n, seg, lo)
               m == Min(H)
               c == P[n].children[m]
    <3>9. H \in SUBSET Nat /\ H \subseteq DOMAIN P[n].children BY <3>3 DEF Hits
    <3>10. NodeAnswer(Q, n, seg, ro) = NodeAnswer(P, n, seg, lo)
      <4>1. CASE H = {}
        <5> HIDE DEF seg, lo, ro
        <5>1. Hits(P, n, seg, lo) = {} /\ Hits(Q, n, seg, ro) = {} BY <3>8, <4>1
        <5> QED BY <5>1, AnswerBy
      <4>2. CASE H # {}
        <5>1. m \in H
          <6> HIDE DEF H
          <6> QED BY <3>9, <4>2, MinIsLeast
        <5> HIDE DEF m
        <5>2. m \in DOMAIN P[n].children /\ Takes(P[c], seg) BY <5>1 DEF Hits, Hit
        <5>3. /\ Q[n].children[m] = c /\ Q[c].is_param = P[c].is_param /\ ro[c] = lo[c]
          BY <3>5, <5>2
        <5> HIDE DEF c, seg, lo, ro
        <5>4. Report(ro[c], Q[c], seg) = Report(lo[c], P[c], seg) BY <5>3 DEF Report
        <5>5. NodeAnswer(P, n, seg, lo) = Report(lo[c], P[c], seg)
          BY <4>2, AnswerBy DEF H, m, c
        <5>6. NodeAnswer(Q, n, seg, ro) = Report(ro[Q[n].children[m]], Q[Q[n].children[m]], seg)
          BY <3>8, <4>2, AnswerBy DEF H, m
        <5> QED BY <5>3, <5>4, <5>5, <5>6
      <4> QED BY <4>1, <4>2
    <3> QED BY <1>4, <2>1, <2>6, <3>2, <3>10 DEF SameAnswer
  <2> QED BY <1>4, <2>5, <2>6
<1> HIDE DEF Good
<1>7. 0 \in K BY <1>1, <1>5 DEF Good
<1>8. ASSUME NEW j \in 1 .. L, j - 1 \in K PROVE j \in K
  <2>1. Good(j - 1) BY <1>8
  <2>2. Good(j) BY <1>6, <2>1 DEF Good
  <2>3. j \in 0 .. L BY <1>1
  <2> QED BY <2>2, <2>3
<1> HIDE DEF K
<1>9. \A j \in 0 .. L : j \in K BY <1>1, <1>7, <1>8, Rounds
<1>10. Good(L) BY <1>1, <1>9 DEF K
<1>11. TakenTo(sp[1], segments, L)
  <2>1. sp[1] = <<>> /\ Len(<<>>) = 0 BY DEF Spelled
  <2>2. Len(sp[1]) = L - L /\ \A i \in 1 .. L - L : FALSE BY <1>1, <2>1
  <2> QED BY <2>2 DEF TakenTo
<1>12. 1 \in 1 .. Len(Q) /\ 1 <= Len(P) BY <1>4
<1>13. right[L][1] = left[L][1] BY <1>10, <1>11, <1>12 DEF Good, SameAnswer
<1> QED BY <1>2, <1>3, <1>13

\* A route more in the array does not come first.
LEMMA AppendKeeps ==
  ASSUME NEW s \in Seq(Route), NEW r \in Route, NEW mem, mem # "freed", NEW path, NEW method,
         FindArrayIn(s, mem, path, method) # NoHandler
  PROVE  FindArrayIn(Append(s, r), mem, path, method) = FindArrayIn(s, mem, path, method)
<1> DEFINE t == Append(s, r)
           I == ArrayHits(s, path, method)
           J == ArrayHits(t, path, method)
<1>1. /\ t \in Seq(Route) /\ Len(t) = Len(s) + 1 /\ Len(s) \in Nat
      /\ \A i \in 1 .. Len(s) : t[i] = s[i]
  BY AppendProperties, LenProperties
<1>2. I # {} /\ FindArrayIn(s, mem, path, method) = s[Min(I)].handler BY FindArrayFirst
<1> HIDE DEF t
<1>3. I \in SUBSET Nat /\ J \in SUBSET Nat /\ I \subseteq 1 .. Len(s)
  BY <1>1 DEF ArrayHits
<1>4. \A i \in 1 .. Len(s) : i \in J <=> i \in I
  <2>1. \A i \in 1 .. Len(s) : i \in 1 .. Len(t) BY <1>1
  <2> QED BY <1>1, <2>1 DEF ArrayHits
<1>5. \A j \in J : j \in 1 .. Len(s) \/ j = Len(s) + 1 BY <1>1 DEF ArrayHits
<1> HIDE DEF I, J
<1>6. Min(I) \in I /\ \A y \in I : Min(I) <= y BY <1>2, <1>3, MinIsLeast
<1>7. J # {} BY <1>3, <1>4, <1>6
<1>8. Min(J) \in J /\ \A y \in J : Min(J) <= y BY <1>3, <1>7, MinIsLeast
<1>9. Min(J) = Min(I)
  <2>1. Min(I) \in J /\ Min(I) \in 1 .. Len(s) /\ Min(I) \in Nat BY <1>3, <1>4, <1>6
  <2>2. Min(J) <= Min(I) /\ Min(J) \in Nat BY <1>3, <1>8, <2>1
  <2>3. Min(J) \in 1 .. Len(s) BY <1>1, <1>5, <1>8, <2>1, <2>2
  <2>4. Min(I) <= Min(J) BY <1>4, <1>6, <1>8, <2>3
  <2> QED BY <2>1, <2>2, <2>4
<1>10. FindArrayIn(t, mem, path, method) = t[Min(J)].handler BY <1>1, <1>7, FindArrayFirst DEF J
<1>11. t[Min(I)] = s[Min(I)] BY <1>1, <1>3, <1>6
<1> QED BY <1>2, <1>9, <1>10, <1>11 DEF t

\* Literal paths with the same texts are the same path.
LEMMA SamePlain ==
  ASSUME NEW p \in RoutePaths, NEW q \in RoutePaths, ~HasParams(p), ~HasParams(q), Plain(p) = Plain(q)
  PROVE  p = q
<1>1. /\ p \in Seq(TokenType) /\ q \in Seq(TokenType) BY RouteTokensType
<1>2. /\ DOMAIN p = 1 .. Len(p) /\ DOMAIN Plain(p) = 1 .. Len(p) /\ Len(p) \in Nat
      /\ \A i \in 1 .. Len(p) : Plain(p)[i] = p[i].name /\ p[i] \in TokenType
  BY PlainIs
<1>3. /\ DOMAIN q = 1 .. Len(q) /\ DOMAIN Plain(q) = 1 .. Len(q) /\ Len(q) \in Nat
      /\ \A i \in 1 .. Len(q) : Plain(q)[i] = q[i].name /\ q[i] \in TokenType
  BY PlainIs
<1>4. DOMAIN p = DOMAIN q BY <1>2, <1>3
<1>5. \A i \in DOMAIN p : p[i] = q[i]
  <2>1. \A i \in DOMAIN p : /\ p[i].name = q[i].name /\ p[i] \in TokenType /\ q[i] \in TokenType
                            /\ ~p[i].param /\ ~q[i].param
    BY <1>2, <1>3, <1>4 DEF HasParams
  <2>2. ASSUME NEW x \in TokenType, NEW y \in TokenType, x.name = y.name, ~x.param, ~y.param
        PROVE  x = y
    BY <2>2 DEF TokenType
  <2> QED BY <2>1, <2>2
<1>6. p = [i \in DOMAIN p |-> p[i]] /\ q = [i \in DOMAIN q |-> q[i]] BY <1>1, <1>2, <1>3
<1> QED BY <1>4, <1>5, <1>6

-----------------------------------------------------------------------------
\* In the trie, the answers of the other routes stay.
LEMMA TrieKeeps ==
  ASSUME FiledInv, TreeOK(node_pool', node_pool_size'), NEW route \in Route, NEW cap,
         array_mem # "freed", use_trie,
         NEW w, NEW f, NEW u, IntoTrie(w, f, u, route, cap), Orderly',
         NEW path \in RequestPaths, NEW method, u.ok => ~Fits(route, path, method)
  PROVE  MatchIn(node_pool', Tokens(path), method) = MatchIn(node_pool, Tokens(path), method)
<1> DEFINE P == node_pool
           Q == u.pool
<1>1. w.pool = P /\ node_pool' = Q BY DEF IntoTrie
<1>2. TreeOK(P, node_pool_size) /\ TreeOK(Q, node_pool_size') BY <1>1 DEF FiledInv, TrieInv
<1>3. P \in Seq(NodeType) /\ Q \in Seq(NodeType) /\ Len(Q) \in Nat BY <1>2, LenProperties DEF TreeOK
<1>4. /\ u.ok \in BOOLEAN
      /\ ~u.ok => Grows(P, Q)
      /\ u.ok => Files(P, u, route, RoutesOf(accepted), PathsOf(accepted) \cup refused)
      /\ Filed(Q, RoutesOf(accepted)', PathsOf(accepted)' \cup refused')
  BY <1>1, IntoTrieFiles
<1>5. Tokens(path) \in Seq(Names) /\ Len(Tokens(path)) \in Nat BY TokensType
<1> HIDE DEF P, Q
<1>6. CASE ~u.ok
  <2>1. Enlarged(P, Q, 0) BY <1>3, <1>4, <1>6, GrowsEnlarged
  <2>2. PICK sp : Spelled(Q, sp) BY <1>4 DEF Filed
  <2>3. 0 \notin 1 .. Len(Q) BY <1>3
  <2>4. MatchIn(Q, Tokens(path), method) = MatchIn(P, Tokens(path), method)
    BY <1>2, <1>5, <2>1, <2>2, <2>3, EnlargedAnswers
  <2> QED BY <1>1, <2>4 DEF P
<1>7. CASE u.ok
  <2>1. PICK sp, W :
          /\ Spelled(Q, sp) /\ sp[u.at] = RouteTokens(route.path)
          /\ Grows(P, W) /\ W \in Seq(NodeType) /\ W[u.at].handler = NoHandler
          /\ Marked(W, Q, u.at, route.method, route.handler)
    BY <1>4, <1>7 DEF Files, Q
  <2>2. Enlarged(P, Q, u.at) BY <1>3, <2>1, MarkedEnlarged
  <2>3. u.at \in 1 .. Len(Q) => Q[u.at].method = route.method BY <2>1 DEF Marked
  <2>4. ~(Accepts(route.method, method) /\ TakenTo(sp[u.at], Tokens(path), 0))
    <3>1. Len(Tokens(path)) - 0 = Len(Tokens(path)) BY <1>5
    <3> QED BY <1>7, <2>1, <3>1, FitsIs DEF TakenTo
  <2>5. u.at \in 1 .. Len(Q) => ~(Accepts(Q[u.at].method, method) /\ TakenTo(sp[u.at], Tokens(path), 0))
    BY <2>3, <2>4
  <2>6. Spelled(Q, sp) BY <2>1
  <2>7. MatchIn(Q, Tokens(path), method) = MatchIn(P, Tokens(path), method)
    BY <1>2, <1>5, <2>2, <2>5, <2>6, EnlargedAnswers
  <2> QED BY <1>1, <2>7 DEF P
<1> QED BY <1>4, <1>6, <1>7

\* The migration keeps the answers of the array.
LEMMA MigrationKeeps ==
  ASSUME FiledInv, TreeOK(node_pool', node_pool_size'), NEW route \in Route, NEW cap,
         array_mem # "freed", ~use_trie,
         NEW w, NEW f, NEW u, IntoTrie(w, f, u, route, cap), Orderly',
         NEW path \in RequestPaths, NEW method, u.ok => ~Fits(route, path, method),
         FindArrayIn(array_routes, array_mem, path, method) # NoHandler
  PROVE  MatchIn(node_pool', Tokens(path), method).handler =
           FindArrayIn(array_routes, array_mem, path, method)
<1> DEFINE I == ArrayHits(array_routes, path, method)
           A == RoutesOf(accepted)'
           Q == u.pool
<1>1. /\ array_routes = accepted /\ array_routes \in Seq(Route)
      /\ \A i \in DOMAIN accepted : ~HasParams(accepted[i].path)
  BY DEF FiledInv, TrieInv, RouterTypeOK, Inv, ArrayFits
<1>2. /\ Len(accepted) \in Nat /\ DOMAIN accepted = 1 .. Len(accepted)
      /\ \A i \in DOMAIN accepted : accepted[i] \in Route
  BY <1>1, LenProperties, ElementOfSeq
<1>3. Orderly /\ u.ok \in BOOLEAN /\ Filed(Q, A, PathsOf(accepted)' \cup refused')
  BY IntoTrieFiles
<1>4. node_pool' = Q /\ Returned(u.ok, route) BY DEF IntoTrie
<1>5. A = RoutesOf(accepted) \cup (IF u.ok THEN {route} ELSE {})
  <2>1. A = RoutesOf(accepted') BY DEF RoutesOf
  <2>2. CASE u.ok
    <3>1. accepted' = Append(accepted, route) BY <1>4, <2>2 DEF Returned
    <3> QED BY <1>1, <2>1, <2>2, <3>1, AppendRoutes
  <2>3. CASE ~u.ok
    <3>1. accepted' = accepted BY <1>4, <2>3 DEF Returned
    <3> QED BY <2>1, <2>3, <3>1
  <2> QED BY <1>3, <2>2, <2>3
<1> HIDE DEF A
<1>6. A \in SUBSET Route BY <1>2, <1>5 DEF RoutesOf
<1>7. PICK i \in DOMAIN accepted : /\ Accepts(accepted[i].method, method) /\ Plain(accepted[i].path) = path
                                   /\ accepted[i].handler = FindArrayIn(array_routes, array_mem, path, method)
  <2>1. I # {} /\ FindArrayIn(array_routes, array_mem, path, method) = array_routes[Min(I)].handler
    <3>1. IF I = {} THEN FindArrayIn(array_routes, array_mem, path, method) = NoHandler
          ELSE FindArrayIn(array_routes, array_mem, path, method) = array_routes[Min(I)].handler
      <4>1. array_routes \in Seq(Route) BY <1>1
      <4> QED BY ONLY <4>1, array_mem # "freed", FindArrayFirst
    <3> HIDE DEF I
    <3> QED BY <3>1
  <2>2. I \in SUBSET Nat BY <1>1, <1>2 DEF ArrayHits
  <2>3. Min(I) \in I
    <3> HIDE DEF I
    <3> QED BY <2>1, <2>2, MinIsLeast
  <2>4. Min(I) \in DOMAIN accepted /\ Accepts(accepted[Min(I)].method, method)
        /\ Plain(accepted[Min(I)].path) = path
    BY <1>1, <1>2, <2>3 DEF ArrayHits
  <2> HIDE DEF I
  <2> QED BY <1>1, <2>1, <2>4
<1>8. \A j \in DOMAIN accepted : Clean(accepted[j].path) /\ ~HasParams(accepted[j].path)
                                 /\ accepted[j] \in Route /\ accepted[j].path \in RoutePaths
  BY <1>1, <1>2, <1>3 DEF Orderly, Route
<1>9. CleanRequest(path) BY <1>7, <1>8, LiteralRequest
<1>10. Fits(accepted[i], path, method) BY <1>7, <1>8, <1>9, LiteralFits
<1>11. accepted[i] \in A BY <1>5 DEF RoutesOf
<1>12. TreeOK(Q, node_pool_size') BY <1>4
<1> HIDE DEF Q
<1>13. /\ MatchIn(Q, Tokens(path), method).handler # NoHandler
            => \E r \in A : /\ r.handler = MatchIn(Q, Tokens(path), method).handler
                            /\ Fits(r, path, method)
       /\ \A r \in A : Fits(r, path, method) => MatchIn(Q, Tokens(path), method).handler # NoHandler
  BY <1>3, <1>6, <1>12, FiledFinds
<1>14. PICK r \in A : r.handler = MatchIn(Q, Tokens(path), method).handler /\ Fits(r, path, method)
  BY <1>10, <1>11, <1>13
<1>15. r \in RoutesOf(accepted) BY <1>3, <1>5, <1>14
<1>16. PICK j \in DOMAIN accepted : r = accepted[j] BY <1>15 DEF RoutesOf
<1>17. Plain(accepted[j].path) = path BY <1>8, <1>9, <1>14, <1>16, LiteralFits
<1>18. accepted[i].path = accepted[j].path BY <1>7, <1>8, <1>17, SamePlain
<1>19. ~Apart(accepted[i], accepted[j]) BY <1>18 DEF Apart
<1>20. i = j BY <1>3, <1>19 DEF Orderly
<1> QED BY <1>4, <1>7, <1>14, <1>16, <1>20

-----------------------------------------------------------------------------
\* What match answers before a call, and after it.
LEMMA MatchCases ==
  ASSUME NEW path, NEW method, use_trie \in BOOLEAN, use_trie' \in BOOLEAN
  PROVE  /\ use_trie => Match(path, method) = MatchIn(node_pool, Tokens(path), method)
         /\ ~use_trie /\ StaticHit(path) => Match(path, method).handler = StaticHandler
         /\ ~use_trie /\ ~StaticHit(path)
              => Match(path, method).handler = FindArrayIn(array_routes, array_mem, path, method)
         /\ use_trie' => Match(path, method)' = MatchIn(node_pool', Tokens(path), method)
         /\ ~use_trie' /\ ~StaticHit(path)'
              => Match(path, method)'.handler = FindArrayIn(array_routes', array_mem', path, method)
<1>1. use_trie => Match(path, method) = MatchIn(node_pool, Tokens(path), method)
  BY MatchIs DEF Match
<1>2. /\ NoMatch = [handler |-> NoHandler, params |-> <<>>]
      /\ \A h : [NoMatch EXCEPT !.handler = h].handler = h
  BY DEF NoMatch
<1>3. ~use_trie /\ StaticHit(path) => Match(path, method).handler = StaticHandler
  BY <1>2 DEF Match
<1>4. ~use_trie /\ ~StaticHit(path)
        => Match(path, method).handler = FindArrayIn(array_routes, array_mem, path, method)
  <2>1. FindArrayRoute(path, method) = FindArrayIn(array_routes, array_mem, path, method) BY FindArrayIs
  <2> QED BY <1>2, <2>1 DEF Match
<1>5. use_trie' => Match(path, method)' = MatchIn(node_pool', Tokens(path), method)
  <2>1. MatchRouteNode(Tokens(path), method)' = MatchIn(node_pool', Tokens(path), method)
    BY MatchIsNext
  <2> QED BY <2>1 DEF Match
<1>6. ~use_trie' /\ ~StaticHit(path)'
        => Match(path, method)'.handler = FindArrayIn(array_routes', array_mem', path, method)
  <2>1. FindArrayRoute(path, method)' = FindArrayIn(array_routes', array_mem', path, method) BY FindArrayIs
  <2> QED BY <1>2, <2>1 DEF Match
<1> QED BY <1>1, <1>3, <1>4, <1>5, <1>6

\* A handler of a route is that of a route.
LEMMA HandlersAre ==
  ASSUME NEW h \in Handlers
  PROVE  h # StaticHandler /\ h # NoHandler
BY BoundAssumption DEF Handlers, StaticHandler, NoHandler

\* What a call leaves to a request that it is not about.
LEMMA CallKeeps ==
  ASSUME FiledInv, [RouterNext]_routerVars, Orderly', NEW path \in RequestPaths, NEW method,
         Match(path, method).handler \in Handlers,
         \A r \in Added : ~Fits(r, path, method), use_trie' \/ ~StaticHit(path)'
  PROVE  Match(path, method)'.handler = Match(path, method).handler
<1> DEFINE found == Match(path, method).handler
           old == FindArrayIn(array_routes, array_mem, path, method)
<1>1. FiledInv' /\ RouterTypeOK BY NextFiled DEF FiledInv, TrieInv
<1>2. /\ use_trie \in BOOLEAN /\ use_trie' \in BOOLEAN /\ accepted \in Seq(Route)
      /\ array_routes \in Seq(Route) /\ TreeOK(node_pool', node_pool_size')
  BY <1>1 DEF FiledInv, TrieInv, RouterTypeOK
<1>3. found # StaticHandler /\ found # NoHandler BY HandlersAre
<1>4. /\ use_trie => Match(path, method) = MatchIn(node_pool, Tokens(path), method)
      /\ ~use_trie => found = old
      /\ use_trie' => Match(path, method)' = MatchIn(node_pool', Tokens(path), method)
      /\ ~use_trie' => Match(path, method)'.handler = FindArrayIn(array_routes', array_mem', path, method)
  BY <1>2, <1>3, MatchCases
<1> HIDE DEF found, old
<1>5. CASE LeavesRoutes
  <2>1. /\ use_trie' = use_trie /\ node_pool' = node_pool /\ array_routes' = array_routes
        /\ array_mem' = array_mem
    BY <1>5 DEF LeavesRoutes
  <2> QED BY <1>2, <1>4, <2>1 DEF found, old
<1>6. ASSUME NEW route \in Route, NEW cap, Registers(route, cap)
      PROVE  Match(path, method)'.handler = found
  <2>1. array_mem # "freed" BY <1>6 DEF Registers
  <2>2. CASE IntoArray(route)
    <3>1. /\ ~use_trie /\ ~use_trie' /\ array_routes' = Append(array_routes, route)
          /\ array_mem' = array_mem
      BY <2>2 DEF IntoArray
    <3>2. FindArrayIn(Append(array_routes, route), array_mem, path, method) = old
      BY <1>2, <1>3, <1>4, <2>1, <3>1, AppendKeeps DEF old
    <3> QED BY <1>4, <3>1, <3>2
  <2>3. CASE array_mem' = "freed" BY <2>3 DEF Orderly
  <2>4. ASSUME NEW w, NEW f, NEW u, IntoTrie(w, f, u, route, cap)
        PROVE  Match(path, method)'.handler = found
    <3>1. use_trie' /\ Returned(u.ok, route) BY <2>4 DEF IntoTrie
    <3>2. u.ok => ~Fits(route, path, method)
      <4> SUFFICES ASSUME u.ok PROVE route \in Added OBVIOUS
      <4>1. accepted' = Append(accepted, route) BY <3>1 DEF Returned
      <4>2. /\ Len(accepted') = Len(accepted) + 1 /\ accepted'[Len(accepted) + 1] = route
            /\ Len(accepted) \in Nat
        BY <1>2, <4>1, AppendProperties, LenProperties
      <4>3. Len(accepted') > Len(accepted) BY <4>2
      <4> QED BY <4>2, <4>3 DEF Added
    <3>3. CASE use_trie
      <4>1. MatchIn(node_pool', Tokens(path), method) = MatchIn(node_pool, Tokens(path), method)
        BY <1>2, <2>1, <2>4, <3>2, <3>3, TrieKeeps
      <4> QED BY <1>4, <3>1, <3>3, <4>1 DEF found
    <3>4. CASE ~use_trie
      <4>1. old # NoHandler BY <1>3, <1>4, <3>4
      <4>2. MatchIn(node_pool', Tokens(path), method).handler = old
        BY <1>2, <2>1, <2>4, <3>2, <3>4, <4>1, MigrationKeeps DEF old
      <4> QED BY <1>4, <3>1, <3>4, <4>2
    <3> QED BY <1>2, <3>3, <3>4
  <2> QED BY <1>6, <2>2, <2>3, <2>4, RegisterIs
<1> QED BY <1>1, <1>5, <1>6, CallIs DEF found

\* AddKeepsOthers holds of every router: no registration, be it into the array, into
\* the trie or the one that migrates, and no failed one changes the answer of a
\* request that another route answers.
THEOREM AddingKeepsOthers == RouterSpec => AddKeepsOthers
<1>1. RouterInit => FiledInv BY InitFiled
<1>2. FiledInv /\ [RouterNext]_routerVars => FiledInv' BY NextFiled
<1>3. FiledInv /\ [RouterNext]_routerVars =>
        [calls' # calls /\ Orderly' =>
           \A q \in Requests :
             LET found == Match(q[1], q[2]).handler
             IN  /\ found \in Handlers
                 /\ \A r \in Added : ~Fits(r, q[1], q[2])
                 => (use_trie' \/ ~StaticHit(q[1])' => Match(q[1], q[2]).handler' = found)]_routerVars
  <2> SUFFICES ASSUME FiledInv, [RouterNext]_routerVars, Orderly', NEW q \in Requests,
                      Match(q[1], q[2]).handler \in Handlers,
                      \A r \in Added : ~Fits(r, q[1], q[2]), use_trie' \/ ~StaticHit(q[1])'
               PROVE  Match(q[1], q[2]).handler' = Match(q[1], q[2]).handler
    BY Zenon
  <2>1. q[1] \in RequestPaths BY DEF Requests
  <2>2. Match(q[1], q[2])'.handler = Match(q[1], q[2]).handler BY <2>1, CallKeeps
  <2> QED BY <2>2
<1> QED BY <1>1, <1>2, <1>3, PTL DEF RouterSpec, AddKeepsOthers

-----------------------------------------------------------------------------
(* The router cache.                                                       *)

Used(t) == {i \in DOMAIN t : t[i] # Free}
Held(t) == {t[i] : i \in DOMAIN t} \ {Free}

\* A search for the route in slot i gets there: no slot on its way is free.
Reached(t, n, i) ==
  \E k \in 0 .. n - 1 : /\ (RcHash[t[i][1]] + k) % n = i
                        /\ \A j \in 0 .. k - 1 : t[(RcHash[t[i][1]] + j) % n] # Free

\* A table of n slots in which every route can be found, once.
TableOK(t, n) ==
  /\ n \in Nat \ {0} /\ t \in [0 .. n - 1 -> Routes \cup {Free}]
  /\ \A i \in Used(t) : Reached(t, n, i)
  /\ \A i, j \in Used(t) : t[i] = t[j] => i = j
  /\ Cardinality(Used(t)) = Cardinality(Held(t))

\* Probing visits every slot.
LEMMA ProbeCovers ==
  ASSUME NEW n \in Nat \ {0}, NEW h \in Nat, NEW s \in 0 .. n - 1
  PROVE  \E k \in 0 .. n - 1 : (h + k) % n = s
<1> DEFINE q == h \div n
           r == h % n
<1>1. h = q * n + r /\ q \in Int /\ r \in 0 .. n - 1 OBVIOUS
<1> HIDE DEF q, r
<1>2. CASE r <= s
  <2>1. s - r \in 0 .. n - 1 /\ h + (s - r) = q * n + s BY <1>1, <1>2
  <2>2. (q * n + s) % n = s BY <1>1
  <2> QED BY <2>1, <2>2
<1>3. CASE r > s
  <2>1. s - r + n \in 0 .. n - 1 /\ h + (s - r + n) = (q + 1) * n + s BY <1>1, <1>3
  <2>2. ((q + 1) * n + s) % n = s BY <1>1
  <2> QED BY <2>1, <2>2
<1> QED BY <1>1, <1>2, <1>3

\* A probe stays in the table.
LEMMA InTable ==
  ASSUME NEW n \in Nat \ {0}, NEW h \in Nat, NEW k \in Nat
  PROVE  (h + k) % n \in 0 .. n - 1
OBVIOUS

\* A table of n slots has n slots.
LEMMA SlotsIs ==
  ASSUME NEW n \in Nat, NEW t, DOMAIN t = 0 .. n - 1
  PROVE  Slots(t) = n
<1>1. Cardinality(0 .. n - 1) = IF 0 > n - 1 THEN 0 ELSE (n - 1) - 0 + 1 BY FS_Interval
<1>2. Cardinality(0 .. n - 1) = n BY <1>1
<1> QED BY <1>2 DEF Slots

\* A search stops at the first slot that ends it.
LEMMA StepsIs ==
  ASSUME NEW n \in Nat \ {0}, NEW t, DOMAIN t = 0 .. n - 1,
         NEW path \in RcPaths \cup RcRequests, NEW ends
  PROVE  /\ Steps(t, path, ends) \in 0 .. n
         /\ Steps(t, path, ends) < n =>
              t[(RcHash[path] + Steps(t, path, ends)) % n] \in ends
         /\ \A j \in 0 .. n - 1 : j < Steps(t, path, ends) =>
              t[(RcHash[path] + j) % n] \notin ends
<1> DEFINE K == {k \in 0 .. n - 1 : t[(RcHash[path] + k) % n] \in ends} \cup {n}
           k == Min(K)
<1>1. Slots(t) = n BY SlotsIs
<1>2. Steps(t, path, ends) = k BY <1>1 DEF Steps, Probe
<1>3. K \in SUBSET Nat /\ K # {} OBVIOUS
<1>4. k \in K /\ \A j \in K : k <= j
  <2> HIDE DEF K
  <2> QED BY <1>3, MinIsLeast
<1> HIDE DEF k
<1> QED BY <1>2, <1>4

\* A table has finitely many slots.
LEMMA TableFacts ==
  ASSUME NEW t, NEW n, TableOK(t, n)
  PROVE  /\ DOMAIN t = 0 .. n - 1 /\ Slots(t) = n
         /\ IsFiniteSet(Used(t)) /\ Used(t) \subseteq 0 .. n - 1
         /\ Cardinality(Used(t)) \in Nat /\ Cardinality(Used(t)) <= n
         /\ Cardinality(Used(t)) = n => Used(t) = 0 .. n - 1
<1>1. n \in Nat \ {0} /\ DOMAIN t = 0 .. n - 1 BY DEF TableOK
<1>2. Slots(t) = n BY <1>1, SlotsIs
<1>3. IsFiniteSet(0 .. n - 1) /\ Cardinality(0 .. n - 1) = n BY <1>1, <1>2, FS_Interval DEF Slots
<1>4. Used(t) \in SUBSET (0 .. n - 1) BY <1>1 DEF Used
<1>5. /\ IsFiniteSet(Used(t)) /\ Cardinality(Used(t)) <= n
      /\ Cardinality(Used(t)) = n => Used(t) = 0 .. n - 1
  BY <1>3, <1>4, FS_Subset
<1> QED BY <1>1, <1>2, <1>4, <1>5, FS_CardinalityType

\* find_slot finds the route, a free slot if it is not there, and nothing only in a
\* table that is full.
LEMMA FindSlotIs ==
  ASSUME NEW t, NEW n, TableOK(t, n), NEW e \in Routes
  PROVE  LET s == FindSlot(t, e) IN
         /\ s \in (0 .. n - 1) \cup {-1}
         /\ s = -1 => Used(t) = 0 .. n - 1 /\ e \notin Held(t)
         /\ s # -1 /\ e \in Held(t) => t[s] = e
         /\ s # -1 /\ e \notin Held(t) =>
              /\ t[s] = Free
              /\ \E k \in 0 .. n - 1 : /\ (RcHash[e[1]] + k) % n = s
                                       /\ \A j \in 0 .. k - 1 : t[(RcHash[e[1]] + j) % n] # Free
<1> DEFINE h == RcHash[e[1]]
           k == Steps(t, e[1], {Free, e})
           s == FindSlot(t, e)
<1>1. /\ n \in Nat \ {0} /\ DOMAIN t = 0 .. n - 1 /\ Slots(t) = n
  BY TableFacts DEF TableOK
<1>2. e[1] \in RcPaths /\ h \in Nat BY RouterCacheAssumption DEF Routes
<1>3. e # Free BY MarksAssumption
<1>4. /\ k \in 0 .. n /\ (k < n => t[(h + k) % n] \in {Free, e})
      /\ \A j \in 0 .. n - 1 : j < k => t[(h + j) % n] \notin {Free, e}
  BY <1>1, <1>2, StepsIs
<1>5. s = IF k = n THEN -1 ELSE (h + k) % n BY <1>1 DEF FindSlot, Probe
<1> HIDE DEF s, k, h
<1>6. ASSUME NEW j \in 0 .. n - 1 PROVE (h + j) % n \in 0 .. n - 1
  <2>1. j \in Nat BY <1>1
  <2> QED BY <1>1, <1>2, <2>1, InTable
<1>7. s \in (0 .. n - 1) \cup {-1} BY <1>1, <1>4, <1>5, <1>6
<1>8. ASSUME e \in Held(t) PROVE k # n /\ t[(h + k) % n] = e
  <2>1. PICK i \in DOMAIN t : t[i] = e BY <1>8 DEF Held
  <2>2. i \in Used(t) BY <1>3, <2>1 DEF Used
  <2>3. PICK m \in 0 .. n - 1 : (h + m) % n = i /\ \A j \in 0 .. m - 1 : t[(h + j) % n] # Free
    BY <2>1, <2>2 DEF TableOK, Reached, h
  <2>4. ~(m < k) BY <1>4, <2>1, <2>3
  <2>5. k <= m /\ k < n BY <1>1, <1>4, <2>4
  <2>6. CASE k = m BY <1>1, <2>1, <2>3, <2>5, <2>6
  <2>7. CASE k < m
    <3>1. t[(h + k) % n] # Free BY <1>4, <2>3, <2>7
    <3> QED BY <1>4, <2>5, <3>1
  <2> QED BY <1>4, <2>5, <2>6, <2>7
<1>9. ASSUME s = -1 PROVE Used(t) = 0 .. n - 1 /\ e \notin Held(t)
  <2>1. k = n
    <3>1. k \in 0 .. n - 1 => (h + k) % n \in 0 .. n - 1 BY <1>6
    <3> QED BY <1>1, <1>4, <1>5, <1>9, <3>1
  <2>2. ASSUME NEW i \in 0 .. n - 1 PROVE t[i] # Free
    <3>1. PICK j \in 0 .. n - 1 : (h + j) % n = i BY <1>1, <1>2, ProbeCovers DEF h
    <3> QED BY <1>1, <1>4, <2>1, <3>1
  <2>3. Used(t) = 0 .. n - 1 BY <1>1, <2>2 DEF Used
  <2> QED BY <1>8, <2>1, <2>3
<1>10. ASSUME s # -1, e \in Held(t) PROVE t[s] = e BY <1>5, <1>8, <1>10
<1>11. ASSUME s # -1, e \notin Held(t)
       PROVE  /\ t[s] = Free
              /\ \E m \in 0 .. n - 1 : /\ (h + m) % n = s
                                       /\ \A j \in 0 .. m - 1 : t[(h + j) % n] # Free
  <2>1. k # n /\ k \in 0 .. n - 1 /\ s = (h + k) % n BY <1>1, <1>4, <1>5, <1>11
  <2>2. t[s] \in {Free, e} /\ s \in DOMAIN t BY <1>1, <1>4, <1>6, <2>1
  <2>3. t[s] = Free BY <1>3, <1>11, <2>2 DEF Held
  <2>4. \A j \in 0 .. k - 1 : t[(h + j) % n] # Free BY <1>1, <1>4
  <2> QED BY <2>1, <2>3, <2>4
<1> QED BY <1>7, <1>9, <1>10, <1>11 DEF s, h

\* It has finitely many routes.
LEMMA HeldFinite ==
  ASSUME NEW t, NEW n, TableOK(t, n)
  PROVE  IsFiniteSet(Held(t)) /\ Held(t) \subseteq Routes
<1>1. IsFiniteSet(DOMAIN t)
  <2>1. n \in Nat /\ DOMAIN t = 0 .. n - 1 BY TableFacts DEF TableOK
  <2> QED BY <2>1, FS_Interval
<1>2. t \in Surjection(DOMAIN t, {t[i] : i \in DOMAIN t}) BY DEF Surjection, TableOK
<1>3. IsFiniteSet({t[i] : i \in DOMAIN t}) BY <1>1, <1>2, FS_Surjection
<1>4. Held(t) \in SUBSET {t[i] : i \in DOMAIN t} BY DEF Held
<1>5. Held(t) \subseteq Routes BY DEF Held, TableOK
<1> QED BY <1>3, <1>4, <1>5, FS_Subset

\* A route written where find_slot says it is not yet goes in, and every other one
\* stays in its reach.
LEMMA Inserted ==
  ASSUME NEW t, NEW n, TableOK(t, n), NEW e \in Routes, e \notin Held(t),
         FindSlot(t, e) # -1
  PROVE  LET u == [t EXCEPT ![FindSlot(t, e)] = e] IN
         /\ TableOK(u, n)
         /\ Held(u) = Held(t) \cup {e}
         /\ Cardinality(Used(u)) = Cardinality(Used(t)) + 1
<1> DEFINE h == RcHash[e[1]]
           s == FindSlot(t, e)
           u == [t EXCEPT ![s] = e]
<1>1. /\ n \in Nat \ {0} /\ DOMAIN t = 0 .. n - 1 /\ t \in [0 .. n - 1 -> Routes \cup {Free}]
      /\ IsFiniteSet(Used(t)) /\ Cardinality(Used(t)) = Cardinality(Held(t))
      /\ Cardinality(Used(t)) \in Nat
      /\ \A i \in Used(t) : Reached(t, n, i)
      /\ \A i, j \in Used(t) : t[i] = t[j] => i = j
  BY TableFacts DEF TableOK
<1>2. e # Free BY MarksAssumption
<1>3. /\ s \in 0 .. n - 1 /\ t[s] = Free
      /\ \E k \in 0 .. n - 1 : /\ (h + k) % n = s
                               /\ \A j \in 0 .. k - 1 : t[(h + j) % n] # Free
  BY FindSlotIs
<1> HIDE DEF s
<1>4. /\ DOMAIN u = 0 .. n - 1 /\ u[s] = e /\ u \in [0 .. n - 1 -> Routes \cup {Free}]
      /\ \A i \in 0 .. n - 1 : i # s => u[i] = t[i]
  BY <1>1, <1>3
<1> HIDE DEF u
<1>5. Used(u) = Used(t) \cup {s} /\ s \notin Used(t) BY <1>1, <1>2, <1>3, <1>4 DEF Used
<1>6. Held(u) = Held(t) \cup {e}
  <2>1. ASSUME NEW r \in Held(u) PROVE r \in Held(t) \cup {e}
    <3>1. PICK i \in 0 .. n - 1 : r = u[i] /\ r # Free BY <1>4 DEF Held
    <3> QED BY <1>1, <1>4, <3>1 DEF Held
  <2>2. ASSUME NEW r \in Held(t) PROVE r \in Held(u)
    <3>1. PICK i \in 0 .. n - 1 : r = t[i] /\ r # Free BY <1>1 DEF Held
    <3>2. i # s BY <1>3, <3>1
    <3> QED BY <1>4, <3>1, <3>2 DEF Held
  <2>3. e \in Held(u) BY <1>2, <1>3, <1>4 DEF Held
  <2> QED BY <2>1, <2>2, <2>3
<1>7. Cardinality(Used(u)) = Cardinality(Used(t)) + 1 BY <1>1, <1>5, FS_AddElement
<1>8. Cardinality(Held(u)) = Cardinality(Held(t)) + 1
  <2>1. IsFiniteSet(Held(t)) BY HeldFinite
  <2> QED BY <1>6, <2>1, FS_AddElement
<1>9. ASSUME NEW i \in Used(u) PROVE Reached(u, n, i)
  <2>1. CASE i = s
    <3>1. PICK k \in 0 .. n - 1 : (h + k) % n = s /\ \A j \in 0 .. k - 1 : t[(h + j) % n] # Free BY <1>3
    <3>2. ASSUME NEW j \in 0 .. k - 1 PROVE u[(h + j) % n] # Free
      <4>1. j \in Nat BY <1>1, <3>1
      <4>2. (h + j) % n \in 0 .. n - 1 BY <1>1, <4>1, InTable, RouterCacheAssumption DEF Routes
      <4> QED BY <1>2, <1>4, <3>1, <4>2
    <3> QED BY <1>4, <2>1, <3>1, <3>2 DEF Reached
  <2>2. CASE i # s
    <3> DEFINE g == RcHash[t[i][1]]
    <3>1. i \in Used(t) /\ u[i] = t[i] /\ i \in 0 .. n - 1 /\ t[i] # Free BY <1>1, <1>4, <1>5, <2>2 DEF Used
    <3>2. PICK k \in 0 .. n - 1 : (g + k) % n = i /\ \A j \in 0 .. k - 1 : t[(g + j) % n] # Free
      BY <1>1, <3>1 DEF Reached
    <3>3. t[i] \in Routes BY <1>1, <3>1
    <3>4. g \in Nat BY <3>3, RouterCacheAssumption DEF Routes
    <3>5. u[i][1] = t[i][1] BY <3>1
    <3> HIDE DEF g
    <3>6. ASSUME NEW j \in 0 .. k - 1 PROVE u[(g + j) % n] # Free
      <4>1. j \in Nat BY <1>1, <3>2
      <4>2. (g + j) % n \in 0 .. n - 1 BY <1>1, <3>4, <4>1, InTable
      <4> QED BY <1>2, <1>4, <3>2, <4>2
    <3> QED BY <3>2, <3>5, <3>6 DEF Reached, g
  <2> QED BY <2>1, <2>2
<1>10. ASSUME NEW i \in Used(u), NEW j \in Used(u), u[i] = u[j] PROVE i = j
  <2>1. \A m \in Used(t) : m \in 0 .. n - 1 /\ m # s /\ u[m] = t[m] /\ t[m] # e
    BY <1>1, <1>2, <1>4, <1>5 DEF Used, Held
  <2> QED BY <1>1, <1>4, <1>5, <1>10, <2>1
<1>11. TableOK(u, n) BY <1>1, <1>4, <1>7, <1>8, <1>9, <1>10 DEF TableOK
<1> QED BY <1>6, <1>7, <1>11 DEF u, s

\* The tables of hash_table_resize, as it moves b slots of t into m new ones.
MovesBy(t, m, b, g) ==
  g = [i \in 0 .. b |-> IF i = 0 THEN Empty(m) ELSE Move(g[i - 1], t[i - 1])]

\* The recursion of Resize has a solution.
LEMMA MovesExist ==
  ASSUME NEW t, NEW m, NEW c \in Nat
  PROVE  \E g : MovesBy(t, m, c, g)
<1> DEFINE B == {b \in Nat : ~ \E g : MovesBy(t, m, b, g)}
<1>1. SUFFICES ASSUME B # {} PROVE FALSE OBVIOUS
<1>2. PICK b \in B : \A a \in B : b <= a
  <2>1. B \in SUBSET Nat OBVIOUS
  <2> HIDE DEF B
  <2> QED BY <1>1, <2>1, LeastNat
<1>3. b \in Nat /\ ~ \E g : MovesBy(t, m, b, g) BY <1>2
<1>4. CASE b = 0
  <2> DEFINE g == [i \in 0 .. 0 |-> Empty(m)]
  <2>1. g = [i \in 0 .. 0 |-> IF i = 0 THEN Empty(m) ELSE Move(g[i - 1], t[i - 1])] OBVIOUS
  <2> QED BY <1>3, <1>4, <2>1 DEF MovesBy
<1>5. CASE b # 0
  <2>1. b - 1 \in Nat /\ b - 1 \notin B BY <1>2, <1>3, <1>5
  <2>2. PICK g : MovesBy(t, m, b - 1, g) BY <2>1
  <2> DEFINE f == [i \in 0 .. b |-> IF i = b THEN Move(g[b - 1], t[b - 1]) ELSE g[i]]
  <2>3. \A i \in 0 .. b - 1 : g[i] = IF i = 0 THEN Empty(m) ELSE Move(g[i - 1], t[i - 1])
    BY <2>2 DEF MovesBy
  <2>4. ASSUME NEW i \in 0 .. b
        PROVE  f[i] = IF i = 0 THEN Empty(m) ELSE Move(f[i - 1], t[i - 1])
    <3>1. CASE i = b
      <4>1. i # 0 /\ i - 1 \in 0 .. b - 1 BY <1>3, <1>5, <3>1
      <4>2. f[i - 1] = g[i - 1] BY <1>3, <4>1
      <4> QED BY <3>1, <4>1, <4>2
    <3>2. CASE i # b
      <4>1. i \in 0 .. b - 1 /\ f[i] = g[i] BY <1>3, <3>2
      <4>2. i # 0 => i - 1 \in 0 .. b - 1 /\ f[i - 1] = g[i - 1] BY <1>3, <4>1
      <4> QED BY <2>3, <4>1, <4>2
    <3> QED BY <3>1, <3>2
  <2>5. f = [i \in 0 .. b |-> f[i]] OBVIOUS
  <2> HIDE DEF f
  <2>6. f = [i \in 0 .. b |-> IF i = 0 THEN Empty(m) ELSE Move(f[i - 1], t[i - 1])] BY <2>4, <2>5
  <2> QED BY <1>3, <2>6 DEF MovesBy
<1> QED BY <1>4, <1>5

\* An empty table.
LEMMA EmptyOK ==
  ASSUME NEW m \in Nat \ {0}
  PROVE  TableOK(Empty(m), m) /\ Held(Empty(m)) = {} /\ Cardinality(Used(Empty(m))) = 0
<1>1. Used(Empty(m)) = {} /\ Held(Empty(m)) = {} BY DEF Used, Held, Empty
<1>2. Empty(m) \in [0 .. m - 1 -> Routes \cup {Free}] BY DEF Empty
<1> QED BY <1>1, <1>2, FS_EmptySet DEF TableOK

\* hash_table_resize into a larger table: the same routes, all of them in reach.
LEMMA ResizeKeeps ==
  ASSUME NEW t, NEW n, TableOK(t, n), NEW m \in Nat, m > n
  PROVE  /\ TableOK(Resize(t, m), m) /\ Held(Resize(t, m)) = Held(t)
         /\ Cardinality(Used(Resize(t, m))) = Cardinality(Used(t))
<1>1. /\ n \in Nat \ {0} /\ DOMAIN t = 0 .. n - 1 /\ Slots(t) = n
      /\ t \in [0 .. n - 1 -> Routes \cup {Free}]
      /\ \A i, j \in Used(t) : t[i] = t[j] => i = j
      /\ Cardinality(Used(t)) = Cardinality(Held(t))
  BY TableFacts DEF TableOK
<1> DEFINE g == CHOOSE f : MovesBy(t, m, n, f)
<1>2. Resize(t, m) = g[n] BY <1>1 DEF Resize, MovesBy
<1>3. MovesBy(t, m, n, g) BY <1>1, MovesExist
<1> HIDE DEF g
<1>4. g[0] = Empty(m) /\ \A i \in 1 .. n : g[i] = Move(g[i - 1], t[i - 1])
  BY <1>1, <1>3 DEF MovesBy
<1> DEFINE First(i) == {t[j] : j \in 0 .. i - 1} \ {Free}
           Good(i) == /\ TableOK(g[i], m) /\ Held(g[i]) = First(i)
                      /\ Cardinality(Used(g[i])) <= i
           B == {i \in 0 .. n : ~Good(i)}
<1>5. B = {}
  <2>1. SUFFICES ASSUME B # {} PROVE FALSE OBVIOUS
  <2>2. PICK b \in B : \A a \in B : b <= a
    <3>1. B \in SUBSET Nat BY <1>1
    <3> HIDE DEF B
    <3> QED BY <2>1, <3>1, LeastNat
  <2>3. b \in 0 .. n /\ ~Good(b) BY <2>2
  <2>4. Good(0)
    <3>1. First(0) = {} BY <1>1
    <3> QED BY <1>1, <1>4, <3>1, EmptyOK
  <2>5. b # 0 /\ b - 1 \in 0 .. n - 1 /\ b \in 1 .. n BY <1>1, <2>3, <2>4
  <2>6. Good(b - 1)
    <3>1. b - 1 \in 0 .. n /\ ~(b <= b - 1) BY <1>1, <2>5
    <3> HIDE DEF Good
    <3> QED BY <2>2, <3>1
  <2> DEFINE u == g[b - 1]
             e == t[b - 1]
  <2>7. g[b] = Move(u, e) BY <1>4, <2>5
  <2>8. First(b) = IF e = Free THEN First(b - 1) ELSE First(b - 1) \cup {e}
    <3>1. \A j : j \in 0 .. b - 1 <=> j \in 0 .. (b - 1) - 1 \/ j = b - 1 BY <1>1, <2>5
    <3> QED BY <3>1
  <2>9. /\ TableOK(u, m) /\ Held(u) = First(b - 1) /\ Cardinality(Used(u)) <= b - 1
    BY <2>6
  <2>10. Cardinality(Used(u)) \in Nat BY <2>9, TableFacts
  <2> HIDE DEF u
  <2>11. CASE e = Free
    <3>1. g[b] = u BY <2>7, <2>11 DEF Move
    <3>2. Cardinality(Used(u)) <= b BY <1>1, <2>5, <2>9, <2>10
    <3> QED BY <2>3, <2>8, <2>9, <2>11, <3>1, <3>2
  <2>12. CASE e # Free
    <3>1. e \in Routes BY <1>1, <2>5, <2>12
    <3>2. e \notin First(b - 1)
      <4>1. SUFFICES ASSUME NEW j \in 0 .. (b - 1) - 1, t[j] = e PROVE FALSE OBVIOUS
      <4>2. j \in 0 .. n - 1 /\ j # b - 1 BY <1>1, <2>5, <4>1
      <4> QED BY <1>1, <2>5, <2>12, <4>1, <4>2 DEF Used
    <3>3. Used(u) # 0 .. m - 1
      <4>1. Cardinality(0 .. m - 1) = m BY <2>9, TableFacts DEF Slots
      <4>2. Cardinality(Used(u)) < m BY <1>1, <2>5, <2>9, <2>10
      <4> QED BY <1>1, <4>1, <4>2
    <3>4. FindSlot(u, e) # -1 BY <2>9, <3>1, <3>3, FindSlotIs
    <3> DEFINE v == [u EXCEPT ![FindSlot(u, e)] = e]
    <3>5. TableOK(v, m) /\ Held(v) = Held(u) \cup {e} /\ Cardinality(Used(v)) = Cardinality(Used(u)) + 1
      BY <2>9, <3>1, <3>2, <3>4, Inserted
    <3>6. g[b] = v BY <2>7, <2>12 DEF Move
    <3>7. Cardinality(Used(v)) <= b BY <1>1, <2>5, <2>9, <2>10, <3>5
    <3> HIDE DEF v
    <3> QED BY <2>3, <2>8, <2>9, <2>12, <3>5, <3>6, <3>7
  <2> QED BY <2>11, <2>12
<1>6. TableOK(g[n], m) /\ Held(g[n]) = First(n)
  <2>1. n \in 0 .. n BY <1>1
  <2>2. n \notin B BY <1>5
  <2> QED BY <2>1, <2>2
<1>7. First(n) = Held(t) BY <1>1 DEF Held
<1>8. Cardinality(Used(g[n])) = Cardinality(Held(g[n])) BY <1>6 DEF TableOK
<1> QED BY <1>1, <1>2, <1>6, <1>7, <1>8

\* What add_to_hash_table inserts into holds what the table held, and has room
\* unless the table is full at its largest size.
LEMMA LargerKeeps ==
  ASSUME NEW n, TableOK(rc_table, n), rc_count = Cardinality(Used(rc_table))
  PROVE  \E m \in Nat :
           /\ TableOK(Larger(rc_table), m) /\ Held(Larger(rc_table)) = Held(rc_table)
           /\ Cardinality(Used(Larger(rc_table))) = rc_count
           /\ rc_count = m => rc_count >= MaxSize
<1> DEFINE t == rc_table
           m == Min({2 * n, MaxSize})
<1>1. /\ n \in Nat \ {0} /\ Slots(t) = n
      /\ rc_count \in Nat /\ rc_count <= n
  BY TableFacts DEF TableOK
<1>2. m \in {2 * n, MaxSize} /\ m <= 2 * n /\ m <= MaxSize /\ m \in Nat
  <2>1. {2 * n, MaxSize} \in SUBSET Nat BY <1>1, RouterCacheAssumption
  <2> QED BY <2>1, MinIsLeast
<1>3. Larger(t) = IF rc_count >= (n * 3) \div 4 /\ m > n THEN Resize(t, m) ELSE t
  BY <1>1 DEF Larger, Threshold
<1> HIDE DEF m
<1>4. CASE rc_count >= (n * 3) \div 4 /\ m > n
  <2>1. Larger(t) = Resize(t, m) BY <1>3, <1>4
  <2>2. /\ TableOK(Resize(t, m), m) /\ Held(Resize(t, m)) = Held(t)
        /\ Cardinality(Used(Resize(t, m))) = rc_count
    BY <1>2, <1>4, ResizeKeeps
  <2>3. rc_count # m BY <1>1, <1>2, <1>4
  <2> QED BY <1>2, <2>1, <2>2, <2>3
<1>5. CASE ~(rc_count >= (n * 3) \div 4 /\ m > n)
  <2>1. Larger(t) = t BY <1>3, <1>5
  <2>2. rc_count = n => rc_count >= MaxSize
    <3>1. SUFFICES ASSUME rc_count = n PROVE n >= MaxSize OBVIOUS
    <3>2. n >= (n * 3) \div 4 BY <1>1
    <3>3. ~(m > n) BY <1>1, <1>5, <3>1, <3>2
    <3> QED BY <1>1, <1>2, <3>3, RouterCacheAssumption
  <2> QED BY <1>1, <2>1, <2>2
<1> QED BY <1>4, <1>5

\* The marks of an empty slot and of no route, and the static route.
LEMMA MarksDiffer == NoRoute # STATIC
<1>1. NoRoute[2] # STATIC[2] BY Zenon DEF NoRoute, STATIC
<1> QED BY <1>1

-----------------------------------------------------------------------------
(* Lookups in a table.                                                     *)

FindIn(t, path, method) ==
  LET e == Exact(t, path, method) IN
  IF e \notin {Free, NoRoute} THEN e ELSE ByPattern(t, path, method)

Mine(t, method) == {r \in Held(t) : r[2] \in {method, "ANY"}}
ExactIn(t, path, method) == {r \in Mine(t, method) : r[1] = path}
PatternIn(t, path, method) ==
  {r \in Mine(t, method) : r[1] \in RcParams /\ path \in RcFits[r[1]]}
FitIn(t, path, method) ==
  IF ExactIn(t, path, method) # {} THEN ExactIn(t, path, method) ELSE PatternIn(t, path, method)

\* The first search ends at a route of the path, if there is one.
LEMMA ExactFinds ==
  ASSUME NEW t, NEW n, TableOK(t, n), NEW path \in RcRequests, NEW method \in RcMethods
  PROVE  IF ExactIn(t, path, method) # {} THEN Exact(t, path, method) \in ExactIn(t, path, method)
         ELSE Exact(t, path, method) \in {Free, NoRoute}
<1> DEFINE h == RcHash[path]
           ends == {Free, <<path, method>>, <<path, "ANY">>}
           k == Steps(t, path, ends)
           e == Exact(t, path, method)
<1>1. /\ n \in Nat \ {0} /\ DOMAIN t = 0 .. n - 1 /\ Slots(t) = n
      /\ t \in [0 .. n - 1 -> Routes \cup {Free}]
  BY TableFacts DEF TableOK
<1>2. h \in Nat BY RouterCacheAssumption
<1>3. /\ k \in 0 .. n /\ (k < n => t[(h + k) % n] \in ends)
      /\ \A j \in 0 .. n - 1 : j < k => t[(h + j) % n] \notin ends
  <2> HIDE DEF ends
  <2> QED BY <1>1, StepsIs
<1>4. e = IF k = n THEN NoRoute ELSE t[(h + k) % n] BY <1>1 DEF Exact, Probe
<1> HIDE DEF k, h, e
<1>5. k < n => (h + k) % n \in 0 .. n - 1
  <2>1. k \in Nat BY <1>1, <1>3
  <2> QED BY <1>1, <1>2, <2>1, InTable
<1>6. ASSUME k < n, e # Free PROVE e \in ExactIn(t, path, method)
  <2>1. e = t[(h + k) % n] /\ e \in {<<path, method>>, <<path, "ANY">>} BY <1>1, <1>3, <1>4, <1>6
  <2>2. e \in Held(t) BY <1>1, <1>5, <1>6, <2>1 DEF Held
  <2>3. e[1] = path /\ e[2] \in {method, "ANY"} BY <2>1
  <2> QED BY <2>2, <2>3 DEF ExactIn, Mine
<1>7. ASSUME ExactIn(t, path, method) # {} PROVE k < n /\ e # Free
  <2>1. PICK r \in Held(t) : r[1] = path /\ r[2] \in {method, "ANY"}
    BY <1>7 DEF ExactIn, Mine
  <2>2. PICK i \in DOMAIN t : t[i] = r /\ r # Free BY DEF Held
  <2>3. r \in Routes BY <1>1, <2>2
  <2>4. r \in ends BY <2>1, <2>3 DEF Routes
  <2>5. PICK m \in 0 .. n - 1 : (h + m) % n = i /\ \A j \in 0 .. m - 1 : t[(h + j) % n] # Free
    BY <2>1, <2>2 DEF TableOK, Reached, Used, h
  <2> HIDE DEF ends
  <2>6. k <= m BY <1>1, <1>3, <2>2, <2>4, <2>5
  <2>7. k < n /\ e = t[(h + k) % n] BY <1>1, <1>3, <1>4, <2>6
  <2>8. CASE k = m BY <2>2, <2>5, <2>7, <2>8
  <2>9. CASE k # m BY <1>1, <1>3, <2>5, <2>6, <2>7, <2>9
  <2> QED BY <2>7, <2>8, <2>9
<1>8. CASE ExactIn(t, path, method) # {} BY <1>6, <1>7, <1>8 DEF e
<1>9. CASE ExactIn(t, path, method) = {}
  <2>1. k = n \/ e = Free BY <1>1, <1>3, <1>6, <1>9
  <2> QED BY <1>4, <1>9, <2>1 DEF e
<1> QED BY <1>8, <1>9

\* The second finds a pattern that fits, if there is one.
LEMMA PatternFinds ==
  ASSUME NEW t, NEW n, TableOK(t, n), NEW path \in RcRequests, NEW method \in RcMethods
  PROVE  IF PatternIn(t, path, method) # {}
         THEN ByPattern(t, path, method) \in PatternIn(t, path, method)
         ELSE ByPattern(t, path, method) = NoRoute
<1> DEFINE fit == {i \in DOMAIN t : t[i] # Free /\ t[i][2] \in {method, "ANY"}
                                /\ t[i][1] \in RcParams /\ path \in RcFits[t[i][1]]}
<1>1. n \in Nat /\ DOMAIN t = 0 .. n - 1 BY TableFacts DEF TableOK
<1>2. ByPattern(t, path, method) = IF fit = {} THEN NoRoute ELSE t[Min(fit)] BY DEF ByPattern
<1>3. PatternIn(t, path, method) = {t[i] : i \in fit} BY DEF PatternIn, Mine, Held
<1>4. fit \in SUBSET Nat BY <1>1
<1> HIDE DEF fit
<1>5. fit # {} => Min(fit) \in fit BY <1>4, MinIsLeast
<1> QED BY <1>2, <1>3, <1>5

\* A lookup finds a route that fits, and nothing only if none does.
LEMMA LookupFinds ==
  ASSUME NEW t, NEW n, TableOK(t, n), NEW path \in RcRequests, NEW method \in RcMethods
  PROVE  IF FitIn(t, path, method) = {} THEN FindIn(t, path, method) = NoRoute
         ELSE FindIn(t, path, method) \in FitIn(t, path, method)
<1>1. Held(t) \subseteq Routes BY DEF TableOK, Held
<1>2. ExactIn(t, path, method) \subseteq Routes BY <1>1 DEF ExactIn, Mine
<1>3. \A r \in Routes : r \notin {Free, NoRoute} BY MarksAssumption
<1> QED BY <1>2, <1>3, ExactFinds, PatternFinds DEF FindIn, FitIn

-----------------------------------------------------------------------------
(* The invariant of the router cache.                                      *)

RcInv ==
  /\ TableOK(rc_table, Slots(rc_table))
  /\ rc_count = Cardinality(Used(rc_table))
  /\ rc_crashed => rc_count >= MaxSize
  /\ rc_static \in [prefix : BOOLEAN, context : {"none", "files", "mime"}]
  /\ rc_binaries # {} => rc_static.context # "none"

\* A new router cache satisfies the invariant.
LEMMA RcStart == RouterCacheInit => RcInv
<1> SUFFICES ASSUME RouterCacheInit PROVE RcInv OBVIOUS
<1>1. BaseSize \in Nat \ {0} BY RouterCacheAssumption
<1>2. TableOK(Empty(BaseSize), BaseSize) /\ Cardinality(Used(Empty(BaseSize))) = 0
  BY <1>1, EmptyOK
<1>3. Slots(Empty(BaseSize)) = BaseSize BY <1>2, TableFacts
<1> QED BY <1>2, <1>3 DEF RouterCacheInit, RcInv

\* add_to_hash_table: a new route goes in, one that is there changes nothing, and
\* the others stay, wherever they were moved.
LEMMA AddStep ==
  ASSUME RcInv, ~rc_crashed, NEW route \in Routes, Add(route)
  PROVE  /\ TableOK(rc_table', Slots(rc_table')) /\ rc_count' = Cardinality(Used(rc_table'))
         /\ rc_crashed' => rc_count' >= MaxSize
         /\ rc_count' # rc_count => route \notin Held(rc_table)
<1> DEFINE t == Larger(rc_table)
           slot == FindSlot(t, route)
<1>1. TableOK(rc_table, Slots(rc_table)) /\ rc_count = Cardinality(Used(rc_table)) BY DEF RcInv
<1>2. PICK m \in Nat : /\ TableOK(t, m) /\ Held(t) = Held(rc_table)
                       /\ Cardinality(Used(t)) = rc_count
                       /\ rc_count = m => rc_count >= MaxSize
  BY <1>1, LargerKeeps
<1> HIDE DEF t
<1>3. /\ slot \in (0 .. m - 1) \cup {-1}
      /\ slot = -1 => Used(t) = 0 .. m - 1 /\ route \notin Held(t)
      /\ slot # -1 /\ route \in Held(t) => t[slot] = route
  BY <1>2, FindSlotIs
<1>4. route # Free BY MarksAssumption
<1>5. DOMAIN t = 0 .. m - 1 /\ Slots(t) = m BY <1>2, TableFacts
<1> USE DEF t
<1>6. \/ /\ slot >= 0 /\ t[slot] = Free
         /\ rc_table' = [t EXCEPT ![slot] = route] /\ rc_count' = rc_count + 1
         /\ UNCHANGED rc_crashed
      \/ /\ slot >= 0 /\ t[slot] = route
         /\ rc_table' = t /\ UNCHANGED <<rc_count, rc_crashed>>
      \/ slot < 0 /\ UNCHANGED <<rc_table, rc_count>>
      \/ UNCHANGED <<rc_table, rc_count, rc_crashed>>
  BY DEF Add
<1> HIDE DEF t, slot
<1>7. CASE /\ slot >= 0 /\ t[slot] = Free
           /\ rc_table' = [t EXCEPT ![slot] = route] /\ rc_count' = rc_count + 1
           /\ UNCHANGED rc_crashed
  <2>1. slot # -1 /\ route \notin Held(t) BY <1>3, <1>4, <1>7
  <2>2. TableOK(rc_table', m) /\ Cardinality(Used(rc_table')) = rc_count + 1
    BY <1>2, <1>7, <2>1, Inserted DEF slot
  <2>3. Slots(rc_table') = m BY <2>2, TableFacts
  <2> QED BY <1>2, <1>7, <2>1, <2>2, <2>3
<1>8. CASE /\ slot >= 0 /\ t[slot] = route
           /\ rc_table' = t /\ UNCHANGED <<rc_count, rc_crashed>>
  BY <1>2, <1>5, <1>8
<1>9. CASE slot < 0 /\ UNCHANGED <<rc_table, rc_count>>
  <2>1. Used(t) = 0 .. m - 1 BY <1>3, <1>9
  <2>2. Cardinality(Used(t)) = m BY <1>5, <2>1 DEF Slots
  <2> QED BY <1>1, <1>2, <1>9, <2>2
<1>10. CASE UNCHANGED <<rc_table, rc_count, rc_crashed>> BY <1>1, <1>10 DEF RcInv
<1> QED BY <1>6, <1>7, <1>8, <1>9, <1>10

\* Every call keeps the invariant; a call that grows rc_binaries added a new route.
LEMMA RcStep ==
  ASSUME RcInv, [RouterCacheNext]_routerCacheVars
  PROVE  /\ RcInv'
         /\ \/ rc_binaries' = rc_binaries
            \/ \E r \in Routes : r \notin Held(rc_table) /\ rc_binaries' = rc_binaries \cup {r}
<1>1. ASSUME NEW route \in Routes, RcAddRouteMethod(route)
      PROVE  RcInv' /\ rc_binaries' = rc_binaries
  <2>1. ~rc_crashed /\ Add(route) /\ UNCHANGED <<rc_static, rc_binaries>>
    BY <1>1 DEF RcAddRouteMethod
  <2> QED BY <2>1, AddStep DEF RcInv
<1>2. ASSUME NEW path \in RcPaths, RcAddBinaryRoute(path)
      PROVE  /\ RcInv'
             /\ \/ rc_binaries' = rc_binaries
                \/ \E r \in Routes : r \notin Held(rc_table) /\ rc_binaries' = rc_binaries \cup {r}
  <2> DEFINE r == <<path, "ANY">>
  <2>1. r \in Routes BY DEF Routes
  <2>2. /\ ~rc_crashed /\ Add(r) /\ rc_static' = [rc_static EXCEPT !.context = "mime"]
        /\ rc_binaries' = IF rc_count' = rc_count THEN rc_binaries ELSE rc_binaries \cup {r}
    BY <1>2 DEF RcAddBinaryRoute
  <2> HIDE DEF r
  <2>3. /\ rc_static' \in [prefix : BOOLEAN, context : {"none", "files", "mime"}]
        /\ rc_static'.context = "mime"
    BY <2>2 DEF RcInv
  <2> QED BY <2>1, <2>2, <2>3, AddStep DEF RcInv
<1>3. ASSUME RcAddStaticRoute PROVE RcInv' /\ rc_binaries' = rc_binaries
  <2>1. /\ UNCHANGED <<rc_table, rc_count, rc_binaries, rc_crashed>>
        /\ \/ rc_static' = [prefix |-> TRUE, context |-> "files"]
           \/ rc_static' = [rc_static EXCEPT !.prefix = FALSE]
    BY <1>3 DEF RcAddStaticRoute
  <2>2. rc_static \in [prefix : BOOLEAN, context : {"none", "files", "mime"}] BY DEF RcInv
  <2>3. /\ rc_static' \in [prefix : BOOLEAN, context : {"none", "files", "mime"}]
        /\ rc_static.context # "none" => rc_static'.context # "none"
    <3>1. CASE rc_static' = [prefix |-> TRUE, context |-> "files"] BY <3>1
    <3>2. CASE rc_static' = [rc_static EXCEPT !.prefix = FALSE]
      <4>1. \A r \in [prefix : BOOLEAN, context : {"none", "files", "mime"}] :
              LET q == [r EXCEPT !.prefix = FALSE] IN
              /\ q \in [prefix : BOOLEAN, context : {"none", "files", "mime"}]
              /\ q.context = r.context
        OBVIOUS
      <4> QED BY <2>2, <3>2, <4>1
    <3> QED BY <2>1, <3>1, <3>2
  <2> QED BY <2>1, <2>3 DEF RcInv
<1>4. CASE RcAddFallbackRoute BY <1>4 DEF RcAddFallbackRoute, RcInv
<1>5. CASE UNCHANGED routerCacheVars BY <1>5 DEF routerCacheVars, RcInv
<1> QED BY <1>1, <1>2, <1>3, <1>4, <1>5 DEF RouterCacheNext

\* The model's lookups are those of the table.
LEMMA SameLookups ==
  ASSUME NEW path, NEW method
  PROVE  /\ FindInHashTable(path, method) = FindIn(rc_table, path, method)
         /\ Fitting(path, method) = FitIn(rc_table, path, method)
         /\ Registered = Held(rc_table)
BY DEF FindInHashTable, FindIn, Fitting, FitIn, ExactIn, PatternIn, Mine, Registered, Held

\* The same after a step.
LEMMA SameLookupsNext ==
  ASSUME NEW path, NEW method
  PROVE  /\ FindInHashTable(path, method)' = FindIn(rc_table', path, method)
         /\ Fitting(path, method)' = FitIn(rc_table', path, method)
BY DEF FindInHashTable, FindIn, Fitting, FitIn, ExactIn, PatternIn, Mine, Registered, Held

\* In every table that the invariant allows, RoutesFound holds.
LEMMA RcInvFinds == RcInv => RoutesFound
<1> SUFFICES ASSUME RcInv PROVE RoutesFound OBVIOUS
<1>1. ASSUME NEW path \in RcRequests, NEW method \in RcMethods
      PROVE  IF Fitting(path, method) = {} THEN FindInHashTable(path, method) = NoRoute
             ELSE FindInHashTable(path, method) \in Fitting(path, method)
  BY LookupFinds, SameLookups DEF RcInv
<1>2. ASSUME NEW path \in RcRequests, NEW method \in RcMethods
      PROVE  rc_fallback \/ rc_trie \/ RcMatch(path, method) = RcFindHandler(path, method)
  BY DEF RcMatch, RcFindHandler
<1>3. rc_count = Cardinality(Registered) BY SameLookups DEF RcInv, TableOK
<1>4. rc_count = Cardinality({i \in DOMAIN rc_table : rc_table[i] # Free}) BY DEF RcInv, Used
<1> QED BY <1>1, <1>2, <1>3, <1>4 DEF RoutesFound, RcInv

\* For every set of routes, hash function and table size, whatever collides and
\* however often hash_table_resize moved everything: find_in_hash_table_ex finds
\* a route of the path, else a pattern that fits, and nothing only if there is
\* neither; add_to_hash_table runs out of slots only at the largest size.
THEOREM RoutesAreFound == RouterCacheSpec => []RoutesFound
<1>1. RcInv /\ [RouterCacheNext]_routerCacheVars => RcInv' BY RcStep
<1> QED BY <1>1, RcStart, RcInvFinds, PTL DEF RouterCacheSpec

\* uvhttp_router_add_route_method and its kin leave the answers to requests alone
\* that the new route does not fit, even when they move every route of the table,
\* but for the overwritten static_context that the property names.
THEOREM AddsKeepOthers == RouterCacheSpec => RcAddKeepsOthers
<1>1. RcInv /\ [RouterCacheNext]_routerCacheVars => RcInv' BY RcStep
<1> DEFINE A == <<rc_table, rc_static>>' # <<rc_table, rc_static>> =>
      \A path \in RcRequests, method \in RcMethods :
        /\ Fitting(path, method)' = Fitting(path, method)
        /\ Cardinality(Fitting(path, method)) <= 1
        /\ rc_fallback' = rc_fallback
        /\ (rc_static' = rc_static /\ rc_binary' = rc_binary) \/ FirstContext
        => Answer(path, method)' = Answer(path, method)
<1>2. RcInv /\ [RouterCacheNext]_routerCacheVars => A
  <2> SUFFICES ASSUME RcInv, [RouterCacheNext]_routerCacheVars,
                      NEW path \in RcRequests, NEW method \in RcMethods,
                      Fitting(path, method)' = Fitting(path, method),
                      Cardinality(Fitting(path, method)) <= 1,
                      rc_fallback' = rc_fallback,
                      (rc_static' = rc_static /\ rc_binary' = rc_binary) \/ FirstContext
               PROVE  Answer(path, method)' = Answer(path, method)
    OBVIOUS
  <2> DEFINE F == FitIn(rc_table, path, method)
             e == FindIn(rc_table, path, method)
             f == FindIn(rc_table', path, method)
  <2>1. TableOK(rc_table, Slots(rc_table)) /\ TableOK(rc_table', Slots(rc_table'))
    BY RcStep DEF RcInv
  <2>2. F = FitIn(rc_table', path, method) /\ Cardinality(F) <= 1
    BY SameLookups, SameLookupsNext
  <2>3. /\ IF F = {} THEN e = NoRoute ELSE e \in F
        /\ IF F = {} THEN f = NoRoute ELSE f \in F
    BY <2>1, <2>2, LookupFinds
  <2>4. F \in SUBSET Held(rc_table) BY DEF FitIn, ExactIn, PatternIn, Mine
  <2>5. e = f
    <3>1. SUFFICES ASSUME F # {}, e # f PROVE FALSE BY <2>3
    <3>2. IsFiniteSet(F) BY <2>1, <2>4, HeldFinite, FS_Subset
    <3> HIDE DEF F, e, f
    <3>3. IsFiniteSet(F \ {e}) /\ Cardinality(F \ {e}) = Cardinality(F) - 1 /\ f \in F \ {e}
      BY <2>3, <3>1, <3>2, FS_RemoveElement
    <3>4. Cardinality((F \ {e}) \ {f}) = Cardinality(F \ {e}) - 1 /\ IsFiniteSet((F \ {e}) \ {f})
      BY <3>3, FS_RemoveElement
    <3>5. Cardinality((F \ {e}) \ {f}) \in Nat /\ Cardinality(F) \in Nat BY <3>2, <3>4, FS_CardinalityType
    <3> QED BY <2>2, <3>3, <3>4, <3>5
  <2>6. e = NoRoute \/ e \in Held(rc_table) BY <2>3, <2>4
  <2>7. e # STATIC BY <2>1, <2>6, MarksDiffer, MarksAssumption, HeldFinite
  <2>8. e \in rc_binaries' <=> e \in rc_binaries
    <3>1. NoRoute \notin Routes BY MarksAssumption
    <3> QED BY <2>6, <3>1, RcStep
  <2>9. FindInHashTable(path, method) = e /\ FindInHashTable(path, method)' = e
    BY <2>5, SameLookups, SameLookupsNext
  <2> HIDE DEF e, f, F
  <2>10. CASE rc_static' = rc_static /\ rc_binary' = rc_binary
    <3>1. /\ RcFindHandler(path, method)' = RcFindHandler(path, method)
          /\ RcFindHandler(path, method) \in {e, STATIC}
      BY <2>9, <2>10 DEF RcFindHandler, UnderPrefix
    <3>2. StaticContext' = StaticContext /\ BinaryAnswer' = BinaryAnswer
      BY <2>10 DEF StaticContext, BinaryAnswer
    <3> QED BY <2>8, <3>1, <3>2 DEF Answer
  <2>11. CASE FirstContext
    <3>1. RcFindHandler(path, method)' = e /\ RcFindHandler(path, method) = e
      BY <2>9, <2>11 DEF RcFindHandler, UnderPrefix, FirstContext
    <3>2. e \notin rc_binaries BY <2>11 DEF FirstContext, RcInv
    <3> QED BY <2>7, <2>8, <3>1, <3>2 DEF Answer
  <2> QED BY <2>10, <2>11
<1>3. RouterCacheSpec => [][A]_routerCacheVars
  <2> HIDE DEF A
  <2> QED BY <1>1, <1>2, RcStart, PTL DEF RouterCacheSpec
<1> QED BY <1>3 DEF RcAddKeepsOthers
=============================================================================
