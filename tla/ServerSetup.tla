----------------------------- MODULE ServerSetup -----------------------------
(***************************************************************************)
(* Putting a server together and taking it down: the objects that an       *)
(* application makes and hands to the server (uvhttp_server.c), those that *)
(* the server, its builder and the context (uvhttp_context.c) make         *)
(* themselves, and who frees which of them.                                *)
(*                                                                         *)
(* There is one rule under which the code is right: the application hands  *)
(* an object over once and does not free it afterwards.  It need not       *)
(* follow the rule: docs and examples of the repository depart from it.    *)
(* An object that a setter replaces without freeing it is the              *)
(* application's again.  Connections that are open when a server is freed  *)
(* are in Connection.                                                      *)
(***************************************************************************)
EXTENDS Integers, Sequences, FiniteSets

CONSTANTS
  Routers, Configs, Contexts, TlsContexts, \* the objects there may be
  Habits   \* in which ways the application may depart from the rule

\* It frees an object that is held, or that its holder has freed, or it hands one
\* over that is held already.
Departures == {"freed_held", "freed_after", "shared"}

NoObject == "none"
Objects == Routers \cup Configs \cup Contexts \cup TlsContexts

\* Structs of four types, none of which is NULL or one of the server's fields.
ASSUME SetupAssumption ==
  /\ Routers \cap (Configs \cup Contexts \cup TlsContexts) = {}
  /\ Configs \cap (Contexts \cup TlsContexts) = {} /\ Contexts \cap TlsContexts = {}
  /\ Objects \cap {NoObject, "router", "tls", "config", "context"} = {}
  /\ Habits \subseteq Departures

VARIABLES
  su_mem,     \* of each object: unused, the app's, held by another, freed
  su_twice,   \* objects freed when they were freed already
  su_mine,    \* what Mine keeps of the objects that the application made
  su_strayed, \* how the application departed from the rule so far
  su_server,  \* the uvhttp_server_t and what it points to
  su_ctx      \* the contexts: which parts are initialised, current_config

setupVars == <<su_mem, su_twice, su_mine, su_strayed, su_server, su_ctx>>
appVars == <<su_mine, su_strayed>>

NoServer == [state |-> "none", handle |-> "none", listening |-> FALSE, router |-> NoObject,
             tls |-> NoObject, config |-> NoObject, context |-> NoObject]

EmptyContext == [initialized |-> FALSE, tls |-> FALSE, ws |-> FALSE, config |-> NoObject]

SetupInit ==
  /\ su_mem = [x \in Objects |-> "unused"] /\ su_twice = {}
  /\ su_mine = {} /\ su_strayed = {}
  /\ su_server = NoServer
  /\ su_ctx = [x \in Contexts |-> EmptyContext]

-----------------------------------------------------------------------------
(* Memory.                                                                 *)

\* The next object of a kind: which of those not made yet is all the same.
Fresh(S) ==
  LET unused == {x \in S : su_mem[x] = "unused"} IN
  IF unused = {} THEN {} ELSE {CHOOSE x \in unused : TRUE}

Live(S) == {x \in S : su_mem[x] \in {"app", "held"}}

\* The state of memory with x in state s; NoObject has none, and a freed object
\* stays freed.
Turned(mem, x, s) ==
  IF x = NoObject THEN mem ELSE [mem EXCEPT ![x] = IF @ = "freed" THEN @ ELSE s]

\* The objects of a sequence are freed one after the other.
FreeAll(mem, seq) ==
  LET objs == {seq[i] : i \in DOMAIN seq} \ {NoObject} IN
  /\ su_mem' = [x \in Objects |-> IF x \in objs THEN "freed" ELSE mem[x]]
  /\ su_twice' = su_twice \cup
       {x \in objs : mem[x] = "freed" \/ \E i, j \in DOMAIN seq : i # j /\ seq[i] = x /\ seq[j] = x}

\* What uvhttp_context_destroy frees, the subsystems of the context apart.
ContextParts(x) == IF x = NoObject THEN <<>> ELSE <<su_ctx[x].config, x>>

\* cleanup_tls, cleanup_websocket and cleanup_config of the contexts in S
Emptied(S) == [x \in Contexts |-> IF x \in S THEN EmptyContext ELSE su_ctx[x]]

\* The objects that the application may still free or hand over although they are
\* held: it made them and has not freed them itself.  One that keeps to the rule
\* does neither.
Mine(S) == IF Habits = {} THEN {} ELSE S

\* uvhttp_router_new, uvhttp_config_new, uvhttp_context_create and
\* uvhttp_tls_context_new, for the application
NewObject(x) ==
  /\ \E S \in {Routers, Configs, Contexts, TlsContexts} : x \in Fresh(S)
  /\ su_mem' = [su_mem EXCEPT ![x] = "app"] /\ su_mine' = Mine(su_mine \cup {x})
  /\ UNCHANGED <<su_twice, su_strayed, su_server, su_ctx>>

\* The application departs from the rule in the ways of S, if it does so at all.
Departs(S) == S \subseteq Habits /\ su_strayed' = su_strayed \cup S

\* ... and their counterparts, once for each object.
FreeObject(x) ==
  /\ su_mem[x] = "app" \/ (su_mem[x] \in {"held", "freed"} /\ x \in su_mine)
  /\ Departs(IF su_mem[x] = "held" THEN {"freed_held"}
             ELSE IF su_mem[x] = "freed" THEN {"freed_after"} ELSE {})
  /\ su_mine' = su_mine \ {x}
  /\ FreeAll(su_mem, IF x \in Contexts THEN ContextParts(x) ELSE <<x>>)
  /\ su_ctx' = Emptied({x})
  /\ UNCHANGED su_server

\* The application hands over x, which it made or which a setter gave back.
Handed(x) ==
  /\ su_mem[x] = "app" \/ (su_mem[x] = "held" /\ x \in su_mine)
  /\ Departs(IF su_mem[x] = "held" THEN {"shared"} ELSE {})
  /\ UNCHANGED su_mine

-----------------------------------------------------------------------------
(* The context.                                                            *)

\* uvhttp_context_init: each part may fail, and what a part got before it failed
\* is given back; the context counts as initialised all the same.
ContextInit(x) ==
  \E tls, ws \in BOOLEAN, c \in Fresh(Configs) \cup {NoObject} :
    /\ su_mem[x] \in {"app", "held"} /\ ~su_ctx[x].initialized
    /\ su_ctx[x].config # NoObject => c = NoObject
    /\ su_ctx' = [su_ctx EXCEPT ![x] =
         [initialized |-> TRUE, tls |-> tls, ws |-> ws,
          config |-> IF @.config # NoObject THEN @.config ELSE c]]
    /\ su_mem' = Turned(su_mem, c, "held")
    /\ UNCHANGED <<appVars, su_twice, su_server>>

\* uvhttp_config_set_current: the configuration before it is not freed.
SetCurrent(x, c) ==
  /\ su_mem[x] \in {"app", "held"} /\ Handed(c)
  /\ su_ctx' = [su_ctx EXCEPT ![x].config = c]
  /\ su_mem' = Turned(Turned(su_mem, su_ctx[x].config, "app"), c, "held")
  /\ UNCHANGED <<su_twice, su_server>>

-----------------------------------------------------------------------------
(* The server.                                                             *)

FreshServer == [NoServer EXCEPT !.state = "live", !.handle = "open"]

\* uvhttp_server_new, and with a loop of its own
ServerNew ==
  /\ su_server.state = "none" /\ su_server' = FreshServer
  /\ UNCHANGED <<appVars, su_mem, su_twice, su_ctx>>

\* What uvhttp_server_free frees, in its order.
ServerParts(s) == <<s.router, s.tls, s.config>> \o ContextParts(s.context)

\* Mutant: router and config are freed next to the server that has them.
ListenFailedFreesParts(r, c) ==
  FreeAll(su_mem, <<r, c>> \o ServerParts([FreshServer EXCEPT !.router = r, !.config = c]))

\* create_simple_server_internal behind a listen that failed: the server has the
\* router and the configuration by then and frees them.
ListenFailed(r, c) ==
  FreeAll(su_mem, ServerParts([FreshServer EXCEPT !.router = r, !.config = c]))

\* uvhttp_server_create: no configuration for want of memory, no port to listen
\* on, or a server.  Its other failures leave nothing behind.
ServerCreate(r, c) ==
  /\ su_server.state = "none" /\ r \in Fresh(Routers) /\ c \in Fresh(Configs)
  /\ \/ /\ FreeAll(su_mem, <<r>> \o ServerParts(FreshServer)) /\ UNCHANGED su_server
     \/ /\ ListenFailed(r, c) /\ UNCHANGED su_server
     \/ /\ su_server' = [FreshServer EXCEPT !.router = r, !.config = c, !.listening = TRUE]
        /\ su_mem' = [su_mem EXCEPT ![r] = "held", ![c] = "held"] /\ UNCHANGED su_twice
  /\ UNCHANGED <<appVars, su_ctx>>

\* A pointer of the server is set to an object of the application.
Hand(field, x) ==
  /\ su_server.state = "live" /\ Handed(x)
  /\ su_server' = [su_server EXCEPT ![field] = x]

\* uvhttp_server_set_router, uvhttp_server_set_context and server->config: what the
\* pointer led to is not freed.
SetRouter(r) ==
  /\ Hand("router", r) /\ su_mem' = [Turned(su_mem, su_server.router, "app") EXCEPT ![r] = "held"]
  /\ UNCHANGED <<su_twice, su_ctx>>

SetContext(x) ==
  /\ Hand("context", x) /\ su_mem' = [Turned(su_mem, su_server.context, "app") EXCEPT ![x] = "held"]
  /\ UNCHANGED <<su_twice, su_ctx>>

SetServerConfig(c) ==
  /\ Hand("config", c) /\ su_mem' = [Turned(su_mem, su_server.config, "app") EXCEPT ![c] = "held"]
  /\ UNCHANGED <<su_twice, su_ctx>>

\* uvhttp_server_enable_tls frees the context before.
EnableTls(t) ==
  /\ Hand("tls", t) /\ FreeAll([su_mem EXCEPT ![t] = "held"], <<su_server.tls>>)
  /\ UNCHANGED su_ctx

\* uvhttp_server_disable_tls
DisableTls ==
  /\ su_server.state = "live" /\ su_server.tls # NoObject
  /\ FreeAll(su_mem, <<su_server.tls>>)
  /\ su_server' = [su_server EXCEPT !.tls = NoObject]
  /\ UNCHANGED <<appVars, su_ctx>>

\* uvhttp_server_enable_health_check makes a router if there is none.
EnableHealthCheck(r) ==
  /\ su_server.state = "live" /\ su_server.router = NoObject /\ r \in Fresh(Routers)
  /\ su_server' = [su_server EXCEPT !.router = r] /\ su_mem' = [su_mem EXCEPT ![r] = "held"]
  /\ UNCHANGED <<appVars, su_twice, su_ctx>>

\* uvhttp_server_listen, if the port is free; a handle that was closed is not
\* opened again.
Listen ==
  /\ su_server.state = "live" /\ su_server.handle = "open" /\ ~su_server.listening
  /\ su_server' = [su_server EXCEPT !.listening = TRUE]
  /\ UNCHANGED <<appVars, su_mem, su_twice, su_ctx>>

\* uvhttp_server_stop
ServerStop ==
  /\ su_server.state = "live" /\ su_server.listening
  /\ su_server' = [su_server EXCEPT !.listening = FALSE, !.handle = "closed"]
  /\ UNCHANGED <<appVars, su_mem, su_twice, su_ctx>>

\* uvhttp_server_free and uvhttp_server_simple_free
ServerFree ==
  /\ su_server.state = "live"
  /\ FreeAll(su_mem, ServerParts(su_server))
  /\ su_server' = [NoServer EXCEPT !.state = "freed", !.handle = "closed"]
  /\ su_ctx' = Emptied({su_server.context}) /\ UNCHANGED appVars

SetupNext ==
  \/ ServerNew \/ ServerFree \/ DisableTls \/ Listen \/ ServerStop
  \/ \E x \in Objects : NewObject(x) \/ FreeObject(x)
  \/ \E x \in Contexts : ContextInit(x) \/ SetContext(x)
  \/ \E x \in Contexts, c \in Configs : SetCurrent(x, c)
  \/ \E r \in Routers, c \in Configs : ServerCreate(r, c)
  \/ \E r \in Routers : SetRouter(r) \/ EnableHealthCheck(r)
  \/ \E t \in TlsContexts : EnableTls(t)
  \/ \E c \in Configs : SetServerConfig(c)

SetupSpec == SetupInit /\ [][SetupNext]_setupVars

-----------------------------------------------------------------------------
(* Properties.                                                             *)

\* The pointers that lead to an object, from a server or context that is there.
Holders(x) ==
  {f \in {"router", "tls", "config", "context"} : su_server[f] = x}
  \cup {y \in Live(Contexts) : su_ctx[y].config = x}

\* If the application keeps to the rule, each object that was handed over or made
\* by uvhttp itself has one holder, and is freed with it, once, on every path: a
\* builder that fails half-way, a context inside a server, a replaced TLS
\* context, a stop before the free.  No pointer leads to an object that was
\* freed, or that the application may free.
SetupFreedOnce ==
  su_strayed = {} =>
    /\ su_twice = {}
    /\ \A x \in Objects : Cardinality(Holders(x)) = IF su_mem[x] = "held" THEN 1 ELSE 0

\* "The server does not own the router; the caller must free it after the server."
\* (docs/spec/server-api.md:65), and "Publish the config globally via the context
\* (...) and attach the context to the server." (examples/01_basics/helloworld.c:218,
\* of the configuration that it has given to the server itself): an application
\* that breaks the rule only in the first way has its routers freed once, and one
\* that does so only in the second its configurations.  uvhttp_server_free refutes
\* both: it frees the router that the caller is to free, and the configuration
\* before the context that frees it again.
DocumentedUse ==
  /\ su_strayed \subseteq {"freed_after"} => su_twice \cap Routers = {}
  /\ su_strayed \subseteq {"shared"} => su_twice \cap Configs = {}

=============================================================================
