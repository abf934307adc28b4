----------------------------- MODULE Connection -----------------------------
(***************************************************************************)
(* The life of HTTP connections in uvhttp: on_connection in                *)
(* uvhttp_server.c, the libuv callbacks of uvhttp_connection.c, the write  *)
(* completion of uvhttp_response.c and the WebSocket upgrade handler.      *)
(*                                                                         *)
(* Everything runs on one libuv loop, so a callback is atomic; what        *)
(* interleaves is the order in which libuv runs them.  One action is one   *)
(* callback.  A connection struct is a record of `conn', and the C         *)
(* functions that mutate it are operators from records to records, so that *)
(* a handler that calls several of them is their composition.              *)
(*                                                                         *)
(* Not represented: the bytes (HttpExchange models those), the TLS record  *)
(* layer and the tables behind the request handlers.  libuv is external:   *)
(* uv_close ends all callbacks of a handle but its close callback and the  *)
(* (cancelled) callbacks of its pending writes, which run first; an idle   *)
(* handle may be started even when it is closing; uv_read_start, uv_write  *)
(* and uv_fileno fail on a closing handle; a connection callback that      *)
(* returns without uv_accept leaves the listener stopped.                  *)
(***************************************************************************)
EXTENDS Integers, FiniteSets

CONSTANTS
  Conns,           \* connection structs the server may ever allocate
  TempClients,     \* uv_tcp_t structs on_connection may allocate for a 503
  MaxConnections,  \* max_connections of the server
  SizeMax,         \* largest value of size_t (active_connections)
  TLSModes,        \* values server->tls_enabled takes over time
  WsManager,       \* a WebSocket connection manager is enabled
  Env              \* which behaviours of the environment a run includes

EnvKinds == {"alloc_fail", "accept_fail", "io_fail", "upgrade", "deferred",
             "server_free"}

ASSUME MaxAssumption == MaxConnections \in Nat /\ SizeMax \in Nat
                        /\ MaxConnections < SizeMax
ASSUME FlagAssumption == TLSModes \subseteq BOOLEAN /\ WsManager \in BOOLEAN
ASSUME EnvAssumption == Env \subseteq EnvKinds

VARIABLES
  server,              \* "running", "freeing" (inside uvhttp_server_free), "freed"
  is_listening,        \* server->is_listening
  accept_blocked,      \* libuv holds a connection nobody accepted
  active_connections,  \* server->active_connections
  temp,                \* temp_client structs of refused connections
  conn                 \* the connection structs

vars == <<server, is_listening, accept_blocked, active_connections, temp, conn>>

Handles == {"idle", "timer", "tcp"}

States == {"NEW", "TLS_HANDSHAKE", "HTTP_READING", "HTTP_PROCESSING", "CLOSING"}

ConnType ==
  [mem           : {"none", "allocated", "freed", "discarded"},
   state         : States,
   tls           : BOOLEAN,          \* conn->tls_enabled, copied at creation
   close_pending : Int,
   handle        : [Handles -> {"none", "open", "closing", "closed"}],
   idle          : BOOLEAN,          \* idle handle started
   timer         : BOOLEAN,          \* timeout timer started
   reading       : {"off", "on_read", "on_websocket_read"},
   writes        : Nat,              \* uv_write requests not yet called back
   sent          : BOOLEAN,          \* response->sent
   keepalive     : BOOLEAN,          \* response->keepalive
   deferred      : BOOLEAN,          \* a handler kept the response for later
   ws            : {"none", "open", "closed"},  \* ws_connection and its state
   managed       : BOOLEAN,          \* a manager node points to ws_connection
   counted       : BOOLEAN]          \* on_connection incremented the counter

NoConn ==
  [mem |-> "none", state |-> "NEW", tls |-> FALSE, close_pending |-> 0,
   handle |-> [h \in Handles |-> "none"],
   idle |-> FALSE, timer |-> FALSE, reading |-> "off", writes |-> 0,
   sent |-> FALSE, keepalive |-> TRUE, deferred |-> FALSE,
   ws |-> "none", managed |-> FALSE, counted |-> FALSE]

Init ==
  /\ server = "running"
  /\ is_listening = TRUE
  /\ accept_blocked = FALSE
  /\ active_connections = 0
  /\ temp = [t \in TempClients |-> "none"]
  /\ conn = [c \in Conns |-> NoConn]

-----------------------------------------------------------------------------
(* The functions of uvhttp_connection.c and uvhttp_response.c.             *)

TcpOpen(r) == r.handle["tcp"] = "open"

\* uvhttp_connection_new when nothing fails.
NewConn ==
  [NoConn EXCEPT !.mem = "allocated", !.handle = [h \in Handles |-> "open"]]

\* uvhttp_connection_free_resources: the on_destroy callback makes the embedder
\* drop its reference to a deferred response, the TLS session is freed;
\* ws_connection is not touched.
FreeResources(r) ==
  IF r.mem = "freed" THEN r
  ELSE [r EXCEPT !.mem = "freed", !.deferred = FALSE, !.tls = FALSE]

\* Mutants of Close: without the guard against re-entry, and with the timer
\* handle closed but not counted.
CloseAgain(r) ==
  [r EXCEPT !.state = "CLOSING",
            !.close_pending = Cardinality({h \in Handles : r.handle[h] = "open"}),
            !.handle = [h \in Handles |-> IF @[h] = "open" THEN "closing" ELSE @[h]],
            !.idle = FALSE, !.timer = FALSE, !.reading = "off"]

CloseMiscounts(r) ==
  IF r.state = "CLOSING" /\ r.close_pending > 0 THEN r
  ELSE [CloseAgain(r) EXCEPT !.close_pending = @ - 1]

\* uvhttp_connection_close.  `fresh' are the handles this call closes; the
\* others were closing before and are only counted in already_closing.
Close(r) ==
  IF r.state = "CLOSING" /\ r.close_pending > 0 THEN r
  ELSE
    LET fresh == {h \in Handles : r.handle[h] = "open"}
        closed == [r EXCEPT
                     !.state = "CLOSING",
                     !.close_pending = Cardinality(fresh),
                     !.handle = [h \in Handles |->
                                   IF h \in fresh THEN "closing" ELSE @[h]],
                     !.idle = @ /\ "idle" \notin fresh,
                     !.timer = @ /\ "timer" \notin fresh,
                     !.reading = IF "tcp" \in fresh THEN "off" ELSE @]
    IN  IF fresh = {} /\ Handles \ fresh = {}
        THEN FreeResources(closed)
        ELSE closed

\* uvhttp_connection_free: leaves a close in progress alone.
Free(r) ==
  IF r.mem = "freed" \/ r.close_pending > 0 THEN r ELSE Close(r)

\* uvhttp_connection_restart_read, and the close its caller does when it fails.
RestartRead(r, ok) ==
  LET fresh == [r EXCEPT !.sent = FALSE, !.keepalive = TRUE,
                         !.state = "HTTP_READING", !.reading = "off"]
  IN  IF ok THEN [fresh EXCEPT !.reading = "on_read"] ELSE Close(fresh)

\* uvhttp_connection_schedule_restart_read.
ScheduleRestartRead(r) ==
  IF r.state = "CLOSING" THEN r ELSE [r EXCEPT !.idle = TRUE]

\* Mutant: response->keepalive is not looked at.
AlwaysRestart(r) == IF r.ws # "none" THEN r ELSE ScheduleRestartRead(r)

\* What follows a response that left: close, or wait for the next request.
AfterResponse(r) ==
  IF ~r.keepalive THEN Close(r)
  ELSE IF r.ws # "none" THEN r
  ELSE ScheduleRestartRead(r)

\* uvhttp_response_send_raw.  TLS writes synchronously and finishes the
\* exchange on the spot (but for a 101); plain HTTP queues a uv_write.
SendRaw(r, ok, is101) ==
  IF ~ok \/ ~TcpOpen(r) THEN r
  ELSE IF ~r.tls THEN [r EXCEPT !.writes = @ + 1]
  ELSE IF is101 /\ r.keepalive THEN r
  ELSE AfterResponse(r)

\* Mutants: no duplicate send check; the response is never marked as sent.
SendTwice(r, ka, how, is101) ==
  LET r1 == [r EXCEPT !.keepalive = @ /\ ka]
  IN  IF how = "build_fail" THEN r1
      ELSE SendRaw([r1 EXCEPT !.sent = TRUE], how = "ok", is101)

SendUnmarked(r, ka, how, is101) ==
  LET r1 == [r EXCEPT !.keepalive = @ /\ ka]
  IN  IF r.sent \/ how = "build_fail" THEN r1 ELSE SendRaw(r1, how = "ok", is101)

\* uvhttp_response_send.  `how' is "build_fail", "write_fail" or "ok";
\* `ka' is FALSE when the handler cleared response->keepalive.
Send(r, ka, how, is101) ==
  LET r1 == [r EXCEPT !.keepalive = @ /\ ka]
  IN  IF r.sent \/ how = "build_fail" THEN r1
      ELSE SendRaw([r1 EXCEPT !.sent = TRUE], how = "ok", is101)

\* uvhttp_connection_websocket_close.
WebsocketClose(r) == Close([r EXCEPT !.managed = FALSE, !.ws = "none"])

\* uvhttp_connection_switch_to_websocket.
SwitchToWebsocket(r, ok) ==
  IF r.state = "CLOSING" THEN r
  ELSE LET s == [r EXCEPT !.state = "HTTP_PROCESSING", !.reading = "off"]
       IN  IF ok THEN [s EXCEPT !.reading = "on_websocket_read"] ELSE Close(s)

\* uvhttp_connection_handle_websocket_handshake.  `how' says which step fails:
\* uv_fileno or an allocation ("create"), the user's on_connect, the restart
\* of the read, or none.  The last two both add the node to the manager.
Handshake(r, how) ==
  LET opened == [r EXCEPT !.ws = "open"]
  IN  IF how = "create" \/ ~TcpOpen(r) THEN r
      ELSE IF how = "on_connect" THEN WebsocketClose(opened)
      ELSE [SwitchToWebsocket(opened, how = "ok") EXCEPT !.managed = WsManager]

HandshakeFails(r, how) == how \in {"create", "on_connect"} \/ ~TcpOpen(r)

\* websocket_upgrade_handler, and the 400 on_message_complete tries to send
\* when it fails.
Upgrade(r, sendhow, how) ==
  LET r1 == Send(r, TRUE, sendhow, TRUE)
      r2 == Handshake(r1, how)
  IN  IF HandshakeFails(r1, how)
      THEN Send(Close(r2), TRUE, "ok", FALSE)
      ELSE r2

-----------------------------------------------------------------------------
(* The server: on_connection, the 503 of a refused client, stop and free.  *)

SendHow == {"ok"} \cup IF "io_fail" \in Env THEN {"build_fail", "write_fail"} ELSE {}

IoOutcomes == {TRUE} \cup IF "io_fail" \in Env THEN {FALSE} ELSE {}

Incoming == is_listening /\ ~accept_blocked /\ server = "running"

\* Mutants: one connection too many; no timeout timer.
AcceptOneMore(c) ==
  /\ Incoming
  /\ active_connections <= MaxConnections
  /\ conn[c].mem = "none"
  /\ active_connections' = active_connections + 1
  /\ conn' = [conn EXCEPT ![c] = [NewConn EXCEPT !.counted = TRUE,
                 !.state = "HTTP_READING", !.reading = "on_read", !.timer = TRUE]]
  /\ UNCHANGED <<server, is_listening, accept_blocked, temp>>

\* on_connection below the limit: uvhttp_connection_new, uv_accept, the count,
\* uvhttp_connection_start and the timeout timer.  Without TLS the connection
\* reads at once; a failed start closes it (start and its caller both do).
Accept(c) ==
  /\ Incoming
  /\ active_connections < MaxConnections
  /\ conn[c].mem = "none"
  /\ active_connections' = active_connections + 1
  /\ \E tls \in TLSModes :
       LET r == [NewConn EXCEPT !.counted = TRUE, !.tls = tls]
           Started(st) == [r EXCEPT !.state = st, !.reading = "on_read",
                                    !.timer = TRUE]
       IN  \/ ~tls /\ conn' = [conn EXCEPT ![c] = Started("HTTP_READING")]
           \/ /\ tls
              /\ \E st \in {"TLS_HANDSHAKE", "HTTP_READING"} :
                   conn' = [conn EXCEPT ![c] = Started(st)]
           \/ /\ "io_fail" \in Env
              /\ conn' = [conn EXCEPT ![c] = Close(Close(r))]
  /\ UNCHANGED <<server, is_listening, accept_blocked, temp>>

\* uv_accept fails: the connection is freed, though it was never counted.
AcceptFails(c) ==
  /\ "accept_fail" \in Env
  /\ Incoming
  /\ active_connections < MaxConnections
  /\ conn[c].mem = "none"
  /\ conn' = [conn EXCEPT ![c] = Free(NewConn)]
  /\ UNCHANGED <<server, is_listening, accept_blocked, active_connections, temp>>

\* uvhttp_connection_new fails after initialising some handles: the struct is
\* freed on the spot and on_connection returns without uv_accept.
NewFails(c) ==
  /\ "alloc_fail" \in Env
  /\ Incoming
  /\ active_connections < MaxConnections
  /\ conn[c].mem = "none"
  /\ \E S \in {{}, {"idle"}, {"idle", "timer"}, Handles} :
       conn' = [conn EXCEPT ![c] = [NoConn EXCEPT
                  !.mem = "discarded",
                  !.handle = [h \in Handles |->
                                IF h \in S THEN "open" ELSE "none"]]]
  /\ accept_blocked' = TRUE
  /\ UNCHANGED <<server, is_listening, active_connections, temp>>

\* on_connection at the limit: the client is accepted on a temporary handle
\* that writes the 503, or that is closed when accept or write fails.
Refuse(t) ==
  /\ Incoming
  /\ active_connections >= MaxConnections
  /\ temp[t] = "none"
  /\ \/ temp' = [temp EXCEPT ![t] = "writing"]
     \/ "io_fail" \in Env /\ temp' = [temp EXCEPT ![t] = "closing"]
  /\ UNCHANGED <<server, is_listening, accept_blocked, active_connections, conn>>

\* ... or no temporary handle could be allocated.
RefuseFails ==
  /\ "alloc_fail" \in Env
  /\ Incoming
  /\ active_connections >= MaxConnections
  /\ accept_blocked' = TRUE
  /\ UNCHANGED <<server, is_listening, active_connections, temp, conn>>

\* write_503_response_cb, then the close callback (uvhttp_free).
Write503Done(t) ==
  /\ temp[t] = "writing"
  /\ temp' = [temp EXCEPT ![t] = "closing"]
  /\ UNCHANGED <<server, is_listening, accept_blocked, active_connections, conn>>

TempClosed(t) ==
  /\ temp[t] = "closing"
  /\ temp' = [temp EXCEPT ![t] = "freed"]
  /\ UNCHANGED <<server, is_listening, accept_blocked, active_connections, conn>>

\* uvhttp_server_stop.
ServerStop ==
  /\ server = "running" /\ is_listening
  /\ is_listening' = FALSE
  /\ UNCHANGED <<server, accept_blocked, active_connections, temp, conn>>

\* uvhttp_server_free closes the listener, runs the loop for a bounded number
\* of iterations (in between these two actions), then frees the server.
ServerFreeBegin ==
  /\ "server_free" \in Env
  /\ server = "running"
  /\ server' = "freeing"
  /\ UNCHANGED <<is_listening, accept_blocked, active_connections, temp, conn>>

ServerFreeEnd ==
  /\ server = "freeing"
  /\ server' = "freed"
  /\ UNCHANGED <<is_listening, accept_blocked, active_connections, temp, conn>>

-----------------------------------------------------------------------------
(* Callbacks of one connection.  conn->server is dereferenced by several    *)
(* of them, so nothing is modelled after the server's memory is gone.       *)

Update(c, r) ==
  /\ conn' = [conn EXCEPT ![c] = r]
  /\ UNCHANGED <<server, is_listening, accept_blocked, active_connections, temp>>

Alive(c) == server # "freed" /\ conn[c].mem = "allocated"

Reads(c) == Alive(c) /\ conn[c].reading = "on_read"

\* The state in which on_read reaches the parser: a finished TLS handshake
\* moves the connection to HTTP_READING first.
Parsing(r) ==
  IF r.state = "TLS_HANDSHAKE" THEN [r EXCEPT !.state = "HTTP_READING"] ELSE r

\* on_read: the peer closed or reset the connection, a buffer is full, TLS
\* fails, or llhttp rejects the input.
ReadFails(c) == Reads(c) /\ Update(c, Close(conn[c]))

\* on_read: the bytes finish the TLS handshake but no request.
HandshakeDone(c) ==
  /\ Reads(c) /\ conn[c].state = "TLS_HANDSHAKE"
  /\ Update(c, Parsing(conn[c]))

\* on_read: a request is complete and its handler (or the rate limiter, the
\* static files, the 404) answers it at once.
RequestAnswered(c) ==
  /\ Reads(c)
  /\ \E ka \in BOOLEAN, how \in SendHow :
       Update(c, Send(Parsing(conn[c]), ka, how, FALSE))

\* on_read: a request is complete and its handler keeps the response.
RequestDeferred(c) ==
  /\ "deferred" \in Env
  /\ Reads(c)
  /\ Update(c, [Parsing(conn[c]) EXCEPT !.deferred = TRUE])

\* The embedder answers a deferred request.
DeferredAnswer(c) ==
  /\ Alive(c) /\ conn[c].deferred
  /\ \E ka \in BOOLEAN, how \in SendHow :
       Update(c, [Send(conn[c], ka, how, FALSE) EXCEPT !.deferred = FALSE])

\* on_read: the request is a WebSocket upgrade.
RequestUpgrade(c) ==
  /\ "upgrade" \in Env
  /\ Reads(c)
  /\ \E sendhow \in SendHow,
        how \in {"ok", "on_connect"} \cup
                IF "io_fail" \in Env THEN {"create", "read_start"} ELSE {} :
       Update(c, Upgrade(Parsing(conn[c]), sendhow, how))

WsReads(c) ==
  Alive(c) /\ conn[c].reading = "on_websocket_read" /\ conn[c].ws # "none"

\* on_websocket_read: end of stream, a TLS error or a protocol error.
WsReadFails(c) == WsReads(c) /\ Update(c, WebsocketClose(conn[c]))

\* on_websocket_read: a Close frame runs the close callbacks and is echoed;
\* the TCP connection stays open.
WsCloseFrame(c) ==
  /\ WsReads(c) /\ conn[c].ws = "open"
  /\ Update(c, [conn[c] EXCEPT !.ws = "closed"])

\* uvhttp_free_write_data, the uv_write callback (normal or cancelled).
WriteDone(c) ==
  /\ Alive(c) /\ conn[c].writes > 0
  /\ Update(c, AfterResponse([conn[c] EXCEPT !.writes = @ - 1]))

\* on_idle_restart_read.
OnIdle(c) ==
  /\ Alive(c) /\ conn[c].idle
  /\ LET r == [conn[c] EXCEPT !.idle = FALSE]
     IN  \/ r.state = "CLOSING" /\ Update(c, r)
         \/ /\ r.state # "CLOSING"
            /\ \E ok \in IoOutcomes : Update(c, RestartRead(r, ok))

\* connection_timeout_cb: the one-shot timer fires whatever the connection does.
Timeout(c) ==
  /\ Alive(c) /\ conn[c].timer
  /\ Update(c, Close([conn[c] EXCEPT !.timer = FALSE]))

\* The embedder closes the connection through the public API.
UserClose(c) == Alive(c) /\ Update(c, Close(conn[c]))

\* Mutants: active_connections is not decremented; it is decremented as a
\* signed integer.
HandleCloseUncounted(c, h) ==
  /\ Alive(c) /\ conn[c].handle[h] = "closing"
  /\ h = "tcp" => conn[c].writes = 0
  /\ LET r == [conn[c] EXCEPT !.handle[h] = "closed", !.close_pending = @ - 1]
     IN  Update(c, IF r.close_pending = 0 THEN FreeResources(r) ELSE r)

\* on_handle_close.
OnHandleClose(c, h) ==
  /\ Alive(c) /\ conn[c].handle[h] = "closing"
  /\ h = "tcp" => conn[c].writes = 0
  /\ LET r == [conn[c] EXCEPT !.handle[h] = "closed", !.close_pending = @ - 1]
         last == r.close_pending = 0
     IN  /\ conn' = [conn EXCEPT ![c] = IF last THEN FreeResources(r) ELSE r]
         /\ active_connections' =
              IF ~last THEN active_connections
              ELSE IF active_connections = 0 THEN SizeMax
              ELSE active_connections - 1
  /\ UNCHANGED <<server, is_listening, accept_blocked, temp>>

ConnStep(c) ==
  \/ Accept(c) \/ AcceptFails(c) \/ NewFails(c)
  \/ ReadFails(c) \/ HandshakeDone(c)
  \/ RequestAnswered(c) \/ RequestDeferred(c) \/ DeferredAnswer(c)
  \/ RequestUpgrade(c) \/ WsReadFails(c) \/ WsCloseFrame(c)
  \/ WriteDone(c) \/ OnIdle(c) \/ Timeout(c) \/ UserClose(c)
  \/ \E h \in Handles : OnHandleClose(c, h)

TempStep(t) == Refuse(t) \/ Write503Done(t) \/ TempClosed(t)

ServerStep == RefuseFails \/ ServerStop \/ ServerFreeBegin \/ ServerFreeEnd

Next ==
  \/ \E c \in Conns : ConnStep(c)
  \/ \E t \in TempClients : TempStep(t)
  \/ ServerStep

\* libuv runs every callback that is due: completed or cancelled writes, idle
\* handles, expired timers and closed handles.  Clients and the embedder owe
\* the server nothing.
Fairness ==
  /\ \A c \in Conns : /\ WF_vars(WriteDone(c)) /\ WF_vars(OnIdle(c))
                      /\ WF_vars(Timeout(c))
                      /\ \A h \in Handles : WF_vars(OnHandleClose(c, h))
  /\ \A t \in TempClients : WF_vars(Write503Done(t)) /\ WF_vars(TempClosed(t))

Spec == Init /\ [][Next]_vars

FairSpec == Spec /\ Fairness

-----------------------------------------------------------------------------
(* What must hold.                                                         *)

TypeOK ==
  /\ server \in {"running", "freeing", "freed"}
  /\ is_listening \in BOOLEAN /\ accept_blocked \in BOOLEAN
  /\ active_connections \in 0..SizeMax
  /\ temp \in [TempClients -> {"none", "writing", "closing", "freed"}]
  /\ conn \in [Conns -> ConnType]

Pending(r) == Cardinality({h \in Handles : r.handle[h] = "closing"})

\* The count that decides when a connection is freed is right: before a close
\* every handle is open and nothing is pending; from uvhttp_connection_close on,
\* close_pending is exactly the number of close callbacks still to come, and it
\* only reaches zero together with the release of the struct.  A second close
\* that reset the count, or one handle closed without being counted, breaks it.
CloseAccounting ==
  \A c \in Conns : LET r == conn[c] IN
    r.mem = "allocated" =>
      IF r.state = "CLOSING"
      THEN /\ r.close_pending = Pending(r) /\ r.close_pending > 0
           /\ \A h \in Handles : r.handle[h] \in {"closing", "closed"}
      ELSE /\ r.close_pending = 0
           /\ \A h \in Handles : r.handle[h] = "open"

\* libuv never keeps a reference into freed connection memory: once the struct
\* is gone no handle is registered or closing, no write is in flight and no
\* idle, timer or read callback can run.
NoDanglingCallback ==
  \A c \in Conns : LET r == conn[c] IN
    r.mem \in {"freed", "discarded"} =>
      /\ \A h \in Handles : r.handle[h] \in {"none", "closed"}
      /\ r.writes = 0 /\ ~r.idle /\ ~r.timer /\ r.reading = "off"

\* The restart of the read (which resets the request, the response and the
\* parser) is never pending while the response of the same exchange is still
\* being written, and at most one response is in flight per connection.
OneExchangeAtATime ==
  \A c \in Conns : LET r == conn[c] IN
    /\ r.writes <= 1
    /\ r.idle => r.sent /\ r.writes = 0
    /\ r.writes > 0 => r.sent

Served == {c \in Conns : conn[c].counted /\ conn[c].mem = "allocated"}

\* active_connections counts the accepted connections that are not yet
\* released, and never more than max_connections of them exist at once.
ConnectionLimit ==
  /\ active_connections = Cardinality(Served)
  /\ active_connections <= MaxConnections

\* A closing connection stays closing: no callback that runs between
\* uvhttp_connection_close and the release (a late write completion, an idle
\* callback, a second upgrade) moves it back to a serving state, restarts
\* its read or arms a timer or idle handle.
ClosingIsFinal ==
  [][\A c \in Conns : conn[c].state = "CLOSING" =>
       /\ conn'[c].state = "CLOSING"
       /\ conn'[c].reading = "off" /\ ~conn'[c].idle /\ ~conn'[c].timer]_vars

\* A struct is released at most once and never comes back, and it is released
\* only by the close callback of its last handle.
ReleasedOnce ==
  [][\A c \in Conns :
       /\ conn[c].mem \in {"freed", "discarded"} => conn'[c].mem = conn[c].mem
       /\ conn[c].mem = "allocated" /\ conn'[c].mem = "freed" =>
            /\ Pending(conn[c]) = 1
            /\ \E h \in Handles : /\ conn[c].handle[h] = "closing"
                                  /\ conn'[c].handle[h] = "closed"]_vars

\* on_connection refuses a client with a 503 only when max_connections
\* connections really exist.
RefusedAtLimit ==
  [][\A t \in TempClients : temp[t] = "none" /\ temp'[t] # "none" =>
       Cardinality(Served) >= MaxConnections]_vars

\* A client is refused only at the limit, and the temporary handle of the
\* refused client is always released, by write_503_response_cb and the close it
\* registers.
RefusedOnlyAtLimit ==
  /\ RefusedAtLimit
  /\ \A t \in TempClients : (temp[t] = "writing") ~> (temp[t] = "freed")

\* A response that says Connection: close is honoured: while it is being
\* written with keepalive cleared, no other callback of the connection makes
\* it persistent again, and the callback that completes the write, in whatever
\* state it finds the connection, leaves it closing and not waiting for a restart.
CloseResponseHonoured ==
  [][\A c \in Conns : conn[c].writes > 0 /\ ~conn[c].keepalive =>
       /\ conn'[c].writes > 0 => ~conn'[c].keepalive
       /\ conn'[c].writes = 0 => conn'[c].state = "CLOSING" /\ ~conn'[c].idle]_vars

\* Whatever closes a connection that became a WebSocket (its own handlers, the
\* timeout, the embedder), its release releases the WebSocket object and its
\* node in the connection manager.
WebSocketReleased ==
  \A c \in Conns : conn[c].mem = "freed" =>
                      conn[c].ws = "none" /\ ~conn[c].managed

=============================================================================
