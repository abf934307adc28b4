------------------------------- MODULE Upgrade -------------------------------
(***************************************************************************)
(* Protocol upgrades: the server's registry of protocols                   *)
(* (uvhttp_protocol_upgrade.c), the choice that on_message_complete makes  *)
(* among them (uvhttp_request.c), the WebSocket protocol registered by     *)
(* uvhttp_server_register_websocket_upgrade, the handover of a connection  *)
(* to another library, and the routing of requests that no protocol takes. *)
(*                                                                         *)
(* Names and headers are compared without regard to case: they are model   *)
(* values here.  Detectors other than WebSocket's are the application's,   *)
(* so a request says which of them like it.                                *)
(***************************************************************************)
EXTENDS Integers, Sequences, FiniteSets, FiniteSetsExt

CONSTANTS
  Protocols,    \* names the application registers, besides "websocket"
  UpHeaders,    \* values of Upgrade, with "websocket"
  MaxProtocols, \* the limit in uvhttp_server_register_protocol_upgrade
  MaxRegistrations \* bound: calls that register

ASSUME UpgradeAssumption ==
  /\ MaxProtocols \in Nat \ {0} /\ MaxRegistrations \in Nat
  /\ "websocket" \in UpHeaders /\ "websocket" \notin Protocols

VARIABLES
  up_reg,    \* registry->protocols, from the head: name, header ("": any), at
  up_count,  \* registry->protocol_count
  up_regs,   \* registrations so far, which date the protocols
  up_conn,   \* the connection a request arrives on
  up_last    \* the last request on it: the protocol that took it and what was sent

upgradeVars == <<up_reg, up_count, up_regs, up_conn, up_last>>

\* A connection that reads HTTP.  owner: whom the handle belongs to.
HttpConn == [state |-> "HTTP_READING", reading |-> TRUE, timer |-> TRUE,
             lifecycle |-> FALSE, owner |-> "uvhttp", websocket |-> FALSE]

NothingYet == [taker |-> "", sent |-> <<>>, prepared |-> FALSE]

UpgradeInit ==
  /\ up_reg = <<>> /\ up_count = 0 /\ up_regs = 0
  /\ up_conn = HttpConn /\ up_last = NothingYet

-----------------------------------------------------------------------------
(* The registry.                                                           *)

Named(name) == {i \in DOMAIN up_reg : up_reg[i].name = name}

\* uvhttp_server_register_protocol_upgrade: at the head, unless there is one of
\* the name, or as many as allowed, or no memory.
RegisterProtocol(name, header) ==
  /\ up_regs < MaxRegistrations
  /\ Named(name) = {} /\ up_count < MaxProtocols
  /\ up_reg' = <<[name |-> name, header |-> header, at |-> up_regs]>> \o up_reg
  /\ up_count' = up_count + 1 /\ up_regs' = up_regs + 1
  /\ UNCHANGED <<up_conn, up_last>>

\* uvhttp_server_register_websocket_upgrade
RegisterWebsocket == RegisterProtocol("websocket", "websocket")

\* uvhttp_server_unregister_protocol_upgrade
UnregisterProtocol(name) ==
  /\ \E i \in Named(name) : up_reg' = SubSeq(up_reg, 1, i - 1) \o SubSeq(up_reg, i + 1, Len(up_reg))
  /\ up_count' = up_count - 1
  /\ UNCHANGED <<up_regs, up_conn, up_last>>

-----------------------------------------------------------------------------
(* The choice, for a request q.                                            *)

\* websocket_protocol_detector, and the application's.
Detects(p, q) ==
  IF p.name = "websocket" THEN q.upgrade = "websocket" /\ q.connection /\ q.key
  ELSE p.name \in q.liked

HeaderFits(p, q) == p.header = "" \/ p.header = q.upgrade

\* Mutant: a registry of one protocol asks its detector whatever the header.
OnlyProtocolUnchecked(q) == IF Detects(Head(up_reg), q) THEN 1 ELSE 0

\* The short cut for a registry of one protocol.
OnlyProtocol(q) == IF HeaderFits(Head(up_reg), q) /\ Detects(Head(up_reg), q) THEN 1 ELSE 0

\* The loop over a registry of several, or none.
FirstProtocol(q) ==
  LET fit == {i \in DOMAIN up_reg : HeaderFits(up_reg[i], q) /\ Detects(up_reg[i], q)} IN
  IF fit = {} THEN 0 ELSE Min(fit)

\* The protocol on_message_complete hands the request to, 0 for none.
ChosenProtocol(q) ==
  IF q.upgrade = "" THEN 0 ELSE IF up_count = 1 THEN OnlyProtocol(q) ELSE FirstProtocol(q)

-----------------------------------------------------------------------------
(* The handlers.  Each gives the connection behind it, what it sent itself *)
(* and whether it returns UVHTTP_OK.                                       *)

Outcome(conn, sent, ok) == [conn |-> conn, sent |-> sent, ok |-> ok]

\* websocket_upgrade_handler: the key makes no hash, or the handshake fails behind
\* the 101, or the connection is a WebSocket.
WebsocketHandler(c) ==
  {Outcome(c, <<"500">>, FALSE),
   Outcome([c EXCEPT !.state = "CLOSING", !.reading = FALSE], <<"101">>, FALSE),
   Outcome([c EXCEPT !.websocket = TRUE], <<"101">>, TRUE)}

\* uvhttp_connection_transfer_ownership; fd: uv_fileno gives a descriptor.
TransferOwnership(c, fd) ==
  IF c.state # "HTTP_PROCESSING" THEN Outcome(c, <<>>, FALSE)
  ELSE IF ~fd THEN Outcome([c EXCEPT !.reading = FALSE, !.timer = FALSE], <<>>, FALSE)
  ELSE Outcome([c EXCEPT !.reading = FALSE, !.timer = FALSE, !.owner = "library",
                         !.state = "PROTOCOL_UPGRADED"], <<>>, TRUE)

\* uvhttp_connection_set_lifecycle
SetLifecycle(c) == [c EXCEPT !.lifecycle = TRUE]

\* uvhttp_connection_set_state, as an application would use it
Prepared(c) == [c EXCEPT !.state = "HTTP_PROCESSING"]

\* What a handler of the application does: refuse, or hand the connection over.
\* uvhttp never brings a connection that reads HTTP to HTTP_PROCESSING; a handler
\* that does not do it itself cannot succeed.
ApplicationHandler(c, prepared) ==
  {Outcome(c, <<>>, FALSE)}
  \cup {TransferOwnership(SetLifecycle(IF prepared THEN Prepared(c) ELSE c), fd) : fd \in BOOLEAN}

\* The 400 for a handler that failed: uvhttp_response_send does nothing if the
\* handler has sent its answer.
Failed(o) == IF o.sent = <<>> THEN <<"400">> ELSE o.sent

\* What is set up for requests that are routed: a router, a route of it that fits,
\* static files that do or do not have the path, a handler of the server.
Setups == [router : BOOLEAN, route : BOOLEAN, static : {"none", "has", "has not"},
           handler : BOOLEAN]

\* Who answers a routed request.
Routed(s) ==
  CASE ~s.router -> "200"
    [] s.router /\ s.route -> "route"
    [] s.router /\ ~s.route /\ s.static = "has" -> "static"
    [] OTHER -> IF s.handler THEN "handler" ELSE "404"

\* on_message_complete, behind the limiter
Dispatch(q) ==
  LET i == ChosenProtocol(q) IN
  /\ up_conn.state = "HTTP_READING" /\ ~up_conn.websocket
  /\ \/ /\ i = 0
        /\ \E answer \in {Routed(s) : s \in Setups} :
             up_last' = [NothingYet EXCEPT !.sent = <<answer>>]
        /\ UNCHANGED up_conn
     \/ /\ i # 0
        /\ \E prepared \in BOOLEAN :
           \E o \in IF up_reg[i].name = "websocket" THEN WebsocketHandler(up_conn)
                    ELSE ApplicationHandler(up_conn, prepared) :
             /\ up_conn' = o.conn
             /\ up_last' = [taker |-> up_reg[i].name, prepared |-> prepared,
                            sent |-> IF o.ok THEN o.sent ELSE Failed(o)]
  /\ UNCHANGED <<up_reg, up_count, up_regs>>

\* The connection is closed and its memory freed, the lifecycle with it; on_close
\* of the lifecycle is not called.  Another connection takes its place.
UpConnectionGone ==
  /\ up_last # NothingYet
  /\ up_conn' = HttpConn /\ up_last' = NothingYet
  /\ UNCHANGED <<up_reg, up_count, up_regs>>

UpRequests == [upgrade : UpHeaders \cup {""}, connection : BOOLEAN, key : BOOLEAN,
               liked : SUBSET Protocols]

UpgradeNext ==
  \/ \E p \in Protocols, h \in UpHeaders \cup {""} : RegisterProtocol(p, h)
  \/ RegisterWebsocket
  \/ \E p \in Protocols \cup {"websocket"} : UnregisterProtocol(p)
  \/ \E q \in UpRequests : Dispatch(q)
  \/ UpConnectionGone

UpgradeSpec == UpgradeInit /\ [][UpgradeNext]_upgradeVars

-----------------------------------------------------------------------------
(* Properties.                                                             *)

\* The protocols that a request fits, by their registration alone.
Suitable(q) == {i \in DOMAIN up_reg : q.upgrade # "" /\ HeaderFits(up_reg[i], q) /\ Detects(up_reg[i], q)}

\* A request that asks for an upgrade is handed to the protocol registered last
\* among those it fits, whatever was registered and removed before and whichever
\* of the two branches of on_message_complete decides; it is routed just if it
\* fits none.  protocol_count, on which the branches depend, is the number of
\* protocols, and no name is there twice.
UpgradeChosen ==
  /\ up_count = Len(up_reg) /\ up_count <= MaxProtocols
  /\ \A i, j \in DOMAIN up_reg : up_reg[i].name = up_reg[j].name => i = j
  /\ \A q \in UpRequests :
       LET i == ChosenProtocol(q) IN
       IF Suitable(q) = {} THEN i = 0
       ELSE i \in Suitable(q) /\ \A j \in Suitable(q) : up_reg[j].at <= up_reg[i].at

\* A dispatched request gets one answer, also when a handler answers and then
\* fails; none is sent by uvhttp on a connection that was handed over, whose reading
\* and timer are stopped, and that happens only from HTTP_PROCESSING.
UpgradeAnswered ==
  /\ up_last # NothingYet =>
       Len(up_last.sent) = IF up_conn.state = "PROTOCOL_UPGRADED" THEN 0 ELSE 1
  /\ up_conn.owner = "library" <=> up_conn.state = "PROTOCOL_UPGRADED"
  /\ up_conn.owner = "library" => ~up_conn.reading /\ ~up_conn.timer /\ up_last.prepared

\* Every request with an Upgrade header goes to one taker and has one answer.
UpgradeOK == UpgradeChosen /\ UpgradeAnswered

=============================================================================
