------------------------------ MODULE WsSession ------------------------------
(***************************************************************************)
(* WebSocket sessions and the connection manager: the frame loop           *)
(* uvhttp_ws_process_data and the callbacks of uvhttp_connection.c behind  *)
(* it, and the node list, heartbeat and timeout sweep of uvhttp_server.c.  *)
(*                                                                         *)
(* A frame is [op, fin, data]; its payload is empty or one piece, numbered *)
(* in the order the peer sends.  Incomplete frames only wait in            *)
(* recv_buffer, and no callback runs between two frames of one read, so a  *)
(* read is one frame.  op = "bad" stands for every frame the loop rejects  *)
(* for its header or its size.                                             *)
(*                                                                         *)
(* Time advances in ticks, and never past a timer that is due.  A node     *)
(* holds ages (now - last_activity, and of the pending ping) instead of    *)
(* points in time.  `peer' records what the peer meant, to compare.        *)
(* Allocations succeed, except that of a manager's node.                   *)
(***************************************************************************)
EXTENDS Integers, Sequences, FiniteSets

CONSTANTS
  Conns,        \* WebSocket connections
  Timeout,      \* timeout_seconds, also the period of the sweep
  Heartbeat,    \* heartbeat_interval
  PingTimeout,  \* ping_timeout_ms
  MaxMessage,   \* max_message_size, in pieces
  Talkers,      \* bound: the connections whose peers send frames
  MaxFrames     \* bound: frames the peers send altogether

ASSUME ConnsAssumption == IsFiniteSet(Conns)
ASSUME PeriodAssumption ==
  Timeout \in Nat \ {0} /\ Heartbeat \in Nat \ {0} /\ PingTimeout \in Nat
ASSUME SizeAssumption ==
  MaxMessage \in Nat \ {0} /\ MaxFrames \in Nat /\ Talkers \subseteq Conns

VARIABLES
  ws,                \* the sessions
  manager,           \* "off", "on" or "draining" (disable is running the loop)
  connection_count,  \* manager->connection_count
  next_sweep,        \* ticks until timeout_timer fires, once it is started
  next_beat,         \* ticks until heartbeat_timer fires
  frames             \* frames sent so far

vars == <<ws, manager, connection_count, next_sweep, next_beat, frames>>

DataOps == {"data", "cont"}
OtherOps == {"close", "ping", "pong", "bad"}

NoNode == [present |-> FALSE, idle_for |-> 0, ping_pending |-> FALSE, ping_age |-> 0]

NewNode == [NoNode EXCEPT !.present = TRUE]

PingedNode(n) == [n EXCEPT !.ping_pending = TRUE, !.ping_age = 0]

NoFragment == [alloc |-> FALSE, data |-> <<>>]

NoSession ==
  [mem |-> "none",          \* ws_connection: "none", "live", "freed"
   tcp |-> "open",
   state |-> "OPEN",        \* uvhttp_ws_state_t
   wrapper |-> FALSE,       \* user_data
   fragment |-> NoFragment, \* fragmented_message (NULL or not) and its content
   node |-> NoNode,
   delivered |-> <<>>,      \* messages the user's on_message got
   closed |-> 0,            \* calls of the user's on_close
   peer |-> [sending |-> <<>>, open |-> FALSE, done |-> <<>>, ok |-> TRUE,
             ponged |-> FALSE]]

Init ==
  /\ ws = [c \in Conns |-> NoSession]
  /\ manager = "off" /\ connection_count = 0
  /\ next_sweep = Timeout /\ next_beat = Heartbeat
  /\ frames = 0

-----------------------------------------------------------------------------
(* Functions of the C code, from session to session.                       *)

\* uvhttp_ws_close: the frame is sent if it can be, the state set in any case.
WsClose(r) == [r EXCEPT !.state = "CLOSING"]

\* Mutant: user_data is not cleared.
OnCloseKeepsWrapper(r) == IF r.wrapper THEN [r EXCEPT !.closed = @ + 1] ELSE r

\* on_websocket_close: once, because it releases the wrapper.
OnClose(r) == IF r.wrapper THEN [r EXCEPT !.wrapper = FALSE, !.closed = @ + 1] ELSE r

\* Mutant: the session is not removed from the manager.
WebsocketCloseKeepsNode(r) ==
  [OnClose(r) EXCEPT !.mem = "freed", !.fragment = NoFragment, !.tcp = "closed"]

\* uvhttp_connection_websocket_close.
WebsocketClose(r) ==
  [OnClose(r) EXCEPT !.node = NoNode, !.mem = "freed", !.fragment = NoFragment,
                     !.tcp = "closed"]

\* The peer has no answered ping.
Pinged(p) == [p EXCEPT !.ponged = FALSE]

\* uvhttp_server_ws_update_activity: the node is as good as new.
UpdateActivity(r) ==
  IF r.node.present
  THEN [r EXCEPT !.node = NewNode, !.peer = Pinged(@)]
  ELSE r

\* on_websocket_message.
Deliver(r, msg) ==
  IF r.wrapper THEN [UpdateActivity(r) EXCEPT !.delivered = Append(@, msg)] ELSE r

\* uvhttp_ws_fragment_append; the buffer is allocated by the first payload.
FragmentFits(r, f) == Len(r.fragment.data) + Len(f.data) <= MaxMessage

\* Mutant: a fragment overwrites the ones before it.
FragmentReplaces(r, f) ==
  [r EXCEPT !.fragment = [alloc |-> r.fragment.alloc \/ f.data # <<>>, data |-> f.data]]

FragmentAppend(r, f) ==
  [r EXCEPT !.fragment = [alloc |-> r.fragment.alloc \/ f.data # <<>>,
                          data |-> r.fragment.data \o f.data]]

\* The frames uvhttp_ws_process_data answers with an error.
Rejected(r, f) ==
  \/ f.op = "bad"
  \/ f.op = "cont" /\ ~r.fragment.alloc
  \/ f.op = "data" /\ r.fragment.alloc
  \/ f.op = "cont" /\ ~FragmentFits(r, f)
  \/ f.op = "data" /\ ~f.fin /\ Len(f.data) > MaxMessage

\* Mutant: the pending fragments are not released with the message.
DataFrameKeeps(r, f) ==
  IF f.op = "data" /\ f.fin THEN Deliver(r, f.data)
  ELSE IF f.op = "data" THEN FragmentAppend([r EXCEPT !.fragment = NoFragment], f)
  ELSE LET s == FragmentAppend(r, f)
       IN  IF f.fin THEN Deliver(s, s.fragment.data) ELSE s

\* The fragment state machine, for a frame that is not rejected.
DataFrame(r, f) ==
  IF f.op = "data" /\ f.fin THEN Deliver(r, f.data)
  ELSE IF f.op = "data" THEN FragmentAppend([r EXCEPT !.fragment = NoFragment], f)
  ELSE LET s == FragmentAppend(r, f)
       IN  IF f.fin THEN [Deliver(s, s.fragment.data) EXCEPT !.fragment = NoFragment]
           ELSE s

\* One iteration of uvhttp_ws_process_data, and what on_websocket_read does
\* when it fails.  A ping is answered, a pong ignored.
ProcessFrame(r, f) ==
  IF Rejected(r, f) THEN WebsocketClose(WsClose(r))
  ELSE IF f.op \in DataOps THEN DataFrame(r, f)
  ELSE IF f.op = "close" THEN [OnClose(r) EXCEPT !.state = "CLOSED"]
  ELSE r

\* What the peer means by a frame: the message it is in, the messages it
\* finished, whether it has kept to the protocol, and whether it answered the
\* ping that is pending.  An empty first fragment is set apart: it leaves
\* fragmented_message NULL, so that the server refuses the rest.
Meant(p, f, pinged) ==
  IF f.op = "pong" THEN [p EXCEPT !.ponged = pinged]
  ELSE IF f.op \in {"ping", "close"} THEN p
  ELSE IF \/ f.op = "bad" \/ p.open # (f.op = "cont")
          \/ ~f.fin /\ f.op = "data" /\ f.data = <<>>
          \/ (f.op = "cont" \/ ~f.fin) /\ Len(p.sending) + Len(f.data) > MaxMessage
       THEN [p EXCEPT !.ok = FALSE]
  ELSE LET m == p.sending \o f.data
       IN  IF f.fin THEN [p EXCEPT !.done = Append(@, m), !.sending = <<>>, !.open = FALSE]
           ELSE [p EXCEPT !.sending = m, !.open = TRUE]

-----------------------------------------------------------------------------
(* Callbacks of one session.                                               *)

\* The nodes of the list, which connection_count should count.
Nodes == {c \in Conns : ws[c].node.present}

Dropped(r, s) == IF r.node.present /\ ~s.node.present THEN 1 ELSE 0

Become(c, r) ==
  /\ ws' = [ws EXCEPT ![c] = r]
  /\ connection_count' = connection_count - Dropped(ws[c], r)
  /\ UNCHANGED <<manager, next_sweep, next_beat>>

Reads(c) == ws[c].mem = "live" /\ ws[c].tcp = "open"

\* uvhttp_connection_handle_websocket_handshake: the user's on_connect agrees,
\* and the manager, if there is one and memory for it, gets a node.
Open(c, managed) ==
  /\ ws[c].mem = "none"
  /\ managed => manager = "on"
  /\ ws' = [ws EXCEPT ![c] = [NoSession EXCEPT !.mem = "live", !.wrapper = TRUE,
                                 !.node = IF managed THEN NewNode ELSE NoNode]]
  /\ connection_count' = connection_count + IF managed THEN 1 ELSE 0
  /\ UNCHANGED <<manager, next_sweep, next_beat, frames>>

\* ... or on_connect refuses.
OpenRefused(c) ==
  /\ ws[c].mem = "none"
  /\ Become(c, WebsocketClose([NoSession EXCEPT !.mem = "live", !.wrapper = TRUE]))
  /\ UNCHANGED frames

\* on_websocket_read: one frame.
Frame(c, f) ==
  /\ Reads(c) /\ c \in Talkers /\ frames < MaxFrames
  /\ frames' = frames + 1
  /\ Become(c, [ProcessFrame(ws[c], f) EXCEPT !.peer = Meant(@, f, ws[c].node.ping_pending)])

\* on_websocket_read: end of stream or an error.
ReadFails(c) == Reads(c) /\ Become(c, WebsocketClose(ws[c])) /\ UNCHANGED frames

\* uvhttp_server_ws_close, called by the embedder.
UserClose(c) ==
  ws[c].mem = "live" /\ Become(c, WsClose(ws[c])) /\ UNCHANGED frames

\* uvhttp_connection_close, from connection_timeout_cb or a failed read start:
\* the HTTP connection goes, the session and its node stay behind.
ConnectionClose(c) ==
  Reads(c) /\ Become(c, [ws[c] EXCEPT !.tcp = "closed"]) /\ UNCHANGED frames

-----------------------------------------------------------------------------
(* The connection manager.                                                 *)

\* uvhttp_ws_close for every session of S, whose nodes are freed.
CloseNodes(S) ==
  ws' = [c \in Conns |-> IF c \in S THEN [WsClose(ws[c]) EXCEPT !.node = NoNode]
                         ELSE ws[c]]

\* Mutant: a session is swept only after twice its time.
IdleTooLong(c) == ws[c].node.idle_for > 2 * Timeout

\* The condition of the sweep.
TimedOut(c) == ws[c].node.idle_for > Timeout

\* ws_timeout_timer_callback.
Sweep ==
  /\ manager = "on" /\ next_sweep = 0
  /\ LET S == {c \in Nodes : TimedOut(c)}
     IN  CloseNodes(S) /\ connection_count' = connection_count - Cardinality(S)
  /\ next_sweep' = Timeout
  /\ UNCHANGED <<manager, next_beat, frames>>

\* Mutant: no ping is ever late.
BeatNeverCloses(r, sent) ==
  IF r.state # "OPEN" \/ r.node.ping_pending \/ ~sent THEN r
  ELSE [r EXCEPT !.node = PingedNode(@), !.peer = Pinged(@)]

\* ws_heartbeat_timer_callback, for one node: a ping if none is pending, a
\* close if the pending one is late.
Beat(r, sent) ==
  IF r.state # "OPEN" THEN r
  ELSE IF ~r.node.ping_pending
  THEN IF sent THEN [r EXCEPT !.node = PingedNode(@), !.peer = Pinged(@)] ELSE r
  ELSE IF r.node.ping_age > PingTimeout THEN WsClose(r)
  ELSE r

\* sent: the sessions whose socket takes the ping.
HeartbeatTimer ==
  /\ manager = "on" /\ next_beat = 0
  /\ \E sent \in SUBSET Nodes :
       ws' = [c \in Conns |-> IF c \in Nodes THEN Beat(ws[c], c \in sent) ELSE ws[c]]
  /\ next_beat' = Heartbeat
  /\ UNCHANGED <<manager, connection_count, next_sweep, frames>>

\* uvhttp_server_ws_close_all; S are the connections on the path.
CloseAll(S) ==
  /\ manager = "on"
  /\ CloseNodes(S \cap Nodes)
  /\ connection_count' = connection_count - Cardinality(S \cap Nodes)
  /\ UNCHANGED <<manager, next_sweep, next_beat, frames>>

\* uvhttp_server_ws_enable_connection_management of a server without manager.
Enable ==
  /\ manager = "off"
  /\ manager' = "on" /\ connection_count' = 0
  /\ UNCHANGED <<ws, next_sweep, next_beat, frames>>

\* uvhttp_server_ws_disable_connection_management: the timers are closed, the
\* sessions told, and the loop is run to drain the close callbacks ...
Disable ==
  /\ manager = "on"
  /\ manager' = "draining"
  /\ CloseNodes(Nodes) /\ connection_count' = 0
  /\ next_sweep' = Timeout /\ next_beat' = Heartbeat
  /\ UNCHANGED frames

\* ... then the manager is freed.  Enable of a server that has a manager is
\* Disable, Disabled and Enable in turn.
Disabled ==
  /\ manager = "draining" /\ manager' = "off"
  /\ UNCHANGED <<ws, connection_count, next_sweep, next_beat, frames>>

\* Ages beyond these are not told apart.
OldActivity == 2 * Timeout + 1
OldPing == PingTimeout + Heartbeat + 1

Older(a, bound) == IF a < bound THEN a + 1 ELSE a

Aged(n) ==
  [n EXCEPT !.idle_for = Older(@, OldActivity),
            !.ping_age = IF n.ping_pending THEN Older(@, OldPing) ELSE @]

\* A tick of uv_hrtime.
Tick ==
  /\ manager = "on" /\ next_sweep > 0 /\ next_beat > 0
  /\ next_sweep' = next_sweep - 1 /\ next_beat' = next_beat - 1
  /\ ws' = [c \in Conns |->
              IF ws[c].node.present
              THEN [ws[c] EXCEPT !.node = Aged(@)]
              ELSE ws[c]]
  /\ UNCHANGED <<manager, connection_count, frames>>

-----------------------------------------------------------------------------
\* The payload of a control frame plays no part.
DataFrames ==
  [op : DataOps, fin : BOOLEAN, data : {<<>>, <<frames + 1>>}]
OtherFrames == [op : OtherOps, fin : {TRUE}, data : {<<>>}]

SessionStep(c) ==
  \/ Open(c, TRUE) \/ Open(c, FALSE) \/ OpenRefused(c)
  \/ ReadFails(c) \/ UserClose(c) \/ ConnectionClose(c)
  \/ \E f \in DataFrames \cup OtherFrames : Frame(c, f)

ManagerStep ==
  \/ Sweep \/ HeartbeatTimer \/ Enable \/ Disable \/ Disabled \/ Tick
  \/ \E S \in SUBSET Conns : CloseAll(S)

Next == (\E c \in Conns : SessionStep(c)) \/ ManagerStep

Spec == Init /\ [][Next]_vars

-----------------------------------------------------------------------------
(* What must hold.                                                         *)

Messages == Seq(Seq(Nat))

FragmentType == [alloc : BOOLEAN, data : Seq(Nat)]

NodeType ==
  [present : BOOLEAN, idle_for : 0 .. OldActivity, ping_pending : BOOLEAN,
   ping_age : 0 .. OldPing]

PeerType ==
  [sending : Seq(Nat), open : BOOLEAN, done : Messages, ok : BOOLEAN, ponged : BOOLEAN]

SessionType ==
  [mem : {"none", "live", "freed"}, tcp : {"open", "closed"},
   state : {"OPEN", "CLOSING", "CLOSED"}, wrapper : BOOLEAN,
   fragment : FragmentType, node : NodeType,
   delivered : Messages, closed : Nat, peer : PeerType]

TypeOK ==
  /\ ws \in [Conns -> SessionType]
  /\ manager \in {"off", "on", "draining"}
  /\ connection_count \in Nat /\ frames \in Nat
  /\ next_sweep \in 0 .. Timeout /\ next_beat \in 0 .. Heartbeat

\* Broadcast, heartbeat and sweep follow the pointers of the manager's nodes:
\* whatever closed a session (its reader, a protocol error, close_all, a sweep,
\* a disable while the loop still runs), no node leads to a session that was
\* freed, a manager that is being freed has no nodes, and connection_count is
\* their number.
NodesValid ==
  /\ connection_count = Cardinality(Nodes)
  /\ \A c \in Nodes : ws[c].mem = "live"
  /\ manager # "on" => Nodes = {}

\* The user's on_close runs once: at the peer's Close frame or, at the latest,
\* when the session is freed, and not again when the connection goes down
\* after the Close frame.
NotifiedOnce ==
  \A c \in Conns : LET r == ws[c] IN
    r.closed <= 1 /\ (r.mem = "freed" => r.closed = 1)

\* No message reaches the user after on_close, though frames behind a Close
\* frame are still parsed.
SilentAfterClose ==
  [][\A c \in Conns : ws[c].closed > 0 => ws'[c].delivered = ws[c].delivered]_vars

\* A peer that keeps to the protocol has its messages delivered whole, once
\* and in order, however it fragments them and whatever control frames it
\* sends between the fragments.
MessagesWhole ==
  \A c \in Conns : LET r == ws[c] IN
    r.peer.ok /\ r.mem = "live" /\ r.closed = 0 => r.delivered = r.peer.done

\* Frames end a session only when the peer broke the protocol, and then at once.
CompliantPeerKept ==
  [][\A c \in Conns : LET r == ws[c]  s == ws'[c] IN
       r.mem = "live" /\ frames' # frames /\ r.peer.ok /\ s.mem = "freed"
         => ~s.peer.ok]_vars

\* The sweep finds every silent session: none stays on the list for more than
\* twice the timeout after its last message.
IdleBounded == \A c \in Nodes : ws[c].node.idle_for <= 2 * Timeout

\* The heartbeat finds every session that does not answer: a ping is pending
\* on an open session for at most the ping timeout and one interval.
PingBounded ==
  \A c \in Nodes : ws[c].state = "OPEN" /\ ws[c].node.ping_pending =>
     ws[c].node.ping_age <= PingTimeout + Heartbeat

\* The heartbeat closes a session only if the peer left its ping unanswered.
PongCounts ==
  [][\A c \in Conns :
       next_beat' > next_beat /\ manager' = "on"
         /\ ws[c].state = "OPEN" /\ ws'[c].state = "CLOSING"
       => ~ws[c].peer.ponged]_vars
=============================================================================
