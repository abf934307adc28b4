-------------------------- MODULE ConnectionProofs --------------------------
(***************************************************************************)
(* Proofs about Connection, for any number of connections and any          *)
(* max_connections.  A callback maps one struct to another by composing    *)
(* Close, Send, Upgrade ...; a lemma per operator shows that it keeps a    *)
(* live struct live (LiveOK) and only lets it evolve (Evolves), and the    *)
(* step lemmas put these together for each callback.                       *)
(***************************************************************************)
EXTENDS ConnectionRefines, FiniteSetTheorems, TLAPS

\* The part of the invariant that decides when a struct may be released.
CloseOK(r) ==
  IF r.state = "CLOSING"
  THEN /\ r.close_pending = Pending(r) /\ r.close_pending > 0
       /\ \A h \in Handles : r.handle[h] \in {"closing", "closed"}
       /\ ~r.idle /\ ~r.timer /\ r.reading = "off"
  ELSE /\ r.close_pending = 0
       /\ \A h \in Handles : r.handle[h] = "open"

ExchangeOK(r) ==
  /\ r.writes <= 1
  /\ r.idle => r.sent /\ r.writes = 0
  /\ r.writes > 0 => r.sent
  /\ r.handle["tcp"] = "closed" => r.writes = 0

LiveOK(r) == r \in ConnType /\ r.mem = "allocated" /\ CloseOK(r) /\ ExchangeOK(r)

\* What a callback may do to a live connection, short of releasing it.
Evolves(r, s) ==
  /\ LiveOK(s)
  /\ r.state = "CLOSING" => s.state = "CLOSING"
  /\ s.counted = r.counted

\* A connection has three handles, so close_pending counts a finite set.
LEMMA HandlesFinite ==
  /\ IsFiniteSet(Handles)
  /\ Cardinality(Handles) \in Nat /\ Cardinality(Handles) > 0
  /\ \A S \in SUBSET Handles : IsFiniteSet(S) /\ Cardinality(S) \in Nat
<1>1. IsFiniteSet({"idle"}) BY FS_Singleton
<1>2. IsFiniteSet({"idle"} \cup {"timer"}) BY <1>1, FS_AddElement
<1>3. IsFiniteSet(({"idle"} \cup {"timer"}) \cup {"tcp"}) BY <1>2, FS_AddElement
<1>4. Handles = ({"idle"} \cup {"timer"}) \cup {"tcp"} BY DEF Handles
<1>5. IsFiniteSet(Handles) BY <1>3, <1>4
<1>6. \A S \in SUBSET Handles : IsFiniteSet(S) BY <1>5, FS_Subset
<1>7. \A S \in SUBSET Handles : Cardinality(S) \in Nat BY <1>6, FS_CardinalityType
<1>8. Cardinality(Handles) # 0
  <2>1. Handles # {} BY DEF Handles
  <2> QED BY <2>1, <1>5, FS_EmptySet
<1> QED BY <1>5, <1>6, <1>7, <1>8

\* uvhttp_connection_close leaves a live connection live and closing.
LEMMA CloseLive ==
  ASSUME NEW r, LiveOK(r)
  PROVE  Evolves(r, Close(r)) /\ Close(r).state = "CLOSING"
<1>1. CASE r.state = "CLOSING"
  BY <1>1 DEF Close, LiveOK, CloseOK, Evolves
<1>2. CASE r.state # "CLOSING"
  <2> DEFINE fresh == {h \in Handles : r.handle[h] = "open"}
             s == [r EXCEPT !.state = "CLOSING",
                     !.close_pending = Cardinality(fresh),
                     !.handle = [h \in Handles |->
                                   IF h \in fresh THEN "closing" ELSE @[h]],
                     !.idle = @ /\ "idle" \notin fresh,
                     !.timer = @ /\ "timer" \notin fresh,
                     !.reading = IF "tcp" \in fresh THEN "off" ELSE @]
  <2>1. fresh = Handles
    BY <1>2 DEF LiveOK, CloseOK
  <2>2. Close(r) = s
    <3>1. ~(fresh = {} /\ Handles \ fresh = {}) BY <2>1 DEF Handles
    <3> QED BY <1>2, <3>1 DEF Close
  <2>3. s \in ConnType /\ s.mem = "allocated" /\ s.state = "CLOSING"
    <3> DEFINE z == [r EXCEPT !.state = "CLOSING",
                     !.close_pending = Cardinality(Handles),
                     !.handle = [h \in Handles |-> "closing"],
                     !.idle = FALSE, !.timer = FALSE, !.reading = "off"]
    <3>1. s = z
      BY <2>1 DEF LiveOK, ConnType, Handles
    <3>2. z \in ConnType /\ z.mem = "allocated" /\ z.state = "CLOSING"
      <4>1. Cardinality(Handles) \in Int BY HandlesFinite
      <4>2. [h \in Handles |-> "closing"] \in
              [Handles -> {"none", "open", "closing", "closed"}] OBVIOUS
      <4>3. z \in ConnType
        BY <4>1, <4>2, Zenon DEF LiveOK, ConnType, States
      <4> QED BY <4>3 DEF LiveOK, ConnType
    <3> QED BY <3>1, <3>2
  <2>4. /\ s.handle = [h \in Handles |-> "closing"]
        /\ s.close_pending = Cardinality(Handles)
        /\ ~s.idle /\ ~s.timer /\ s.reading = "off"
    BY <2>1 DEF LiveOK, ConnType, Handles
  <2>5. CloseOK(s)
    <3>1. {h \in Handles : s.handle[h] = "closing"} = Handles BY <2>4
    <3> QED BY <2>3, <2>4, <3>1, HandlesFinite DEF CloseOK, Pending
  <2>6. ExchangeOK(s)
    BY <2>4 DEF LiveOK, ExchangeOK, ConnType, Handles
  <2>7. s.counted = r.counted BY Zenon DEF LiveOK, ConnType
  <2> QED BY <2>2, <2>3, <2>5, <2>6, <2>7 DEF LiveOK, Evolves
<1> QED BY <1>1, <1>2

\* The invariant does not depend on the fields no callback is guarded by.
LEMMA SameCore ==
  ASSUME NEW r, LiveOK(r), NEW s \in ConnType,
         s.mem = r.mem, s.state = r.state, s.close_pending = r.close_pending,
         s.handle = r.handle, s.idle = r.idle, s.timer = r.timer,
         s.reading = r.reading, s.writes = r.writes, s.sent = r.sent,
         s.counted = r.counted
  PROVE  Evolves(r, s)
BY DEF LiveOK, CloseOK, ExchangeOK, Pending, Evolves

\* Evolution composes along the calls a callback makes.
LEMMA EvolvesTrans ==
  ASSUME NEW r, NEW s, NEW u, Evolves(r, s), Evolves(s, u)
  PROVE  Evolves(r, u)
BY DEF Evolves

\* uvhttp_connection_schedule_restart_read keeps a live connection live.
LEMMA ScheduleLive ==
  ASSUME NEW r, LiveOK(r), r.sent, r.writes = 0
  PROVE  Evolves(r, ScheduleRestartRead(r))
<1>1. CASE r.state = "CLOSING"
  BY <1>1 DEF ScheduleRestartRead, Evolves
<1>2. CASE r.state # "CLOSING"
  <2> DEFINE s == [r EXCEPT !.idle = TRUE]
  <2>1. ScheduleRestartRead(r) = s BY <1>2 DEF ScheduleRestartRead
  <2>2. s \in ConnType BY Zenon DEF LiveOK, ConnType
  <2>3. /\ s.mem = r.mem /\ s.state = r.state /\ s.close_pending = r.close_pending
        /\ s.handle = r.handle /\ s.writes = r.writes /\ s.sent = r.sent
        /\ s.counted = r.counted
    BY Zenon DEF LiveOK, ConnType
  <2>4. CloseOK(s) BY <1>2, <2>3 DEF LiveOK, CloseOK
  <2>5. ExchangeOK(s) BY <2>3 DEF LiveOK, ExchangeOK
  <2> QED BY <2>1, <2>2, <2>3, <2>4, <2>5 DEF LiveOK, Evolves
<1> QED BY <1>1, <1>2

\* The end of a response closes the connection or schedules the restart.
LEMMA AfterResponseLive ==
  ASSUME NEW r, LiveOK(r), r.sent, r.writes = 0
  PROVE  Evolves(r, AfterResponse(r))
<1>1. Evolves(r, r) BY DEF Evolves
<1> QED BY <1>1, CloseLive, ScheduleLive DEF AfterResponse

\* uvhttp_response_send_raw keeps a live connection live.
LEMMA SendRawLive ==
  ASSUME NEW r, LiveOK(r), r.sent, r.writes = 0, ~r.idle,
         NEW ok, NEW is101
  PROVE  Evolves(r, SendRaw(r, ok, is101))
<1>1. CASE ok /\ TcpOpen(r) /\ ~r.tls
  <2> DEFINE s == [r EXCEPT !.writes = @ + 1]
  <2>1. SendRaw(r, ok, is101) = s BY <1>1 DEF SendRaw
  <2>2. r.writes + 1 \in Nat BY DEF LiveOK, ConnType
  <2>3. s \in ConnType BY <2>2, Zenon DEF LiveOK, ConnType
  <2>4. s.writes = 1
    <3>1. s.writes = r.writes + 1 BY DEF LiveOK, ConnType
    <3> HIDE DEF s
    <3> QED BY <3>1
  <2>5. /\ s.mem = r.mem /\ s.state = r.state /\ s.handle = r.handle
        /\ s.close_pending = r.close_pending /\ s.sent = r.sent
        /\ s.idle = r.idle /\ s.timer = r.timer /\ s.reading = r.reading
        /\ s.counted = r.counted
    BY Zenon DEF LiveOK, ConnType
  <2>6. CloseOK(s) BY <2>5 DEF LiveOK, CloseOK, Pending
  <2>7. ExchangeOK(s) BY <1>1, <2>4, <2>5 DEF LiveOK, ExchangeOK, TcpOpen
  <2> QED BY <2>1, <2>3, <2>5, <2>6, <2>7 DEF LiveOK, Evolves
<1>2. CASE ~(ok /\ TcpOpen(r) /\ ~r.tls)
  <2>1. Evolves(r, r) BY DEF Evolves
  <2> QED BY <1>2, <2>1, AfterResponseLive, FlagAssumption DEF SendRaw
<1> QED BY <1>1, <1>2

\* uvhttp_response_send keeps a live connection live, however it fails.
LEMMA SendLive ==
  ASSUME NEW r, LiveOK(r), NEW ka \in BOOLEAN, NEW how, NEW is101
  PROVE  Evolves(r, Send(r, ka, how, is101))
<1> DEFINE r1 == [r EXCEPT !.keepalive = @ /\ ka]
           s == [r1 EXCEPT !.sent = TRUE]
<1>1. r1 \in ConnType
  <2>1. (r.keepalive /\ ka) \in BOOLEAN OBVIOUS
  <2> QED BY <2>1, Zenon DEF LiveOK, ConnType
<1>2. /\ r1.mem = r.mem /\ r1.state = r.state /\ r1.close_pending = r.close_pending
      /\ r1.handle = r.handle /\ r1.idle = r.idle /\ r1.timer = r.timer
      /\ r1.reading = r.reading /\ r1.writes = r.writes /\ r1.sent = r.sent
      /\ r1.counted = r.counted
  BY Zenon DEF LiveOK, ConnType
<1>3. Evolves(r, r1) BY <1>1, <1>2, SameCore
<1>4. CASE r.sent \/ how = "build_fail"
  BY <1>3, <1>4 DEF Send
<1>5. CASE ~(r.sent \/ how = "build_fail")
  <2>1. Send(r, ka, how, is101) = SendRaw(s, how = "ok", is101)
    BY <1>5 DEF Send
  <2>2. s \in ConnType BY <1>1, Zenon DEF ConnType
  <2>3. /\ s.mem = r.mem /\ s.state = r.state /\ s.close_pending = r.close_pending
        /\ s.handle = r.handle /\ s.idle = r.idle /\ s.timer = r.timer
        /\ s.reading = r.reading /\ s.writes = r.writes /\ s.sent = TRUE
        /\ s.counted = r.counted
    BY <1>1, <1>2, Zenon DEF ConnType
  <2>4. ~r.idle /\ r.writes = 0 BY <1>5 DEF LiveOK, ExchangeOK, ConnType
  <2> HIDE DEF s, r1
  <2>5. CloseOK(s) BY <2>3 DEF LiveOK, CloseOK, Pending
  <2>6. ExchangeOK(s) BY <2>3, <2>4 DEF LiveOK, ExchangeOK
  <2>7. Evolves(r, s) BY <2>2, <2>3, <2>5, <2>6 DEF LiveOK, Evolves
  <2>8. LiveOK(s) /\ ~s.idle /\ s.writes = 0 /\ s.sent
    BY <2>3, <2>4, <2>7 DEF Evolves
  <2>9. \A ok : Evolves(s, SendRaw(s, ok, is101))
    BY <2>8, SendRawLive
  <2>10. Evolves(s, Send(r, ka, how, is101)) BY <2>1, <2>9, Zenon
  <2> QED BY <2>7, <2>10, EvolvesTrans
<1> QED BY <1>4, <1>5

\* on_idle_restart_read leaves the connection reading, or closing.
LEMMA RestartReadLive ==
  ASSUME NEW r, LiveOK(r), r.state # "CLOSING", r.writes = 0, ~r.idle,
         NEW ok \in BOOLEAN
  PROVE  Evolves(r, RestartRead(r, ok))
<1> DEFINE f == [r EXCEPT !.sent = FALSE, !.keepalive = TRUE,
                          !.state = "HTTP_READING", !.reading = "off"]
           g == [f EXCEPT !.reading = "on_read"]
<1>1. f \in ConnType BY Zenon DEF LiveOK, ConnType, States
<1>2. g \in ConnType BY <1>1, Zenon DEF ConnType
<1>3. /\ f.mem = r.mem /\ f.state = "HTTP_READING" /\ f.handle = r.handle
      /\ f.close_pending = r.close_pending /\ f.writes = r.writes /\ f.idle = r.idle
      /\ f.counted = r.counted
  BY Zenon DEF LiveOK, ConnType
<1>4. /\ g.mem = r.mem /\ g.state = "HTTP_READING" /\ g.handle = r.handle
      /\ g.close_pending = r.close_pending /\ g.writes = r.writes /\ g.idle = r.idle
      /\ g.counted = r.counted
  BY <1>1, <1>3, Zenon DEF ConnType
<1> HIDE DEF f, g
<1>5. Evolves(r, f)
  BY <1>1, <1>3 DEF LiveOK, CloseOK, ExchangeOK, ConnType, Evolves
<1>6. Evolves(r, g)
  BY <1>2, <1>4 DEF LiveOK, CloseOK, ExchangeOK, ConnType, Evolves
<1>7. Evolves(f, Close(f)) BY <1>5, CloseLive DEF Evolves
<1>8. RestartRead(r, ok) = IF ok THEN g ELSE Close(f)
  BY Zenon DEF RestartRead, f, g
<1> QED BY <1>5, <1>6, <1>7, <1>8, EvolvesTrans

\* uvhttp_connection_websocket_close is a close, whatever the WebSocket's state.
LEMMA WebsocketCloseLive ==
  ASSUME NEW r, LiveOK(r)
  PROVE  Evolves(r, WebsocketClose(r))
<1> DEFINE s == [r EXCEPT !.managed = FALSE, !.ws = "none"]
<1>1. s \in ConnType BY Zenon DEF LiveOK, ConnType
<1>2. /\ s.mem = r.mem /\ s.state = r.state /\ s.close_pending = r.close_pending
      /\ s.handle = r.handle /\ s.idle = r.idle /\ s.timer = r.timer
      /\ s.reading = r.reading /\ s.writes = r.writes /\ s.sent = r.sent
      /\ s.counted = r.counted
  BY Zenon DEF LiveOK, ConnType
<1> HIDE DEF s
<1>3. Evolves(r, s) BY <1>1, <1>2, SameCore
<1>4. Evolves(s, Close(s)) BY <1>3, CloseLive DEF Evolves
<1>5. WebsocketClose(r) = Close(s) BY Zenon DEF WebsocketClose, s
<1> QED BY <1>3, <1>4, <1>5, EvolvesTrans

\* uvhttp_connection_switch_to_websocket keeps a live connection live.
LEMMA SwitchLive ==
  ASSUME NEW r, LiveOK(r), NEW ok
  PROVE  Evolves(r, SwitchToWebsocket(r, ok))
<1> DEFINE f == [r EXCEPT !.state = "HTTP_PROCESSING", !.reading = "off"]
           g == [f EXCEPT !.reading = "on_websocket_read"]
<1>1. CASE r.state = "CLOSING" BY <1>1 DEF SwitchToWebsocket, Evolves
<1>2. CASE r.state # "CLOSING"
  <2>1. f \in ConnType BY Zenon DEF LiveOK, ConnType, States
  <2>2. g \in ConnType BY <2>1, Zenon DEF ConnType
  <2>3. /\ f.mem = r.mem /\ f.state = "HTTP_PROCESSING" /\ f.handle = r.handle
        /\ f.close_pending = r.close_pending /\ f.writes = r.writes
        /\ f.idle = r.idle /\ f.sent = r.sent /\ f.counted = r.counted
    BY Zenon DEF LiveOK, ConnType
  <2>4. /\ g.mem = r.mem /\ g.state = "HTTP_PROCESSING" /\ g.handle = r.handle
        /\ g.close_pending = r.close_pending /\ g.writes = r.writes
        /\ g.idle = r.idle /\ g.sent = r.sent /\ g.counted = r.counted
    BY <2>1, <2>3, Zenon DEF ConnType
  <2> HIDE DEF f, g
  <2>5. Evolves(r, f) BY <1>2, <2>1, <2>3 DEF LiveOK, CloseOK, ExchangeOK, Evolves
  <2>6. Evolves(r, g) BY <1>2, <2>2, <2>4 DEF LiveOK, CloseOK, ExchangeOK, Evolves
  <2>7. Evolves(f, Close(f)) BY <2>5, CloseLive DEF Evolves
  <2>8. SwitchToWebsocket(r, ok) = IF ok THEN g ELSE Close(f)
    BY <1>2, Zenon DEF SwitchToWebsocket, f, g
  <2> QED BY <2>5, <2>6, <2>7, <2>8, EvolvesTrans
<1> QED BY <1>1, <1>2

\* The WebSocket handshake keeps a live connection live at each of its exits.
LEMMA HandshakeLive ==
  ASSUME NEW r, LiveOK(r), NEW how
  PROVE  Evolves(r, Handshake(r, how))
<1> DEFINE o == [r EXCEPT !.ws = "open"]
           w == SwitchToWebsocket(o, how = "ok")
           m == [w EXCEPT !.managed = WsManager]
<1>1. o \in ConnType BY Zenon DEF LiveOK, ConnType
<1>2. /\ o.mem = r.mem /\ o.state = r.state /\ o.close_pending = r.close_pending
      /\ o.handle = r.handle /\ o.idle = r.idle /\ o.timer = r.timer
      /\ o.reading = r.reading /\ o.writes = r.writes /\ o.sent = r.sent
      /\ o.counted = r.counted
  BY Zenon DEF LiveOK, ConnType
<1> HIDE DEF o
<1>3. Evolves(r, o) BY <1>1, <1>2, SameCore
<1>4. LiveOK(o) BY <1>3 DEF Evolves
<1>5. \A ok : Evolves(o, SwitchToWebsocket(o, ok)) BY <1>4, SwitchLive
<1>6. Evolves(o, w) BY <1>5, Zenon
<1> HIDE DEF w
<1>7. LiveOK(w) BY <1>6 DEF Evolves
<1>8. m \in ConnType BY <1>7, FlagAssumption, Zenon DEF LiveOK, ConnType
<1>9. /\ m.mem = w.mem /\ m.state = w.state /\ m.close_pending = w.close_pending
      /\ m.handle = w.handle /\ m.idle = w.idle /\ m.timer = w.timer
      /\ m.reading = w.reading /\ m.writes = w.writes /\ m.sent = w.sent
      /\ m.counted = w.counted
  BY <1>7, Zenon DEF LiveOK, ConnType
<1> HIDE DEF m
<1>10. Evolves(w, m) BY <1>7, <1>8, <1>9, SameCore
<1>11. Evolves(r, m) BY <1>3, <1>6, <1>10, EvolvesTrans
<1>12. CASE how = "create" \/ ~TcpOpen(r) BY <1>12, Zenon DEF Handshake, Evolves
<1>13. CASE ~(how = "create" \/ ~TcpOpen(r)) /\ how = "on_connect"
  <2>1. Handshake(r, how) = WebsocketClose(o) BY <1>13, Zenon DEF Handshake, o
  <2>2. Evolves(o, WebsocketClose(o)) BY <1>4, WebsocketCloseLive
  <2> QED BY <1>3, <2>1, <2>2, EvolvesTrans
<1>14. CASE ~(how = "create" \/ ~TcpOpen(r)) /\ how # "on_connect"
  <2>1. Handshake(r, how) = m BY <1>14, Zenon DEF Handshake, o, w, m
  <2> QED BY <1>11, <2>1
<1> QED BY <1>12, <1>13, <1>14

\* The whole upgrade handler, with the 400 it may end in.
LEMMA UpgradeLive ==
  ASSUME NEW r, LiveOK(r), NEW sendhow, NEW how
  PROVE  Evolves(r, Upgrade(r, sendhow, how))
<1> DEFINE r1 == Send(r, TRUE, sendhow, TRUE)
           r2 == Handshake(r1, how)
           r3 == Close(r2)
           r4 == Send(r3, TRUE, "ok", FALSE)
<1>1. Evolves(r, r1) BY SendLive
<1> HIDE DEF r1
<1>2. Evolves(r1, r2) BY <1>1, HandshakeLive DEF Evolves
<1> HIDE DEF r2
<1>3. Evolves(r2, r3) BY <1>2, CloseLive DEF Evolves
<1> HIDE DEF r3
<1>4. Evolves(r3, r4) BY <1>3, SendLive DEF Evolves
<1> HIDE DEF r4
<1>5. Upgrade(r, sendhow, how) \in {r2, r4}
  BY Zenon DEF Upgrade, r1, r2, r3, r4
<1> QED BY <1>1, <1>2, <1>3, <1>4, <1>5, EvolvesTrans

\* The end of a TLS handshake inside on_read.
LEMMA ParsingLive ==
  ASSUME NEW r, LiveOK(r)
  PROVE  Evolves(r, Parsing(r))
<1> DEFINE s == [r EXCEPT !.state = "HTTP_READING"]
<1>1. s \in ConnType BY Zenon DEF LiveOK, ConnType, States
<1>2. /\ s.mem = r.mem /\ s.state = "HTTP_READING" /\ s.close_pending = r.close_pending
      /\ s.handle = r.handle /\ s.idle = r.idle /\ s.writes = r.writes /\ s.sent = r.sent
      /\ s.counted = r.counted
  BY Zenon DEF LiveOK, ConnType
<1> HIDE DEF s
<1>3. r.state # "CLOSING" => Evolves(r, s)
  BY <1>1, <1>2 DEF LiveOK, CloseOK, ExchangeOK, Evolves
<1>4. Parsing(r) = IF r.state = "TLS_HANDSHAKE" THEN s ELSE r BY Zenon DEF Parsing, s
<1> QED BY <1>3, <1>4 DEF Evolves

-----------------------------------------------------------------------------
(* The inductive invariant, and what a step does to one connection.        *)

Quiet(r) == ~r.idle /\ ~r.timer /\ r.reading = "off" /\ r.writes = 0

FreedOK(r) ==
  /\ r \in ConnType /\ r.mem = "freed" /\ r.state = "CLOSING"
  /\ \A h \in Handles : r.handle[h] = "closed"
  /\ Quiet(r)

DiscardedOK(r) ==
  /\ r \in ConnType /\ r.mem = "discarded" /\ r.state = "NEW"
  /\ "alloc_fail" \in Env
  /\ Quiet(r)

ConnInv(r) == r = NoConn \/ LiveOK(r) \/ FreedOK(r) \/ DiscardedOK(r)

\* The last close callback releases the struct.
Released(r, s) ==
  /\ LiveOK(r) /\ FreedOK(s) /\ Pending(r) = 1
  /\ \E h \in Handles : r.handle[h] = "closing" /\ s.handle[h] = "closed"

\* All that a step may do to connection c and to the connection count.
StepOK(c) ==
  LET r == conn[c]
      s == conn'[c]
  IN  /\ conn' = [conn EXCEPT ![c] = s]
      /\ \/ /\ LiveOK(r) /\ Evolves(r, s)
            /\ active_connections' = active_connections
         \/ /\ r = NoConn /\ LiveOK(s) /\ s.counted
            /\ active_connections < MaxConnections
            /\ active_connections' = active_connections + 1
         \/ /\ r = NoConn /\ LiveOK(s) /\ "accept_fail" \in Env
            /\ active_connections' = active_connections
         \/ /\ r = NoConn /\ DiscardedOK(s)
            /\ active_connections' = active_connections
         \/ /\ Released(r, s)
            /\ active_connections' = IF active_connections = 0 THEN SizeMax
                                     ELSE active_connections - 1

Inv ==
  /\ server \in {"running", "freeing", "freed"}
  /\ is_listening \in BOOLEAN /\ accept_blocked \in BOOLEAN
  /\ active_connections \in 0..SizeMax
  /\ temp \in [TempClients -> {"none", "writing", "closing", "freed"}]
  /\ conn \in [Conns -> ConnType]
  /\ \A c \in Conns : ConnInv(conn[c])

\* An unused struct is well typed.
LEMMA NoConnType == NoConn \in ConnType
<1>1. [h \in Handles |-> "none"] \in [Handles -> {"none", "open", "closing", "closed"}]
  OBVIOUS
<1>2. 0 \in Int /\ 0 \in Nat OBVIOUS
<1> QED BY <1>1, <1>2, Zenon DEF NoConn, ConnType, States

\* What uvhttp_connection_new returns is a live connection.
LEMMA NewConnLive ==
  ASSUME NEW b \in BOOLEAN, NEW t \in BOOLEAN
  PROVE  LiveOK([NewConn EXCEPT !.counted = b, !.tls = t]) /\ LiveOK(NewConn)
<1> DEFINE n == [NewConn EXCEPT !.counted = b, !.tls = t]
<1>1. [h \in Handles |-> "open"] \in [Handles -> {"none", "open", "closing", "closed"}]
  OBVIOUS
<1>2. NewConn \in ConnType BY <1>1, NoConnType, Zenon DEF NewConn, ConnType
<1>3. n \in ConnType BY <1>2, Zenon DEF ConnType
<1>4. /\ NewConn.mem = "allocated" /\ NewConn.state = "NEW" /\ NewConn.close_pending = 0
      /\ NewConn.handle = [h \in Handles |-> "open"]
      /\ NewConn.writes = 0 /\ NewConn.idle = FALSE
  BY Zenon DEF NewConn, NoConn
<1>5. /\ n.mem = "allocated" /\ n.state = "NEW" /\ n.close_pending = 0
      /\ n.handle = [h \in Handles |-> "open"]
      /\ n.writes = 0 /\ n.idle = FALSE
  BY <1>2, <1>4, Zenon DEF ConnType
<1> HIDE DEF n
<1>6. LiveOK(NewConn) BY <1>2, <1>4 DEF LiveOK, CloseOK, ExchangeOK, Handles
<1>7. LiveOK(n) BY <1>3, <1>5 DEF LiveOK, CloseOK, ExchangeOK, Handles
<1> QED BY <1>6, <1>7 DEF n

\* A struct that is alive satisfies the live part of the invariant.
LEMMA AliveLive ==
  ASSUME Inv, NEW c \in Conns, conn[c].mem = "allocated"
  PROVE  LiveOK(conn[c])
<1>1. NoConn.mem = "none" BY DEF NoConn
<1> QED BY <1>1 DEF Inv, ConnInv, FreedOK, DiscardedOK

\* A struct that was never allocated is NoConn.
LEMMA FreshIsNoConn ==
  ASSUME Inv, NEW c \in Conns, conn[c].mem = "none"
  PROVE  conn[c] = NoConn
BY DEF Inv, ConnInv, LiveOK, FreedOK, DiscardedOK

\* A callback that stores an evolved struct.
LEMMA UpdateOK ==
  ASSUME Inv, NEW c \in Conns, LiveOK(conn[c]), NEW s, Evolves(conn[c], s),
         Update(c, s)
  PROVE  StepOK(c)
<1>1. conn'[c] = s /\ conn' = [conn EXCEPT ![c] = conn'[c]]
  BY DEF Update, Inv
<1>2. active_connections' = active_connections BY DEF Update
<1> QED BY <1>1, <1>2 DEF StepOK

\* on_handle_close: one close callback less to come, or the release.
LEMMA OnHandleCloseOK ==
  ASSUME Inv, NEW c \in Conns, NEW h \in Handles, OnHandleClose(c, h)
  PROVE  StepOK(c)
<1> DEFINE r == conn[c]
           s == [r EXCEPT !.handle[h] = "closed", !.close_pending = @ - 1]
           u == [s EXCEPT !.mem = "freed", !.deferred = FALSE, !.tls = FALSE]
           before == {g \in Handles : r.handle[g] = "closing"}
           after == {g \in Handles : s.handle[g] = "closing"}
<1>1. LiveOK(r) /\ r.handle[h] = "closing" /\ (h = "tcp" => r.writes = 0)
  BY AliveLive DEF OnHandleClose, Alive
<1>2. /\ r.state = "CLOSING" /\ r.close_pending = Cardinality(before)
      /\ r.close_pending > 0
  BY <1>1 DEF LiveOK, CloseOK, Pending
<1>3. s \in ConnType
  <2>1. r.close_pending - 1 \in Int BY <1>1 DEF LiveOK, ConnType
  <2>2. [r.handle EXCEPT ![h] = "closed"] \in [Handles -> {"none", "open", "closing", "closed"}]
    BY <1>1, Zenon DEF LiveOK, ConnType
  <2> QED BY <1>1, <2>1, <2>2, Zenon DEF LiveOK, ConnType
<1>4. /\ s.handle = [r.handle EXCEPT ![h] = "closed"]
      /\ s.close_pending = r.close_pending - 1
      /\ s.mem = r.mem /\ s.state = r.state /\ s.idle = r.idle /\ s.timer = r.timer
      /\ s.reading = r.reading /\ s.writes = r.writes /\ s.sent = r.sent
      /\ s.counted = r.counted
  BY <1>1, Zenon DEF LiveOK, ConnType
<1>5. s.handle[h] = "closed" /\ \A g \in Handles \ {h} : s.handle[g] = r.handle[g]
  <2>1. r.handle \in [Handles -> {"none", "open", "closing", "closed"}]
    BY <1>1, Zenon DEF LiveOK, ConnType
  <2> HIDE DEF s
  <2> QED BY <1>4, <2>1
<1>6. u \in ConnType BY <1>3, Zenon DEF ConnType
<1>7. /\ u.mem = "freed" /\ u.state = s.state /\ u.handle = s.handle
      /\ u.idle = s.idle /\ u.timer = s.timer /\ u.reading = s.reading
      /\ u.writes = s.writes
  BY <1>3, Zenon DEF ConnType
<1>8. /\ conn' = [conn EXCEPT ![c] = IF s.close_pending = 0 THEN FreeResources(s) ELSE s]
      /\ active_connections' =
           IF s.close_pending # 0 THEN active_connections
           ELSE IF active_connections = 0 THEN SizeMax
           ELSE active_connections - 1
  BY Zenon DEF OnHandleClose
<1>9. FreeResources(s) = u
  <2>1. s.mem # "freed" BY <1>1, <1>4 DEF LiveOK
  <2> QED BY <2>1, Zenon DEF FreeResources
<1> HIDE DEF r, s, u
<1>10. after = before \ {h} /\ h \in before
  BY <1>1, <1>5
<1>11. /\ IsFiniteSet(before) /\ Cardinality(before) \in Nat
       /\ Cardinality(after) = Cardinality(before) - 1
       /\ IsFiniteSet(after) /\ Cardinality(after) \in Nat
  <2>1. before \subseteq Handles /\ after \subseteq Handles OBVIOUS
  <2>2. IsFiniteSet(before) /\ Cardinality(before) \in Nat
        /\ IsFiniteSet(after) /\ Cardinality(after) \in Nat
    BY <2>1, HandlesFinite
  <2>3. Cardinality(before \ {h}) = Cardinality(before) - 1
    BY <1>10, <2>2, FS_RemoveElement
  <2> QED BY <1>10, <2>2, <2>3
<1>12. /\ s.close_pending = Cardinality(after)
       /\ \A g \in Handles : s.handle[g] \in {"closing", "closed"}
       /\ ~s.idle /\ ~s.timer /\ s.reading = "off"
  BY <1>1, <1>2, <1>4, <1>5, <1>11 DEF LiveOK, CloseOK
<1>13. conn' = [conn EXCEPT ![c] = conn'[c]] BY <1>8 DEF Inv
<1>14. CASE s.close_pending # 0
  <2>1. conn'[c] = s BY <1>8, <1>14 DEF Inv
  <2>2. CloseOK(s)
    <3>1. s.close_pending = Pending(s) BY <1>12 DEF Pending
    <3>2. s.close_pending > 0
      <4> HIDE DEF after
      <4> QED BY <1>11, <1>12, <1>14
    <3>3. s.state = "CLOSING" BY <1>2, <1>4
    <3> QED BY <1>12, <3>1, <3>2, <3>3 DEF CloseOK
  <2>3. ExchangeOK(s)
    <3>1. s.handle["tcp"] = "closed" => s.writes = 0
      BY <1>1, <1>4, <1>5 DEF LiveOK, ExchangeOK, Handles
    <3> QED BY <1>1, <1>4, <3>1 DEF LiveOK, ExchangeOK
  <2>4. Evolves(r, s)
    BY <1>1, <1>3, <1>4, <2>2, <2>3 DEF LiveOK, Evolves
  <2>5. active_connections' = active_connections BY <1>8, <1>14
  <2> QED BY <1>1, <1>13, <2>1, <2>4, <2>5 DEF StepOK, r
<1>15. CASE s.close_pending = 0
  <2>1. conn'[c] = u BY <1>8, <1>9, <1>15 DEF Inv
  <2>2. after = {} BY <1>11, <1>12, <1>15, FS_EmptySet
  <2>3. \A g \in Handles : s.handle[g] = "closed" BY <1>12, <2>2
  <2>4. s.writes = 0
    BY <1>1, <1>4, <1>5, <2>3 DEF LiveOK, ExchangeOK, Handles
  <2>5. FreedOK(u)
    BY <1>2, <1>4, <1>6, <1>7, <1>12, <2>3, <2>4 DEF FreedOK, Quiet
  <2>6. Pending(r) = 1
    <3>1. Pending(r) = r.close_pending BY <1>2 DEF Pending
    <3>2. r.close_pending \in Int /\ r.close_pending - 1 = 0
      BY <1>1, <1>4, <1>15 DEF LiveOK, ConnType
    <3> QED BY <3>1, <3>2
  <2>7. Released(r, u) BY <1>1, <1>5, <1>7, <2>5, <2>6 DEF Released
  <2>8. active_connections' = IF active_connections = 0 THEN SizeMax
                              ELSE active_connections - 1
    BY <1>8, <1>15
  <2> QED BY <1>13, <2>1, <2>7, <2>8 DEF StepOK, r
<1> QED BY <1>14, <1>15

\* on_connection below the limit, with its failing start.
LEMMA AcceptOK ==
  ASSUME Inv, NEW c \in Conns, Accept(c)
  PROVE  StepOK(c)
<1>0. PICK tls \in TLSModes :
        LET r == [NewConn EXCEPT !.counted = TRUE, !.tls = tls]
        IN  \/ \E st \in {"TLS_HANDSHAKE", "HTTP_READING"} :
                 conn' = [conn EXCEPT ![c] = [r EXCEPT !.state = st,
                              !.reading = "on_read", !.timer = TRUE]]
            \/ conn' = [conn EXCEPT ![c] = Close(Close(r))]
  BY Zenon DEF Accept
<1> DEFINE r == [NewConn EXCEPT !.counted = TRUE, !.tls = tls]
           Started(st) == [r EXCEPT !.state = st, !.reading = "on_read", !.timer = TRUE]
<1>1. conn[c] = NoConn BY FreshIsNoConn DEF Accept
<1>2. LiveOK(r)
  <2>1. tls \in BOOLEAN BY FlagAssumption
  <2> QED BY <2>1, NewConnLive
<1>3. r.counted = TRUE /\ r.state = "NEW" BY Zenon DEF NewConn, NoConn
<1> HIDE DEF r
<1>4. \A st \in {"TLS_HANDSHAKE", "HTTP_READING"} :
        LiveOK(Started(st)) /\ Started(st).counted
  <2> TAKE st \in {"TLS_HANDSHAKE", "HTTP_READING"}
  <2> DEFINE s == Started(st)
  <2>1. s \in ConnType BY <1>2, Zenon DEF LiveOK, ConnType, States
  <2>2. /\ s.mem = r.mem /\ s.state = st /\ s.close_pending = r.close_pending
        /\ s.handle = r.handle /\ s.idle = r.idle /\ s.writes = r.writes
        /\ s.sent = r.sent /\ s.counted = r.counted
    BY <1>2, Zenon DEF LiveOK, ConnType
  <2> HIDE DEF s
  <2>3. st # "CLOSING" OBVIOUS
  <2>4. LiveOK(s) BY <1>2, <1>3, <2>1, <2>2, <2>3 DEF LiveOK, CloseOK, ExchangeOK
  <2>5. s.counted BY <1>3, <2>2
  <2> QED BY <2>4, <2>5, Zenon DEF s
<1>5. LiveOK(Close(Close(r))) /\ Close(Close(r)).counted
  BY <1>2, <1>3, CloseLive DEF Evolves
<1>6. \E s : LiveOK(s) /\ s.counted /\ conn' = [conn EXCEPT ![c] = s]
  <2>1. \/ \E st \in {"TLS_HANDSHAKE", "HTTP_READING"} :
             conn' = [conn EXCEPT ![c] = Started(st)]
        \/ conn' = [conn EXCEPT ![c] = Close(Close(r))]
    BY <1>0, Zenon DEF r
  <2> HIDE DEF Started
  <2> QED BY <1>4, <1>5, <2>1
<1>7. PICK s : LiveOK(s) /\ s.counted /\ conn' = [conn EXCEPT ![c] = s] BY <1>6
<1>8. conn'[c] = s /\ conn' = [conn EXCEPT ![c] = conn'[c]] BY <1>7 DEF Inv
<1> QED BY <1>1, <1>7, <1>8 DEF StepOK, Accept

\* on_connection when uv_accept fails.
LEMMA AcceptFailsOK ==
  ASSUME Inv, NEW c \in Conns, AcceptFails(c)
  PROVE  StepOK(c)
<1>1. conn[c] = NoConn BY FreshIsNoConn DEF AcceptFails
<1>2. LiveOK(NewConn) BY NewConnLive
<1>3. NewConn.mem = "allocated" /\ NewConn.close_pending = 0 BY Zenon DEF NewConn, NoConn
<1>4. Free(NewConn) = Close(NewConn) BY <1>3 DEF Free
<1>5. LiveOK(Free(NewConn)) BY <1>2, <1>4, CloseLive DEF Evolves
<1>6. conn'[c] = Free(NewConn) /\ conn' = [conn EXCEPT ![c] = conn'[c]]
  BY DEF AcceptFails, Inv
<1> QED BY <1>1, <1>5, <1>6 DEF StepOK, AcceptFails

\* on_connection when uvhttp_connection_new fails.
LEMMA NewFailsOK ==
  ASSUME Inv, NEW c \in Conns, NewFails(c)
  PROVE  StepOK(c)
<1> DEFINE hs(S) == [h \in Handles |-> IF h \in S THEN "open" ELSE "none"]
           s(S) == [NoConn EXCEPT !.mem = "discarded", !.handle = hs(S)]
<1>1. conn[c] = NoConn BY FreshIsNoConn DEF NewFails
<1>2. PICK S : conn' = [conn EXCEPT ![c] = s(S)] BY Zenon DEF NewFails
<1>3. s(S) \in ConnType
  <2>1. hs(S) \in [Handles -> {"none", "open", "closing", "closed"}] OBVIOUS
  <2> HIDE DEF hs
  <2> QED BY <2>1, NoConnType, Zenon DEF ConnType
<1>4. /\ s(S).mem = "discarded" /\ s(S).state = "NEW" /\ s(S).idle = FALSE
      /\ s(S).timer = FALSE /\ s(S).reading = "off" /\ s(S).writes = 0
  BY Zenon DEF NoConn
<1> HIDE DEF s
<1>5. DiscardedOK(s(S)) BY <1>3, <1>4 DEF DiscardedOK, Quiet, NewFails
<1>6. conn'[c] = s(S) /\ conn' = [conn EXCEPT ![c] = conn'[c]]
  BY <1>2 DEF Inv
<1> QED BY <1>1, <1>5, <1>6 DEF StepOK, NewFails

\* The callbacks that run Close, Send, Upgrade ... on a live connection.
LEMMA CallbackOK ==
  ASSUME Inv, NEW c \in Conns,
         \/ ReadFails(c) \/ HandshakeDone(c)
         \/ RequestAnswered(c) \/ RequestDeferred(c) \/ DeferredAnswer(c)
         \/ RequestUpgrade(c) \/ WsReadFails(c) \/ WsCloseFrame(c)
         \/ WriteDone(c) \/ OnIdle(c) \/ Timeout(c) \/ UserClose(c)
  PROVE  StepOK(c)
<1> DEFINE r == conn[c]
           p == Parsing(r)
<1>1. LiveOK(r)
  <2>1. r.mem = "allocated"
    BY DEF ReadFails, HandshakeDone, RequestAnswered, RequestDeferred,
           DeferredAnswer, RequestUpgrade, WsReadFails, WsCloseFrame, WriteDone,
           OnIdle, Timeout, UserClose, Reads, WsReads, Alive
  <2> QED BY <2>1, AliveLive
<1>2. Evolves(r, p) BY <1>1, ParsingLive
<1>3. LiveOK(p) BY <1>2 DEF Evolves
<1> SUFFICES \E s : Evolves(r, s) /\ Update(c, s) BY <1>1, UpdateOK
<1>4. CASE ReadFails(c) \/ UserClose(c)
  BY <1>1, <1>4, CloseLive DEF ReadFails, UserClose
<1>5. CASE HandshakeDone(c) BY <1>2, <1>5 DEF HandshakeDone
<1>6. CASE RequestAnswered(c)
  <2>1. PICK ka \in BOOLEAN, how \in SendHow : Update(c, Send(p, ka, how, FALSE))
    BY <1>6, Zenon DEF RequestAnswered
  <2>2. Evolves(p, Send(p, ka, how, FALSE)) BY <1>3, SendLive
  <2> QED BY <1>2, <2>1, <2>2, EvolvesTrans
<1>7. CASE RequestDeferred(c)
  <2> DEFINE s == [p EXCEPT !.deferred = TRUE]
  <2> HIDE DEF p
  <2>1. s \in ConnType BY <1>3, Zenon DEF LiveOK, ConnType
  <2>2. /\ s.mem = p.mem /\ s.state = p.state /\ s.close_pending = p.close_pending
        /\ s.handle = p.handle /\ s.idle = p.idle /\ s.timer = p.timer
        /\ s.reading = p.reading /\ s.writes = p.writes /\ s.sent = p.sent
        /\ s.counted = p.counted
    BY <1>3, Zenon DEF LiveOK, ConnType
  <2> HIDE DEF s
  <2>3. Evolves(p, s) BY <1>3, <2>1, <2>2, SameCore
  <2>4. Update(c, s) BY <1>7, Zenon DEF RequestDeferred, s, p
  <2> QED BY <1>2, <2>3, <2>4, EvolvesTrans
<1>8. CASE DeferredAnswer(c)
  <2>1. PICK ka \in BOOLEAN, how \in SendHow :
          Update(c, [Send(r, ka, how, FALSE) EXCEPT !.deferred = FALSE])
    BY <1>8, Zenon DEF DeferredAnswer
  <2> DEFINE q == Send(r, ka, how, FALSE)
             s == [q EXCEPT !.deferred = FALSE]
  <2>2. Evolves(r, q) BY <1>1, SendLive
  <2> HIDE DEF q
  <2>3. LiveOK(q) BY <2>2 DEF Evolves
  <2>4. s \in ConnType BY <2>3, Zenon DEF LiveOK, ConnType
  <2>5. /\ s.mem = q.mem /\ s.state = q.state /\ s.close_pending = q.close_pending
        /\ s.handle = q.handle /\ s.idle = q.idle /\ s.timer = q.timer
        /\ s.reading = q.reading /\ s.writes = q.writes /\ s.sent = q.sent
        /\ s.counted = q.counted
    BY <2>3, Zenon DEF LiveOK, ConnType
  <2> HIDE DEF s
  <2>6. Evolves(q, s) BY <2>3, <2>4, <2>5, SameCore
  <2>7. Update(c, s) BY <2>1, Zenon DEF s, q
  <2> QED BY <2>2, <2>6, <2>7, EvolvesTrans
<1>9. CASE RequestUpgrade(c)
  <2>1. PICK sendhow, how : Update(c, Upgrade(p, sendhow, how))
    BY <1>9, Zenon DEF RequestUpgrade
  <2>2. Evolves(p, Upgrade(p, sendhow, how)) BY <1>3, UpgradeLive
  <2> QED BY <1>2, <2>1, <2>2, EvolvesTrans
<1>10. CASE WsReadFails(c)
  BY <1>1, <1>10, WebsocketCloseLive DEF WsReadFails
<1>11. CASE WsCloseFrame(c)
  <2> DEFINE s == [r EXCEPT !.ws = "closed"]
  <2>1. s \in ConnType BY <1>1, Zenon DEF LiveOK, ConnType
  <2>2. /\ s.mem = r.mem /\ s.state = r.state /\ s.close_pending = r.close_pending
        /\ s.handle = r.handle /\ s.idle = r.idle /\ s.timer = r.timer
        /\ s.reading = r.reading /\ s.writes = r.writes /\ s.sent = r.sent
        /\ s.counted = r.counted
    BY <1>1, Zenon DEF LiveOK, ConnType
  <2> HIDE DEF s
  <2>3. Evolves(r, s) BY <1>1, <2>1, <2>2, SameCore
  <2>4. Update(c, s) BY <1>11, Zenon DEF WsCloseFrame, s
  <2> QED BY <2>3, <2>4
<1>12. CASE WriteDone(c)
  <2> DEFINE s == [r EXCEPT !.writes = @ - 1]
  <2>1. r.writes = 1 /\ r.sent BY <1>1, <1>12 DEF WriteDone, LiveOK, ExchangeOK, ConnType
  <2>2. r.writes - 1 = 0 /\ r.writes - 1 \in Nat BY <2>1
  <2>3. s.writes = 0
    <3>1. s.writes = r.writes - 1 BY <1>1 DEF LiveOK, ConnType
    <3> HIDE DEF s
    <3> QED BY <2>2, <3>1
  <2>4. s \in ConnType BY <1>1, <2>2, Zenon DEF LiveOK, ConnType
  <2>5. /\ s.mem = r.mem /\ s.state = r.state /\ s.close_pending = r.close_pending
        /\ s.handle = r.handle /\ s.idle = r.idle /\ s.timer = r.timer
        /\ s.reading = r.reading /\ s.sent = r.sent /\ s.counted = r.counted
    BY <1>1, Zenon DEF LiveOK, ConnType
  <2> HIDE DEF s
  <2>6. Evolves(r, s)
    <3>1. CloseOK(s) BY <1>1, <2>5 DEF LiveOK, CloseOK, Pending
    <3>2. ExchangeOK(s) BY <1>1, <2>1, <2>3, <2>5 DEF LiveOK, ExchangeOK
    <3> QED BY <1>1, <2>4, <2>5, <3>1, <3>2 DEF LiveOK, Evolves
  <2>7. Evolves(s, AfterResponse(s))
    BY <2>1, <2>3, <2>5, <2>6, AfterResponseLive DEF Evolves
  <2>8. Update(c, AfterResponse(s)) BY <1>12, Zenon DEF WriteDone, s
  <2> QED BY <2>6, <2>7, <2>8, EvolvesTrans
<1>13. CASE OnIdle(c)
  <2> DEFINE s == [r EXCEPT !.idle = FALSE]
  <2>1. r.idle BY <1>13 DEF OnIdle
  <2>2. r.writes = 0 BY <1>1, <2>1 DEF LiveOK, ExchangeOK
  <2>3. s \in ConnType BY <1>1, Zenon DEF LiveOK, ConnType
  <2>4. /\ s.mem = r.mem /\ s.state = r.state /\ s.close_pending = r.close_pending
        /\ s.handle = r.handle /\ s.idle = FALSE /\ s.timer = r.timer
        /\ s.reading = r.reading /\ s.writes = r.writes /\ s.sent = r.sent
        /\ s.counted = r.counted
    BY <1>1, Zenon DEF LiveOK, ConnType
  <2> HIDE DEF s
  <2>5. Evolves(r, s)
    <3>1. CloseOK(s) BY <1>1, <2>4 DEF LiveOK, CloseOK, Pending
    <3>2. ExchangeOK(s) BY <1>1, <2>4 DEF LiveOK, ExchangeOK
    <3> QED BY <1>1, <2>3, <2>4, <3>1, <3>2 DEF LiveOK, Evolves
  <2>6. \/ Update(c, s)
        \/ s.state # "CLOSING" /\ \E ok \in IoOutcomes : Update(c, RestartRead(s, ok))
    BY <1>13, Zenon DEF OnIdle, s
  <2>7. \A ok \in IoOutcomes : ok \in BOOLEAN BY DEF IoOutcomes
  <2>8. \A ok \in IoOutcomes : s.state # "CLOSING" => Evolves(s, RestartRead(s, ok))
    BY <2>2, <2>4, <2>5, <2>7, RestartReadLive DEF Evolves
  <2> QED BY <2>5, <2>6, <2>8, EvolvesTrans
<1>14. CASE Timeout(c)
  <2> DEFINE s == [r EXCEPT !.timer = FALSE]
  <2>1. s \in ConnType BY <1>1, Zenon DEF LiveOK, ConnType
  <2>2. /\ s.mem = r.mem /\ s.state = r.state /\ s.close_pending = r.close_pending
        /\ s.handle = r.handle /\ s.idle = r.idle /\ s.timer = FALSE
        /\ s.reading = r.reading /\ s.writes = r.writes /\ s.sent = r.sent
        /\ s.counted = r.counted
    BY <1>1, Zenon DEF LiveOK, ConnType
  <2> HIDE DEF s
  <2>3. Evolves(r, s)
    <3>1. CloseOK(s) BY <1>1, <2>2 DEF LiveOK, CloseOK, Pending
    <3>2. ExchangeOK(s) BY <1>1, <2>2 DEF LiveOK, ExchangeOK
    <3> QED BY <1>1, <2>1, <2>2, <3>1, <3>2 DEF LiveOK, Evolves
  <2>4. Evolves(s, Close(s)) BY <2>3, CloseLive DEF Evolves
  <2>5. Update(c, Close(s)) BY <1>14, Zenon DEF Timeout, s
  <2> QED BY <2>3, <2>4, <2>5, EvolvesTrans
<1> QED BY <1>4, <1>5, <1>6, <1>7, <1>8, <1>9, <1>10, <1>11, <1>12, <1>13, <1>14

\* Every action of one connection changes its struct only as StepOK allows.
LEMMA ConnStepOK ==
  ASSUME Inv, NEW c \in Conns, ConnStep(c)
  PROVE  StepOK(c)
BY AcceptOK, AcceptFailsOK, NewFailsOK, CallbackOK, OnHandleCloseOK DEF ConnStep

-----------------------------------------------------------------------------
(* The theorems.                                                           *)

\* What a step of a connection leaves is again covered by the invariant.
LEMMA StepKeepsConns ==
  ASSUME Inv, NEW c \in Conns, StepOK(c)
  PROVE  /\ ConnInv(conn'[c]) /\ conn'[c] \in ConnType
         /\ active_connections' \in 0..SizeMax
<1>1. conn'[c] \in ConnType
  BY DEF StepOK, Evolves, LiveOK, DiscardedOK, Released, FreedOK
<1>2. ConnInv(conn'[c]) BY DEF StepOK, Evolves, Released, ConnInv
<1>3. active_connections' \in 0..SizeMax
  BY MaxAssumption DEF StepOK, Inv
<1> QED BY <1>1, <1>2, <1>3

\* Every action of Next is a step of one connection, or leaves them alone.
LEMMA NextCases ==
  ASSUME Inv, [Next]_vars
  PROVE  \/ \E c \in Conns : StepOK(c)
         \/ conn' = conn /\ active_connections' = active_connections
<1>1. CASE \E c \in Conns : ConnStep(c) BY <1>1, ConnStepOK
<1>2. CASE \E t \in TempClients : TempStep(t)
  BY <1>2 DEF TempStep, Refuse, Write503Done, TempClosed
<1>3. CASE ServerStep
  BY <1>3 DEF ServerStep, RefuseFails, ServerStop, ServerFreeBegin, ServerFreeEnd
<1>4. CASE UNCHANGED vars BY <1>4 DEF vars
<1> QED BY <1>1, <1>2, <1>3, <1>4 DEF Next

\* The fields of the server and the 503 handles keep their types.
LEMMA ServerTypes ==
  ASSUME Inv, [Next]_vars
  PROVE  /\ server' \in {"running", "freeing", "freed"}
         /\ is_listening' \in BOOLEAN /\ accept_blocked' \in BOOLEAN
         /\ temp' \in [TempClients -> {"none", "writing", "closing", "freed"}]
<1> USE DEF Inv
<1>1. CASE \E c \in Conns : ConnStep(c)
  <2>1. /\ UNCHANGED <<server, is_listening, temp>>
        /\ accept_blocked' \in {accept_blocked, TRUE}
    BY <1>1 DEF ConnStep, Accept, AcceptFails, NewFails, ReadFails, HandshakeDone,
         RequestAnswered, RequestDeferred, DeferredAnswer, RequestUpgrade,
         WsReadFails, WsCloseFrame, WriteDone, OnIdle, Timeout, UserClose,
         OnHandleClose, Update
  <2> QED BY <2>1
<1>2. CASE \E t \in TempClients : TempStep(t)
  BY <1>2 DEF TempStep, Refuse, Write503Done, TempClosed
<1>3. CASE ServerStep
  BY <1>3 DEF ServerStep, RefuseFails, ServerStop, ServerFreeBegin, ServerFreeEnd
<1>4. CASE UNCHANGED vars BY <1>4 DEF vars
<1> QED BY <1>1, <1>2, <1>3, <1>4 DEF Next

\* The server starts without connections.
LEMMA InvInit == Init => Inv
<1> SUFFICES ASSUME Init PROVE Inv OBVIOUS
<1>1. active_connections \in 0..SizeMax BY MaxAssumption DEF Init
<1>2. /\ server \in {"running", "freeing", "freed"}
      /\ is_listening \in BOOLEAN /\ accept_blocked \in BOOLEAN
      /\ temp \in [TempClients -> {"none", "writing", "closing", "freed"}]
  BY DEF Init
<1>3. /\ conn \in [Conns -> ConnType]
      /\ \A c \in Conns : ConnInv(conn[c])
  BY NoConnType, Zenon DEF Init, ConnInv
<1> QED BY <1>1, <1>2, <1>3 DEF Inv

\* The invariant is inductive.
LEMMA InvNext == Inv /\ [Next]_vars => Inv'
<1> SUFFICES ASSUME Inv, [Next]_vars PROVE Inv' OBVIOUS
<1>1. CASE \E c \in Conns : StepOK(c)
  <2>1. PICK c \in Conns : StepOK(c) BY <1>1
  <2>2. /\ ConnInv(conn'[c]) /\ conn'[c] \in ConnType
        /\ active_connections' \in 0..SizeMax
    BY <2>1, StepKeepsConns
  <2>3. conn' = [conn EXCEPT ![c] = conn'[c]] BY <2>1 DEF StepOK
  <2>4. conn' \in [Conns -> ConnType] BY <2>2, <2>3 DEF Inv
  <2>5. \A d \in Conns : ConnInv(conn'[d]) BY <2>2, <2>3 DEF Inv
  <2> QED BY <2>2, <2>4, <2>5, ServerTypes DEF Inv
<1>2. CASE conn' = conn /\ active_connections' = active_connections
  BY <1>2, ServerTypes DEF Inv
<1> QED BY <1>1, <1>2, NextCases

\* Inv holds in every reachable state: each struct is unused, live (with its
\* handles, counters and exchange consistent), released or discarded.
THEOREM Invariance == Spec => []Inv
BY InvInit, InvNext, PTL DEF Spec

\* Every variable keeps its type: in particular close_pending stays an integer
\* and active_connections a size_t, whatever fails.
THEOREM TypeCorrect == Spec => []TypeOK
<1>1. Inv => TypeOK BY DEF Inv, TypeOK
<1> QED BY <1>1, Invariance, PTL

\* uvhttp_connection_close counts its close callbacks exactly, for any number
\* of connections and any interleaving of callbacks, errors and upgrades.
THEOREM CloseAccounted == Spec => []CloseAccounting
<1>1. Inv => CloseAccounting
  BY AliveLive DEF CloseAccounting, LiveOK, CloseOK
<1> QED BY <1>1, Invariance, PTL

\* An unused struct has nothing in flight.
LEMMA NoConnFacts ==
  /\ NoConn.mem = "none" /\ NoConn.state = "NEW" /\ NoConn.writes = 0
  /\ ~NoConn.idle /\ NoConn.counted = FALSE
BY DEF NoConn

\* At most one response of a connection is being written, and the reset for
\* the next request is never pending while it is.
THEOREM ExchangesSerialised == Spec => []OneExchangeAtATime
<1>1. Inv => OneExchangeAtATime
  <2> SUFFICES ASSUME Inv, NEW c \in Conns
               PROVE  /\ conn[c].writes <= 1
                      /\ conn[c].idle => conn[c].sent /\ conn[c].writes = 0
                      /\ conn[c].writes > 0 => conn[c].sent
    BY DEF OneExchangeAtATime
  <2>1. CASE LiveOK(conn[c]) BY <2>1 DEF LiveOK, ExchangeOK
  <2>2. CASE FreedOK(conn[c]) \/ DiscardedOK(conn[c])
    BY <2>2 DEF FreedOK, DiscardedOK, Quiet
  <2>3. CASE conn[c] = NoConn BY <2>3, NoConnFacts
  <2> QED BY <2>1, <2>2, <2>3 DEF Inv, ConnInv
<1> QED BY <1>1, Invariance, PTL

\* No libuv handle, write or callback refers to a released struct, as long as
\* uvhttp_connection_new succeeds (its failure path is the exception TLC shows).
THEOREM NothingDangles ==
  ASSUME "alloc_fail" \notin Env
  PROVE  Spec => []NoDanglingCallback
<1>1. Inv => NoDanglingCallback
  <2> SUFFICES ASSUME Inv, NEW c \in Conns, conn[c].mem \in {"freed", "discarded"}
               PROVE  /\ \A h \in Handles : conn[c].handle[h] \in {"none", "closed"}
                      /\ conn[c].writes = 0 /\ ~conn[c].idle /\ ~conn[c].timer
                      /\ conn[c].reading = "off"
    BY DEF NoDanglingCallback
  <2>1. FreedOK(conn[c])
    BY NoConnFacts DEF Inv, ConnInv, LiveOK, DiscardedOK
  <2> QED BY <2>1 DEF FreedOK, Quiet
<1> QED BY <1>1, Invariance, PTL

\* A closing connection is never revived.
THEOREM ClosingStaysClosing == Spec => ClosingIsFinal
<1>1. Inv /\ [Next]_vars =>
        [\A c \in Conns : conn[c].state = "CLOSING" =>
           /\ conn'[c].state = "CLOSING"
           /\ conn'[c].reading = "off" /\ ~conn'[c].idle /\ ~conn'[c].timer]_vars
  <2> SUFFICES ASSUME Inv, [Next]_vars, NEW c \in Conns, conn[c].state = "CLOSING"
               PROVE  /\ conn'[c].state = "CLOSING"
                      /\ conn'[c].reading = "off" /\ ~conn'[c].idle /\ ~conn'[c].timer
    OBVIOUS
  <2>1. Inv' BY InvNext
  <2>2. conn'[c].state = "CLOSING"
    <3>1. CASE \E d \in Conns : StepOK(d)
      <4>1. PICK d \in Conns : StepOK(d) BY <3>1
      <4>2. d # c => conn'[c] = conn[c] BY <4>1 DEF StepOK, Inv
      <4>3. d = c => conn'[c].state = "CLOSING"
        BY <4>1, NoConnFacts DEF StepOK, Evolves, Released, FreedOK
      <4> QED BY <4>2, <4>3
    <3>2. CASE conn' = conn BY <3>2
    <3> QED BY <3>1, <3>2, NextCases
  <2>3. LiveOK(conn'[c]) \/ FreedOK(conn'[c])
    BY <2>1, <2>2, NoConnFacts DEF Inv, ConnInv, DiscardedOK
  <2>4. LiveOK(conn'[c]) => ~conn'[c].idle /\ ~conn'[c].timer /\ conn'[c].reading = "off"
    BY <2>2 DEF LiveOK, CloseOK
  <2>5. FreedOK(conn'[c]) => ~conn'[c].idle /\ ~conn'[c].timer /\ conn'[c].reading = "off"
    BY DEF FreedOK, Quiet
  <2> QED BY <2>2, <2>3, <2>4, <2>5
<1> QED BY <1>1, Invariance, PTL DEF Spec, ClosingIsFinal

\* A connection struct is released once, by its last close callback.
THEOREM ReleaseIsLast == Spec => ReleasedOnce
<1>1. Inv /\ [Next]_vars =>
       [\A c \in Conns :
         /\ conn[c].mem \in {"freed", "discarded"} => conn'[c].mem = conn[c].mem
         /\ conn[c].mem = "allocated" /\ conn'[c].mem = "freed" =>
            /\ Pending(conn[c]) = 1
            /\ \E h \in Handles : /\ conn[c].handle[h] = "closing"
                                  /\ conn'[c].handle[h] = "closed"]_vars
  <2> SUFFICES ASSUME Inv, [Next]_vars, NEW c \in Conns
      PROVE  /\ conn[c].mem \in {"freed", "discarded"} => conn'[c].mem = conn[c].mem
             /\ conn[c].mem = "allocated" /\ conn'[c].mem = "freed" =>
                /\ Pending(conn[c]) = 1
                /\ \E h \in Handles : /\ conn[c].handle[h] = "closing"
                                      /\ conn'[c].handle[h] = "closed"
    OBVIOUS
  <2>1. CASE \E d \in Conns : StepOK(d)
    <3>1. PICK d \in Conns : StepOK(d) BY <2>1
    <3>2. d # c => conn'[c] = conn[c] BY <3>1 DEF StepOK, Inv
    <3>3. d = c => \/ LiveOK(conn[c]) /\ LiveOK(conn'[c])
                   \/ conn[c] = NoConn
                   \/ Released(conn[c], conn'[c])
      BY <3>1 DEF StepOK, Evolves
    <3>4. Released(conn[c], conn'[c]) =>
            /\ conn[c].mem = "allocated"
            /\ Pending(conn[c]) = 1
            /\ \E h \in Handles : /\ conn[c].handle[h] = "closing"
                                  /\ conn'[c].handle[h] = "closed"
      BY DEF Released, LiveOK
    <3> QED BY <3>2, <3>3, <3>4, NoConnFacts DEF LiveOK
  <2>2. CASE conn' = conn BY <2>2
  <2> QED BY <2>1, <2>2, NextCases
<1> QED BY <1>1, Invariance, PTL DEF Spec, ReleasedOnce

\* What makes the connection count exact: every live struct was counted.
LimitInv ==
  /\ IsFiniteSet(Served)
  /\ ConnectionLimit
  /\ \A c \in Conns : conn[c].mem = "allocated" => conn[c].counted

\* One connection step changes the set of served connections by at most c.
LEMMA LimitStep ==
  ASSUME "accept_fail" \notin Env, Inv, LimitInv, NEW c \in Conns, StepOK(c)
  PROVE  LimitInv'
<1> DEFINE r == conn[c]
           s == conn'[c]
           n == active_connections
<1>1. conn' = [conn EXCEPT ![c] = s] BY DEF StepOK
<1>2. \A d \in Conns \ {c} : conn'[d] = conn[d] BY <1>1 DEF Inv
<1>3. IsFiniteSet(Served) /\ n = Cardinality(Served) /\ n \in Nat /\ n <= MaxConnections
  BY FS_CardinalityType DEF LimitInv, ConnectionLimit
<1> HIDE DEF n
<1>4. CASE LiveOK(r) /\ Evolves(r, s) /\ n' = n
  <2>1. r.mem = "allocated" /\ s.mem = "allocated" /\ r.counted /\ s.counted
    BY <1>4 DEF LiveOK, Evolves, LimitInv
  <2>2. Served' = Served BY <1>2, <2>1 DEF Served
  <2>3. Cardinality(Served)' = Cardinality(Served) BY <2>2
  <2> QED BY <1>2, <1>3, <1>4, <2>1, <2>2, <2>3 DEF LimitInv, ConnectionLimit, n
<1>5. CASE r = NoConn /\ LiveOK(s) /\ s.counted /\ n < MaxConnections /\ n' = n + 1
  <2>1. s.mem = "allocated" BY <1>5 DEF LiveOK
  <2>2. Served' = Served \cup {c} /\ c \notin Served
    BY <1>2, <1>5, <2>1, NoConnFacts DEF Served
  <2>3. /\ IsFiniteSet(Served \cup {c})
        /\ Cardinality(Served \cup {c}) = Cardinality(Served) + 1
    BY <1>3, <2>2, FS_AddElement
  <2>4. n' <= MaxConnections BY <1>3, <1>5, MaxAssumption
  <2>5. IsFiniteSet(Served)' /\ Cardinality(Served)' = n' BY <1>3, <1>5, <2>2, <2>3
  <2> QED BY <1>2, <1>5, <2>1, <2>4, <2>5 DEF LimitInv, ConnectionLimit, n
<1>6. CASE r = NoConn /\ DiscardedOK(s) /\ n' = n
  <2>1. s.mem = "discarded" BY <1>6 DEF DiscardedOK
  <2>2. Served' = Served BY <1>2, <1>6, <2>1, NoConnFacts DEF Served
  <2>3. Cardinality(Served)' = Cardinality(Served) BY <2>2
  <2> QED BY <1>2, <1>3, <1>6, <2>1, <2>2, <2>3 DEF LimitInv, ConnectionLimit, n
<1>7. CASE /\ Released(r, s)
           /\ n' = IF n = 0 THEN SizeMax ELSE n - 1
  <2>1. r.mem = "allocated" /\ r.counted /\ s.mem = "freed"
    BY <1>7 DEF Released, LiveOK, FreedOK, LimitInv
  <2>2. Served' = Served \ {c} /\ c \in Served BY <1>2, <2>1 DEF Served
  <2>3. IsFiniteSet(Served \ {c}) /\ Cardinality(Served \ {c}) = Cardinality(Served) - 1
    BY <1>3, <2>2, FS_RemoveElement
  <2>4. Cardinality(Served) # 0 BY <1>3, <2>2, FS_EmptySet
  <2>5. n' = n - 1 BY <1>3, <1>7, <2>4
  <2>6. n' <= MaxConnections BY <1>3, <2>5, MaxAssumption
  <2>7. IsFiniteSet(Served)' /\ Cardinality(Served)' = n' BY <1>3, <2>2, <2>3, <2>5
  <2> QED BY <1>2, <2>1, <2>6, <2>7 DEF LimitInv, ConnectionLimit, n
<1> QED BY <1>4, <1>5, <1>6, <1>7 DEF StepOK, n

\* LimitInv holds in every reachable state: active_connections counts exactly
\* the accepted connections whose struct is not released.
LEMMA LimitInvariance ==
  ASSUME "accept_fail" \notin Env
  PROVE  Spec => []LimitInv
<1>1. Init => LimitInv
  <2> SUFFICES ASSUME Init PROVE LimitInv OBVIOUS
  <2>1. \A c \in Conns : conn[c] = NoConn BY DEF Init
  <2>2. Served = {} BY <2>1, NoConnFacts DEF Served
  <2>3. IsFiniteSet(Served) /\ Cardinality(Served) = 0 BY <2>2, FS_EmptySet
  <2>4. ConnectionLimit BY <2>3, MaxAssumption DEF ConnectionLimit, Init
  <2> QED BY <2>1, <2>3, <2>4, NoConnFacts DEF LimitInv
<1>2. Inv /\ LimitInv /\ [Next]_vars => LimitInv'
  <2> SUFFICES ASSUME Inv, LimitInv, [Next]_vars PROVE LimitInv' OBVIOUS
  <2>1. CASE \E c \in Conns : StepOK(c) BY <2>1, LimitStep
  <2>2. CASE conn' = conn /\ active_connections' = active_connections
    <3>1. Served' = Served BY <2>2 DEF Served
    <3>2. Cardinality(Served)' = Cardinality(Served) BY <3>1
    <3> QED BY <2>2, <3>1, <3>2 DEF LimitInv, ConnectionLimit
  <2> QED BY <2>1, <2>2, NextCases
<1> QED BY <1>1, <1>2, Invariance, PTL DEF Spec

\* on_connection never lets more than max_connections connections exist and
\* active_connections counts them exactly, as long as uv_accept succeeds (its
\* failure path is the exception TLC shows).
THEOREM LimitRespected ==
  ASSUME "accept_fail" \notin Env
  PROVE  Spec => []ConnectionLimit
<1>1. LimitInv => ConnectionLimit BY DEF LimitInv
<1> QED BY <1>1, LimitInvariance, PTL

\* A client gets a 503 only when max_connections connections exist, as long as
\* uv_accept succeeds: on_connection decides by a counter that is exact.
THEOREM RefusalIsJustified ==
  ASSUME "accept_fail" \notin Env
  PROVE  Spec => RefusedAtLimit
<1>1. Inv /\ LimitInv /\ [Next]_vars =>
        [\A t \in TempClients : temp[t] = "none" /\ temp'[t] # "none" =>
           Cardinality(Served) >= MaxConnections]_vars
  <2> SUFFICES ASSUME Inv, LimitInv, [Next]_vars,
                      NEW t \in TempClients, temp[t] = "none", temp'[t] # "none"
               PROVE  Cardinality(Served) >= MaxConnections
    OBVIOUS
  <2>1. CASE \E c \in Conns : ConnStep(c)
    <3>1. UNCHANGED temp
      BY <2>1 DEF ConnStep, Accept, AcceptFails, NewFails, ReadFails, HandshakeDone,
         RequestAnswered, RequestDeferred, DeferredAnswer, RequestUpgrade,
         WsReadFails, WsCloseFrame, WriteDone, OnIdle, Timeout, UserClose,
         OnHandleClose, Update
    <3> QED BY <3>1
  <2>2. CASE \E u \in TempClients : TempStep(u)
    <3>1. PICK u \in TempClients : TempStep(u) BY <2>2
    <3>2. CASE Refuse(u) BY <3>2 DEF Refuse, LimitInv, ConnectionLimit
    <3>3. CASE Write503Done(u) BY <3>3 DEF Write503Done, Inv
    <3>4. CASE TempClosed(u) BY <3>4 DEF TempClosed, Inv
    <3> QED BY <3>1, <3>2, <3>3, <3>4 DEF TempStep
  <2>3. CASE ServerStep
    BY <2>3 DEF ServerStep, RefuseFails, ServerStop, ServerFreeBegin, ServerFreeEnd
  <2>4. CASE UNCHANGED vars BY <2>4 DEF vars
  <2> QED BY <2>1, <2>2, <2>3, <2>4 DEF Next
<1> QED BY <1>1, Invariance, LimitInvariance, PTL DEF Spec, RefusedAtLimit

-----------------------------------------------------------------------------
(* A response that closes the connection is honoured.                      *)

\* What the functions of a callback do to a response that is already sent: its
\* write stays in flight and a cleared keepalive stays cleared.
Keeps(r, s) ==
  /\ s.writes = r.writes /\ (s.sent <=> r.sent)
  /\ ~r.keepalive => ~s.keepalive

\* Keeping composes along the calls a callback makes.
LEMMA KeepsTrans ==
  ASSUME NEW r, NEW s, NEW u, Keeps(r, s), Keeps(s, u)
  PROVE  Keeps(r, u)
BY DEF Keeps

\* uvhttp_connection_close does not touch the response.
LEMMA CloseKeeps ==
  ASSUME NEW r, LiveOK(r)
  PROVE  Keeps(r, Close(r))
<1>1. CASE r.state = "CLOSING"
  BY <1>1 DEF Close, LiveOK, CloseOK, Keeps
<1>2. CASE r.state # "CLOSING"
  <2> DEFINE fresh == {h \in Handles : r.handle[h] = "open"}
             s == [r EXCEPT !.state = "CLOSING",
                     !.close_pending = Cardinality(fresh),
                     !.handle = [h \in Handles |->
                                   IF h \in fresh THEN "closing" ELSE @[h]],
                     !.idle = @ /\ "idle" \notin fresh,
                     !.timer = @ /\ "timer" \notin fresh,
                     !.reading = IF "tcp" \in fresh THEN "off" ELSE @]
  <2>1. fresh = Handles BY <1>2 DEF LiveOK, CloseOK
  <2>2. Close(r) = s
    <3>1. ~(fresh = {} /\ Handles \ fresh = {}) BY <2>1 DEF Handles
    <3> QED BY <1>2, <3>1 DEF Close
  <2>3. s.writes = r.writes /\ s.sent = r.sent /\ s.keepalive = r.keepalive
    BY Zenon DEF LiveOK, ConnType
  <2> QED BY <2>2, <2>3, Zenon DEF Keeps
<1> QED BY <1>1, <1>2

\* uvhttp_response_send answers a duplicate send without writing.
LEMMA SendKeeps ==
  ASSUME NEW r, LiveOK(r), r.sent, NEW ka \in BOOLEAN, NEW how, NEW is101
  PROVE  Keeps(r, Send(r, ka, how, is101))
<1> DEFINE s == [r EXCEPT !.keepalive = @ /\ ka]
<1>1. Send(r, ka, how, is101) = s BY Zenon DEF Send
<1>2. s.writes = r.writes /\ s.sent = r.sent /\ s.keepalive = (r.keepalive /\ ka)
  BY Zenon DEF LiveOK, ConnType
<1> QED BY <1>1, <1>2, Zenon DEF Keeps

\* The end of a TLS handshake does not touch the response.
LEMMA ParsingKeeps ==
  ASSUME NEW r, LiveOK(r)
  PROVE  Keeps(r, Parsing(r))
<1> DEFINE s == [r EXCEPT !.state = "HTTP_READING"]
<1>1. s.writes = r.writes /\ s.sent = r.sent /\ s.keepalive = r.keepalive
  BY Zenon DEF LiveOK, ConnType
<1>2. Parsing(r) \in {r, s} BY Zenon DEF Parsing
<1> QED BY <1>1, <1>2, Zenon DEF Keeps

\* uvhttp_connection_websocket_close does not touch the response.
LEMMA WebsocketCloseKeeps ==
  ASSUME NEW r, LiveOK(r)
  PROVE  Keeps(r, WebsocketClose(r))
<1> DEFINE s == [r EXCEPT !.managed = FALSE, !.ws = "none"]
<1>1. s \in ConnType BY Zenon DEF LiveOK, ConnType
<1>2. /\ s.mem = r.mem /\ s.state = r.state /\ s.close_pending = r.close_pending
      /\ s.handle = r.handle /\ s.idle = r.idle /\ s.timer = r.timer
      /\ s.reading = r.reading /\ s.writes = r.writes /\ s.sent = r.sent
      /\ s.counted = r.counted /\ s.keepalive = r.keepalive
  BY Zenon DEF LiveOK, ConnType
<1> HIDE DEF s
<1>3. LiveOK(s) BY <1>1, <1>2, SameCore DEF Evolves
<1>4. Keeps(r, s) BY <1>2 DEF Keeps
<1>5. Keeps(s, Close(s)) BY <1>3, CloseKeeps
<1>6. WebsocketClose(r) = Close(s) BY Zenon DEF WebsocketClose, s
<1> QED BY <1>4, <1>5, <1>6, KeepsTrans

\* uvhttp_connection_switch_to_websocket does not touch the response.
LEMMA SwitchKeeps ==
  ASSUME NEW r, LiveOK(r), NEW ok
  PROVE  Keeps(r, SwitchToWebsocket(r, ok))
<1> DEFINE f == [r EXCEPT !.state = "HTTP_PROCESSING", !.reading = "off"]
           g == [f EXCEPT !.reading = "on_websocket_read"]
<1>1. CASE r.state = "CLOSING" BY <1>1 DEF SwitchToWebsocket, Keeps
<1>2. CASE r.state # "CLOSING"
  <2>1. f \in ConnType BY Zenon DEF LiveOK, ConnType, States
  <2>2. /\ f.mem = r.mem /\ f.state = "HTTP_PROCESSING" /\ f.handle = r.handle
        /\ f.close_pending = r.close_pending /\ f.writes = r.writes
        /\ f.idle = r.idle /\ f.sent = r.sent /\ f.keepalive = r.keepalive
    BY Zenon DEF LiveOK, ConnType
  <2>3. g.writes = r.writes /\ g.sent = r.sent /\ g.keepalive = r.keepalive
    BY <2>1, <2>2, Zenon DEF ConnType
  <2> HIDE DEF f, g
  <2>4. LiveOK(f) BY <1>2, <2>1, <2>2 DEF LiveOK, CloseOK, ExchangeOK
  <2>5. Keeps(r, f) /\ Keeps(r, g) BY <2>2, <2>3 DEF Keeps
  <2>6. Keeps(f, Close(f)) BY <2>4, CloseKeeps
  <2>7. SwitchToWebsocket(r, ok) = IF ok THEN g ELSE Close(f)
    BY <1>2, Zenon DEF SwitchToWebsocket, f, g
  <2> QED BY <2>5, <2>6, <2>7, KeepsTrans
<1> QED BY <1>1, <1>2

\* The WebSocket handshake does not touch the response at any of its exits.
LEMMA HandshakeKeeps ==
  ASSUME NEW r, LiveOK(r), NEW how
  PROVE  Keeps(r, Handshake(r, how))
<1> DEFINE o == [r EXCEPT !.ws = "open"]
           w == SwitchToWebsocket(o, how = "ok")
           m == [w EXCEPT !.managed = WsManager]
<1>1. o \in ConnType BY Zenon DEF LiveOK, ConnType
<1>2. /\ o.mem = r.mem /\ o.state = r.state /\ o.close_pending = r.close_pending
      /\ o.handle = r.handle /\ o.idle = r.idle /\ o.timer = r.timer
      /\ o.reading = r.reading /\ o.writes = r.writes /\ o.sent = r.sent
      /\ o.counted = r.counted /\ o.keepalive = r.keepalive
  BY Zenon DEF LiveOK, ConnType
<1> HIDE DEF o
<1>3. LiveOK(o) BY <1>1, <1>2, SameCore DEF Evolves
<1>4. Keeps(r, o) BY <1>2 DEF Keeps
<1>5. \A ok : Keeps(o, SwitchToWebsocket(o, ok)) BY <1>3, SwitchKeeps
<1>6. \A ok : Evolves(o, SwitchToWebsocket(o, ok)) BY <1>3, SwitchLive
<1>7. Keeps(o, w) /\ Evolves(o, w) BY <1>5, <1>6, Zenon
<1> HIDE DEF w
<1>8. w \in ConnType BY <1>7 DEF Evolves, LiveOK
<1>9. m.writes = w.writes /\ m.sent = w.sent /\ m.keepalive = w.keepalive
  BY <1>8, Zenon DEF ConnType
<1> HIDE DEF m
<1>10. Keeps(w, m) BY <1>9 DEF Keeps
<1>11. Keeps(r, m) BY <1>4, <1>7, <1>10, KeepsTrans
<1>12. Keeps(o, WebsocketClose(o)) BY <1>3, WebsocketCloseKeeps
<1>13. Keeps(r, r) BY DEF Keeps
<1>14. Handshake(r, how) \in {r, WebsocketClose(o), m} BY Zenon DEF Handshake, o, w, m
<1> QED BY <1>4, <1>11, <1>12, <1>13, <1>14, KeepsTrans

\* An upgrade request that arrives after a response was sent writes nothing.
LEMMA UpgradeKeeps ==
  ASSUME NEW r, LiveOK(r), r.sent, NEW sendhow, NEW how
  PROVE  Keeps(r, Upgrade(r, sendhow, how))
<1> DEFINE r1 == Send(r, TRUE, sendhow, TRUE)
           r2 == Handshake(r1, how)
           r3 == Close(r2)
           r4 == Send(r3, TRUE, "ok", FALSE)
<1>1. Keeps(r, r1) /\ Evolves(r, r1) BY SendKeeps, SendLive
<1> HIDE DEF r1
<1>2. Keeps(r1, r2) /\ Evolves(r1, r2) BY <1>1, HandshakeKeeps, HandshakeLive DEF Evolves
<1> HIDE DEF r2
<1>3. Keeps(r2, r3) /\ Evolves(r2, r3) BY <1>2, CloseKeeps, CloseLive DEF Evolves
<1> HIDE DEF r3
<1>4. LiveOK(r3) /\ r3.sent BY <1>1, <1>2, <1>3 DEF Keeps, Evolves
<1>5. Keeps(r3, r4) BY <1>4, SendKeeps
<1> HIDE DEF r4
<1>6. Upgrade(r, sendhow, how) \in {r2, r4}
  BY Zenon DEF Upgrade, r1, r2, r3, r4
<1> QED BY <1>1, <1>2, <1>3, <1>5, <1>6, KeepsTrans

\* A callback other than the completion of the write.
LEMMA CallbackKeeps ==
  ASSUME Inv, NEW c \in Conns, conn[c].writes > 0,
         \/ ReadFails(c) \/ HandshakeDone(c)
         \/ RequestAnswered(c) \/ RequestDeferred(c) \/ DeferredAnswer(c)
         \/ RequestUpgrade(c) \/ WsReadFails(c) \/ WsCloseFrame(c)
         \/ OnIdle(c) \/ Timeout(c) \/ UserClose(c)
  PROVE  Keeps(conn[c], conn'[c])
<1> DEFINE r == conn[c]
           p == Parsing(r)
<1>1. LiveOK(r)
  <2>1. r.mem = "allocated"
    BY DEF ReadFails, HandshakeDone, RequestAnswered, RequestDeferred,
           DeferredAnswer, RequestUpgrade, WsReadFails, WsCloseFrame,
           OnIdle, Timeout, UserClose, Reads, WsReads, Alive
  <2> QED BY <2>1, AliveLive
<1>2. r.sent BY <1>1 DEF LiveOK, ExchangeOK
<1>3. Keeps(r, p) /\ LiveOK(p) BY <1>1, ParsingKeeps, ParsingLive DEF Evolves
<1>4. p.sent BY <1>2, <1>3 DEF Keeps
<1>5. \A s : Update(c, s) => conn'[c] = s BY DEF Update, Inv
<1> SUFFICES \E s : Keeps(r, s) /\ Update(c, s) BY <1>5
<1>6. CASE ReadFails(c) \/ UserClose(c)
  BY <1>1, <1>6, CloseKeeps DEF ReadFails, UserClose
<1>7. CASE HandshakeDone(c) BY <1>3, <1>7 DEF HandshakeDone
<1>8. CASE RequestAnswered(c)
  <2>1. PICK ka \in BOOLEAN, how \in SendHow : Update(c, Send(p, ka, how, FALSE))
    BY <1>8, Zenon DEF RequestAnswered
  <2>2. Keeps(p, Send(p, ka, how, FALSE)) BY <1>3, <1>4, SendKeeps
  <2> QED BY <1>3, <2>1, <2>2, KeepsTrans
<1>9. CASE RequestDeferred(c)
  <2> DEFINE s == [p EXCEPT !.deferred = TRUE]
  <2> HIDE DEF p
  <2>1. s.writes = p.writes /\ s.sent = p.sent /\ s.keepalive = p.keepalive
    BY <1>3, Zenon DEF LiveOK, ConnType
  <2> HIDE DEF s
  <2>2. Keeps(p, s) BY <2>1 DEF Keeps
  <2>3. Update(c, s) BY <1>9, Zenon DEF RequestDeferred, s, p
  <2> QED BY <1>3, <2>2, <2>3, KeepsTrans
<1>10. CASE DeferredAnswer(c)
  <2>1. PICK ka \in BOOLEAN, how \in SendHow :
          Update(c, [Send(r, ka, how, FALSE) EXCEPT !.deferred = FALSE])
    BY <1>10, Zenon DEF DeferredAnswer
  <2> DEFINE q == Send(r, ka, how, FALSE)
             s == [q EXCEPT !.deferred = FALSE]
  <2>2. Keeps(r, q) /\ LiveOK(q) BY <1>1, <1>2, SendKeeps, SendLive DEF Evolves
  <2> HIDE DEF q
  <2>3. s.writes = q.writes /\ s.sent = q.sent /\ s.keepalive = q.keepalive
    BY <2>2, Zenon DEF LiveOK, ConnType
  <2> HIDE DEF s
  <2>4. Keeps(q, s) BY <2>3 DEF Keeps
  <2>5. Update(c, s) BY <2>1, Zenon DEF s, q
  <2> QED BY <2>2, <2>4, <2>5, KeepsTrans
<1>11. CASE RequestUpgrade(c)
  <2>1. PICK sendhow, how : Update(c, Upgrade(p, sendhow, how))
    BY <1>11, Zenon DEF RequestUpgrade
  <2>2. Keeps(p, Upgrade(p, sendhow, how)) BY <1>3, <1>4, UpgradeKeeps
  <2> QED BY <1>3, <2>1, <2>2, KeepsTrans
<1>12. CASE WsReadFails(c)
  BY <1>1, <1>12, WebsocketCloseKeeps DEF WsReadFails
<1>13. CASE WsCloseFrame(c)
  <2> DEFINE s == [r EXCEPT !.ws = "closed"]
  <2>1. s.writes = r.writes /\ s.sent = r.sent /\ s.keepalive = r.keepalive
    BY <1>1, Zenon DEF LiveOK, ConnType
  <2> HIDE DEF s
  <2>2. Keeps(r, s) BY <2>1 DEF Keeps
  <2>3. Update(c, s) BY <1>13, Zenon DEF WsCloseFrame, s
  <2> QED BY <2>2, <2>3
<1>14. CASE OnIdle(c)
  <2>1. r.idle /\ r.writes \in Nat BY <1>1, <1>14 DEF OnIdle, LiveOK, ConnType
  <2> QED BY <1>1, <2>1 DEF LiveOK, ExchangeOK
<1>15. CASE Timeout(c)
  <2> DEFINE s == [r EXCEPT !.timer = FALSE]
  <2>1. s \in ConnType BY <1>1, Zenon DEF LiveOK, ConnType
  <2>2. /\ s.mem = r.mem /\ s.state = r.state /\ s.close_pending = r.close_pending
        /\ s.handle = r.handle /\ s.idle = r.idle /\ s.timer = FALSE
        /\ s.reading = r.reading /\ s.writes = r.writes /\ s.sent = r.sent
        /\ s.keepalive = r.keepalive
    BY <1>1, Zenon DEF LiveOK, ConnType
  <2> HIDE DEF s
  <2>3. CloseOK(s) /\ ExchangeOK(s)
    BY <1>1, <2>2 DEF LiveOK, CloseOK, Pending, ExchangeOK
  <2>4. LiveOK(s) BY <1>1, <2>1, <2>2, <2>3 DEF LiveOK
  <2>5. Keeps(r, s) BY <2>2 DEF Keeps
  <2>6. Keeps(s, Close(s)) BY <2>4, CloseKeeps
  <2>7. Update(c, Close(s)) BY <1>15, Zenon DEF Timeout, s
  <2> QED BY <2>5, <2>6, <2>7, KeepsTrans
<1> QED BY <1>6, <1>7, <1>8, <1>9, <1>10, <1>11, <1>12, <1>13, <1>14, <1>15

\* on_handle_close leaves a response in flight alone, or releases the struct.
LEMMA OnHandleCloseKeeps ==
  ASSUME Inv, NEW c \in Conns, NEW h \in Handles, OnHandleClose(c, h)
  PROVE  Keeps(conn[c], conn'[c]) \/ FreedOK(conn'[c])
<1> DEFINE r == conn[c]
           s == [r EXCEPT !.handle[h] = "closed", !.close_pending = @ - 1]
<1>1. LiveOK(r) BY AliveLive DEF OnHandleClose, Alive
<1>2. s.writes = r.writes /\ s.sent = r.sent /\ s.keepalive = r.keepalive /\ s.mem = r.mem
  BY <1>1, Zenon DEF LiveOK, ConnType
<1>3. conn'[c] \in {s, FreeResources(s)} BY Zenon DEF OnHandleClose, Inv
<1>4. CASE conn'[c] = s
  <2> HIDE DEF s
  <2> QED BY <1>2, <1>4 DEF Keeps
<1>5. CASE conn'[c] = FreeResources(s)
  <2>1. s.mem = "allocated" /\ DOMAIN s = DOMAIN r BY <1>1, <1>2 DEF LiveOK
  <2> HIDE DEF s
  <2>2. conn'[c].mem = "freed"
    BY <1>1, <1>5, <2>1, Zenon DEF FreeResources, LiveOK, ConnType
  <2>3. Inv' BY InvNext DEF Next, ConnStep
  <2> QED BY <2>2, <2>3, NoConnFacts DEF Inv, ConnInv, LiveOK, DiscardedOK
<1> QED BY <1>3, <1>4, <1>5

\* The completion of the write of a response that says close closes.
LEMMA WriteDoneCloses ==
  ASSUME Inv, NEW c \in Conns, WriteDone(c), ~conn[c].keepalive
  PROVE  conn'[c].writes = 0 /\ conn'[c].state = "CLOSING"
<1> DEFINE r == conn[c]
           s == [r EXCEPT !.writes = @ - 1]
<1>1. LiveOK(r) BY AliveLive DEF WriteDone, Alive
<1>2. r.writes = 1 BY <1>1 DEF WriteDone, LiveOK, ExchangeOK, ConnType
<1>3. s.writes = 0
  <2>1. s.writes = r.writes - 1 BY <1>1 DEF LiveOK, ConnType
  <2> HIDE DEF s
  <2> QED BY <1>2, <2>1
<1>4. s \in ConnType
  <2>1. r.writes - 1 \in Nat BY <1>2
  <2> QED BY <1>1, <2>1, Zenon DEF LiveOK, ConnType
<1>5. /\ s.mem = r.mem /\ s.state = r.state /\ s.close_pending = r.close_pending
      /\ s.handle = r.handle /\ s.idle = r.idle /\ s.timer = r.timer
      /\ s.reading = r.reading /\ s.sent = r.sent /\ s.keepalive = r.keepalive
  BY <1>1, Zenon DEF LiveOK, ConnType
<1>6. Update(c, AfterResponse(s)) BY Zenon DEF WriteDone
<1> HIDE DEF s
<1>7. CloseOK(s) BY <1>1, <1>5 DEF LiveOK, CloseOK, Pending
<1>8. ExchangeOK(s) BY <1>1, <1>2, <1>3, <1>5 DEF LiveOK, ExchangeOK
<1>9. LiveOK(s) BY <1>1, <1>4, <1>5, <1>7, <1>8 DEF LiveOK
<1>10. AfterResponse(s) = Close(s) BY <1>5 DEF AfterResponse
<1>11. conn'[c] = Close(s) BY <1>6, <1>10 DEF Update, Inv
<1> QED BY <1>3, <1>9, <1>11, CloseLive, CloseKeeps DEF Keeps

\* A response that says Connection: close ends the connection, whatever other
\* callbacks run before its write completes: another request, an upgrade, a
\* deferred answer, the timeout or a close in between.
THEOREM CloseIsHonoured == Spec => CloseResponseHonoured
<1>1. Inv /\ [Next]_vars =>
        [\A c \in Conns : conn[c].writes > 0 /\ ~conn[c].keepalive =>
           /\ conn'[c].writes > 0 => ~conn'[c].keepalive
           /\ conn'[c].writes = 0 => conn'[c].state = "CLOSING" /\ ~conn'[c].idle]_vars
  <2> SUFFICES ASSUME Inv, [Next]_vars, NEW c \in Conns,
                      conn[c].writes > 0, ~conn[c].keepalive
               PROVE  /\ conn'[c].writes > 0 => ~conn'[c].keepalive
                      /\ conn'[c].writes = 0 =>
                           conn'[c].state = "CLOSING" /\ ~conn'[c].idle
    OBVIOUS
  <2>1. Inv' BY InvNext
  <2>2. conn'[c].writes \in Nat /\ conn[c].writes \in Nat BY <2>1 DEF Inv, ConnType
  <2>3. CASE Keeps(conn[c], conn'[c]) BY <2>2, <2>3 DEF Keeps
  <2>4. CASE FreedOK(conn'[c]) BY <2>4 DEF FreedOK, Quiet
  <2>5. CASE WriteDone(c)
    <3>1. conn'[c].writes = 0 /\ conn'[c].state = "CLOSING" BY <2>5, WriteDoneCloses
    <3>2. LiveOK(conn'[c]) \/ FreedOK(conn'[c])
      BY <2>1, <3>1, NoConnFacts DEF Inv, ConnInv, DiscardedOK
    <3> QED BY <3>1, <3>2 DEF LiveOK, CloseOK, FreedOK, Quiet
  <2>6. CASE conn'[c] = conn[c] BY <2>3, <2>6 DEF Keeps
  <2>7. CASE ConnStep(c)
    <3>1. conn[c].mem # "none" BY FreshIsNoConn, NoConnFacts
    <3> QED BY <2>3, <2>4, <2>5, <2>7, <3>1, CallbackKeeps, OnHandleCloseKeeps
        DEF ConnStep, Accept, AcceptFails, NewFails
  <2>8. CASE \E d \in Conns \ {c} : ConnStep(d)
    <3>1. PICK d \in Conns \ {c} : StepOK(d) BY <2>8, ConnStepOK
    <3> QED BY <2>6, <3>1 DEF StepOK, Inv
  <2>9. CASE conn' = conn BY <2>6, <2>9
  <2>10. CASE \E t \in TempClients : TempStep(t)
    BY <2>9, <2>10 DEF TempStep, Refuse, Write503Done, TempClosed
  <2>11. CASE ServerStep
    BY <2>9, <2>11 DEF ServerStep, RefuseFails, ServerStop, ServerFreeBegin, ServerFreeEnd
  <2>12. CASE UNCHANGED vars BY <2>9, <2>12 DEF vars
  <2> QED BY <2>7, <2>8, <2>10, <2>11, <2>12 DEF Next
<1> QED BY <1>1, Invariance, PTL DEF Spec, CloseResponseHonoured

-----------------------------------------------------------------------------
(* The connection layer implements its abstract life cycle.                *)

\* The phase of a struct of each kind the invariant allows.
LEMMA PhaseOf ==
  ASSUME NEW r
  PROVE  /\ r = NoConn => Phase(r) = "unused"
         /\ DiscardedOK(r) => Phase(r) = "unused"
         /\ FreedOK(r) => Phase(r) = "released"
         /\ LiveOK(r) => Phase(r) = IF r.state = "CLOSING" THEN "closing" ELSE "open"
BY NoConnFacts DEF Phase, DiscardedOK, FreedOK, LiveOK

\* The connections the life cycle counts are the ones the server counts.
LEMMA ExistingServed ==
  ASSUME Inv, LimitInv
  PROVE  Lifecycle!Existing = Served
<1>1. ASSUME NEW c \in Conns
      PROVE  Phase(conn[c]) \in {"open", "closing"} <=>
               conn[c].counted /\ conn[c].mem = "allocated"
  <2>1. CASE LiveOK(conn[c]) BY <2>1, PhaseOf DEF LiveOK, LimitInv
  <2>2. CASE conn[c] = NoConn BY <2>2, PhaseOf, NoConnFacts
  <2>3. CASE FreedOK(conn[c]) BY <2>3, PhaseOf DEF FreedOK
  <2>4. CASE DiscardedOK(conn[c]) BY <2>4, PhaseOf DEF DiscardedOK
  <2> QED BY <2>1, <2>2, <2>3, <2>4 DEF Inv, ConnInv
<1> QED BY <1>1 DEF Lifecycle!Existing, Served

\* A step of one connection is a step of the life cycle, or invisible in it.
LEMMA StepImplements ==
  ASSUME "accept_fail" \notin Env, Inv, LimitInv, NEW c \in Conns, StepOK(c)
  PROVE  \/ Lifecycle!Next
         \/ [d \in Conns |-> Phase(conn[d])]' = [d \in Conns |-> Phase(conn[d])]
<1> DEFINE ph == [d \in Conns |-> Phase(conn[d])]
           r == conn[c]
           s == conn'[c]
<1>1. conn' = [conn EXCEPT ![c] = s] BY DEF StepOK
<1>2. \A d \in Conns \ {c} : conn'[d] = conn[d] BY <1>1 DEF Inv
<1>3. ph' = [ph EXCEPT ![c] = Phase(s)] BY <1>2
<1>4. ph[c] = Phase(r) OBVIOUS
<1>5. CASE LiveOK(r) /\ Evolves(r, s)
  <2>1. LiveOK(s) /\ (r.state = "CLOSING" => s.state = "CLOSING") BY <1>5 DEF Evolves
  <2>2. CASE Phase(s) = Phase(r) BY <1>3, <2>2
  <2>3. CASE Phase(s) # Phase(r)
    <3>1. Phase(r) = "open" /\ Phase(s) = "closing" BY <1>5, <2>1, <2>3, PhaseOf
    <3>2. Lifecycle!BeginClose(c) BY <1>3, <3>1 DEF Lifecycle!BeginClose
    <3> QED BY <3>2 DEF Lifecycle!Next
  <2> QED BY <2>2, <2>3
<1>6. CASE r = NoConn /\ LiveOK(s) /\ active_connections < MaxConnections
  <2>1. Phase(r) = "unused" /\ Phase(s) \in {"open", "closing"} BY <1>6, PhaseOf
  <2>2. Cardinality(Lifecycle!Existing) < MaxConnections
    BY <1>6, ExistingServed DEF LimitInv, ConnectionLimit
  <2>3. Lifecycle!Cardinality(Lifecycle!Existing) < MaxConnections
    BY <2>2, Zenon DEF Lifecycle!Cardinality, Cardinality
  <2>4. Lifecycle!Open(c) BY <1>3, <2>1, <2>3 DEF Lifecycle!Open
  <2> QED BY <2>4 DEF Lifecycle!Next
<1>7. CASE r = NoConn /\ DiscardedOK(s)
  <2>1. Phase(s) = Phase(r) BY <1>7, PhaseOf
  <2> QED BY <1>3, <2>1
<1>8. CASE Released(r, s)
  <2>1. LiveOK(r) /\ r.state = "CLOSING" /\ FreedOK(s)
    <3>1. LiveOK(r) /\ FreedOK(s) /\ \E h \in Handles : r.handle[h] = "closing"
      BY <1>8 DEF Released
    <3> QED BY <3>1 DEF LiveOK, CloseOK
  <2>2. Phase(r) = "closing" /\ Phase(s) = "released" BY <2>1, PhaseOf
  <2>3. Lifecycle!Release(c) BY <1>3, <2>2 DEF Lifecycle!Release
  <2> QED BY <2>3 DEF Lifecycle!Next
<1> QED BY <1>5, <1>6, <1>7, <1>8 DEF StepOK

\* The safety half of the refinement, for any number of connections: a struct
\* is opened below the limit, closes at most once and is released at most once,
\* as long as uv_accept succeeds (a connection whose accept failed is closed
\* without having been counted, which the life cycle does not allow).
THEOREM ImplementsLifecycle ==
  ASSUME "accept_fail" \notin Env
  PROVE  Spec => Lifecycle!Safe
<1>1. Init => Lifecycle!Init
  BY PhaseOf DEF Init, Lifecycle!Init
<1>2. Inv /\ LimitInv /\ [Next]_vars => [Lifecycle!Next]_[c \in Conns |-> Phase(conn[c])]
  <2> SUFFICES ASSUME Inv, LimitInv, [Next]_vars 
               PROVE  \/ Lifecycle!Next
                      \/ UNCHANGED [c \in Conns |-> Phase(conn[c])]
    OBVIOUS
  <2>1. CASE \E c \in Conns : StepOK(c) BY <2>1, StepImplements
  <2>2. CASE conn' = conn BY <2>2
  <2> QED BY <2>1, <2>2, NextCases
<1> QED BY <1>1, <1>2, Invariance, LimitInvariance, PTL DEF Spec, Lifecycle!Safe

=============================================================================
