----------------------------- MODULE HttpExchange -----------------------------
(***************************************************************************)
(* Requests and responses on one keep-alive connection: the llhttp         *)
(* callbacks of uvhttp_request.c fill the one request object, the handler  *)
(* answers with the one response object, and uvhttp_connection_restart_read*)
(* recycles both for the next request.                                     *)
(*                                                                         *)
(* The bytes of a request are Pieces pieces, enough for each field to be   *)
(* cut in the middle: 1-2 the URL, 3 a header name, 4-5 its value, 6-7 the *)
(* body.  TCP may cut the stream anywhere (split) or only between fields.  *)
(* llhttp (external) reports the pieces of one field that arrived in one   *)
(* read with one callback, and rejects bytes that do not continue the      *)
(* message it is in.                                                       *)
(*                                                                         *)
(* The libuv loop (external) runs in rounds: callbacks of finished writes, *)
(* idle callbacks, the poll, then the events it returned: one read of what *)
(* was readable, then writability.  A read is parsed to its end before any *)
(* other callback runs.  A request is smaller than the read buffer, so     *)
(* libuv does not read twice in one round.                                 *)
(***************************************************************************)
EXTENDS Naturals, Sequences

CONSTANTS
  Requests,    \* number of requests the client wants answered
  TLSModes,    \* of server->tls_enabled: responses are written synchronously
  Pipelinings, \* TRUE: the client does not wait for a response to its last request
  Splits,      \* TRUE: a read may end inside the URL or inside a header value
  PhaseSets    \* where in a round a deferred handler may answer: "events" for
               \* poll callbacks, "pending" for timers, "poll" for prepare callbacks

ASSUME ExchangeAssumption ==
  /\ Requests \in Nat
  /\ TLSModes \cup Pipelinings \cup Splits \subseteq BOOLEAN
  /\ PhaseSets \subseteq SUBSET {"pending", "poll", "events"}

VARIABLES
  setup,        \* what kind of server, client, network and embedder meet
  client_sent,  \* pieces the client has written
  received,     \* pieces handed to llhttp_execute
  cursor,       \* pieces llhttp has consumed
  pos,          \* pieces of the current message llhttp has consumed
  phase,        \* what the loop runs: "pending", "idle", "poll" or "events"
  ready,        \* the poll reported the socket as readable
  request,      \* conn->request and current_header_field
  parsing_complete,
  sent,         \* response->sent
  keepalive,    \* response->keepalive
  write,        \* the uv_write of the response: "none", "blocked", "flushed"
  idle,         \* the idle handle is started
  state,        \* conn->state
  deferred,     \* requests whose handler has not answered yet
  dispatched,   \* what each handler call saw
  answering,    \* the request the response being written is for
  out           \* the requests whose responses the client has received

vars == <<setup, client_sent, received, cursor, pos, phase, ready, request,
          parsing_complete, sent, keepalive, write, idle, state, deferred,
          dispatched, answering, out>>

Pieces == 7

Field == <<"url", "url", "name", "value", "value", "body", "body">>

\* Request and place in it of the n-th piece of the stream.
Req(n) == ((n - 1) \div Pieces) + 1
Pos(n) == ((n - 1) % Pieces) + 1

EmptyRequest == [url |-> <<>>, name |-> FALSE, headers |-> <<>>, body |-> <<>>]

Init ==
  /\ setup \in [tls : TLSModes, pipelining : Pipelinings, split : Splits,
               phases : PhaseSets]
  /\ client_sent = 0 /\ received = 0 /\ cursor = 0 /\ pos = 0
  /\ phase = "pending" /\ ready = FALSE
  /\ request = EmptyRequest
  /\ parsing_complete = FALSE
  /\ sent = FALSE /\ keepalive = TRUE
  /\ write = "none" /\ idle = FALSE /\ state = "HTTP_READING"
  /\ deferred = {} /\ dispatched = <<>> /\ answering = 0 /\ out = <<>>

parse == <<request, parsing_complete, pos, cursor>>
exchange == <<sent, keepalive, write, idle, state, answering, out>>

-----------------------------------------------------------------------------
(* llhttp_execute: one action per callback.                                *)

Unparsed == cursor < received

Parsing == Unparsed \/ pos = Pieces

\* The pieces of the next callback: those of one field, up to the end of the
\* read.
Run == {n \in cursor + 1 .. received :
          /\ Req(n) = Req(cursor + 1)
          /\ Field[Pos(n)] = Field[Pos(cursor + 1)]}

\* Run is an interval; its pieces as the callback's (at, length) argument.
Text == IF Run = {cursor + 1} THEN <<cursor + 1>> ELSE <<cursor + 1, cursor + 2>>

Continues(field) ==
  /\ Unparsed /\ pos # Pieces
  /\ Pos(cursor + 1) = pos + 1
  /\ Field[Pos(cursor + 1)] = field

Consume ==
  /\ cursor' = cursor + Len(Text) /\ pos' = pos + Len(Text)
  /\ UNCHANGED <<setup, client_sent, received, phase, ready, deferred, dispatched>>
  /\ UNCHANGED exchange

\* on_message_begin and on_url: the URL is copied to the start of the buffer.
OnUrl ==
  /\ Continues("url")
  /\ request' = [request EXCEPT !.url = Text]
  /\ parsing_complete' = IF pos = 0 THEN FALSE ELSE parsing_complete
  /\ Consume

\* on_header_field.
OnHeaderField ==
  /\ Continues("name")
  /\ request' = [request EXCEPT !.name = TRUE]
  /\ UNCHANGED parsing_complete
  /\ Consume

\* on_header_value: needs the name on_header_field left, and uses it up.
OnHeaderValue ==
  /\ Continues("value") /\ request.name
  /\ request' = [request EXCEPT !.name = FALSE, !.headers = Append(@, Text)]
  /\ UNCHANGED parsing_complete
  /\ Consume

\* on_body appends.
OnBody ==
  /\ Continues("body")
  /\ request' = [request EXCEPT !.body = @ \o Text]
  /\ UNCHANGED parsing_complete
  /\ Consume

\* A callback returned -1, or the bytes do not continue the message: on_read
\* closes the connection and drops the rest of the read.
ParseError ==
  /\ Unparsed /\ pos # Pieces
  /\ \/ Pos(cursor + 1) # pos + 1
     \/ Field[Pos(cursor + 1)] = "value" /\ ~request.name
  /\ state' = "CLOSING" /\ idle' = FALSE
  /\ cursor' = received
  /\ UNCHANGED <<setup, client_sent, received, pos, phase, ready, request, parsing_complete,
                 sent, keepalive, write, deferred, dispatched, answering, out>>

-----------------------------------------------------------------------------
(* uvhttp_response.c: state of the exchange as a record, so that a handler  *)
(* may call uvhttp_response_send more than once.                            *)

Exchange == [sent |-> sent, keepalive |-> keepalive, write |-> write, idle |-> idle,
             state |-> state, answering |-> answering, out |-> out]

Become(x) ==
  /\ sent' = x.sent /\ keepalive' = x.keepalive /\ write' = x.write
  /\ idle' = x.idle /\ state' = x.state /\ answering' = x.answering /\ out' = x.out

CloseExchange(x) == [x EXCEPT !.state = "CLOSING", !.idle = FALSE]

\* uvhttp_free_write_data, or the end of a TLS uvhttp_response_send_raw.
AfterResponse(x) ==
  IF ~x.keepalive THEN CloseExchange(x)
  ELSE IF x.state = "CLOSING" THEN x
  ELSE [x EXCEPT !.idle = TRUE]

\* Mutant: no duplicate send check.
SendAgain(x, i, ka, w) ==
  IF x.state = "CLOSING" THEN x
  ELSE [x EXCEPT !.sent = TRUE, !.keepalive = ka, !.write = w, !.answering = i,
                 !.out = IF w = "flushed" THEN Append(@, i) ELSE @]

\* uvhttp_response_send of the answer to request i.  The kernel takes all of a
\* plain response at once (w = "flushed") or libuv waits for POLLOUT
\* ("blocked"); the write fails on a closing connection.
Send(x, i, ka, w) ==
  LET k == [x EXCEPT !.keepalive = @ /\ ka]
      s == [k EXCEPT !.sent = TRUE]
  IN  IF x.sent THEN k
      ELSE IF x.state = "CLOSING" THEN s
      ELSE IF setup.tls THEN AfterResponse([s EXCEPT !.out = Append(@, i)])
      ELSE [s EXCEPT !.write = w, !.answering = i,
                     !.out = IF w = "flushed" THEN Append(@, i) ELSE @]

\* Mutant: the read is restarted when the request is complete, answered or not.
CompleteRestarts ==
  /\ pos = Pieces
  /\ pos' = 0 /\ parsing_complete' = TRUE
  /\ dispatched' = Append(dispatched, [req |-> Req(cursor), url |-> request.url,
                                       headers |-> request.headers, body |-> request.body])
  /\ deferred' = deferred \cup {Req(cursor)} /\ idle' = TRUE
  /\ UNCHANGED <<setup, client_sent, received, cursor, phase, ready, request, sent, keepalive,
                 write, state, answering, out>>

\* on_message_complete: the handler answers, answers twice, or keeps the
\* response for later.
OnMessageComplete ==
  /\ pos = Pieces
  /\ pos' = 0 /\ parsing_complete' = TRUE
  /\ LET i == Req(cursor)
     IN  IF parsing_complete
         THEN UNCHANGED <<dispatched, deferred>> /\ UNCHANGED exchange
         ELSE /\ dispatched' = Append(dispatched,
                    [req |-> i, url |-> request.url, headers |-> request.headers,
                     body |-> request.body])
              /\ \/ /\ \E ka \in BOOLEAN, w \in {"flushed", "blocked"} :
                          \/ Become(Send(Exchange, i, ka, w))
                          \/ Become(Send(Send(Exchange, i, ka, w), i, ka, w))
                    /\ UNCHANGED deferred
                 \/ deferred' = deferred \cup {i} /\ UNCHANGED exchange
  /\ UNCHANGED <<setup, client_sent, received, cursor, phase, ready, request>>

\* A handler that kept the response answers, from some callback of its own.
DeferredAnswer(i) ==
  /\ ~Parsing /\ i \in deferred /\ phase \in setup.phases
  /\ deferred' = deferred \ {i}
  /\ \E ka \in BOOLEAN, w \in {"flushed", "blocked"} : Become(Send(Exchange, i, ka, w))
  /\ UNCHANGED <<setup, client_sent, received, phase, ready, dispatched>>
  /\ UNCHANGED parse

-----------------------------------------------------------------------------
(* The loop.                                                               *)

\* Completed writes are called back.
LoopPending ==
  /\ phase = "pending" /\ ~Parsing
  /\ phase' = "idle"
  /\ IF write = "flushed" THEN Become(AfterResponse([Exchange EXCEPT !.write = "none"]))
     ELSE UNCHANGED exchange
  /\ UNCHANGED <<setup, client_sent, received, ready, deferred, dispatched>>
  /\ UNCHANGED parse

\* Mutants of the reset: header_count, or response->sent, is forgotten.
RestartKeepsHeaders ==
  /\ request' = [EmptyRequest EXCEPT !.headers = request.headers]
  /\ parsing_complete' = FALSE /\ pos' = 0
  /\ sent' = FALSE /\ keepalive' = TRUE

RestartKeepsSent ==
  /\ request' = EmptyRequest /\ parsing_complete' = FALSE /\ pos' = 0
  /\ keepalive' = TRUE /\ UNCHANGED sent

\* uvhttp_connection_restart_read: request, response and parser start afresh.
RestartRead ==
  /\ request' = EmptyRequest /\ parsing_complete' = FALSE /\ pos' = 0
  /\ sent' = FALSE /\ keepalive' = TRUE

\* on_idle_restart_read.
LoopIdle ==
  /\ phase = "idle" /\ ~Parsing
  /\ phase' = "poll"
  /\ idle' = FALSE
  /\ IF idle /\ state # "CLOSING" THEN RestartRead
     ELSE UNCHANGED <<request, parsing_complete, pos, sent, keepalive>>
  /\ UNCHANGED <<setup, client_sent, received, cursor, ready, write, state, deferred,
                 dispatched, answering, out>>

\* epoll_wait returns.
LoopPoll ==
  /\ phase = "poll" /\ ~Parsing
  /\ phase' = "events"
  /\ ready' = (client_sent > received /\ state # "CLOSING")
  /\ UNCHANGED <<setup, client_sent, received, deferred, dispatched>>
  /\ UNCHANGED parse /\ UNCHANGED exchange

\* on_read with k more pieces.
Read(k) ==
  /\ phase = "events" /\ ~Parsing /\ ready /\ state # "CLOSING"
  /\ received + k <= client_sent
  /\ setup.split \/ Pos(received + k) \notin {1, 4}
  /\ received' = received + k
  /\ ready' = FALSE
  /\ UNCHANGED <<setup, client_sent, phase, deferred, dispatched>>
  /\ UNCHANGED parse /\ UNCHANGED exchange

\* The socket took the rest of a blocked response: uv__stream_io writes it and
\* runs the callback.
Flush ==
  /\ phase = "events" /\ ~Parsing /\ write = "blocked" /\ state # "CLOSING"
  /\ ready' = FALSE
  /\ Become(AfterResponse([Exchange EXCEPT !.write = "none",
                                           !.out = Append(@, answering)]))
  /\ UNCHANGED <<setup, client_sent, received, phase, deferred, dispatched>>
  /\ UNCHANGED parse

LoopRound ==
  /\ phase = "events" /\ ~Parsing
  /\ phase' = "pending" /\ ready' = FALSE
  /\ UNCHANGED <<setup, client_sent, received, deferred, dispatched>>
  /\ UNCHANGED parse /\ UNCHANGED exchange

\* The client writes its next request.
ClientSend ==
  /\ client_sent < Requests * Pieces
  /\ setup.pipelining \/ Len(out) * Pieces >= client_sent
  /\ client_sent' = client_sent + Pieces
  /\ UNCHANGED <<setup, received, phase, ready, deferred, dispatched>>
  /\ UNCHANGED parse /\ UNCHANGED exchange

Next ==
  \/ OnUrl \/ OnHeaderField \/ OnHeaderValue \/ OnBody \/ OnMessageComplete
  \/ ParseError
  \/ LoopPending \/ LoopIdle \/ LoopPoll \/ LoopRound \/ Flush
  \/ \E k \in 1 .. Requests * Pieces : Read(k)
  \/ \E i \in 1 .. Requests : DeferredAnswer(i)
  \/ ClientSend

\* libuv goes round, polls whatever is ready, and llhttp finishes each read.
\* The client drains its socket, and handlers answer in the end.
Fairness ==
  /\ WF_vars(OnUrl \/ OnHeaderField \/ OnHeaderValue \/ OnBody
             \/ OnMessageComplete \/ ParseError)
  /\ WF_vars(LoopPending) /\ WF_vars(LoopIdle) /\ WF_vars(LoopPoll)
  /\ WF_vars(LoopRound)
  /\ SF_vars(\E k \in 1 .. Requests * Pieces : Read(k)) /\ SF_vars(Flush)
  /\ \A i \in 1 .. Requests : SF_vars(DeferredAnswer(i))

Spec == Init /\ [][Next]_vars

FairSpec == Spec /\ Fairness

-----------------------------------------------------------------------------
(* What must hold.                                                         *)

PieceSeq(i, from, to) == [n \in 1 .. to - from + 1 |-> (i - 1) * Pieces + from + n - 1]

\* A handler sees exactly the request the client sent: its URL, its headers
\* and its body, nothing lost to the way TCP cut it and nothing left over from
\* an earlier request on the same connection.
DispatchFaithful ==
  \A n \in 1 .. Len(dispatched) : LET d == dispatched[n] IN
    /\ d.url = PieceSeq(d.req, 1, 2)
    /\ d.headers = <<PieceSeq(d.req, 4, 5)>>
    /\ d.body = PieceSeq(d.req, 6, 7)

\* A client that waits for each answer, reads that end between two fields and
\* handlers that do not answer from a prepare callback: what the one request
\* object and the one response object can serve.
Orderly == ~setup.pipelining /\ ~setup.split /\ "poll" \notin setup.phases

\* In an orderly exchange no handler sees a leftover of an earlier request or a
\* part of its own: on_read, the callbacks and restart_read keep them apart.
DispatchFaithfulIfOrderly == Orderly => DispatchFaithful

\* Whatever the client sends, however the stream is cut and wherever the
\* handlers answer, uvhttp_response_send answers no request twice; the n-th
\* response an orderly client receives answers its n-th request.
AnswersInOrder ==
  /\ \A m, n \in 1 .. Len(out) : out[m] = out[n] => m = n
  /\ Orderly => \A n \in 1 .. Len(out) : out[n] = n

\* The reset of uvhttp_connection_restart_read never hits a response that libuv
\* is still writing, whoever the client is, nor a request of an orderly client
\* that is half received or not answered yet.
RestartBetweenRequests ==
  /\ write # "none" => sent /\ ~idle
  /\ Orderly /\ idle => pos = 0 /\ cursor = received /\ deferred = {}

\* Every request of an orderly client is answered, or the connection is closed.
EveryRequestAnswered ==
  \A i \in 1 .. Requests :
    (Orderly /\ client_sent >= i * Pieces) ~> (Len(out) >= i \/ state = "CLOSING")
=============================================================================
