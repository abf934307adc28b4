------------------------- MODULE HttpExchangeProofs -------------------------
(***************************************************************************)
(* Proofs about HttpExchange, for any number of requests, any mix of       *)
(* clients, networks and handlers.                                         *)
(*                                                                         *)
(* Three invariants of growing strength carry them.  ResponseOK and OnceOK *)
(* hold whoever the client is: a response in the hands of libuv is not     *)
(* reset, and the requests dispatched so far are answered at most once     *)
(* because the stream only moves on.  OrderlyOK describes the exchange     *)
(* with an orderly client as one of five stages of a request, or closing;  *)
(* in each the positions in the stream, the fields of the request object   *)
(* and the phase of the loop are tied to the number of responses received. *)
(***************************************************************************)
EXTENDS HttpExchange, Integers, SequenceTheorems, TLAPS

\* Types, and how far client, socket and parser are in the stream.
TypeOK ==
  /\ setup \in [tls : BOOLEAN, pipelining : BOOLEAN, split : BOOLEAN,
                phases : SUBSET {"pending", "poll", "events"}]
  /\ client_sent \in Nat /\ received \in Nat /\ cursor \in Nat /\ pos \in 0 .. Pieces
  /\ phase \in {"pending", "idle", "poll", "events"} /\ ready \in BOOLEAN
  /\ request \in [url : Seq(Nat), name : BOOLEAN, headers : Seq(Seq(Nat)), body : Seq(Nat)]
  /\ parsing_complete \in BOOLEAN
  /\ sent \in BOOLEAN /\ keepalive \in BOOLEAN
  /\ write \in {"none", "blocked", "flushed"} /\ idle \in BOOLEAN
  /\ state \in {"HTTP_READING", "CLOSING"}
  /\ deferred \in SUBSET Nat
  /\ dispatched \in Seq([req : Nat, url : Seq(Nat), headers : Seq(Seq(Nat)), body : Seq(Nat)])
  /\ answering \in Nat /\ out \in Seq(Nat)
  /\ cursor <= received /\ received <= client_sent

\* response->sent is the lock on the response: both what libuv writes and a
\* restart that is due belong to a response that was sent.
ResponseOK ==
  /\ write # "none" => sent /\ ~idle
  /\ idle => sent

\* The stream up to which requests have been handed to their handlers.
Seen == IF pos = Pieces THEN cursor - 1 ELSE cursor

\* Requests answered, being answered or kept for later are different ones, all
\* of them before the place that the parser has reached.
OnceOK ==
  /\ pos = Pieces => Pos(cursor) = Pieces /\ cursor > 0
  /\ \A m, n \in 1 .. Len(out) : out[m] = out[n] => m = n
  /\ \A n \in 1 .. Len(out) : out[n] * Pieces <= Seen
  /\ \A i \in deferred : i * Pieces <= Seen /\ \A n \in 1 .. Len(out) : out[n] # i
  /\ write = "blocked" =>
       answering * Pieces <= Seen /\ answering \notin deferred /\ \A n \in 1 .. Len(out) : out[n] # answering

\* Where the request begins that the client is to be answered next.
Base == Len(out) * Pieces

\* What the callbacks have put into the request object is the part of the
\* request that was parsed.
RequestOK ==
  /\ pos \in {0, 2, 3, 5, 6, 7}
  /\ pos >= 2 => request.url = <<Base + 1, Base + 2>>
  /\ request.name <=> pos = 3
  /\ pos < 5 => request.headers = <<>>
  /\ pos >= 5 => request.headers = << <<Base + 4, Base + 5>> >>
  /\ pos < 6 => request.body = <<>>
  /\ pos = 6 => request.body = <<Base + 6>>
  /\ pos = 7 => request.body = <<Base + 6, Base + 7>>

\* The stages of an orderly exchange: a request is being read, its handler has
\* not answered yet, libuv waits for the socket, the response is written and its
\* callback due, the restart of the read is due.
Reading ==
  /\ ~sent /\ deferred = {} /\ write = "none" /\ ~idle /\ ~parsing_complete
  /\ cursor = Base + pos /\ received \notin {Base + 1, Base + 4}
  /\ received <= Base + Pieces
  /\ RequestOK

Complete == pos = 0 /\ cursor = received /\ ~ready

Waiting ==
  /\ Complete /\ ~sent /\ write = "none" /\ ~idle
  /\ deferred = {Len(out) + 1} /\ cursor = Base + Pieces /\ client_sent = cursor

Blocked ==
  /\ Complete /\ sent /\ write = "blocked" /\ ~idle
  /\ deferred = {} /\ answering = Len(out) + 1 /\ cursor = Base + Pieces /\ client_sent = cursor

Written ==
  /\ Complete /\ sent /\ write = "flushed" /\ ~idle
  /\ deferred = {} /\ cursor = Base /\ phase \in {"events", "pending"}

Restarting ==
  /\ Complete /\ sent /\ write = "none" /\ idle
  /\ deferred = {} /\ cursor = Base /\ phase \in {"events", "pending", "idle"}

\* A connection that is closing takes nothing more from its client.
Closing == ~idle /\ pos # Pieces /\ cursor = received

Stage ==
  IF state = "CLOSING" THEN Closing
  ELSE Reading \/ Waiting \/ Blocked \/ Written \/ Restarting

InOrder == \A n \in 1 .. Len(out) : out[n] = n

\* The exchange with an orderly client.
OrderlyOK ==
  /\ InOrder
  /\ DispatchFaithful
  /\ Parsing => phase = "events" /\ ~ready
  /\ client_sent <= Base + Pieces
  /\ Stage

\* The inductive invariant.
Inv == TypeOK /\ ResponseOK /\ OnceOK /\ (Orderly => OrderlyOK)

\* The p-th piece of a request, behind b requests.
LEMMA Places ==
  ASSUME NEW b \in Nat, NEW p \in 1 .. Pieces
  PROVE  Pos(b * Pieces + p) = p /\ Req(b * Pieces + p) = b + 1
BY DEF Pos, Req, Pieces

\* Every piece of the stream is in one place of one request.
LEMMA PosRange ==
  ASSUME NEW n \in Nat, n > 0
  PROVE  /\ Pos(n) \in 1 .. Pieces /\ Req(n) \in Nat /\ Req(n) > 0
         /\ n = (Req(n) - 1) * Pieces + Pos(n)
BY DEF Pos, Req, Pieces

\* Which places belong to which field.
LEMMA FieldAt ==
  ASSUME NEW p \in 1 .. Pieces
  PROVE  /\ Field[p] = "url" <=> p \in {1, 2}
         /\ Field[p] = "name" <=> p = 3
         /\ Field[p] = "value" <=> p \in {4, 5}
         /\ Field[p] = "body" <=> p \in {6, 7}
         /\ Field[p] \in {"url", "name", "value", "body"}
<1>1. p \in {1, 2, 3, 4, 5, 6, 7} BY DEF Pieces
<1> QED BY <1>1 DEF Field


-----------------------------------------------------------------------------

\* A callback of llhttp gets one piece or two, of the same field, and leaves the
\* stream in step with the message.
LEMMA TextShape ==
  ASSUME TypeOK, NEW f, Continues(f)
  PROVE  /\ Text \in Seq(Nat) /\ Len(Text) \in {1, 2}
         /\ cursor + Len(Text) <= received /\ pos + Len(Text) <= Pieces
         /\ Pos(cursor + Len(Text)) = pos + Len(Text)
         /\ Text = IF pos \in {0, 3, 5} /\ cursor + 2 <= received
                   THEN <<cursor + 1, cursor + 2>> ELSE <<cursor + 1>>
<1> DEFINE b == Req(cursor + 1) - 1
<1>1. /\ cursor \in Nat /\ received \in Nat /\ pos \in 0 .. Pieces /\ pos # Pieces
      /\ cursor + 1 <= received /\ Pos(cursor + 1) = pos + 1
  BY DEF TypeOK, Continues, Unparsed, Pieces
<1>2. b \in Nat /\ cursor + 1 = b * Pieces + (pos + 1)
  BY <1>1, PosRange DEF Pieces
<1> HIDE DEF b
<1>3. \A n \in Nat : n > cursor + 1 =>
        (n \in Run <=> n <= received /\ n = cursor + 2 /\ pos \in {0, 3, 5})
  <2> SUFFICES ASSUME NEW n \in Nat, n > cursor + 1
               PROVE  n \in Run <=> n <= received /\ n = cursor + 2 /\ pos \in {0, 3, 5}
    OBVIOUS
  <2>1. n \in Run <=> n <= received /\ Req(n) = Req(cursor + 1) /\ Field[Pos(n)] = Field[pos + 1]
    BY <1>1 DEF Run
  <2>2. Req(cursor + 1) = b + 1
    BY <1>1, <1>2, Places DEF Pieces
  <2>3. ASSUME Req(n) = b + 1
        PROVE  Pos(n) > pos + 1 /\ n = b * Pieces + Pos(n) /\ Pos(n) \in 1 .. Pieces
    <3>1. n = (Req(n) - 1) * Pieces + Pos(n) /\ Pos(n) \in 1 .. Pieces
      BY <1>1, PosRange
    <3> QED BY <3>1, <2>3, <1>1, <1>2 DEF Pieces
  <2>4. CASE n = cursor + 2 /\ pos \in {0, 3, 5}
    <3>1. n = b * Pieces + (pos + 2) /\ pos + 2 \in 1 .. Pieces /\ pos + 1 \in 1 .. Pieces
      BY <2>4, <1>1, <1>2 DEF Pieces
    <3>2. Pos(n) = pos + 2 /\ Req(n) = b + 1
      BY <3>1, <1>2, Places
    <3>3. Field[pos + 2] = Field[pos + 1]
      BY <2>4 DEF Field
    <3> QED BY <2>1, <2>2, <2>4, <3>2, <3>3
  <2>5. CASE ~(n = cursor + 2 /\ pos \in {0, 3, 5})
    <3> SUFFICES ASSUME n \in Run PROVE FALSE
      BY <2>5
    <3>1. Pos(n) > pos + 1 /\ n = b * Pieces + Pos(n) /\ Pos(n) \in 1 .. Pieces
          /\ Field[Pos(n)] = Field[pos + 1]
      BY <2>1, <2>2, <2>3
    <3>2. pos + 1 \in 1 .. Pieces
      BY <1>1 DEF Pieces
    <3>3. pos \in {0, 3, 5} /\ Pos(n) = pos + 2
      BY <3>1, <3>2, <1>1, FieldAt DEF Pieces
    <3> QED BY <3>1, <3>3, <1>2, <2>5, <1>1 DEF Pieces
  <2> QED BY <2>4, <2>5
<1>4. cursor + 1 \in Run
  BY <1>1 DEF Run
<1>5. Run \subseteq Nat /\ \A n \in Run : n >= cursor + 1
  BY <1>1 DEF Run
<1>6. Run = {cursor + 1} <=> ~(pos \in {0, 3, 5} /\ cursor + 2 <= received)
  <2>1. CASE pos \in {0, 3, 5} /\ cursor + 2 <= received
    <3>1. cursor + 2 \in Run BY <2>1, <1>3, <1>1
    <3> QED BY <2>1, <3>1, <1>1
  <2>2. CASE ~(pos \in {0, 3, 5} /\ cursor + 2 <= received)
    <3>1. \A n \in Run : ~(n > cursor + 1) BY <2>2, <1>3, <1>5
    <3>2. \A n \in Run : n = cursor + 1 BY <3>1, <1>5, <1>1
    <3> QED BY <2>2, <3>2, <1>4
  <2> QED BY <2>1, <2>2
<1>7. Text = IF pos \in {0, 3, 5} /\ cursor + 2 <= received
             THEN <<cursor + 1, cursor + 2>> ELSE <<cursor + 1>>
  BY <1>6 DEF Text
<1>8. CASE pos \in {0, 3, 5} /\ cursor + 2 <= received
  <2>1. Text = <<cursor + 1, cursor + 2>> BY <1>7, <1>8
  <2>2. Text \in Seq(Nat) /\ Len(Text) = 2 BY <2>1, <1>1
  <2>3. pos + 2 \in 1 .. Pieces /\ cursor + 2 = b * Pieces + (pos + 2) BY <1>8, <1>2, <1>1 DEF Pieces
  <2>4. Pos(cursor + 2) = pos + 2 BY <2>3, <1>2, Places
  <2> QED BY <1>7, <1>8, <2>2, <2>3, <2>4
<1>9. CASE ~(pos \in {0, 3, 5} /\ cursor + 2 <= received)
  <2>1. Text = <<cursor + 1>> BY <1>7, <1>9
  <2>2. Text \in Seq(Nat) /\ Len(Text) = 1 BY <2>1, <1>1
  <2>3. pos + 1 <= Pieces BY <1>1 DEF Pieces
  <2> QED BY <1>7, <2>2, <2>3, <1>1
<1> QED BY <1>8, <1>9

-----------------------------------------------------------------------------
\* What uvhttp_response_send, called once or twice for request i, does to the
\* exchange.
Answers(i) ==
  /\ sent' = TRUE /\ keepalive' \in BOOLEAN
  /\ \/ /\ sent \/ state = "CLOSING"
        /\ UNCHANGED <<write, idle, state, answering, out>>
     \/ /\ ~sent /\ state # "CLOSING" /\ out' = Append(out, i)
        /\ UNCHANGED <<write, answering>>
        /\ \/ idle' = TRUE /\ UNCHANGED state
           \/ idle' = FALSE /\ state' = "CLOSING"
     \/ /\ ~sent /\ state # "CLOSING" /\ answering' = i
        /\ UNCHANGED <<idle, state>>
        /\ \/ write' = "flushed" /\ out' = Append(out, i)
           \/ write' = "blocked" /\ UNCHANGED out

\* What the callback of a finished write does to it.
Finishes ==
  /\ write' = "none" /\ UNCHANGED <<sent, keepalive, answering>>
  /\ \/ idle' = FALSE /\ state' = "CLOSING"
     \/ state = "CLOSING" /\ UNCHANGED <<idle, state>>
     \/ state # "CLOSING" /\ idle' = TRUE /\ UNCHANGED state

\* The fields of the exchange record.
Fields == {"sent", "keepalive", "write", "idle", "state", "answering", "out"}

\* What uvhttp_free_write_data leaves alone, and what it sets.
LEMMA AfterFields ==
  ASSUME NEW z, DOMAIN z = Fields
  PROVE  LET y == AfterResponse(z) IN
         /\ y.sent = z.sent /\ y.keepalive = z.keepalive /\ y.write = z.write
         /\ y.answering = z.answering /\ y.out = z.out
         /\ \/ y.idle = FALSE /\ y.state = "CLOSING"
            \/ z.state = "CLOSING" /\ y.idle = z.idle /\ y.state = z.state
            \/ z.state # "CLOSING" /\ y.idle = TRUE /\ y.state = z.state
BY DEF AfterResponse, CloseExchange, Fields

\* uvhttp_response_send, called once or twice, is covered by Answers.
LEMMA SendAnswers ==
  ASSUME TypeOK, NEW i, NEW ka \in BOOLEAN, NEW w \in {"flushed", "blocked"},
         \/ Become(Send(Exchange, i, ka, w))
         \/ Become(Send(Send(Exchange, i, ka, w), i, ka, w))
  PROVE  Answers(i)
<1> DEFINE y == Send(Exchange, i, ka, w)
           R(x) ==
             /\ x.sent = TRUE /\ x.keepalive \in BOOLEAN
             /\ \/ /\ sent \/ state = "CLOSING"
                   /\ x.write = write /\ x.idle = idle /\ x.state = state
                   /\ x.answering = answering /\ x.out = out
                \/ /\ ~sent /\ state # "CLOSING" /\ x.out = Append(out, i)
                   /\ x.write = write /\ x.answering = answering
                   /\ \/ x.idle = TRUE /\ x.state = state
                      \/ x.idle = FALSE /\ x.state = "CLOSING"
                \/ /\ ~sent /\ state # "CLOSING" /\ x.answering = i
                   /\ x.idle = idle /\ x.state = state
                   /\ \/ x.write = "flushed" /\ x.out = Append(out, i)
                      \/ x.write = "blocked" /\ x.out = out
<1>1. R(y)
  <2>1. CASE sent
    <3>1. y = [Exchange EXCEPT !.keepalive = @ /\ ka]
      BY <2>1 DEF Send, Exchange
    <3> QED BY <2>1, <3>1, Zenon DEF Exchange, TypeOK
  <2>2. CASE ~sent /\ state = "CLOSING"
    <3>1. y = [[Exchange EXCEPT !.keepalive = @ /\ ka] EXCEPT !.sent = TRUE]
      BY <2>2 DEF Send, Exchange
    <3> QED BY <2>2, <3>1, Zenon DEF Exchange, TypeOK
  <2>3. CASE ~sent /\ state # "CLOSING" /\ setup.tls
    <3> DEFINE z == [[[Exchange EXCEPT !.keepalive = @ /\ ka] EXCEPT !.sent = TRUE]
                       EXCEPT !.out = Append(@, i)]
    <3>1. y = AfterResponse(z)
      BY <2>3 DEF Send, Exchange
    <3>2. /\ DOMAIN z = Fields /\ z.sent = TRUE /\ z.write = write
          /\ z.state = state /\ z.answering = answering /\ z.out = Append(out, i)
      BY DEF Exchange, Fields
    <3>3. z.keepalive = (keepalive /\ ka)
      BY DEF Exchange
    <3> HIDE DEF z
    <3> HIDE DEF y
    <3>4. /\ y.sent = TRUE /\ y.write = write /\ y.answering = answering
          /\ y.out = Append(out, i) /\ y.keepalive = z.keepalive
          /\ \/ y.idle = TRUE /\ y.state = state
             \/ y.idle = FALSE /\ y.state = "CLOSING"
      BY <2>3, <3>1, <3>2, AfterFields
    <3>5. y.keepalive \in BOOLEAN BY <3>3, <3>4
    <3> QED BY <2>3, <3>4, <3>5, Zenon
  <2>4. CASE ~sent /\ state # "CLOSING" /\ ~setup.tls
    <3> DEFINE o == IF w = "flushed" THEN Append(out, i) ELSE out
               z == [sent |-> TRUE, keepalive |-> keepalive /\ ka, write |-> w,
                     idle |-> idle, state |-> state, answering |-> i, out |-> o]
    <3>1. y = z
      <4>1. y = [[[Exchange EXCEPT !.keepalive = @ /\ ka] EXCEPT !.sent = TRUE]
                   EXCEPT !.write = w, !.answering = i,
                          !.out = IF w = "flushed" THEN Append(@, i) ELSE @]
        BY <2>4 DEF Send, Exchange
      <4> QED BY <4>1 DEF Exchange
    <3>2. \/ w = "flushed" /\ o = Append(out, i)
          \/ w = "blocked" /\ o = out
      OBVIOUS
    <3>3. /\ z.sent = TRUE /\ z.keepalive \in BOOLEAN /\ z.answering = i /\ z.idle = idle
          /\ z.state = state /\ z.write = w /\ z.out = o
      BY Zenon DEF TypeOK
    <3> HIDE DEF z, o
    <3> QED BY <2>4, <3>1, <3>2, <3>3, Zenon
  <2>5. setup.tls \in BOOLEAN /\ sent \in BOOLEAN BY DEF TypeOK
  <2> QED BY <2>1, <2>2, <2>3, <2>4, <2>5
<1>2. R(Send(y, i, ka, w))
  <2>1. Send(y, i, ka, w) = [y EXCEPT !.keepalive = @ /\ ka]
    BY <1>1 DEF Send
  <2>2. DOMAIN y = Fields
    BY DEF Send, Exchange, AfterResponse, CloseExchange, Fields
  <2> HIDE DEF y
  <2> DEFINE z == [y EXCEPT !.keepalive = @ /\ ka]
  <2>3. /\ z.sent = y.sent /\ z.write = y.write /\ z.idle = y.idle /\ z.state = y.state
        /\ z.answering = y.answering /\ z.out = y.out
        /\ z.keepalive = (y.keepalive /\ ka)
    BY <2>2 DEF Fields
  <2>4. z.keepalive \in BOOLEAN BY <2>3
  <2> HIDE DEF z
  <2>5. R(z) BY <1>1, <2>3, <2>4, Zenon
  <2> QED BY <2>1, <2>5 DEF z
<1>3. \A x : R(x) /\ Become(x) => Answers(i)
  BY Zenon DEF Become, Answers
<1> QED BY <1>1, <1>2, <1>3

\* The callback of a finished write is covered by Finishes.
LEMMA AfterFinishes ==
  ASSUME TypeOK, NEW z, Become(AfterResponse(z)), DOMAIN z = Fields,
         z.sent = sent, z.keepalive = keepalive, z.write = "none", z.idle = idle,
         z.state = state, z.answering = answering
  PROVE  Finishes /\ out' = z.out
<1> DEFINE y == AfterResponse(z)
<1>1. /\ y.sent = sent /\ y.keepalive = keepalive /\ y.write = "none"
      /\ y.answering = answering /\ y.out = z.out
      /\ \/ y.idle = FALSE /\ y.state = "CLOSING"
         \/ state = "CLOSING" /\ y.idle = idle /\ y.state = state
         \/ state # "CLOSING" /\ y.idle = TRUE /\ y.state = state
  BY AfterFields
<1> HIDE DEF y
<1>2. Become(y) BY DEF y
<1> QED BY <1>1, <1>2, Zenon DEF Become, Finishes

\* The handler's answer in on_message_complete, or none yet.
LEMMA CompleteStep ==
  ASSUME TypeOK, OnMessageComplete
  PROVE  \/ UNCHANGED exchange /\ UNCHANGED deferred
         \/ UNCHANGED exchange /\ ~parsing_complete /\ deferred' = deferred \cup {Req(cursor)}
         \/ ~parsing_complete /\ UNCHANGED deferred /\ Answers(Req(cursor))
<1>1. ASSUME ~parsing_complete, NEW ka \in BOOLEAN, NEW w \in {"flushed", "blocked"},
             \/ Become(Send(Exchange, Req(cursor), ka, w))
             \/ Become(Send(Send(Exchange, Req(cursor), ka, w), Req(cursor), ka, w))
      PROVE  Answers(Req(cursor))
  BY <1>1, SendAnswers
<1> QED BY <1>1, Zenon DEF OnMessageComplete

\* A handler that kept the response answers it.
LEMMA DeferredStep ==
  ASSUME TypeOK, NEW i, DeferredAnswer(i)
  PROVE  i \in deferred /\ deferred' = deferred \ {i} /\ Answers(i)
<1>1. /\ i \in deferred /\ deferred' = deferred \ {i}
      /\ \E ka \in BOOLEAN, w \in {"flushed", "blocked"} : Become(Send(Exchange, i, ka, w))
  BY DEF DeferredAnswer
<1> QED BY <1>1, SendAnswers

\* The callbacks of finished writes, at the start of a round.
LEMMA PendingStep ==
  ASSUME TypeOK, LoopPending
  PROVE  \/ write # "flushed" /\ UNCHANGED exchange
         \/ write = "flushed" /\ Finishes /\ UNCHANGED out
<1>1. CASE write = "flushed"
  <2> DEFINE z == [Exchange EXCEPT !.write = "none"]
  <2>1. Become(AfterResponse(z)) BY <1>1 DEF LoopPending
  <2>2. /\ DOMAIN z = Fields /\ z.write = "none" /\ z.state = state
        /\ z.answering = answering /\ z.out = out
    BY DEF Exchange, Fields
  <2>3. z.sent = sent /\ z.keepalive = keepalive /\ z.idle = idle
    BY DEF Exchange
  <2> HIDE DEF z
  <2>4. Finishes /\ out' = z.out BY <2>1, <2>2, <2>3, AfterFinishes
  <2> QED BY <1>1, <2>2, <2>4
<1>2. CASE write # "flushed"
  BY <1>2 DEF LoopPending
<1> QED BY <1>1, <1>2

\* The rest of a blocked response goes out.
LEMMA FlushStep ==
  ASSUME TypeOK, Flush
  PROVE  write = "blocked" /\ Finishes /\ out' = Append(out, answering)
<1> DEFINE z == [Exchange EXCEPT !.write = "none", !.out = Append(@, answering)]
<1>1. write = "blocked" /\ Become(AfterResponse(z)) BY DEF Flush
<1>2. /\ DOMAIN z = Fields /\ z.write = "none" /\ z.state = state
      /\ z.answering = answering /\ z.out = Append(out, answering)
  BY DEF Exchange, Fields
<1>3. z.sent = sent /\ z.keepalive = keepalive /\ z.idle = idle
  BY DEF Exchange
<1> HIDE DEF z
<1>4. Finishes /\ out' = z.out BY <1>1, <1>2, <1>3, AfterFinishes
<1> QED BY <1>1, <1>2, <1>4

\* Every step that touches the response calls uvhttp_response_send, finishes a
\* write, restarts the read, or closes the connection.
LEMMA ExchangeSteps ==
  ASSUME TypeOK, [Next]_vars
  PROVE  \/ UNCHANGED exchange
         \/ \E i \in Nat : Answers(i)
         \/ Finishes /\ write # "none" /\ (UNCHANGED out \/ out' = Append(out, answering))
         \/ LoopIdle
         \/ ParseError
<1>1. CASE OnUrl \/ OnHeaderField \/ OnHeaderValue \/ OnBody
  BY <1>1 DEF OnUrl, OnHeaderField, OnHeaderValue, OnBody, Consume
<1>2. CASE OnMessageComplete
  <2>1. Req(cursor) \in Nat BY DEF TypeOK, Req, Pieces
  <2> QED BY <1>2, <2>1, CompleteStep
<1>3. ASSUME NEW i \in 1 .. Requests, DeferredAnswer(i) PROVE \E j \in Nat : Answers(j)
  BY <1>3, DeferredStep DEF TypeOK
<1>4. CASE LoopPending BY <1>4, PendingStep
<1>5. CASE Flush BY <1>5, FlushStep
<1>6. CASE LoopPoll \/ LoopRound \/ ClientSend \/ \E k \in 1 .. Requests * Pieces : Read(k)
  BY <1>6 DEF LoopPoll, LoopRound, ClientSend, Read
<1>7. CASE UNCHANGED vars
  BY <1>7 DEF vars, exchange
<1> QED
  BY <1>1, <1>2, <1>3, <1>4, <1>5, <1>6, <1>7 DEF Next

-----------------------------------------------------------------------------
(* Types.                                                                  *)

\* The types hold of a new connection.
LEMMA TypeInit == ASSUME Init PROVE TypeOK
<1>1. setup \in [tls : BOOLEAN, pipelining : BOOLEAN, split : BOOLEAN,
                phases : SUBSET {"pending", "poll", "events"}]
  <2>1. setup \in [tls : TLSModes, pipelining : Pipelinings, split : Splits, phases : PhaseSets]
    BY DEF Init
  <2>2. TLSModes \subseteq BOOLEAN /\ Pipelinings \subseteq BOOLEAN /\ Splits \subseteq BOOLEAN
        /\ PhaseSets \subseteq SUBSET {"pending", "poll", "events"}
    BY ExchangeAssumption
  <2> QED BY <2>1, <2>2, Zenon
<1>2. request \in [url : Seq(Nat), name : BOOLEAN, headers : Seq(Seq(Nat)), body : Seq(Nat)]
  BY DEF Init, EmptyRequest
<1>3. /\ client_sent \in Nat /\ received \in Nat /\ cursor \in Nat /\ pos \in 0 .. Pieces
      /\ answering \in Nat /\ cursor <= received /\ received <= client_sent
      /\ out \in Seq(Nat)
      /\ dispatched \in Seq([req : Nat, url : Seq(Nat), headers : Seq(Seq(Nat)), body : Seq(Nat)])
  BY DEF Init, Pieces
<1> QED BY <1>1, <1>2, <1>3, Zenon DEF Init, TypeOK

\* Every callback keeps the types.
LEMMA TypeStep == ASSUME TypeOK, [Next]_vars PROVE TypeOK'
<1> DEFINE ReqT == [url : Seq(Nat), name : BOOLEAN, headers : Seq(Seq(Nat)), body : Seq(Nat)]
           DisT == [req : Nat, url : Seq(Nat), headers : Seq(Seq(Nat)), body : Seq(Nat)]
           ExT == /\ sent' \in BOOLEAN /\ keepalive' \in BOOLEAN /\ idle' \in BOOLEAN
                  /\ write' \in {"none", "blocked", "flushed"}
                  /\ state' \in {"HTTP_READING", "CLOSING"}
                  /\ answering' \in Nat /\ out' \in Seq(Nat)
<1>1. ExT
  <2>1. CASE UNCHANGED exchange BY <2>1 DEF exchange, TypeOK
  <2>2. ASSUME NEW i \in Nat, Answers(i) PROVE ExT
    <3>1. Append(out, i) \in Seq(Nat) BY DEF TypeOK
    <3> QED BY <2>2, <3>1, Zenon DEF Answers, TypeOK
  <2>3. ASSUME Finishes, out' = out \/ out' = Append(out, answering) PROVE ExT
    <3>1. Append(out, answering) \in Seq(Nat) BY DEF TypeOK
    <3> QED BY <2>3, <3>1, Zenon DEF Finishes, TypeOK
  <2>4. CASE LoopIdle BY <2>4, Zenon DEF LoopIdle, RestartRead, TypeOK
  <2>5. CASE ParseError BY <2>5, Zenon DEF ParseError, TypeOK
  <2> QED BY <2>1, <2>2, <2>3, <2>4, <2>5, ExchangeSteps
<1> DEFINE ParT == /\ request' \in ReqT /\ parsing_complete' \in BOOLEAN
                   /\ pos' \in 0 .. Pieces /\ cursor' \in Nat
           RestT == /\ setup' = setup /\ client_sent' \in Nat /\ received' \in Nat
                    /\ phase' \in {"pending", "idle", "poll", "events"} /\ ready' \in BOOLEAN
                    /\ deferred' \in SUBSET Nat /\ dispatched' \in Seq(DisT)
                    /\ cursor' <= received' /\ received' <= client_sent'
<1> SUFFICES ParT /\ RestT BY <1>1, Zenon DEF TypeOK
<1>2. CASE OnUrl \/ OnHeaderField \/ OnHeaderValue \/ OnBody
  <2>1. PICK f : Continues(f) /\ Consume
    BY <1>2 DEF OnUrl, OnHeaderField, OnHeaderValue, OnBody
  <2>2. /\ Text \in Seq(Nat) /\ Len(Text) \in {1, 2}
        /\ cursor + Len(Text) <= received /\ pos + Len(Text) <= Pieces
    BY <2>1, TextShape
  <2>3. request' \in ReqT
    <3>1. request \in ReqT BY DEF TypeOK
    <3>2. CASE OnUrl BY <3>1, <3>2, <2>2, Zenon DEF OnUrl
    <3>3. CASE OnHeaderField BY <3>1, <3>3, Zenon DEF OnHeaderField
    <3>4. CASE OnHeaderValue
      <4>1. Append(request.headers, Text) \in Seq(Seq(Nat)) BY <3>1, <2>2
      <4> QED BY <3>1, <3>4, <4>1, Zenon DEF OnHeaderValue
    <3>5. CASE OnBody
      <4>1. request.body \o Text \in Seq(Nat) BY <3>1, <2>2
      <4> QED BY <3>1, <3>5, <4>1, Zenon DEF OnBody
    <3> QED BY <1>2, <3>2, <3>3, <3>4, <3>5
  <2>4. parsing_complete' \in BOOLEAN
    BY <1>2 DEF OnUrl, OnHeaderField, OnHeaderValue, OnBody, TypeOK
  <2>5. pos' \in 0 .. Pieces /\ cursor' \in Nat /\ cursor' <= received
    <3>1. cursor \in Nat /\ received \in Nat /\ pos \in 0 .. Pieces BY DEF TypeOK
    <3>2. cursor' = cursor + Len(Text) /\ pos' = pos + Len(Text) BY <2>1 DEF Consume
    <3> QED BY <3>1, <3>2, <2>2 DEF Pieces
  <2> QED BY <2>1, <2>3, <2>4, <2>5 DEF Consume, TypeOK
<1>3. CASE OnMessageComplete
  <2>1. ParT BY <1>3 DEF OnMessageComplete, TypeOK, Pieces
  <2> DEFINE d == [req |-> Req(cursor), url |-> request.url, headers |-> request.headers,
                   body |-> request.body]
  <2>2. Req(cursor) \in Nat BY DEF TypeOK, Req, Pieces
  <2>3. d \in DisT BY <2>2 DEF TypeOK
  <2>4. Append(dispatched, d) \in Seq(DisT) BY <2>3 DEF TypeOK
  <2>5. dispatched' \in Seq(DisT) BY <1>3, <2>4 DEF OnMessageComplete, TypeOK
  <2>6. deferred' \in SUBSET Nat BY <1>3, <2>2, Zenon DEF OnMessageComplete, TypeOK
  <2> QED BY <1>3, <2>1, <2>5, <2>6 DEF OnMessageComplete, TypeOK
<1>4. CASE ParseError
  BY <1>4 DEF ParseError, TypeOK
<1>5. CASE LoopPending
  BY <1>5 DEF LoopPending, parse, TypeOK
<1>6. CASE LoopIdle
  <2>1. EmptyRequest \in ReqT BY DEF EmptyRequest
  <2>2. 0 \in 0 .. Pieces BY DEF Pieces
  <2>3. ParT BY <1>6, <2>1, <2>2, Zenon DEF LoopIdle, RestartRead, TypeOK
  <2> QED BY <1>6, <2>3 DEF LoopIdle, TypeOK
<1>7. CASE LoopPoll
  BY <1>7 DEF LoopPoll, parse, TypeOK
<1>8. CASE LoopRound
  BY <1>8 DEF LoopRound, parse, TypeOK
<1>9. CASE Flush
  BY <1>9 DEF Flush, parse, TypeOK
<1>10. ASSUME NEW k \in 1 .. Requests * Pieces, Read(k) PROVE ParT /\ RestT
  <2>1. k \in Nat BY <1>10, ExchangeAssumption DEF Pieces
  <2>2. received' = received + k /\ received' <= client_sent /\ UNCHANGED <<cursor, client_sent>>
    BY <1>10 DEF Read, parse
  <2>3. received' \in Nat /\ cursor <= received'
    BY <2>1, <2>2 DEF TypeOK
  <2> QED BY <1>10, <2>2, <2>3 DEF Read, parse, TypeOK
<1>11. ASSUME NEW i \in 1 .. Requests, DeferredAnswer(i) PROVE ParT /\ RestT
  BY <1>11 DEF DeferredAnswer, parse, TypeOK
<1>12. CASE ClientSend
  BY <1>12 DEF ClientSend, parse, TypeOK, Pieces
<1>13. CASE UNCHANGED vars
  BY <1>13 DEF vars, TypeOK
<1> QED
  BY <1>2, <1>3, <1>4, <1>5, <1>6, <1>7, <1>8, <1>9, <1>10, <1>11, <1>12, <1>13 DEF Next

-----------------------------------------------------------------------------
(* Whatever the client, the network and the handlers do.                   *)

\* response->sent keeps its meaning through every callback.
LEMMA ResponseStep ==
  ASSUME TypeOK, ResponseOK, [Next]_vars
  PROVE  ResponseOK'
<1>1. CASE UNCHANGED exchange BY <1>1 DEF exchange, ResponseOK
<1>2. ASSUME NEW i, Answers(i) PROVE ResponseOK'
  <2>1. sent' BY <1>2 DEF Answers
  <2>2. write' # "none" => ~idle'
    <3>1. CASE UNCHANGED <<write, idle>> BY <3>1, Zenon DEF ResponseOK
    <3>2. CASE ~sent /\ UNCHANGED write BY <3>2, Zenon DEF ResponseOK
    <3>3. CASE ~sent /\ UNCHANGED idle BY <3>3, Zenon DEF ResponseOK
    <3> QED BY <1>2, <3>1, <3>2, <3>3, Zenon DEF Answers
  <2> QED BY <2>1, <2>2 DEF ResponseOK
<1>3. ASSUME Finishes, write # "none" PROVE ResponseOK'
  BY <1>3, Zenon DEF Finishes, ResponseOK
<1>4. CASE LoopIdle BY <1>4, Zenon DEF LoopIdle, RestartRead, ResponseOK
<1>5. CASE ParseError BY <1>5, Zenon DEF ParseError, ResponseOK
<1> QED BY <1>1, <1>2, <1>3, <1>4, <1>5, ExchangeSteps
\* The responses received are a sequence of request numbers.
LEMMA OutTypes ==
  ASSUME TypeOK
  PROVE  out \in Seq(Nat) /\ Len(out) \in Nat /\ \A n \in 1 .. Len(out) : out[n] \in Nat
<1>1. out \in Seq(Nat) BY DEF TypeOK
<1> QED BY <1>1

\* uvhttp_response_send for a request that was not answered before.
LEMMA AnswerOnce ==
  ASSUME TypeOK, TypeOK', ResponseOK, OnceOK, NEW i \in Nat, Answers(i),
         deferred' \subseteq deferred, i \notin deferred',
         \A n \in 1 .. Len(out) : out[n] # i,
         write = "blocked" => answering # i,
         Seen <= Seen', i * Pieces <= Seen', pos' # Pieces
  PROVE  OnceOK'
<1>1. /\ out \in Seq(Nat) /\ answering \in Nat /\ deferred \subseteq Nat
      /\ Len(out) \in Nat /\ \A n \in 1 .. Len(out) : out[n] \in Nat
  BY OutTypes DEF TypeOK
<1>2. Seen \in Int /\ Seen' \in Int
  BY DEF TypeOK, Seen
<1>3. CASE UNCHANGED <<write, answering, out>>
  BY <1>1, <1>2, <1>3 DEF OnceOK, Pieces
<1>4. CASE write' # "blocked" /\ out' = Append(out, i)
  <2>1. /\ Len(out') = Len(out) + 1 /\ out'[Len(out) + 1] = i
        /\ \A n \in 1 .. Len(out) : out'[n] = out[n]
        /\ \A n \in 1 .. Len(out') : n \in 1 .. Len(out) \/ n = Len(out) + 1
    BY <1>1, <1>4
  <2>2. \A m, n \in 1 .. Len(out') : out'[m] = out'[n] => m = n
    BY <2>1 DEF OnceOK
  <2>3. ASSUME NEW n \in 1 .. Len(out') PROVE out'[n] * Pieces <= Seen'
    <3>1. CASE n \in 1 .. Len(out)
      <4>1. out'[n] = out[n] /\ out[n] * Pieces <= Seen /\ out[n] \in Nat BY <1>1, <2>1, <3>1 DEF OnceOK
      <4> QED BY <4>1, <1>2 DEF Pieces
    <3> QED BY <2>1, <2>3, <3>1
  <2>4. \A j \in deferred' : j * Pieces <= Seen' /\ \A n \in 1 .. Len(out') : out'[n] # j
    BY <1>1, <1>2, <2>1 DEF OnceOK, Pieces
  <2> QED BY <1>4, <2>2, <2>3, <2>4 DEF OnceOK
<1>5. CASE write' = "blocked" /\ answering' = i /\ UNCHANGED out
  BY <1>1, <1>2, <1>5 DEF OnceOK, Pieces
<1>6. ~sent => write # "blocked" BY DEF ResponseOK
<1> QED BY <1>3, <1>4, <1>5, <1>6 DEF Answers

\* No callback answers a request a second time.
LEMMA OnceStep ==
  ASSUME TypeOK, TypeOK', ResponseOK, OnceOK, [Next]_vars
  PROVE  OnceOK'
<1>1. /\ out \in Seq(Nat) /\ answering \in Nat /\ deferred \subseteq Nat
      /\ cursor \in Nat /\ received \in Nat /\ cursor <= received
      /\ Len(out) \in Nat /\ \A n \in 1 .. Len(out) : out[n] \in Nat
  BY OutTypes DEF TypeOK
<1>2. Seen \in Int /\ Seen' \in Int
  BY DEF TypeOK, Seen
<1>3. ASSUME UNCHANGED <<out, answering, write, deferred>>, Seen <= Seen',
             pos' = Pieces => Pos(cursor') = Pieces /\ cursor' > 0
      PROVE  OnceOK'
  BY <1>1, <1>2, <1>3 DEF OnceOK, Pieces
<1>4. CASE OnUrl \/ OnHeaderField \/ OnHeaderValue \/ OnBody
  <2>1. PICK f : Continues(f) /\ Consume
    BY <1>4 DEF OnUrl, OnHeaderField, OnHeaderValue, OnBody
  <2>2. /\ cursor' = cursor + Len(Text) /\ pos' = pos + Len(Text) /\ Len(Text) \in {1, 2}
        /\ Pos(cursor') = pos' /\ pos # Pieces
        /\ UNCHANGED <<out, answering, write, deferred>>
    BY <2>1, TextShape DEF Consume, exchange, Continues
  <2>3. cursor' >= cursor + 1
    <3>1. cursor \in Nat BY DEF TypeOK
    <3> QED BY <3>1, <2>2
  <2>4. Seen <= Seen' BY <2>2, <2>3, <1>1 DEF Seen
  <2> QED BY <1>1, <1>3, <2>2, <2>3, <2>4
<1>5. CASE OnMessageComplete
  <2> DEFINE i == Req(cursor)
  <2>1. pos = Pieces /\ pos' = 0 /\ UNCHANGED cursor BY <1>5 DEF OnMessageComplete
  <2>2. Pos(cursor) = Pieces /\ cursor > 0 BY <2>1 DEF OnceOK
  <2>3. i \in Nat /\ i * Pieces = cursor
    <3>1. i \in Nat /\ cursor = (i - 1) * Pieces + Pieces BY <1>1, <2>2, PosRange
    <3> QED BY <3>1 DEF Pieces
  <2> HIDE DEF i
  <2>4. Seen = cursor - 1 /\ Seen' = cursor /\ pos' # Pieces
    BY <2>1 DEF Seen, Pieces
  <2>5. /\ \A n \in 1 .. Len(out) : out[n] # i
        /\ i \notin deferred
        /\ write = "blocked" => answering # i
    BY <1>1, <2>3, <2>4 DEF OnceOK, Pieces
  <2>6. Seen <= Seen' /\ i * Pieces <= Seen' BY <1>1, <2>3, <2>4
  <2>7. CASE UNCHANGED exchange /\ UNCHANGED deferred
    BY <1>3, <2>7, <2>4, <2>6 DEF exchange
  <2>8. CASE UNCHANGED exchange /\ deferred' = deferred \cup {i}
    BY <1>1, <1>2, <2>3, <2>4, <2>5, <2>6, <2>8 DEF exchange, OnceOK, Pieces
  <2>9. CASE UNCHANGED deferred /\ Answers(i)
    BY <2>9, <2>3, <2>4, <2>5, <2>6, AnswerOnce
  <2> QED BY <1>5, <2>7, <2>8, <2>9, CompleteStep DEF i
<1>6. ASSUME NEW i \in 1 .. Requests, DeferredAnswer(i) PROVE OnceOK'
  <2>1. UNCHANGED <<pos, cursor>> /\ pos # Pieces
    BY <1>6 DEF DeferredAnswer, parse, Parsing
  <2>2. i \in deferred /\ deferred' = deferred \ {i} /\ Answers(i)
    BY <1>6, DeferredStep
  <2>3. Seen' = Seen BY <2>1 DEF Seen
  <2>4. /\ i \in Nat /\ i * Pieces <= Seen /\ \A n \in 1 .. Len(out) : out[n] # i
        /\ write = "blocked" => answering # i
    BY <1>1, <2>2 DEF OnceOK
  <2> QED BY <1>2, <2>1, <2>2, <2>3, <2>4, AnswerOnce
<1>7. CASE LoopPending
  <2>1. UNCHANGED <<pos, cursor, deferred>> /\ pos # Pieces
    BY <1>7 DEF LoopPending, parse, Parsing
  <2>2. Seen' = Seen BY <2>1 DEF Seen
  <2>3. CASE UNCHANGED exchange BY <1>2, <1>3, <2>1, <2>2, <2>3 DEF exchange
  <2>4. CASE write' = "none" /\ UNCHANGED out
    BY <1>1, <2>1, <2>2, <2>4 DEF OnceOK
  <2> QED BY <1>7, <2>3, <2>4, PendingStep DEF Finishes
<1>8. CASE Flush
  <2>1. UNCHANGED <<pos, cursor, deferred>> /\ pos # Pieces
    BY <1>8 DEF Flush, parse, Parsing
  <2>2. write = "blocked" /\ write' = "none" /\ out' = Append(out, answering)
    BY <1>8, FlushStep DEF Finishes
  <2>3. Seen' = Seen BY <2>1 DEF Seen
  <2>4. /\ Len(out') = Len(out) + 1 /\ out'[Len(out) + 1] = answering
        /\ \A n \in 1 .. Len(out) : out'[n] = out[n]
        /\ \A n \in 1 .. Len(out') : n \in 1 .. Len(out) \/ n = Len(out) + 1
    BY <1>1, <2>2
  <2>5. \A m, n \in 1 .. Len(out') : out'[m] = out'[n] => m = n
    BY <2>2, <2>4 DEF OnceOK
  <2>6. \A n \in 1 .. Len(out') : out'[n] * Pieces <= Seen'
    BY <1>1, <2>2, <2>3, <2>4 DEF OnceOK
  <2>7. \A j \in deferred' : j * Pieces <= Seen' /\ \A n \in 1 .. Len(out') : out'[n] # j
    BY <1>1, <2>1, <2>2, <2>3, <2>4 DEF OnceOK
  <2> QED BY <2>1, <2>2, <2>5, <2>6, <2>7 DEF OnceOK
<1>9. CASE LoopIdle
  <2>1. /\ UNCHANGED <<cursor, out, answering, write, deferred>>
        /\ pos # Pieces /\ pos' # Pieces
    BY <1>9 DEF LoopIdle, RestartRead, Parsing, Pieces
  <2>2. Seen' = Seen BY <2>1 DEF Seen
  <2> QED BY <1>2, <1>3, <2>1, <2>2
<1>10. CASE ParseError
  <2>1. /\ UNCHANGED <<pos, out, answering, write, deferred>>
        /\ pos # Pieces /\ cursor' = received
    BY <1>10 DEF ParseError
  <2>2. Seen <= Seen' BY <1>1, <2>1 DEF Seen
  <2> QED BY <1>3, <2>1, <2>2
<1>11. CASE LoopPoll \/ LoopRound \/ ClientSend \/ (\E k \in 1 .. Requests * Pieces : Read(k))
            \/ UNCHANGED vars
  <2>1. UNCHANGED <<pos, cursor, out, answering, write, deferred>>
    BY <1>11 DEF LoopPoll, LoopRound, ClientSend, Read, parse, exchange, vars
  <2>2. Seen' = Seen BY <2>1 DEF Seen
  <2>3. pos' = Pieces => Pos(cursor') = Pieces /\ cursor' > 0 BY <2>1 DEF OnceOK
  <2> QED BY <1>2, <1>3, <2>1, <2>2, <2>3
<1> QED
  BY <1>4, <1>5, <1>6, <1>7, <1>8, <1>9, <1>10, <1>11 DEF Next
-----------------------------------------------------------------------------
(* An orderly exchange.                                                    *)

\* The two pieces of a body that came in two reads.
LEMMA Pair == \A a, b \in Nat : <<a>> \o <<b>> = <<a, b>>
<1> SUFFICES ASSUME NEW a \in Nat, NEW b \in Nat PROVE <<a>> \o <<b>> = <<a, b>>
  OBVIOUS
<1> DEFINE s == <<a>> \o <<b>>
<1>1. s \in Seq(Nat) /\ Len(s) = 2 /\ s[1] = a /\ s[2] = b OBVIOUS
<1>2. <<a, b>> \in Seq(Nat) /\ Len(<<a, b>>) = 2 OBVIOUS
<1> HIDE DEF s
<1>3. \A i \in 1 .. Len(s) : s[i] = <<a, b>>[i]
  <2>1. \A i \in 1 .. 2 : i = 1 \/ i = 2 OBVIOUS
  <2> QED BY <1>1, <2>1
<1>4. s = <<a, b>> BY <1>1, <1>2, <1>3, SeqEqual
<1> QED BY <1>4 DEF s

\* A sequence with one element more.
LEMMA AppendFacts ==
  ASSUME NEW S, NEW s \in Seq(S), NEW e \in S
  PROVE  LET t == Append(s, e) IN
         /\ Len(s) \in Nat /\ Len(t) = Len(s) + 1 /\ t[Len(s) + 1] = e
         /\ \A n \in 1 .. Len(s) : t[n] = s[n]
         /\ \A n \in 1 .. Len(t) : n \in 1 .. Len(s) \/ n = Len(s) + 1
OBVIOUS

\* The next response in order keeps the order.
LEMMA OutGrows ==
  ASSUME TypeOK, InOrder, out' = Append(out, Len(out) + 1)
  PROVE  InOrder' /\ Base' = Base + Pieces /\ Len(out') = Len(out) + 1
<1>1. /\ Len(out) \in Nat /\ Len(out') = Len(out) + 1 /\ out'[Len(out) + 1] = Len(out) + 1
      /\ \A n \in 1 .. Len(out) : out'[n] = out[n]
      /\ \A n \in 1 .. Len(out') : n \in 1 .. Len(out) \/ n = Len(out) + 1
  BY OutTypes
<1> QED BY <1>1 DEF InOrder, Base, Pieces

\* uvhttp_response_send for the request that is due leads to the stage where it
\* is blocked, written or done with, or closes the connection.
LEMMA AnswerStage ==
  ASSUME TypeOK, TypeOK', InOrder, ~sent, state # "CLOSING", write = "none", ~idle,
         Answers(Len(out) + 1), deferred' = {}, pos' = 0, cursor' = received',
         ~ready', phase' \in {"events", "pending"},
         cursor' = Base + Pieces, client_sent' = cursor'
  PROVE  InOrder' /\ Stage' /\ client_sent' <= Base' + Pieces /\ ~Parsing'
<1>1. Base \in Nat /\ cursor' \in Nat BY OutTypes DEF Base, Pieces, TypeOK
<1>2. ~Parsing' BY <1>1 DEF Parsing, Unparsed, Pieces
<1>3. sent' = TRUE BY DEF Answers
<1>4. CASE /\ out' = Append(out, Len(out) + 1) /\ write' = "none"
           /\ \/ idle' = TRUE /\ state' = state
              \/ idle' = FALSE /\ state' = "CLOSING"
  <2>1. InOrder' /\ Base' = Base + Pieces BY <1>4, OutGrows
  <2>2. Stage' BY <1>3, <1>4, <2>1 DEF Stage, Closing, Restarting, Complete, Pieces
  <2> QED BY <1>1, <1>2, <2>1, <2>2 DEF Pieces
<1>5. CASE out' = Append(out, Len(out) + 1) /\ write' = "flushed" /\ idle' = idle /\ state' = state
  <2>1. InOrder' /\ Base' = Base + Pieces BY <1>5, OutGrows
  <2>2. Stage' BY <1>3, <1>5, <2>1 DEF Stage, Written, Complete
  <2> QED BY <1>1, <1>2, <2>1, <2>2 DEF Pieces
<1>6. CASE out' = out /\ write' = "blocked" /\ answering' = Len(out) + 1 /\ idle' = idle /\ state' = state
  <2>1. InOrder' /\ Base' = Base BY <1>6 DEF InOrder, Base
  <2>2. Stage' BY <1>3, <1>6, <2>1 DEF Stage, Blocked, Complete
  <2> QED BY <1>1, <1>2, <2>1, <2>2 DEF Pieces
<1> QED BY <1>4, <1>5, <1>6, Zenon DEF Answers

\* The callbacks of llhttp in an orderly exchange: the message is one that is
\* being read, and each callback adds a whole field, or a part of the body.
LEMMA OrderlyCallback ==
  ASSUME TypeOK, OrderlyOK, OnUrl \/ OnHeaderField \/ OnHeaderValue \/ OnBody
  PROVE  OrderlyOK'
<1>1. PICK f : Continues(f) /\ Consume
  BY DEF OnUrl, OnHeaderField, OnHeaderValue, OnBody
<1>2. /\ cursor \in Nat /\ received \in Nat /\ Base \in Nat /\ pos \in 0 .. 7 /\ pos # 7
      /\ cursor + 1 <= received /\ Pos(cursor + 1) = pos + 1
  BY <1>1, OutTypes DEF TypeOK, Continues, Unparsed, Base, Pieces
<1>3. Reading /\ state # "CLOSING"
  BY <1>2 DEF OrderlyOK, Stage, Closing, Waiting, Blocked, Written, Restarting, Complete
<1>4. /\ Text = IF pos \in {0, 3, 5} /\ cursor + 2 <= received
                 THEN <<cursor + 1, cursor + 2>> ELSE <<cursor + 1>>
      /\ cursor' = cursor + Len(Text) /\ pos' = pos + Len(Text)
  BY <1>1, TextShape DEF Consume
<1>5. /\ cursor = Base + pos /\ received # Base + 1 /\ received # Base + 4
      /\ pos \in {0, 2, 3, 5, 6} /\ Base' = Base
      /\ UNCHANGED <<setup, client_sent, received, phase, ready, deferred, dispatched,
                     sent, keepalive, write, idle, state, answering, out>>
  BY <1>1, <1>2, <1>3 DEF Reading, RequestOK, Consume, exchange, Base
<1>6. /\ OnUrl => pos = 0
      /\ OnHeaderField => pos = 2
      /\ OnHeaderValue => pos = 3
      /\ OnBody => pos \in {5, 6}
  <2>1. pos + 1 \in 1 .. Pieces BY <1>2 DEF Pieces
  <2>2. /\ OnUrl => Field[pos + 1] = "url"
        /\ OnHeaderField => Field[pos + 1] = "name"
        /\ OnHeaderValue => Field[pos + 1] = "value"
        /\ OnBody => Field[pos + 1] = "body"
    BY <1>2 DEF Continues, OnUrl, OnHeaderField, OnHeaderValue, OnBody
  <2>3. /\ Field[pos + 1] = "url" => pos + 1 \in {1, 2}
        /\ Field[pos + 1] = "name" => pos + 1 = 3
        /\ Field[pos + 1] = "value" => pos + 1 \in {4, 5}
        /\ Field[pos + 1] = "body" => pos + 1 \in {6, 7}
    BY <2>1, FieldAt
  <2> QED BY <2>2, <2>3, <1>5
<1>7. parsing_complete' = FALSE
  BY <1>3, <1>6 DEF OnUrl, OnHeaderField, OnHeaderValue, OnBody, Reading, TypeOK
<1>8. RequestOK' /\ cursor' = Base + pos'
  <2>0. DOMAIN request = {"url", "name", "headers", "body"} BY DEF TypeOK
  <2>1. CASE OnUrl
    <3>1. pos = 0 /\ cursor + 2 <= received BY <1>2, <1>5, <1>6, <2>1
    <3>2. Text = <<Base + 1, Base + 2>> /\ Len(Text) = 2 BY <3>1, <1>4, <1>5, <1>2
    <3>3. pos' = 2 /\ cursor' = Base + 2 BY <3>1, <3>2, <1>4, <1>5, <1>2
    <3>4. /\ request'.url = <<Base + 1, Base + 2>> /\ request'.name = request.name
          /\ request'.headers = request.headers /\ request'.body = request.body
      BY <2>0, <2>1, <3>2 DEF OnUrl
    <3>5. ~request.name /\ request.headers = <<>> /\ request.body = <<>>
      BY <3>1, <1>3 DEF Reading, RequestOK
    <3> QED BY <3>3, <3>4, <3>5, <1>5 DEF RequestOK
  <2>2. CASE OnHeaderField
    <3>1. pos = 2 BY <1>6, <2>2
    <3>2. Text = <<Base + 3>> /\ Len(Text) = 1 BY <3>1, <1>4, <1>5, <1>2
    <3>3. pos' = 3 /\ cursor' = Base + 3 BY <3>1, <3>2, <1>4, <1>5, <1>2
    <3>4. /\ request'.url = request.url /\ request'.name = TRUE
          /\ request'.headers = request.headers /\ request'.body = request.body
      BY <2>0, <2>2 DEF OnHeaderField
    <3>5. /\ request.url = <<Base + 1, Base + 2>>
          /\ request.headers = <<>> /\ request.body = <<>>
      BY <3>1, <1>3 DEF Reading, RequestOK
    <3> QED BY <3>3, <3>4, <3>5, <1>5 DEF RequestOK
  <2>3. CASE OnHeaderValue
    <3>1. pos = 3 /\ cursor + 2 <= received BY <1>2, <1>5, <1>6, <2>3
    <3>2. Text = <<Base + 4, Base + 5>> /\ Len(Text) = 2 BY <3>1, <1>4, <1>5, <1>2
    <3>3. pos' = 5 /\ cursor' = Base + 5 BY <3>1, <3>2, <1>4, <1>5, <1>2
    <3>4. /\ request'.url = request.url /\ request'.name = FALSE
          /\ request'.headers = Append(request.headers, Text) /\ request'.body = request.body
      BY <2>0, <2>3 DEF OnHeaderValue
    <3>5. /\ request.url = <<Base + 1, Base + 2>>
          /\ request.headers = <<>> /\ request.body = <<>>
      BY <3>1, <1>3 DEF Reading, RequestOK
    <3>6. request'.headers = << <<Base + 4, Base + 5>> >>
      BY <3>2, <3>4, <3>5
    <3> QED BY <3>3, <3>4, <3>5, <3>6, <1>5 DEF RequestOK
  <2>4. CASE OnBody
    <3>1. /\ request'.url = request.url /\ request'.name = request.name
          /\ request'.headers = request.headers /\ request'.body = request.body \o Text
      BY <2>0, <2>4 DEF OnBody
    <3>2. CASE pos = 5
      <4>1. /\ request.url = <<Base + 1, Base + 2>> /\ ~request.name
            /\ request.headers = << <<Base + 4, Base + 5>> >> /\ request.body = <<>>
        BY <3>2, <1>3 DEF Reading, RequestOK
      <4>2. CASE cursor + 2 <= received
        <5>1. Text = <<Base + 6, Base + 7>> /\ Len(Text) = 2 BY <3>2, <4>2, <1>4, <1>5, <1>2
        <5>2. pos' = 7 /\ cursor' = Base + 7 BY <3>2, <5>1, <1>4, <1>5, <1>2
        <5>3. request'.body = <<Base + 6, Base + 7>> BY <3>1, <4>1, <5>1
        <5> QED BY <3>1, <4>1, <5>2, <5>3, <1>5, <1>2 DEF RequestOK
      <4>3. CASE ~(cursor + 2 <= received)
        <5>1. Text = <<Base + 6>> /\ Len(Text) = 1 BY <3>2, <4>3, <1>4, <1>5, <1>2
        <5>2. pos' = 6 /\ cursor' = Base + 6 BY <3>2, <5>1, <1>4, <1>5, <1>2
        <5>3. request'.body = <<Base + 6>> BY <3>1, <4>1, <5>1
        <5>4. /\ pos' \in {0, 2, 3, 5, 6, 7} /\ pos' # 3 /\ pos' # 7 /\ ~(pos' < 5) /\ ~(pos' < 6)
              /\ cursor' = Base + pos'
          BY <5>2
        <5> QED BY <3>1, <4>1, <5>3, <5>4, <1>5, Zenon DEF RequestOK
      <4> QED BY <4>2, <4>3
    <3>3. CASE pos = 6
      <4>1. /\ request.url = <<Base + 1, Base + 2>> /\ ~request.name
            /\ request.headers = << <<Base + 4, Base + 5>> >> /\ request.body = <<Base + 6>>
        BY <3>3, <1>3 DEF Reading, RequestOK
      <4>2. Text = <<Base + 7>> /\ Len(Text) = 1 BY <3>3, <1>4, <1>5, <1>2
      <4>3. pos' = 7 /\ cursor' = Base + 7 BY <3>3, <4>2, <1>4, <1>5, <1>2
      <4>4. request'.body = <<Base + 6, Base + 7>> BY <3>1, <4>1, <4>2, <1>2, Pair
      <4>5. /\ pos' \in {0, 2, 3, 5, 6, 7} /\ pos' # 3 /\ pos' # 6 /\ ~(pos' < 5) /\ ~(pos' < 6)
            /\ cursor' = Base + pos'
        BY <4>3
      <4> QED BY <3>1, <4>1, <4>4, <4>5, <1>5, Zenon DEF RequestOK
    <3> QED BY <1>6, <2>4, <3>2, <3>3
  <2> QED BY <2>1, <2>2, <2>3, <2>4
<1>9. Reading' BY <1>3, <1>5, <1>7, <1>8 DEF Reading
<1>10. phase = "events" /\ ~ready BY <1>2 DEF OrderlyOK, Parsing, Unparsed
<1> QED BY <1>3, <1>5, <1>9, <1>10 DEF OrderlyOK, Stage, InOrder, DispatchFaithful, Base

\* Two neighbouring pieces of a request.
LEMMA PiecePair ==
  ASSUME NEW m \in Nat, NEW a \in Nat, NEW b \in Nat, b = a + 1
  PROVE  PieceSeq(m + 1, a, b) = <<m * Pieces + a, m * Pieces + b>>
<1> DEFINE s == PieceSeq(m + 1, a, b)
           t == <<m * Pieces + a, m * Pieces + b>>
<1>1. s = [n \in 1 .. 2 |-> m * Pieces + a + n - 1]
  <2>1. b - a + 1 = 2 /\ (m + 1) - 1 = m OBVIOUS
  <2> QED BY <2>1 DEF PieceSeq
<1> HIDE DEF s
<1>2. s \in Seq(Int) /\ Len(s) = 2 BY <1>1 DEF Pieces
<1>3. t \in Seq(Int) /\ Len(t) = 2 /\ t[1] = m * Pieces + a /\ t[2] = m * Pieces + b
  BY DEF Pieces
<1> HIDE DEF t
<1>4. \A i \in 1 .. Len(s) : s[i] = t[i]
  <2>1. s[1] = m * Pieces + a /\ s[2] = m * Pieces + b BY <1>1 DEF Pieces
  <2>2. \A i \in 1 .. 2 : i = 1 \/ i = 2 OBVIOUS
  <2> QED BY <1>2, <1>3, <2>1, <2>2
<1>5. s = t BY <1>2, <1>3, <1>4, SeqEqual
<1> QED BY <1>5 DEF s, t

\* on_message_complete: all of the request is there, and nothing else.
LEMMA OrderlyComplete ==
  ASSUME TypeOK, TypeOK', OrderlyOK, OnMessageComplete
  PROVE  OrderlyOK'
<1> DEFINE i == Req(cursor)
           d == [req |-> i, url |-> request.url, headers |-> request.headers,
                 body |-> request.body]
<1>1. pos = Pieces /\ pos' = 0 /\ UNCHANGED <<cursor, received, client_sent, phase, ready>>
  BY DEF OnMessageComplete
<1>2. state # "CLOSING" /\ Reading
  BY <1>1 DEF OrderlyOK, Stage, Closing, Waiting, Blocked, Written, Restarting, Complete, Pieces
<1>3. Base \in Nat /\ Len(out) \in Nat /\ cursor \in Nat /\ received \in Nat /\ client_sent \in Nat
  BY OutTypes DEF TypeOK, Base, Pieces
<1>4. cursor = Base + Pieces /\ received = cursor /\ client_sent = cursor
  <2>1. cursor = Base + Pieces BY <1>1, <1>2 DEF Reading
  <2> QED BY <1>3, <2>1 DEF OrderlyOK, TypeOK, Pieces
<1>5. i = Len(out) + 1
  <2>1. Pieces \in 1 .. Pieces BY DEF Pieces
  <2> QED BY <1>3, <1>4, <2>1, Places DEF Base
<1>6. phase = "events" /\ ~ready BY <1>1 DEF OrderlyOK, Parsing
<1>7. ~parsing_complete /\ dispatched' = Append(dispatched, d)
  BY <1>2 DEF Reading, OnMessageComplete
<1>8. /\ d.url = PieceSeq(d.req, 1, 2) /\ d.headers = <<PieceSeq(d.req, 4, 5)>>
      /\ d.body = PieceSeq(d.req, 6, 7)
  <2>1. /\ request.url = <<Base + 1, Base + 2>>
        /\ request.headers = << <<Base + 4, Base + 5>> >>
        /\ request.body = <<Base + 6, Base + 7>>
    BY <1>1, <1>2 DEF Reading, RequestOK, Pieces
  <2>2. /\ PieceSeq(Len(out) + 1, 1, 2) = <<Base + 1, Base + 2>>
        /\ PieceSeq(Len(out) + 1, 4, 5) = <<Base + 4, Base + 5>>
        /\ PieceSeq(Len(out) + 1, 6, 7) = <<Base + 6, Base + 7>>
    <3>1. 2 = 1 + 1 /\ 5 = 4 + 1 /\ 7 = 6 + 1 /\ 6 \in Nat /\ 7 \in Nat OBVIOUS
    <3>2. PieceSeq(Len(out) + 1, 1, 2) = <<Base + 1, Base + 2>> BY <1>3, <3>1, PiecePair DEF Base
    <3>3. PieceSeq(Len(out) + 1, 4, 5) = <<Base + 4, Base + 5>> BY <1>3, <3>1, PiecePair DEF Base
    <3>4. PieceSeq(Len(out) + 1, 6, 7) = <<Base + 6, Base + 7>> BY <1>3, <3>1, PiecePair, Zenon DEF Base
    <3> QED BY <3>2, <3>3, <3>4
  <2> QED BY <1>5, <2>1, <2>2
<1> HIDE DEF d
<1>9. DispatchFaithful'
  <2>1. /\ Len(dispatched) \in Nat /\ Len(dispatched') = Len(dispatched) + 1
        /\ dispatched'[Len(dispatched) + 1] = d
        /\ \A n \in 1 .. Len(dispatched) : dispatched'[n] = dispatched[n]
        /\ \A n \in 1 .. Len(dispatched') : n \in 1 .. Len(dispatched) \/ n = Len(dispatched) + 1
    <3> DEFINE S == [req : Nat, url : Seq(Nat), headers : Seq(Seq(Nat)), body : Seq(Nat)]
    <3>1. d \in S BY <1>3, <1>5 DEF d, TypeOK
    <3>2. dispatched \in Seq(S) BY DEF TypeOK
    <3> HIDE DEF S
    <3> QED BY <1>7, <3>1, <3>2, AppendFacts
  <2>2. DispatchFaithful BY DEF OrderlyOK
  <2> QED BY <1>8, <2>1, <2>2, Zenon DEF DispatchFaithful
<1>10. /\ ~sent /\ write = "none" /\ ~idle /\ deferred = {} BY <1>2 DEF Reading
<1>11. ~Parsing' BY <1>1, <1>3, <1>4 DEF Parsing, Unparsed, Pieces
<1>12. CASE UNCHANGED exchange /\ deferred' = deferred \cup {i}
  <2>1. Base' = Base /\ InOrder' /\ UNCHANGED <<sent, write, idle, state, out>>
    BY <1>12 DEF exchange, Base, InOrder, OrderlyOK
  <2>2. Waiting' BY <1>1, <1>4, <1>5, <1>6, <1>10, <1>12, <2>1 DEF Waiting, Complete
  <2>3. client_sent' <= Base' + Pieces BY <1>1, <2>1 DEF OrderlyOK
  <2> QED BY <1>2, <1>9, <1>11, <2>1, <2>2, <2>3 DEF OrderlyOK, Stage
<1>13. CASE UNCHANGED deferred /\ Answers(i)
  <2>1. InOrder BY DEF OrderlyOK
  <2>2. /\ Answers(Len(out) + 1) /\ deferred' = {} /\ cursor' = received' /\ ~ready'
        /\ phase' \in {"events", "pending"} /\ cursor' = Base + Pieces /\ client_sent' = cursor'
    BY <1>1, <1>4, <1>5, <1>6, <1>10, <1>13
  <2>3. InOrder' /\ Stage' /\ client_sent' <= Base' + Pieces /\ ~Parsing'
    BY <1>1, <1>2, <1>10, <2>1, <2>2, AnswerStage
  <2> QED BY <1>9, <2>3 DEF OrderlyOK
<1>14. UNCHANGED exchange /\ UNCHANGED deferred => FALSE
  <2>1. ASSUME UNCHANGED exchange, UNCHANGED deferred PROVE FALSE
    <3>1. \/ deferred' = deferred \cup {i} /\ UNCHANGED exchange
          \/ \E ka \in BOOLEAN, w \in {"flushed", "blocked"} :
               \/ Become(Send(Exchange, i, ka, w))
               \/ Become(Send(Send(Exchange, i, ka, w), i, ka, w))
      BY <1>7, Zenon DEF OnMessageComplete
    <3>2. i \notin deferred BY <1>10
    <3>3. CASE deferred' = deferred \cup {i} BY <2>1, <3>2, <3>3
    <3>4. ASSUME NEW ka \in BOOLEAN, NEW w \in {"flushed", "blocked"},
               \/ Become(Send(Exchange, i, ka, w))
               \/ Become(Send(Send(Exchange, i, ka, w), i, ka, w))
          PROVE  FALSE
      <4>1. sent' = TRUE BY <3>4, SendAnswers DEF Answers
      <4> QED BY <4>1, <2>1, <1>10 DEF exchange
    <3> QED BY <3>1, <3>3, <3>4
  <2> QED BY <2>1
<1> QED BY <1>12, <1>13, <1>14, CompleteStep

\* An answer given later is to the request that waits.
LEMMA OrderlyAnswer ==
  ASSUME TypeOK, TypeOK', Orderly, OrderlyOK, NEW i, DeferredAnswer(i)
  PROVE  OrderlyOK'
<1>1. i \in deferred /\ deferred' = deferred \ {i} /\ Answers(i) BY DeferredStep
<1>2. /\ ~Parsing /\ phase \in {"events", "pending"}
      /\ UNCHANGED <<setup, client_sent, received, phase, ready, dispatched, cursor, pos>>
  BY DEF DeferredAnswer, parse, Orderly, TypeOK
<1>3. DispatchFaithful' BY <1>2 DEF OrderlyOK, DispatchFaithful
<1>4. CASE state = "CLOSING"
  <2>1. UNCHANGED <<idle, state, out>> BY <1>1, <1>4 DEF Answers
  <2>2. ~Parsing' BY <1>2 DEF Parsing, Unparsed
  <2> QED BY <1>2, <1>3, <1>4, <2>1, <2>2 DEF OrderlyOK, Stage, Closing, InOrder, Base
<1>5. CASE state # "CLOSING"
  <2>1. Waiting BY <1>1, <1>5 DEF OrderlyOK, Stage, Reading, Blocked, Written, Restarting
  <2>2. i = Len(out) + 1 /\ deferred' = {} BY <1>1, <2>1 DEF Waiting
  <2>3. InOrder BY DEF OrderlyOK
  <2>4. /\ ~sent /\ write = "none" /\ ~idle /\ pos' = 0 /\ cursor' = received' /\ ~ready'
        /\ cursor' = Base + Pieces /\ client_sent' = cursor'
    BY <1>2, <2>1 DEF Waiting, Complete
  <2>5. InOrder' /\ Stage' /\ client_sent' <= Base' + Pieces /\ ~Parsing'
    BY <1>1, <1>2, <1>5, <2>2, <2>3, <2>4, AnswerStage
  <2> QED BY <1>3, <2>5 DEF OrderlyOK
<1> QED BY <1>4, <1>5
\* A round of the loop brings the restart behind the response and before the
\* next poll.
LEMMA OrderlyLoop ==
  ASSUME TypeOK, TypeOK', OrderlyOK,
         LoopPending \/ LoopIdle \/ LoopPoll \/ LoopRound \/ Flush
  PROVE  OrderlyOK'
<1>1. /\ ~Parsing /\ UNCHANGED <<client_sent, received, cursor, dispatched, deferred>>
  BY DEF LoopPending, LoopIdle, LoopPoll, LoopRound, Flush, parse
<1>2. cursor = received /\ pos # Pieces
  BY <1>1 DEF Parsing, Unparsed, TypeOK
<1>3. DispatchFaithful' BY <1>1 DEF OrderlyOK, DispatchFaithful
<1>4. Base \in Nat /\ cursor \in Nat /\ client_sent \in Nat
  BY OutTypes DEF TypeOK, Base, Pieces
<1>5. ASSUME pos' # Pieces, UNCHANGED out, Stage' PROVE OrderlyOK'
  <2>1. ~Parsing' BY <1>1, <1>2, <1>4, <1>5 DEF Parsing, Unparsed
  <2>2. InOrder' /\ Base' = Base BY <1>5 DEF OrderlyOK, InOrder, Base
  <2> QED BY <1>1, <1>3, <1>5, <2>1, <2>2 DEF OrderlyOK
<1>6. CASE LoopPending
  <2>1. UNCHANGED <<pos, request, parsing_complete, ready>> /\ phase' = "idle" /\ phase = "pending"
    BY <1>6 DEF LoopPending, parse
  <2>2. CASE UNCHANGED exchange /\ write # "flushed"
    <3>1. UNCHANGED <<sent, write, idle, state, answering, out>> /\ Base' = Base
      BY <2>2 DEF exchange, Base
    <3>2. Stage'
      BY <1>1, <2>1, <2>2, <3>1 DEF OrderlyOK, Stage, Closing, Reading, RequestOK, Waiting,
         Blocked, Written, Restarting, Complete
    <3> QED BY <1>2, <1>5, <2>1, <3>1, <3>2
  <2>3. CASE write = "flushed" /\ Finishes /\ UNCHANGED out
    <3>1. Base' = Base BY <2>3 DEF Base
    <3>2. CASE state = "CLOSING"
      <4>1. Closing BY <3>2 DEF OrderlyOK, Stage
      <4>2. state' = "CLOSING" /\ ~idle' BY <2>3, <3>2, <4>1 DEF Finishes, Closing
      <4>3. Stage' BY <1>1, <1>2, <2>1, <4>2 DEF Stage, Closing
      <4> QED BY <1>2, <1>5, <2>1, <2>3, <4>3
    <3>3. CASE state # "CLOSING"
      <4>1. Written BY <2>3, <3>3 DEF OrderlyOK, Stage, Reading, Waiting, Blocked, Restarting
      <4>2. CASE idle' = FALSE /\ state' = "CLOSING"
        BY <1>1, <1>2, <1>5, <2>1, <2>3, <4>2 DEF Stage, Closing
      <4>3. CASE idle' = TRUE /\ UNCHANGED state
        <5>1. Restarting'
          BY <1>1, <2>1, <2>3, <3>1, <4>1, <4>3 DEF Written, Restarting, Complete, Finishes
        <5> QED BY <1>2, <1>5, <2>1, <2>3, <3>3, <4>3, <5>1 DEF Stage
      <4> QED BY <2>3, <3>3, <4>2, <4>3 DEF Finishes
    <3> QED BY <3>2, <3>3
  <2> QED BY <1>6, <2>2, <2>3, PendingStep
<1>7. CASE LoopIdle
  <2>1. /\ UNCHANGED <<ready, write, state, answering, out>> /\ phase = "idle"
        /\ phase' = "poll" /\ idle' = FALSE /\ Base' = Base
    BY <1>7 DEF LoopIdle, Base
  <2>2. CASE idle /\ state # "CLOSING"
    <3>1. Restarting BY <2>2 DEF OrderlyOK, Stage, Reading, Waiting, Blocked, Written
    <3>2. request' = EmptyRequest /\ parsing_complete' = FALSE /\ pos' = 0 /\ sent' = FALSE
      BY <1>7, <2>2 DEF LoopIdle, RestartRead
    <3>3. RequestOK' BY <3>2 DEF RequestOK, EmptyRequest
    <3>4. Reading'
      BY <1>1, <1>4, <2>1, <3>1, <3>2, <3>3 DEF Reading, Restarting, Complete, Pieces
    <3> QED BY <1>5, <2>1, <2>2, <3>2, <3>4 DEF Stage, Pieces
  <2>3. CASE ~(idle /\ state # "CLOSING")
    <3>1. UNCHANGED <<request, parsing_complete, pos, sent>>
      BY <1>7, <2>3 DEF LoopIdle
    <3>2. Stage'
      BY <1>1, <2>1, <2>3, <3>1 DEF OrderlyOK, Stage, Closing, Reading, RequestOK, Waiting,
         Blocked, Written, Restarting, Complete
    <3> QED BY <1>2, <1>5, <2>1, <3>1, <3>2
  <2> QED BY <2>2, <2>3
<1>8. CASE LoopPoll \/ LoopRound
  <2>1. /\ UNCHANGED <<pos, request, parsing_complete, sent, write, idle, state, answering, out>>
        /\ Base' = Base
    BY <1>8 DEF LoopPoll, LoopRound, parse, exchange, Base
  <2>2. CASE LoopPoll
    <3>1. phase = "poll" /\ phase' = "events" /\ (ready' => client_sent > received)
      BY <2>2 DEF LoopPoll
    <3>2. client_sent = cursor => ~ready' BY <1>2, <1>4, <3>1
    <3>3. Stage'
      BY <1>1, <2>1, <3>1, <3>2 DEF OrderlyOK, Stage, Closing, Reading, RequestOK, Waiting,
         Blocked, Written, Restarting, Complete
    <3> QED BY <1>2, <1>5, <2>1, <3>3
  <2>3. CASE LoopRound
    <3>1. phase' = "pending" /\ ~ready' BY <2>3 DEF LoopRound
    <3>2. Stage'
      BY <1>1, <2>1, <3>1 DEF OrderlyOK, Stage, Closing, Reading, RequestOK, Waiting,
         Blocked, Written, Restarting, Complete
    <3> QED BY <1>2, <1>5, <2>1, <3>2
  <2> QED BY <1>8, <2>2, <2>3
<1>9. CASE Flush
  <2>1. /\ UNCHANGED <<pos, phase>> /\ phase = "events" /\ ~ready'
        /\ write = "blocked" /\ state # "CLOSING"
    BY <1>9 DEF Flush, parse
  <2>2. Finishes /\ out' = Append(out, answering) BY <1>9, FlushStep
  <2>3. Blocked BY <2>1 DEF OrderlyOK, Stage, Reading, Waiting, Written, Restarting
  <2>4. InOrder' /\ Base' = Base + Pieces
    BY <2>2, <2>3, OutGrows DEF Blocked, OrderlyOK
  <2>5. Stage'
    <3>1. write' = "none" /\ UNCHANGED sent BY <2>2 DEF Finishes
    <3>2. CASE idle' = FALSE /\ state' = "CLOSING"
      BY <1>1, <1>2, <2>1, <3>2 DEF Stage, Closing
    <3>3. CASE idle' = TRUE /\ UNCHANGED state
      <4>1. Restarting'
        BY <1>1, <2>1, <2>3, <2>4, <3>1, <3>3 DEF Restarting, Blocked, Complete
      <4> QED BY <2>1, <3>3, <4>1 DEF Stage
    <3> QED BY <2>1, <2>2, <3>2, <3>3 DEF Finishes
  <2>6. ~Parsing' BY <1>1, <1>2, <1>4, <2>1 DEF Parsing, Unparsed
  <2>7. client_sent' <= Base' + Pieces BY <1>1, <1>4, <2>3, <2>4 DEF Blocked, Pieces
  <2> QED BY <1>3, <2>4, <2>5, <2>6, <2>7 DEF OrderlyOK
<1> QED BY <1>6, <1>7, <1>8, <1>9

\* Every step of an orderly exchange leads from stage to stage.
LEMMA OrderlyStep ==
  ASSUME TypeOK, TypeOK', Orderly, OrderlyOK, [Next]_vars
  PROVE  OrderlyOK'
<1>1. CASE OnUrl \/ OnHeaderField \/ OnHeaderValue \/ OnBody BY <1>1, OrderlyCallback
<1>2. CASE OnMessageComplete BY <1>2, OrderlyComplete
<1>3. ASSUME NEW i \in 1 .. Requests, DeferredAnswer(i) PROVE OrderlyOK'
  BY <1>3, OrderlyAnswer
<1>4. CASE LoopPending \/ LoopIdle \/ LoopPoll \/ LoopRound \/ Flush BY <1>4, OrderlyLoop
<1>5. CASE ParseError
  <2>1. /\ pos # Pieces /\ state' = "CLOSING" /\ idle' = FALSE /\ cursor' = received
        /\ UNCHANGED <<client_sent, received, pos, dispatched, out>>
    BY <1>5 DEF ParseError
  <2>2. ~Parsing' BY <2>1 DEF Parsing, Unparsed, TypeOK
  <2> QED BY <2>1, <2>2 DEF OrderlyOK, Stage, Closing, InOrder, Base, DispatchFaithful
<1>6. ASSUME NEW k \in 1 .. Requests * Pieces, Read(k) PROVE OrderlyOK'
  <2>1. /\ phase = "events" /\ ready /\ ~ready' /\ state # "CLOSING" /\ received' = received + k
        /\ received' <= client_sent /\ Pos(received') # 1 /\ Pos(received') # 4
        /\ UNCHANGED <<client_sent, cursor, pos, request, parsing_complete, phase, deferred, dispatched,
                      sent, write, idle, state, answering, out>>
    BY <1>6 DEF Read, Orderly, parse, exchange
  <2>2. Reading BY <2>1 DEF OrderlyOK, Stage, Waiting, Blocked, Written, Restarting, Complete
  <2>3. Base' = Base /\ Len(out) \in Nat BY <2>1, OutTypes DEF Base
  <2>4. Pos(Base + 1) = 1 /\ Pos(Base + 4) = 4
    <3>1. 1 \in 1 .. Pieces /\ 4 \in 1 .. Pieces BY DEF Pieces
    <3> QED BY <2>3, <3>1, Places DEF Base
  <2>5. received' # Base + 1 /\ received' # Base + 4 BY <2>1, <2>4
  <2>6. received' <= Base + Pieces
    BY <2>1, <2>3 DEF OrderlyOK, TypeOK, Base, Pieces
  <2>7. Reading' BY <2>1, <2>2, <2>3, <2>5, <2>6 DEF Reading, RequestOK
  <2> QED BY <2>1, <2>3, <2>7 DEF OrderlyOK, Stage, InOrder, DispatchFaithful
<1>7. CASE ClientSend
  <2>1. /\ Base >= client_sent /\ client_sent' = client_sent + Pieces
        /\ UNCHANGED <<received, cursor, pos, request, parsing_complete, phase, ready, deferred,
                       dispatched, sent, write, idle, state, answering, out>>
    BY <1>7 DEF ClientSend, Orderly, parse, exchange, Base
  <2>2. Base' = Base /\ Base \in Nat /\ client_sent \in Nat
    BY <2>1, OutTypes DEF Base, Pieces, TypeOK
  <2>3. client_sent' <= Base + Pieces /\ client_sent # Base + Pieces BY <2>1, <2>2 DEF Pieces
  <2>4. ~Waiting /\ ~Blocked BY <2>3 DEF Waiting, Blocked
  <2>5. Stage'
    BY <2>1, <2>2, <2>4 DEF OrderlyOK, Stage, Closing, Reading, RequestOK, Written, Restarting, Complete
  <2> QED BY <2>1, <2>2, <2>3, <2>5 DEF OrderlyOK, InOrder, DispatchFaithful, Parsing, Unparsed
<1>8. CASE UNCHANGED vars
  BY <1>8 DEF vars, OrderlyOK, Stage, Closing, Reading, RequestOK, Waiting, Blocked, Written,
     Restarting, Complete, InOrder, DispatchFaithful, Parsing, Unparsed, Base
<1> QED BY <1>1, <1>2, <1>3, <1>4, <1>5, <1>6, <1>7, <1>8 DEF Next
-----------------------------------------------------------------------------

\* The invariant holds of a new connection.
LEMMA InvInit == Init => Inv
<1> SUFFICES ASSUME Init PROVE Inv OBVIOUS
<1>1. TypeOK BY TypeInit
<1>2. ResponseOK BY DEF Init, ResponseOK
<1>3. OnceOK BY DEF Init, OnceOK, Pieces
<1>4. OrderlyOK
  <2>1. Len(out) = 0 /\ Base = 0 BY DEF Init, Base, Pieces
  <2>2. RequestOK BY DEF Init, RequestOK, EmptyRequest
  <2>3. Reading BY <2>1, <2>2 DEF Init, Reading, Pieces
  <2>4. ~Parsing BY DEF Init, Parsing, Unparsed, Pieces
  <2>5. InOrder /\ DispatchFaithful BY <2>1 DEF Init, InOrder, DispatchFaithful
  <2> QED BY <2>1, <2>3, <2>4, <2>5 DEF Init, OrderlyOK, Stage, Pieces
<1> QED BY <1>1, <1>2, <1>3, <1>4 DEF Inv

\* The invariant is inductive.
LEMMA InvNext == Inv /\ [Next]_vars => Inv'
<1> SUFFICES ASSUME Inv, [Next]_vars PROVE Inv' OBVIOUS
<1>1. TypeOK' BY TypeStep DEF Inv
<1>2. ResponseOK' BY ResponseStep DEF Inv
<1>3. OnceOK' BY <1>1, OnceStep DEF Inv
<1>4. setup' = setup
  BY DEF Next, OnUrl, OnHeaderField, OnHeaderValue, OnBody, Consume, OnMessageComplete, ParseError,
     LoopPending, LoopIdle, LoopPoll, LoopRound, Flush, Read, DeferredAnswer, ClientSend, vars
<1>5. Orderly' => Orderly BY <1>4 DEF Orderly
<1>6. Orderly => OrderlyOK' BY <1>1, OrderlyStep DEF Inv
<1> QED BY <1>1, <1>2, <1>3, <1>5, <1>6 DEF Inv

\* The inductive invariant of the exchange holds in every state.
THEOREM ExchangeInvariance == Spec => []Inv
BY InvInit, InvNext, PTL DEF Spec

\* uvhttp_connection_restart_read never resets a response that libuv is writing,
\* nor, with an orderly client, a request half received or not answered.
THEOREM RestartSafe == Spec => []RestartBetweenRequests
<1>1. Inv => RestartBetweenRequests
  <2> SUFFICES ASSUME Inv PROVE RestartBetweenRequests OBVIOUS
  <2>1. write # "none" => sent /\ ~idle BY DEF Inv, ResponseOK
  <2>2. ASSUME Orderly, idle PROVE pos = 0 /\ cursor = received /\ deferred = {}
    <3>1. Stage BY <2>2 DEF Inv, OrderlyOK
    <3> QED BY <2>2, <3>1 DEF Stage, Closing, Reading, Waiting, Blocked, Written, Restarting, Complete
  <2> QED BY <2>1, <2>2 DEF RestartBetweenRequests
<1> QED BY <1>1, ExchangeInvariance, PTL

\* uvhttp_response_send answers no request twice; an orderly client receives the
\* answers in the order of its requests.
THEOREM AnsweredInOrder == Spec => []AnswersInOrder
<1>1. Inv => AnswersInOrder
  BY DEF Inv, OnceOK, OrderlyOK, InOrder, AnswersInOrder
<1> QED BY <1>1, ExchangeInvariance, PTL

\* Every handler of an orderly exchange sees the URL, the headers and the body that
\* the client sent, whichever requests came before on the connection.
THEOREM DispatchedFaithfully == Spec => []DispatchFaithfulIfOrderly
<1>1. Inv => DispatchFaithfulIfOrderly
  BY DEF Inv, OrderlyOK, DispatchFaithfulIfOrderly
<1> QED BY <1>1, ExchangeInvariance, PTL
=============================================================================
