------------------------------- MODULE Sendfile -------------------------------
(***************************************************************************)
(* One transfer of a file over a connection by the asynchronous sendfile   *)
(* of uvhttp_static.c.  The handler sends the headers with uv_write,       *)
(* queues the first chunk on libuv's thread pool and returns; the          *)
(* completion callback queues the next chunk; a timer guards the chunk;    *)
(* closing the input file releases the context.  Meanwhile the client may  *)
(* leave, its descriptor be given to another connection, and the file be   *)
(* shortened by another process.                                           *)
(*                                                                         *)
(* Lengths are in units of which a chunk holds one or more.  The medium    *)
(* and large branches of the strategy run the same code and are one.  A    *)
(* handle closed in the poll phase is gone before the next poll; one       *)
(* closed by the timer callback is not, so only that close is a step of    *)
(* its own.                                                                *)
(***************************************************************************)
EXTENDS Integers, Sequences, FiniteSets

CONSTANTS
  FileSizes,    \* lengths of the file when the transfer starts
  Small,        \* UVHTTP_STATIC_SMALL_FILE_THRESHOLD
  SmallChunk, LargeFrom, LargeChunk,  \* chunk by file size, when not configured
  DefaultRetry, \* SENDFILE_DEFAULT_MAX_RETRY
  ChunkConfigs, RetryConfigs  \* values configured (0: the default)

ASSUME SendfileAssumption ==
  /\ FileSizes \subseteq Nat \ {0} /\ Small \in Nat /\ LargeFrom \in Nat
  /\ SmallChunk \in Nat \ {0} /\ LargeChunk \in Nat \ {0} /\ DefaultRetry \in Nat
  /\ ChunkConfigs \subseteq Nat /\ RetryConfigs \subseteq Nat

VARIABLES
  sf_ctx,     \* the sendfile_context_t
  sf_req,     \* ctx->sendfile_req: idle, in the pool, or done with a result
  sf_close,   \* ctx->close_req, and how often uv_fs_close was called
  sf_conn,    \* the client's connection and its descriptor
  sf_headers, \* the uv_write of the headers
  sf_wire,    \* what the client's socket was given, in order
  sf_stray,   \* file units another connection was given
  sf_len      \* the length of the file now

sendfileVars == <<sf_ctx, sf_req, sf_close, sf_conn, sf_headers, sf_wire, sf_stray, sf_len>>

CtxType == [state : {"none", "live", "freed"}, size : Nat, offset : Nat,
            chunk : Nat, retry : Nat, max_retry : Nat, completed : BOOLEAN,
            cork : BOOLEAN, timer : {"none", "armed", "closing", "closed"},
            timed_out : BOOLEAN]

\* Results of a sendfile: the units sent, or one of two kinds of error.
EAGAIN == -1
EOTHER == -2

\* What is on the wire besides the units of the file.
HEADERS == -1
NEXT == -2

ReqType == [state : {"idle", "queued", "done"}, result : Int]

ConnSt == [state : {"open", "closed"}, by : {"none", "server", "peer"},
           fd : {"own", "free", "reused"}, keepalive : BOOLEAN, reading : BOOLEAN]

NoCtx == [state |-> "none", size |-> 0, offset |-> 0, chunk |-> 0, retry |-> 0,
          max_retry |-> 0, completed |-> FALSE, cork |-> FALSE, timer |-> "none",
          timed_out |-> FALSE]

SendfileInit ==
  /\ sf_ctx = NoCtx
  /\ sf_req = [state |-> "idle", result |-> 0]
  /\ sf_close = [state |-> "none", calls |-> 0]
  /\ sf_conn = [state |-> "open", by |-> "none", fd |-> "own",
                keepalive |-> TRUE, reading |-> FALSE]
  /\ sf_headers = "none" /\ sf_wire = <<>> /\ sf_stray = <<>> /\ sf_len = 0

-----------------------------------------------------------------------------
(* Starting.                                                               *)

\* init_sendfile_config
InitConfig(size, chunk, retry) ==
  [NoCtx EXCEPT !.state = "live", !.size = size,
     !.max_retry = IF retry > 0 THEN retry ELSE DefaultRetry,
     !.chunk = IF chunk > 0 THEN chunk
               ELSE IF size < LargeFrom THEN SmallChunk ELSE LargeChunk]

\* The units of the file from a to b, as they stand on the wire.
Units(a, b) == [i \in 1 .. b - a |-> a + i - 1]

FsClose == sf_close' = [state |-> "queued", calls |-> sf_close.calls + 1]

\* send_file_chunked, the fallback: headers and chunks are handed to uv_write
\* in one go, with no response, so that nothing restarts reading.  If the file
\* is shorter than its stat said, fread fails and the handler's caller answers
\* 404 behind what was sent.
SendFileChunked(size, len, wire) ==
  IF len < size THEN wire \o <<HEADERS>> \o Units(0, len) \o <<NEXT>>
                ELSE wire \o <<HEADERS>> \o Units(0, size)

\* A file below the threshold is read at once and becomes the response's body,
\* which nobody sends here.
SmallFile(size) ==
  /\ size < Small
  /\ sf_ctx' = [NoCtx EXCEPT !.state = "freed"]
  /\ UNCHANGED <<sf_req, sf_close, sf_headers, sf_wire>>

\* Allocation, uv_fileno or open fails: what was allocated is freed, the
\* handler falls back.
StartFails(size, len) ==
  /\ size >= Small
  /\ sf_ctx' = [NoCtx EXCEPT !.state = "freed"]
  /\ sf_wire' = SendFileChunked(size, len, sf_wire)
  /\ UNCHANGED <<sf_req, sf_close, sf_headers>>

\* Building or writing the headers fails: the context goes with the file.
HeadersFail(size, chunk, retry, len) ==
  /\ size >= Small
  /\ sf_ctx' = InitConfig(size, chunk, retry)
  /\ FsClose
  /\ sf_wire' = SendFileChunked(size, len, sf_wire)
  /\ UNCHANGED <<sf_req, sf_headers>>

\* The headers are written, the socket corked, the timer armed and the first
\* chunk queued.
Started(size, chunk, retry) ==
  /\ size >= Small
  /\ sf_ctx' = [InitConfig(size, chunk, retry) EXCEPT !.cork = TRUE, !.timer = "armed"]
  /\ sf_req' = [sf_req EXCEPT !.state = "queued"]
  /\ sf_headers' = "queued" /\ sf_wire' = Append(sf_wire, HEADERS)
  /\ UNCHANGED sf_close

\* uv_fs_sendfile refuses the first chunk: timer and file are closed, and the
\* fallback sends headers a second time.
SubmitFails(size, chunk, retry, len) ==
  /\ size >= Small
  /\ sf_ctx' = [InitConfig(size, chunk, retry) EXCEPT !.cork = TRUE, !.timer = "closed"]
  /\ FsClose
  /\ sf_headers' = "queued"
  /\ sf_wire' = SendFileChunked(size, len, Append(sf_wire, HEADERS))
  /\ UNCHANGED sf_req

\* uvhttp_static_sendfile_with_config, called by the request handler, which
\* turns to send_file_chunked when it fails.
SendfileWithConfig ==
  \E size \in FileSizes, chunk \in ChunkConfigs, retry \in RetryConfigs,
     keepalive \in BOOLEAN, lost \in BOOLEAN :
    LET len == IF lost THEN size - 1 ELSE size IN
    /\ sf_ctx.state = "none" /\ sf_conn.state = "open"
    /\ sf_conn' = [sf_conn EXCEPT !.keepalive = keepalive]
    /\ sf_len' = len /\ UNCHANGED sf_stray
    /\ \/ SmallFile(size)
       \/ StartFails(size, len)
       \/ HeadersFail(size, chunk, retry, len)
       \/ Started(size, chunk, retry)
       \/ SubmitFails(size, chunk, retry, len)

-----------------------------------------------------------------------------
(* libuv's threads: a sendfile and a close.                                *)

Least(a, b) == IF a < b THEN a ELSE b

\* At the end of the file a sendfile sends 0; else at least a unit, or it fails.
\* The descriptor is a number: it belongs to whoever holds it now.
PoolSendfile ==
  LET most == Least(sf_ctx.chunk, sf_ctx.size - sf_ctx.offset) IN
  /\ sf_req.state = "queued"
  /\ \/ /\ sf_conn.fd # "free"
        /\ \E n \in 0 .. most :
             /\ (n = 0) = (sf_ctx.offset >= sf_len)
             /\ n > 0 => sf_ctx.offset + n <= sf_len
             /\ sf_req' = [state |-> "done", result |-> n]
             /\ LET sent == Units(sf_ctx.offset, sf_ctx.offset + n) IN
                IF sf_conn.fd = "own"
                THEN sf_wire' = sf_wire \o sent /\ UNCHANGED sf_stray
                ELSE sf_stray' = sf_stray \o sent /\ UNCHANGED sf_wire
     \/ /\ \E r \in {EAGAIN, EOTHER} :
             /\ sf_conn.fd = "free" => r = EOTHER
             /\ sf_req' = [state |-> "done", result |-> r]
        /\ UNCHANGED <<sf_wire, sf_stray>>
  /\ UNCHANGED <<sf_ctx, sf_close, sf_conn, sf_headers, sf_len>>

PoolClose ==
  /\ sf_close.state = "queued"
  /\ sf_close' = [sf_close EXCEPT !.state = "done"]
  /\ UNCHANGED <<sf_ctx, sf_req, sf_conn, sf_headers, sf_wire, sf_stray, sf_len>>

-----------------------------------------------------------------------------
(* Callbacks.                                                              *)

\* The timer is stopped and closed, never to be armed again: "restart timeout
\* timer" below it finds a closing handle every time.
StopTimer(t) == IF t = "armed" THEN "closed" ELSE t

Resend == sf_req' = [state |-> "queued", result |-> 0] /\ UNCHANGED sf_close

GiveUp == sf_req' = [state |-> "idle", result |-> 0] /\ FsClose

\* Queue the next chunk; uv_fs_sendfile may refuse it.
Continue == Resend \/ GiveUp

\* Mutant: retry_count is not incremented.
RetryUncounted(ctx) == ctx

\* An interrupted chunk, or one the socket had no room for, is sent again.
Retried(ctx) == [ctx EXCEPT !.retry = @ + 1]

\* Mutant: the chunk asked for is counted, not the part of it that was sent.
AdvancedByChunk(ctx, n) == ctx.offset + ctx.chunk

Advanced(ctx, n) == ctx.offset + n

\* on_sendfile_complete
OnSendfileComplete ==
  LET ctx == [sf_ctx EXCEPT !.timer = StopTimer(@)]
      sent == Advanced(sf_ctx, sf_req.result)
  IN
  /\ sf_req.state = "done"
  /\ \/ /\ sf_ctx.completed                     \* the timeout was first
        /\ sf_req' = [state |-> "idle", result |-> 0]
        /\ UNCHANGED <<sf_ctx, sf_close>>
     \/ /\ ~sf_ctx.completed /\ sf_req.result = EAGAIN /\ ctx.retry < ctx.max_retry
        /\ sf_ctx' = Retried(ctx)
        /\ Continue
     \/ /\ ~sf_ctx.completed /\ sf_req.result < 0
        /\ ~(sf_req.result = EAGAIN /\ ctx.retry < ctx.max_retry)
        /\ sf_ctx' = ctx /\ GiveUp
     \/ /\ ~sf_ctx.completed /\ sf_req.result >= 0 /\ sent >= sf_ctx.size
        /\ sf_ctx' = [ctx EXCEPT !.offset = sent, !.completed = TRUE, !.cork = FALSE]
        /\ GiveUp
     \/ /\ ~sf_ctx.completed /\ sf_req.result >= 0 /\ sent < sf_ctx.size
        /\ sf_ctx' = [ctx EXCEPT !.offset = sent]
        /\ Continue
  /\ UNCHANGED <<sf_conn, sf_headers, sf_wire, sf_stray, sf_len>>

\* on_sendfile_timeout
OnSendfileTimeout ==
  /\ sf_ctx.timer = "armed" /\ sf_ctx.state = "live" /\ ~sf_ctx.completed
  /\ sf_ctx' = [sf_ctx EXCEPT !.completed = TRUE, !.timer = "closing", !.timed_out = TRUE]
  /\ FsClose
  /\ UNCHANGED <<sf_req, sf_conn, sf_headers, sf_wire, sf_stray, sf_len>>

\* libuv finishes the uv_close of the timer.
TimerClosed ==
  /\ sf_ctx.timer = "closing"
  /\ sf_ctx' = [sf_ctx EXCEPT !.timer = "closed"]
  /\ UNCHANGED <<sf_req, sf_close, sf_conn, sf_headers, sf_wire, sf_stray, sf_len>>

\* on_file_close frees the context.
OnFileClose ==
  /\ sf_close.state = "done"
  /\ sf_close' = [sf_close EXCEPT !.state = "none"]
  /\ sf_ctx' = [sf_ctx EXCEPT !.state = "freed"]
  /\ UNCHANGED <<sf_req, sf_conn, sf_headers, sf_wire, sf_stray, sf_len>>

\* uvhttp_free_write_data for the headers, which were sent with the response:
\* the connection is closed, or made to read the next request.
HeadersWritten ==
  /\ sf_headers = "queued" /\ sf_headers' = "written"
  /\ sf_conn' = IF sf_conn.state = "closed" THEN sf_conn
                ELSE IF sf_conn.keepalive THEN [sf_conn EXCEPT !.reading = TRUE]
                ELSE [sf_conn EXCEPT !.state = "closed", !.by = "server", !.fd = "free"]
  /\ UNCHANGED <<sf_ctx, sf_req, sf_close, sf_wire, sf_stray, sf_len>>

-----------------------------------------------------------------------------
(* The surroundings.                                                       *)

\* The next request on the connection is answered.
NextAnswer ==
  /\ sf_conn.state = "open" /\ sf_conn.reading
  /\ sf_conn' = [sf_conn EXCEPT !.reading = FALSE]
  /\ sf_wire' = Append(sf_wire, NEXT)
  /\ UNCHANGED <<sf_ctx, sf_req, sf_close, sf_headers, sf_stray, sf_len>>

\* The client disconnects and the server closes its end.
PeerLeaves ==
  /\ sf_ctx.state # "none" /\ sf_conn.state = "open"
  /\ sf_conn' = [sf_conn EXCEPT !.state = "closed", !.by = "peer", !.fd = "free"]
  /\ UNCHANGED <<sf_ctx, sf_req, sf_close, sf_headers, sf_wire, sf_stray, sf_len>>

\* accept gives the number of the closed descriptor to a new connection.
FdReused ==
  /\ sf_conn.fd = "free" /\ sf_conn' = [sf_conn EXCEPT !.fd = "reused"]
  /\ UNCHANGED <<sf_ctx, sf_req, sf_close, sf_headers, sf_wire, sf_stray, sf_len>>

\* Another process shortens the file.
ShortenFile ==
  /\ sf_ctx.state = "live" /\ sf_len > 0 /\ sf_len' = sf_len - 1
  /\ UNCHANGED <<sf_ctx, sf_req, sf_close, sf_conn, sf_headers, sf_wire, sf_stray>>

SendfileLoop == PoolSendfile \/ PoolClose \/ OnSendfileComplete \/ TimerClosed
                \/ OnFileClose \/ HeadersWritten

SendfileNext == SendfileWithConfig \/ SendfileLoop \/ OnSendfileTimeout
                \/ NextAnswer \/ PeerLeaves \/ FdReused \/ ShortenFile

\* The thread pool works its queue off and the loop runs what is done.
SendfileFairness ==
  /\ WF_sendfileVars(PoolSendfile) /\ WF_sendfileVars(PoolClose)
  /\ WF_sendfileVars(OnSendfileComplete) /\ WF_sendfileVars(OnFileClose)

SendfileSpec == SendfileInit /\ [][SendfileNext]_sendfileVars

-----------------------------------------------------------------------------
(* Properties.                                                             *)

SendfileTypeOK ==
  /\ sf_ctx \in CtxType /\ sf_req \in ReqType /\ sf_conn \in ConnSt
  /\ sf_close \in [state : {"none", "queued", "done"}, calls : Nat]
  /\ sf_headers \in {"none", "queued", "written"} /\ sf_len \in Nat

\* How many of the first n things on a wire are units of the file.
UnitsIn(wire, n) == Cardinality({k \in 1 .. n : wire[k] >= 0})

\* What the client was given of the file is its beginning, each unit once and
\* in order, whatever was retried, sent in part or timed out: the offset that
\* on_sendfile_complete keeps and the bytes the kernel took never drift apart.
BodyInOrder ==
  /\ \A i \in DOMAIN sf_wire : sf_wire[i] >= 0 => sf_wire[i] = UnitsIn(sf_wire, i - 1)
  /\ \A i \in DOMAIN sf_stray : sf_stray[i] = UnitsIn(sf_wire, Len(sf_wire)) + i - 1

\* The input file is closed once: a timeout and a completion, a failed chunk
\* and a failed resend never both reach uv_fs_close (the second would close
\* whatever holds the number by then, and free the context again).  And
\* on_file_close frees the context with a chunk in the pool or the timer still
\* closing only after on_sendfile_timeout; every other path waits for both.
ReleasedAtMostOnce ==
  /\ sf_close.calls <= 1
  /\ sf_ctx.state = "freed" =>
       (sf_req.state = "idle" /\ sf_ctx.timer # "closing") \/ sf_ctx.timed_out

\* Every transfer gives file and context back, once, however often the socket is
\* full: the retries of on_sendfile_complete are bounded over the whole file.
\* Only a file shortened under the transfer keeps it sending nothing for ever.
FileReleased ==
  /\ []ReleasedAtMostOnce
  /\ sf_ctx.state = "live" ~> sf_ctx.state = "freed" \/ sf_len < sf_ctx.size

=============================================================================
