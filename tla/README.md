# uvhttp: a TLA+ verification project

uvhttp is an HTTP/1.1 and WebSocket server library in C on top of libuv, llhttp
and mbedtls. All of a server runs on one libuv loop, so there are no data races;
what is hard is that one struct per connection, one request object, one response
object, three libuv handles and a pending write are shared by a dozen callbacks
whose order is decided by libuv, by the peer and by the embedding program. This
project models those callbacks, checks them with TLC on small instances, and
proves the central invariants with TLAPS for every number of connections, paths
and limits.

Source paths below are relative to the repository root.

## 1. Inventory of the system

| Component | Files | State it keeps | Operations | Status |
|---|---|---|---|---|
| Connections, accept path | `src/uvhttp_connection.c`, `src/uvhttp_server.c` | per connection: `state`, `close_pending`, idle/timer/tcp handles, current read callback, writes in flight, `ws_connection`; per server: `active_connections`, `is_listening`, the listening handle | `on_connection`, `on_read`, `uvhttp_connection_close`/`free`/`restart_read`/`schedule_restart_read`, `on_handle_close`, `connection_timeout_cb`, WebSocket switch and close, server stop and free | `Connection` |
| Request/response exchange | `src/uvhttp_request.c`, `src/uvhttp_response.c` | request (URL, headers, body, `parsing_complete`), response (`sent`, `keepalive`), parser position | llhttp callbacks, `on_message_complete`, `uvhttp_response_send`, write completion, restart | `HttpExchange` |
| LRU cache of static files | `src/uvhttp_lru_cache.c` | hash table, doubly linked list, `total_memory_usage`, `entry_count`, limits, clock | find, put, remove, clear, priorities, prewarm, force_eviction, cleanup_expired, setters | `LruCache` |
| Body and header limits | `src/uvhttp_request.c` | body buffer and capacity, header table | `on_body`, `uvhttp_request_add_header`, restart | `RequestLimits` |
| Rate limiter | `src/uvhttp_server.c`, `src/uvhttp_request.c` | window start, counter, whitelist twice (array and hash table) | check, enable, disable, status, reset, whitelist | `RateLimit` |
| WebSocket connection manager | `src/uvhttp_server.c` | node list, `last_activity`, `ping_pending`, two timers | add, remove, heartbeat, timeout sweep, broadcast, close_all, enable, disable | `WsSession` |
| WebSocket frames | `src/uvhttp_websocket.c` | receive buffer, fragment buffer, frame state | build, send, parse, reassemble, control frames, recv_frame | `WsFrame` (bytes to frames), `WsSession` (frames to messages); handshake hashes are not modelled |
| Protocol upgrade registry | `src/uvhttp_protocol_upgrade.c`, `src/uvhttp_request.c` | ordered list of protocols, connection ownership | register, unregister, choice of a protocol, ownership transfer | `Upgrade` |
| Gzip cache | `src/uvhttp_gzip_cache.c` | slots, memory total, limits | find, put, evict, expire, clear, setters | `GzipCache`, used by `Response` |
| Response building | `src/uvhttp_response.c` | header table, body, compression settings | set_header, set_body, build, compress, send, reset | `Response` |
| Router | `src/uvhttp_router.c` | route array or trie in a node pool, static prefix and context, fallback | add (also static, binary, fallback), migrate, find, match | `Router` |
| Router cache | `src/uvhttp_router_cache.c` | hash table of routes, static prefix, fallback, binary routes (the router of builds with `UVHTTP_FEATURE_ROUTER_CACHE`) | add, grow, find, match | `RouterCache` |
| Static files | `src/uvhttp_static.c` | cache entries, validators, sendfile contexts | handle_request, prewarm, setters; chunked sendfile with retries and timeout | `StaticFiles`, `Sendfile`; path strings and listings by their outcome |
| Configuration, context | `src/uvhttp_config.c`, `src/uvhttp_context.c`, `src/uvhttp_server.c` | who holds configurations, contexts, routers, TLS contexts | new, set_*, create, listen, stop, free | `ServerSetup` (ownership); range checks are not modelled |
| TLS | `src/uvhttp_connection.c`, `src/uvhttp_tls.c` | cipher and plaintext buffers, mbedtls record in progress | read and write through mbedtls | `TlsInput`, `TlsOutput`, and its effect on connections in `Connection`; option setting in `uvhttp_tls.c` is not modelled |
| Errors, utilities, version | `src/uvhttp_error.c`, `src/uvhttp_utils.c` ... | none that matters | tables, formatting, logging | not modelled |

**Interactions.** `on_connection` builds a connection, accepts and counts it, and
starts its read and its one-shot timeout. `on_read` decrypts, runs llhttp, and
llhttp's `on_message_complete` runs the rate limiter, an upgrade, the router or
the static files, synchronously; any of them may call `uvhttp_response_send`. A
plain response is a `uv_write` whose callback, `uvhttp_free_write_data`, closes
the connection or schedules the restart of the read through an idle handle; over
TLS the same happens before `uvhttp_response_send` returns. The restart recycles
request, response and parser. An upgrade hands the socket to
`on_websocket_read` and registers it with the WebSocket manager. A close closes
three handles and the last of their callbacks frees the struct and decrements
the server's counter.

**What is hard.** The order of write completion, idle restart, read, timeout,
upgrade and close callbacks; a second close while a close is in progress;
failures half-way through building a connection; a counter that is unsigned;
TCP cutting requests anywhere; pipelined requests that share one response; list
pointers and three counters that have to agree after every sequence of cache
calls; an eviction loop whose end depends on the data. `PROJECT.json` lists the
hazards line by line with the properties that cover them.

**What makes the components correct.** Connections: the memory of a connection
is released exactly once, after libuv's last reference to it; the counter equals
the connections that exist; every connection ends. Exchange: a handler sees what
the client sent, the client sees one answer per request in order. Cache: the
list, the hash table and the counters agree, limits hold, the least recently used
entry goes first, calls return. WebSockets: messages arrive whole, the user is
told of the end once and hears nothing after it, the manager's nodes lead to
sessions that exist, silent sessions are closed and others are not. Router: a
lookup finds a registered route that fits, in array, trie and hash-table mode, and
a new route disturbs no other. Static files: a client is not told that an old
version is current, a transfer sends each byte once and gives its file back.
Responses: length and encoding declared are those of the body. Limits: neither
bodies, headers nor requests per window exceed them. TLS and frames: bytes come
out as they went in, however TCP cuts them. Set-up: every object is freed once.

## 2. Modules

### Connection

One action is one libuv callback, which is atomic because the loop is
single-threaded. A connection struct is a record of `conn`; the C functions that
change it (`Close`, `Free`, `RestartRead`, `ScheduleRestartRead`, `Send`,
`SendRaw`, `AfterResponse`, `Handshake`, `SwitchToWebsocket`, `WebsocketClose`,
`Upgrade`, `FreeResources`) are operators from records to records, so a handler
that calls several of them is their composition, in the order of the code: for
instance the failing upgrade is `Send(Close(Handshake(Send(...))))`.

| Model | Code |
|---|---|
| `conn[c].mem` | the struct: not allocated, allocated, freed by the last close callback, or freed directly by an error path of `uvhttp_connection_new` ("discarded") |
| `tls` | `conn->tls_enabled`, copied from the server when the connection is made; `TLSModes` are the values the server's flag takes (`uvhttp_server_enable_tls`, `disable_tls`) |
| `state`, `close_pending`, `handle` | `conn->state`, `conn->close_pending`, and each handle as libuv sees it |
| `idle`, `timer`, `reading` | whether the idle handle and the timeout timer are started, and which callback reads |
| `writes`, `sent`, `keepalive`, `deferred` | unfinished `uv_write`s, `response->sent`, `response->keepalive`, a handler that answers later |
| `ws`, `managed` | `conn->ws_connection` and whether the manager has a node for it |
| `counted` | history: `on_connection` incremented the counter for this struct |
| `active_connections` | a `size_t`: 0 minus 1 is `SizeMax` |
| `temp` | the temporary clients that get a 503 |

`Env` chooses which failures a run includes. libuv itself is external and stated
in the header of the module: `uv_close` leaves only the close callback and the
cancelled write callbacks, which come first; an idle handle may be started while
it is closing; reads and writes fail on a closing handle; a connection callback
that does not accept leaves the listener stopped.

`ConnLifecycle` is the abstract specification: unused, open, closing, released,
at most `Limit` at a time, each finishing. `ConnectionRefines` maps
`conn[c].mem` and `state` to it.

### HttpExchange

One connection, byte by piece: a request is seven pieces, so that the URL, a
header value and the body can each be cut in the middle. The llhttp callbacks
(`OnUrl`, `OnHeaderField`, `OnHeaderValue`, `OnBody`, `OnMessageComplete`) fill
the one request object as the code does (`OnUrl` overwrites, `OnBody` appends).
The loop goes round in libuv's order: finished writes, idle, poll, events; this
order is what keeps a waiting client's exchange correct, so it is modelled and
not left open. A handler may answer, answer twice, or keep the response and
answer from a later callback. `setup` fixes for a behaviour whether the server
uses TLS, whether the client pipelines, whether reads cut fields, and from which
phases handlers answer. `Orderly` names the exchanges the one request/response
pair can serve.

### LruCache

The cache at the level of its pointers: `lru_head`, `lru_tail`, `lru_prev`,
`lru_next` are assigned by `Unlink`, `RemoveTail`, `PushHead` and `MoveToHead` as
in the C code, including the wrong unlink of `cleanup_expired`
(`CleanupUnlink`) and the entry that stays behind when its content cannot be
allocated (`PutNoContent`). The calls with a loop (put, force_eviction,
cleanup_expired) take one action per iteration; `op` holds their locals.
`RecencyList` is the abstract specification, a sequence ordered by recency;
`LruCacheRefines` maps the pointer list to it. `Env` says whether allocations may
fail and cleanup_expired is called; `SoundSpec` is the specification without
either, `Spec` the one with them.

### WsSession

WebSocket sessions from the handshake to the release, and the manager's node
list. `ws[c]` is a session: `mem` the `ws_connection` struct, `tcp` the HTTP
connection underneath, `state` the WebSocket state, `wrapper` its `user_data`,
`fragment` the pending fragments (`alloc` is `fragmented_message != NULL`),
`node` its entry in the manager. A step is one frame of `on_websocket_read`
(`Frame`: `ProcessFrame` and, when it fails, `WsClose` and `WebsocketClose`), the
end of the stream, an embedder's `uvhttp_server_ws_close`, a timer or a manager
call. `Disable` and `Disabled` are two steps because the code runs the event loop
between emptying the manager and freeing it. `delivered` and `closed` record the
user's callbacks, `peer` what the peer meant by its frames; neither influences a
step. Ages stand for time stamps and are capped above every value that can
occur (`TypeCorrect` and `SilentSessionsSwept` show that the cap is never
reached while it matters). Incomplete frames only wait in `recv_buffer`, so one
step takes one whole frame; every header or size error is the frame "bad".

### Router

One action is one call; lookups change nothing and are operators. A path is the
sequence of its texts between slashes, so that the array's `strcmp` (which tells
`/a` from `/a/`) and the trie's `strtok` (which does not) differ as in the code.
`node_pool` is the pool with child indices; `FindOrCreateChild` compares the
stored text only, `CreateChild` cuts it to 31 bytes (`Truncated`) and may fail to
grow the pool (`Caps`), `Insert` overwrites method and handler of the node at
the end of a path, `MigrateAndAdd` is `migrate_to_trie` followed by the new
route. `array_mem = "freed"` is the array after a migration that failed: the code
keeps the pointer and goes on in array mode; the model shows what a lookup then
reads as `Undefined` and follows the router no further. A colon inside a
text (`ColonNames`) counts for `HasParams`, as `strchr` does, and makes no
parameter. Every registration
brings a handler of its own, so that a wrong handler is always seen. `Fits` is
the reference matcher. `Orderly` names the sets of routes that the trie keeps
apart: different texts, no name that is a parameter in one route and literal in
another at the same place, no segment over 31 bytes, no empty segment. A path whose
registration failed (`refused`) counts here as well, because its nodes stay.
`NodeAnswer` is what one node makes of the answers of its children.

### Sendfile

One transfer by the asynchronous sendfile. `sf_ctx` is the `sendfile_context_t`,
`sf_req` its request in libuv's thread pool, `sf_close` the request that closes
the input file, `sf_conn` the connection with its descriptor, `sf_wire` and
`sf_stray` what reached the client or whoever has its descriptor now. Beside the
callbacks (`OnSendfileComplete`, `OnSendfileTimeout`, `TimerClosed`,
`OnFileClose`, `HeadersWritten`) there are the pool (`PoolSendfile`, which may
send a part, find the socket full, or fail), the peer that leaves, the reuse of
its descriptor, and another process that shortens the file.

### StaticFiles

`HandleRequest` (lookup and stat), `ReadContent` and `CacheAndSend` are the steps of
`uvhttp_static_handle_request` between which the disk may change: `st_disk` has the versions of each
page with their modification times, `st_cache` what was cached of them, `st_req`
the request in progress, `st_ans` the last answer, `st_bufs` and `st_leaked` the
buffers. Validators are built from the stat and used with the read, as in the
code. Sizes are chosen against the thresholds for precompression and sendfile.

### Response and GzipCache

`GzipCache` has the cache as a value and its operations as functions of it;
`Response` owns one (`rs_gzip`) beside the response object `rs` and the last
message sent `rs_out`. The order of the last uses of entries is kept as a
relation (`older`), so that the victims of an eviction are a set and no clock
values have to be compared. `Compressed` and `Message` are `uvhttp_response_build_data`:
the cache lookup, compression and the store, then the headers, built a second time
when they outgrow the first buffer. Handlers may set headers, body, status and
compression in any order and send more than once.

### RateLimit and RequestLimits

`RateLimit`: `rl` is the `rate_limit_*` fields, `rl_list` and `rl_hash` the two
copies of the whitelist, of which an addition may fail between one and the other;
`rl_array` is where the array's pointer leads, `rl_log` is history. An addition that
fails at the copy of the address or at the item of the table rolls the array back
with a `realloc`; for the first address this is one to 0 bytes, which leaves the
pointer dangling with the system allocator (`RolledBack`). What a further addition
does with it is not followed; the limiter itself goes on. `RequestLimits`: `body` and `table` are the lengths and
capacities of the body buffer and the header table, `refused` the length for
which the parser was stopped. It is integer arithmetic only, and proved.

### RouterCache

The hashed router: `rc_table` is the open-addressing table, probed and resized
slot by slot as in the code; `rc_static`, `rc_binary`, `rc_binaries` and
`rc_fallback` are the routes outside it. `rc_crashed` marks the write to
`entries[UINT32_MAX]` that a full table of the largest size leads to. Additions may
fail for want of memory; a static route that does so has lost the prefix of the one
before it and keeps its context.

### Upgrade

`up_reg` is the registry as a sequence from its head, `up_conn` the connection a
request arrives on and `up_last` that request, who took it and what was sent.
The choice in `on_message_complete` (first the protocols with a matching Upgrade
header, then those without one, then the router) and the transfer of the socket
are modelled with their failures.

### ServerSetup

`su_mem` says of every router, configuration, context and TLS context whether it
is unused, the application's, held by a server or context, or freed; `su_twice`
collects what is freed again. Actions are the calls an application makes,
`uvhttp_server_create` with each of its failures included.

There is one rule under which the code frees everything once: the application hands
an object over once and does not free it afterwards. It is not in the documents,
and one of them and an example depart from it, so that it is no guard of the model:
`su_mine` is what the application made and has not freed itself, which it may free
or hand over whoever holds it (one that keeps to the rule does neither, and nothing
is remembered for it), and `su_strayed` records how it departed from the
rule. `SetupFreedOnce` has `su_strayed = {}` as its premise. The constant `Habits`
says which departures a run includes. `services` has none, because behind a
departure `SetupFreedOnce` claims nothing; `setup_docs` has the two of the
documents and expects a violation; the proofs are for all of them.

### TlsInput and TlsOutput

`TlsInput` is the path from the socket over `tls_cipher_buf` and mbedtls
(external: it collects a record and hands out its plaintext) to the parsers, in
the two loops of `on_read` and `on_websocket_read`. `TlsOutput` is
`uvhttp_connection_tls_write` against a socket that takes any part of a record;
mbedtls keeps the rest and expects the same bytes again.

### WsFrame

Bytes between `uvhttp_ws_build_frame` and `uvhttp_ws_process_data` or
`uvhttp_ws_recv_frame`: `wf_sent` and `wf_got` are the frames, `wf_wire` and
`wf_recv` the bytes under way and in the receive buffer. Headers, length codes,
masks, the doubling of the buffer and the frame loop are as in the code. The one
assumption about payloads is that a length has at most 63 bits (`Shifted(n, 7)`,
its top byte, is below half of `ByteValues`): no longer payload can be in memory.
A peer sends frames that RFC 6455 allows (`Legal`) and frames with one flaw: a
reserved bit, a reserved opcode, the mask bit of the other end, a 64-bit length with
its top bit set, or one in a longer form than needed. `Tolerated` names the illegal
frames that `uvhttp_ws_process_data` takes all the same: reserved opcodes, overlong
lengths, and masked frames at a client.

### MCStreams, MCIncoming and MCServices

Components that share no state are put together in three modules, in which `part`
chooses the one a behaviour is of: `MCStreams` has `Connection` and `WsFrame`,
`MCIncoming` `Connection` with its refinement and `Router`, `MCServices` the modules
from `Sendfile` to `TlsOutput` and `LruCache` with its faults. Both instances of
`Connection` are needed: failed accepts and a freed server are in the first, failed
allocations and refused clients in the second.

### Proof modules

`ConnectionProofs`, `HttpExchangeProofs`, `LruCacheProofs`, `WsSessionProofs`
(sessions and frames), `RouterProofs` (both routers), `ServerProofs` (request
limits, rate limiter, set-up, upgrades and TLS), `ContentProofs` (static files,
sendfile, responses and the gzip cache) and `SumFacts` (least elements, minimal sets and sums, for the
others), see section 5.
`MCRouter` defines the paths of the router's runs. `MCConnection` adds the
symmetry of connections and of temporary clients (no definition tells two of
them apart) for the runs without liveness.

## 3. Runs

| Run | Checks | States |
|---|---|---|
| `streams` | connections: `CloseAccounting`, `NoDanglingCallback`, `OneExchangeAtATime`, `CloseResponseHonoured` on two connections, each plain or TLS, with failing I/O and `uv_accept`, upgrades, deferred answers and `uvhttp_server_free`; frames: `FramesWhole` (the receiver gets the frames sent, in order and unmasked, however they are cut; no legal frame is rejected, and no illegal one taken but those of `Tolerated`) | 844,000 and 229,000 |
| `incoming` | connections: `ConnectionLimit`, `RefusedOnlyAtLimit` (a 503 only at the limit, and its client released), refinement of `ConnLifecycle` with its fairness (every connection ends), with one slot for two clients, plain or TLS, and failing I/O and allocations; router: `TrieOK`, `FindsWhatFits` (the right handler and its parameters), `AddKeepsOthers` for any four registrations | 215,000 and 525,000 |
| `http` | `DispatchFaithfulIfOrderly`, `AnswersInOrder` (for orderly exchanges all answers, for every exchange none twice), `RestartBetweenRequests` (the request, and for every exchange the response, is recycled only when it is done with), `EveryRequestAnswered` | 169,000 |
| `lru` | `LinksOK`, `MemoryOK`, refinement of `RecencyList` (the list is complete and the oldest unprotected entry is evicted), `PutWithinLimits`, `CallsReturn` on three paths | 550,000 |
| `ws` | `NodesValid`, `NotifiedOnce`, `MessagesWhole`, `IdleBounded`, `PingBounded`, `CompliantPeerKept` on two sessions, one of whose peers sends any three frames | 2,956,000 |
| `services` | fourteen properties of eleven components, see below | 811,000 |
| `conn_ws_leak` | violated: a timeout, or the embedder's close, of an upgraded connection frees the struct and leaves `ws_connection` and its manager node | |
| `http_split` | violated: a URL that arrives in two reads loses its first part | |
| `lru_cleanup` | violated: expiry of an end of the list leaves head or tail on freed memory | |
| `ws_pong` | violated: the heartbeat closes a session whose peer answered the ping, because only a data message clears `ping_pending` | |
| `router_migrate` | violated: of GET and POST on one path the trie keeps the one registered last | |
| `setup_docs` | violated: a router that the caller frees after the server, as documented, was freed by the server; with `Habits = {"shared"}` in its cfg, a configuration of the server that is also published through its context is freed by both | |

The properties of `services`:

| Property | Module | Says |
|---|---|---|
| `CountOK` | `LruCache` | the entry count is that of the hash table, also after failed allocations and cleanup_expired |
| `BodyInOrder` | `Sendfile` | what the client gets is the start of the file, each unit once, over partial sends, retries and timeouts |
| `FileReleased` | `Sendfile` | every transfer closes its file and frees its context, once, unless the file is shortened under it |
| `ReadsConsistent` | `StaticFiles` | a file read at once is described as it was read and its buffer given back |
| `FreshWithinTTL` | `StaticFiles` | a 200 or 304 never confirms a version older than `cache_ttl` allows |
| `ResponseFramed` | `Response` | body, Content-Length and Content-Encoding of a message belong together, within named exceptions |
| `GzipAccounting` | `Response` | the gzip cache's total is exact and within its budget but for one overhead |
| `RateLimitOK` | `RateLimit` | no more than the limit is counted and let through in a window; both copies of the whitelist list the same addresses, also after a failed addition, and the array is allocated while an address is listed |
| `WithinLimits` | `RequestLimits` | bodies and headers fit their buffers and limits; a body refused is longer than half the limit |
| `RoutesFound` | `RouterCache` | a lookup returns a route that fits, the path's own before a pattern, and nothing only if none fits |
| `RcAddKeepsOthers` | `RouterCache` | a new route, also one that makes the table grow, changes no answer it does not fit |
| `UpgradeOK` | `Upgrade` | one protocol takes a request, the one the order of registration says, and the client gets one answer |
| `SetupFreedOnce` | `ServerSetup` | if the application keeps to the rule, each object has one holder and is freed with it, once |
| `PlaintextInOrder` | `TlsInput`, `TlsOutput` | TLS loses, repeats and reorders nothing in either direction |

No run repeats what is proved for all values and would only restate it: `TypeOK`,
`ClosingIsFinal` and `ReleasedOnce` of `Connection`, `TypeOK` and
`SilentAfterClose` of `WsSession`, `ArrayFits` of `Router`.

The mutants in `PROJECT.json` replace one definition by a plausible mistake (a
dropped re-entry guard, a handle closed but not counted, a missing duplicate-send
check, a forgotten reset, an off-by-one limit, a list removal that forgets the
tail); each property is violated by at least one.

**Bounds, and why they are enough.** Connections interact only through
`active_connections`, the limit and the listener, so two of them, with a limit of
two (`streams`) or one (`incoming`), show every interaction; the proofs remove the
bound. Refused clients are in `incoming` only: they touch no connection. A struct is used once, so every run is finite
without cutting counters. `SizeMax = 4` is larger than any legal count and small
enough to see the wrap-around. Three requests show a request after a recycled
one after a fresh one, and a third that could take the second's answer. Three
paths are the smallest list with an inner element; the sizes 2, 3 and 8 against
a limit of 8 (of which put uses 90%) make entries that fit together, that force
evictions, and that never fit. `MaxTime` lets an entry expire and be stored
again. `SizeMod = 64` is beyond every sum the runs reach, so that only a
subtraction too many can wrap. WebSocket sessions meet only in the manager's list and
counter, so two show every interaction; three frames are a first fragment, a
frame in between and a last fragment, and one peer sends them (`Talkers`)
because frames of two sessions do not interact. `Timeout = 2`, `Heartbeat = 1`
and `PingTimeout = 1` let sweep and heartbeat fall together and apart.
For the router `HYBRID_THRESHOLD`, `MaxChildren` and `PoolSize` are 2 instead
of 100, 12 and 64, so that four registrations fill the array, migrate, fill a
node, grow the pool twice and add to the trie; the paths are chosen so that
routes overlap at the first and at the second segment.
In `services` the thresholds of the code are a few units, each with inputs on both
sides of it. A file of 4 units with chunks of 1, 2 or 3 ends with a whole and with
a short chunk, and is retried once too often. Two versions of a page and three
seconds let an entry be stale, expire and be stored again, and sizes 3 and 4 with
a `.gz` of 2 reach every way of sending. Two bodies against a gzip cache of one or
two entries and 4 units of memory replace and evict each other; two headers fill
the response's table. Windows of 2 and 3 in 6 units of time run out twice. Pieces
of up to 13 against `MaxBody = 12` pass the limit at once and by doubling. The hash
table of 4 slots grows to 5 with six routes (more than it holds) whose hashes
collide and wrap around. Three registrations pass `MaxProtocols = 2`. Two
objects of a kind allow each to be replaced; a server has one context. Records of 1, 3 and 7 are below, at and
above `ReadSize = 3`. Payloads of 0, 2, 4 and 19 have each of the three length
codes and pass `MaxFrameSize`. Local time east of Greenwich (`Zones = {1}`) is
where `FreshWithinTTL` holds with the code's time conversion, see section 4.
`CHECK_DEADLOCK FALSE` is used for connections, the router, frames and `services`: a
stopped server whose connections are gone, an embedder that has made its
`MaxCalls` registrations, and a peer that has sent its last record have nothing
to do.

**Fairness.** `Connection`: weak fairness of write completions, idle callbacks,
the timer and close callbacks, which libuv runs when they are due; a client or a
handler owes nothing. Timers: the one-shot timeout is never stopped but by a
close, so it fires. `HttpExchange`: the loop goes round (weak); a readable or
writable socket is eventually reported and handlers that keep a response
eventually answer (strong, because each of these is possible only in one phase
of a round). `LruCache`: a call that was made is executed (weak). `Sendfile`: the
thread pool works its queue off and the loop runs the completion and close
callbacks (weak); a timeout may come or not.

## 4. What the model shows of the code

Six disagreements between the code and its comments or documents have a run of
their own and are listed as findings. The same models describe others, which
have no run:

- An idle restart scheduled before an upgrade is not stopped by it
  (`uvhttp_response.c:836-840` says plain reads must not come back).
- `uvhttp_connection_new` frees a struct whose handles are already on the loop's
  queue (`NewFails`; `NoDanglingCallback` is proved without failed allocations).
- `on_connection` returns without `uv_accept` when an allocation fails, which
  stops the listener (`accept_blocked`).
- A connection whose `uv_accept` failed was never counted, but `on_handle_close`
  uncounts it: `active_connections` wraps to `SIZE_MAX` and every later client
  gets a 503 (`AcceptFails`; `ConnectionLimit` is proved without it, and
  `docs/spec/server-api.md:96` promises a 503 at the limit only).
- `uvhttp_server_free` closes no connection, though `docs/spec/server-api.md:46`
  says remaining connections are cleaned up.
- A pipelined request dispatched before the restart is never answered, its
  predecessor's `sent` flag swallows the answer (`AnswersInOrder` is stated for
  orderly clients).
- A failed content allocation leaves an entry in the hash table that is not on
  the list, against the comment at `uvhttp_lru_cache.c:500`.
- A put into a cache full of protected entries does not return (`CallsReturn`
  names the exception).
- `remove_lowest_priority` never compares priorities
  (`uvhttp_lru_cache.h:260`); the refinement of `RecencyList` states what it does.
- An empty first fragment leaves `fragmented_message` NULL, so the continuation
  that follows is refused as a protocol error (`Meant` sets such a peer apart).
- A sweep, `close_all`, `disable` or a late ping sends a Close frame and forgets
  the session; nothing closes the TCP connection if the peer does not.

- A migration that fails, for which thirteen routes with different first segments
  and one parameter suffice, frees the array and leaves the router reading it
  (`MigrateAndAdd`).
- The trie also loses a literal segment registered beside a parameter of the same
  name, and every route with a segment of 32 bytes or more (`FindOrCreateChild`,
  `CreateChild`). The documented threshold is 8 routes
  (`docs/spec/router-api.md:78`), the code's is 100.
- A registration that fails in the trie (a node with 12 children, no memory) leaves
  the nodes it created. If one of them is a parameter, a literal segment of the same
  name that is registered later takes it over and answers every segment there:
  `refused` and its part in `Orderly` are there because `FindsWhatFits` is false
  without them, which the proof of it brought to light.
- The fallback answers through `static_file_handler_wrapper`, which looks at
  `static_context` only: without a static route the fallback is a 404, against
  rule 7 of `docs/spec/router-api.md`. A binary route and a static route
  overwrite each other's `static_context`.
- `uvhttp_router_match` ignores the static prefix in trie mode and the fallback
  always (`Match`), and the parameters it reports have empty names: the loop at
  `uvhttp_router.c:430` looks for a slash in a token that has none.
- The `*` wildcard of `docs/spec/router-api.md:82` does not exist: both routers take
  it for a literal segment, as the model does with every text.

Transfers of files (`Sendfile`):

- The timer is closed in the first completion, so that "restart timeout timer"
  (`uvhttp_static.c:1737`) never happens, though `docs/spec/static-api.md:198`
  says the timeout is enforced. When it does fire, the context is freed while its
  request may still be in the pool.
- A file that is shortened under a transfer makes sendfile return 0 for ever.
- A failed transfer leaves the connection open; the next answer of a kept-alive
  connection can come between two chunks; with `Connection: close` the header
  write's completion closes the connection under the transfer, whose descriptor
  may then belong to another client. Over TLS the body would be plain text.

Static files (`StaticFiles`):

- The 304s decided after the stat or the read, and directory listings, are set and
  not sent (`docs/spec/static-api.md:32`); 403, 413 and 500 become 404.
- `mktime` reads the client's GMT date as local time (`uvhttp_static.c:873`): west
  of Greenwich an old version can be confirmed with 304.
- A large `.gz` goes out by sendfile as `application/gzip` without an encoding.
  `uvhttp_static_prewarm_cache` keeps its buffer, and stores under a key that a
  root written in a non-canonical way does not find again.

Responses and limits (`Response`, `RateLimit`, `RouterCache`):

- A full header table sends a compressed body without saying so; a failed
  build leaves its Content-Encoding; `uvhttp_response_set_header` appends a second
  header of the same name; a send that fails leaves `sent` set; after a restart the
  status is 0.
- If the headers of a compressed response outgrow the first buffer,
  `uvhttp_response_build_data` gives `body_length` back before it builds them again
  (`uvhttp_response.c:700`, `:716`), so that Content-Length is the uncompressed
  length, against the comment at `:682`. `ResponseFramed` excepts this case
  (`rs_out.spilled`); without the exception TLC finds it.
- The gzip cache makes room for the compressed bytes of an entry and not for the
  overhead it then adds (`uvhttp_gzip_cache.c:187`), so that its total exceeds
  `max_memory_usage` by up to one overhead. `uvhttp_gzip_cache.h:42` calls it the
  maximum the cache may hold, and `docs/guide/CHANGELOG.md:26` says the guarantee is
  no longer approximate. `GzipAccounting` allows for the one overhead.
- The rollback of a first whitelisted address that could not be added is a
  `uvhttp_realloc` to 0 bytes (`uvhttp_server.c:1238`, `:1255`): the system's
  allocator frees the array and returns NULL, and `rate_limit_whitelist` keeps the
  old pointer, which the next addition reallocates (`:1224`) and
  `uvhttp_server_free` frees (`:433`), against "fallback: resume original array size"
  (`:1236`). The model has the pointer dangle (`rl_array`) and does not follow it
  further; mimalloc returns a block, and nothing is wrong.
- One counter serves all clients, `reset_client` resets it for everyone, and an
  IPv6 address on the whitelist is cut to 15 characters in the hash table.
- Growing the hash table can change which of two fitting routes wins (GET or ANY);
  a full table of the largest size is written at `UINT32_MAX`; a binary route
  overwrites the context of a static route, and a static route that cannot be
  allocated drops the prefix of the one before.

Upgrades and set-up (`Upgrade`, `ServerSetup`):

- `HTTP_PROCESSING` is set at `uvhttp_connection.c:1427` only, so
  `uvhttp_connection_transfer_ownership` fails in an upgrade handler unless the
  application sets the state (`docs/spec/protocol-upgrade.md:91`); the life cycle's
  `on_close` is never called (`:53`).
- Setters other than that of the TLS context leave what they replace to an
  application that may no longer know it.

TLS and frames (`TlsInput`, `TlsOutput`, `WsFrame`):

- When `on_read` fills `read_buffer`, decrypted bytes wait in mbedtls until more
  ciphertext arrives; `on_websocket_read` reads on. Large records can fill
  `tls_cipher_buf`, which closes the connection.
- A `uvhttp_connection_tls_write` that gives up after 200 retries leaves its record
  in mbedtls, and the next write would lose its own first record.
- A short `send` is reported as success with a frame cut off;
  `uvhttp_ws_recv_frame` loses what it read when a later read is short, and checks
  neither reserved bits nor masks.
- `uvhttp_ws_process_data` takes frames with reserved opcodes, of which nothing
  comes, and lengths that are not in their shortest form (RFC 6455, 5.2). It looks
  at the mask on the server's side only (`uvhttp_websocket.c:910`), so that a client
  takes masked frames, against `docs/spec/websocket-api.md:81`.

WebSocket allocations are taken to succeed, except that of a manager's node:
`uvhttp_ws_close` without 128 bytes of memory changes nothing at all, and then a
late ping would stay pending.

## 5. Proofs

**`ConnectionProofs`**, for any set of connections, any limit and all faults
unless said otherwise. Inductive invariant `Inv`: the server variables have their
types, and every struct is unused (`NoConn`), live (`LiveOK`), or dead with its
handles accounted for. `CloseAccounting` alone is not inductive: that a late
callback cannot revive a closing connection needs that nothing is started on it
any more, and that the release finds no write in flight needs that `writes = 0`
once the TCP handle is closed; `LiveOK` adds both, and `OneExchangeAtATime`. One
lemma per C function shows that it maps a live struct to a live struct and keeps
CLOSING (`CloseLive`, `SendLive`, `UpgradeLive`, ...); the callbacks follow by
composition.

| Theorem | Statement | Assumption |
|---|---|---|
| `TypeCorrect` | `Spec => []TypeOK` | |
| `CloseAccounted` | `Spec => []CloseAccounting` | |
| `ExchangesSerialised` | `Spec => []OneExchangeAtATime` | |
| `ClosingStaysClosing` | `Spec => ClosingIsFinal` | |
| `ReleaseIsLast` | `Spec => ReleasedOnce` | |
| `NothingDangles` | `Spec => []NoDanglingCallback` | no failed allocation |
| `LimitRespected` | `Spec => []ConnectionLimit` | no failed `uv_accept` |
| `RefusalIsJustified` | `Spec => RefusedAtLimit` (the safety part of `RefusedOnlyAtLimit`) | no failed `uv_accept` |
| `CloseIsHonoured` | `Spec => CloseResponseHonoured` | |
| `ImplementsLifecycle` | `Spec => Lifecycle!Safe` (the refinement without fairness) | no failed `uv_accept` |

The assumptions are needed: with a failed allocation or accept the code breaks
the property (section 4).

**`LruCacheProofs`**, for every set of paths, limits, priorities and clocks,
without failed allocations and without cleanup_expired (with either, `LinksOK` is
false). Inductive invariant: types, `LinksOK`, `CountOK`, entries outside the hash
table have no pointers (without which `move_to_head` would mistake a new entry
for a linked one), and the cursor of a call in progress stands on a cached entry.
`UnlinkThreaded`, `PushThreaded` and `MoveThreaded` show that each pointer
operation leaves a doubly linked list.

| Theorem | Statement |
|---|---|
| `ListIntact` | `Spec => []LinksOK` |
| `CountExact` | `Spec => []CountOK` |
| `MemoryExact` | `Spec => []MemoryOK` |
| `PutStaysWithinLimits` | `Spec => PutWithinLimits` |
| `ListOrdersByRecency` | `SoundSpec => RecencySpec` |

`MemoryExact` and `PutStaysWithinLimits` are about a sum, `SumFunctionOnSet` over the hash table, and assume
`Addressable`: finitely many paths, and a `size_t` that holds the memory of all of
them and of one entry more. The runs' constants satisfy it. Their invariant adds
`SizesOK`: an entry is as large as put computed and what is not cached has no size,
so that put subtracts nothing for it. The sum is split at the entry a step touches
(`SumRemove` and `SumSame` of `SumFacts`).

`ListOrdersByRecency` is the refinement of `RecencyList`, and needs no assumption
on `Env`, since `SoundSpec` takes neither of the faulty steps. `LinksOK` does not
suffice for it: beside the list from `lru_head` there could be a ring of entries
that point at each other. Its invariant adds `Listed`, that the entries form a
sequence without repetition which `lru_head`, `lru_tail` and the pointers of each
entry spell out (`Spells`), and `Behind`, that a put has found only protected
entries between its cursor and the tail. `UnlinkSpells`, `PushSpells` and
`MoveSpells` say what each pointer operation does to the sequence, `AlongIs` that
reading it from the head gives it back; a step then is a use, a discard, an
eviction or a reset (`AbstractSteps`).

**`WsSessionProofs`**, for any number of sessions and frames, any periods and any
`max_message_size`. Inductive invariant: every session is in order (`SessionOK`),
`connection_count` is the number of nodes, and a manager that is not on has none.
The bounds on ages are not inductive by themselves: `SessionOK` adds the time left
to the timer (`idle_for + next_sweep <= 2 * Timeout`, `ping_age + next_beat <=
PingTimeout + Heartbeat`). `MatchInv` relates the fragment buffer and the
delivered messages to what the peer meant.

| Theorem | Statement |
|---|---|
| `TypeCorrect` | `Spec => []TypeOK` |
| `NodesAreValid` | `Spec => []NodesValid` |
| `UserNotifiedOnce` | `Spec => []NotifiedOnce` |
| `SilentSessionsSwept` | `Spec => []IdleBounded` |
| `PingsBounded` | `Spec => []PingBounded` |
| `MessagesAreWhole` | `Spec => []MessagesWhole` |
| `CompliantPeersAreKept` | `Spec => CompliantPeerKept` |
| `SilentAfterOnClose` | `Spec => SilentAfterClose` |

They assume that a due timer runs before the next tick and that the peer's frames
are as described in section 2.

The same module has, for all lengths of payloads, all buffer and frame limits, any
number of frames and pieces of any length,

| Theorem | Statement |
|---|---|
| `FramesArriveWhole` | `WsFrameSpec => []FramesWhole` |

Its inductive invariant `FrameInv` says where in the stream each frame is (`Laid`):
the bytes in the buffer and on the wire are those of the frames not yet received,
one after the other, but for the last byte of a frame that was cut. From this the
parser's view follows (`Judged`): what has come of the next frame is short of it, or
is rejected and then the frame is not legal, or is that frame, and then it is legal
or tolerated. It rests on
`HeaderParsed`, that the length code gives the length back (`ValueIs`, by induction
over its bytes) and has its top bit set only by a flaw, on `MaskTwice`, and on
`DoubledIs`: only `max_frame_size` can keep the buffer from being large enough.
`IdleOK` is what bounds the frames refused for want of room: between calls the
buffer holds less than one frame.

**`HttpExchangeProofs`**, for any number of requests, every `setup`, and any mix of
answers at once, answers twice and answers later.

| Theorem | Statement |
|---|---|
| `ExchangeInvariance` | `Spec => []Inv` |
| `RestartSafe` | `Spec => []RestartBetweenRequests` |
| `AnsweredInOrder` | `Spec => []AnswersInOrder` |
| `DispatchedFaithfully` | `Spec => []DispatchFaithfulIfOrderly` |

`Inv` has three parts. `ResponseOK` and `OnceOK` hold of every exchange: a write in
flight means that `sent` is set and no restart is scheduled, so that nothing is
answered twice. `OrderlyOK` holds of orderly ones and says in which `Stage` the
exchange is: receiving a request whose pieces so far are in the request object,
waiting for its handler, writing its answer, or about to restart. That is what
makes the one request/response pair safe to share, and it needs libuv's order of
callbacks: the idle restart comes before the next poll.

**`RouterProofs`**, for `Router` with every threshold, pool size, number of children,
set of paths, number of calls and pattern of failures, and for `RouterCache` with
every hash function, table size and set of routes.

| Theorem | Statement |
|---|---|
| `ArrayWithinCapacity` | `Spec => []ArrayFits` |
| `TrieIsATree` | `Spec => []TrieOK` |
| `FindsWhatIsRegistered` | `Spec => []FindsWhatFits` |
| `AddingKeepsOthers` | `Spec => AddKeepsOthers` |
| `RoutesAreFound` | `RouterCacheSpec => []RoutesFound` |
| `AddsKeepOthers` | `RouterCacheSpec => RcAddKeepsOthers` |

The array needs no more than its type (`Inv`). For the trie, the walk of an insertion
is taken apart: a step finds a child, creates one or fails (`FindIs`), each keeps the
tree (`GrownTree`), and a path or a migration is a run of such steps (`InsertIs`,
`MigratedIs`). `FiledInv`, the invariant behind the lookups, says that the nodes of a
trie in use have a spelling, the tokens on the way from the root (`Spelled`), with
which each accepted route has a node that holds it, each handler belongs to an
accepted route, and each node was created for an accepted or refused path that agrees
with its spelling in text and in whether its last token is a parameter (`Known`). The
last part is needed: it is what shows that a child found by its text has the kind of
the token (`StepSpells`). `AnswersMean` and `AnswersFind` say of the depth-first
search that what it reports, parameters included, is a route that takes all segments,
and that it reports something if there is one, by induction over the segments from
the last one. `EnlargedAnswers` compares the searches before and after an insertion,
node by node; `MigrationKeeps` compares the array with the trie made from it.

`RcInv`, the invariant for the hash table, is the one of open addressing: each
route stored is reached by probing from its hash without meeting a free slot, no
route is stored twice, and `rc_count` is the number of used slots. Besides, a table
that was overrun holds `MaxSize` routes, and a binary route has a static context.
`ProbeCovers` says that probing visits every slot, `FindSlotIs` and `LookupFinds`
what the search returns, `Inserted` that an insertion keeps the invariant, and
`ResizeKeeps` that moving all routes to the larger table does, one slot after
the other. `MarksAssumption` keeps the marks for free slots apart from routes.

**`ServerProofs`**, for every value of the constants of its subjects.

| Theorem | Statement |
|---|---|
| `RequestsWithinLimits` | `LimitsSpec => []WithinLimits` |
| `RateIsLimited` | `RateSpec => []RateLimitOK` |
| `EachFreedOnce` | `SetupSpec => []SetupFreedOnce` |
| `UpgradesAreRight` | `UpgradeSpec => []UpgradeOK` |
| `ResponsesArriveInOrder` | `TlsOutputSpec => []OutputInOrder` |
| `PlaintextArrivesInOrder` | `TlsInputSpec /\ TlsOutputSpec => []PlaintextInOrder` |

- Limits: `WithinLimits` is inductive with its types; `CapacityFits` says that the
  doubled capacity, raised to what is needed, holds the piece.
- Rate: `RateInv` says that the counter is the number of logged requests since the
  window began, and that the window before it has no more than the limit; a stretch of
  one window's length lies in these two or is older, hence twice the limit.
  `ListInv` relates the two copies of the whitelist, and has the array allocated
  while an address is in it: of an empty list, which a failed first addition leaves
  with a pointer to freed memory, no more can be claimed.
- Set-up: `SetupInv` says who holds each object, as long as the application keeps to
  the rule (`RuledInv`). `RuleKept` shows that it then frees and hands over only what
  is its own, `StrayedStays` that a departure is not taken back. `SetupAssumption`
  keeps the four kinds of objects apart. Without the premise the statement is false
  (run `setup_docs`).
- Upgrades: `UpgradeInv` keeps the registry in the order of registration with no
  name twice; the protocol chosen is then the last registered that fits.
- TLS output: `OutputInv` says that what the peer has, followed by the record that
  mbedtls keeps, is a prefix of all responses, of exactly the length that the call
  in progress has accounted for. Without the length, a retry could be given bytes
  that are not those mbedtls expects.
- TLS input: `InputInv` says that for some R the ciphertext nobody has decrypted is
  that of the records after the first R, and what was parsed, what is in
  `read_buffer` and what mbedtls holds is the plaintext of the first R; further, how
  much may be left where the loops are (`Places`), and, if no record is larger than
  the buffer, that `tls_cipher_buf` has room (`Room`).

**`ContentProofs`**, for any pages, sizes, thresholds, bodies, clocks and failures.

| Theorem | Statement | Assumption |
|---|---|---|
| `ReadsAreConsistent` | `StaticSpec => []ReadsConsistent` | |
| `FreshEastOfGreenwich` | `StaticSpec => FreshWithinTTL` | no time zone west of Greenwich |
| `BodyArrivesInOrder` | `SendfileSpec => []BodyInOrder` | |
| `FileClosedOnce` | `SendfileSpec => []ReleasedAtMostOnce` (the safety part of `FileReleased`) | |
| `ResponsesAreFramed` | `ResponseSpec => []ResponseFramed` | |
| `GzipIsAccounted` | `ResponseSpec => []GzipAccounting` | |

West of Greenwich the code confirms old versions (section 4), so the assumption is
needed. `StaticInv` says what the answer, the buffers and the cache know of the
disk; a step may change the disk between stat and read, so it speaks of the version
that was read and not of the present one. For `Response`, the invariant contains the
bookkeeping of the cache (`GzShape`: the total is the sum, no key is in two slots,
the recency relation is a total order of the valid ones; it also holds between a
store and the evictions after it), its limits (`GzWithin`), and that the header
table is not overrun (`Roomy`).

**How sums and recursive functions are proved.** The provers cannot instantiate the
library's induction theorems. `SumFacts` therefore argues by a minimal
counterexample: a set of naturals that is not empty has a least element
(`LeastNat`), and of the finite sets with a property one is minimal
(`MinimalSet`), both from the well-foundedness of the naturals, which is stated
for sets and not for operators. A recursive function is a CHOOSE over the functions
that satisfy its equation; that one exists for every bound follows in this way, and
with it the equation. This covers the sums (`SumFunctionOnSet`), the moves of
`Resize` and `FlattenSeq`. For other recursions `SumFacts` has the step as an operator
parameter of the module, `FoldOp`, and each user instantiates the module with its own
step: `RecExists` gives the equation of a recursive function over `0 .. n`, `FoldRuns`
that `FoldLeft` over a sequence goes through it one element after the other. The
tokens of a path, the walk along it, the migration, the search and the parameters
of `Router`, and the length codes and buffer sizes of `WsFrame`, are such instances.

**Only model-checked.** Liveness under fairness: `EveryRequestAnswered`,
`CallsReturn`, that a transfer's file is released at all (`FileReleased`), that a
refused client is (`RefusedOnlyAtLimit`), and the fairness of `ConnLifecycle`.
Every other property of a passing run is a theorem.

## 6. Not modelled, and what is left

Not modelled: string handling (URL, header and query parsing, path resolution,
mime types, directory listings, error texts, version strings) and the tables
behind it; `uvhttp_tls.c`, which sets mbedtls options one by one; mbedtls, libuv
and allocators themselves; the range checks of `uvhttp_config.c` (of which
`uvhttp_config_validate` leaves out header and URL sizes and the timeouts) and
the reloading of single values, which `on_connection` reads only from a server
without a configuration of its own; the hashes of the WebSocket handshake and the
client's side of it; the accessors of a request, some of which return static
buffers; `uvhttp_connection_start_timeout_custom`; the setters of the builder;
statistics and logging; the size of `uvhttp_route_match_t.params`, which has room
for 16 parameters (`MAX_PARAMS`): the parameters of a lookup are a sequence of any
length in `Router`, and nothing is claimed of longer ones. They keep no state that the components above rely on, or
are one assignment each.

Proofs of liveness are left: they need rules for fairness and ENABLED that the
prover does not have, and stay with TLC.
