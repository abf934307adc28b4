------------------------------- MODULE Response -------------------------------
(***************************************************************************)
(* The response object of a connection (uvhttp_response.c): what handlers  *)
(* may set, in any order, the serialisation with or without compression,   *)
(* the send, and the reset with which the connection reuses the object for *)
(* the next request.                                                       *)
(*                                                                         *)
(* A header is its name, with the number declared if it is Content-Length; *)
(* every header takes one unit of the header buffer.  Header values with   *)
(* control characters are refused by uvhttp_response_set_header and not    *)
(* modelled.  When the bytes of a response leave, and what its keepalive   *)
(* does, is in HttpExchange and Connection.                                *)
(***************************************************************************)
EXTENDS GzipCache

CONSTANTS
  Bodies,             \* what handlers answer
  BodyLength, CompressedLength,  \* ... and its length, plain and compressed
  InlineHeaders, MaxHeaders,     \* UVHTTP_INLINE_HEADERS_CAPACITY, UVHTTP_MAX_HEADERS
  HeaderBuffer,       \* the first buffer of uvhttp_response_build_data
  DefaultThreshold, CompressThresholds,  \* compress_threshold, when 0 and as set
  GzTTLs, GzMemories, GzEntries  \* settings of the server's gzip cache

ASSUME ResponseAssumption ==
  /\ BodyLength \in [Bodies -> Nat \ {0}] /\ CompressedLength \in [Bodies -> Nat \ {0}]
  /\ InlineHeaders \in Nat \ {0} /\ MaxHeaders \in Nat /\ HeaderBuffer \in Nat
  /\ InlineHeaders <= MaxHeaders /\ DefaultThreshold \in Nat /\ CompressThresholds \subseteq Nat
  /\ GzTTLs \subseteq 0 .. GzMaxTTL /\ GzMemories \subseteq Nat \ {0}
  /\ GzEntries \subseteq Nat \ {0}

VARIABLES
  rs,      \* the uvhttp_response_t
  rs_gzip, \* the server's gzip cache
  rs_out   \* the bytes handed to the socket for this request, if any

responseVars == <<rs, rs_gzip, rs_out>>

NoBody == "none"
NoMessage == [status |-> 0, lengths |-> <<>>, encodings |-> 0, bytes |-> 0, compressed |-> FALSE,
              content |-> NoBody, asked |-> NoBody, spilled |-> FALSE, stale |-> 0]

\* uvhttp_response_init
FreshResponse ==
  [status |-> 200, headers |-> <<>>, capacity |-> InlineHeaders, body |-> NoBody,
   compress |-> FALSE, threshold |-> 0, sent |-> FALSE, finished |-> FALSE]

\* The cache is created by uvhttp_server_new, with the defaults.
ResponseInit ==
  /\ rs = FreshResponse
  /\ rs_gzip = GzCreate(0, 0, 0)
  /\ rs_out = NoMessage

-----------------------------------------------------------------------------
(* The handler's calls.                                                    *)

\* The capacity after a call of set_header that finds the array full.
Grown(cap) == Min({2 * cap, MaxHeaders})

\* uvhttp_response_set_header appends, an older header of the name stays.  It
\* fails at MAX_HEADERS, or for want of memory.
WithHeader(r, h, mem) ==
  IF Len(r.headers) < r.capacity THEN [r EXCEPT !.headers = Append(@, h)]
  ELSE IF Grown(r.capacity) > r.capacity /\ mem
  THEN [r EXCEPT !.headers = Append(@, h), !.capacity = Grown(@)]
  ELSE r

Handler == ~rs.sent /\ UNCHANGED <<rs_gzip, rs_out>>

SetHeader(h) ==
  /\ Handler /\ \E mem \in BOOLEAN : rs' = WithHeader(rs, h, mem)

SetStatus(s) == Handler /\ rs' = [rs EXCEPT !.status = s]

\* uvhttp_response_set_body.  The old body is gone if there is no memory.
SetBody(b) ==
  /\ Handler
  /\ \/ rs' = [rs EXCEPT !.body = b]
     \/ rs' = [rs EXCEPT !.body = NoBody]

OrDefault(t) == IF t = 0 THEN DefaultThreshold ELSE t

\* uvhttp_response_set_compress
SetCompress(enable) ==
  /\ Handler
  /\ rs' = [rs EXCEPT !.compress = enable,
                      !.threshold = IF enable THEN OrDefault(@) ELSE 0]

\* uvhttp_response_set_compress_threshold
SetCompressThreshold(t) == Handler /\ rs' = [rs EXCEPT !.threshold = t]

\* uvhttp_should_compress_by_extension and _by_content_type: the names known not
\* to shrink are looked up first, then those known to, the rest is refused.
ShouldCompress(kind) == kind = "text"

\* uvhttp_response_set_compress_by_filename, and the same by content type
SetCompressBy(kind) ==
  /\ Handler
  /\ rs' = [rs EXCEPT !.compress = ShouldCompress(kind),
                      !.threshold = IF ShouldCompress(kind) THEN OrDefault(@) ELSE @]

-----------------------------------------------------------------------------
(* uvhttp_response_build_data.                                             *)

ENCODING == [name |-> "encoding", n |-> 0]

DeclaresLength(r) == \E h \in Range(r.headers) : h.name = "length"

Lengths(r, len) ==
  LET own == SelectSeq(r.headers, LAMBDA h : h.name = "length") IN
  IF DeclaresLength(r) THEN [i \in DOMAIN own |-> own[i].n] ELSE <<len>>

Encodings(r) == Cardinality({i \in DOMAIN r.headers : r.headers[i].name = "encoding"})

\* The lines of the header block: the status, the end, the handler's headers and
\* the defaults for those it did not set.
HeaderLines(r) ==
  Len(r.headers) + 1 + Cardinality({"type", "length", "connection"} \
                                    {h.name : h \in Range(r.headers)})

\* Step 1: the response with its encoding declared, the cache, and whether the
\* body is replaced.  z: compression succeeds; mem: so do the allocations of the
\* header and of the cached copy.
Plain(r) == [r |-> r, cache |-> rs_gzip, content |-> r.body, compressed |-> FALSE]

Wanted(r) == r.compress /\ r.body # NoBody /\ BodyLength[r.body] >= r.threshold

\* The encoding is declared, or a full header table or want of memory keeps it out.
Declare(r, mem) == WithHeader(r, ENCODING, mem)

Compressed(r, z, mem) ==
  LET found == GzFind(rs_gzip, r.body)
      clen == CompressedLength[r.body]
  IN  IF found.slot # 0
      THEN [r |-> Declare(r, mem), cache |-> found.cache,
            content |-> rs_gzip.slots[found.slot].key, compressed |-> TRUE]
      ELSE IF z /\ clen < BodyLength[r.body]
      THEN [r |-> Declare(r, mem), cache |-> GzPut(found.cache, r.body, clen, mem),
            content |-> r.body, compressed |-> TRUE]
      ELSE [Plain(r) EXCEPT !.cache = found.cache]

Step1(r, z, mem) == IF Wanted(r) THEN Compressed(r, z, mem) ELSE Plain(r)

BytesOf(s) == IF s.content = NoBody THEN 0
              ELSE IF s.compressed THEN CompressedLength[s.content] ELSE BodyLength[s.content]

\* Mutant: body_length is not replaced by the compressed length.
DeclaredPlain(s) == IF s.r.body = NoBody THEN 0 ELSE BodyLength[s.r.body]

\* The length in build_response_headers.  body_length is restored behind the first
\* call: a header block that needs a larger buffer is built with the length of
\* the plain body.
Declared(s) ==
  IF s.compressed /\ HeaderLines(s.r) < HeaderBuffer THEN BytesOf(s)
  ELSE IF s.r.body = NoBody THEN 0 ELSE BodyLength[s.r.body]

\* The last two fields are the model's own: the headers outgrew the buffer, and
\* how many encodings earlier builds of the response declared.
Message(s) ==
  [status |-> s.r.status, lengths |-> Lengths(s.r, Declared(s)), encodings |-> Encodings(s.r),
   bytes |-> BytesOf(s), compressed |-> s.compressed, content |-> s.content,
   asked |-> s.r.body, spilled |-> HeaderLines(s.r) >= HeaderBuffer,
   stale |-> Encodings(rs)]

\* An allocation of build_data fails: the response can be sent again, and keeps
\* the header added to it.
BuildFails ==
  /\ ~rs.sent
  /\ \E z, mem \in BOOLEAN :
       LET s == Step1(rs, z, mem) IN
       rs' = s.r /\ rs_gzip' = s.cache
  /\ UNCHANGED rs_out

\* uvhttp_response_send.  sent is set before uvhttp_response_send_raw, which may
\* fail; a second call returns at once.
Send ==
  /\ ~rs.sent
  /\ \E z, mem, written \in BOOLEAN :
       LET s == Step1(rs, z, mem) IN
       /\ rs' = [s.r EXCEPT !.sent = TRUE, !.finished = written]
       /\ rs_gzip' = s.cache
       /\ rs_out' = IF written THEN Message(s) ELSE NoMessage

\* The reset of uvhttp_connection_restart_read: status_code becomes 0.
ResetResponse ==
  /\ rs.sent
  /\ rs' = [FreshResponse EXCEPT !.status = 0, !.capacity = rs.capacity,
                                 !.threshold = DefaultThreshold]
  /\ rs_out' = NoMessage
  /\ UNCHANGED rs_gzip

-----------------------------------------------------------------------------
(* The embedder's settings of the cache, and time.                         *)

\* Between a send and the reset these calls would commute with the reset, so
\* they are made before or after.
Settings == ~rs.sent /\ UNCHANGED <<rs, rs_out>>

ClearGzip == Settings /\ rs_gzip' = GzClear(rs_gzip)
SetGzipTTL(t) == Settings /\ rs_gzip' = GzSetTTL(rs_gzip, t)
SetGzipMemory(n) == Settings /\ rs_gzip' = GzSetMaxMemory(rs_gzip, n)
SetGzipEntries(n) == Settings /\ \E mem \in BOOLEAN : rs_gzip' = GzSetMaxEntries(rs_gzip, n, mem)
GzipSecond == Settings /\ rs_gzip' = GzAge(rs_gzip)

ResponseNext ==
  \/ BuildFails \/ Send \/ ResetResponse \/ ClearGzip \/ GzipSecond
  \/ \E h \in {[name |-> "length", n |-> 1], [name |-> "other", n |-> 0]} : SetHeader(h)
  \/ SetStatus(200)
  \/ \E b \in Bodies : SetBody(b)
  \/ \E e \in BOOLEAN : SetCompress(e)
  \/ \E t \in CompressThresholds : SetCompressThreshold(t)
  \/ \E k \in {"text", "other"} : SetCompressBy(k)
  \/ \E t \in GzTTLs : SetGzipTTL(t)
  \/ \E n \in GzMemories : SetGzipMemory(n)
  \/ \E n \in GzEntries : SetGzipEntries(n)

ResponseSpec == ResponseInit /\ [][ResponseNext]_responseVars

-----------------------------------------------------------------------------
(* Properties.                                                             *)

\* The body on the wire is the one the handler set, plain or decompressed: a
\* cached stream is that of this very body.  Content-Length is its length in
\* bytes, unless the handler declares a length itself, or the headers of a
\* compressed response outgrow the first buffer of build_data.  It is declared
\* encoded once, just when it is, unless the table of headers has no room for
\* the declaration; what is declared too often was left by builds that failed.
ResponseFramed ==
  rs_out # NoMessage =>
    /\ rs_out.content = rs_out.asked
    /\ \/ rs_out.lengths = <<rs_out.bytes>>
       \/ DeclaresLength(rs)
       \/ rs_out.compressed /\ rs_out.spilled
    /\ \/ rs_out.encodings = rs_out.stale + IF rs_out.compressed THEN 1 ELSE 0
       \/ rs_out.compressed /\ Len(rs.headers) = rs.capacity

\* The cache's bookkeeping is exact, and what it holds stays within the budget
\* but for the overhead of one entry, which a put does not count.
GzipAccounting ==
  GzAccounted(rs_gzip) /\ rs_gzip.total <= rs_gzip.max_memory + GzOverhead

=============================================================================
