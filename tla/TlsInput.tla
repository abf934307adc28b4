------------------------------- MODULE TlsInput -------------------------------
(***************************************************************************)
(* What a TLS connection reads (uvhttp_connection.c): ciphertext from the  *)
(* socket goes to tls_cipher_buf, mbedtls takes it from there through      *)
(* mbedtls_bio_recv, one record at a time, and on_read hands the decrypted *)
(* bytes to llhttp, on_websocket_read to the frame parser.  TCP cuts       *)
(* records anywhere, records cut requests anywhere.                        *)
(*                                                                         *)
(* A byte is known by its record and its place in it; place 0 stands for   *)
(* the record's header and trailer.  The handshake is one record.  What    *)
(* the parsers make of the bytes is in HttpExchange and WsFrame.           *)
(***************************************************************************)
EXTENDS Integers, Sequences, FiniteSetsExt

SeqExt == INSTANCE SequencesExt

CONSTANTS
  ReadSize,     \* UVHTTP_READ_BUFFER_SIZE, the size of read_buffer and tls_cipher_buf
  RecordSizes,  \* plaintext lengths of records
  MaxRecords    \* bound: the records the peer sends

ASSUME TlsInputAssumption ==
  ReadSize \in Nat \ {0} /\ RecordSizes \subseteq Nat \ {0} /\ MaxRecords \in Nat

VARIABLES
  ti_records,  \* what the peer encrypted
  ti_wire,     \* ciphertext on its way
  ti_mb,       \* tls_cipher_buf, the record mbedtls collects, and its plaintext left
  ti_buffer,   \* read_buffer
  ti_parsed,   \* the bytes handed to a parser
  ti_conn      \* state: handshake, http, ws or closed; where in the read callback it
               \* is; why it was closed; whether the last callback filled read_buffer

tlsInputVars == <<ti_records, ti_wire, ti_mb, ti_buffer, ti_parsed, ti_conn>>

TlsInputInit ==
  /\ ti_records = <<>> /\ ti_wire = <<>> /\ ti_buffer = <<>> /\ ti_parsed = <<>>
  /\ ti_mb = [cipher |-> <<>>, in |-> <<>>, out |-> <<>>]
  /\ ti_conn = [state |-> "handshake", at |-> "idle", why |-> "none", filled |-> FALSE]

Bytes(r, from) == [j \in 1 .. ti_records'[r].size + 1 - from |-> <<r, j - 1 + from>>]

\* The peer sends its handshake, data, and may end with a close notification.
PeerSends(kind, size) ==
  LET n == Len(ti_records) IN
  /\ n < MaxRecords /\ (kind = "handshake" <=> n = 0)
  /\ n > 0 => ti_records[n].kind # "notify"
  /\ ti_records' = Append(ti_records, [kind |-> kind, size |-> size])
  /\ ti_wire' = ti_wire \o Bytes(n + 1, 0)
  /\ UNCHANGED <<ti_mb, ti_buffer, ti_parsed, ti_conn>>

-----------------------------------------------------------------------------
(* mbedtls and its input.                                                  *)

\* mbedtls_bio_recv: up to n bytes from the front of tls_cipher_buf.
BioRecv(m, n) ==
  LET k == Min({n, Len(m.cipher)}) IN
  [m EXCEPT !.in = @ \o SubSeq(m.cipher, 1, k),
            !.cipher = SubSeq(@, k + 1, Len(@))]

RecordOf(m) == ti_records[m.in[1][1]]

\* mbedtls asks for a record's header, then for the rest of it.
Fetched(m) ==
  LET h == IF m.in = <<>> THEN BioRecv(m, 1) ELSE m IN
  IF h.in = <<>> THEN h ELSE BioRecv(h, RecordOf(h).size + 1 - Len(h.in))

Complete(m) == m.in # <<>> /\ Len(m.in) = RecordOf(m).size + 1

\* mbedtls_ssl_read into n bytes: from the record it has, or from the next.
SslRead(m, n) ==
  LET f == IF m.out # <<>> THEN m ELSE Fetched(m)
      data == IF m.out # <<>> THEN m.out ELSE SubSeq(f.in, 2, Len(f.in))
      k == Min({n, Len(data)})
  IN  IF m.out = <<>> /\ ~Complete(f) THEN [ret |-> "want", m |-> f, data |-> <<>>]
      ELSE IF m.out = <<>> /\ RecordOf(f).kind = "notify"
      THEN [ret |-> "notify", m |-> f, data |-> <<>>]
      ELSE [ret |-> "data", data |-> SubSeq(data, 1, k),
            m |-> [cipher |-> f.cipher, in |-> IF m.out = <<>> THEN <<>> ELSE f.in,
                   out |-> SubSeq(data, k + 1, Len(data))]]

-----------------------------------------------------------------------------
(* The read callbacks.                                                     *)

Closed(why) == ti_conn' = [ti_conn EXCEPT !.state = "closed", !.at = "idle", !.why = why]
Goto(at) == ti_conn' = [ti_conn EXCEPT !.at = at]

\* on_alloc_buffer offers what is free of tls_cipher_buf, and the callback counts
\* the n bytes that came.
OnRead(n) ==
  /\ ti_conn.state # "closed" /\ ti_conn.at = "idle"
  /\ n <= Len(ti_wire) /\ n <= ReadSize - Len(ti_mb.cipher)
  /\ ti_mb' = [ti_mb EXCEPT !.cipher = @ \o SubSeq(ti_wire, 1, n)]
  /\ ti_wire' = SubSeq(ti_wire, n + 1, Len(ti_wire))
  /\ Goto(ti_conn.state)
  /\ UNCHANGED <<ti_records, ti_buffer, ti_parsed>>

\* With nothing free libuv reports UV_ENOBUFS, with a peer that left UV_EOF.
ReadError(why) ==
  /\ ti_conn.state # "closed" /\ ti_conn.at = "idle"
  /\ why = "nobufs" => Len(ti_mb.cipher) = ReadSize /\ ti_wire # <<>>
  /\ why = "eof" => ti_wire = <<>>
  /\ Closed(why) /\ UNCHANGED <<ti_records, ti_wire, ti_mb, ti_buffer, ti_parsed>>

\* on_read in TLS_HANDSHAKE: it waits for more, or goes on to decrypt in the same
\* callback.
Handshake ==
  LET f == Fetched(ti_mb) IN
  /\ ti_conn.at = "handshake"
  /\ IF Complete(f) THEN /\ ti_mb' = [f EXCEPT !.in = <<>>]
                         /\ ti_conn' = [ti_conn EXCEPT !.state = "http", !.at = "http"]
     ELSE ti_mb' = f /\ (Goto("idle") \/ Closed("tls"))
  /\ UNCHANGED <<ti_records, ti_wire, ti_buffer, ti_parsed>>

\* Mutant: each mbedtls_ssl_read writes to the start of read_buffer.
Overwritten(buf, data) == data \o SubSeq(buf, Len(data) + 1, Len(buf))

\* read_buffer behind a mbedtls_ssl_read at read_buffer + total.
Decrypted(buf, data) == buf \o data

\* One round of the loop in on_read, which ends when mbedtls wants more or
\* read_buffer is full; a notification or a bad record closes the connection.
Decrypt ==
  LET r == SslRead(ti_mb, ReadSize - Len(ti_buffer)) IN
  /\ ti_conn.at = "http" /\ ti_mb' = r.m
  /\ \/ r.ret = "want" /\ Goto("parse") /\ UNCHANGED ti_buffer
     \/ r.ret # "want" /\ Closed(IF r.ret = "data" THEN "tls" ELSE r.ret) /\ UNCHANGED ti_buffer
     \/ /\ r.ret = "data" /\ ti_buffer' = Decrypted(ti_buffer, r.data)
        /\ Goto(IF Len(ti_buffer) + Len(r.data) >= ReadSize THEN "parse" ELSE "http")
  /\ UNCHANGED <<ti_records, ti_wire, ti_parsed>>

\* llhttp_execute gets read_buffer: an error closes the connection, the last byte
\* may complete an upgrade request.
Parse ==
  /\ ti_conn.at = "parse"
  /\ \/ Closed("parse")
     \/ \E s \in {"http", "ws"} :
          ti_conn' = [ti_conn EXCEPT !.state = s, !.at = "idle",
                                     !.filled = Len(ti_buffer) >= ReadSize]
  /\ ti_parsed' = ti_parsed \o ti_buffer /\ ti_buffer' = <<>>
  /\ UNCHANGED <<ti_records, ti_wire, ti_mb>>

\* One round of the loop in on_websocket_read: each piece goes to
\* uvhttp_ws_process_data at once.
WsDecrypt ==
  LET r == SslRead(ti_mb, ReadSize) IN
  /\ ti_conn.at = "ws" /\ ti_mb' = r.m
  /\ \/ /\ r.ret = "want" /\ UNCHANGED ti_parsed
        /\ ti_conn' = [ti_conn EXCEPT !.at = "idle", !.filled = FALSE]
     \/ /\ r.ret # "want" /\ UNCHANGED ti_parsed
        /\ Closed(IF r.ret = "data" THEN "tls" ELSE r.ret)
     \/ /\ r.ret = "data" /\ ti_parsed' = ti_parsed \o r.data
        /\ UNCHANGED ti_conn \/ Closed("frames")
  /\ UNCHANGED <<ti_records, ti_wire, ti_buffer>>

TlsInputNext ==
  \/ \E s \in RecordSizes : PeerSends("data", s)
  \/ PeerSends("handshake", 1) \/ PeerSends("notify", 1)
  \/ \E n \in 1 .. ReadSize : OnRead(n)
  \/ ReadError("nobufs") \/ ReadError("eof")
  \/ Handshake \/ Decrypt \/ Parse \/ WsDecrypt

TlsInputSpec == TlsInputInit /\ [][TlsInputNext]_tlsInputVars

-----------------------------------------------------------------------------

\* The plaintext the peer sent.
Sent ==
  SeqExt!FlattenSeq([r \in DOMAIN ti_records |->
    IF ti_records[r].kind = "data" THEN [j \in 1 .. ti_records[r].size |-> <<r, j>>] ELSE <<>>])

\* The parsers get the bytes the peer encrypted, each once and in order, however
\* TCP cut the records and however they fall into the two buffers.  When a
\* callback is done nothing that could be decrypted waits for the next, unless it
\* was on_read and filled read_buffer.  tls_cipher_buf never runs full as long as
\* no record is larger than it.
InputInOrder ==
  /\ SeqExt!IsPrefix(ti_parsed \o ti_buffer, Sent)
  /\ ti_conn.state \in {"http", "ws"} /\ ti_conn.at = "idle" =>
       SslRead(ti_mb, ReadSize).ret = "want" \/ ti_conn.filled
  /\ ti_conn.why = "nobufs" => \E r \in DOMAIN ti_records : ti_records[r].size > ReadSize

=============================================================================
