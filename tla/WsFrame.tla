-------------------------------- MODULE WsFrame --------------------------------
(***************************************************************************)
(* WebSocket frames as bytes (uvhttp_websocket.c): uvhttp_ws_build_frame   *)
(* and uvhttp_ws_send_frame at one end; at the other the buffer and the    *)
(* frame loop of uvhttp_ws_process_data, which gets the stream in pieces   *)
(* of any length, or uvhttp_ws_recv_frame, which reads the socket itself.  *)
(* What is done with a frame that is whole is in WsSession.                *)
(*                                                                         *)
(* A header's two first bytes are records of their fields.  The limit of   *)
(* the short length code and the number of values of a byte are            *)
(* parameters, so that all three forms of the length occur in short        *)
(* frames; header sizes are the real ones.  Exclusive or acts on each bit  *)
(* alike, so that a byte of a payload or key is one bit.                   *)
(***************************************************************************)
EXTENDS Integers, Sequences, FiniteSetsExt

CONSTANTS
  ShortLimit,     \* 126: lengths below it are their own length code
  ByteValues,     \* 256
  MaxFrameSize, RecvBuffer,  \* config.max_frame_size and the first recv_buffer_size
  PayloadLengths, MaskingKey,
  MaxRead,        \* bound: the longest piece
  MaxSent       \* bound: the frames sent

\* n shifted right by k bytes; a length has eight of them.
Shifted(n, k) ==
  LET s[j \in 0 .. 8] == IF j = 0 THEN n ELSE s[j - 1] \div ByteValues
  IN  s[k]

\* The lengths of payloads have 63 bits.
ASSUME WsFrameAssumption ==
  /\ ShortLimit \in Nat /\ ByteValues \in Nat \ {0, 1} /\ MaxFrameSize \in Nat
  /\ RecvBuffer \in Nat \ {0} /\ PayloadLengths \subseteq Nat
  /\ \A n \in PayloadLengths : Shifted(n, 7) < ByteValues \div 2
  /\ MaskingKey \in [1 .. 4 -> {0, 1}] /\ MaxRead \in Nat /\ MaxSent \in Nat

VARIABLES
  wf_end,    \* the receiving end: is_server, and the function it receives with
  wf_sent,   \* the frames sent, and whether the last was sent in part
  wf_wire,   \* bytes on their way
  wf_recv,   \* recv_buffer up to recv_buffer_pos, and recv_buffer_size
  wf_got,    \* the frames received
  wf_state   \* idle, in the frame loop, or why the function failed

wsFrameVars == <<wf_end, wf_sent, wf_wire, wf_recv, wf_got, wf_state>>

\* A payload, and a key for small instances: any bits would do.
SampleKey == <<1, 0, 1, 1>>

Payload(len) == [i \in 1 .. len |-> (i \div 2) % 2]

WsFrameInit ==
  /\ wf_end \in [server : BOOLEAN, by : {"process_data", "recv_frame"}]
  /\ wf_sent = [frames |-> <<>>, cut |-> FALSE] /\ wf_wire = <<>>
  /\ wf_recv = [bytes |-> <<>>, size |-> RecvBuffer]
  /\ wf_got = <<>> /\ wf_state = "idle"

-----------------------------------------------------------------------------
(* Building and sending.                                                   *)

\* Mutant: the length 126 is taken for a length code of its own.
HeaderSizeLate(len) ==
  IF len <= ShortLimit THEN 2 ELSE IF len < ByteValues * ByteValues THEN 4 ELSE 10

\* The size of the header for a payload, masking key apart.
HeaderSizeFor(len) ==
  IF len < ShortLimit THEN 2 ELSE IF len < ByteValues * ByteValues THEN 4 ELSE 10

\* The opcodes: 0 to 2, 8 to 10, and those that RFC 6455 reserves, 3 to 7 and 11
\* to 15.  "opcode >= UVHTTP_WS_OPCODE_CLOSE" holds of the last ones, too.
Opcodes == {"data", "control", "reserved", "reserved_control"}
ControlOps == {"control", "reserved_control"}

\* The frames a peer sends: data whole or in fragments and control frames, or with
\* one flaw: a reserved bit or opcode, a mask bit that is wrong for its end, a
\* 64-bit length with its top bit set or for a payload that a shorter form fits.
Frames ==
  LET payloads == {Payload(n) : n \in PayloadLengths} IN
  [op : {"data", "control"}, fin : BOOLEAN, payload : payloads, flaw : {"none"}]
  \cup [op : {"data"}, fin : {TRUE}, payload : payloads, flaw : {"rsv", "mask", "huge"}]
  \cup [op : Opcodes \ {"data", "control"}, fin : {TRUE}, payload : payloads, flaw : {"op"}]
  \cup [op : {"data"}, fin : {TRUE}, payload : {p \in payloads : HeaderSizeFor(Len(p)) < 10},
        flaw : {"overlong"}]

\* n in k bytes, the most significant first.
Digits(n, k) == [i \in 1 .. k |-> Shifted(n, k - i) % ByteValues]

\* uvhttp_ws_apply_mask
ApplyMask(data, key) == [i \in DOMAIN data |-> (data[i] + key[((i - 1) % 4) + 1]) % 2]

\* uvhttp_ws_build_frame: a client masks.  The flaws are those of other peers.
BuildFrame(f) ==
  LET len == Len(f.payload)
      size == IF f.flaw \in {"huge", "overlong"} THEN 10 ELSE HeaderSizeFor(len)
      mask == wf_end.server # (f.flaw = "mask")
      code == IF size = 2 THEN len ELSE IF size = 4 THEN ShortLimit ELSE ShortLimit + 1
      ext == IF f.flaw = "huge" THEN <<ByteValues - 1>> \o Digits(len, size - 3)
             ELSE Digits(len, size - 2)
  IN  << [fin |-> f.fin, rsv |-> f.flaw = "rsv", op |-> f.op], [mask |-> mask, code |-> code] >>
      \o ext \o (IF mask THEN MaskingKey \o ApplyMask(f.payload, MaskingKey) ELSE f.payload)

\* uvhttp_ws_send_frame: send(2) or mbedtls_ssl_write may take a part of the frame
\* only; the rest is dropped and UVHTTP_OK returned all the same.  Nothing is
\* followed beyond that, nor beyond a frame that cannot be taken.
SendFrame(f) ==
  LET bytes == BuildFrame(f) IN
  /\ Len(wf_sent.frames) < MaxSent /\ ~wf_sent.cut
  /\ \A i \in DOMAIN wf_sent.frames : wf_sent.frames[i].flaw \notin {"rsv", "huge"}
  /\ \E k \in {Len(bytes), Len(bytes) - 1} :
       /\ wf_wire' = wf_wire \o SubSeq(bytes, 1, k)
       /\ wf_sent' = [frames |-> Append(wf_sent.frames, f), cut |-> k < Len(bytes)]
  /\ UNCHANGED <<wf_end, wf_recv, wf_got, wf_state>>

-----------------------------------------------------------------------------
(* Parsing.                                                                *)

\* The size of the header that the length code announces.
HeaderSize(code) == IF code = ShortLimit THEN 4 ELSE IF code = ShortLimit + 1 THEN 10 ELSE 2

\* uvhttp_ws_parse_frame_header has all it needs.
HeaderThere(b) == Len(b) >= 2 /\ Len(b) >= HeaderSize(b[2].code)

\* payload_length
PayloadLength(b) ==
  LET k == HeaderSize(b[2].code) - 2
      value[i \in 0 .. k] == IF i = 0 THEN 0 ELSE value[i - 1] * ByteValues + b[i + 2]
  IN  IF b[2].code < ShortLimit THEN b[2].code ELSE value[k]

\* A 64-bit length whose top bit is set.
TopBit(b) == b[2].code = ShortLimit + 1 /\ b[3] >= ByteValues \div 2

\* Where the payload starts.
PayloadAt(b) == HeaderSize(b[2].code) + IF b[2].mask THEN 4 ELSE 0

FrameSize(b) == PayloadAt(b) + PayloadLength(b)

\* The frame at the start of b, its payload unmasked.
FrameIn(b) ==
  LET raw == SubSeq(b, PayloadAt(b) + 1, FrameSize(b))
      key == SubSeq(b, PayloadAt(b) - 3, PayloadAt(b))
  IN  [op |-> b[1].op, fin |-> b[1].fin,
       payload |-> IF b[2].mask THEN ApplyMask(raw, key) ELSE raw]

\* The checks of the frame loop, and those of uvhttp_ws_recv_frame.  Neither looks
\* for a reserved opcode, for a mask where a client receives, or for a length that
\* has a shorter form.
BadFrame(b) ==
  \/ TopBit(b) \/ b[1].rsv
  \/ b[1].op \in ControlOps /\ (PayloadLength(b) >= ShortLimit \/ ~b[1].fin)
  \/ wf_end.server /\ ~b[2].mask
  \/ PayloadLength(b) > MaxFrameSize

BadToRecv(b) == TopBit(b) \/ PayloadLength(b) > MaxFrameSize

\* The bytes make no whole frame yet, a frame that the reader finds bad, or a frame.
Verdict(b, bad) ==
  IF ~HeaderThere(b) THEN "short" ELSE IF bad THEN "protocol"
  ELSE IF Len(b) < FrameSize(b) THEN "short" ELSE "frame"

-----------------------------------------------------------------------------
(* Receiving.                                                              *)

\* The size of the buffer for need bytes: doubled as often as it takes, and not
\* beyond max_frame_size.
Doubled(size, need) ==
  LET grown[k \in 0 .. need] ==
        IF k = 0 THEN size
        ELSE LET g == grown[k - 1] IN IF g < need THEN 2 * g ELSE g
  IN  IF need <= size THEN size ELSE Min({MaxFrameSize, grown[need]})

\* uvhttp_ws_process_data with the next n bytes, up to its loop.
ProcessData(n) ==
  LET need == Len(wf_recv.bytes) + n
      size == Doubled(wf_recv.size, need)
  IN
  /\ wf_end.by = "process_data" /\ wf_state = "idle" /\ n <= Len(wf_wire)
  /\ \/ /\ need <= size
        /\ wf_recv' = [bytes |-> wf_recv.bytes \o SubSeq(wf_wire, 1, n), size |-> size]
        /\ wf_state' = "loop"
     \/ /\ need > size /\ wf_state' = "limit" /\ UNCHANGED wf_recv
     \/ /\ wf_recv.size < size /\ need <= size
        /\ wf_state' = "memory" /\ UNCHANGED wf_recv
  /\ wf_wire' = SubSeq(wf_wire, n + 1, Len(wf_wire))
  /\ UNCHANGED <<wf_end, wf_sent, wf_got>>

\* One round of the loop: it ends for want of bytes, fails, or takes a frame from
\* the buffer and moves the rest to its start.  A frame with a reserved opcode is
\* taken like any other; no branch of the loop does anything with it.
FrameLoop ==
  LET b == wf_recv.bytes
      v == Verdict(b, BadFrame(b))
  IN
  /\ wf_state = "loop" /\ UNCHANGED <<wf_end, wf_sent, wf_wire>>
  /\ \/ /\ v # "frame" /\ wf_state' = IF v = "short" THEN "idle" ELSE v
        /\ UNCHANGED <<wf_recv, wf_got>>
     \/ /\ v = "frame" /\ wf_got' = Append(wf_got, FrameIn(b))
        /\ wf_recv' = [wf_recv EXCEPT !.bytes = SubSeq(@, FrameSize(b) + 1, Len(@))]
        /\ UNCHANGED wf_state

\* uvhttp_ws_recv_frame when n bytes have come: each of its reads must be given
\* all it asks for, or the call fails and what it has read is lost.  It does not
\* look at reserved bits, mask or opcode.
RecvFrame(n) ==
  LET b == SubSeq(wf_wire, 1, n)
      v == Verdict(b, BadToRecv(b))
  IN
  /\ wf_end.by = "recv_frame" /\ wf_state = "idle" /\ wf_wire # <<>>
  /\ \/ /\ v # "frame" /\ wf_state' = v /\ UNCHANGED <<wf_got, wf_wire>>
     \/ /\ v = "frame" /\ wf_got' = Append(wf_got, FrameIn(b))
        /\ wf_wire' = SubSeq(wf_wire, FrameSize(b) + 1, Len(wf_wire))
        /\ UNCHANGED wf_state
  /\ UNCHANGED <<wf_end, wf_sent, wf_recv>>

WsFrameNext ==
  \/ \E f \in Frames : SendFrame(f)
  \/ \E n \in 1 .. MaxRead : ProcessData(n)
  \/ FrameLoop
  \/ \E n \in 0 .. Len(wf_wire) : RecvFrame(n)

WsFrameSpec == WsFrameInit /\ [][WsFrameNext]_wsFrameVars

-----------------------------------------------------------------------------

\* What a frame's receiver should be given.
Received(f) == [op |-> f.op, fin |-> f.fin, payload |-> f.payload]

WireSize(f) == Len(BuildFrame(f))

\* The lengths are within max_frame_size, and those of a control frame.
WithinLimit(f) ==
  /\ Len(f.payload) <= MaxFrameSize
  /\ f.op \in ControlOps => f.fin /\ Len(f.payload) < ShortLimit

\* A frame whose header RFC 6455 (5.1, 5.2, 5.5) and max_frame_size allow.
Legal(f) == f.flaw = "none" /\ WithinLimit(f)

\* Frames that RFC 6455 tells the receiver to fail the connection for, and that
\* uvhttp_ws_process_data takes all the same: a reserved opcode, a length that is
\* not in its shortest form, and a masked frame at a client.
Tolerated(f) ==
  /\ f.flaw \in {"op", "overlong"} \/ (f.flaw = "mask" /\ ~wf_end.server)
  /\ WithinLimit(f)

\* However the stream is cut, the receiver gets the frames that were sent, each
\* once, in order and unmasked, and keeps none back when all bytes are there.
\* uvhttp_ws_process_data never rejects a legal frame, and of those that are not
\* legal it takes none but the three kinds of Tolerated; it runs out of its
\* buffer only for frames that with one read exceed max_frame_size.
FramesWhole ==
  LET n == Len(wf_got) IN
  /\ n <= Len(wf_sent.frames)
  /\ \A i \in 1 .. n : wf_got[i] = Received(wf_sent.frames[i])
  /\ wf_state = "idle" /\ wf_wire = <<>> /\ ~wf_sent.cut => n = Len(wf_sent.frames)
  /\ wf_end.by = "process_data" =>
       /\ \A i \in 1 .. n : Legal(wf_sent.frames[i]) \/ Tolerated(wf_sent.frames[i])
       /\ wf_state = "protocol" => ~Legal(wf_sent.frames[n + 1])
       /\ wf_state = "limit" =>
            \E i \in DOMAIN wf_sent.frames : WireSize(wf_sent.frames[i]) + MaxRead > MaxFrameSize

=============================================================================
