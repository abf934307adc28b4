--------------------------- MODULE WsSessionProofs ---------------------------
(***************************************************************************)
(* Proofs about the WebSocket connections.  The first part is about        *)
(* WsFrame, for all lengths of payloads, all limits and all ways to cut    *)
(* the stream.                                                             *)
(*                                                                         *)
(* The second is about WsSession, for any number of connections, periods   *)
(* and frames.  A lemma per operator shows that it keeps what the          *)
(* invariant says of one session (SessionOK) and gives a session no node   *)
(* it did not have; the step lemmas add the counter and the timers.        *)
(***************************************************************************)
EXTENDS WsSession, WsFrame, SumFacts, FiniteSetTheorems, SequenceTheorems, TLAPS

-----------------------------------------------------------------------------
(* Frames of the WebSocket.  First the length codes: the bytes of a length *)
(* give the length back.                                                   *)

\* A number is made of its quotient and its rest.
LEMMA DivMod ==
  ASSUME NEW x \in Nat, NEW b \in Nat \ {0}
  PROVE  /\ x \div b \in Nat /\ x % b \in 0 .. b - 1
         /\ ((x \div b) * b) + (x % b) = x
OBVIOUS

\* Nothing is left of a number that one byte holds.
LEMMA DivSmall ==
  ASSUME NEW x \in Nat, NEW b \in Nat \ {0}, x < b
  PROVE  x \div b = 0
OBVIOUS

\* And one byte is left of a number that two hold.
LEMMA DivSquare ==
  ASSUME NEW x \in Nat, NEW b \in Nat \ {0}, x < b * b
  PROVE  x \div b < b
OBVIOUS

\* The recursions of the length codes and of the buffer.
ShiftStep(x, k, c) == x \div ByteValues
ValueStep(x, k, b) == x * ByteValues + b[k + 2]
GrowStep(x, k, need) == IF x < need THEN 2 * x ELSE x
Shifting == INSTANCE SumFacts WITH FoldOp <- ShiftStep
Valuing == INSTANCE SumFacts WITH FoldOp <- ValueStep
Growing == INSTANCE SumFacts WITH FoldOp <- GrowStep

\* Each byte a number is shifted by divides it.
LEMMA ShiftedIs ==
  ASSUME NEW n \in Nat
  PROVE  /\ Shifted(n, 0) = n
         /\ \A k \in 1 .. 8 : Shifted(n, k) = Shifted(n, k - 1) \div ByteValues
<1> DEFINE s == Shifting!RecOf(n, 0, 8)
<1>1. s = [j \in 0 .. 8 |-> IF j = 0 THEN n ELSE s[j - 1] \div ByteValues]
  <2>1. Shifting!RecBy(n, 0, 8, s) BY Shifting!RecExists
  <2> HIDE DEF s
  <2> QED BY <2>1 DEF Shifting!RecBy, ShiftStep
<1>2. \A k : Shifted(n, k) = s[k]
  BY DEF Shifted, Shifting!RecOf, Shifting!RecBy, ShiftStep
<1> HIDE DEF s
<1>3. s[0] = n /\ \A k \in 1 .. 8 : s[k] = s[k - 1] \div ByteValues BY <1>1
<1> QED BY <1>2, <1>3

\* What is shifted stays a number.
LEMMA ShiftedNat == ASSUME NEW n \in Nat PROVE \A k \in 0 .. 8 : Shifted(n, k) \in Nat
<1> DEFINE T == {k \in 0 .. 8 : Shifted(n, k) \notin Nat}
<1>1. SUFFICES ASSUME T # {} PROVE FALSE OBVIOUS
<1>2. PICK k \in T : \A j \in T : k <= j
  <2> HIDE DEF T
  <2>1. T \in SUBSET Nat BY DEF T
  <2> QED BY <1>1, <2>1, LeastNat
<1>3. k # 0 BY <1>2, ShiftedIs
<1>4. k - 1 \in 0 .. 8 /\ k \in 1 .. 8 /\ ~(k - 1 \in T) BY <1>2, <1>3
<1>5. Shifted(n, k - 1) \in Nat BY <1>4
<1>6. Shifted(n, k) = Shifted(n, k - 1) \div ByteValues BY <1>4, ShiftedIs
<1>7. Shifted(n, k) \in Nat BY <1>5, <1>6, DivMod, WsFrameAssumption
<1> QED BY <1>2, <1>7

\* v reads m bytes from the third of b, and they are those of n.
ReadsLength(v, b, m) ==
  v = [i \in 0 .. m |-> IF i = 0 THEN 0 ELSE v[i - 1] * ByteValues + b[i + 2]]
HoldsBytes(b, n, m) == \A i \in 1 .. m : b[i + 2] = Shifted(n, m - i) % ByteValues

\* The bytes of a number give the number back, if there are enough of them.
LEMMA ValueIs ==
  ASSUME NEW n \in Nat, NEW m \in 1 .. 8, Shifted(n, m) = 0, NEW b, HoldsBytes(b, n, m),
         NEW v, ReadsLength(v, b, m)
  PROVE  v[m] = n
<1> USE DEF ReadsLength, HoldsBytes
<1> DEFINE T == {i \in 0 .. m : v[i] # Shifted(n, m - i)}
<1>1. T = {}
  <2>1. SUFFICES ASSUME T # {} PROVE FALSE OBVIOUS
  <2>2. PICK i \in T : \A j \in T : i <= j
    <3> HIDE DEF T
    <3>1. T \in SUBSET Nat BY DEF T
    <3> QED BY <2>1, <3>1, LeastNat
  <2>3. i # 0 BY <2>2
  <2>4. i - 1 \in 0 .. m /\ i \in 1 .. m /\ ~(i - 1 \in T) BY <2>2, <2>3
  <2>5. v[i - 1] = Shifted(n, m - (i - 1)) BY <2>4
  <2> DEFINE x == Shifted(n, m - i)
  <2>6. x \in Nat
    <3>1. m - i \in 0 .. 8 BY <2>4
    <3> QED BY <3>1, ShiftedNat
  <2>7. Shifted(n, m - (i - 1)) = x \div ByteValues
    <3> DEFINE k == m - (i - 1)
    <3>1. k \in 1 .. 8 /\ k - 1 = m - i BY <2>4
    <3> HIDE DEF k
    <3>2. Shifted(n, k) = Shifted(n, k - 1) \div ByteValues BY <3>1, ShiftedIs
    <3>3. Shifted(n, k) = Shifted(n, m - i) \div ByteValues BY <3>1, <3>2
    <3> QED BY <3>3 DEF k
  <2>8. v[i] = v[i - 1] * ByteValues + b[i + 2] BY <2>4
  <2>9. b[i + 2] = x % ByteValues BY <2>4
  <2> HIDE DEF x
  <2>10. v[i] = ((x \div ByteValues) * ByteValues) + (x % ByteValues) BY <2>5, <2>7, <2>8, <2>9
  <2>11. v[i] = x BY <2>6, <2>10, DivMod, WsFrameAssumption
  <2> QED BY <2>2, <2>11 DEF x
<1>2. m \in 0 .. m /\ m - m = 0 OBVIOUS
<1>3. v[m] = Shifted(n, m - m) BY <1>1, <1>2
<1>4. v[m] = Shifted(n, 0) BY <1>2, <1>3
<1> QED BY <1>4, ShiftedIs

\* Shifting leaves nothing of a length in its extended length code.
LEMMA ShiftedOut ==
  ASSUME NEW n \in PayloadLengths
  PROVE  /\ Shifted(n, 8) = 0 /\ Shifted(n, 7) < ByteValues \div 2
         /\ n < ByteValues * ByteValues => Shifted(n, 2) = 0
<1> USE WsFrameAssumption
<1>1. n \in Nat OBVIOUS
<1>2. /\ Shifted(n, 0) = n /\ Shifted(n, 1) = Shifted(n, 0) \div ByteValues
      /\ Shifted(n, 2) = Shifted(n, 1) \div ByteValues
      /\ Shifted(n, 8) = Shifted(n, 7) \div ByteValues
  <2>1. 1 - 1 = 0 /\ 2 - 1 = 1 /\ 8 - 1 = 7 /\ 1 \in 1 .. 8 /\ 2 \in 1 .. 8 /\ 8 \in 1 .. 8
    OBVIOUS
  <2>2. \A k \in 1 .. 8 : Shifted(n, k) = Shifted(n, k - 1) \div ByteValues BY <1>1, ShiftedIs
  <2> QED BY <1>1, <2>1, <2>2, ShiftedIs
<1>3. Shifted(n, 1) \in Nat /\ Shifted(n, 7) \in Nat BY <1>1, ShiftedNat
<1>4. Shifted(n, 7) < ByteValues \div 2 OBVIOUS
<1>5. Shifted(n, 7) < ByteValues
  <2>1. \A b \in Nat : b \div 2 <= b OBVIOUS
  <2>2. ByteValues \in Nat /\ ByteValues \div 2 \in Nat OBVIOUS
  <2> QED BY <1>3, <1>4, <2>1, <2>2
<1>6. Shifted(n, 8) = 0 BY <1>2, <1>3, <1>5, DivSmall
<1>7. n < ByteValues * ByteValues => Shifted(n, 1) < ByteValues BY <1>1, <1>2, DivSquare
<1>8. n < ByteValues * ByteValues => Shifted(n, 2) = 0 BY <1>2, <1>3, <1>7, DivSmall
<1> QED BY <1>4, <1>6, <1>8

-----------------------------------------------------------------------------
(* The bytes of a frame.                                                   *)

\* The parts of BuildFrame for a receiver that is a server, or a client.
SizeOf(f) == IF f.flaw \in {"huge", "overlong"} THEN 10 ELSE HeaderSizeFor(Len(f.payload))
MaskOf(f, server) == server # (f.flaw = "mask")
CodeOf(f) ==
  IF SizeOf(f) = 2 THEN Len(f.payload)
  ELSE IF SizeOf(f) = 4 THEN ShortLimit ELSE ShortLimit + 1
ExtOf(f) ==
  IF f.flaw = "huge" THEN <<ByteValues - 1>> \o Digits(Len(f.payload), SizeOf(f) - 3)
  ELSE Digits(Len(f.payload), SizeOf(f) - 2)
FirstByte(f) == [fin |-> f.fin, rsv |-> f.flaw = "rsv", op |-> f.op]
SecondByte(f, server) == [mask |-> MaskOf(f, server), code |-> CodeOf(f)]
BodyOf(f, server) ==
  IF MaskOf(f, server) THEN MaskingKey \o ApplyMask(f.payload, MaskingKey) ELSE f.payload
Wire(f, server) == <<FirstByte(f), SecondByte(f, server)>> \o ExtOf(f) \o BodyOf(f, server)

\* Everything that is sent.
Items ==
  [fin : BOOLEAN, rsv : BOOLEAN, op : Opcodes] \cup [mask : BOOLEAN, code : Nat]
  \cup Nat

\* BuildFrame puts these parts together.
LEMMA BuildIs == \A f : BuildFrame(f) = Wire(f, wf_end.server)
BY DEF BuildFrame, Wire, FirstByte, SecondByte, BodyOf, ExtOf, CodeOf, MaskOf, SizeOf

\* What the fields of a frame are.
LEMMA FrameFields ==
  ASSUME NEW f \in Frames
  PROVE  /\ f.op \in Opcodes /\ f.fin \in BOOLEAN
         /\ f.flaw \in {"none", "rsv", "mask", "huge", "op", "overlong"}
         /\ f.flaw = "overlong" => HeaderSizeFor(Len(f.payload)) < 10
         /\ f.payload \in Seq({0, 1}) /\ Len(f.payload) \in PayloadLengths
<1>1. PICK n \in PayloadLengths : f.payload = Payload(n) BY DEF Frames
<1>2. n \in Nat BY WsFrameAssumption
<1>3. Payload(n) \in [1 .. n -> {0, 1}]
  <2>1. \A i \in 1 .. n : (i \div 2) % 2 \in {0, 1} BY <1>2
  <2> QED BY <2>1 DEF Payload
<1>4. Payload(n) \in Seq({0, 1}) /\ Len(Payload(n)) = n BY <1>2, <1>3
<1>5. /\ f.op \in Opcodes /\ f.fin \in BOOLEAN
      /\ f.flaw \in {"none", "rsv", "mask", "huge", "op", "overlong"}
      /\ f.flaw = "overlong" => HeaderSizeFor(Len(f.payload)) < 10
  BY DEF Frames, Opcodes
<1> QED BY <1>1, <1>4, <1>5

\* The sizes of the parts.
LEMMA PartSizes ==
  ASSUME NEW f \in Frames
  PROVE  /\ SizeOf(f) \in {2, 4, 10} /\ CodeOf(f) \in Nat
         /\ SizeOf(f) = 2 => f.flaw # "huge" /\ Len(f.payload) < ShortLimit
         /\ SizeOf(f) = 4 => f.flaw # "huge" /\ Len(f.payload) < ByteValues * ByteValues
         /\ f.flaw = "huge" => SizeOf(f) = 10
         /\ HeaderSize(CodeOf(f)) = SizeOf(f)
         /\ CodeOf(f) < ShortLimit <=> SizeOf(f) = 2
         /\ CodeOf(f) = ShortLimit + 1 <=> SizeOf(f) = 10
<1>1. Len(f.payload) \in Nat BY FrameFields, WsFrameAssumption
<1> QED BY <1>1, WsFrameAssumption DEF SizeOf, CodeOf, HeaderSizeFor, HeaderSize

\* The bytes of a number.
LEMMA DigitsAre ==
  ASSUME NEW n \in Nat, NEW k \in 0 .. 8
  PROVE  /\ Digits(n, k) \in Seq(Items) /\ Len(Digits(n, k)) = k
         /\ \A i \in 1 .. k : Digits(n, k)[i] = Shifted(n, k - i) % ByteValues
<1>1. ASSUME NEW i \in 1 .. k PROVE Shifted(n, k - i) % ByteValues \in Nat
  <2>1. k - i \in 0 .. 8 OBVIOUS
  <2>2. Shifted(n, k - i) \in Nat BY <2>1, ShiftedNat
  <2>3. \A x \in Nat : x % ByteValues \in Nat BY DivMod, WsFrameAssumption
  <2> QED BY <2>2, <2>3
<1>2. Digits(n, k) \in [1 .. k -> Items] BY <1>1 DEF Digits, Items
<1>3. Digits(n, k) \in Seq(Items) /\ Len(Digits(n, k)) = k BY <1>2
<1> QED BY <1>3 DEF Digits

\* The extended length.
LEMMA ExtIs ==
  ASSUME NEW f \in Frames
  PROVE  /\ ExtOf(f) \in Seq(Items) /\ Len(ExtOf(f)) = SizeOf(f) - 2
         /\ f.flaw # "huge" =>
              \A i \in 1 .. SizeOf(f) - 2 :
                 ExtOf(f)[i] = Shifted(Len(f.payload), (SizeOf(f) - 2) - i) % ByteValues
         /\ f.flaw = "huge" => ExtOf(f)[1] = ByteValues - 1
<1>1. Len(f.payload) \in Nat BY FrameFields, WsFrameAssumption
<1>2. SizeOf(f) \in {2, 4, 10} /\ (f.flaw = "huge" => SizeOf(f) = 10) BY PartSizes
<1>3. CASE f.flaw # "huge"
  <2>1. ExtOf(f) = Digits(Len(f.payload), SizeOf(f) - 2) BY <1>3 DEF ExtOf
  <2>2. SizeOf(f) - 2 \in 0 .. 8 BY <1>2
  <2> QED BY <1>1, <1>3, <2>1, <2>2, DigitsAre
<1>4. CASE f.flaw = "huge"
  <2> DEFINE d == Digits(Len(f.payload), 7)
             e == <<ByteValues - 1>>
  <2>1. SizeOf(f) = 10 /\ 10 - 3 = 7 BY <1>2, <1>4
  <2>2. ExtOf(f) = e \o d BY <1>4, <2>1 DEF ExtOf
  <2>3. d \in Seq(Items) /\ Len(d) = 7
    <3>1. 7 \in 0 .. 8 OBVIOUS
    <3> QED BY <1>1, <3>1, DigitsAre
  <2>4. e \in Seq(Items) /\ Len(e) = 1 /\ e[1] = ByteValues - 1
    <3>1. ByteValues - 1 \in Items BY WsFrameAssumption DEF Items
    <3> QED BY <3>1
  <2> HIDE DEF d, e
  <2>5. /\ e \o d \in Seq(Items) /\ Len(e \o d) = Len(e) + Len(d)
        /\ \A i \in 1 .. Len(e) + Len(d) : (e \o d)[i] = IF i <= Len(e) THEN e[i] ELSE d[i - Len(e)]
    BY ONLY <2>3, <2>4, ConcatProperties
  <2>6. Len(e \o d) = 8 /\ (e \o d)[1] = e[1] BY <2>3, <2>4, <2>5
  <2> QED BY <1>4, <2>1, <2>2, <2>4, <2>5, <2>6
<1> QED BY <1>3, <1>4

\* The masked payload.
LEMMA MaskedIs ==
  ASSUME NEW s \in Seq(Items), \A i \in 1 .. Len(s) : s[i] \in {0, 1}
  PROVE  /\ ApplyMask(s, MaskingKey) \in Seq(Items)
         /\ Len(ApplyMask(s, MaskingKey)) = Len(s)
         /\ \A i \in 1 .. Len(s) : ApplyMask(s, MaskingKey)[i] \in {0, 1}
<1>1. Len(s) \in Nat /\ DOMAIN s = 1 .. Len(s) BY LenProperties
<1>2. ASSUME NEW i \in 1 .. Len(s)
      PROVE  (s[i] + MaskingKey[((i - 1) % 4) + 1]) % 2 \in {0, 1}
  <2>1. ((i - 1) % 4) + 1 \in 1 .. 4 BY <1>1
  <2>2. MaskingKey[((i - 1) % 4) + 1] \in {0, 1} BY <2>1, WsFrameAssumption
  <2>3. \A x, y \in {0, 1} : (x + y) % 2 \in {0, 1} OBVIOUS
  <2> QED BY <2>2, <2>3
<1>3. ApplyMask(s, MaskingKey) \in [1 .. Len(s) -> {0, 1}] BY <1>1, <1>2 DEF ApplyMask
<1>4. ApplyMask(s, MaskingKey) \in [1 .. Len(s) -> Items] BY <1>3 DEF Items
<1>5. ApplyMask(s, MaskingKey) \in Seq(Items) /\ Len(ApplyMask(s, MaskingKey)) = Len(s)
  BY <1>1, <1>4
<1> QED BY <1>3, <1>5

\* Masking twice with the same key changes nothing.
LEMMA MaskTwice ==
  ASSUME NEW s \in Seq({0, 1}), NEW r, DOMAIN r = 1 .. Len(s),
         \A i \in 1 .. Len(s) : r[i] = ApplyMask(s, MaskingKey)[i],
         NEW key, \A i \in 1 .. 4 : key[i] = MaskingKey[i]
  PROVE  ApplyMask(r, key) = s
<1>1. Len(s) \in Nat /\ DOMAIN s = 1 .. Len(s) BY LenProperties
<1>2. ASSUME NEW i \in 1 .. Len(s) PROVE ApplyMask(r, key)[i] = s[i]
  <2> DEFINE j == ((i - 1) % 4) + 1
  <2>1. j \in 1 .. 4 BY <1>1
  <2>2. key[j] = MaskingKey[j] /\ MaskingKey[j] \in {0, 1} BY <2>1, WsFrameAssumption
  <2>3. r[i] = (s[i] + MaskingKey[j]) % 2 BY <1>1 DEF ApplyMask
  <2>4. ApplyMask(r, key)[i] = (r[i] + key[j]) % 2 BY DEF ApplyMask
  <2>5. s[i] \in {0, 1} BY ElementOfSeq
  <2>6. \A x, y \in {0, 1} : (((x + y) % 2) + y) % 2 = x OBVIOUS
  <2> HIDE DEF j
  <2> QED BY <2>2, <2>3, <2>4, <2>5, <2>6
<1>3. DOMAIN ApplyMask(r, key) = 1 .. Len(s) BY DEF ApplyMask
<1>4. ApplyMask(r, key) = [i \in 1 .. Len(s) |-> ApplyMask(r, key)[i]] BY <1>3 DEF ApplyMask
<1>5. s = [i \in 1 .. Len(s) |-> s[i]] BY <1>1
<1> QED BY <1>2, <1>4, <1>5

IsJoin(u, s, t) ==
  /\ Len(u) = Len(s) + Len(t)
  /\ \A i \in 1 .. Len(s) : u[i] = s[i]
  /\ \A i \in 1 .. Len(t) : u[Len(s) + i] = t[i]

\* The elements of two sequences, one after the other.
LEMMA Joined ==
  ASSUME NEW S, NEW s \in Seq(S), NEW t \in Seq(S)
  PROVE  s \o t \in Seq(S) /\ IsJoin(s \o t, s, t)
<1>1. Len(s) \in Nat /\ Len(t) \in Nat BY LenProperties
<1>2. /\ s \o t \in Seq(S) /\ Len(s \o t) = Len(s) + Len(t)
      /\ \A i \in 1 .. Len(s) + Len(t) :
            (s \o t)[i] = IF i <= Len(s) THEN s[i] ELSE t[i - Len(s)]
  BY ONLY s \in Seq(S), t \in Seq(S), ConcatProperties
<1>3. ASSUME NEW i \in 1 .. Len(s) PROVE (s \o t)[i] = s[i]
  <2>1. i \in 1 .. Len(s) + Len(t) /\ i <= Len(s) BY <1>1
  <2> QED BY <1>2, <2>1
<1>4. ASSUME NEW i \in 1 .. Len(t) PROVE (s \o t)[Len(s) + i] = t[i]
  <2> DEFINE j == Len(s) + i
  <2>1. j \in 1 .. Len(s) + Len(t) /\ ~(j <= Len(s)) /\ j - Len(s) = i BY <1>1
  <2> HIDE DEF j
  <2>2. (s \o t)[j] = t[j - Len(s)] BY <1>2, <2>1
  <2>3. (s \o t)[j] = t[i] BY <2>1, <2>2
  <2> QED BY <2>3 DEF j
<1> QED BY <1>2, <1>3, <1>4 DEF IsJoin

\* A function on the first numbers is a sequence.
LEMMA AsSeq ==
  ASSUME NEW S, NEW n \in Nat, NEW s \in [1 .. n -> S]
  PROVE  s \in Seq(S) /\ Len(s) = n
OBVIOUS

\* The masking key and the payload.
LEMMA BodyIs ==
  ASSUME NEW f \in Frames, NEW server \in BOOLEAN
  PROVE  LET body == BodyOf(f, server) IN
         /\ body \in Seq(Items)
         /\ MaskOf(f, server) =>
              /\ Len(body) = 4 + Len(f.payload)
              /\ \A i \in 1 .. 4 : body[i] = MaskingKey[i]
              /\ \A i \in 1 .. Len(f.payload) :
                    body[4 + i] = ApplyMask(f.payload, MaskingKey)[i]
         /\ ~MaskOf(f, server) => body = f.payload
<1> DEFINE p == f.payload
           m == ApplyMask(f.payload, MaskingKey)
<1>1. p \in Seq({0, 1}) BY FrameFields
<1>2. p \in Seq(Items) /\ \A i \in 1 .. Len(p) : p[i] \in {0, 1}
  <2>1. Len(p) \in Nat /\ p \in [1 .. Len(p) -> {0, 1}] BY <1>1, LenProperties
  <2>2. p \in [1 .. Len(p) -> Items] BY <2>1 DEF Items
  <2> HIDE DEF p
  <2> QED BY <2>1, <2>2
<1>3. m \in Seq(Items) /\ Len(m) = Len(p) BY <1>2, MaskedIs
<1>4. MaskingKey \in Seq(Items) /\ Len(MaskingKey) = 4
  <2>1. MaskingKey \in [1 .. 4 -> Items] /\ 4 \in Nat BY WsFrameAssumption DEF Items
  <2> QED BY ONLY <2>1, AsSeq, Zenon
<1> DEFINE b == MaskingKey \o m
<1>5. b \in Seq(Items) /\ IsJoin(b, MaskingKey, m)
  <2> HIDE DEF m
  <2> QED BY <1>3, <1>4, Joined, Zenon
<1>6. CASE MaskOf(f, server)
  <2>1. BodyOf(f, server) = b BY <1>6 DEF BodyOf
  <2> HIDE DEF m, b
  <2>2. /\ b \in Seq(Items) /\ Len(b) = 4 + Len(p)
        /\ \A i \in 1 .. 4 : b[i] = MaskingKey[i]
        /\ \A i \in 1 .. Len(p) : b[4 + i] = m[i]
    BY <1>3, <1>4, <1>5 DEF IsJoin
  <2> QED BY <1>6, <2>1, <2>2 DEF m
<1>7. CASE ~MaskOf(f, server)
  <2>1. BodyOf(f, server) = p BY <1>7 DEF BodyOf
  <2> QED BY <1>2, <1>7, <2>1
<1> QED BY <1>6, <1>7

\* A frame on the wire, part by part.
LEMMA WireParts ==
  ASSUME NEW f \in Frames, NEW server \in BOOLEAN
  PROVE  LET w == Wire(f, server)
             size == SizeOf(f)
             body == BodyOf(f, server)
         IN  /\ w \in Seq(Items) /\ Len(w) = size + Len(body)
             /\ w[1] = FirstByte(f) /\ w[2] = SecondByte(f, server)
             /\ \A i \in 1 .. size - 2 : w[2 + i] = ExtOf(f)[i]
             /\ \A i \in 1 .. Len(body) : w[size + i] = body[i]
<1> DEFINE w == Wire(f, server)
           size == SizeOf(f)
           body == BodyOf(f, server)
           ext == ExtOf(f)
           h == <<FirstByte(f), SecondByte(f, server)>>
<1>1. body \in Seq(Items) BY BodyIs
<1>2. size \in {2, 4, 10} /\ ext \in Seq(Items) /\ Len(ext) = size - 2 BY ExtIs, PartSizes
<1>3. h \in Seq(Items) /\ Len(h) = 2 /\ h[1] = FirstByte(f) /\ h[2] = SecondByte(f, server)
  <2>1. FirstByte(f) \in Items BY FrameFields DEF FirstByte, Items
  <2>2. SecondByte(f, server) \in Items
    <3>1. CodeOf(f) \in Nat BY PartSizes
    <3>2. MaskOf(f, server) \in BOOLEAN BY DEF MaskOf
    <3> QED BY <3>1, <3>2 DEF SecondByte, Items
  <2> QED BY <2>1, <2>2
<1>4. w = (h \o ext) \o body BY DEF Wire
<1> HIDE DEF w, size, body, ext, h
<1> DEFINE he == h \o ext
<1>5. he \in Seq(Items) /\ IsJoin(he, h, ext) BY <1>2, <1>3, Joined, Zenon
<1> HIDE DEF he
<1>6. w \in Seq(Items) /\ IsJoin(w, he, body)
  <2>1. w = he \o body BY <1>4 DEF he
  <2>2. he \o body \in Seq(Items) /\ IsJoin(he \o body, he, body) BY <1>1, <1>5, Joined, Zenon
  <2> QED BY <2>1, <2>2
<1> USE DEF IsJoin
<1>8. Len(he) = size /\ size \in Nat /\ size >= 2 BY <1>2, <1>3, <1>5
<1>9. he[1] = h[1] /\ he[2] = h[2] BY <1>3, <1>5
<1>10. w[1] = FirstByte(f) /\ w[2] = SecondByte(f, server) BY <1>3, <1>6, <1>8, <1>9
<1>11. ASSUME NEW i \in 1 .. size - 2 PROVE w[2 + i] = ext[i]
  <2>1. he[2 + i] = ext[i] BY <1>2, <1>3, <1>5
  <2>2. 2 + i \in 1 .. Len(he) BY <1>8
  <2>3. w[2 + i] = he[2 + i] BY <1>6, <2>2
  <2> QED BY <2>1, <2>3
<1>12. \A i \in 1 .. Len(body) : w[size + i] = body[i] BY <1>6, <1>8
<1>13. w \in Seq(Items) /\ Len(w) = size + Len(body) BY <1>6, <1>8
<1> QED BY <1>10, <1>11, <1>12, <1>13 DEF w, size, body, ext

-----------------------------------------------------------------------------
(* Parsing what has come of a frame.                                       *)

\* b is a part of w, or w with something after it.
Starts(b, w) == b \in Seq(Items) /\ \A j \in 1 .. Len(b) : j <= Len(w) => b[j] = w[j]

\* A frame begins with its header.
LEMMA WireLong ==
  ASSUME NEW f \in Frames, NEW server \in BOOLEAN
  PROVE  /\ Len(Wire(f, server)) \in Nat /\ Len(Wire(f, server)) >= SizeOf(f) /\ SizeOf(f) >= 2
         /\ Len(Wire(f, server)) = SizeOf(f) + (IF MaskOf(f, server) THEN 4 ELSE 0) + Len(f.payload)
<1>1. SizeOf(f) \in {2, 4, 10} BY PartSizes
<1>2. Len(f.payload) \in Nat BY FrameFields, WsFrameAssumption
<1>3. Len(Wire(f, server)) = SizeOf(f) + Len(BodyOf(f, server)) BY WireParts
<1>4. CASE MaskOf(f, server)
  <2>1. Len(BodyOf(f, server)) = 4 + Len(f.payload) BY <1>4, BodyIs, Zenon
  <2>2. Len(Wire(f, server)) = SizeOf(f) + (4 + Len(f.payload)) BY <1>3, <2>1, Zenon
  <2> QED BY <1>1, <1>2, <1>4, <2>2
<1>5. CASE ~MaskOf(f, server)
  <2>1. Len(BodyOf(f, server)) = Len(f.payload) BY <1>5, BodyIs, Zenon
  <2>2. Len(Wire(f, server)) = SizeOf(f) + Len(f.payload) BY <1>3, <2>1, Zenon
  <2> QED BY <1>1, <1>2, <1>5, <2>2
<1> QED BY <1>4, <1>5

\* The first two bytes say how long the header is.
LEMMA FirstBytes ==
  ASSUME NEW f \in Frames, NEW server \in BOOLEAN, NEW b, Starts(b, Wire(f, server)),
         Len(b) >= 2
  PROVE  /\ b[1] = FirstByte(f) /\ b[2] = SecondByte(f, server)
         /\ HeaderSize(b[2].code) = SizeOf(f)
         /\ PayloadAt(b) = SizeOf(f) + IF MaskOf(f, server) THEN 4 ELSE 0
<1> DEFINE w == Wire(f, server)
<1>1. Len(b) \in Nat BY LenProperties DEF Starts
<1>2. Len(w) \in Nat /\ Len(w) >= 2
  <2>1. SizeOf(f) \in {2, 4, 10} BY PartSizes
  <2> HIDE DEF w
  <2> QED BY <2>1, WireLong DEF w
<1>3. w[1] = FirstByte(f) /\ w[2] = SecondByte(f, server) BY WireParts
<1>4. \A j \in 1 .. Len(b) : j <= Len(w) => b[j] = w[j] BY DEF Starts
<1> HIDE DEF w
<1>5. b[1] = w[1] /\ b[2] = w[2] BY <1>1, <1>2, <1>4
<1>6. b[2].code = CodeOf(f) /\ b[2].mask = MaskOf(f, server) BY <1>3, <1>5 DEF SecondByte
<1>7. HeaderSize(b[2].code) = SizeOf(f) BY <1>6, PartSizes
<1> QED BY <1>3, <1>5, <1>6, <1>7 DEF PayloadAt

\* The length that the extended code gives is what the recursion computes.
LEMMA ExtendedLength ==
  ASSUME NEW b, NEW m \in Nat, m = HeaderSize(b[2].code) - 2, ~(b[2].code < ShortLimit)
  PROVE  \E v : ReadsLength(v, b, m) /\ PayloadLength(b) = v[m]
<1> DEFINE v == Valuing!RecOf(0, b, m)
<1>1. PayloadLength(b) = v[m]
  BY DEF PayloadLength, Valuing!RecOf, Valuing!RecBy, ValueStep
<1>2. Valuing!RecBy(0, b, m, v) BY Valuing!RecExists
<1> HIDE DEF v
<1>3. ReadsLength(v, b, m) BY <1>2 DEF ReadsLength, Valuing!RecBy, ValueStep
<1> QED BY <1>1, <1>3

\* The header gives the length of the payload back, and only a flaw sets its top bit.
LEMMA HeaderParsed ==
  ASSUME NEW f \in Frames, NEW server \in BOOLEAN, NEW b, Starts(b, Wire(f, server)),
         HeaderThere(b)
  PROVE  /\ TopBit(b) <=> f.flaw = "huge"
         /\ f.flaw # "huge" => PayloadLength(b) = Len(f.payload)
<1> DEFINE w == Wire(f, server)
           n == Len(f.payload)
           m == SizeOf(f) - 2
<1>1. Len(b) \in Nat BY LenProperties DEF Starts
<1>2. Len(b) >= 2 /\ b[2] = SecondByte(f, server) /\ Len(b) >= SizeOf(f)
  <2>1. Len(b) >= 2 BY DEF HeaderThere
  <2>2. b[2] = SecondByte(f, server) /\ HeaderSize(b[2].code) = SizeOf(f) BY <2>1, FirstBytes
  <2> QED BY <2>1, <2>2 DEF HeaderThere
<1>3. b[2].code = CodeOf(f) BY <1>2 DEF SecondByte
<1>4. n \in PayloadLengths /\ n \in Nat BY FrameFields, WsFrameAssumption
<1>5. SizeOf(f) \in {2, 4, 10} BY PartSizes
<1>6. ASSUME NEW i \in 1 .. m PROVE b[i + 2] = ExtOf(f)[i]
  <2>1. w[2 + i] = ExtOf(f)[i] BY WireParts
  <2>2. Len(w) \in Nat /\ Len(w) >= SizeOf(f) BY WireLong
  <2>3. \A j \in 1 .. Len(b) : j <= Len(w) => b[j] = w[j] BY DEF Starts
  <2> HIDE DEF w
  <2>4. 2 + i \in 1 .. Len(b) /\ 2 + i <= Len(w) /\ i + 2 = 2 + i BY <1>1, <1>2, <1>5, <2>2
  <2> QED BY <2>1, <2>3, <2>4
<1>7. TopBit(b) <=> f.flaw = "huge"
  <2>1. b[2].code = ShortLimit + 1 <=> SizeOf(f) = 10 BY <1>3, PartSizes
  <2>2. ASSUME SizeOf(f) = 10 PROVE b[3] >= ByteValues \div 2 <=> f.flaw = "huge"
    <3>1. b[3] = ExtOf(f)[1]
      <4>1. 1 \in 1 .. m /\ 1 + 2 = 3 BY <2>2
      <4> QED BY <1>6, <4>1
    <3>2. CASE f.flaw = "huge"
      <4>1. b[3] = ByteValues - 1 BY <3>1, <3>2, ExtIs
      <4>2. \A x \in Nat \ {0} : x - 1 >= x \div 2
        <5>1. \A x \in Nat \ {0, 1} : x \div 2 <= x - 1 /\ 1 \div 2 = 0 OBVIOUS
        <5> QED BY <5>1
      <4> QED BY <3>2, <4>1, <4>2, WsFrameAssumption
    <3>3. CASE f.flaw # "huge"
      <4> DEFINE x == Shifted(n, 7)
      <4>1. b[3] = x % ByteValues
        <5>1. 1 \in 1 .. SizeOf(f) - 2 /\ (SizeOf(f) - 2) - 1 = 7 BY <2>2
        <5>2. ExtOf(f)[1] = Shifted(n, (SizeOf(f) - 2) - 1) % ByteValues BY <3>3, <5>1, ExtIs
        <5> QED BY <3>1, <5>1, <5>2
      <4>2. x \in Nat
        <5>1. 7 \in 0 .. 8 OBVIOUS
        <5> QED BY <1>4, <5>1, ShiftedNat
      <4>3. x < ByteValues \div 2 BY <1>4, ShiftedOut
      <4> HIDE DEF x
      <4>4. \A y \in Nat, z \in Nat \ {0} : y % z <= y OBVIOUS
      <4>5. x % ByteValues <= x /\ x % ByteValues \in Nat BY <4>2, <4>4, DivMod, WsFrameAssumption
      <4>6. ByteValues \div 2 \in Nat BY WsFrameAssumption
      <4> QED BY <3>3, <4>1, <4>2, <4>3, <4>5, <4>6
    <3> QED BY <3>2, <3>3
  <2>3. f.flaw = "huge" => SizeOf(f) = 10 BY PartSizes
  <2> QED BY <2>1, <2>2, <2>3 DEF TopBit
<1>8. ASSUME f.flaw # "huge" PROVE PayloadLength(b) = n
  <2>1. CASE SizeOf(f) = 2
    <3>1. CodeOf(f) < ShortLimit /\ CodeOf(f) = n BY <2>1, PartSizes DEF CodeOf
    <3> QED BY <1>3, <3>1 DEF PayloadLength
  <2>2. CASE SizeOf(f) # 2
    <3>1. ~(b[2].code < ShortLimit) BY <1>3, <2>2, PartSizes
    <3>2. m \in 1 .. 8 /\ m \in Nat BY <1>5, <2>2
    <3>3. m = HeaderSize(b[2].code) - 2 BY <1>3, PartSizes
    <3>4. PICK v : ReadsLength(v, b, m) /\ PayloadLength(b) = v[m]
      <4> HIDE DEF m
      <4> QED BY <3>1, <3>2, <3>3, ExtendedLength
    <3>5. HoldsBytes(b, n, m) BY <1>6, <1>8, ExtIs DEF HoldsBytes
    <3>6. Shifted(n, m) = 0
      <4>1. CASE SizeOf(f) = 4
        <5>1. n < ByteValues * ByteValues /\ m = 2 BY <4>1, PartSizes
        <5> QED BY <1>4, <5>1, ShiftedOut
      <4>2. CASE SizeOf(f) = 10
        <5>1. m = 8 BY <4>2
        <5> QED BY <1>4, <5>1, ShiftedOut
      <4> QED BY <1>5, <2>2, <4>1, <4>2
    <3> HIDE DEF m, n
    <3>7. v[m] = n BY <1>4, <3>2, <3>4, <3>5, <3>6, ValueIs, Zenon
    <3> QED BY <3>4, <3>7
  <2> QED BY <2>1, <2>2
<1> QED BY <1>7, <1>8

IsPart(u, s, a, n) == Len(u) = n /\ \A i \in 1 .. n : u[i] = s[a + i]

\* The elements of a part of a sequence.
LEMMA PartIs ==
  ASSUME NEW S, NEW s \in Seq(S), NEW a \in Nat, NEW e \in Nat, a <= e, e <= Len(s)
  PROVE  SubSeq(s, a + 1, e) \in Seq(S) /\ IsPart(SubSeq(s, a + 1, e), s, a, e - a)
<1>1. Len(s) \in Nat BY LenProperties
<1>2. \A i \in a + 1 .. e : s[i] \in S
  <2>1. \A i \in a + 1 .. e : i \in 1 .. Len(s) BY <1>1
  <2> QED BY <2>1, ElementOfSeq
<1>3. a + 1 \in Int /\ e \in Int OBVIOUS
<1> DEFINE c == a + 1
           u == SubSeq(s, c, e)
<1>4. /\ u \in Seq(S) /\ Len(u) = IF c <= e THEN e - c + 1 ELSE 0
      /\ \A i \in 1 .. e - c + 1 : u[i] = s[c + i - 1]
  <2>1. c \in Int /\ \A i \in c .. e : s[i] \in S BY <1>2
  <2> HIDE DEF c
  <2> QED BY ONLY <2>1, <1>3, SubSeqProperties
<1> HIDE DEF u
<1>5. Len(u) = e - a BY <1>4
<1>6. ASSUME NEW i \in 1 .. e - a PROVE u[i] = s[a + i]
  <2>1. i \in 1 .. e - c + 1 /\ c + i - 1 = a + i OBVIOUS
  <2> HIDE DEF c
  <2>2. u[i] = s[c + i - 1] BY <1>4, <2>1
  <2> QED BY <2>1, <2>2
<1>7. IsPart(u, s, a, e - a) BY <1>5, <1>6 DEF IsPart
<1> QED BY <1>4, <1>7 DEF u

\* A frame that is whole is taken out as it was put in.
LEMMA WholeFrame ==
  ASSUME NEW f \in Frames, NEW server \in BOOLEAN, NEW b, Starts(b, Wire(f, server)),
         HeaderThere(b), f.flaw # "huge"
  PROVE  /\ FrameSize(b) = Len(Wire(f, server))
         /\ Len(b) >= FrameSize(b) => FrameIn(b) = Received(f)
<1> DEFINE w == Wire(f, server)
           n == Len(f.payload)
           at == PayloadAt(b)
           raw == SubSeq(b, at + 1, FrameSize(b))
           key == SubSeq(b, at - 3, at)
<1>1. b \in Seq(Items) /\ Len(b) \in Nat BY LenProperties DEF Starts
<1>2. Len(b) >= 2 BY DEF HeaderThere
<1>3. /\ b[1] = FirstByte(f) /\ b[2] = SecondByte(f, server)
      /\ at = SizeOf(f) + IF MaskOf(f, server) THEN 4 ELSE 0
  BY <1>2, FirstBytes
<1>4. SizeOf(f) \in {2, 4, 10} /\ n \in Nat BY PartSizes, FrameFields, WsFrameAssumption
<1>5. at \in Nat BY <1>3, <1>4
<1>6. FrameSize(b) = at + n BY HeaderParsed DEF FrameSize
<1>7. Len(w) = at + n BY <1>3, WireLong
<1>8. ASSUME Len(b) >= FrameSize(b) PROVE FrameIn(b) = Received(f)
  <2>1. raw \in Seq(Items) /\ IsPart(raw, b, at, n)
    <3>1. at <= at + n /\ at + n <= Len(b) /\ at + n \in Nat /\ (at + n) - at = n
      BY <1>1, <1>4, <1>5, <1>6, <1>8
    <3> HIDE DEF at, n
    <3>2. /\ SubSeq(b, at + 1, at + n) \in Seq(Items)
          /\ IsPart(SubSeq(b, at + 1, at + n), b, at, (at + n) - at)
      BY <1>1, <1>5, <3>1, PartIs
    <3> QED BY <1>6, <3>1, <3>2
  <2>2. ASSUME NEW i \in 1 .. Len(BodyOf(f, server)) PROVE b[SizeOf(f) + i] = BodyOf(f, server)[i]
    <3>1. w[SizeOf(f) + i] = BodyOf(f, server)[i] /\ Len(w) = SizeOf(f) + Len(BodyOf(f, server))
      BY WireParts
    <3>2. Len(BodyOf(f, server)) \in Nat BY BodyIs, LenProperties
    <3>3. \A j \in 1 .. Len(b) : j <= Len(w) => b[j] = w[j] BY DEF Starts
    <3> HIDE DEF w, at, n
    <3>4. Len(w) <= Len(b) BY <1>6, <1>7, <1>8
    <3>5. Len(w) = SizeOf(f) + Len(BodyOf(f, server)) BY <3>1
    <3>6. SizeOf(f) + i \in 1 .. Len(b) /\ SizeOf(f) + i <= Len(w)
      BY <1>1, <1>4, <3>2, <3>4, <3>5
    <3> QED BY <3>1, <3>3, <3>6
  <2>3. CASE ~MaskOf(f, server)
    <3>1. BodyOf(f, server) = f.payload BY <2>3, BodyIs, Zenon
    <3>2. at = SizeOf(f) BY <1>3, <1>4, <2>3
    <3>3. raw \in Seq(Items) /\ Len(raw) = n /\ \A i \in 1 .. n : raw[i] = f.payload[i]
      <4> HIDE DEF raw, at
      <4> QED BY <2>1, <2>2, <3>1, <3>2 DEF IsPart
    <3>4. raw = f.payload
      <4>1. f.payload \in Seq({0, 1}) BY FrameFields
      <4>2. Len(f.payload) = n /\ DOMAIN f.payload = 1 .. n BY <4>1, LenProperties
      <4>3. DOMAIN raw = 1 .. n BY <3>3, LenProperties
      <4>4. raw = [i \in 1 .. n |-> raw[i]] BY <3>3, <4>3, LenProperties
      <4>5. f.payload = [i \in 1 .. n |-> f.payload[i]] BY <4>1, <4>2, LenProperties
      <4> HIDE DEF raw
      <4> QED BY <3>3, <4>4, <4>5
    <3>5. ~b[2].mask BY <1>3, <2>3 DEF SecondByte
    <3>6. FrameIn(b) = [op |-> b[1].op, fin |-> b[1].fin,
                        payload |-> IF b[2].mask THEN ApplyMask(raw, key) ELSE raw]
      BY Zenon DEF FrameIn
    <3> HIDE DEF raw, key
    <3> QED BY <1>3, <3>4, <3>5, <3>6 DEF Received, FirstByte
  <2>4. CASE MaskOf(f, server)
    <3>1. at = SizeOf(f) + 4 BY <1>3, <1>4, <2>4
    <3>2. /\ Len(BodyOf(f, server)) = 4 + n
          /\ \A i \in 1 .. 4 : BodyOf(f, server)[i] = MaskingKey[i]
          /\ \A i \in 1 .. n : BodyOf(f, server)[4 + i] = ApplyMask(f.payload, MaskingKey)[i]
      BY <2>4, BodyIs, Zenon
    <3>3. \A i \in 1 .. 4 : key[i] = MaskingKey[i]
      <4>1. key = SubSeq(b, SizeOf(f) + 1, SizeOf(f) + 4) BY <1>4, <3>1
      <4>2. SizeOf(f) \in Nat /\ SizeOf(f) + 4 \in Nat /\ SizeOf(f) <= SizeOf(f) + 4
            /\ SizeOf(f) + 4 <= Len(b)
        BY <1>1, <1>4, <1>6, <1>8, <3>1
      <4>3. IsPart(key, b, SizeOf(f), (SizeOf(f) + 4) - SizeOf(f)) BY <1>1, <4>1, <4>2, PartIs
      <4>4. (SizeOf(f) + 4) - SizeOf(f) = 4 BY <1>4
      <4>5. \A i \in 1 .. 4 : key[i] = b[SizeOf(f) + i] BY <4>3, <4>4 DEF IsPart
      <4>6. \A i \in 1 .. 4 : i \in 1 .. Len(BodyOf(f, server)) BY <1>4, <3>2
      <4> HIDE DEF key
      <4> QED BY <2>2, <3>2, <4>5, <4>6
    <3>4. ASSUME NEW i \in 1 .. n PROVE raw[i] = ApplyMask(f.payload, MaskingKey)[i]
      <4>1. raw[i] = b[at + i] BY <2>1 DEF IsPart
      <4>2. at + i = SizeOf(f) + (4 + i) /\ 4 + i \in 1 .. Len(BodyOf(f, server))
        BY <1>4, <3>1, <3>2
      <4>3. b[SizeOf(f) + (4 + i)] = BodyOf(f, server)[4 + i] BY <2>2, <4>2
      <4> HIDE DEF raw, at
      <4> QED BY <3>2, <4>1, <4>2, <4>3
    <3>5. f.payload \in Seq({0, 1}) BY FrameFields
    <3>6. DOMAIN raw = 1 .. n BY <2>1, LenProperties DEF IsPart
    <3>7. ApplyMask(raw, key) = f.payload
      <4> HIDE DEF raw, key
      <4> QED BY <3>3, <3>4, <3>5, <3>6, MaskTwice
    <3>8. b[2].mask BY <1>3, <2>4 DEF SecondByte
    <3>9. FrameIn(b) = [op |-> b[1].op, fin |-> b[1].fin,
                        payload |-> IF b[2].mask THEN ApplyMask(raw, key) ELSE raw]
      BY Zenon DEF FrameIn
    <3> HIDE DEF raw, key
    <3> QED BY <1>3, <3>7, <3>8, <3>9 DEF Received, FirstByte
  <2> QED BY <2>3, <2>4
<1> QED BY <1>6, <1>7, <1>8

\* A frame that is not all there is short of its size.
LEMMA ShortIs ==
  ASSUME NEW f \in Frames, NEW server \in BOOLEAN, NEW b, Starts(b, Wire(f, server)),
         \/ ~HeaderThere(b)
         \/ HeaderThere(b) /\ f.flaw # "huge" /\ Len(b) < FrameSize(b)
  PROVE  Len(b) < Len(Wire(f, server))
<1>1. Len(b) \in Nat BY LenProperties DEF Starts
<1>2. Len(Wire(f, server)) \in Nat /\ Len(Wire(f, server)) >= SizeOf(f) /\ SizeOf(f) \in {2, 4, 10}
  BY WireLong, PartSizes
<1>3. CASE HeaderThere(b) /\ f.flaw # "huge" /\ Len(b) < FrameSize(b)
  BY <1>3, WholeFrame
<1>4. CASE ~HeaderThere(b) /\ Len(b) >= 2
  <2>1. HeaderSize(b[2].code) = SizeOf(f) BY <1>4, FirstBytes
  <2>2. ~(Len(b) >= SizeOf(f)) BY <1>4, <2>1 DEF HeaderThere
  <2> QED BY <1>1, <1>2, <2>2
<1>5. CASE ~(Len(b) >= 2) BY <1>1, <1>2, <1>5
<1> QED BY <1>3, <1>4, <1>5

\* The frames that the frame loop takes at either end: those that are legal, and
\* those that are not and are tolerated.
TakenBy(f, server) ==
  /\ f.flaw \in {"none", "op", "overlong"} \/ (f.flaw = "mask" /\ ~server)
  /\ WithinLimit(f)

\* This is what they are at this end.
LEMMA TakenIs == \A f : TakenBy(f, wf_end.server) <=> Legal(f) \/ Tolerated(f)
BY DEF TakenBy, Legal, Tolerated

\* The frame loop finds the others bad.
LEMMA BadIsRefused ==
  ASSUME NEW f \in Frames, wf_end.server \in BOOLEAN, NEW b,
         Starts(b, Wire(f, wf_end.server)), HeaderThere(b)
  PROVE  BadFrame(b) <=> ~TakenBy(f, wf_end.server)
<1>1. Len(b) >= 2 BY DEF HeaderThere
<1>2. b[1] = FirstByte(f) /\ b[2] = SecondByte(f, wf_end.server) BY <1>1, FirstBytes
<1>3. b[1].rsv = (f.flaw = "rsv") /\ b[1].op = f.op /\ b[1].fin = f.fin BY <1>2 DEF FirstByte
<1>4. b[2].mask = (wf_end.server # (f.flaw = "mask")) BY <1>2 DEF SecondByte, MaskOf
<1>5. TopBit(b) <=> f.flaw = "huge" BY HeaderParsed
<1>6. CASE f.flaw = "huge" BY <1>5, <1>6 DEF BadFrame, TakenBy, WithinLimit
<1>7. CASE f.flaw # "huge"
  <2>1. PayloadLength(b) = Len(f.payload) BY <1>7, HeaderParsed
  <2>2. /\ f.op \in Opcodes /\ f.fin \in BOOLEAN
        /\ f.flaw \in {"none", "rsv", "mask", "huge", "op", "overlong"}
        /\ Len(f.payload) \in Nat /\ MaxFrameSize \in Nat /\ ShortLimit \in Nat
    BY FrameFields, WsFrameAssumption
  <2>3. /\ Len(f.payload) > MaxFrameSize <=> ~(Len(f.payload) <= MaxFrameSize)
        /\ Len(f.payload) >= ShortLimit <=> ~(Len(f.payload) < ShortLimit)
    BY <2>2
  <2> QED BY <1>3, <1>4, <1>5, <1>7, <2>1, <2>2, <2>3 DEF BadFrame, TakenBy, WithinLimit
<1> QED BY <1>6, <1>7

\* What the frame loop makes of the bytes there are.
LEMMA Judged ==
  ASSUME NEW f \in Frames, wf_end.server \in BOOLEAN, NEW b, Starts(b, Wire(f, wf_end.server)),
         NEW v, v = Verdict(b, BadFrame(b))
  PROVE  /\ v \in {"short", "protocol", "frame"}
         /\ v = "short" => Len(b) < Len(Wire(f, wf_end.server))
         /\ v = "protocol" => ~TakenBy(f, wf_end.server)
         /\ v = "frame" =>
              /\ TakenBy(f, wf_end.server) /\ FrameSize(b) = Len(Wire(f, wf_end.server))
              /\ FrameSize(b) <= Len(b) /\ FrameIn(b) = Received(f)
<1>1. HeaderThere(b) => (BadFrame(b) <=> ~TakenBy(f, wf_end.server)) BY BadIsRefused
<1>2. TakenBy(f, wf_end.server) => f.flaw # "huge" BY DEF TakenBy
<1>3. CASE v = "short"
  <2>1. \/ ~HeaderThere(b)
        \/ HeaderThere(b) /\ ~BadFrame(b) /\ Len(b) < FrameSize(b)
    BY <1>3 DEF Verdict
  <2> QED BY <1>1, <1>2, <1>3, <2>1, ShortIs
<1>4. CASE v = "protocol" BY <1>1, <1>4 DEF Verdict
<1>5. CASE v = "frame"
  <2>1. HeaderThere(b) /\ ~BadFrame(b) /\ ~(Len(b) < FrameSize(b)) BY <1>5 DEF Verdict
  <2>2. TakenBy(f, wf_end.server) /\ f.flaw # "huge" BY <1>1, <1>2, <2>1
  <2>3. FrameSize(b) = Len(Wire(f, wf_end.server)) BY <2>1, <2>2, WholeFrame
  <2>4. Len(b) \in Nat /\ FrameSize(b) \in Nat BY <2>3, WireLong, LenProperties DEF Starts
  <2>5. Len(b) >= FrameSize(b) BY <2>1, <2>4
  <2>6. FrameIn(b) = Received(f) BY <2>1, <2>2, <2>5, WholeFrame
  <2> QED BY <1>5, <2>2, <2>3, <2>4, <2>5, <2>6
<1>6. v \in {"short", "protocol", "frame"} BY DEF Verdict
<1> QED BY <1>3, <1>4, <1>5, <1>6

\* And what uvhttp_ws_recv_frame takes for a frame.
LEMMA JudgedByRecv ==
  ASSUME NEW f \in Frames, wf_end.server \in BOOLEAN, NEW b, Starts(b, Wire(f, wf_end.server)),
         NEW v, v = Verdict(b, BadToRecv(b)), v = "frame"
  PROVE  /\ FrameSize(b) = Len(Wire(f, wf_end.server))
         /\ FrameSize(b) <= Len(b) /\ FrameIn(b) = Received(f)
<1>1. HeaderThere(b) /\ ~BadToRecv(b) /\ ~(Len(b) < FrameSize(b)) BY DEF Verdict
<1>2. f.flaw # "huge" BY <1>1, HeaderParsed DEF BadToRecv
<1>3. FrameSize(b) = Len(Wire(f, wf_end.server)) BY <1>1, <1>2, WholeFrame
<1>4. Len(b) \in Nat /\ FrameSize(b) \in Nat BY <1>3, WireLong, LenProperties DEF Starts
<1>5. Len(b) >= FrameSize(b) BY <1>1, <1>4
<1>6. FrameIn(b) = Received(f) BY <1>1, <1>2, <1>5, WholeFrame
<1> QED BY <1>3, <1>4, <1>5, <1>6

-----------------------------------------------------------------------------
(* The buffer.                                                             *)

\* Doubling often enough reaches any size, so that only max_frame_size stops it.
LEMMA DoubledIs ==
  ASSUME NEW size \in Nat \ {0}, NEW need \in Nat
  PROVE  /\ Doubled(size, need) \in Nat
         /\ need > Doubled(size, need) => need > MaxFrameSize
<1> USE WsFrameAssumption
<1>1. CASE need <= size BY <1>1 DEF Doubled
<1>2. CASE ~(need <= size)
  <2> DEFINE g == Growing!RecOf(size, need, need)
  <2>1. Doubled(size, need) = Min({MaxFrameSize, g[need]})
    BY <1>2 DEF Doubled, Growing!RecOf, Growing!RecBy, GrowStep
  <2>2. Growing!RecBy(size, need, need, g) BY Growing!RecExists
  <2> HIDE DEF g
  <2>3. g = [k \in 0 .. need |-> IF k = 0 THEN size ELSE GrowStep(g[k - 1], k, need)]
    BY <2>2 DEF Growing!RecBy
  <2> DEFINE T == {k \in 0 .. need : ~(g[k] \in Nat /\ (g[k] >= need \/ g[k] >= k + 1))}
  <2>4. T = {}
    <3>1. SUFFICES ASSUME T # {} PROVE FALSE OBVIOUS
    <3>2. PICK k \in T : \A j \in T : k <= j
      <4> HIDE DEF T
      <4>1. T \in SUBSET Nat BY DEF T
      <4> QED BY <3>1, <4>1, LeastNat
    <3>3. k # 0 BY <2>3, <3>2
    <3>4. k - 1 \in 0 .. need /\ k \in 1 .. need /\ ~(k - 1 \in T) BY <3>2, <3>3
    <3>5. g[k - 1] \in Nat /\ (g[k - 1] >= need \/ g[k - 1] >= k) BY <3>4
    <3>6. g[k] = IF g[k - 1] < need THEN 2 * g[k - 1] ELSE g[k - 1]
      BY <2>3, <3>4 DEF GrowStep
    <3>7. g[k] \in Nat /\ (g[k] >= need \/ g[k] >= k + 1) BY <3>4, <3>5, <3>6
    <3> QED BY <3>2, <3>7
  <2>5. g[need] \in Nat /\ g[need] >= need
    <3>1. need \in 0 .. need OBVIOUS
    <3>2. g[need] \in Nat /\ (g[need] >= need \/ g[need] >= need + 1) BY <2>4, <3>1
    <3> QED BY <3>2
  <2> DEFINE M == {MaxFrameSize, g[need]}
  <2>6. M \in SUBSET Nat /\ M # {} BY <2>5
  <2>7. Min(M) \in M
    <3> HIDE DEF M
    <3> QED BY <2>6, MinIsLeast
  <2>8. Min(M) = MaxFrameSize \/ Min(M) = g[need] BY <2>7
  <2> QED BY <2>1, <2>5, <2>8
<1> QED BY <1>1, <1>2

-----------------------------------------------------------------------------
(* The stream.                                                             *)

\* The bytes that the receiver has not yet made a frame of, S, are the frames of
\* F after the first n, at[i] being where the i-th ends.  The last byte is
\* missing if the last frame was cut.
Laid(at, S, F, n, cut, server) ==
  /\ at \in [0 .. Len(F) -> Nat]
  /\ \A i \in 1 .. Len(F) : at[i] = at[i - 1] + Len(Wire(F[i], server))
  /\ \A i, j \in 0 .. Len(F) : i <= j => at[i] <= at[j]
  /\ Len(S) = (at[Len(F)] - at[n]) - IF cut THEN 1 ELSE 0
  /\ \A i \in n + 1 .. Len(F) : \A k \in 1 .. Len(Wire(F[i], server)) :
        (at[i - 1] - at[n]) + k <= Len(S) =>
           S[(at[i - 1] - at[n]) + k] = Wire(F[i], server)[k]

\* The first bytes are those of the next frame, all of them if none is missing.
LEMMA NextFrame ==
  ASSUME NEW F \in Seq(Frames), NEW n \in 0 .. Len(F), NEW cut \in BOOLEAN,
         NEW server \in BOOLEAN, NEW S \in Seq(Items), NEW at, Laid(at, S, F, n, cut, server)
  PROVE  /\ n = Len(F) => S = <<>>
         /\ n < Len(F) => /\ F[n + 1] \in Frames
                          /\ Starts(S, Wire(F[n + 1], server))
                          /\ ~cut => Len(S) >= Len(Wire(F[n + 1], server))
<1>1. Len(F) \in Nat /\ Len(S) \in Nat BY LenProperties
<1>2. at \in [0 .. Len(F) -> Nat] /\ Len(S) = (at[Len(F)] - at[n]) - IF cut THEN 1 ELSE 0
  BY DEF Laid
<1>3. at[n] \in Nat /\ at[Len(F)] \in Nat BY <1>1, <1>2
<1>4. ASSUME n = Len(F) PROVE S = <<>>
  <2>1. Len(S) = (at[n] - at[n]) - IF cut THEN 1 ELSE 0 BY <1>2, <1>4
  <2>2. Len(S) = 0 BY <1>1, <1>3, <2>1
  <2> QED BY <2>2, EmptySeq
<1>5. ASSUME n < Len(F)
      PROVE  /\ F[n + 1] \in Frames /\ Starts(S, Wire(F[n + 1], server))
             /\ ~cut => Len(S) >= Len(Wire(F[n + 1], server))
  <2> DEFINE m == n + 1
             w == Wire(F[m], server)
  <2>1. m \in 1 .. Len(F) /\ m \in n + 1 .. Len(F) /\ m - 1 = n /\ m \in 0 .. Len(F)
    BY <1>1, <1>5
  <2>2. F[m] \in Frames BY <2>1, ElementOfSeq
  <2>3. Len(w) \in Nat BY <2>2, WireLong
  <2> HIDE DEF m, w
  <2>4. at[m] = at[n] + Len(w) BY <2>1 DEF Laid, w
  <2>5. at[m] <= at[Len(F)] /\ at[m] \in Nat BY <1>1, <2>1 DEF Laid
  <2>6. \A k \in 1 .. Len(w) : (at[n] - at[n]) + k <= Len(S) => S[(at[n] - at[n]) + k] = w[k]
    BY <2>1 DEF Laid, w
  <2>7. \A k \in 1 .. Len(S) : k <= Len(w) => S[k] = w[k]
    <3>1. ASSUME NEW k \in 1 .. Len(S), k <= Len(w) PROVE S[k] = w[k]
      <4>1. k \in 1 .. Len(w) /\ (at[n] - at[n]) + k = k /\ k <= Len(S) BY <1>1, <1>3, <2>3, <3>1
      <4>2. S[(at[n] - at[n]) + k] = w[k] BY <2>6, <4>1
      <4> QED BY <4>1, <4>2
    <3> QED BY <3>1
  <2>8. ~cut => Len(S) >= Len(w) BY <1>2, <1>3, <2>3, <2>4, <2>5
  <2> QED BY <2>2, <2>7, <2>8 DEF Starts, m, w
<1> QED BY <1>1, <1>4, <1>5

\* A frame that is taken leaves the stream of the others.
LEMMA LaidTaken ==
  ASSUME NEW F \in Seq(Frames), NEW n \in 0 .. Len(F), n < Len(F), NEW cut \in BOOLEAN,
         NEW server \in BOOLEAN, NEW S \in Seq(Items), NEW at, Laid(at, S, F, n, cut, server),
         NEW c, c = Len(Wire(F[n + 1], server)), c <= Len(S)
  PROVE  /\ SubSeq(S, c + 1, Len(S)) \in Seq(Items)
         /\ Laid(at, SubSeq(S, c + 1, Len(S)), F, n + 1, cut, server)
<1> DEFINE m == n + 1
           T == SubSeq(S, c + 1, Len(S))
<1>1. Len(F) \in Nat /\ Len(S) \in Nat BY LenProperties
<1>2. m \in 1 .. Len(F) /\ m - 1 = n /\ m \in 0 .. Len(F) BY <1>1
<1>3. c \in Nat
  <2>1. F[m] \in Frames BY <1>2, ElementOfSeq
  <2> QED BY <2>1, WireLong
<1>4. T \in Seq(Items) /\ IsPart(T, S, c, Len(S) - c)
  <2>1. Len(S) <= Len(S) BY <1>1
  <2> QED BY <1>1, <1>3, <2>1, PartIs
<1> HIDE DEF m, T
<1>5. /\ at \in [0 .. Len(F) -> Nat]
      /\ \A i \in 1 .. Len(F) : at[i] = at[i - 1] + Len(Wire(F[i], server))
      /\ \A i, j \in 0 .. Len(F) : i <= j => at[i] <= at[j]
      /\ Len(S) = (at[Len(F)] - at[n]) - IF cut THEN 1 ELSE 0
      /\ \A i \in n + 1 .. Len(F) : \A k \in 1 .. Len(Wire(F[i], server)) :
            (at[i - 1] - at[n]) + k <= Len(S) =>
               S[(at[i - 1] - at[n]) + k] = Wire(F[i], server)[k]
  BY DEF Laid
<1>6. at[m] = at[n] + c
  <2>1. at[m] = at[m - 1] + Len(Wire(F[m], server)) BY <1>2, <1>5
  <2>2. Len(Wire(F[m], server)) = c BY DEF m
  <2> QED BY <1>2, <2>1, <2>2
<1>7. at[n] \in Nat /\ at[m] \in Nat /\ at[Len(F)] \in Nat
  <2>1. Len(F) \in 0 .. Len(F) /\ n \in 0 .. Len(F) BY <1>1
  <2>2. at \in [0 .. Len(F) -> Nat] BY <1>5
  <2> QED BY ONLY <1>2, <2>1, <2>2
<1>8. Len(T) = Len(S) - c BY <1>4 DEF IsPart
<1>9. Len(T) = (at[Len(F)] - at[m]) - IF cut THEN 1 ELSE 0
  BY <1>1, <1>3, <1>5, <1>6, <1>7, <1>8
<1>10. ASSUME NEW i \in m + 1 .. Len(F), NEW k \in 1 .. Len(Wire(F[i], server)),
              (at[i - 1] - at[m]) + k <= Len(T)
       PROVE  T[(at[i - 1] - at[m]) + k] = Wire(F[i], server)[k]
  <2>1. i \in n + 1 .. Len(F) /\ i \in 1 .. Len(F) /\ i - 1 \in 0 .. Len(F) /\ m <= i - 1
    BY <1>1, <1>2
  <2>2. at[i - 1] \in Nat /\ at[m] <= at[i - 1] BY <1>2, <1>5, <2>1
  <2>3. k \in Nat /\ k >= 1
    <3>1. F[i] \in Frames BY <2>1, ElementOfSeq
    <3>2. Len(Wire(F[i], server)) \in Nat BY <3>1, WireLong
    <3> QED BY <3>2
  <2> DEFINE x == (at[i - 1] - at[m]) + k
             y == (at[i - 1] - at[n]) + k
  <2>4. x \in 1 .. Len(S) - c /\ c + x = y /\ y <= Len(S)
    <3> DEFINE a == at[i - 1]
               b == at[n]
               s == Len(S)
    <3>1. a \in Nat /\ b \in Nat /\ s \in Nat BY <1>1, <1>7, <2>2
    <3>2. b + c <= a /\ (a - (b + c)) + k <= s - c BY <1>6, <1>8, <1>10, <2>2
    <3>3. x = (a - (b + c)) + k /\ y = (a - b) + k BY <1>6
    <3> HIDE DEF a, b, s, x, y
    <3>4. x \in 1 .. s - c /\ c + x = y /\ y <= s BY ONLY <1>3, <2>3, <3>1, <3>2, <3>3
    <3> QED BY <3>4 DEF s
  <2>5. S[y] = Wire(F[i], server)[k] BY <1>5, <2>1, <2>4
  <2> HIDE DEF x, y
  <2>6. T[x] = S[c + x] BY <1>4, <2>4 DEF IsPart
  <2> QED BY <2>4, <2>5, <2>6 DEF x
<1>11. Laid(at, T, F, m, cut, server) BY <1>5, <1>9, <1>10 DEF Laid
<1> QED BY <1>4, <1>11 DEF m, T

\* A frame that is sent comes after the others.
LEMMA LaidSent ==
  ASSUME NEW F \in Seq(Frames), NEW n \in 0 .. Len(F), NEW server \in BOOLEAN,
         NEW S \in Seq(Items), NEW at, Laid(at, S, F, n, FALSE, server), NEW f \in Frames,
         NEW c \in {Len(Wire(f, server)), Len(Wire(f, server)) - 1}
  PROVE  /\ SubSeq(Wire(f, server), 1, c) \in Seq(Items)
         /\ \E to : Laid(to, S \o SubSeq(Wire(f, server), 1, c), Append(F, f), n,
                         c < Len(Wire(f, server)), server)
<1> DEFINE w == Wire(f, server)
           p == SubSeq(w, 1, c)
           N == Len(F)
           G == Append(F, f)
           T == S \o p
           to == [i \in 0 .. N + 1 |-> IF i = N + 1 THEN at[N] + Len(w) ELSE at[i]]
<1>1. N \in Nat /\ Len(S) \in Nat BY LenProperties
<1>2. w \in Seq(Items) /\ Len(w) \in Nat /\ Len(w) >= 2
  <2>1. w \in Seq(Items) BY WireParts
  <2>2. Len(w) \in Nat /\ Len(w) >= SizeOf(f) /\ SizeOf(f) \in {2, 4, 10} BY WireLong, PartSizes
  <2> HIDE DEF w
  <2> QED BY <2>1, <2>2
<1>3. c \in Nat /\ c <= Len(w) BY <1>2
<1>4. p \in Seq(Items) /\ IsPart(p, w, 0, c)
  <2> HIDE DEF w
  <2>1. 0 + 1 = 1 /\ c - 0 = c /\ 0 <= c /\ 0 \in Nat BY <1>3
  <2>2. SubSeq(w, 0 + 1, c) \in Seq(Items) /\ IsPart(SubSeq(w, 0 + 1, c), w, 0, c - 0)
    BY ONLY <1>2, <1>3, <2>1, PartIs, Zenon
  <2> QED BY <2>1, <2>2
<1>5. T \in Seq(Items) /\ IsJoin(T, S, p)
  <2> HIDE DEF p
  <2> QED BY <1>4, Joined, Zenon
<1>6. /\ G \in Seq(Frames) /\ Len(G) = N + 1 /\ G[N + 1] = f
      /\ \A i \in 1 .. N : G[i] = F[i]
  BY AppendProperties
<1>7. /\ at \in [0 .. N -> Nat]
      /\ \A i \in 1 .. N : at[i] = at[i - 1] + Len(Wire(F[i], server))
      /\ \A i, j \in 0 .. N : i <= j => at[i] <= at[j]
      /\ Len(S) = at[N] - at[n]
      /\ \A i \in n + 1 .. N : \A k \in 1 .. Len(Wire(F[i], server)) :
            (at[i - 1] - at[n]) + k <= Len(S) =>
               S[(at[i - 1] - at[n]) + k] = Wire(F[i], server)[k]
  <2>1. Len(S) = (at[N] - at[n]) - 0 BY DEF Laid
  <2>2. at \in [0 .. N -> Nat] /\ N \in 0 .. N /\ n \in 0 .. N BY <1>1 DEF Laid
  <2> HIDE DEF N
  <2>3. Len(S) = at[N] - at[n] BY <2>1, <2>2
  <2> QED BY <2>3 DEF Laid, N
<1> HIDE DEF w, p, N, G, T
<1>8. n \in 0 .. N BY DEF N
<1>9. at[N] \in Nat /\ at[n] \in Nat /\ at[n] <= at[N] BY <1>1, <1>7, <1>8
<1>10. /\ to \in [0 .. N + 1 -> Nat] /\ to[N + 1] = at[N] + Len(w)
       /\ \A i \in 0 .. N : to[i] = at[i]
  BY <1>1, <1>2, <1>7, <1>9
<1> HIDE DEF to
<1>11. ASSUME NEW i \in 1 .. N + 1 PROVE to[i] = to[i - 1] + Len(Wire(G[i], server))
  <2>1. CASE i = N + 1
    <3>1. G[i] = f /\ i - 1 = N /\ N \in 0 .. N BY <1>1, <1>6, <2>1
    <3> QED BY <1>10, <2>1, <3>1 DEF w
  <2>2. CASE i # N + 1
    <3>1. i \in 1 .. N /\ i \in 0 .. N /\ i - 1 \in 0 .. N BY <1>1, <2>2
    <3> QED BY <1>6, <1>7, <1>10, <3>1
  <2> QED BY <2>1, <2>2
<1>12. ASSUME NEW i \in 0 .. N + 1, NEW j \in 0 .. N + 1, i <= j PROVE to[i] <= to[j]
  <2>1. CASE j # N + 1
    <3>1. i \in 0 .. N /\ j \in 0 .. N BY <1>1, <1>12, <2>1
    <3> QED BY <1>7, <1>10, <1>12, <3>1
  <2>2. CASE j = N + 1 /\ i # N + 1
    <3>1. i \in 0 .. N /\ N \in 0 .. N /\ i <= N BY <1>1, <1>12, <2>2
    <3>2. at[i] <= at[N] /\ at[i] \in Nat BY <1>7, <3>1
    <3> QED BY <1>2, <1>9, <1>10, <2>2, <3>1, <3>2
  <2>3. CASE j = N + 1 /\ i = N + 1 BY <1>2, <1>9, <1>10, <2>3
  <2> QED BY <2>1, <2>2, <2>3
<1>13. Len(p) = c /\ Len(T) = Len(S) + c BY <1>4, <1>5 DEF IsPart, IsJoin
<1>14. to[n] = at[n] BY <1>8, <1>10
<1>15. Len(T) = (to[N + 1] - to[n]) - IF c < Len(w) THEN 1 ELSE 0
  <2>1. Len(T) = (at[N] - at[n]) + c BY <1>7, <1>13
  <2>2. c = Len(w) \/ c = Len(w) - 1 BY DEF w
  <2> QED BY <1>2, <1>9, <1>10, <1>14, <2>1, <2>2
<1>16. ASSUME NEW i \in n + 1 .. N + 1, NEW k \in 1 .. Len(Wire(G[i], server)),
              (to[i - 1] - to[n]) + k <= Len(T)
       PROVE  T[(to[i - 1] - to[n]) + k] = Wire(G[i], server)[k]
  <2>1. CASE i = N + 1
    <3>1. G[i] = f /\ i - 1 = N /\ N \in 0 .. N BY <1>1, <1>6, <2>1
    <3>2. to[i - 1] - to[n] = Len(S) BY <1>7, <1>10, <1>14, <3>1
    <3>3. k \in 1 .. Len(w) /\ Len(S) + k <= Len(S) + c BY <1>13, <1>16, <3>1, <3>2 DEF w
    <3>4. k \in 1 .. c BY <1>1, <1>2, <1>3, <3>3
    <3>5. T[Len(S) + k] = p[k] BY <1>5, <1>13, <3>4 DEF IsJoin
    <3>6. p[k] = w[0 + k] /\ 0 + k = k BY <1>2, <1>4, <3>3, <3>4 DEF IsPart
    <3> QED BY <3>1, <3>2, <3>5, <3>6 DEF w
  <2>2. CASE i # N + 1
    <3>1. i \in n + 1 .. N /\ i \in 1 .. N /\ i - 1 \in 0 .. N /\ i \in 0 .. N /\ n <= i - 1
      BY <1>1, <1>8, <2>2
    <3>2. G[i] = F[i] /\ to[i - 1] = at[i - 1] BY <1>6, <1>10, <3>1
    <3> DEFINE L == Len(Wire(F[i], server))
               x == (at[i - 1] - at[n]) + k
    <3>3. at[i] = at[i - 1] + L /\ at[i] <= at[N] /\ at[i - 1] \in Nat /\ at[n] <= at[i - 1]
      <4>1. N \in 0 .. N /\ i <= N BY <1>1, <3>1
      <4> QED BY <1>7, <1>8, <3>1, <4>1
    <3>4. L \in Nat
      <4>1. F[i] \in Frames BY <3>1, ElementOfSeq DEF N
      <4> QED BY <4>1, WireLong
    <3>5. k \in 1 .. L BY <3>2
    <3> HIDE DEF L
    <3>6. x <= Len(S) /\ x \in 1 .. Len(S)
      <4>1. \A a, b, l, e \in Nat : \A q \in 1 .. l :
               a + l <= e /\ b <= a => (a - b) + q \in 1 .. e - b /\ (a - b) + q <= e - b
        OBVIOUS
      <4>2. at[i - 1] + L <= at[N] BY <3>3
      <4> QED BY <1>7, <1>9, <3>3, <3>4, <3>5, <4>1, <4>2
    <3>7. S[x] = Wire(F[i], server)[k] BY <1>7, <3>1, <3>5, <3>6 DEF L
    <3>8. (to[i - 1] - to[n]) + k = x BY <1>14, <3>2
    <3> HIDE DEF x
    <3>9. T[x] = S[x] BY <1>5, <3>6 DEF IsJoin
    <3> QED BY <3>2, <3>7, <3>8, <3>9
  <2> QED BY <2>1, <2>2
<1>17. Laid(to, T, G, n, c < Len(w), server)
  BY <1>6, <1>10, <1>11, <1>12, <1>15, <1>16 DEF Laid
<1> QED BY <1>4, <1>17 DEF w, p, G, T

\* A sequence is its beginning and the rest.
LEMMA SplitSeq ==
  ASSUME NEW S, NEW s \in Seq(S), NEW k \in Nat, k <= Len(s)
  PROVE  /\ SubSeq(s, 1, k) \in Seq(S) /\ Len(SubSeq(s, 1, k)) = k
         /\ \A i \in 1 .. k : SubSeq(s, 1, k)[i] = s[i]
         /\ SubSeq(s, k + 1, Len(s)) \in Seq(S)
         /\ SubSeq(s, 1, k) \o SubSeq(s, k + 1, Len(s)) = s
<1> DEFINE n == Len(s)
           a == SubSeq(s, 1, k)
           z == SubSeq(s, k + 1, n)
<1>1. n \in Nat BY LenProperties
<1>2. a \in Seq(S) /\ IsPart(a, s, 0, k)
  <2>1. 0 + 1 = 1 /\ k - 0 = k /\ 0 <= k /\ 0 \in Nat OBVIOUS
  <2>2. SubSeq(s, 0 + 1, k) \in Seq(S) /\ IsPart(SubSeq(s, 0 + 1, k), s, 0, k - 0)
    BY <2>1, PartIs, Zenon
  <2> QED BY <2>1, <2>2
<1>3. z \in Seq(S) /\ IsPart(z, s, k, n - k)
  <2>1. n <= n BY <1>1
  <2> HIDE DEF n
  <2>2. n = Len(s) BY DEF n
  <2> QED BY <1>1, <2>1, <2>2, PartIs
<1> HIDE DEF a, z
<1>4. a \o z \in Seq(S) /\ IsJoin(a \o z, a, z) BY <1>2, <1>3, Joined, Zenon
<1>5. Len(a) = k /\ Len(z) = n - k BY <1>2, <1>3 DEF IsPart
<1>6. \A i \in 1 .. k : a[i] = s[i]
  <2>1. ASSUME NEW i \in 1 .. k PROVE a[i] = s[i]
    <3>1. a[i] = s[0 + i] /\ 0 + i = i BY <1>2 DEF IsPart
    <3> QED BY <3>1
  <2> QED BY <2>1
<1> DEFINE u == a \o z
<1>7. u \in Seq(S) /\ IsJoin(u, a, z) BY <1>4
<1> HIDE DEF u
<1>8. Len(u) = n BY <1>1, <1>5, <1>7 DEF IsJoin
<1>9. ASSUME NEW i \in 1 .. n PROVE u[i] = s[i]
  <2>1. CASE i <= k
    <3>1. i \in 1 .. k BY <1>1, <2>1
    <3> QED BY <1>5, <1>6, <1>7, <3>1 DEF IsJoin
  <2>2. CASE ~(i <= k)
    <3> DEFINE j == i - k
    <3>1. j \in 1 .. n - k /\ k + j = i BY <1>1, <2>2
    <3> HIDE DEF j
    <3>2. u[k + j] = z[j] /\ z[j] = s[k + j] BY <1>3, <1>5, <1>7, <3>1 DEF IsJoin, IsPart
    <3> QED BY <3>1, <3>2
  <2> QED BY <2>1, <2>2
<1>10. u = s
  <2>1. Len(u) = Len(s) /\ \A i \in 1 .. Len(u) : u[i] = s[i] BY <1>8, <1>9
  <2> QED BY <1>7, <2>1, SeqEqual
<1> QED BY <1>2, <1>3, <1>5, <1>6, <1>10 DEF a, z, u

\* Taking from the front of two sequences.
LEMMA FrontTaken ==
  ASSUME NEW S, NEW s \in Seq(S), NEW t \in Seq(S), NEW c \in Nat, c <= Len(s)
  PROVE  SubSeq(s, c + 1, Len(s)) \o t = SubSeq(s \o t, c + 1, Len(s \o t))
<1> DEFINE u == s \o t
           z == SubSeq(s, c + 1, Len(s))
           y == SubSeq(u, c + 1, Len(u))
           x == z \o t
<1>1. Len(s) \in Nat /\ Len(t) \in Nat BY LenProperties
<1>2. u \in Seq(S) /\ IsJoin(u, s, t) BY Joined, Zenon
<1> HIDE DEF u
<1>3. Len(u) = Len(s) + Len(t) BY <1>2 DEF IsJoin
<1>4. z \in Seq(S) /\ IsPart(z, s, c, Len(s) - c)
  <2>1. Len(s) <= Len(s) BY <1>1
  <2> QED BY <1>1, <2>1, PartIs
<1>5. y \in Seq(S) /\ IsPart(y, u, c, Len(u) - c)
  <2>1. Len(u) <= Len(u) /\ Len(u) \in Nat /\ c <= Len(u) BY <1>1, <1>3
  <2> QED BY <1>2, <2>1, PartIs
<1> HIDE DEF z, y
<1>6. x \in Seq(S) /\ IsJoin(x, z, t) BY <1>4, Joined, Zenon
<1> HIDE DEF x
<1>7. Len(z) = Len(s) - c /\ Len(x) = Len(z) + Len(t) /\ Len(y) = Len(u) - c
  BY <1>4, <1>5, <1>6 DEF IsPart, IsJoin
<1>8. Len(x) = Len(y) BY <1>1, <1>3, <1>7
<1>9. ASSUME NEW i \in 1 .. Len(x) PROVE x[i] = y[i]
  <2>1. i \in 1 .. Len(u) - c BY <1>7, <1>8
  <2>2. y[i] = u[c + i] BY <1>5, <2>1 DEF IsPart
  <2>3. CASE i <= Len(z)
    <3>1. i \in 1 .. Len(z) /\ i \in 1 .. Len(s) - c /\ c + i \in 1 .. Len(s) BY <1>1, <1>7, <2>3
    <3>2. x[i] = z[i] /\ z[i] = s[c + i] /\ u[c + i] = s[c + i]
      BY <1>2, <1>4, <1>6, <3>1 DEF IsPart, IsJoin
    <3> QED BY <2>2, <3>2
  <2>4. CASE ~(i <= Len(z))
    <3> DEFINE j == i - Len(z)
    <3>1. j \in 1 .. Len(t) /\ Len(z) + j = i /\ c + i = Len(s) + j BY <1>1, <1>7, <2>4
    <3> HIDE DEF j
    <3>2. x[Len(z) + j] = t[j] /\ u[Len(s) + j] = t[j] BY <1>2, <1>6, <3>1 DEF IsJoin
    <3> QED BY <2>2, <3>1, <3>2
  <2> QED BY <2>3, <2>4
<1>10. x = y BY <1>5, <1>6, <1>8, <1>9, SeqEqual
<1> QED BY <1>10 DEF x, y, z, u

-----------------------------------------------------------------------------
(* The invariant.  It is stated of the values of the variables: what has   *)
(* been received, the stream that is not yet received, what an idle        *)
(* receiver has in its buffer, and why it has failed.                      *)

FrameTypes(e, s, w, r, g) ==
  /\ e \in [server : BOOLEAN, by : {"process_data", "recv_frame"}]
  /\ s \in [frames : Seq(Frames), cut : BOOLEAN]
  /\ w \in Seq(Items) /\ r \in [bytes : Seq(Items), size : Nat \ {0}]
  /\ g \in Seq({Received(f) : f \in Frames}) /\ Len(g) \in 0 .. Len(s.frames)
  /\ e.by = "recv_frame" => r.bytes = <<>>

GotOK(e, F, g) ==
  /\ \A i \in 1 .. Len(g) : g[i] = Received(F[i])
  /\ e.by = "process_data" => \A i \in 1 .. Len(g) : TakenBy(F[i], e.server)

StreamOK(e, s, S, n) == \E at : Laid(at, S, s.frames, n, s.cut, e.server)

\* An idle receiver lacks a byte of the next frame at least.
IdleOK(e, F, b, n) ==
  b = <<>> \/ (n < Len(F) /\ Len(b) < Len(Wire(F[n + 1], e.server)))

FailedOK(e, F, n, state) ==
  /\ state = "protocol" => n < Len(F) /\ ~TakenBy(F[n + 1], e.server)
  /\ state = "limit" =>
       \E i \in 1 .. Len(F) : Len(Wire(F[i], e.server)) + MaxRead > MaxFrameSize

FramesOK(e, s, w, r, g, state) ==
  /\ FrameTypes(e, s, w, r, g) /\ GotOK(e, s.frames, g)
  /\ state \in {"idle", "loop"} => StreamOK(e, s, r.bytes \o w, Len(g))
  /\ state = "loop" => e.by = "process_data"
  /\ e.by = "process_data" =>
       /\ state = "idle" => IdleOK(e, s.frames, r.bytes, Len(g))
       /\ FailedOK(e, s.frames, Len(g), state)

FrameInv == FramesOK(wf_end, wf_sent, wf_wire, wf_recv, wf_got, wf_state)

\* Nothing has been sent.
LEMMA FramesStart == WsFrameInit => FrameInv
<1>1. SUFFICES ASSUME WsFrameInit PROVE FrameInv OBVIOUS
<1> USE DEF WsFrameInit
<1>2. <<>> \in Seq(Items) /\ <<>> \in Seq(Frames) /\ <<>> \in Seq({Received(f) : f \in Frames})
      /\ Len(<<>>) = 0
  BY EmptySeq
<1>3. FrameTypes(wf_end, wf_sent, wf_wire, wf_recv, wf_got)
  <2>1. wf_recv \in [bytes : Seq(Items), size : Nat \ {0}] BY <1>1, <1>2, WsFrameAssumption
  <2>2. wf_sent \in [frames : Seq(Frames), cut : BOOLEAN] BY <1>1, <1>2
  <2>3. wf_end \in [server : BOOLEAN, by : {"process_data", "recv_frame"}] BY <1>1
  <2>4. Len(wf_got) \in 0 .. Len(wf_sent.frames) BY <1>1
  <2> QED BY <1>1, <1>2, <2>1, <2>2, <2>3, <2>4 DEF FrameTypes
<1>4. GotOK(wf_end, wf_sent.frames, wf_got) BY <1>1 DEF GotOK
<1>5. StreamOK(wf_end, wf_sent, wf_recv.bytes \o wf_wire, Len(wf_got))
  <2> DEFINE at == [i \in 0 .. 0 |-> 0]
  <2>1. <<>> \o <<>> = <<>> BY EmptySeq, ConcatEmptySeq
  <2>2. wf_recv.bytes \o wf_wire = <<>> /\ wf_sent.frames = <<>> /\ Len(wf_got) = 0 /\ ~wf_sent.cut
    BY <1>1, <1>2, <2>1
  <2>3. Laid(at, <<>>, <<>>, 0, wf_sent.cut, wf_end.server) BY <1>2, <2>2 DEF Laid
  <2> QED BY <2>2, <2>3 DEF StreamOK
<1>6. IdleOK(wf_end, wf_sent.frames, wf_recv.bytes, Len(wf_got)) BY <1>1 DEF IdleOK
<1>7. FailedOK(wf_end, wf_sent.frames, Len(wf_got), wf_state) BY <1>1 DEF FailedOK
<1>8. wf_state = "idle" BY <1>1
<1> QED BY <1>3, <1>4, <1>5, <1>6, <1>7, <1>8 DEF FrameInv, FramesOK

\* Sending a frame, or all of it but its last byte.
LEMMA SendFrameStep ==
  ASSUME FrameInv, NEW f \in Frames, SendFrame(f)
  PROVE  FrameInv'
<1> DEFINE e == wf_end
           F == wf_sent.frames
           G == Append(F, f)
           n == Len(wf_got)
           W == Wire(f, e.server)
<1>1. FramesOK(e, wf_sent, wf_wire, wf_recv, wf_got, wf_state) BY DEF FrameInv
<1>2. FrameTypes(e, wf_sent, wf_wire, wf_recv, wf_got) BY <1>1 DEF FramesOK
<1>3. /\ e.server \in BOOLEAN /\ F \in Seq(Frames) /\ wf_wire \in Seq(Items)
      /\ wf_recv.bytes \in Seq(Items) /\ n \in 0 .. Len(F)
  BY <1>2 DEF FrameTypes
<1>4. BuildFrame(f) = W BY BuildIs
<1>5. /\ UNCHANGED <<wf_end, wf_recv, wf_got, wf_state>> /\ ~wf_sent.cut
      /\ \E k \in {Len(W), Len(W) - 1} :
            /\ wf_wire' = wf_wire \o SubSeq(W, 1, k)
            /\ wf_sent' = [frames |-> G, cut |-> k < Len(W)]
  BY <1>4 DEF SendFrame
<1>6. PICK k \in {Len(W), Len(W) - 1} :
            /\ wf_wire' = wf_wire \o SubSeq(W, 1, k)
            /\ wf_sent' = [frames |-> G, cut |-> k < Len(W)]
  BY <1>5
<1> DEFINE P == SubSeq(W, 1, k)
<1>7. Len(F) \in Nat /\ Len(W) \in Nat BY <1>3, LenProperties, WireLong
<1>8. P \in Seq(Items)
  <2>1. W \in Seq(Items) /\ Len(W) >= 2
    <3>1. W \in Seq(Items) BY <1>3, WireParts
    <3>2. Len(W) >= SizeOf(f) /\ SizeOf(f) \in {2, 4, 10} BY <1>3, WireLong, PartSizes
    <3> HIDE DEF W
    <3> QED BY <1>7, <3>1, <3>2
  <2>2. k \in Nat /\ k <= Len(W) BY <1>7, <2>1
  <2> HIDE DEF W
  <2> QED BY <2>1, <2>2, SplitSeq
<1>9. G \in Seq(Frames) /\ Len(G) = Len(F) + 1 /\ \A i \in 1 .. Len(F) : G[i] = F[i]
  BY <1>3, AppendProperties
<1>10. wf_sent'.frames = G /\ wf_sent'.cut = (k < Len(W)) BY <1>6
<1>11. FrameTypes(e, wf_sent', wf_wire', wf_recv, wf_got)
  <2>1. wf_wire' \in Seq(Items) BY <1>3, <1>6, <1>8, ConcatProperties
  <2>2. wf_sent' \in [frames : Seq(Frames), cut : BOOLEAN] BY <1>6, <1>9
  <2>3. n \in 0 .. Len(G) BY <1>3, <1>7, <1>9
  <2> QED BY <1>2, <1>10, <2>1, <2>2, <2>3 DEF FrameTypes
<1>12. GotOK(e, G, wf_got)
  <2>1. GotOK(e, F, wf_got) BY <1>1 DEF FramesOK
  <2>2. \A i \in 1 .. n : G[i] = F[i] BY <1>3, <1>7, <1>9
  <2> HIDE DEF G
  <2> QED BY <2>1, <2>2 DEF GotOK
<1>13. ASSUME wf_state \in {"idle", "loop"}
       PROVE  StreamOK(e, wf_sent', wf_recv.bytes \o wf_wire', n)
  <2> DEFINE S == wf_recv.bytes \o wf_wire
  <2>1. PICK at : Laid(at, S, F, n, wf_sent.cut, e.server)
    BY <1>1, <1>13 DEF FramesOK, StreamOK
  <2>2. S \in Seq(Items) BY <1>3, ConcatProperties
  <2>3. wf_sent.cut = FALSE
    <3>1. wf_sent.cut \in BOOLEAN BY <1>2 DEF FrameTypes
    <3> QED BY <1>5, <3>1
  <2>4. S \o P = wf_recv.bytes \o wf_wire'
    <3> HIDE DEF P
    <3> DEFINE b == wf_recv.bytes
    <3>1. (b \o wf_wire) \o P = b \o (wf_wire \o P)
      <4>1. b \in Seq(Items) /\ wf_wire \in Seq(Items) /\ P \in Seq(Items) BY <1>3, <1>8
      <4> HIDE DEF b
      <4> QED BY ONLY <4>1, ConcatAssociative
    <3>2. wf_wire' = wf_wire \o P BY <1>6 DEF P
    <3> QED BY <3>1, <3>2, Zenon
  <2>5. Laid(at, S, F, n, FALSE, e.server) BY <2>1, <2>3
  <2> HIDE DEF S
  <2>6. \E to : Laid(to, S \o P, G, n, k < Len(W), e.server) BY <1>3, <2>2, <2>5, LaidSent
  <2> HIDE DEF P, G, W
  <2> QED BY <1>10, <2>4, <2>6 DEF StreamOK
<1>14. ASSUME e.by = "process_data"
       PROVE  /\ wf_state = "idle" => IdleOK(e, G, wf_recv.bytes, n)
              /\ FailedOK(e, G, n, wf_state)
  <2>1. /\ wf_state = "idle" => IdleOK(e, F, wf_recv.bytes, n)
        /\ FailedOK(e, F, n, wf_state)
    BY <1>1, <1>14 DEF FramesOK
  <2>2. n < Len(F) => n < Len(G) /\ G[n + 1] = F[n + 1]
    <3>1. n < Len(F) => n + 1 \in 1 .. Len(F) BY <1>3, <1>7
    <3> QED BY <1>3, <1>7, <1>9, <3>1
  <2>3. \A i \in 1 .. Len(F) : i \in 1 .. Len(G) /\ G[i] = F[i] BY <1>7, <1>9
  <2> HIDE DEF G
  <2> QED BY <2>1, <2>2, <2>3 DEF IdleOK, FailedOK
<1>15. wf_state = "loop" => e.by = "process_data" BY <1>1 DEF FramesOK
<1>16. FramesOK(e, wf_sent', wf_wire', wf_recv, wf_got, wf_state)
  <2> HIDE DEF G, W
  <2> QED BY <1>10, <1>11, <1>12, <1>13, <1>14, <1>15 DEF FramesOK
<1> QED BY <1>5, <1>16 DEF FrameInv

\* The next bytes are put into the buffer, or there is no room for them.
LEMMA ProcessDataStep ==
  ASSUME FrameInv, NEW c \in 1 .. MaxRead, ProcessData(c)
  PROVE  FrameInv'
<1> DEFINE e == wf_end
           F == wf_sent.frames
           n == Len(wf_got)
           b == wf_recv.bytes
           need == Len(b) + c
           size == Doubled(wf_recv.size, need)
           rest == SubSeq(wf_wire, c + 1, Len(wf_wire))
           more == SubSeq(wf_wire, 1, c)
<1>1. FramesOK(e, wf_sent, wf_wire, wf_recv, wf_got, wf_state) BY DEF FrameInv
<1>2. FrameTypes(e, wf_sent, wf_wire, wf_recv, wf_got) BY <1>1 DEF FramesOK
<1>3. /\ e.server \in BOOLEAN /\ F \in Seq(Frames) /\ wf_wire \in Seq(Items) /\ b \in Seq(Items)
      /\ n \in 0 .. Len(F) /\ wf_recv.size \in Nat \ {0} /\ wf_sent.cut \in BOOLEAN
  BY <1>2 DEF FrameTypes
<1>4. /\ e.by = "process_data" /\ wf_state = "idle" /\ c <= Len(wf_wire)
      /\ wf_wire' = rest /\ UNCHANGED <<wf_end, wf_sent, wf_got>>
      /\ \/ /\ need <= size /\ wf_state' = "loop"
            /\ wf_recv' = [bytes |-> b \o more, size |-> size]
         \/ need > size /\ wf_state' = "limit" /\ UNCHANGED wf_recv
         \/ wf_state' = "memory" /\ UNCHANGED wf_recv
  BY DEF ProcessData
<1>5. c \in Nat /\ c >= 1 /\ c <= MaxRead BY WsFrameAssumption
<1>6. Len(F) \in Nat /\ Len(b) \in Nat /\ Len(wf_wire) \in Nat BY <1>3, LenProperties
<1>7. need \in Nat BY <1>5, <1>6
<1>8. more \in Seq(Items) /\ rest \in Seq(Items) /\ more \o rest = wf_wire
  BY <1>3, <1>4, <1>5, SplitSeq
<1>9. size \in Nat /\ (need > size => need > MaxFrameSize)
  <2> HIDE DEF need
  <2> QED BY <1>3, <1>7, DoubledIs
<1> DEFINE S == b \o wf_wire
<1>10. PICK at : Laid(at, S, F, n, wf_sent.cut, e.server) BY <1>1, <1>4 DEF FramesOK, StreamOK
<1>11. IdleOK(e, F, b, n) /\ GotOK(e, F, wf_got) BY <1>1, <1>4 DEF FramesOK
<1>12. CASE need <= size /\ wf_state' = "loop" /\ wf_recv' = [bytes |-> b \o more, size |-> size]
  <2>1. wf_recv'.bytes = b \o more BY <1>12
  <2> HIDE DEF more, rest, size, need
  <2>2. b \o more \in Seq(Items) BY <1>3, <1>8, ConcatProperties
  <2>3. wf_recv' \in [bytes : Seq(Items), size : Nat \ {0}]
    <3>1. size # 0 BY <1>5, <1>6, <1>9, <1>12 DEF need
    <3> QED BY <1>9, <1>12, <2>2, <3>1
  <2>4. FrameTypes(e, wf_sent, rest, wf_recv', wf_got) BY <1>2, <1>4, <1>8, <2>3 DEF FrameTypes
  <2>5. (b \o more) \o rest = S
    <3>1. (b \o more) \o rest = b \o (more \o rest)
      <4>1. b \in Seq(Items) /\ more \in Seq(Items) /\ rest \in Seq(Items) BY <1>3, <1>8
      <4> HIDE DEF b
      <4> QED BY ONLY <4>1, ConcatAssociative
    <3> QED BY <1>8, <3>1, Zenon
  <2>6. StreamOK(e, wf_sent, wf_recv'.bytes \o rest, n)
    <3> HIDE DEF S
    <3> QED BY <1>10, <2>1, <2>5 DEF StreamOK
  <2>7. FramesOK(e, wf_sent, rest, wf_recv', wf_got, "loop")
    BY <1>4, <1>11, <2>4, <2>6 DEF FramesOK, FailedOK
  <2> QED BY <1>4, <1>12, <2>7 DEF FrameInv
<1>13. FrameTypes(e, wf_sent, rest, wf_recv, wf_got)
  <2> HIDE DEF rest
  <2> QED BY <1>2, <1>8 DEF FrameTypes
<1>14. CASE need > size /\ wf_state' = "limit" /\ UNCHANGED wf_recv
  <2>1. need > MaxFrameSize BY <1>9, <1>14
  <2>2. S \in Seq(Items) BY <1>3, ConcatProperties
  <2>3. n < Len(F)
    <3>1. ASSUME n = Len(F) PROVE FALSE
      <4>1. S = <<>>
        <5> HIDE DEF S, n, F
        <5>1. n \in 0 .. Len(F) BY <1>3
        <5> QED BY <1>3, <1>10, <2>2, <3>1, <5>1, NextFrame
      <4>2. Len(S) = Len(b) + Len(wf_wire) BY <1>3, ConcatProperties
      <4>3. Len(S) = 0 BY <4>1
      <4> QED BY <1>4, <1>5, <1>6, <4>2, <4>3
    <3> QED BY <1>3, <1>6, <3>1
  <2> DEFINE m == n + 1
             W == Wire(F[m], e.server)
  <2>4. m \in 1 .. Len(F) BY <1>3, <1>6, <2>3
  <2>5. F[m] \in Frames BY <1>3, <2>4, ElementOfSeq
  <2>6. Len(W) \in Nat /\ Len(W) >= 2
    <3>1. Len(W) \in Nat /\ Len(W) >= SizeOf(F[m]) /\ SizeOf(F[m]) \in {2, 4, 10}
      BY <1>3, <2>5, WireLong, PartSizes
    <3> HIDE DEF W
    <3> QED BY <3>1
  <2>7. Len(b) < Len(W)
    <3>1. CASE b = <<>>
      <4>1. Len(b) = 0 BY <3>1
      <4> HIDE DEF W
      <4> QED BY <2>6, <4>1
    <3>2. CASE ~(b = <<>>) BY <1>11, <3>2 DEF IdleOK
    <3> QED BY <3>1, <3>2
  <2>8. Len(W) + MaxRead > MaxFrameSize
    <3> HIDE DEF W, b
    <3> QED BY <1>5, <1>6, <2>1, <2>6, <2>7, WsFrameAssumption
  <2>9. FailedOK(e, F, n, "limit")
    <3> HIDE DEF m
    <3> QED BY <2>4, <2>8 DEF FailedOK
  <2>10. FramesOK(e, wf_sent, rest, wf_recv, wf_got, "limit")
    BY <1>11, <1>13, <2>9 DEF FramesOK
  <2> QED BY <1>4, <1>14, <2>10 DEF FrameInv
<1>15. CASE wf_state' = "memory" /\ UNCHANGED wf_recv
  <2>1. FramesOK(e, wf_sent, rest, wf_recv, wf_got, "memory")
    BY <1>11, <1>13 DEF FramesOK, FailedOK
  <2> QED BY <1>4, <1>15, <2>1 DEF FrameInv
<1> QED BY <1>4, <1>12, <1>14, <1>15

\* A part of the stream from its start also starts like the next frame.
LEMMA StartsEarlier ==
  ASSUME NEW S, NEW w, Starts(S, w), NEW b \in Seq(Items), Len(b) <= Len(S),
         \A i \in 1 .. Len(b) : b[i] = S[i]
  PROVE  Starts(b, w)
<1>1. Len(b) \in Nat /\ Len(S) \in Nat BY LenProperties DEF Starts
<1>2. \A i \in 1 .. Len(b) : i \in 1 .. Len(S) BY <1>1
<1> QED BY <1>2 DEF Starts

\* A frame that has been received is one more of those that were sent.
LEMMA OneMore ==
  ASSUME NEW e, NEW F \in Seq(Frames), NEW g \in Seq({Received(f) : f \in Frames}),
         Len(g) < Len(F), GotOK(e, F, g), NEW x, x = Received(F[Len(g) + 1]),
         e.by = "process_data" => TakenBy(F[Len(g) + 1], e.server)
  PROVE  /\ Append(g, x) \in Seq({Received(f) : f \in Frames})
         /\ Len(Append(g, x)) = Len(g) + 1 /\ Len(g) + 1 \in 0 .. Len(F)
         /\ GotOK(e, F, Append(g, x))
<1> DEFINE n == Len(g)
           R == {Received(f) : f \in Frames}
           h == Append(g, x)
<1>1. n \in Nat /\ Len(F) \in Nat BY LenProperties
<1>2. n + 1 \in 1 .. Len(F) /\ n + 1 \in 0 .. Len(F) BY <1>1
<1>3. x \in R
  <2>1. F[n + 1] \in Frames BY <1>2, ElementOfSeq
  <2> QED BY <2>1
<1> HIDE DEF R
<1>4. /\ h \in Seq(R) /\ Len(h) = n + 1 /\ \A i \in 1 .. n : h[i] = g[i]
      /\ h[n + 1] = x
  <2>1. g \in Seq(R) BY DEF R
  <2> QED BY <1>3, <2>1, AppendProperties
<1> HIDE DEF h
<1>5. \A i \in 1 .. Len(h) : i \in 1 .. n \/ i = n + 1 BY <1>1, <1>4
<1>6. \A i \in 1 .. Len(h) : h[i] = Received(F[i]) BY <1>4, <1>5 DEF GotOK
<1>7. e.by = "process_data" => \A i \in 1 .. Len(h) : TakenBy(F[i], e.server)
  BY <1>5 DEF GotOK
<1> QED BY <1>2, <1>4, <1>6, <1>7 DEF GotOK, h, R

\* A round of the frame loop.
LEMMA FrameLoopStep ==
  ASSUME FrameInv, FrameLoop
  PROVE  FrameInv'
<1> DEFINE e == wf_end
           F == wf_sent.frames
           n == Len(wf_got)
           b == wf_recv.bytes
           v == Verdict(b, BadFrame(b))
           S == b \o wf_wire
<1>1. FramesOK(e, wf_sent, wf_wire, wf_recv, wf_got, wf_state) BY DEF FrameInv
<1>2. FrameTypes(e, wf_sent, wf_wire, wf_recv, wf_got) BY <1>1 DEF FramesOK
<1>3. /\ e.server \in BOOLEAN /\ F \in Seq(Frames) /\ wf_wire \in Seq(Items) /\ b \in Seq(Items)
      /\ n \in 0 .. Len(F) /\ wf_sent.cut \in BOOLEAN
  BY <1>2 DEF FrameTypes
<1>4. /\ wf_state = "loop" /\ UNCHANGED <<wf_end, wf_sent, wf_wire>>
      /\ \/ /\ v # "frame" /\ wf_state' = (IF v = "short" THEN "idle" ELSE v)
            /\ UNCHANGED <<wf_recv, wf_got>>
         \/ /\ v = "frame" /\ wf_got' = Append(wf_got, FrameIn(b))
            /\ wf_recv' = [wf_recv EXCEPT !.bytes = SubSeq(b, FrameSize(b) + 1, Len(b))]
            /\ UNCHANGED wf_state
  BY DEF FrameLoop
<1>5. Len(F) \in Nat /\ Len(b) \in Nat /\ Len(wf_wire) \in Nat BY <1>3, LenProperties
<1>6. PICK at : Laid(at, S, F, n, wf_sent.cut, e.server) BY <1>1, <1>4 DEF FramesOK, StreamOK
<1>7. e.by = "process_data" /\ GotOK(e, F, wf_got) BY <1>1, <1>4 DEF FramesOK
<1>8. S \in Seq(Items) /\ IsJoin(S, b, wf_wire)
  <2> HIDE DEF b
  <2> QED BY <1>3, Joined, Zenon
<1> HIDE DEF S
<1>9. Len(S) = Len(b) + Len(wf_wire) /\ Len(b) <= Len(S) /\ \A i \in 1 .. Len(b) : b[i] = S[i]
  BY <1>5, <1>8 DEF IsJoin
<1>10. n = Len(F) => b = <<>> /\ v = "short"
  <2>1. SUFFICES ASSUME n = Len(F) PROVE b = <<>> /\ v = "short" OBVIOUS
  <2>2. S = <<>>
    <3> HIDE DEF n, F
    <3> QED BY <1>3, <1>6, <1>8, <2>1, NextFrame
  <2>3. Len(b) = 0 BY <1>5, <1>9, <2>2
  <2>4. b = <<>> BY <1>3, <2>3, EmptySeq
  <2>5. ~HeaderThere(b)
    <3> HIDE DEF b
    <3> QED BY <2>3 DEF HeaderThere
  <2> QED BY <2>4, <2>5 DEF Verdict
<1> DEFINE f == F[n + 1]
           W == Wire(f, e.server)
<1>11. ASSUME n < Len(F) PROVE f \in Frames /\ Starts(S, W) /\ Starts(b, W)
  <2>1. f \in Frames /\ Starts(S, W)
    <3> HIDE DEF n, F
    <3> QED BY <1>3, <1>6, <1>8, <1>11, NextFrame
  <2> HIDE DEF W, b
  <2> QED BY <1>3, <1>9, <2>1, StartsEarlier
<1>12. n < Len(F) =>
         /\ v \in {"short", "protocol", "frame"}
         /\ v = "short" => Len(b) < Len(W)
         /\ v = "protocol" => ~TakenBy(f, e.server)
         /\ v = "frame" => /\ TakenBy(f, e.server) /\ FrameSize(b) = Len(W)
                           /\ FrameSize(b) <= Len(b) /\ FrameIn(b) = Received(f)
  <2>1. SUFFICES ASSUME n < Len(F)
                 PROVE  /\ v \in {"short", "protocol", "frame"}
                        /\ v = "short" => Len(b) < Len(W)
                        /\ v = "protocol" => ~TakenBy(f, e.server)
                        /\ v = "frame" => /\ TakenBy(f, e.server) /\ FrameSize(b) = Len(W)
                                          /\ FrameSize(b) <= Len(b) /\ FrameIn(b) = Received(f)
    OBVIOUS
  <2>2. f \in Frames /\ Starts(b, W) BY <1>11, <2>1
  <2> HIDE DEF f, b
  <2>4. v = Verdict(b, BadFrame(b)) OBVIOUS
  <2> HIDE DEF v
  <2> QED BY <1>3, <2>2, <2>4, Judged
<1>13. n = Len(F) \/ n < Len(F) BY <1>3, <1>5
<1>14. CASE v # "frame"
  <2>1. /\ wf_state' = (IF v = "short" THEN "idle" ELSE v)
        /\ UNCHANGED <<wf_recv, wf_got>>
    BY <1>4, <1>14
  <2>2. CASE v = "short"
    <3>1. IdleOK(e, F, b, n) BY <1>10, <1>12, <1>13, <2>2 DEF IdleOK
    <3>2. StreamOK(e, wf_sent, b \o wf_wire, n) BY <1>6 DEF StreamOK, S
    <3>3. FramesOK(e, wf_sent, wf_wire, wf_recv, wf_got, "idle")
      BY <1>2, <1>7, <3>1, <3>2 DEF FramesOK, FailedOK
    <3> QED BY <1>4, <2>1, <2>2, <3>3 DEF FrameInv
  <2>3. CASE v # "short"
    <3>1. n < Len(F) /\ v = "protocol" BY <1>10, <1>12, <1>13, <1>14, <2>3
    <3>2. ~TakenBy(f, e.server) BY <1>12, <3>1
    <3>3. FramesOK(e, wf_sent, wf_wire, wf_recv, wf_got, "protocol")
      BY <1>2, <1>7, <3>1, <3>2 DEF FramesOK, FailedOK
    <3> QED BY <1>4, <2>1, <3>1, <3>3 DEF FrameInv
  <2> QED BY <2>2, <2>3
<1>15. CASE v = "frame"
  <2> DEFINE c == FrameSize(b)
             d == SubSeq(b, c + 1, Len(b))
             g == Append(wf_got, FrameIn(b))
  <2>1. /\ wf_got' = g /\ wf_recv' = [wf_recv EXCEPT !.bytes = d] /\ UNCHANGED wf_state
    BY <1>4, <1>15
  <2>2. n < Len(F) BY <1>10, <1>13, <1>15
  <2>3. TakenBy(f, e.server) /\ c = Len(W) /\ c <= Len(b) /\ FrameIn(b) = Received(f)
    BY <1>12, <1>15, <2>2
  <2>4. f \in Frames BY <1>11, <2>2
  <2>5. c \in Nat BY <1>3, <2>3, <2>4, WireLong
  <2>6. d \in Seq(Items)
    <3> HIDE DEF b, c
    <3> QED BY <1>3, <2>3, <2>5, SplitSeq
  <2>7. /\ g \in Seq({Received(x) : x \in Frames}) /\ Len(g) = n + 1
        /\ n + 1 \in 0 .. Len(F) /\ GotOK(e, F, g)
    <3>1. wf_got \in Seq({Received(x) : x \in Frames}) BY <1>2 DEF FrameTypes
    <3> HIDE DEF F
    <3> QED BY <1>3, <1>7, <2>2, <2>3, <3>1, OneMore
  <2>8. StreamOK(e, wf_sent, d \o wf_wire, n + 1)
    <3>1. d \o wf_wire = SubSeq(S, c + 1, Len(S))
      <4> HIDE DEF b, c
      <4>1. SubSeq(b, c + 1, Len(b)) \o wf_wire = SubSeq(b \o wf_wire, c + 1, Len(b \o wf_wire))
        BY <1>3, <2>3, <2>5, FrontTaken
      <4> QED BY <4>1 DEF S
    <3>2. c <= Len(S) BY <1>5, <1>9, <2>3, <2>5
    <3>3. Laid(at, SubSeq(S, c + 1, Len(S)), F, n + 1, wf_sent.cut, e.server)
      <4>1. c = Len(Wire(F[n + 1], e.server)) BY <2>3
      <4> HIDE DEF c, F, n
      <4> QED BY <1>3, <1>6, <1>8, <2>2, <3>2, <4>1, LaidTaken
    <3> HIDE DEF d, c
    <3> QED BY <3>1, <3>3 DEF StreamOK
  <2> HIDE DEF d, g
  <2>9. wf_recv' \in [bytes : Seq(Items), size : Nat \ {0}] /\ wf_recv'.bytes = d
    BY <1>2, <2>1, <2>6 DEF FrameTypes
  <2>10. FrameTypes(e, wf_sent, wf_wire, wf_recv', g) BY <1>2, <1>7, <2>7, <2>9 DEF FrameTypes
  <2>11. FramesOK(e, wf_sent, wf_wire, wf_recv', g, "loop")
    BY <1>7, <2>7, <2>8, <2>9, <2>10 DEF FramesOK, FailedOK
  <2> QED BY <1>4, <2>1, <2>11 DEF FrameInv
<1> QED BY <1>14, <1>15

\* uvhttp_ws_recv_frame takes a frame from the socket, or fails.
LEMMA RecvFrameStep ==
  ASSUME FrameInv, NEW k \in 0 .. Len(wf_wire), RecvFrame(k)
  PROVE  FrameInv'
<1> DEFINE e == wf_end
           F == wf_sent.frames
           n == Len(wf_got)
           b == SubSeq(wf_wire, 1, k)
           v == Verdict(b, BadToRecv(b))
<1>1. FramesOK(e, wf_sent, wf_wire, wf_recv, wf_got, wf_state) BY DEF FrameInv
<1>2. FrameTypes(e, wf_sent, wf_wire, wf_recv, wf_got) BY <1>1 DEF FramesOK
<1>3. /\ wf_state = "idle" /\ e.by = "recv_frame" /\ wf_wire # <<>>
      /\ UNCHANGED <<wf_end, wf_sent, wf_recv>>
      /\ \/ v # "frame" /\ wf_state' = v /\ UNCHANGED <<wf_got, wf_wire>>
         \/ /\ v = "frame" /\ wf_got' = Append(wf_got, FrameIn(b))
            /\ wf_wire' = SubSeq(wf_wire, FrameSize(b) + 1, Len(wf_wire))
            /\ UNCHANGED wf_state
  BY DEF RecvFrame
<1>4. /\ e.server \in BOOLEAN /\ F \in Seq(Frames) /\ wf_wire \in Seq(Items)
      /\ wf_recv.bytes = <<>> /\ n \in 0 .. Len(F) /\ wf_sent.cut \in BOOLEAN
  BY <1>2, <1>3 DEF FrameTypes
<1>5. Len(F) \in Nat /\ Len(wf_wire) \in Nat BY <1>4, LenProperties
<1>6. \A w \in Seq(Items) : wf_recv.bytes \o w = w BY <1>4, ConcatEmptySeq
<1>7. PICK at : Laid(at, wf_wire, F, n, wf_sent.cut, e.server)
  <2>1. StreamOK(e, wf_sent, wf_wire, n) BY <1>1, <1>3, <1>4, <1>6 DEF FramesOK
  <2> QED BY <2>1 DEF StreamOK
<1>8. GotOK(e, F, wf_got) BY <1>1 DEF FramesOK
<1> DEFINE f == F[n + 1]
           W == Wire(f, e.server)
<1>9. n < Len(F) /\ f \in Frames /\ Starts(wf_wire, W)
  <2>1. n = Len(F) \/ n < Len(F) BY <1>4, <1>5
  <2> HIDE DEF n, F
  <2> QED BY <1>3, <1>4, <1>7, <2>1, NextFrame
<1>10. k \in Nat /\ k <= Len(wf_wire) BY <1>5
<1>11. b \in Seq(Items) /\ Len(b) = k /\ \A i \in 1 .. k : b[i] = wf_wire[i]
  BY <1>4, <1>10, SplitSeq
<1>12. Starts(b, W)
  <2> HIDE DEF b, W
  <2> QED BY <1>9, <1>10, <1>11, StartsEarlier
<1>13. CASE v # "frame"
  <2>1. wf_state' = v /\ UNCHANGED <<wf_got, wf_wire>> BY <1>3, <1>13
  <2>2. v \in {"short", "protocol"} BY <1>13 DEF Verdict
  <2> HIDE DEF v
  <2>3. FramesOK(e, wf_sent, wf_wire, wf_recv, wf_got, v) BY <1>2, <1>3, <1>8, <2>2 DEF FramesOK
  <2> QED BY <1>3, <2>1, <2>3 DEF FrameInv
<1>14. CASE v = "frame"
  <2> DEFINE c == FrameSize(b)
             g == Append(wf_got, FrameIn(b))
             rest == SubSeq(wf_wire, c + 1, Len(wf_wire))
  <2>1. wf_got' = g /\ wf_wire' = rest /\ UNCHANGED wf_state BY <1>3, <1>14
  <2>2. c = Len(W) /\ c <= Len(b) /\ FrameIn(b) = Received(f)
    <3>1. v = Verdict(b, BadToRecv(b)) OBVIOUS
    <3> HIDE DEF b, v, f
    <3> QED BY <1>4, <1>9, <1>12, <1>14, <3>1, JudgedByRecv
  <2>3. c \in Nat BY <1>4, <1>9, <2>2, WireLong
  <2>4. c <= Len(wf_wire)
    <3> HIDE DEF c, b
    <3> QED BY <1>5, <1>10, <1>11, <2>2, <2>3
  <2>5. /\ g \in Seq({Received(x) : x \in Frames}) /\ Len(g) = n + 1
        /\ n + 1 \in 0 .. Len(F) /\ GotOK(e, F, g)
    <3>1. wf_got \in Seq({Received(x) : x \in Frames}) BY <1>2 DEF FrameTypes
    <3> HIDE DEF F
    <3> QED BY <1>3, <1>4, <1>8, <1>9, <2>2, <3>1, OneMore
  <2>6. rest \in Seq(Items) /\ Laid(at, rest, F, n + 1, wf_sent.cut, e.server)
    <3>1. c = Len(Wire(F[n + 1], e.server)) BY <2>2
    <3> HIDE DEF c, F, n
    <3> QED BY <1>4, <1>7, <1>9, <2>4, <3>1, LaidTaken
  <2>7. StreamOK(e, wf_sent, wf_recv.bytes \o rest, n + 1) BY <1>6, <2>6 DEF StreamOK
  <2> HIDE DEF g, rest
  <2>8. FrameTypes(e, wf_sent, rest, wf_recv, g) BY <1>2, <2>5, <2>6 DEF FrameTypes
  <2>9. FramesOK(e, wf_sent, rest, wf_recv, g, "idle")
    BY <1>3, <2>5, <2>7, <2>8 DEF FramesOK
  <2> QED BY <1>3, <2>1, <2>9 DEF FrameInv
<1> QED BY <1>13, <1>14

\* Every step keeps the invariant.
LEMMA FramesStep == FrameInv /\ [WsFrameNext]_wsFrameVars => FrameInv'
<1>1. SUFFICES ASSUME FrameInv, [WsFrameNext]_wsFrameVars PROVE FrameInv' OBVIOUS
<1>2. ASSUME NEW f \in Frames, SendFrame(f) PROVE FrameInv' BY <1>1, <1>2, SendFrameStep
<1>3. ASSUME NEW n \in 1 .. MaxRead, ProcessData(n) PROVE FrameInv'
  BY <1>1, <1>3, ProcessDataStep
<1>4. CASE FrameLoop BY <1>1, <1>4, FrameLoopStep
<1>5. ASSUME NEW n \in 0 .. Len(wf_wire), RecvFrame(n) PROVE FrameInv'
  BY <1>1, <1>5, RecvFrameStep
<1>6. CASE UNCHANGED wsFrameVars BY <1>1, <1>6 DEF FrameInv, wsFrameVars
<1> QED BY <1>1, <1>2, <1>3, <1>4, <1>5, <1>6 DEF WsFrameNext

\* The invariant says that frames come whole.
LEMMA FramesEnough == FrameInv => FramesWhole
<1>1. SUFFICES ASSUME FrameInv PROVE FramesWhole OBVIOUS
<1> DEFINE e == wf_end
           F == wf_sent.frames
           n == Len(wf_got)
           b == wf_recv.bytes
<1>2. FramesOK(e, wf_sent, wf_wire, wf_recv, wf_got, wf_state) BY <1>1 DEF FrameInv
<1>3. FrameTypes(e, wf_sent, wf_wire, wf_recv, wf_got) BY <1>2 DEF FramesOK
<1>4. /\ e.server \in BOOLEAN /\ F \in Seq(Frames) /\ b \in Seq(Items)
      /\ n \in 0 .. Len(F) /\ wf_sent.cut \in BOOLEAN /\ e.by \in {"process_data", "recv_frame"}
      /\ e.by = "recv_frame" => b = <<>>
  BY <1>3 DEF FrameTypes
<1>5. Len(F) \in Nat /\ Len(b) \in Nat /\ DOMAIN F = 1 .. Len(F) BY <1>4, LenProperties
<1>6. GotOK(e, F, wf_got) BY <1>2 DEF FramesOK
<1>7. ASSUME wf_state = "idle", wf_wire = <<>>, ~wf_sent.cut PROVE n = Len(F)
  <2>1. SUFFICES ASSUME n < Len(F) PROVE FALSE BY <1>4, <1>5
  <2>2. b \o wf_wire = b BY <1>4, <1>7, ConcatEmptySeq
  <2>3. PICK at : Laid(at, b, F, n, wf_sent.cut, e.server)
    BY <1>2, <1>7, <2>2 DEF FramesOK, StreamOK
  <2> DEFINE W == Wire(F[n + 1], e.server)
  <2>4. F[n + 1] \in Frames /\ Len(b) >= Len(W)
    <3> HIDE DEF F, n, b
    <3> QED BY <1>4, <1>7, <2>1, <2>3, NextFrame
  <2>5. Len(W) \in Nat /\ Len(W) >= 2
    <3>1. Len(W) \in Nat /\ Len(W) >= SizeOf(F[n + 1]) /\ SizeOf(F[n + 1]) \in {2, 4, 10}
      BY <1>4, <2>4, WireLong, PartSizes
    <3> HIDE DEF W
    <3> QED BY <3>1
  <2>6. b = <<>> \/ Len(b) < Len(W)
    <3>1. CASE e.by = "recv_frame" BY <1>4, <3>1
    <3>2. CASE e.by = "process_data" BY <1>2, <1>7, <3>2 DEF FramesOK, IdleOK
    <3> QED BY <1>4, <3>1, <3>2
  <2>7. b = <<>> => Len(b) = 0 OBVIOUS
  <2> HIDE DEF W, b
  <2> QED BY <1>5, <2>4, <2>5, <2>6, <2>7
<1>8. ASSUME e.by = "process_data"
      PROVE  /\ \A i \in 1 .. n : Legal(F[i]) \/ Tolerated(F[i])
             /\ wf_state = "protocol" => ~Legal(F[n + 1])
             /\ wf_state = "limit" => \E i \in DOMAIN F : WireSize(F[i]) + MaxRead > MaxFrameSize
  <2>1. FailedOK(e, F, n, wf_state) BY <1>2, <1>8 DEF FramesOK
  <2>2. \A f : WireSize(f) = Len(Wire(f, e.server)) BY BuildIs DEF WireSize
  <2>3. \A i \in 1 .. n : TakenBy(F[i], e.server) BY <1>6, <1>8 DEF GotOK
  <2> HIDE DEF F
  <2> QED BY <1>5, <2>1, <2>2, <2>3, TakenIs DEF FailedOK
<1>9. n <= Len(F) BY <1>4, <1>5
<1>10. \A i \in 1 .. n : wf_got[i] = Received(F[i]) BY <1>6 DEF GotOK
<1> QED BY <1>7, <1>8, <1>9, <1>10 DEF FramesWhole

\* However the stream is cut into pieces, whatever the lengths of the payloads and
\* the limits: the receiver of uvhttp_ws_process_data and uvhttp_ws_recv_frame gets
\* the frames that were sent, each once, in order and unmasked, and keeps none back;
\* uvhttp_ws_process_data refuses no legal frame, and takes none that is not legal
\* but those with a reserved opcode, a length in a longer form than needed, or, at
\* a client, a mask.
THEOREM FramesArriveWhole == WsFrameSpec => []FramesWhole
<1>1. WsFrameInit => FrameInv BY FramesStart
<1>2. FrameInv /\ [WsFrameNext]_wsFrameVars => FrameInv' BY FramesStep
<1>3. FrameInv => FramesWhole BY FramesEnough
<1> QED BY <1>1, <1>2, <1>3, PTL DEF WsFrameSpec

-----------------------------------------------------------------------------
(* Sessions.                                                               *)

\* What holds of a session while a ticks remain to the sweep and b to the
\* heartbeat.  The last two conjuncts are what makes IdleBounded and
\* PingBounded inductive: the age grows while the time left shrinks.
SessionOK(r, a, b) ==
  /\ r \in SessionType
  /\ r.node.present => r.mem = "live"
  /\ r.mem = "none" => r.closed = 0
  /\ r.mem = "freed" => ~r.wrapper /\ r.closed = 1
  /\ r.mem = "live" => r.closed = IF r.wrapper THEN 0 ELSE 1
  /\ r.node.present => r.node.idle_for + a <= 2 * Timeout
  /\ r.node.present /\ r.state = "OPEN" /\ r.node.ping_pending =>
       r.node.ping_age + b <= PingTimeout + Heartbeat

LiveOK(r, a, b) ==
  /\ SessionOK(r, a, b) /\ r.mem = "live"
  /\ a \in 0 .. Timeout /\ b \in 0 .. Heartbeat

\* A step of one session: it stays in order, and gets no node.
Keeps(r, s, a, b) == SessionOK(s, a, b) /\ (s.node.present => r.node.present)

USE PeriodAssumption, SizeAssumption

\* uvhttp_ws_close only moves the state.
LEMMA WsCloseSafe ==
  ASSUME NEW r, NEW a, NEW b, LiveOK(r, a, b)
  PROVE  LiveOK(WsClose(r), a, b) /\ WsClose(r).node = r.node
BY DEF WsClose, LiveOK, SessionOK, SessionType

\* The constants a session starts from.
LEMMA StartTypes ==
  /\ NoNode \in NodeType /\ ~NoNode.present
  /\ NewNode \in NodeType /\ NewNode.present /\ NewNode.idle_for = 0
  /\ NewNode.ping_pending = FALSE
  /\ NoFragment \in FragmentType
<1>1. 0 \in 0 .. OldActivity /\ 0 \in 0 .. OldPing BY DEF OldActivity, OldPing
<1>2. NoNode \in NodeType /\ ~NoNode.present
  BY <1>1 DEF NoNode, NodeType
<1>3. /\ NewNode \in NodeType /\ NewNode.present /\ NewNode.idle_for = 0
      /\ NewNode.ping_pending = FALSE
  BY <1>1 DEF NewNode, NoNode, NodeType
<1>4. NoFragment \in FragmentType BY DEF NoFragment, FragmentType
<1> QED BY <1>2, <1>3, <1>4

\* on_websocket_close: told once, whether it was told before or not.
LEMMA OnCloseSafe ==
  ASSUME NEW r, NEW a, NEW b, LiveOK(r, a, b)
  PROVE  /\ LiveOK(OnClose(r), a, b) /\ OnClose(r).node = r.node
         /\ ~OnClose(r).wrapper /\ OnClose(r).closed = 1
<1>1. CASE r.wrapper
  <2>1. r.closed = 0 BY <1>1 DEF LiveOK, SessionOK
  <2>2. LiveOK([r EXCEPT !.wrapper = FALSE, !.closed = 1], a, b)
    BY <1>1 DEF LiveOK, SessionOK, SessionType
  <2> QED BY <1>1, <2>1, <2>2 DEF OnClose, LiveOK, SessionOK, SessionType
<1>2. CASE ~r.wrapper BY <1>2 DEF OnClose, LiveOK, SessionOK, SessionType
<1> QED BY <1>1, <1>2

\* uvhttp_connection_websocket_close tells the user, if that was not done.
LEMMA WebsocketCloseSafe ==
  ASSUME NEW r, NEW a, NEW b, LiveOK(r, a, b)
  PROVE  Keeps(r, WebsocketClose(r), a, b)
<1> DEFINE u == OnClose(r)
<1>1. LiveOK(u, a, b) /\ ~u.wrapper /\ u.closed = 1 BY OnCloseSafe
<1> HIDE DEF u
<1>2. Keeps(r, [u EXCEPT !.node = NoNode, !.mem = "freed", !.fragment = NoFragment,
                         !.tcp = "closed"], a, b)
  BY <1>1, StartTypes DEF Keeps, LiveOK, SessionOK, SessionType
<1> QED BY <1>2 DEF WebsocketClose, u

\* uvhttp_server_ws_update_activity restarts the ages of a node.
LEMMA UpdateActivitySafe ==
  ASSUME NEW r, NEW a, NEW b, LiveOK(r, a, b)
  PROVE  LET u == UpdateActivity(r)
         IN  /\ LiveOK(u, a, b)
             /\ u.node.present = r.node.present /\ u.wrapper = r.wrapper
<1>1. Pinged(r.peer) \in PeerType
  BY DEF Pinged, LiveOK, SessionOK, SessionType, PeerType
<1>2. CASE ~r.node.present BY <1>2 DEF UpdateActivity
<1>3. CASE r.node.present
  <2> DEFINE n == NewNode
             p == Pinged(r.peer)
  <2>1. /\ n \in NodeType /\ n.present /\ n.ping_pending = FALSE
        /\ n.idle_for + a <= 2 * Timeout
    BY StartTypes DEF LiveOK
  <2> HIDE DEF n, p
  <2>2. LiveOK([r EXCEPT !.node = n, !.peer = p], a, b)
    BY <1>1, <1>3, <2>1 DEF LiveOK, SessionOK, SessionType, p
  <2> QED BY <1>3, <2>1, <2>2 DEF UpdateActivity, LiveOK, SessionOK, SessionType, n, p
<1> QED BY <1>2, <1>3

\* on_websocket_message.
LEMMA DeliverSafe ==
  ASSUME NEW r, NEW a, NEW b, LiveOK(r, a, b), NEW msg \in Seq(Nat)
  PROVE  LiveOK(Deliver(r, msg), a, b) /\ Deliver(r, msg).node.present = r.node.present
<1> DEFINE u == UpdateActivity(r)
<1>1. LiveOK(u, a, b) /\ u.node.present = r.node.present BY UpdateActivitySafe
<1> HIDE DEF u
<1>2. Append(u.delivered, msg) \in Messages
  BY <1>1 DEF LiveOK, SessionOK, SessionType, Messages
<1> DEFINE d == Append(u.delivered, msg)
<1> HIDE DEF d
<1>3. LET s == [u EXCEPT !.delivered = d]
      IN  LiveOK(s, a, b) /\ s.node.present = r.node.present
  BY <1>1, <1>2 DEF LiveOK, SessionOK, SessionType, d
<1> QED BY <1>3 DEF Deliver, u, d

\* uvhttp_ws_fragment_append and the release of the fragments touch nothing else.
LEMMA FragmentSafe ==
  ASSUME NEW r, NEW a, NEW b, LiveOK(r, a, b), NEW g \in FragmentType
  PROVE  LiveOK([r EXCEPT !.fragment = g], a, b)
         /\ [r EXCEPT !.fragment = g].node = r.node
         /\ [r EXCEPT !.fragment = g].fragment = g
BY DEF LiveOK, SessionOK, SessionType

\* Appending a fragment changes nothing of the session but its buffer.
LEMMA FragmentAppendSafe ==
  ASSUME NEW r, NEW a, NEW b, LiveOK(r, a, b), NEW f, f.data \in Seq(Nat)
  PROVE  LET s == FragmentAppend(r, f)
         IN  LiveOK(s, a, b) /\ s.node = r.node /\ s.fragment.data \in Seq(Nat)
<1> DEFINE g == [alloc |-> r.fragment.alloc \/ f.data # <<>>,
                 data |-> r.fragment.data \o f.data]
<1>1. g \in FragmentType BY DEF LiveOK, SessionOK, SessionType, FragmentType
<1>2. g.data \in Seq(Nat) BY <1>1 DEF FragmentType
<1> HIDE DEF g
<1> QED BY <1>1, <1>2, FragmentSafe DEF FragmentAppend, g

\* The fragment state machine.
LEMMA DataFrameSafe ==
  ASSUME NEW r, NEW a, NEW b, LiveOK(r, a, b), NEW f, f.data \in Seq(Nat)
  PROVE  LiveOK(DataFrame(r, f), a, b) /\ DataFrame(r, f).node.present = r.node.present
<1>1. CASE f.op = "data" /\ f.fin
  BY <1>1, DeliverSafe DEF DataFrame
<1>2. CASE f.op = "data" /\ ~f.fin
  <2> DEFINE u == [r EXCEPT !.fragment = NoFragment]
  <2>1. LiveOK(u, a, b) /\ u.node = r.node BY FragmentSafe, StartTypes
  <2> HIDE DEF u
  <2>2. LiveOK(FragmentAppend(u, f), a, b) /\ FragmentAppend(u, f).node = u.node
    BY <2>1, FragmentAppendSafe
  <2> QED BY <1>2, <2>1, <2>2 DEF DataFrame, u
<1>3. CASE f.op # "data"
  <2> DEFINE s == FragmentAppend(r, f)
             d == Deliver(s, s.fragment.data)
  <2>1. LiveOK(s, a, b) /\ s.node = r.node /\ s.fragment.data \in Seq(Nat)
    BY FragmentAppendSafe
  <2> HIDE DEF s
  <2>2. LiveOK(d, a, b) /\ d.node.present = s.node.present BY <2>1, DeliverSafe
  <2> HIDE DEF d
  <2>3. LiveOK([d EXCEPT !.fragment = NoFragment], a, b)
        /\ [d EXCEPT !.fragment = NoFragment].node = d.node
    BY <2>2, FragmentSafe, StartTypes
  <2> QED BY <1>3, <2>1, <2>2, <2>3 DEF DataFrame, s, d
<1> QED BY <1>1, <1>2, <1>3

\* A frame leaves a session in order, whether it is rejected or not.
LEMMA ProcessFrameSafe ==
  ASSUME NEW r, NEW a, NEW b, LiveOK(r, a, b), NEW f, f.data \in Seq(Nat)
  PROVE  Keeps(r, ProcessFrame(r, f), a, b)
<1>1. CASE Rejected(r, f)
  <2> DEFINE u == WsClose(r)
  <2>1. LiveOK(u, a, b) /\ u.node = r.node BY WsCloseSafe
  <2> HIDE DEF u
  <2>2. Keeps(u, WebsocketClose(u), a, b) BY <2>1, WebsocketCloseSafe
  <2> QED BY <1>1, <2>1, <2>2 DEF ProcessFrame, Keeps, u
<1>2. CASE ~Rejected(r, f) /\ f.op \in DataOps
  BY <1>2, DataFrameSafe DEF ProcessFrame, Keeps, LiveOK
<1>3. CASE ~Rejected(r, f) /\ f.op \notin DataOps /\ f.op = "close"
  <2> DEFINE u == OnClose(r)
  <2>1. LiveOK(u, a, b) /\ u.node = r.node BY OnCloseSafe
  <2> HIDE DEF u
  <2>2. SessionOK([u EXCEPT !.state = "CLOSED"], a, b)
        /\ [u EXCEPT !.state = "CLOSED"].node = u.node
    BY <2>1 DEF LiveOK, SessionOK, SessionType
  <2> QED BY <1>3, <2>1, <2>2 DEF ProcessFrame, Keeps, u
<1>4. CASE ~Rejected(r, f) /\ f.op \notin DataOps /\ f.op # "close"
  BY <1>4 DEF ProcessFrame, Keeps, LiveOK
<1> QED BY <1>1, <1>2, <1>3, <1>4

\* What the peer meant is recorded in a record of its own.
LEMMA MeantType ==
  ASSUME NEW p \in PeerType, NEW f, f.data \in Seq(Nat), NEW q \in BOOLEAN
  PROVE  Meant(p, f, q) \in PeerType
<1>1. p.sending \o f.data \in Seq(Nat) BY DEF PeerType
<1>2. Append(p.done, p.sending \o f.data) \in Messages
  BY <1>1 DEF PeerType, Messages
<1>3. <<>> \in Seq(Nat) OBVIOUS
<1> DEFINE m == p.sending \o f.data
           d == Append(p.done, m)
<1> HIDE DEF m, d
<1> QED BY <1>1, <1>2, <1>3 DEF Meant, PeerType, m, d

\* ws_heartbeat_timer_callback: a new ping has its whole time, a pending one
\* that is not late has an interval more.
LEMMA BeatSafe ==
  ASSUME NEW r, NEW a, NEW b, LiveOK(r, a, b), r.node.present, NEW sent
  PROVE  SessionOK(Beat(r, sent), a, Heartbeat) /\ Beat(r, sent).node.present
<1>1. CASE r.state # "OPEN"
  BY <1>1 DEF Beat, LiveOK, SessionOK
<1>2. CASE r.state = "OPEN" /\ ~r.node.ping_pending /\ sent
  <2> DEFINE n == PingedNode(r.node)
             p == Pinged(r.peer)
  <2>1. /\ n \in NodeType /\ n.present /\ n.ping_age = 0
        /\ n.idle_for = r.node.idle_for
    <3>1. r.node \in NodeType /\ 0 \in 0 .. OldPing
      BY StartTypes DEF NoNode, NodeType, LiveOK, SessionOK, SessionType
    <3> QED BY <3>1 DEF PingedNode, NodeType
  <2>2. p \in PeerType BY DEF Pinged, LiveOK, SessionOK, SessionType, PeerType
  <2> HIDE DEF n, p
  <2>3. n.ping_age + Heartbeat <= PingTimeout + Heartbeat BY <2>1
  <2>4. SessionOK([r EXCEPT !.node = n, !.peer = p], a, Heartbeat)
        /\ [r EXCEPT !.node = n, !.peer = p].node = n
    BY <2>1, <2>2, <2>3 DEF LiveOK, SessionOK, SessionType
  <2> QED BY <1>2, <2>1, <2>4 DEF Beat, n, p
<1>3. CASE r.state = "OPEN" /\ ~r.node.ping_pending /\ ~sent
  BY <1>3 DEF Beat, LiveOK, SessionOK
<1>4. CASE r.state = "OPEN" /\ r.node.ping_pending /\ r.node.ping_age > PingTimeout
  <2>1. LiveOK(WsClose(r), a, b) /\ WsClose(r).node = r.node BY WsCloseSafe
  <2>2. WsClose(r).state = "CLOSING" BY DEF WsClose, LiveOK, SessionOK, SessionType
  <2>3. Beat(r, sent) = WsClose(r) BY <1>4 DEF Beat
  <2> QED BY <2>1, <2>2, <2>3 DEF LiveOK, SessionOK
<1>5. CASE r.state = "OPEN" /\ r.node.ping_pending /\ ~(r.node.ping_age > PingTimeout)
  <2>1. r.node.ping_age \in Nat
    BY DEF LiveOK, SessionOK, SessionType, NodeType, OldPing
  <2>2. Beat(r, sent) = r BY <1>5 DEF Beat
  <2> QED BY <1>5, <2>1, <2>2 DEF LiveOK, SessionOK
<1> QED BY <1>1, <1>2, <1>3, <1>4, <1>5

-----------------------------------------------------------------------------
(* The whole state.                                                        *)

\* The inductive invariant.
Inv ==
  /\ ws \in [Conns -> SessionType]
  /\ \A c \in Conns : SessionOK(ws[c], next_sweep, next_beat)
  /\ manager \in {"off", "on", "draining"} /\ frames \in Nat
  /\ next_sweep \in 0 .. Timeout /\ next_beat \in 0 .. Heartbeat
  /\ connection_count = Cardinality(Nodes)
  /\ manager # "on" => Nodes = {}

\* The node list is finite.
LEMMA NodesFinite == IsFiniteSet(Nodes) /\ Cardinality(Nodes) \in Nat
BY ConnsAssumption, FS_Subset, FS_CardinalityType DEF Nodes

\* A callback that takes one session to a session in order keeps the rest.
LEMMA BecomeSafe ==
  ASSUME Inv, NEW c \in Conns, NEW r, Become(c, r), frames' \in Nat,
         Keeps(ws[c], r, next_sweep, next_beat)
  PROVE  Inv'
<1>1. ws' \in [Conns -> SessionType] /\ ws'[c] = r
  BY DEF Inv, Become, Keeps, SessionOK
<1>2. \A d \in Conns : SessionOK(ws'[d], next_sweep', next_beat')
  BY DEF Inv, Become, Keeps
<1>3. CASE ws[c].node.present /\ ~r.node.present
  <2>1. Nodes' = Nodes \ {c} BY <1>3 DEF Inv, Become, Nodes
  <2>2. c \in Nodes BY <1>3 DEF Nodes
  <2>3. Cardinality(Nodes \ {c}) = Cardinality(Nodes) - 1
    BY <2>2, NodesFinite, FS_RemoveElement
  <2> QED BY <1>1, <1>2, <1>3, <2>1, <2>3 DEF Inv, Become, Dropped
<1>4. CASE ~(ws[c].node.present /\ ~r.node.present)
  <2>1. Nodes' = Nodes BY <1>4 DEF Inv, Become, Keeps, Nodes
  <2>2. connection_count' = connection_count
    BY <1>4, NodesFinite DEF Inv, Become, Dropped
  <2> QED BY <1>1, <1>2, <2>1, <2>2 DEF Inv, Become
<1> QED BY <1>3, <1>4

\* CloseNodes(S) takes S off the list, and leaves every session in order.
LEMMA CloseNodesSafe ==
  ASSUME Inv, NEW S \in SUBSET Nodes, CloseNodes(S)
  PROVE  /\ ws' \in [Conns -> SessionType]
         /\ \A c \in Conns : SessionOK(ws'[c], next_sweep, next_beat)
         /\ \A c \in Conns \ S : ws'[c] = ws[c]
         /\ Nodes' = Nodes \ S
         /\ Cardinality(Nodes') = Cardinality(Nodes) - Cardinality(S)
<1> DEFINE off(c) == [WsClose(ws[c]) EXCEPT !.node = NoNode]
<1>1. ASSUME NEW c \in S
      PROVE  SessionOK(off(c), next_sweep, next_beat) /\ ~off(c).node.present
  <2> DEFINE u == WsClose(ws[c])
  <2>1. LiveOK(ws[c], next_sweep, next_beat)
    BY <1>1 DEF Inv, Nodes, LiveOK, SessionOK
  <2>2. LiveOK(u, next_sweep, next_beat) BY <2>1, WsCloseSafe
  <2> HIDE DEF u
  <2>3. SessionOK([u EXCEPT !.node = NoNode], next_sweep, next_beat)
        /\ ~[u EXCEPT !.node = NoNode].node.present
    BY <2>2, StartTypes DEF LiveOK, SessionOK, SessionType
  <2> QED BY <2>3 DEF u
<1> HIDE DEF off
<1>2. ws' = [c \in Conns |-> IF c \in S THEN off(c) ELSE ws[c]]
  BY DEF CloseNodes, off
<1>3. S \subseteq Conns BY DEF Nodes
<1>4. \A c \in Conns : SessionOK(ws'[c], next_sweep, next_beat)
  BY <1>1, <1>2, <1>3 DEF Inv
<1>5. ws' \in [Conns -> SessionType]
  BY <1>2, <1>4 DEF SessionOK
<1>6. Nodes' = Nodes \ S BY <1>1, <1>2, <1>3 DEF Nodes
<1>7. Cardinality(Nodes \ S) = Cardinality(Nodes) - Cardinality(S)
  <2>1. Nodes \cap S = S OBVIOUS
  <2> QED BY <2>1, NodesFinite, FS_Difference
<1> QED BY <1>2, <1>4, <1>5, <1>6, <1>7

\* A connection that is no session yet.
LEMMA NoSessionType ==
  /\ NoSession \in SessionType /\ NoSession.mem = "none" /\ NoSession.closed = 0
  /\ ~NoSession.node.present
<1>1. NoSession.peer \in PeerType BY DEF NoSession, PeerType, Messages
<1>2. NoSession.delivered \in Messages BY DEF NoSession, Messages
<1> QED BY <1>1, <1>2, StartTypes DEF NoSession, SessionType

\* Every server starts without sessions.
LEMMA InitInv == ASSUME Init PROVE Inv
<1>3. SessionOK(NoSession, next_sweep, next_beat)
  BY NoSessionType DEF SessionOK
<1>4. Nodes = {} BY NoSessionType DEF Init, Nodes
<1> QED BY NoSessionType, <1>3, <1>4, FS_EmptySet DEF Init, Inv

\* A handshake.
LEMMA OpenStep ==
  ASSUME Inv, NEW c \in Conns, NEW managed \in BOOLEAN, Open(c, managed)
  PROVE  Inv'
<1> DEFINE n == IF managed THEN NewNode ELSE NoNode
           r == [NoSession EXCEPT !.mem = "live", !.wrapper = TRUE, !.node = n]
<1>1. n \in NodeType /\ n.present = managed
      /\ (managed => n.idle_for = 0 /\ n.ping_pending = FALSE)
  <2>1. CASE managed BY <2>1, StartTypes
  <2>2. CASE ~managed BY <2>2, StartTypes DEF NoNode
  <2> QED BY <2>1, <2>2
<1> HIDE DEF n
<1>3. managed => n.idle_for + next_sweep <= 2 * Timeout
  BY <1>1 DEF Inv
<1>4. SessionOK(r, next_sweep, next_beat) /\ r.node.present = managed
  <2>1. /\ r \in SessionType /\ r.node = n /\ r.mem = "live" /\ r.wrapper
        /\ r.closed = 0
    BY <1>1, NoSessionType DEF SessionType
  <2> HIDE DEF r
  <2> QED BY <1>1, <1>3, <2>1 DEF SessionOK
<1>5. ws' = [ws EXCEPT ![c] = r] BY DEF Open, n
<1> HIDE DEF r
<1>6. /\ ws' \in [Conns -> SessionType]
      /\ \A d \in Conns : SessionOK(ws'[d], next_sweep', next_beat')
  <2>1. r \in SessionType BY <1>4 DEF SessionOK
  <2>2. next_sweep' = next_sweep /\ next_beat' = next_beat BY DEF Open
  <2> QED BY <1>4, <1>5, <2>1, <2>2 DEF Inv
<1>7. c \notin Nodes BY DEF Inv, SessionOK, Nodes, Open
<1>8. CASE managed
  <2>1. Nodes' = Nodes \cup {c} BY <1>4, <1>5, <1>8 DEF Inv, Nodes
  <2>2. Cardinality(Nodes \cup {c}) = Cardinality(Nodes) + 1
    BY <1>7, NodesFinite, FS_AddElement
  <2> QED BY <1>6, <1>8, <2>1, <2>2 DEF Inv, Open
<1>9. CASE ~managed
  <2>1. Nodes' = Nodes BY <1>4, <1>5, <1>7, <1>9 DEF Inv, Nodes
  <2>2. connection_count' = connection_count
    BY <1>9, NodesFinite DEF Inv, Open
  <2> QED BY <1>6, <2>1, <2>2 DEF Inv, Open
<1> QED BY <1>8, <1>9

\* The callbacks and calls of one session.
LEMMA SessionSteps ==
  ASSUME Inv, NEW c \in Conns, SessionStep(c)
  PROVE  Inv'
<1> DEFINE a == next_sweep
           b == next_beat
<1>1. ws[c].mem = "live" => LiveOK(ws[c], a, b) BY DEF Inv, LiveOK
<1>2. frames \in Nat BY DEF Inv
<1> HIDE DEF a, b
<1>3. CASE Open(c, TRUE) \/ Open(c, FALSE) BY <1>3, OpenStep
<1>4. CASE OpenRefused(c)
  <2> DEFINE r == [NoSession EXCEPT !.mem = "live", !.wrapper = TRUE]
  <2>2. LiveOK(r, a, b) /\ ~r.node.present
    <3>1. /\ r \in SessionType /\ r.node = NoSession.node /\ r.mem = "live"
          /\ r.wrapper /\ r.closed = 0
      BY NoSessionType DEF SessionType
    <3> HIDE DEF r
    <3> QED BY <3>1, NoSessionType DEF LiveOK, SessionOK, Inv, a, b
  <2> HIDE DEF r
  <2>3. Keeps(r, WebsocketClose(r), a, b) BY <2>2, WebsocketCloseSafe
  <2>4. Keeps(ws[c], WebsocketClose(r), a, b) BY <2>2, <2>3 DEF Keeps
  <2>5. Become(c, WebsocketClose(r)) /\ frames' = frames BY <1>4 DEF OpenRefused, r
  <2> QED BY <1>2, <2>4, <2>5, BecomeSafe DEF a, b
<1>5. CASE ReadFails(c)
  BY <1>1, <1>2, <1>5, WebsocketCloseSafe, BecomeSafe DEF ReadFails, Reads, a, b
<1>6. CASE UserClose(c)
  <2>1. Keeps(ws[c], WsClose(ws[c]), a, b)
    BY <1>1, <1>6, WsCloseSafe DEF UserClose, Keeps, LiveOK
  <2> QED BY <1>2, <1>6, <2>1, BecomeSafe DEF UserClose, a, b
<1>7. CASE ConnectionClose(c)
  <2> DEFINE r == [ws[c] EXCEPT !.tcp = "closed"]
  <2>1. Keeps(ws[c], r, a, b)
    BY <1>1, <1>7 DEF ConnectionClose, Reads, Keeps, LiveOK, SessionOK, SessionType
  <2> QED BY <1>2, <1>7, <2>1, BecomeSafe DEF ConnectionClose, a, b
<1>8. ASSUME NEW f \in DataFrames \cup OtherFrames, Frame(c, f)
      PROVE  Inv'
  <2> DEFINE s == ProcessFrame(ws[c], f)
             p == Meant(s.peer, f, ws[c].node.ping_pending)
  <2>1. f.data \in Seq(Nat)
    <3>1. <<frames + 1>> \in Seq(Nat) /\ <<>> \in Seq(Nat) BY <1>2
    <3> QED BY <3>1, <1>8 DEF DataFrames, OtherFrames
  <2>2. LiveOK(ws[c], a, b) BY <1>1, <1>8 DEF Frame, Reads
  <2>3. Keeps(ws[c], s, a, b) BY <2>1, <2>2, ProcessFrameSafe
  <2>4. ws[c].node.ping_pending \in BOOLEAN
    BY <2>2 DEF LiveOK, SessionOK, SessionType, NodeType
  <2> HIDE DEF s
  <2>5. p \in PeerType
    <3>1. s.peer \in PeerType BY <2>3 DEF Keeps, SessionOK, SessionType
    <3> QED BY <2>1, <2>4, <3>1, MeantType
  <2> HIDE DEF p
  <2>6. Keeps(ws[c], [s EXCEPT !.peer = p], a, b)
    BY <2>3, <2>5 DEF Keeps, SessionOK, SessionType
  <2>7. Become(c, [s EXCEPT !.peer = p]) /\ frames' \in Nat
    BY <1>2, <1>8 DEF Frame, s, p
  <2> QED BY <2>6, <2>7, BecomeSafe DEF a, b
<1> QED BY <1>3, <1>4, <1>5, <1>6, <1>7, <1>8 DEF SessionStep

\* The timers, and the calls on the manager.
LEMMA ManagerSteps ==
  ASSUME Inv, ManagerStep
  PROVE  Inv'
<1>1. CASE Sweep
  <2> DEFINE S == {c \in Nodes : TimedOut(c)}
  <2>1. CloseNodes(S) /\ connection_count' = connection_count - Cardinality(S)
    BY <1>1 DEF Sweep
  <2>2. /\ ws' \in [Conns -> SessionType]
        /\ \A c \in Conns : SessionOK(ws'[c], next_sweep, next_beat)
        /\ \A c \in Conns \ S : ws'[c] = ws[c]
        /\ Nodes' = Nodes \ S
        /\ Cardinality(Nodes') = Cardinality(Nodes) - Cardinality(S)
    <3> HIDE DEF S
    <3>1. S \in SUBSET Nodes BY DEF S
    <3> QED BY <2>1, <3>1, CloseNodesSafe
  <2>3. ASSUME NEW c \in Conns PROVE SessionOK(ws'[c], Timeout, next_beat)
    <3>1. CASE ~ws'[c].node.present BY <2>2, <3>1 DEF SessionOK
    <3>2. CASE ws'[c].node.present
      <4>1. c \in Nodes' BY <3>2 DEF Nodes
      <4>2. c \in Nodes /\ c \notin S BY <2>2, <4>1
      <4>3. ws'[c] = ws[c] /\ ~(ws[c].node.idle_for > Timeout)
        BY <2>2, <4>2 DEF TimedOut
      <4>4. ws[c].node.idle_for \in Nat
        BY DEF Inv, SessionType, NodeType, OldActivity
      <4> QED BY <2>2, <4>3, <4>4 DEF SessionOK
    <3> QED BY <3>1, <3>2
  <2> QED BY <1>1, <2>1, <2>2, <2>3 DEF Inv, Sweep
<1>2. CASE HeartbeatTimer
  <2> PICK sent \in SUBSET Nodes :
        ws' = [c \in Conns |-> IF c \in Nodes THEN Beat(ws[c], c \in sent) ELSE ws[c]]
    BY <1>2 DEF HeartbeatTimer
  <2>1. ASSUME NEW c \in Conns
        PROVE  /\ SessionOK(ws'[c], next_sweep, Heartbeat)
               /\ ws'[c].node.present = ws[c].node.present
    <3>1. CASE c \in Nodes
      <4>1. LiveOK(ws[c], next_sweep, next_beat) /\ ws[c].node.present
        BY <3>1 DEF Nodes, Inv, LiveOK, SessionOK
      <4>2. SessionOK(Beat(ws[c], c \in sent), next_sweep, Heartbeat)
            /\ Beat(ws[c], c \in sent).node.present
        BY <4>1, BeatSafe
      <4> QED BY <3>1, <4>1, <4>2 DEF SessionOK, SessionType, NodeType, Inv
    <3>2. CASE c \notin Nodes
      BY <3>2 DEF Nodes, Inv, SessionOK
    <3> QED BY <3>1, <3>2
  <2>2. ws' \in [Conns -> SessionType] BY <2>1 DEF SessionOK
  <2>3. Nodes' = Nodes BY <2>1 DEF Nodes
  <2> QED BY <1>2, <2>1, <2>2, <2>3 DEF Inv, HeartbeatTimer
<1>3. CASE Enable
  <2>1. Nodes' = Nodes BY <1>3 DEF Enable, Nodes
  <2>2. Nodes = {} BY <1>3 DEF Enable, Inv
  <2> QED BY <1>3, <2>1, <2>2, FS_EmptySet DEF Inv, Enable
<1>4. CASE Disable
  <2>1. CloseNodes(Nodes) BY <1>4 DEF Disable
  <2>2. /\ ws' \in [Conns -> SessionType]
        /\ \A c \in Conns : SessionOK(ws'[c], next_sweep, next_beat)
        /\ Nodes' = {}
    BY <2>1, CloseNodesSafe
  <2>3. ASSUME NEW c \in Conns PROVE SessionOK(ws'[c], Timeout, Heartbeat)
    <3>1. ~ws'[c].node.present BY <2>2 DEF Nodes
    <3> QED BY <2>2, <3>1 DEF SessionOK
  <2> QED BY <1>4, <2>2, <2>3, FS_EmptySet DEF Inv, Disable
<1>5. CASE Disabled
  <2>1. Nodes' = Nodes BY <1>5 DEF Disabled, Nodes
  <2> QED BY <1>5, <2>1 DEF Inv, Disabled
<1>6. CASE Tick
  <2>1. ASSUME NEW c \in Conns
        PROVE  /\ SessionOK(ws'[c], next_sweep - 1, next_beat - 1)
               /\ ws'[c].node.present = ws[c].node.present
    <3>1. CASE ~ws[c].node.present
      BY <1>6, <3>1 DEF Tick, Inv, SessionOK
    <3>2. CASE ws[c].node.present
      <4> DEFINE m == ws[c].node
                 n == Aged(m)
      <4>1. m \in NodeType BY DEF Inv, SessionType
      <4>2. /\ next_sweep \in 0 .. Timeout /\ next_beat \in 0 .. Heartbeat
            /\ next_sweep > 0 /\ next_beat > 0
        BY <1>6 DEF Inv, Tick
      <4>3. SessionOK(ws[c], next_sweep, next_beat) BY DEF Inv
      <4> HIDE DEF m
      <4>4. /\ n \in NodeType /\ n.present = m.present
            /\ n.ping_pending = m.ping_pending
            /\ n.idle_for <= m.idle_for + 1 /\ n.ping_age <= m.ping_age + 1
        <5>1. /\ Older(m.idle_for, OldActivity) \in 0 .. OldActivity
              /\ Older(m.idle_for, OldActivity) <= m.idle_for + 1
          BY <4>1 DEF Older, NodeType, OldActivity
        <5>2. /\ Older(m.ping_age, OldPing) \in 0 .. OldPing
              /\ Older(m.ping_age, OldPing) <= m.ping_age + 1
              /\ m.ping_age <= m.ping_age + 1
          BY <4>1 DEF Older, NodeType, OldPing
        <5> QED BY <4>1, <5>1, <5>2 DEF Aged, NodeType
      <4> HIDE DEF n
      <4>5. ws'[c] = [ws[c] EXCEPT !.node = n]
        BY <1>6, <3>2 DEF Tick, n, m
      <4>6. /\ n.idle_for \in Nat /\ n.ping_age \in Nat
            /\ m.idle_for \in Nat /\ m.ping_age \in Nat
        BY <4>1, <4>4 DEF NodeType, OldActivity, OldPing
      <4>7. n.idle_for + (next_sweep - 1) <= 2 * Timeout
        BY <3>2, <4>2, <4>3, <4>4, <4>6 DEF SessionOK, m
      <4>8. ws[c].state = "OPEN" /\ n.ping_pending =>
              n.ping_age + (next_beat - 1) <= PingTimeout + Heartbeat
        BY <3>2, <4>2, <4>3, <4>4, <4>6 DEF SessionOK, m
      <4> QED BY <3>2, <4>3, <4>4, <4>5, <4>7, <4>8 DEF SessionOK, SessionType, m
    <3> QED BY <3>1, <3>2
  <2>2. ws' \in [Conns -> SessionType] BY <1>6, <2>1 DEF Tick, SessionOK
  <2>3. Nodes' = Nodes BY <2>1 DEF Nodes
  <2>4. next_sweep' \in 0 .. Timeout /\ next_beat' \in 0 .. Heartbeat
    BY <1>6 DEF Tick, Inv
  <2> QED BY <1>6, <2>1, <2>2, <2>3, <2>4 DEF Inv, Tick
<1>7. ASSUME NEW S \in SUBSET Conns, CloseAll(S)
      PROVE  Inv'
  <2> DEFINE T == S \cap Nodes
  <2>1. CloseNodes(T) /\ connection_count' = connection_count - Cardinality(T)
    BY <1>7 DEF CloseAll
  <2>2. /\ ws' \in [Conns -> SessionType]
        /\ \A c \in Conns : SessionOK(ws'[c], next_sweep, next_beat)
        /\ Cardinality(Nodes') = Cardinality(Nodes) - Cardinality(T)
    <3> HIDE DEF T
    <3>1. T \in SUBSET Nodes BY DEF T
    <3> QED BY <2>1, <3>1, CloseNodesSafe
  <2> QED BY <1>7, <2>1, <2>2 DEF Inv, CloseAll
<1> QED BY <1>1, <1>2, <1>3, <1>4, <1>5, <1>6, <1>7 DEF ManagerStep

\* Inv holds in every reachable state.
THEOREM InvHolds == Spec => []Inv
<1>1. Init => Inv BY InitInv
<1>2. Inv /\ [Next]_vars => Inv'
  <2> SUFFICES ASSUME Inv, [Next]_vars PROVE Inv' OBVIOUS
  <2>1. CASE UNCHANGED vars
    <3>1. Nodes' = Nodes BY <2>1 DEF vars, Nodes
    <3> QED BY <2>1, <3>1 DEF vars, Inv
  <2>2. CASE Next BY <2>2, SessionSteps, ManagerSteps DEF Next
  <2> QED BY <2>1, <2>2
<1> QED BY <1>1, <1>2, PTL DEF Spec

\* Type correctness: in particular the unsigned counter never falls below zero
\* and the ages stay below their caps, so that no age is lost to the bound.
THEOREM TypeCorrect == Spec => []TypeOK
<1>1. Inv => TypeOK BY NodesFinite DEF Inv, TypeOK
<1> QED BY <1>1, InvHolds, PTL

\* No node of the manager leads to a session that was freed (broadcast,
\* heartbeat and sweep dereference them), and connection_count is their number.
THEOREM NodesAreValid == Spec => []NodesValid
<1>1. Inv => NodesValid BY DEF Inv, NodesValid, SessionOK, Nodes
<1> QED BY <1>1, InvHolds, PTL

\* on_websocket_close runs the user's on_close once, whichever of the Close
\* frame, a protocol error, the end of the stream and a refusal comes first.
THEOREM UserNotifiedOnce == Spec => []NotifiedOnce
<1>1. Inv => NotifiedOnce
  <2> SUFFICES ASSUME Inv, NEW c \in Conns
               PROVE  ws[c].closed <= 1 /\ (ws[c].mem = "freed" => ws[c].closed = 1)
    BY DEF NotifiedOnce
  <2> QED BY DEF Inv, SessionOK, SessionType
<1> QED BY <1>1, InvHolds, PTL

\* The sweep of ws_timeout_timer_callback finds every silent session in time.
THEOREM SilentSessionsSwept == Spec => []IdleBounded
<1>1. Inv => IdleBounded
  BY DEF Inv, IdleBounded, SessionOK, SessionType, NodeType, OldActivity, Nodes
<1> QED BY <1>1, InvHolds, PTL

\* ws_heartbeat_timer_callback leaves no ping pending beyond its time.
THEOREM PingsBounded == Spec => []PingBounded
<1>1. Inv => PingBounded
  BY DEF Inv, PingBounded, SessionOK, SessionType, NodeType, OldPing, Nodes
<1> QED BY <1>1, InvHolds, PTL

-----------------------------------------------------------------------------
(* Messages.                                                               *)

\* While the peer keeps to the protocol, the fragment buffer holds what it has
\* sent of the current message, it is allocated exactly inside a message, and
\* until the user was told of the end it got the finished messages.
Matches(r) ==
  r.mem = "live" /\ r.peer.ok =>
    /\ r.fragment.data = r.peer.sending
    /\ r.fragment.alloc = r.peer.open
    /\ ~r.peer.open => r.peer.sending = <<>>
    /\ r.closed = 0 => r.delivered = r.peer.done

MatchInv == \A c \in Conns : Matches(ws[c])

FrameType == [op : DataOps \cup OtherOps, fin : BOOLEAN, data : Seq(Nat)]

\* The fields on_websocket_message leaves alone, and the one it appends to.
LEMMA DeliverShape ==
  ASSUME NEW r \in SessionType, NEW msg
  PROVE  LET s == Deliver(r, msg) IN
         /\ s.mem = r.mem /\ s.closed = r.closed /\ s.fragment = r.fragment
         /\ s.peer.sending = r.peer.sending /\ s.peer.open = r.peer.open
         /\ s.peer.done = r.peer.done /\ s.peer.ok = r.peer.ok
         /\ s.delivered = IF r.wrapper THEN Append(r.delivered, msg) ELSE r.delivered
<1> DEFINE u == UpdateActivity(r)
<1>1. /\ DOMAIN u = DOMAIN r
      /\ u.mem = r.mem /\ u.closed = r.closed /\ u.fragment = r.fragment
      /\ u.delivered = r.delivered
  BY DEF UpdateActivity, SessionType
<1>2. /\ u.peer.sending = r.peer.sending /\ u.peer.open = r.peer.open
      /\ u.peer.done = r.peer.done /\ u.peer.ok = r.peer.ok
  BY DEF UpdateActivity, Pinged, SessionType, PeerType
<1> QED BY <1>1, <1>2 DEF Deliver, SessionType

\* A frame the loop rejects is one the peer was not allowed to send.
LEMMA RejectedOnlyWrong ==
  ASSUME NEW r \in SessionType, r.mem = "live", Matches(r), r.peer.ok,
         NEW f \in FrameType, NEW q, Rejected(r, f)
  PROVE  ~Meant(r.peer, f, q).ok
<1>1. Len(<<>>) = 0 /\ Len(f.data) \in Nat BY DEF FrameType
<1>2. /\ r.fragment.data = r.peer.sending
      /\ r.fragment.alloc = r.peer.open
      /\ ~r.peer.open => r.peer.sending = <<>>
  BY DEF Matches
<1>3. r.peer.open \in BOOLEAN BY DEF SessionType, PeerType
<1>4. CASE f.op = "bad" BY <1>4 DEF Meant, SessionType, PeerType
<1>5. CASE f.op = "cont" /\ ~r.fragment.alloc
  BY <1>2, <1>3, <1>5 DEF Meant, SessionType, PeerType
<1>6. CASE f.op = "data" /\ r.fragment.alloc
  BY <1>2, <1>3, <1>6 DEF Meant, SessionType, PeerType
<1>7. CASE f.op = "cont" /\ ~FragmentFits(r, f)
  <2>1. Len(r.peer.sending) \in Nat BY DEF SessionType, PeerType
  <2>2. Len(r.peer.sending) + Len(f.data) > MaxMessage
    <3> DEFINE m == Len(r.peer.sending)
               n == Len(f.data)
    <3>1. ~(m + n <= MaxMessage) BY <1>2, <1>7, Zenon DEF FragmentFits
    <3>2. m \in Nat /\ n \in Nat BY <1>1, <2>1
    <3> HIDE DEF m, n
    <3>3. m + n > MaxMessage BY <3>1, <3>2
    <3> QED BY <3>3 DEF m, n
  <2> QED BY <1>7, <2>2 DEF Meant, SessionType, PeerType
<1>8. CASE f.op = "data" /\ ~f.fin /\ Len(f.data) > MaxMessage
  <2>1. CASE r.peer.open BY <1>3, <1>8, <2>1 DEF Meant, SessionType, PeerType
  <2>2. CASE ~r.peer.open
    <3>1. Len(r.peer.sending) + Len(f.data) > MaxMessage
      <4> DEFINE n == Len(f.data)
      <4>1. Len(r.peer.sending) = 0 BY <1>1, <1>2, <2>2
      <4>2. n \in Nat /\ n > MaxMessage BY <1>1, <1>8
      <4> HIDE DEF n
      <4>3. 0 + n > MaxMessage BY <4>2
      <4> QED BY <4>1, <4>3 DEF n
    <3> QED BY <1>8, <3>1 DEF Meant, SessionType, PeerType
  <2> QED BY <2>1, <2>2
<1> QED BY <1>4, <1>5, <1>6, <1>7, <1>8, Zenon DEF Rejected

\* uvhttp_ws_process_data delivers what the peer meant, ends no session whose
\* peer is right, and is silent once the user was told of the end.
LEMMA FrameMatches ==
  ASSUME NEW r, NEW a, NEW b, LiveOK(r, a, b), Matches(r),
         NEW f \in FrameType, NEW q \in BOOLEAN
  PROVE  LET s == ProcessFrame(r, f)
             t == [s EXCEPT !.peer = Meant(s.peer, f, q)]
         IN  /\ Matches(t)
             /\ r.peer.ok /\ t.mem = "freed" => ~t.peer.ok
             /\ r.closed > 0 => t.delivered = r.delivered
<1> DEFINE s == ProcessFrame(r, f)
           p == Meant(s.peer, f, q)
           t == [s EXCEPT !.peer = p]
<1>1. r \in SessionType /\ r.mem = "live" BY DEF LiveOK, SessionOK
<1>2. f.data \in Seq(Nat) BY DEF FrameType
<1>3. s \in SessionType BY <1>2, ProcessFrameSafe DEF Keeps, SessionOK
<1>4. /\ t.mem = s.mem /\ t.closed = s.closed /\ t.delivered = s.delivered
      /\ t.fragment = s.fragment /\ t.peer = p
  BY <1>3 DEF SessionType
<1>5. r.closed > 0 => ~r.wrapper BY <1>1 DEF LiveOK, SessionOK
<1>6. r.closed = 0 => r.wrapper BY <1>1 DEF LiveOK, SessionOK
<1> SUFFICES /\ Matches(t)
             /\ r.peer.ok /\ s.mem = "freed" => ~p.ok
             /\ r.closed > 0 => s.delivered = r.delivered
  BY <1>4
<1>7. CASE Rejected(r, f)
  <2>1. s.mem = "freed" /\ s.peer = r.peer /\ s.delivered = r.delivered
    BY <1>1, <1>7 DEF ProcessFrame, WebsocketClose, WsClose, OnClose, SessionType
  <2>2. r.peer.ok => ~p.ok BY <1>1, <1>7, <2>1, RejectedOnlyWrong
  <2> QED BY <1>4, <2>1, <2>2 DEF Matches
<1>8. CASE ~Rejected(r, f) /\ f.op \in OtherOps
  <2>1. /\ s.mem = "live" /\ s.peer = r.peer /\ s.delivered = r.delivered
        /\ s.fragment = r.fragment /\ (s.closed = 0 => r.closed = 0)
    BY <1>1, <1>8 DEF ProcessFrame, OnClose, SessionType, DataOps, OtherOps
  <2>2. /\ p.sending = r.peer.sending /\ p.open = r.peer.open
        /\ p.done = r.peer.done /\ p.ok = r.peer.ok
    BY <1>1, <1>8, <2>1 DEF Meant, SessionType, PeerType, OtherOps, Rejected
  <2> HIDE DEF s, p, t
  <2> QED BY <1>1, <1>4, <2>1, <2>2 DEF Matches
<1>9. CASE ~Rejected(r, f) /\ f.op = "data" /\ f.fin
  <2>1. s = Deliver(r, f.data) BY <1>9 DEF ProcessFrame, DataFrame, DataOps
  <2> HIDE DEF s, t
  <2>2. /\ s.mem = "live" /\ s.closed = r.closed /\ s.fragment = r.fragment
        /\ s.peer.sending = r.peer.sending /\ s.peer.open = r.peer.open
        /\ s.peer.done = r.peer.done /\ s.peer.ok = r.peer.ok
        /\ s.delivered = IF r.wrapper THEN Append(r.delivered, f.data) ELSE r.delivered
    BY <1>1, <2>1, DeliverShape
  <2>3. s.peer \in PeerType BY <1>3 DEF SessionType
  <2>4. p.ok => /\ r.peer.ok /\ ~r.peer.open /\ ~p.open /\ p.sending = <<>>
                /\ p.done = Append(r.peer.done, r.peer.sending \o f.data)
    BY <1>9, <2>2, <2>3 DEF Meant, PeerType, FrameType
  <2> HIDE DEF p
  <2>5. <<>> \o f.data = f.data BY <1>2, ConcatEmptySeq
  <2>6. p \in PeerType /\ r.peer \in PeerType /\ r.fragment \in FragmentType
    BY <1>1, <1>2, <2>3, MeantType DEF SessionType, p
  <2>7. Matches(t)
    <3>1. CASE p.ok
      <4>1. r.peer.sending = <<>> /\ r.fragment.data = <<>> /\ r.fragment.alloc = p.open
        BY <1>1, <2>4, <2>6, <3>1 DEF Matches, PeerType, FragmentType
      <4>2. r.closed = 0 => r.delivered = r.peer.done
        BY <1>1, <2>4, <3>1 DEF Matches
      <4>3. t.closed = 0 => t.delivered = Append(r.peer.done, f.data)
        BY <1>4, <1>6, <2>2, <4>2
      <4> QED BY <1>4, <2>2, <2>4, <2>5, <3>1, <4>1, <4>3 DEF Matches
    <3>2. CASE ~p.ok BY <1>4, <3>2 DEF Matches
    <3> QED BY <3>1, <3>2
  <2> QED BY <1>5, <2>2, <2>7
<1>10. CASE ~Rejected(r, f) /\ f.op = "data" /\ ~f.fin
  <2> DEFINE g == [alloc |-> NoFragment.alloc \/ f.data # <<>>,
                   data |-> NoFragment.data \o f.data]
  <2>1. s = [r EXCEPT !.fragment = g]
    BY <1>1, <1>10 DEF ProcessFrame, DataFrame, DataOps, FragmentAppend, SessionType
  <2> HIDE DEF s, t
  <2>2. g.alloc = (f.data # <<>>) /\ g.data = f.data
    BY <1>2, ConcatEmptySeq DEF NoFragment
  <2> HIDE DEF g
  <2>3. /\ s.mem = "live" /\ s.closed = r.closed /\ s.fragment = g
        /\ s.peer = r.peer /\ s.delivered = r.delivered
    BY <1>1, <2>1 DEF SessionType
  <2>4. r.peer \in PeerType BY <1>1 DEF SessionType
  <2>5. p.ok => /\ r.peer.ok /\ ~r.peer.open /\ p.open = TRUE /\ f.data # <<>>
                /\ p.done = r.peer.done /\ p.sending = r.peer.sending \o f.data
    BY <1>10, <2>3, <2>4 DEF Meant, PeerType, FrameType
  <2> HIDE DEF p
  <2>6. <<>> \o f.data = f.data BY <1>2, ConcatEmptySeq
  <2>7. Matches(t) BY <1>1, <1>4, <2>2, <2>3, <2>5, <2>6 DEF Matches
  <2> QED BY <2>3, <2>7
<1>11. CASE ~Rejected(r, f) /\ f.op = "cont"
  <2> DEFINE u == FragmentAppend(r, f)
             g == [alloc |-> r.fragment.alloc \/ f.data # <<>>,
                   data |-> r.fragment.data \o f.data]
  <2>1. /\ u \in SessionType /\ u.mem = "live" /\ u.closed = r.closed
        /\ u.wrapper = r.wrapper /\ u.peer = r.peer /\ u.delivered = r.delivered
        /\ u.fragment = g
    <3>1. u = [r EXCEPT !.fragment = g] BY DEF FragmentAppend
    <3>2. u \in SessionType BY <1>2, FragmentAppendSafe DEF LiveOK, SessionOK
    <3> QED BY <1>1, <3>1, <3>2 DEF SessionType
  <2>2. r.fragment.alloc /\ g.alloc = TRUE /\ g.data = r.fragment.data \o f.data
    BY <1>11 DEF Rejected
  <2>3. s = IF f.fin THEN [Deliver(u, g.data) EXCEPT !.fragment = NoFragment] ELSE u
    BY <1>11, <2>1 DEF ProcessFrame, DataFrame, DataOps
  <2> HIDE DEF s, t, u, g
  <2>4. CASE ~f.fin
    <3>1. r.peer \in PeerType BY <1>1 DEF SessionType
    <3>2. s = u BY <2>3, <2>4
    <3>3. p.ok => /\ r.peer.ok /\ p.open = TRUE
                  /\ p.done = r.peer.done /\ p.sending = r.peer.sending \o f.data
      BY <1>11, <2>1, <2>4, <3>1, <3>2 DEF Meant, PeerType, FrameType
    <3> HIDE DEF p
    <3>4. Matches(t) BY <1>1, <1>4, <2>1, <2>2, <3>2, <3>3 DEF Matches
    <3> QED BY <2>1, <3>2, <3>4
  <2>5. CASE f.fin
    <3> DEFINE d == Deliver(u, g.data)
    <3>1. /\ d.mem = "live" /\ d.closed = r.closed
          /\ d.peer.sending = r.peer.sending /\ d.peer.open = r.peer.open
          /\ d.peer.done = r.peer.done /\ d.peer.ok = r.peer.ok
          /\ d.delivered = IF r.wrapper THEN Append(r.delivered, g.data) ELSE r.delivered
      BY <2>1, DeliverShape
    <3>2. d \in SessionType
      <4>1. LiveOK(u, a, b) BY <1>2, FragmentAppendSafe DEF u
      <4>2. g.data \in Seq(Nat) BY <2>1 DEF SessionType, FragmentType
      <4> QED BY <4>1, <4>2, DeliverSafe DEF LiveOK, SessionOK
    <3> HIDE DEF d
    <3>3. s = [d EXCEPT !.fragment = NoFragment] BY <2>3, <2>5 DEF d
    <3>4. /\ s.mem = "live" /\ s.closed = r.closed /\ s.peer = d.peer
          /\ s.delivered = d.delivered /\ s.fragment = NoFragment
      BY <3>1, <3>2, <3>3 DEF SessionType
    <3>5. d.peer \in PeerType BY <3>2 DEF SessionType
    <3>6. p.ok => /\ r.peer.ok /\ p.open = FALSE /\ p.sending = <<>>
                  /\ p.done = Append(r.peer.done, r.peer.sending \o f.data)
      BY <1>11, <2>5, <3>1, <3>4, <3>5 DEF Meant, PeerType, FrameType
    <3> HIDE DEF p
    <3>7. NoFragment.alloc = FALSE /\ NoFragment.data = <<>> BY DEF NoFragment
    <3>8. Matches(t)
      BY <1>1, <1>4, <1>6, <2>2, <3>1, <3>4, <3>6, <3>7 DEF Matches
    <3> QED BY <1>5, <3>1, <3>4, <3>8
  <2> QED BY <2>4, <2>5 DEF FrameType
<1> QED BY <1>7, <1>8, <1>9, <1>10, <1>11 DEF FrameType, DataOps

\* Every step keeps the sessions matched and takes only what it may.
LEMMA MatchStep ==
  ASSUME Inv, MatchInv, [Next]_vars, NEW c \in Conns
  PROVE  /\ Matches(ws'[c])
         /\ ws[c].mem = "live" /\ frames' # frames /\ ws[c].peer.ok /\ ws'[c].mem = "freed"
              => ~ws'[c].peer.ok
         /\ ws[c].closed > 0 => ws'[c].delivered = ws[c].delivered
<1> DEFINE Goal == /\ Matches(ws'[c])
                   /\ ws[c].mem = "live" /\ frames' # frames /\ ws[c].peer.ok
                        /\ ws'[c].mem = "freed" => ~ws'[c].peer.ok
                   /\ ws[c].closed > 0 => ws'[c].delivered = ws[c].delivered
<1>1. ws[c] \in SessionType /\ Matches(ws[c]) BY DEF Inv, MatchInv
<1>2. CASE ws'[c] = ws[c]
  BY <1>1, <1>2 DEF SessionType
<1>3. ASSUME NEW d \in Conns, SessionStep(d) PROVE Goal
  <2>1. CASE d # c
    <3>1. ws'[c] = ws[c]
      BY <1>3, <2>1 DEF SessionStep, Open, OpenRefused, ReadFails, UserClose,
           ConnectionClose, Frame, Become, Inv
    <3> QED BY <1>2, <3>1
  <2>2. CASE d = c
    <3>1. CASE Open(c, TRUE) \/ Open(c, FALSE)
      <4>1. PICK n : ws' = [ws EXCEPT ![c] = [NoSession EXCEPT !.mem = "live",
                                                !.wrapper = TRUE, !.node = n]]
        BY <3>1 DEF Open
      <4>2. /\ ws'[c].mem = "live" /\ ws'[c].peer = NoSession.peer
            /\ ws'[c].fragment = NoSession.fragment
            /\ ws'[c].delivered = NoSession.delivered
        BY <4>1, NoSessionType DEF Inv, SessionType
      <4>3. Matches(ws'[c])
        <5>1. /\ NoSession.fragment.data = NoSession.peer.sending
              /\ NoSession.fragment.alloc = NoSession.peer.open
              /\ NoSession.peer.sending = <<>>
              /\ NoSession.delivered = NoSession.peer.done
          BY DEF NoSession, NoFragment
        <5> QED BY <4>2, <5>1 DEF Matches
      <4>4. ws[c].mem = "none" BY <3>1 DEF Open
      <4>5. ~(ws[c].closed > 0) BY <4>4 DEF Inv, SessionOK
      <4> QED BY <4>3, <4>4, <4>5
    <3>2. CASE OpenRefused(c)
      <4>1. ws'[c].mem = "freed" /\ ws[c].mem = "none"
        BY <3>2 DEF OpenRefused, Become, WebsocketClose, OnClose, NoSession, Inv
      <4>2. ~(ws[c].closed > 0) BY <4>1 DEF Inv, SessionOK
      <4> QED BY <4>1, <4>2 DEF Matches
    <3>3. CASE ReadFails(c)
      <4>1. /\ ws'[c].mem = "freed" /\ ws'[c].delivered = ws[c].delivered
            /\ frames' = frames
        BY <1>1, <3>3 DEF ReadFails, Become, WebsocketClose, OnClose, Inv, SessionType
      <4> QED BY <4>1 DEF Matches
    <3>4. CASE UserClose(c) \/ ConnectionClose(c)
      <4>1. /\ ws'[c].mem = ws[c].mem /\ ws'[c].closed = ws[c].closed
            /\ ws'[c].peer = ws[c].peer /\ ws'[c].fragment = ws[c].fragment
            /\ ws'[c].delivered = ws[c].delivered /\ frames' = frames
        BY <1>1, <3>4
           DEF UserClose, ConnectionClose, Become, WsClose, Inv, SessionType
      <4> QED BY <1>1, <4>1 DEF Matches
    <3>5. ASSUME NEW f \in DataFrames \cup OtherFrames, Frame(c, f) PROVE Goal
      <4>1. f \in FrameType
        <5>1. <<frames + 1>> \in Seq(Nat) /\ <<>> \in Seq(Nat) BY DEF Inv
        <5> QED BY <3>5, <5>1 DEF DataFrames, OtherFrames, FrameType
      <4>2. LiveOK(ws[c], next_sweep, next_beat)
        BY <3>5 DEF Frame, Reads, Inv, LiveOK
      <4>3. ws[c].node.ping_pending \in BOOLEAN
        BY <1>1 DEF SessionType, NodeType
      <4> DEFINE s == ProcessFrame(ws[c], f)
                 t == [s EXCEPT !.peer = Meant(s.peer, f, ws[c].node.ping_pending)]
      <4>4. /\ Matches(t)
            /\ ws[c].peer.ok /\ t.mem = "freed" => ~t.peer.ok
            /\ ws[c].closed > 0 => t.delivered = ws[c].delivered
        BY <1>1, <4>1, <4>2, <4>3, FrameMatches
      <4>5. ws'[c] = t BY <3>5 DEF Frame, Become, Inv
      <4> HIDE DEF t
      <4> QED BY <4>4, <4>5
    <3> QED BY <1>3, <2>2, <3>1, <3>2, <3>3, <3>4, <3>5 DEF SessionStep
  <2> QED BY <2>1, <2>2
<1>4. CASE ManagerStep
  <2>1. /\ ws'[c].mem = ws[c].mem /\ ws'[c].closed = ws[c].closed
        /\ ws'[c].peer.ok = ws[c].peer.ok /\ ws'[c].peer.open = ws[c].peer.open
        /\ ws'[c].peer.sending = ws[c].peer.sending
        /\ ws'[c].peer.done = ws[c].peer.done
        /\ ws'[c].fragment = ws[c].fragment /\ ws'[c].delivered = ws[c].delivered
        /\ frames' = frames
    <3>1. CASE Sweep \/ Disable \/ \E S \in SUBSET Conns : CloseAll(S)
      <4>1. PICK S : CloseNodes(S) /\ frames' = frames
        BY <3>1 DEF Sweep, Disable, CloseAll
      <4> QED BY <1>1, <4>1 DEF CloseNodes, WsClose, SessionType
    <3>2. CASE HeartbeatTimer
      <4>1. PICK sent \in SUBSET Nodes :
              ws' = [e \in Conns |-> IF e \in Nodes THEN Beat(ws[e], e \in sent) ELSE ws[e]]
        BY <3>2 DEF HeartbeatTimer
      <4>2. CASE c \notin Nodes BY <3>2, <4>1, <4>2 DEF HeartbeatTimer
      <4>3. CASE c \in Nodes
        <5>1. ws'[c] = Beat(ws[c], c \in sent) BY <4>1, <4>3
        <5>2. Beat(ws[c], c \in sent) \in
                {ws[c], WsClose(ws[c]),
                 [ws[c] EXCEPT !.node = PingedNode(@), !.peer = Pinged(@)]}
          BY DEF Beat
        <5> DEFINE p == Pinged(ws[c].peer)
                   n == PingedNode(ws[c].node)
        <5>3. /\ p.ok = ws[c].peer.ok /\ p.open = ws[c].peer.open
              /\ p.sending = ws[c].peer.sending /\ p.done = ws[c].peer.done
          BY <1>1 DEF Pinged, SessionType, PeerType
        <5>4. ws'[c] \in {ws[c], WsClose(ws[c]), [ws[c] EXCEPT !.node = n, !.peer = p]}
          BY <5>1, <5>2
        <5>5. frames' = frames BY <3>2 DEF HeartbeatTimer
        <5> HIDE DEF p, n
        <5> QED BY <1>1, <5>3, <5>4, <5>5 DEF WsClose, SessionType
      <4> QED BY <4>2, <4>3
    <3>3. CASE Enable \/ Disabled \/ Tick
      BY <1>1, <3>3 DEF Enable, Disabled, Tick, SessionType
    <3> QED BY <1>4, <3>1, <3>2, <3>3 DEF ManagerStep
  <2> QED BY <1>1, <2>1 DEF Matches
<1>5. CASE UNCHANGED vars BY <1>2, <1>5 DEF vars
<1> QED BY <1>3, <1>4, <1>5 DEF Next

\* The messages and the peers stay in step in every reachable state.
THEOREM MatchHolds == Spec => []MatchInv
<1>1. Init => MatchInv BY DEF Init, MatchInv, Matches, NoSession
<1>2. Inv /\ MatchInv /\ [Next]_vars => MatchInv' BY MatchStep DEF MatchInv
<1> QED BY <1>1, <1>2, InvHolds, PTL DEF Spec

\* uvhttp_ws_process_data delivers the messages of a correct peer whole, once
\* and in order, for any sequence of frames and any max_message_size.
THEOREM MessagesAreWhole == Spec => []MessagesWhole
<1>1. MatchInv => MessagesWhole BY DEF MatchInv, Matches, MessagesWhole
<1> QED BY <1>1, MatchHolds, PTL

\* on_websocket_read never drops a session for a frame its peer may send.
THEOREM CompliantPeersAreKept == Spec => CompliantPeerKept
<1>1. Inv /\ MatchInv /\ [Next]_vars =>
        [\A c \in Conns : LET r == ws[c]  s == ws'[c] IN
           r.mem = "live" /\ frames' # frames /\ r.peer.ok /\ s.mem = "freed"
             => ~s.peer.ok]_vars
  BY MatchStep
<1> QED BY <1>1, InvHolds, MatchHolds, PTL DEF Spec, CompliantPeerKept

\* After on_close the user's on_message is never called again.
THEOREM SilentAfterOnClose == Spec => SilentAfterClose
<1>1. Inv /\ MatchInv /\ [Next]_vars =>
        [\A c \in Conns : ws[c].closed > 0 => ws'[c].delivered = ws[c].delivered]_vars
  BY MatchStep
<1> QED BY <1>1, InvHolds, MatchHolds, PTL DEF Spec, SilentAfterClose
==============================================================================
