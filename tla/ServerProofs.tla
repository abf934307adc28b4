---------------------------- MODULE ServerProofs ----------------------------
(***************************************************************************)
(* Proofs about the services of a server, for every value of the           *)
(* constants: the limits of a request (RequestLimits), the rate limiter    *)
(* (RateLimit), the objects a server is put together from (ServerSetup),   *)
(* the protocol upgrades (Upgrade) and what TLS connections read and write *)
(* (TlsInput, TlsOutput).                                                  *)
(***************************************************************************)
EXTENDS RequestLimits, RateLimit, ServerSetup, Upgrade, TlsOutput, SumFacts,
        FiniteSetTheorems, SequenceTheorems, TLAPS

-----------------------------------------------------------------------------
(* The limits of a request.  WithinLimits is inductive once the variables  *)
(* are integers.                                                           *)

\* The types the arithmetic needs.
LimitsType ==
  /\ body \in [length : Nat, capacity : Nat]
  /\ table \in [count : Nat, capacity : Nat, extra : Int]
  /\ refused \in Int

LimitsInv == LimitsType /\ WithinLimits

\* What on_body asks for holds the piece, is the old capacity if that is enough,
\* and is else less than twice what is needed.
LEMMA CapacityFits ==
  ASSUME NEW cap \in Nat, NEW need \in Nat
  PROVE  /\ NewCapacity(cap, need) \in Nat
         /\ need <= NewCapacity(cap, need)
         /\ need <= cap => NewCapacity(cap, need) = cap
         /\ need > cap => NewCapacity(cap, need) < 2 * need
BY DEF NewCapacity

\* The request of a new connection is within its limits.
LEMMA LimitsStart == LimitsInit => LimitsInv
BY RequestLimitsAssumption DEF LimitsInit, LimitsInv, LimitsType, WithinLimits

\* on_body keeps the body within its buffer and the buffer within the limit, and
\* refuses no body that is at most half the limit.
LEMMA BodyStep ==
  ASSUME LimitsInv, NEW n \in 1 .. MaxPiece, OnBodyPiece(n)
  PROVE  LimitsInv'
<1> DEFINE need == body.length + n
           cap == NewCapacity(body.capacity, need)
<1>1. need \in Nat /\ body.capacity \in Nat /\ MaxBody \in Nat /\ body.capacity <= MaxBody
  BY RequestLimitsAssumption DEF LimitsInv, LimitsType, WithinLimits
<1>2. /\ cap \in Nat /\ need <= cap
      /\ need <= body.capacity => cap = body.capacity
      /\ need > body.capacity => cap < 2 * need
  BY <1>1, CapacityFits
<1>3. UNCHANGED table
  BY DEF OnBodyPiece
<1>4. CASE cap <= MaxBody /\ body' = [length |-> need, capacity |-> cap] /\ UNCHANGED refused
  BY <1>1, <1>2, <1>3, <1>4 DEF LimitsInv, LimitsType, WithinLimits
<1>5. CASE cap > MaxBody /\ refused' = need /\ UNCHANGED body
  <2>1. need > body.capacity
    BY <1>1, <1>2, <1>5
  <2>2. 2 * need > MaxBody
    BY <1>1, <1>2, <1>5, <2>1
  <2> QED
    BY <1>1, <1>3, <1>5, <2>2 DEF LimitsInv, LimitsType, WithinLimits
<1>6. CASE refused' = NoMemory /\ UNCHANGED body
  BY <1>3, <1>6 DEF LimitsInv, LimitsType, WithinLimits, NoMemory
<1> QED
  BY <1>4, <1>5, <1>6 DEF OnBodyPiece

\* uvhttp_request_add_header counts a header only when it has a place for it.
LEMMA HeaderStep ==
  ASSUME LimitsInv, AddHeader
  PROVE  LimitsInv'
<1> DEFINE cap == IF 2 * table.capacity > MaxReqHeaders THEN MaxReqHeaders ELSE 2 * table.capacity
<1>1. /\ table.count \in Nat /\ table.capacity \in Nat /\ table.extra \in Int
      /\ table.capacity = InlineReqHeaders + table.extra /\ table.capacity <= MaxReqHeaders
      /\ table.count <= table.capacity
      /\ InlineReqHeaders \in Nat /\ MaxReqHeaders \in Nat
  BY RequestLimitsAssumption DEF LimitsInv, LimitsType, WithinLimits
<1>2. UNCHANGED <<body, refused>>
  BY DEF AddHeader
<1>3. CASE table.count < table.capacity /\ table' = [table EXCEPT !.count = @ + 1]
  BY <1>1, <1>2, <1>3 DEF LimitsInv, LimitsType, WithinLimits
<1>4. CASE /\ table.count >= table.capacity /\ cap # table.capacity
           /\ table' = [count |-> table.count + 1, capacity |-> cap,
                        extra |-> cap - InlineReqHeaders]
  <2>1. cap \in Nat /\ cap > table.capacity /\ cap <= MaxReqHeaders
    BY <1>1, <1>4
  <2>2. table.count + 1 <= cap
    BY <1>1, <1>4, <2>1
  <2> QED
    BY <1>1, <1>2, <1>4, <2>1, <2>2 DEF LimitsInv, LimitsType, WithinLimits
<1>5. CASE UNCHANGED table
  BY <1>2, <1>5 DEF LimitsInv, LimitsType, WithinLimits
<1> QED
  BY <1>3, <1>4, <1>5 DEF AddHeader

\* Every step keeps to the limits.
LEMMA LimitsStep == LimitsInv /\ [LimitsNext]_limitVars => LimitsInv'
<1> SUFFICES ASSUME LimitsInv, [LimitsNext]_limitVars
             PROVE  LimitsInv'
  OBVIOUS
<1>1. CASE AddHeader
  BY <1>1, HeaderStep
<1>2. CASE NextRequest
  BY <1>2, RequestLimitsAssumption DEF NextRequest, LimitsInv, LimitsType, WithinLimits
<1>3. CASE \E n \in 1 .. MaxPiece : OnBodyPiece(n)
  BY <1>3, BodyStep
<1>4. CASE UNCHANGED limitVars
  BY <1>4 DEF limitVars, LimitsInv, LimitsType, WithinLimits
<1> QED
  BY <1>1, <1>2, <1>3, <1>4 DEF LimitsNext

\* A body never outgrows its buffer nor the buffer UVHTTP_MAX_BODY_SIZE, a refused
\* body was longer than half the limit, and every header counted has its place:
\* for all limits, in all requests of a connection.
THEOREM RequestsWithinLimits == LimitsSpec => []WithinLimits
<1>1. LimitsInit => LimitsInv
  BY LimitsStart
<1>2. LimitsInv /\ [LimitsNext]_limitVars => LimitsInv'
  BY LimitsStep
<1>3. LimitsInv => WithinLimits
  BY DEF LimitsInv
<1> QED
  BY <1>1, <1>2, <1>3, PTL DEF LimitsSpec

-----------------------------------------------------------------------------
(* The rate limiter.                                                       *)

RateType ==
  [enabled : BOOLEAN, max : Nat, window : Nat \ {0}, count : Nat, start : Nat]

\* The requests of a log that were counted in the units of S.
At(log, S) == {i \in DOMAIN log : log[i] \in S}

From(t) == {u \in Int : u >= t}

\* What keeps the limiter within twice its limit.  The requests of the window
\* that is open are those of the counter; those of the window before it that are
\* less than a window away are within the limit as well; and none is later than
\* the end of the open window, so that a new one starts behind all of them.
RateInv ==
  /\ rl \in RateType /\ rl_now \in Nat /\ rl_log \in Seq(Nat)
  /\ rl.start <= rl_now
  /\ rl.count = Cardinality(At(rl_log, From(rl.start))) /\ rl.count <= rl.max
  /\ \A i \in DOMAIN rl_log : rl_log[i] < rl.start + rl.window
  /\ Cardinality(At(rl_log, rl.start - rl.window + 1 .. rl.start - 1)) <= rl.max
  /\ \A t \in Int : Cardinality(At(rl_log, t + 1 .. t + rl.window)) <= 2 * rl.max

\* A log is finite, and so is what a stretch of time has of it.
LEMMA AtFinite ==
  ASSUME NEW log \in Seq(Nat), NEW S
  PROVE  IsFiniteSet(At(log, S)) /\ Cardinality(At(log, S)) \in Nat
<1>1. IsFiniteSet(DOMAIN log)
  <2>1. DOMAIN log = 1 .. Len(log) /\ Len(log) \in Nat BY LenProperties
  <2> QED BY <2>1, FS_Interval
<1>2. At(log, S) \subseteq DOMAIN log BY DEF At
<1>3. IsFiniteSet(At(log, S)) BY <1>1, <1>2, FS_Subset
<1> QED BY <1>3, FS_CardinalityType

\* A smaller stretch has no more requests in it.
LEMMA AtMonotonic ==
  ASSUME NEW log \in Seq(Nat), NEW S, NEW T,
         \A i \in DOMAIN log : log[i] \in S => log[i] \in T
  PROVE  Cardinality(At(log, S)) <= Cardinality(At(log, T))
<1>1. At(log, S) \subseteq At(log, T) BY DEF At
<1> QED BY <1>1, AtFinite, FS_Subset

\* A stretch has at most the requests of the two it is made of.
LEMMA AtUnion ==
  ASSUME NEW log \in Seq(Nat), NEW S, NEW T, NEW U,
         \A i \in DOMAIN log : log[i] \in S => log[i] \in T \/ log[i] \in U
  PROVE  Cardinality(At(log, S)) <= Cardinality(At(log, T)) + Cardinality(At(log, U))
<1> DEFINE A == At(log, T)
           B == At(log, U)
<1>1. IsFiniteSet(A) /\ IsFiniteSet(B) /\ Cardinality(A) \in Nat /\ Cardinality(B) \in Nat
  BY AtFinite
<1>2. At(log, S) \subseteq A \cup B BY DEF At
<1> HIDE DEF A, B
<1>3. /\ IsFiniteSet(A \cup B)
      /\ Cardinality(A \cup B) = Cardinality(A) + Cardinality(B) - Cardinality(A \cap B)
  BY <1>1, FS_Union
<1>4. IsFiniteSet(A \cap B) /\ Cardinality(A \cap B) \in Nat
  BY <1>1, FS_Intersection, FS_CardinalityType
<1>5. Cardinality(A \cup B) \in Nat BY <1>3, FS_CardinalityType
<1>6. Cardinality(At(log, S)) <= Cardinality(A \cup B) BY <1>2, <1>3, FS_Subset
<1>7. Cardinality(At(log, S)) \in Nat BY AtFinite
<1> QED BY <1>1, <1>3, <1>4, <1>5, <1>6, <1>7 DEF A, B

\* One more request at time e.
LEMMA AtAppend ==
  ASSUME NEW log \in Seq(Nat), NEW e \in Nat, NEW S
  PROVE  Cardinality(At(Append(log, e), S)) =
           Cardinality(At(log, S)) + (IF e \in S THEN 1 ELSE 0)
<1> DEFINE new == Append(log, e)
           n == Len(log)
<1>1. n \in Nat /\ DOMAIN log = 1 .. n BY LenProperties
<1>2. new \in Seq(Nat) /\ DOMAIN new = 1 .. n + 1 /\ new[n + 1] = e
      /\ \A i \in 1 .. n : new[i] = log[i]
  <2>1. /\ new \in Seq(Nat) /\ Len(new) = n + 1 /\ new[n + 1] = e
        /\ \A i \in 1 .. n : new[i] = log[i]
    BY AppendProperties
  <2> QED BY <2>1, LenProperties
<1> HIDE DEF new, n
<1>3. IsFiniteSet(At(log, S)) /\ n + 1 \notin At(log, S) /\ Cardinality(At(log, S)) \in Nat
  <2>1. n + 1 \notin DOMAIN log BY <1>1
  <2> QED BY <2>1, AtFinite DEF At
<1>4. CASE e \in S
  <2>1. At(new, S) = At(log, S) \cup {n + 1} BY <1>1, <1>2, <1>4 DEF At
  <2> QED BY <1>3, <1>4, <2>1, FS_AddElement DEF new
<1>5. CASE e \notin S
  <2>1. At(new, S) = At(log, S) BY <1>1, <1>2, <1>5 DEF At
  <2> QED BY <1>3, <1>5, <2>1 DEF new
<1> QED BY <1>4, <1>5

\* With nothing in the log the limiter is within its bounds.
LEMMA RateEmpty ==
  ASSUME NEW r \in RateType, r.count = 0
  PROVE  /\ <<>> \in Seq(Nat)
         /\ r.count = Cardinality(At(<<>>, From(r.start))) /\ r.count <= r.max
         /\ \A i \in DOMAIN <<>> : <<>>[i] < r.start + r.window
         /\ Cardinality(At(<<>>, r.start - r.window + 1 .. r.start - 1)) <= r.max
         /\ \A t \in Int : Cardinality(At(<<>>, t + 1 .. t + r.window)) <= 2 * r.max
<1>1. <<>> \in Seq(Nat) /\ DOMAIN <<>> = {} BY EmptySeq
<1>2. \A S : At(<<>>, S) = {} BY <1>1 DEF At
<1>3. \A S : Cardinality(At(<<>>, S)) = 0 BY <1>2, FS_EmptySet
<1>4. r.max \in Nat BY DEF RateType
<1>5. 0 <= r.max /\ 0 <= 2 * r.max BY <1>4
<1> QED BY <1>1, <1>3, <1>5

\* The window that uvhttp_server_check_rate_limit works with: the one that is
\* open, or a new one behind everything that was counted.
LEMMA OpenedKeeps ==
  ASSUME RateInv, NEW r, r = Opened(rl)
  PROVE  /\ r \in RateType /\ r.max = rl.max /\ r.window = rl.window
         /\ r.enabled = rl.enabled
         /\ r.start <= rl_now /\ rl_now < r.start + r.window
         /\ r.count = Cardinality(At(rl_log, From(r.start))) /\ r.count <= r.max
         /\ \A i \in DOMAIN rl_log : rl_log[i] < r.start + r.window
         /\ Cardinality(At(rl_log, r.start - r.window + 1 .. r.start - 1)) <= r.max
<1>1. /\ rl \in RateType /\ rl_now \in Nat /\ rl_log \in Seq(Nat)
      /\ rl.start \in Nat /\ rl.window \in Nat /\ rl.window > 0 /\ rl.max \in Nat
  BY DEF RateInv, RateType
<1>2. \A i \in DOMAIN rl_log : rl_log[i] \in Nat /\ rl_log[i] < rl.start + rl.window
  <2>1. \A i \in DOMAIN rl_log : rl_log[i] \in Nat
    BY <1>1, LenProperties, ElementOfSeq
  <2> QED BY <2>1 DEF RateInv
<1>3. CASE rl_now - rl.start >= rl.window
  <2> DEFINE z == [rl EXCEPT !.count = 0, !.start = rl_now]
  <2>1. r = z BY <1>3 DEF Opened
  <2>2. /\ z \in RateType /\ z.max = rl.max /\ z.window = rl.window
        /\ z.enabled = rl.enabled /\ z.count = 0 /\ z.start = rl_now
    BY <1>1 DEF RateType
  <2> HIDE DEF z
  <2>3. \A i \in DOMAIN rl_log : rl_log[i] < rl_now
    BY <1>1, <1>2, <1>3
  <2>4. At(rl_log, From(rl_now)) = {} BY <1>1, <1>2, <2>3 DEF At, From
  <2>5. Cardinality(At(rl_log, From(rl_now))) = 0 BY <2>4, FS_EmptySet
  <2>6. Cardinality(At(rl_log, rl_now - rl.window + 1 .. rl_now - 1)) <= rl.max
    <3> DEFINE S == rl_now - rl.window + 1 .. rl_now - 1
    <3>1. \A i \in DOMAIN rl_log : rl_log[i] \in S => rl_log[i] \in From(rl.start)
      BY <1>1, <1>2, <1>3 DEF From
    <3> HIDE DEF S
    <3>2. Cardinality(At(rl_log, S)) <= Cardinality(At(rl_log, From(rl.start)))
      BY <1>1, <3>1, AtMonotonic
    <3>3. /\ Cardinality(At(rl_log, From(rl.start))) <= rl.max
          /\ Cardinality(At(rl_log, From(rl.start))) \in Nat
          /\ Cardinality(At(rl_log, S)) \in Nat
      BY <1>1, AtFinite DEF RateInv
    <3> QED BY <1>1, <3>2, <3>3 DEF S
  <2>7. rl_now < rl_now + rl.window /\ rl_now <= rl_now /\ 0 <= rl.max BY <1>1
  <2>8. \A i \in DOMAIN rl_log : rl_log[i] < rl_now + rl.window BY <1>1, <1>2, <2>3
  <2> QED BY <2>1, <2>2, <2>5, <2>6, <2>7, <2>8
<1>4. CASE ~(rl_now - rl.start >= rl.window)
  <2>1. r = rl BY <1>4 DEF Opened
  <2>2. rl_now < rl.start + rl.window BY <1>1, <1>4
  <2> QED BY <1>1, <2>1, <2>2 DEF RateInv
<1> QED BY <1>3, <1>4

\* A request is counted, or answered 429.
LEMMA CheckKeeps ==
  ASSUME RateInv, NEW ip, CheckRateLimit(ip)
  PROVE  RateInv'
<1> DEFINE r == Opened(rl)
<1>1. /\ r \in RateType /\ r.max = rl.max /\ r.window = rl.window
      /\ r.start <= rl_now /\ rl_now < r.start + r.window
      /\ r.count = Cardinality(At(rl_log, From(r.start))) /\ r.count <= r.max
      /\ \A i \in DOMAIN rl_log : rl_log[i] < r.start + r.window
      /\ Cardinality(At(rl_log, r.start - r.window + 1 .. r.start - 1)) <= r.max
  BY OpenedKeeps
<1>2. /\ rl_now \in Nat /\ rl_log \in Seq(Nat)
      /\ \A t \in Int : Cardinality(At(rl_log, t + 1 .. t + rl.window)) <= 2 * rl.max
  BY DEF RateInv
<1>3. \/ /\ r.count < r.max
         /\ rl' = [r EXCEPT !.count = @ + 1] /\ rl_log' = Append(rl_log, rl_now)
      \/ rl' = r /\ rl_log' = rl_log
  BY DEF CheckRateLimit
<1>4. rl_now' = rl_now BY DEF CheckRateLimit
<1> HIDE DEF r
<1>5. CASE rl' = r /\ rl_log' = rl_log
  BY <1>1, <1>2, <1>4, <1>5 DEF RateInv
<1>6. CASE /\ r.count < r.max
           /\ rl' = [r EXCEPT !.count = @ + 1] /\ rl_log' = Append(rl_log, rl_now)
  <2> DEFINE log == Append(rl_log, rl_now)
             W == r.window
             s == r.start
             past == s - W + 1 .. s - 1
             span(t) == t + 1 .. t + W
  <2>1. /\ s \in Nat /\ W \in Nat /\ W > 0 /\ r.max \in Nat /\ r.count \in Nat
        /\ s <= rl_now /\ rl_now < s + W
    BY <1>1 DEF RateType
  <2>2. /\ rl' \in RateType /\ rl'.count = r.count + 1 /\ rl'.max = r.max
        /\ rl'.window = W /\ rl'.start = s
    BY <1>1, <1>6, <2>1 DEF RateType
  <2>3. /\ log \in Seq(Nat)
        /\ \A i \in DOMAIN log : \/ i \in DOMAIN rl_log /\ log[i] = rl_log[i]
                                 \/ log[i] = rl_now
        /\ \A i \in DOMAIN log : log[i] \in Nat
    <3>1. /\ log \in Seq(Nat) /\ Len(log) = Len(rl_log) + 1
          /\ \A i \in 1 .. Len(rl_log) : log[i] = rl_log[i]
          /\ log[Len(rl_log) + 1] = rl_now
      BY <1>2, AppendProperties
    <3>2. /\ DOMAIN log = 1 .. Len(log) /\ DOMAIN rl_log = 1 .. Len(rl_log)
          /\ Len(rl_log) \in Nat
      BY <1>2, <3>1, LenProperties
    <3>3. \A i \in DOMAIN log : log[i] \in Nat BY <3>1, <3>2, ElementOfSeq
    <3> HIDE DEF log
    <3> QED BY <3>1, <3>2, <3>3
  <2>4. \A i \in DOMAIN log : log[i] < s + W BY <1>1, <2>3
  <2>5. Cardinality(At(log, From(s))) = r.count + 1
    <3>1. rl_now \in From(s) BY <1>1, <1>2, <2>1 DEF From
    <3> QED BY <1>1, <1>2, <3>1, AtAppend
  <2>6. Cardinality(At(log, past)) <= r.max
    <3>1. rl_now \notin past
      <4> HIDE DEF s, W
      <4> QED BY <1>2, <2>1
    <3>2. Cardinality(At(log, past)) = Cardinality(At(rl_log, past)) + 0
      BY <1>2, <3>1, AtAppend
    <3>3. Cardinality(At(rl_log, past)) \in Nat BY <1>2, AtFinite
    <3> QED BY <1>1, <3>2, <3>3
  <2> HIDE DEF log, past
  <2>7. ASSUME NEW t \in Int
        PROVE  Cardinality(At(log, span(t))) <= 2 * r.max
    <3>1. CASE rl_now \in span(t)
      <4>1. \A i \in DOMAIN log : log[i] \in span(t) =>
                                     log[i] \in past \/ log[i] \in From(s)
        <5>1. \A x \in Nat : x \in span(t) => x \in past \/ x \in From(s)
          <6> HIDE DEF s, W
          <6> QED BY <1>2, <2>1, <3>1 DEF past, From
        <5> HIDE DEF span
        <5> QED BY <2>3, <5>1
      <4> HIDE DEF span
      <4>2. Cardinality(At(log, span(t))) <=
              Cardinality(At(log, past)) + Cardinality(At(log, From(s)))
        BY <2>3, <4>1, AtUnion
      <4>3. /\ Cardinality(At(log, past)) \in Nat /\ Cardinality(At(log, From(s))) \in Nat
            /\ Cardinality(At(log, span(t))) \in Nat
        BY <2>3, AtFinite
      <4> QED BY <1>6, <2>1, <2>5, <2>6, <4>2, <4>3
    <3>2. CASE rl_now \notin span(t)
      <4> HIDE DEF span
      <4>1. Cardinality(At(log, span(t))) = Cardinality(At(rl_log, span(t))) + 0
        BY <1>2, <3>2, AtAppend DEF log
      <4>2. Cardinality(At(rl_log, span(t))) \in Nat BY <1>2, AtFinite
      <4>3. Cardinality(At(rl_log, span(t))) <= 2 * r.max BY <1>1, <1>2 DEF span
      <4> QED BY <4>1, <4>2, <4>3
    <3> QED BY <3>1, <3>2
  <2>8. r.count + 1 <= r.max BY <1>6, <2>1
  <2>9. rl_log' = log BY <1>6 DEF log
  <2> QED BY <1>1, <1>2, <1>4, <2>2, <2>3, <2>4, <2>5, <2>6, <2>7, <2>8, <2>9
      DEF RateInv, past
<1> QED BY <1>3, <1>5, <1>6

\* Every other operation sets the log back with the counter, or moves the clock.
LEMMA RateInvNext == RateInv /\ [RateNext]_rateVars => RateInv'
<1> SUFFICES ASSUME RateInv, [RateNext]_rateVars PROVE RateInv' OBVIOUS
<1>1. rl \in RateType /\ rl_now \in Nat /\ rl.start <= rl_now /\ rl.start \in Nat
  BY DEF RateInv, RateType
<1>2. ASSUME rl' \in RateType, rl'.count = 0, rl'.start <= rl_now, rl_log' = <<>>,
             rl_now' = rl_now
      PROVE  RateInv'
  BY <1>1, <1>2, RateEmpty DEF RateInv
<1>3. ASSUME NEW m \in RlLimits, NEW w \in RlWindows, EnableRateLimit(m, w)
      PROVE  RateInv'
  <2>1. m \in Nat /\ w \in Nat \ {0} BY RateLimitAssumption
  <2>2. rl' \in RateType /\ rl'.count = 0 /\ rl'.start = 0
    BY <1>3, <2>1 DEF EnableRateLimit, RateType
  <2> QED BY <1>1, <1>2, <1>3, <2>2 DEF EnableRateLimit
<1>4. CASE DisableRateLimit
  <2>1. rl' \in RateType /\ rl'.count = 0 /\ rl'.start = 0
    BY <1>1, <1>4 DEF DisableRateLimit, RateType
  <2> QED BY <1>1, <1>2, <1>4, <2>1 DEF DisableRateLimit
<1>5. CASE ClearRateLimit
  <2>1. rl' \in RateType /\ rl'.count = 0 /\ rl'.start = 0
    BY <1>1, <1>5 DEF ClearRateLimit, RateType
  <2> QED BY <1>1, <1>2, <1>5, <2>1 DEF ClearRateLimit
<1>6. CASE ResetRateLimitClient
  <2>1. rl' \in RateType /\ rl'.count = 0 /\ rl'.start = rl_now
    BY <1>1, <1>6 DEF ResetRateLimitClient, RateType
  <2> QED BY <1>1, <1>2, <1>6, <2>1 DEF ResetRateLimitClient
<1>7. CASE RateTick
  <2>1. rl_now' = rl_now + 1 /\ rl' = rl /\ rl_log' = rl_log BY <1>7 DEF RateTick
  <2>2. rl_now' \in Nat /\ rl.start <= rl_now' BY <1>1, <2>1
  <2> QED BY <2>1, <2>2 DEF RateInv
<1>8. CASE UNCHANGED <<rl, rl_now, rl_log>>
  BY <1>8 DEF RateInv
<1>9. ASSUME NEW ip, AddWhitelist(ip) PROVE RateInv' BY <1>8, <1>9 DEF AddWhitelist
<1>10. CASE UNCHANGED rateVars BY <1>8, <1>10 DEF rateVars
<1> QED BY <1>3, <1>4, <1>5, <1>6, <1>7, <1>9, <1>10, CheckKeeps DEF RateNext

\* The array of listed addresses and the hash table are filled together, and the
\* array is allocated while there is an address in it.
ListInv ==
  /\ rl_list \in Seq(Addresses \cup LongAddresses)
  /\ rl_hash \in Seq(Addresses \cup LongAddresses \cup {"cut"})
  /\ Len(rl_list) = Len(rl_hash)
  /\ \A i \in DOMAIN rl_list : rl_hash[i] = StoredAddress(rl_list[i])
  /\ rl_list # <<>> => rl_array = "block"

\* An addition goes to both, or to neither; a rollback frees no array but one that
\* had no address in it.
LEMMA ListInvNext == ListInv /\ [RateNext]_rateVars => ListInv'
<1> SUFFICES ASSUME ListInv, [RateNext]_rateVars PROVE ListInv' OBVIOUS
<1>1. ASSUME UNCHANGED <<rl_list, rl_hash>>, rl_list # <<>> => rl_array' = "block"
      PROVE  ListInv'
  BY <1>1 DEF ListInv, StoredAddress
<1>2. ASSUME NEW ip \in Addresses \cup LongAddresses,
             rl_list' = Append(rl_list, ip), rl_hash' = Append(rl_hash, StoredAddress(ip)),
             rl_array' = "block"
      PROVE  ListInv'
  <2> DEFINE n == Len(rl_list)
  <2>1. StoredAddress(ip) \in Addresses \cup LongAddresses \cup {"cut"} BY DEF StoredAddress
  <2>2. /\ rl_list' \in Seq(Addresses \cup LongAddresses)
        /\ Len(rl_list') = n + 1 /\ rl_list'[n + 1] = ip
        /\ \A i \in 1 .. n : rl_list'[i] = rl_list[i]
    BY <1>2, AppendProperties DEF ListInv
  <2>3. /\ rl_hash' \in Seq(Addresses \cup LongAddresses \cup {"cut"})
        /\ Len(rl_hash') = n + 1 /\ rl_hash'[n + 1] = StoredAddress(ip)
        /\ \A i \in 1 .. n : rl_hash'[i] = rl_hash[i]
    BY <1>2, <2>1, AppendProperties DEF ListInv
  <2>4. /\ DOMAIN rl_list = 1 .. n /\ n \in Nat /\ DOMAIN rl_list' = 1 .. n + 1
    BY <2>2, LenProperties DEF ListInv
  <2>5. \A i \in 1 .. n : rl_hash[i] = StoredAddress(rl_list[i]) BY <2>4 DEF ListInv
  <2> HIDE DEF n
  <2>6. \A i \in 1 .. n + 1 : i \in 1 .. n \/ i = n + 1 BY <2>4
  <2>7. \A i \in DOMAIN rl_list' : rl_hash'[i] = StoredAddress(rl_list'[i])
    BY <2>2, <2>3, <2>4, <2>5, <2>6
  <2>8. Len(rl_list') = Len(rl_hash') BY <2>2, <2>3
  <2> QED BY <1>2, <2>2, <2>3, <2>7, <2>8 DEF ListInv, StoredAddress
<1>3. ASSUME NEW ip \in Addresses \cup LongAddresses, AddWhitelist(ip) PROVE ListInv'
  <2>1. rl_list # <<>> => Len(rl_list) # 0 /\ rl_array = "block"
    BY EmptySeq DEF ListInv
  <2>2. ASSUME rl_array' \in RolledBack(Len(rl_list)), rl_list # <<>> PROVE rl_array' = "block"
    BY <2>1, <2>2 DEF RolledBack
  <2>3. CASE UNCHANGED <<rl_list, rl_array, rl_hash>> BY <1>1, <2>1, <2>3
  <2>4. CASE rl_array' \in RolledBack(Len(rl_list)) /\ UNCHANGED <<rl_list, rl_hash>>
    BY <1>1, <2>2, <2>4
  <2>5. CASE /\ rl_array' = "block"
             /\ rl_list' = Append(rl_list, ip) /\ rl_hash' = Append(rl_hash, StoredAddress(ip))
    BY <1>2, <2>5
  <2> QED BY <1>3, <2>3, <2>4, <2>5 DEF AddWhitelist
<1>4. CASE \/ \E m \in RlLimits, w \in RlWindows : EnableRateLimit(m, w)
           \/ \E ip \in Addresses : CheckRateLimit(ip)
           \/ DisableRateLimit \/ ClearRateLimit \/ ResetRateLimitClient \/ RateTick
           \/ UNCHANGED rateVars
  <2>1. UNCHANGED <<rl_list, rl_array, rl_hash>>
    BY <1>4 DEF EnableRateLimit, CheckRateLimit, DisableRateLimit, ClearRateLimit,
         ResetRateLimitClient, RateTick, rateVars
  <2> QED BY <1>1, <2>1 DEF ListInv
<1> QED BY <1>3, <1>4 DEF RateNext

\* The limiter is right for any limit, any window and any number of requests: no
\* stretch of time as long as a window has more than twice the limit of counted
\* requests in it, the counter is exact, and a listed IPv4 client is not counted.
\* Whichever allocations of an addition fail, array and table agree, and the array
\* is allocated while an address is listed.
THEOREM RateIsLimited == RateSpec => []RateLimitOK
<1>1. RateInit => RateInv /\ ListInv
  <2> SUFFICES ASSUME RateInit PROVE RateInv /\ ListInv OBVIOUS
  <2>1. rl \in RateType /\ rl.count = 0 /\ rl.start = 0 /\ rl_now = 0 /\ rl_log = <<>>
    BY DEF RateInit, RateType
  <2>2. RateInv BY <2>1, RateEmpty DEF RateInv
  <2>3. ListInv BY EmptySeq DEF RateInit, ListInv
  <2> QED BY <2>2, <2>3
<1>2. RateInv => RateBounded
  <2> SUFFICES ASSUME RateInv, rl.enabled
               PROVE  /\ \A t \in -1 .. rl_now : Counted(t, rl.window) <= 2 * rl.max
                      /\ rl.count <= rl.max /\ Remaining \in 0 .. rl.max
                      /\ rl.count = Cardinality({i \in DOMAIN rl_log : rl_log[i] >= rl.start})
    BY DEF RateBounded
  <2>1. /\ rl.window \in Nat /\ rl.max \in Nat /\ rl.count \in Nat /\ rl.start \in Nat
        /\ rl.count <= rl.max /\ rl_now \in Nat
    BY DEF RateInv, RateType
  <2>2. \A i \in DOMAIN rl_log : rl_log[i] \in Nat
    BY LenProperties, ElementOfSeq DEF RateInv
  <2>3. ASSUME NEW t \in -1 .. rl_now PROVE Counted(t, rl.window) <= 2 * rl.max
    <3>1. t \in Int BY <2>1
    <3>2. {i \in DOMAIN rl_log : t < rl_log[i] /\ rl_log[i] <= t + rl.window}
            = At(rl_log, t + 1 .. t + rl.window)
      BY <2>1, <2>2, <3>1 DEF At
    <3> QED BY <3>1, <3>2 DEF Counted, RateInv
  <2>4. Remaining \in 0 .. rl.max BY <2>1 DEF Remaining
  <2>5. {i \in DOMAIN rl_log : rl_log[i] >= rl.start} = At(rl_log, From(rl.start))
    BY <2>1, <2>2 DEF At, From
  <2> QED BY <2>1, <2>3, <2>4, <2>5 DEF RateInv
<1>3. ListInv => WhitelistAgrees
  <2> SUFFICES ASSUME ListInv, NEW ip \in Addresses, NEW i \in DOMAIN rl_list, rl_list[i] = ip
               PROVE  Whitelisted(ip)
    BY DEF ListInv, WhitelistAgrees
  <2>1. ip \notin LongAddresses BY RateLimitAssumption
  <2>2. rl_hash[i] = ip BY <2>1 DEF ListInv, StoredAddress
  <2>3. DOMAIN rl_list = 1 .. Len(rl_list) /\ DOMAIN rl_hash = 1 .. Len(rl_list)
        /\ Len(rl_list) \in Nat
    BY LenProperties DEF ListInv
  <2>4. Len(rl_list) > 0 /\ i \in DOMAIN rl_hash BY <2>3
  <2> QED BY <2>2, <2>4 DEF Whitelisted
<1> QED BY <1>1, <1>2, <1>3, RateInvNext, ListInvNext, PTL DEF RateSpec, RateLimitOK

-----------------------------------------------------------------------------
(* Putting a server together.                                              *)

MemStates == {"unused", "app", "held", "freed"}

\* Who points to what: the memory, the server's four pointers and the current
\* configuration of each context.  An object is held just if one pointer leads to
\* it, and a context that has a configuration is neither unused nor freed.
PointersOK(mem, r, t, c, x, cfg) ==
  /\ mem \in [Objects -> MemStates]
  /\ r \in Routers \cup {NoObject} /\ t \in TlsContexts \cup {NoObject}
  /\ c \in Configs \cup {NoObject} /\ x \in Contexts \cup {NoObject}
  /\ cfg \in [Contexts -> Configs \cup {NoObject}]
  /\ \A o \in Routers : mem[o] = "held" <=> o = r
  /\ \A o \in TlsContexts : mem[o] = "held" <=> o = t
  /\ \A o \in Contexts : mem[o] = "held" <=> o = x
  /\ \A o \in Configs : mem[o] = "held" <=> o = c \/ \E y \in Contexts : cfg[y] = o
  /\ \A y \in Contexts : cfg[y] # NoObject => cfg[y] # c /\ mem[y] \in {"app", "held"}
  /\ \A y, z \in Contexts : cfg[y] = cfg[z] /\ cfg[y] # NoObject => y = z

ServerType ==
  [state : {"none", "live", "freed"}, handle : {"none", "open", "closed"}, listening : BOOLEAN,
   router : Routers \cup {NoObject}, tls : TlsContexts \cup {NoObject},
   config : Configs \cup {NoObject}, context : Contexts \cup {NoObject}]

ContextType ==
  [initialized : BOOLEAN, tls : BOOLEAN, ws : BOOLEAN, config : Configs \cup {NoObject}]

Cfg == [y \in Contexts |-> su_ctx[y].config]

SetupInv ==
  /\ su_server \in ServerType /\ su_ctx \in [Contexts -> ContextType] /\ su_twice = {}
  /\ PointersOK(su_mem, su_server.router, su_server.tls, su_server.config,
                su_server.context, Cfg)
  /\ su_server.state # "live" =>
       /\ su_server.router = NoObject /\ su_server.tls = NoObject
       /\ su_server.config = NoObject /\ su_server.context = NoObject

\* Freeing distinct objects that are not freed yet frees no object twice.
LEMMA FreedOnce ==
  ASSUME NEW mem \in [Objects -> MemStates], NEW seq, FreeAll(mem, seq),
         \A i, j \in DOMAIN seq : i # j => seq[i] # seq[j] \/ seq[i] = NoObject,
         \A i \in DOMAIN seq : seq[i] # NoObject => mem[seq[i]] # "freed"
  PROVE  /\ su_twice' = su_twice /\ su_mem' \in [Objects -> MemStates]
         /\ \A i \in DOMAIN seq : seq[i] \in Objects => su_mem'[seq[i]] = "freed"
         /\ \A o \in Objects : (\A i \in DOMAIN seq : seq[i] # o) => su_mem'[o] = mem[o]
<1>1. \A o \in Objects : o # NoObject BY SetupAssumption
<1> DEFINE objs == {seq[i] : i \in DOMAIN seq} \ {NoObject}
<1>2. su_mem' = [o \in Objects |-> IF o \in objs THEN "freed" ELSE mem[o]]
  BY DEF FreeAll
<1>3. su_twice' = su_twice BY Zenon DEF FreeAll
<1>4. \A o \in Objects : o \in objs <=> \E i \in DOMAIN seq : seq[i] = o BY <1>1
<1> HIDE DEF objs
<1> QED BY <1>2, <1>3, <1>4 DEF MemStates

\* An object of one kind is none of another, and not NoObject.
LEMMA KindsApart ==
  /\ \A o \in Routers : o \notin Configs /\ o \notin Contexts /\ o \notin TlsContexts
  /\ \A o \in Configs : o \notin Routers /\ o \notin Contexts /\ o \notin TlsContexts
  /\ \A o \in Contexts : o \notin Routers /\ o \notin Configs /\ o \notin TlsContexts
  /\ \A o \in TlsContexts : o \notin Routers /\ o \notin Configs /\ o \notin Contexts
  /\ NoObject \notin Routers /\ NoObject \notin Configs
  /\ NoObject \notin Contexts /\ NoObject \notin TlsContexts
BY SetupAssumption DEF Objects

\* A made object, and one freed by the application, is not pointed to.
LEMMA MemApp ==
  ASSUME NEW mem, NEW r, NEW t, NEW c, NEW x, NEW cfg, PointersOK(mem, r, t, c, x, cfg),
         NEW o \in Objects, NEW m, NEW s \in {"app", "freed"},
         m = [mem EXCEPT ![o] = s],
         s = "app" => mem[o] = "unused",
         s = "freed" => mem[o] \in {"app", "unused"} /\ (o \in Contexts => cfg[o] = NoObject)
  PROVE  PointersOK(m, r, t, c, x, cfg)
BY KindsApart DEF PointersOK, MemStates, Objects

\* An object of the application takes the place of what the server pointed to.
LEMMA HandRouter ==
  ASSUME NEW mem, NEW r, NEW t, NEW c, NEW x, NEW cfg, PointersOK(mem, r, t, c, x, cfg),
         NEW o \in Routers, mem[o] \in {"app", "unused"}, NEW m,
         m = [Turned(mem, r, "app") EXCEPT ![o] = "held"]
  PROVE  PointersOK(m, o, t, c, x, cfg)
<1> DEFINE k == Turned(mem, r, "app")
<1>1. k \in [Objects -> MemStates] /\ \A p \in Objects : k[p] = IF p = r THEN "app" ELSE mem[p]
  BY KindsApart DEF PointersOK, Turned, MemStates, Objects
<1> HIDE DEF k
<1>2. m \in [Objects -> MemStates] /\ \A p \in Objects : m[p] = IF p = o THEN "held" ELSE k[p]
  BY <1>1 DEF k, MemStates, Objects
<1> QED BY <1>1, <1>2, KindsApart DEF PointersOK, Objects

\* A server is given a context: the one it had is the application's again.
LEMMA HandContext ==
  ASSUME NEW mem, NEW r, NEW t, NEW c, NEW x, NEW cfg, PointersOK(mem, r, t, c, x, cfg),
         NEW o \in Contexts, mem[o] = "app", NEW m,
         m = [Turned(mem, x, "app") EXCEPT ![o] = "held"]
  PROVE  PointersOK(m, r, t, c, o, cfg)
<1> DEFINE k == Turned(mem, x, "app")
<1>1. k \in [Objects -> MemStates] /\ \A p \in Objects : k[p] = IF p = x THEN "app" ELSE mem[p]
  BY KindsApart DEF PointersOK, Turned, MemStates, Objects
<1> HIDE DEF k
<1>2. m \in [Objects -> MemStates] /\ \A p \in Objects : m[p] = IF p = o THEN "held" ELSE k[p]
  BY <1>1 DEF k, MemStates, Objects
<1> QED BY <1>1, <1>2, KindsApart DEF PointersOK, Objects

\* A server is given a configuration: the one it had is the application's again.
LEMMA HandConfig ==
  ASSUME NEW mem, NEW r, NEW t, NEW c, NEW x, NEW cfg, PointersOK(mem, r, t, c, x, cfg),
         NEW o \in Configs, mem[o] \in {"app", "unused"}, NEW m,
         m = [Turned(mem, c, "app") EXCEPT ![o] = "held"]
  PROVE  PointersOK(m, r, t, o, x, cfg)
<1> DEFINE k == Turned(mem, c, "app")
<1>1. k \in [Objects -> MemStates] /\ \A p \in Objects : k[p] = IF p = c THEN "app" ELSE mem[p]
  BY KindsApart DEF PointersOK, Turned, MemStates, Objects
<1> HIDE DEF k
<1>2. m \in [Objects -> MemStates] /\ \A p \in Objects : m[p] = IF p = o THEN "held" ELSE k[p]
  BY <1>1 DEF k, MemStates, Objects
<1> QED BY <1>1, <1>2, KindsApart DEF PointersOK, Objects

\* A context gets a configuration; the one it had is the application's again.
LEMMA HandCurrent ==
  ASSUME NEW mem, NEW r, NEW t, NEW c, NEW x, NEW cfg, PointersOK(mem, r, t, c, x, cfg),
         NEW y \in Contexts, mem[y] \in {"app", "held"},
         NEW o \in Configs, mem[o] \in {"app", "unused"}, NEW m,
         m = Turned(Turned(mem, cfg[y], "app"), o, "held"),
         NEW f, f = [cfg EXCEPT ![y] = o]
  PROVE  PointersOK(m, r, t, c, x, f)
<1> DEFINE k == Turned(mem, cfg[y], "app")
<1>1. k \in [Objects -> MemStates] /\ \A p \in Objects : k[p] = IF p = cfg[y] THEN "app" ELSE mem[p]
  BY KindsApart DEF PointersOK, Turned, MemStates, Objects
<1> HIDE DEF k
<1>2. m \in [Objects -> MemStates] /\ \A p \in Objects : m[p] = IF p = o THEN "held" ELSE k[p]
  BY <1>1, KindsApart DEF k, MemStates, Objects, Turned
<1>3. f \in [Contexts -> Configs \cup {NoObject}] /\ \A z \in Contexts : f[z] = IF z = y THEN o ELSE cfg[z]
  BY DEF PointersOK
<1> QED BY <1>1, <1>2, <1>3, KindsApart DEF PointersOK, Objects

\* The TLS context of the server is replaced (o) or dropped (NoObject), and freed.
LEMMA HandTls ==
  ASSUME NEW mem, NEW r, NEW t, NEW c, NEW x, NEW cfg, PointersOK(mem, r, t, c, x, cfg),
         NEW o \in TlsContexts \cup {NoObject}, o # NoObject => mem[o] = "app",
         NEW m \in [Objects -> MemStates],
         \A p \in Objects : m[p] = IF p = t THEN "freed" ELSE IF p = o THEN "held" ELSE mem[p]
  PROVE  PointersOK(m, r, o, c, x, cfg)
BY KindsApart DEF PointersOK, Objects

\* A context is freed with its configuration.
LEMMA FreeContext ==
  ASSUME NEW mem, NEW r, NEW t, NEW c, NEW x, NEW cfg, PointersOK(mem, r, t, c, x, cfg),
         NEW y \in Contexts, mem[y] = "app", 
         NEW m \in [Objects -> MemStates], NEW f \in [Contexts -> Configs \cup {NoObject}],
         \A p \in Objects : m[p] = IF p = y \/ p = cfg[y] THEN "freed" ELSE mem[p],
         \A z \in Contexts : f[z] = IF z = y THEN NoObject ELSE cfg[z]
  PROVE  PointersOK(m, r, t, c, x, f)
BY KindsApart DEF PointersOK, Objects

\* A server is freed with all that it points to.
LEMMA FreeServer ==
  ASSUME NEW mem, NEW r, NEW t, NEW c, NEW x, NEW cfg, PointersOK(mem, r, t, c, x, cfg),
         NEW m \in [Objects -> MemStates], NEW f \in [Contexts -> Configs \cup {NoObject}],
         \A p \in Objects : m[p] = IF p \in {r, t, c, x} \/ (x # NoObject /\ p = cfg[x])
                                   THEN "freed" ELSE mem[p],
         \A z \in Contexts : f[z] = IF z = x THEN NoObject ELSE cfg[z]
  PROVE  PointersOK(m, NoObject, NoObject, NoObject, NoObject, f)
BY KindsApart DEF PointersOK, Objects

\* The object that Fresh chooses is one that was not made yet.
LEMMA FreshUnused ==
  ASSUME NEW S, NEW o \in Fresh(S)
  PROVE  o \in S /\ su_mem[o] = "unused"
BY Zenon DEF Fresh

\* The invariant follows from that of the pointers when a step leaves the server's
\* type, and the contexts', right.
LEMMA SetupKept ==
  ASSUME SetupInv, su_server' \in ServerType, su_ctx' \in [Contexts -> ContextType],
         su_twice' = su_twice,
         PointersOK(su_mem', su_server'.router, su_server'.tls, su_server'.config,
                    su_server'.context, Cfg'),
         su_server'.state # "live" =>
           /\ su_server'.router = NoObject /\ su_server'.tls = NoObject
           /\ su_server'.config = NoObject /\ su_server'.context = NoObject
  PROVE  SetupInv'
BY DEF SetupInv

\* An application that has kept to the rule so far, this step included, frees and
\* hands over nothing but its own.
LEMMA RuleKept ==
  ASSUME NEW o, FreeObject(o) \/ Handed(o), su_strayed' = {}
  PROVE  su_mem[o] = "app"
BY DEF FreeObject, Handed, Departs

\* The server is left alone, and so are the pointers of the contexts.
LEMMA ObjectKept ==
  ASSUME SetupInv, su_strayed' = {}, NEW o \in Objects, NewObject(o) \/ FreeObject(o)
  PROVE  SetupInv'
<1> DEFINE P(m, f) == PointersOK(m, su_server.router, su_server.tls, su_server.config,
                                 su_server.context, f)
<1>1. /\ P(su_mem, Cfg) /\ su_mem \in [Objects -> MemStates]
      /\ su_server \in ServerType /\ su_ctx \in [Contexts -> ContextType]
  BY DEF SetupInv, PointersOK
<1>2. ASSUME P(su_mem', Cfg'), su_server' = su_server, su_twice' = su_twice,
             su_ctx' \in [Contexts -> ContextType]
      PROVE  SetupInv'
  BY <1>2 DEF SetupInv
<1>3. CASE NewObject(o)
  <2>1. su_mem[o] = "unused" BY <1>3, FreshUnused DEF NewObject
  <2>2. /\ su_mem' = [su_mem EXCEPT ![o] = "app"]
        /\ UNCHANGED <<su_twice, su_server, su_ctx>>
    BY <1>3 DEF NewObject
  <2>3. P(su_mem', Cfg) BY <1>1, <2>1, <2>2, MemApp
  <2>4. Cfg' = Cfg BY <2>2 DEF Cfg
  <2> QED BY <1>1, <1>2, <2>2, <2>3, <2>4
<1>4. CASE FreeObject(o) /\ o \notin Contexts
  <2>1. /\ su_mem[o] = "app" /\ FreeAll(su_mem, <<o>>) /\ su_server' = su_server
        /\ su_ctx' = Emptied({o})
    BY <1>4, RuleKept DEF FreeObject
  <2>2. su_ctx' = su_ctx BY <1>1, <1>4, <2>1 DEF Emptied
  <2>3. o # NoObject BY SetupAssumption
  <2>4. DOMAIN <<o>> = 1 .. 1 /\ <<o>>[1] = o OBVIOUS
  <2> DEFINE seq == <<o>>
  <2> HIDE DEF seq
  <2>5. /\ su_twice' = su_twice /\ su_mem' \in [Objects -> MemStates]
        /\ su_mem'[o] = "freed" /\ \A p \in Objects \ {o} : su_mem'[p] = su_mem[p]
    <3>1. DOMAIN seq = 1 .. 1 /\ seq[1] = o /\ FreeAll(su_mem, seq) BY <2>1, <2>4 DEF seq
    <3>2. /\ \A i, j \in DOMAIN seq : i # j => seq[i] # seq[j] \/ seq[i] = NoObject
          /\ \A i \in DOMAIN seq : seq[i] # NoObject => su_mem[seq[i]] # "freed"
      BY <2>1, <3>1
    <3>3. /\ su_twice' = su_twice /\ su_mem' \in [Objects -> MemStates]
          /\ \A i \in DOMAIN seq : seq[i] \in Objects => su_mem'[seq[i]] = "freed"
          /\ \A p \in Objects : (\A i \in DOMAIN seq : seq[i] # p) => su_mem'[p] = su_mem[p]
      BY <1>1, <3>1, <3>2, FreedOnce
    <3> QED BY <3>1, <3>3
  <2>6. su_mem' = [su_mem EXCEPT ![o] = "freed"] BY <1>1, <2>5
  <2>7. P(su_mem', Cfg) BY <1>1, <1>4, <2>1, <2>6, MemApp
  <2>8. Cfg' = Cfg BY <2>2 DEF Cfg
  <2> QED BY <1>1, <1>2, <2>1, <2>2, <2>5, <2>7, <2>8
<1>5. CASE FreeObject(o) /\ o \in Contexts
  <2> DEFINE d == su_ctx[o].config
             seq == <<d, o>>
  <2>1. o # NoObject BY SetupAssumption
  <2>2. /\ su_mem[o] = "app" /\ FreeAll(su_mem, seq) /\ su_server' = su_server
        /\ su_ctx' = Emptied({o})
    BY <1>5, <2>1, RuleKept DEF FreeObject, ContextParts
  <2>3. d \in Configs \cup {NoObject} /\ Cfg[o] = d BY <1>1, <1>5 DEF ContextType, Cfg
  <2>4. d # o /\ (d # NoObject => su_mem[d] = "held")
    BY <1>1, <1>5, <2>3, KindsApart DEF PointersOK
  <2> HIDE DEF d
  <2>5. DOMAIN seq = 1 .. 2 /\ seq[1] = d /\ seq[2] = o OBVIOUS
  <2> HIDE DEF seq
  <2>6. /\ su_twice' = su_twice /\ su_mem' \in [Objects -> MemStates]
        /\ \A i \in DOMAIN seq : seq[i] \in Objects => su_mem'[seq[i]] = "freed"
        /\ \A p \in Objects : (\A i \in DOMAIN seq : seq[i] # p) => su_mem'[p] = su_mem[p]
    <3>1. \A i \in DOMAIN seq : i = 1 \/ i = 2 BY <2>5
    <3>2. \A i, j \in DOMAIN seq : i # j => seq[i] # seq[j] \/ seq[i] = NoObject
      BY <2>4, <2>5, <3>1
    <3>3. \A i \in DOMAIN seq : seq[i] # NoObject => su_mem[seq[i]] # "freed"
      BY <2>2, <2>4, <2>5, <3>1
    <3> QED BY <1>1, <2>2, <2>5, <3>2, <3>3, FreedOnce
  <2>8. /\ su_mem' \in [Objects -> MemStates]
        /\ \A p \in Objects : su_mem'[p] = IF p = o \/ p = Cfg[o] THEN "freed" ELSE su_mem[p]
    BY <2>3, <2>5, <2>6
  <2>9. /\ su_ctx' \in [Contexts -> ContextType]
        /\ Cfg' \in [Contexts -> Configs \cup {NoObject}]
        /\ \A z \in Contexts : Cfg'[z] = IF z = o THEN NoObject ELSE Cfg[z]
    BY <1>1, <2>2 DEF Emptied, EmptyContext, ContextType, Cfg
  <2>10. P(su_mem', Cfg') BY <1>1, <1>5, <2>2, <2>8, <2>9, FreeContext
  <2> QED BY <1>2, <2>2, <2>6, <2>9, <2>10
<1> QED BY <1>3, <1>4, <1>5

\* The context gets a configuration of its own, or one of the application's.
LEMMA ContextKept ==
  ASSUME SetupInv, su_strayed' = {}, NEW x \in Contexts,
         ContextInit(x) \/ \E c \in Configs : SetCurrent(x, c)
  PROVE  SetupInv'
<1> DEFINE P(m, f) == PointersOK(m, su_server.router, su_server.tls, su_server.config,
                                 su_server.context, f)
<1>1. /\ P(su_mem, Cfg) /\ su_mem \in [Objects -> MemStates]
      /\ su_server \in ServerType /\ su_ctx \in [Contexts -> ContextType]
      /\ Cfg[x] = su_ctx[x].config /\ Cfg[x] \in Configs \cup {NoObject}
  BY DEF SetupInv, PointersOK, Cfg
<1>2. ASSUME P(su_mem', Cfg'), su_server' = su_server, su_twice' = su_twice,
             su_ctx' \in [Contexts -> ContextType]
      PROVE  SetupInv'
  BY <1>2 DEF SetupInv
<1>3. CASE ContextInit(x)
  <2>1. PICK tls \in BOOLEAN, ws \in BOOLEAN, c \in Fresh(Configs) \cup {NoObject} :
          /\ su_mem[x] \in {"app", "held"}
          /\ Cfg[x] # NoObject => c = NoObject
          /\ su_ctx' = [su_ctx EXCEPT ![x] =
               [initialized |-> TRUE, tls |-> tls, ws |-> ws,
                config |-> IF Cfg[x] # NoObject THEN Cfg[x] ELSE c]]
          /\ su_mem' = Turned(su_mem, c, "held")
          /\ UNCHANGED <<su_twice, su_server>>
    BY <1>1, <1>3, Zenon DEF ContextInit
  <2> DEFINE d == IF Cfg[x] # NoObject THEN Cfg[x] ELSE c
  <2>2. c \in Configs \cup {NoObject} /\ (c # NoObject => su_mem[c] = "unused")
    BY FreshUnused
  <2>3. d \in Configs \cup {NoObject} BY <1>1, <2>2
  <2>4. su_ctx' \in [Contexts -> ContextType] /\ Cfg' = [Cfg EXCEPT ![x] = d]
    <3> HIDE DEF d
    <3>1. su_ctx' = [su_ctx EXCEPT ![x] =
               [initialized |-> TRUE, tls |-> tls, ws |-> ws, config |-> d]]
      BY <2>1 DEF d
    <3>2. [initialized |-> TRUE, tls |-> tls, ws |-> ws, config |-> d] \in ContextType
      BY <2>3 DEF ContextType
    <3>3. su_ctx' \in [Contexts -> ContextType] BY <1>1, <3>1, <3>2
    <3>4. \A z \in Contexts : su_ctx'[z].config = IF z = x THEN d ELSE su_ctx[z].config
      BY <1>1, <3>1
    <3> QED BY <3>3, <3>4 DEF Cfg
  <2>5. CASE c = NoObject
    <3>1. Cfg' = Cfg BY <1>1, <2>4, <2>5 DEF Cfg
    <3>2. su_mem' = su_mem BY <2>1, <2>5 DEF Turned
    <3> QED BY <1>1, <1>2, <2>1, <2>4, <3>1, <3>2
  <2>6. CASE c # NoObject
    <3>1. Cfg[x] = NoObject /\ d = c BY <2>1, <2>6
    <3>2. su_mem' = Turned(Turned(su_mem, Cfg[x], "app"), c, "held")
      BY <2>1, <3>1 DEF Turned
    <3>3. P(su_mem', Cfg') BY <1>1, <2>1, <2>2, <2>4, <2>6, <3>1, <3>2, HandCurrent
    <3> QED BY <1>2, <2>1, <2>4, <3>3
  <2> QED BY <2>5, <2>6
<1>4. ASSUME NEW c \in Configs, SetCurrent(x, c) PROVE SetupInv'
  <2>1. /\ su_mem[x] \in {"app", "held"} /\ su_mem[c] = "app"
        /\ su_ctx' = [su_ctx EXCEPT ![x].config = c]
        /\ su_mem' = Turned(Turned(su_mem, Cfg[x], "app"), c, "held")
        /\ UNCHANGED <<su_twice, su_server>>
    BY <1>1, <1>4, RuleKept DEF SetCurrent
  <2>2. su_ctx' \in [Contexts -> ContextType] /\ Cfg' = [Cfg EXCEPT ![x] = c]
    BY <1>1, <2>1 DEF ContextType, Cfg
  <2>3. P(su_mem', Cfg') BY <1>1, <2>1, <2>2, HandCurrent
  <2> QED BY <1>2, <2>1, <2>2, <2>3
<1> QED BY <1>3, <1>4

\* The setters of the server: the object before is the application's again.
LEMMA SetterKept ==
  ASSUME SetupInv, su_strayed' = {},
         \/ \E r \in Routers : SetRouter(r) \/ EnableHealthCheck(r)
         \/ \E x \in Contexts : SetContext(x)
         \/ \E c \in Configs : SetServerConfig(c)
  PROVE  SetupInv'
<1> DEFINE s == su_server
<1>1. /\ PointersOK(su_mem, s.router, s.tls, s.config, s.context, Cfg)
      /\ s \in ServerType /\ su_ctx \in [Contexts -> ContextType]
  BY DEF SetupInv
<1>2. su_ctx' = su_ctx /\ su_twice' = su_twice
  BY DEF SetRouter, EnableHealthCheck, SetContext, SetServerConfig
<1>3. Cfg' = Cfg BY <1>2 DEF Cfg
<1>4. ASSUME s' \in ServerType, s'.state = "live",
             PointersOK(su_mem', s'.router, s'.tls, s'.config, s'.context, Cfg)
      PROVE  SetupInv'
  BY <1>1, <1>2, <1>3, <1>4 DEF SetupInv
<1>5. ASSUME NEW r \in Routers, SetRouter(r) PROVE SetupInv'
  <2>1. /\ s' \in ServerType /\ s'.state = "live" /\ s'.router = r /\ s'.tls = s.tls
        /\ s'.config = s.config /\ s'.context = s.context
    BY <1>1, <1>5 DEF SetRouter, Hand, ServerType
  <2>2. /\ su_mem[r] = "app" /\ su_mem' = [Turned(su_mem, s.router, "app") EXCEPT ![r] = "held"]
    BY <1>5, RuleKept DEF SetRouter, Hand
  <2>3. PointersOK(su_mem', r, s.tls, s.config, s.context, Cfg) BY <1>1, <2>2, HandRouter
  <2> QED BY <1>4, <2>1, <2>3
<1>6. ASSUME NEW r \in Routers, EnableHealthCheck(r) PROVE SetupInv'
  <2>1. /\ s' \in ServerType /\ s'.state = "live" /\ s'.router = r /\ s'.tls = s.tls
        /\ s'.config = s.config /\ s'.context = s.context
    BY <1>1, <1>6 DEF EnableHealthCheck, ServerType
  <2>2. /\ su_mem[r] = "unused" /\ su_mem' = [Turned(su_mem, s.router, "app") EXCEPT ![r] = "held"]
    BY <1>6, FreshUnused DEF EnableHealthCheck, Turned
  <2>3. PointersOK(su_mem', r, s.tls, s.config, s.context, Cfg) BY <1>1, <2>2, HandRouter
  <2> QED BY <1>4, <2>1, <2>3
<1>7. ASSUME NEW x \in Contexts, SetContext(x) PROVE SetupInv'
  <2>1. /\ s' \in ServerType /\ s'.state = "live" /\ s'.router = s.router /\ s'.tls = s.tls
        /\ s'.config = s.config /\ s'.context = x
    BY <1>1, <1>7 DEF SetContext, Hand, ServerType
  <2>2. /\ su_mem[x] = "app" /\ su_mem' = [Turned(su_mem, s.context, "app") EXCEPT ![x] = "held"]
    BY <1>7, RuleKept DEF SetContext, Hand
  <2>3. PointersOK(su_mem', s.router, s.tls, s.config, x, Cfg) BY <1>1, <2>2, HandContext
  <2> QED BY <1>4, <2>1, <2>3
<1>8. ASSUME NEW c \in Configs, SetServerConfig(c) PROVE SetupInv'
  <2>1. /\ s' \in ServerType /\ s'.state = "live" /\ s'.router = s.router /\ s'.tls = s.tls
        /\ s'.config = c /\ s'.context = s.context
    BY <1>1, <1>8 DEF SetServerConfig, Hand, ServerType
  <2>2. /\ su_mem[c] = "app" /\ su_mem' = [Turned(su_mem, s.config, "app") EXCEPT ![c] = "held"]
    BY <1>8, RuleKept DEF SetServerConfig, Hand
  <2>3. PointersOK(su_mem', s.router, s.tls, c, s.context, Cfg) BY <1>1, <2>2, HandConfig
  <2> QED BY <1>4, <2>1, <2>3
<1> QED BY <1>5, <1>6, <1>7, <1>8

\* uvhttp_server_enable_tls and uvhttp_server_disable_tls: the context before is
\* freed, by the server that had it.
LEMMA TlsKept ==
  ASSUME SetupInv, su_strayed' = {}, DisableTls \/ \E t \in TlsContexts : EnableTls(t)
  PROVE  SetupInv'
<1> DEFINE s == su_server
           seq == <<s.tls>>
<1>1. /\ PointersOK(su_mem, s.router, s.tls, s.config, s.context, Cfg)
      /\ s \in ServerType /\ su_ctx \in [Contexts -> ContextType]
      /\ su_mem \in [Objects -> MemStates] /\ s.tls \in TlsContexts \cup {NoObject}
  BY DEF SetupInv, PointersOK
<1>2. su_ctx' = su_ctx BY DEF DisableTls, EnableTls
<1>3. Cfg' = Cfg BY <1>2 DEF Cfg
<1>4. ASSUME s' \in ServerType, s'.state = "live", su_twice' = su_twice,
             PointersOK(su_mem', s'.router, s'.tls, s'.config, s'.context, Cfg)
      PROVE  SetupInv'
  BY <1>1, <1>2, <1>3, <1>4 DEF SetupInv
<1>5. DOMAIN seq = 1 .. 1 /\ seq[1] = s.tls OBVIOUS
<1>6. s.tls # NoObject => su_mem[s.tls] = "held" BY <1>1 DEF PointersOK
<1>7. TlsContexts \subseteq Objects /\ NoObject \notin Objects BY SetupAssumption DEF Objects
<1>8. ASSUME NEW o \in TlsContexts \cup {NoObject}, o # NoObject => su_mem[o] = "app",
             NEW mem \in [Objects -> MemStates], FreeAll(mem, seq),
             \A p \in Objects : mem[p] = IF p = o THEN "held" ELSE su_mem[p]
      PROVE  /\ su_twice' = su_twice
             /\ PointersOK(su_mem', s.router, o, s.config, s.context, Cfg)
  <2> HIDE DEF seq
  <2>1. /\ \A i, j \in DOMAIN seq : i # j => seq[i] # seq[j] \/ seq[i] = NoObject
        /\ \A i \in DOMAIN seq : seq[i] # NoObject => mem[seq[i]] # "freed"
    BY <1>1, <1>5, <1>6, <1>7, <1>8
  <2>2. /\ su_twice' = su_twice /\ su_mem' \in [Objects -> MemStates]
        /\ \A i \in DOMAIN seq : seq[i] \in Objects => su_mem'[seq[i]] = "freed"
        /\ \A p \in Objects : (\A i \in DOMAIN seq : seq[i] # p) => su_mem'[p] = mem[p]
    BY <1>8, <2>1, FreedOnce
  <2>3. \A p \in Objects :
          su_mem'[p] = IF p = s.tls THEN "freed" ELSE IF p = o THEN "held" ELSE su_mem[p]
    BY <1>5, <1>8, <2>2
  <2> QED BY <1>1, <1>8, <2>2, <2>3, HandTls
<1>9. ASSUME NEW t \in TlsContexts, EnableTls(t) PROVE SetupInv'
  <2>1. /\ s' \in ServerType /\ s'.state = "live" /\ s'.router = s.router /\ s'.tls = t
        /\ s'.config = s.config /\ s'.context = s.context
    BY <1>1, <1>9 DEF EnableTls, Hand, ServerType
  <2> DEFINE mem == [su_mem EXCEPT ![t] = "held"]
  <2>2. su_mem[t] = "app" /\ FreeAll(mem, seq) BY <1>9, RuleKept DEF EnableTls, Hand
  <2>3. /\ mem \in [Objects -> MemStates]
        /\ \A p \in Objects : mem[p] = IF p = t THEN "held" ELSE su_mem[p]
    BY <1>1, <1>7 DEF MemStates
  <2> HIDE DEF mem
  <2>4. su_twice' = su_twice /\ PointersOK(su_mem', s.router, t, s.config, s.context, Cfg)
    BY <1>8, <2>2, <2>3
  <2> QED BY <1>4, <2>1, <2>4
<1>10. CASE DisableTls
  <2>1. /\ s' \in ServerType /\ s'.state = "live" /\ s'.router = s.router /\ s'.tls = NoObject
        /\ s'.config = s.config /\ s'.context = s.context
    BY <1>1, <1>10 DEF DisableTls, ServerType
  <2>2. FreeAll(su_mem, seq) BY <1>10 DEF DisableTls
  <2>3. \A p \in Objects : su_mem[p] = IF p = NoObject THEN "held" ELSE su_mem[p] BY <1>7
  <2>4. su_twice' = su_twice /\ PointersOK(su_mem', s.router, NoObject, s.config, s.context, Cfg)
    BY <1>1, <1>8, <2>2, <2>3
  <2> QED BY <1>4, <2>1, <2>4
<1> QED BY <1>9, <1>10

\* A server without pointers, and one whose pointers a step leaves alone.
LEMMA ServerKept ==
  ASSUME SetupInv, ServerNew \/ Listen \/ ServerStop
  PROVE  SetupInv'
<1> DEFINE s == su_server
<1>1. s \in ServerType BY DEF SetupInv
<1>2. /\ s' \in ServerType /\ s'.router = s.router /\ s'.tls = s.tls
      /\ s'.config = s.config /\ s'.context = s.context /\ s'.state = "live"
  <2>1. CASE ServerNew
    <3>1. s' = FreshServer /\ s.state = "none" BY <2>1 DEF ServerNew
    <3>2. /\ FreshServer \in ServerType /\ FreshServer.state = "live"
          /\ FreshServer.router = NoObject /\ FreshServer.tls = NoObject
          /\ FreshServer.config = NoObject /\ FreshServer.context = NoObject
      BY DEF FreshServer, NoServer, ServerType
    <3> QED BY <3>1, <3>2 DEF SetupInv
  <2>2. CASE Listen BY <1>1, <2>2 DEF Listen, ServerType
  <2>3. CASE ServerStop BY <1>1, <2>3 DEF ServerStop, ServerType
  <2> QED BY <2>1, <2>2, <2>3
<1>3. UNCHANGED <<su_mem, su_twice, su_ctx>> BY DEF ServerNew, Listen, ServerStop
<1>4. Cfg' = Cfg BY <1>3 DEF Cfg
<1> QED BY <1>2, <1>3, <1>4 DEF SetupInv

\* The fields of a server that was just made, with a router and a configuration.
LEMMA FreshFields ==
  ASSUME NEW r \in Routers, NEW c \in Configs
  PROVE  /\ FreshServer.router = NoObject /\ FreshServer.tls = NoObject
         /\ FreshServer.config = NoObject /\ FreshServer.context = NoObject
         /\ \A b \in BOOLEAN :
              LET s == [FreshServer EXCEPT !.router = r, !.config = c, !.listening = b] IN
              /\ s \in ServerType /\ s.state = "live" /\ s.router = r /\ s.config = c
              /\ s.tls = NoObject /\ s.context = NoObject
         /\ LET s == [FreshServer EXCEPT !.router = r, !.config = c] IN
              s.router = r /\ s.config = c /\ s.tls = NoObject /\ s.context = NoObject
BY DEF FreshServer, NoServer, ServerType

\* uvhttp_server_create: whatever fails, what it made is freed once, and what the
\* server has it holds.
LEMMA CreateKept ==
  ASSUME SetupInv, NEW r \in Routers, NEW c \in Configs, ServerCreate(r, c)
  PROVE  SetupInv'
<1> DEFINE s == su_server
           N == NoObject
           P(m) == PointersOK(m, N, N, N, N, Cfg)
<1>1. /\ s.state = "none" /\ r \in Fresh(Routers) /\ c \in Fresh(Configs) /\ su_ctx' = su_ctx
  BY DEF ServerCreate
<1>2. su_mem[r] = "unused" /\ su_mem[c] = "unused" BY <1>1, FreshUnused
<1>3. /\ s.router = N /\ s.tls = N /\ s.config = N /\ s.context = N
      /\ s \in ServerType /\ su_ctx \in [Contexts -> ContextType]
      /\ P(su_mem) /\ su_mem \in [Objects -> MemStates]
  BY <1>1 DEF SetupInv, PointersOK
<1>4. r \in Objects /\ c \in Objects /\ r # c /\ r # N /\ c # N /\ N \notin Objects
      /\ r \notin Contexts /\ c \notin Contexts
  BY SetupAssumption DEF Objects
<1>5. Cfg' = Cfg BY <1>1 DEF Cfg
<1>6. ASSUME s' = s, su_twice' = su_twice, P(su_mem') PROVE SetupInv'
  BY <1>1, <1>3, <1>5, <1>6 DEF SetupInv
<1>7. ASSUME FreeAll(su_mem, <<r>> \o ServerParts(FreshServer)), s' = s PROVE SetupInv'
  <2> DEFINE seq == <<r>> \o ServerParts(FreshServer)
  <2>1. seq = <<r>> \o (<<N, N, N>> \o <<>>)
    BY FreshFields, Zenon DEF ServerParts, ContextParts
  <2>2. /\ DOMAIN seq = 1 .. 4 /\ seq[1] = r /\ seq[2] = N /\ seq[3] = N /\ seq[4] = N
    BY <2>1
  <2> HIDE DEF seq
  <2>3. /\ \A i, j \in DOMAIN seq : i # j => seq[i] # seq[j] \/ seq[i] = NoObject
        /\ \A i \in DOMAIN seq : seq[i] # NoObject => su_mem[seq[i]] # "freed"
    BY <1>2, <2>2
  <2>4. FreeAll(su_mem, seq) BY <1>7 DEF seq
  <2>5. /\ su_twice' = su_twice /\ su_mem' \in [Objects -> MemStates]
        /\ \A i \in DOMAIN seq : seq[i] \in Objects => su_mem'[seq[i]] = "freed"
        /\ \A p \in Objects : (\A i \in DOMAIN seq : seq[i] # p) => su_mem'[p] = su_mem[p]
    BY <1>3, <2>3, <2>4, FreedOnce
  <2>6. su_mem' = [su_mem EXCEPT ![r] = "freed"] BY <1>3, <1>4, <2>2, <2>5
  <2>7. P(su_mem') BY <1>2, <1>3, <1>4, <2>6, MemApp
  <2> QED BY <1>6, <1>7, <2>5, <2>7
<1>8. ASSUME ListenFailed(r, c), s' = s PROVE SetupInv'
  <2> DEFINE seq == ServerParts([FreshServer EXCEPT !.router = r, !.config = c])
  <2>1. seq = <<r, N, c>> \o <<>>
    BY FreshFields, Zenon DEF ServerParts, ContextParts
  <2>2. /\ DOMAIN seq = 1 .. 3 /\ seq[1] = r /\ seq[2] = N /\ seq[3] = c
    BY <2>1
  <2>3. FreeAll(su_mem, seq) BY <1>8 DEF ListenFailed
  <2> HIDE DEF seq
  <2>4. /\ \A i, j \in DOMAIN seq : i # j => seq[i] # seq[j] \/ seq[i] = NoObject
        /\ \A i \in DOMAIN seq : seq[i] # NoObject => su_mem[seq[i]] # "freed"
    BY <1>2, <1>4, <2>2
  <2>5. /\ su_twice' = su_twice /\ su_mem' \in [Objects -> MemStates]
        /\ \A i \in DOMAIN seq : seq[i] \in Objects => su_mem'[seq[i]] = "freed"
        /\ \A p \in Objects : (\A i \in DOMAIN seq : seq[i] # p) => su_mem'[p] = su_mem[p]
    BY <1>3, <2>3, <2>4, FreedOnce
  <2> DEFINE m == [su_mem EXCEPT ![r] = "freed"]
  <2>6. P(m) BY <1>2, <1>3, <1>4, MemApp
  <2>7. m \in [Objects -> MemStates] /\ m[c] = "unused" /\ m[r] = "freed"
        /\ \A p \in Objects \ {r} : m[p] = su_mem[p]
    BY <1>2, <1>3, <1>4 DEF MemStates
  <2> HIDE DEF m
  <2>8. su_mem' = [m EXCEPT ![c] = "freed"] BY <1>4, <2>2, <2>5, <2>7
  <2>9. P(su_mem') BY <1>4, <2>6, <2>7, <2>8, MemApp
  <2> QED BY <1>6, <1>8, <2>5, <2>9
<1>9. ASSUME s' = [FreshServer EXCEPT !.router = r, !.config = c, !.listening = TRUE],
             su_mem' = [su_mem EXCEPT ![r] = "held", ![c] = "held"], su_twice' = su_twice
      PROVE  SetupInv'
  <2>1. /\ s' \in ServerType /\ s'.state = "live" /\ s'.router = r /\ s'.config = c
        /\ s'.tls = N /\ s'.context = N
    BY <1>9, FreshFields
  <2> DEFINE m == [su_mem EXCEPT ![r] = "held"]
  <2>2. m = [Turned(su_mem, N, "app") EXCEPT ![r] = "held"] BY DEF Turned
  <2>3. PointersOK(m, r, N, N, N, Cfg) BY <1>2, <1>3, <2>2, HandRouter
  <2>4. m[c] = "unused" BY <1>2, <1>3, <1>4
  <2>5. su_mem' = [Turned(m, N, "app") EXCEPT ![c] = "held"] BY <1>9 DEF Turned
  <2> HIDE DEF m
  <2>6. PointersOK(su_mem', r, N, c, N, Cfg) BY <2>3, <2>4, <2>5, HandConfig
  <2> QED BY <1>1, <1>3, <1>5, <1>9, <2>1, <2>6 DEF SetupInv
<1> QED BY <1>7, <1>8, <1>9 DEF ServerCreate

\* uvhttp_server_free frees the server's objects and its context with its
\* configuration, each once.
LEMMA FreeKept ==
  ASSUME SetupInv, ServerFree
  PROVE  SetupInv'
<1> DEFINE s == su_server
           N == NoObject
           seq == ServerParts(s)
<1>1. /\ PointersOK(su_mem, s.router, s.tls, s.config, s.context, Cfg)
      /\ s \in ServerType /\ su_ctx \in [Contexts -> ContextType]
      /\ su_mem \in [Objects -> MemStates]
      /\ s.router \in Routers \cup {N} /\ s.tls \in TlsContexts \cup {N}
      /\ s.config \in Configs \cup {N} /\ s.context \in Contexts \cup {N}
      /\ Cfg \in [Contexts -> Configs \cup {N}]
  BY DEF SetupInv, PointersOK
<1>2. FreeAll(su_mem, seq) /\ su_ctx' = Emptied({s.context}) BY DEF ServerFree
<1>3. /\ s' \in ServerType /\ s'.router = N /\ s'.tls = N /\ s'.config = N /\ s'.context = N
  BY DEF ServerFree, NoServer, ServerType
<1>4. /\ su_ctx' \in [Contexts -> ContextType]
      /\ Cfg' \in [Contexts -> Configs \cup {N}]
      /\ \A z \in Contexts : Cfg'[z] = IF z = s.context THEN N ELSE Cfg[z]
  BY <1>1, <1>2 DEF Emptied, EmptyContext, ContextType, Cfg
<1>5. /\ \A o \in {s.router, s.tls, s.config, s.context} : o # N => su_mem[o] = "held"
      /\ s.context # N /\ Cfg[s.context] # N =>
           su_mem[Cfg[s.context]] = "held" /\ Cfg[s.context] # s.config
  BY <1>1, KindsApart DEF PointersOK
<1>6. /\ s.router # N => s.router \notin {s.tls, s.config, s.context}
      /\ s.tls # N => s.tls \notin {s.router, s.config, s.context}
      /\ s.config # N => s.config \notin {s.router, s.tls, s.context}
      /\ s.context # N => s.context \notin {s.router, s.tls, s.config, Cfg[s.context]}
      /\ s.context # N /\ Cfg[s.context] # N =>
           Cfg[s.context] \notin {s.router, s.tls, s.config, s.context}
  BY <1>1, <1>5, KindsApart
<1>7. /\ su_twice' = su_twice /\ su_mem' \in [Objects -> MemStates]
      /\ \A p \in Objects : su_mem'[p] =
           IF p \in {s.router, s.tls, s.config, s.context}
              \/ (s.context # N /\ p = Cfg[s.context])
           THEN "freed" ELSE su_mem[p]
  <2>1. CASE s.context = N
    <3>1. seq = <<s.router, s.tls, s.config>> \o <<>>
      BY <2>1, Zenon DEF ServerParts, ContextParts
    <3>2. /\ DOMAIN seq = 1 .. 3 /\ seq[1] = s.router /\ seq[2] = s.tls /\ seq[3] = s.config
      BY <3>1
    <3> HIDE DEF seq
    <3>3. \A i \in DOMAIN seq : i = 1 \/ i = 2 \/ i = 3 BY <3>2
    <3>4. /\ \A i, j \in DOMAIN seq : i # j => seq[i] # seq[j] \/ seq[i] = NoObject
          /\ \A i \in DOMAIN seq : seq[i] # NoObject => su_mem[seq[i]] # "freed"
      BY <1>5, <1>6, <3>2, <3>3
    <3>5. /\ su_twice' = su_twice /\ su_mem' \in [Objects -> MemStates]
          /\ \A i \in DOMAIN seq : seq[i] \in Objects => su_mem'[seq[i]] = "freed"
          /\ \A p \in Objects : (\A i \in DOMAIN seq : seq[i] # p) => su_mem'[p] = su_mem[p]
      BY <1>1, <1>2, <3>4, FreedOnce
    <3>6. N \notin Objects BY SetupAssumption
    <3> QED BY <2>1, <3>2, <3>3, <3>5, <3>6
  <2>2. CASE s.context # N
    <3> DEFINE d == Cfg[s.context]
    <3>1. seq = <<s.router, s.tls, s.config>> \o <<su_ctx[s.context].config, s.context>>
      BY <2>2, Zenon DEF ServerParts, ContextParts
    <3>2. d = su_ctx[s.context].config BY <1>1, <2>2 DEF Cfg
    <3>3. /\ DOMAIN seq = 1 .. 5 /\ seq[1] = s.router /\ seq[2] = s.tls /\ seq[3] = s.config
          /\ seq[4] = d /\ seq[5] = s.context
      BY <3>1, <3>2
    <3> HIDE DEF seq
    <3>4. \A i \in DOMAIN seq : i = 1 \/ i = 2 \/ i = 3 \/ i = 4 \/ i = 5 BY <3>3
    <3>5. /\ \A i, j \in DOMAIN seq : i # j => seq[i] # seq[j] \/ seq[i] = NoObject
          /\ \A i \in DOMAIN seq : seq[i] # NoObject => su_mem[seq[i]] # "freed"
      BY <1>5, <1>6, <2>2, <3>3, <3>4
    <3>6. /\ su_twice' = su_twice /\ su_mem' \in [Objects -> MemStates]
          /\ \A i \in DOMAIN seq : seq[i] \in Objects => su_mem'[seq[i]] = "freed"
          /\ \A p \in Objects : (\A i \in DOMAIN seq : seq[i] # p) => su_mem'[p] = su_mem[p]
      BY <1>1, <1>2, <3>5, FreedOnce
    <3> QED BY <2>2, <3>3, <3>4, <3>6
  <2> QED BY <2>1, <2>2
<1>8. PointersOK(su_mem', N, N, N, N, Cfg') BY <1>1, <1>4, <1>7, FreeServer
<1> QED BY <1>3, <1>4, <1>7, <1>8 DEF SetupInv

\* No step takes a departure from the rule back.
LEMMA StrayedStays == [SetupNext]_setupVars /\ su_strayed' = {} => su_strayed = {}
<1>1. SUFFICES ASSUME [SetupNext]_setupVars, su_strayed' = {} PROVE su_strayed = {} OBVIOUS
<1>2. ASSUME NEW S, Departs(S) PROVE su_strayed = {} BY <1>1, <1>2 DEF Departs
<1>3. ASSUME NEW o, FreeObject(o) \/ Handed(o) PROVE su_strayed = {}
  BY <1>2, <1>3 DEF FreeObject, Handed
<1>4. CASE UNCHANGED su_strayed BY <1>1, <1>4
<1>5. CASE UNCHANGED setupVars BY <1>4, <1>5 DEF setupVars
<1>6. CASE ServerNew \/ ServerFree \/ DisableTls \/ Listen \/ ServerStop
  BY <1>4, <1>6 DEF ServerNew, ServerFree, DisableTls, Listen, ServerStop, appVars
<1>7. ASSUME NEW x \in Objects, NewObject(x) PROVE su_strayed = {}
  BY <1>4, <1>7 DEF NewObject
<1>8. ASSUME NEW x \in Contexts, ContextInit(x) PROVE su_strayed = {}
  BY <1>4, <1>8 DEF ContextInit, appVars
<1>9. ASSUME NEW r, NEW c, ServerCreate(r, c) \/ EnableHealthCheck(r) PROVE su_strayed = {}
  BY <1>4, <1>9 DEF ServerCreate, EnableHealthCheck, appVars
<1>10. ASSUME NEW x, NEW c, SetCurrent(x, c) PROVE su_strayed = {} BY <1>3, <1>10 DEF SetCurrent
<1>11. ASSUME NEW x, SetRouter(x) \/ SetContext(x) \/ SetServerConfig(x) \/ EnableTls(x)
       PROVE  su_strayed = {}
  BY <1>3, <1>11 DEF SetRouter, SetContext, SetServerConfig, EnableTls, Hand
<1> QED BY <1>1, <1>3, <1>5, <1>6, <1>7, <1>8, <1>9, <1>10, <1>11 DEF SetupNext

\* The invariant, as long as the application keeps to the rule.
RuledInv == su_strayed = {} => SetupInv

\* A step of an application that keeps the rule preserves SetupInv.
LEMMA SetupInvNext == RuledInv /\ [SetupNext]_setupVars => RuledInv'
<1> SUFFICES ASSUME RuledInv, [SetupNext]_setupVars, su_strayed' = {} PROVE SetupInv'
  BY DEF RuledInv
<1>0. SetupInv BY StrayedStays DEF RuledInv
<1>1. CASE UNCHANGED setupVars
  <2>1. UNCHANGED <<su_mem, su_twice, su_server, su_ctx>> BY <1>1 DEF setupVars
  <2>2. Cfg' = Cfg BY <2>1 DEF Cfg
  <2> QED BY <1>0, <2>1, <2>2 DEF SetupInv
<1> QED
  BY <1>0, <1>1, ObjectKept, ContextKept, SetterKept, TlsKept, ServerKept, CreateKept, FreeKept
  DEF SetupNext

\* An application that hands each object over once and does not free it afterwards
\* may put servers and contexts together in any order, with any number of
\* objects, and whichever of its calls fail: each object that was handed over has
\* one holder, and nothing is freed twice.  What docs/spec/server-api.md:65 asks
\* of a caller, and one config for server and context, are against this rule and
\* the subject of DocumentedUse.
THEOREM EachFreedOnce == SetupSpec => []SetupFreedOnce
<1>1. SetupInit => RuledInv
  <2> SUFFICES ASSUME SetupInit PROVE SetupInv BY DEF RuledInv
  <2>1. /\ su_server \in ServerType /\ su_ctx \in [Contexts -> ContextType]
        /\ su_server.router = NoObject /\ su_server.tls = NoObject
        /\ su_server.config = NoObject /\ su_server.context = NoObject
    BY DEF SetupInit, NoServer, EmptyContext, ServerType, ContextType
  <2>2. Cfg = [y \in Contexts |-> NoObject] BY DEF SetupInit, EmptyContext, Cfg
  <2>3. su_mem = [x \in Objects |-> "unused"] /\ su_twice = {} BY DEF SetupInit
  <2>4. PointersOK(su_mem, NoObject, NoObject, NoObject, NoObject, Cfg)
    BY <2>2, <2>3, KindsApart DEF PointersOK, MemStates, Objects
  <2> QED BY <2>1, <2>3, <2>4 DEF SetupInv
<1>2. RuledInv => SetupFreedOnce
  <2> SUFFICES ASSUME SetupInv, NEW x \in Objects
               PROVE  Cardinality(Holders(x)) = IF su_mem[x] = "held" THEN 1 ELSE 0
    BY DEF RuledInv, SetupInv, SetupFreedOnce
  <2> DEFINE s == su_server
             fields == {f \in {"router", "tls", "config", "context"} : s[f] = x}
             ctxs == {y \in Live(Contexts) : su_ctx[y].config = x}
  <2>1. /\ PointersOK(su_mem, s.router, s.tls, s.config, s.context, Cfg)
        /\ s.router \in Routers \cup {NoObject} /\ s.tls \in TlsContexts \cup {NoObject}
        /\ s.config \in Configs \cup {NoObject} /\ s.context \in Contexts \cup {NoObject}
        /\ \A y \in Contexts : Cfg[y] = su_ctx[y].config /\ Cfg[y] \in Configs \cup {NoObject}
    BY DEF SetupInv, PointersOK, Cfg
  <2>2. x # NoObject /\ Holders(x) = fields \cup ctxs BY SetupAssumption DEF Holders
  <2>3. ctxs = {y \in Contexts : Cfg[y] = x}
    BY <2>1, <2>2 DEF PointersOK, Live, Objects
  <2>4. /\ "router" \in fields <=> s.router = x
        /\ "tls" \in fields <=> s.tls = x
        /\ "config" \in fields <=> s.config = x
        /\ "context" \in fields <=> s.context = x
        /\ fields \subseteq {"router", "tls", "config", "context"}
    OBVIOUS
  <2> HIDE DEF fields, ctxs
  <2>5. CASE su_mem[x] = "held"
    <3>1. \E h : Holders(x) = {h}
      <4>1. CASE x \in Routers
        <5>1. s.router = x BY <2>1, <2>5, <4>1 DEF PointersOK
        <5>2. ctxs = {} BY <2>1, <2>2, <2>3, <4>1, KindsApart
        <5>3. fields = {"router"} BY <2>1, <2>2, <2>4, <4>1, <5>1, KindsApart
        <5> QED BY <2>2, <5>2, <5>3
      <4>2. CASE x \in TlsContexts
        <5>1. s.tls = x BY <2>1, <2>5, <4>2 DEF PointersOK
        <5>2. ctxs = {} BY <2>1, <2>2, <2>3, <4>2, KindsApart
        <5>3. fields = {"tls"} BY <2>1, <2>2, <2>4, <4>2, <5>1, KindsApart
        <5> QED BY <2>2, <5>2, <5>3
      <4>3. CASE x \in Contexts
        <5>1. s.context = x BY <2>1, <2>5, <4>3 DEF PointersOK
        <5>2. ctxs = {} BY <2>1, <2>2, <2>3, <4>3, KindsApart
        <5>3. fields = {"context"} BY <2>1, <2>2, <2>4, <4>3, <5>1, KindsApart
        <5> QED BY <2>2, <5>2, <5>3
      <4>4. CASE x \in Configs /\ s.config = x
        <5>1. ctxs = {} BY <2>1, <2>2, <2>3, <4>4 DEF PointersOK
        <5>2. fields = {"config"} BY <2>1, <2>4, <4>4, KindsApart
        <5> QED BY <2>2, <5>1, <5>2
      <4>5. CASE x \in Configs /\ s.config # x
        <5>1. PICK y \in Contexts : Cfg[y] = x BY <2>1, <2>5, <4>5 DEF PointersOK
        <5>2. ctxs = {y} BY <2>1, <2>2, <2>3, <5>1 DEF PointersOK
        <5>3. fields = {} BY <2>1, <2>4, <4>5, KindsApart
        <5> QED BY <2>2, <5>2, <5>3
      <4> QED BY <4>1, <4>2, <4>3, <4>4, <4>5 DEF Objects
    <3> QED BY <2>5, <3>1, FS_Singleton
  <2>6. CASE su_mem[x] # "held"
    <3>1. Holders(x) = {}
      <4>1. fields = {}
        <5>1. s.router # x /\ s.tls # x /\ s.config # x /\ s.context # x
          BY <2>1, <2>2, <2>6 DEF PointersOK
        <5> QED BY <2>4, <5>1
      <4>2. ctxs = {} BY <2>1, <2>2, <2>3, <2>6 DEF PointersOK
      <4> QED BY <2>2, <4>1, <4>2
    <3> QED BY <2>6, <3>1, FS_EmptySet
  <2> QED BY <2>5, <2>6
<1> QED BY <1>1, <1>2, SetupInvNext, PTL DEF SetupSpec

-----------------------------------------------------------------------------
(* Protocol upgrades.                                                      *)

HeaderValues == UpHeaders \cup {""}

ProtocolType == [name : Protocols \cup {"websocket"}, header : HeaderValues, at : Nat]

UpConnType ==
  [state : {"HTTP_READING", "HTTP_PROCESSING", "PROTOCOL_UPGRADED", "CLOSING"},
   reading : BOOLEAN, timer : BOOLEAN, lifecycle : BOOLEAN,
   owner : {"uvhttp", "library"}, websocket : BOOLEAN]

\* The registry: no name twice, the protocols registered later before the others.
Registry(reg, n) ==
  /\ reg \in Seq(ProtocolType) /\ n \in Nat
  /\ \A i, j \in 1 .. Len(reg) : reg[i].name = reg[j].name => i = j
  /\ \A i, j \in 1 .. Len(reg) : i < j => reg[j].at < reg[i].at
  /\ \A i \in 1 .. Len(reg) : reg[i].at < n

UpgradeInv ==
  /\ Registry(up_reg, up_regs)
  /\ up_count = Len(up_reg) /\ up_count <= MaxProtocols
  /\ up_conn \in UpConnType
  /\ UpgradeAnswered

\* A protocol is put at the head of the registry.
LEMMA RegisterKeeps ==
  ASSUME UpgradeInv, NEW name \in Protocols \cup {"websocket"}, NEW header \in HeaderValues,
         RegisterProtocol(name, header)
  PROVE  UpgradeInv'
<1> DEFINE p == [name |-> name, header |-> header, at |-> up_regs]
           n == Len(up_reg)
<1>1. /\ up_reg \in Seq(ProtocolType) /\ up_regs \in Nat /\ n \in Nat
      /\ DOMAIN up_reg = 1 .. n
  BY LenProperties DEF UpgradeInv, Registry
<1>2. p \in ProtocolType /\ p.name = name /\ p.at = up_regs BY <1>1 DEF ProtocolType
<1>3. /\ Named(name) = {} /\ up_count < MaxProtocols /\ up_reg' = <<p>> \o up_reg
      /\ up_count' = up_count + 1 /\ up_regs' = up_regs + 1 /\ UNCHANGED <<up_conn, up_last>>
  BY DEF RegisterProtocol
<1> HIDE DEF p
<1>4. <<p>> \in Seq(ProtocolType) /\ Len(<<p>>) = 1 /\ <<p>>[1] = p BY <1>2
<1>5. /\ up_reg' \in Seq(ProtocolType) /\ Len(up_reg') = 1 + n
      /\ \A i \in 1 .. 1 + n : up_reg'[i] = IF i <= 1 THEN <<p>>[i] ELSE up_reg[i - 1]
  BY <1>1, <1>3, <1>4, ConcatProperties
<1> HIDE DEF n
<1>6. /\ up_reg'[1] = p
      /\ \A i \in 1 .. n + 1 : i # 1 => i - 1 \in 1 .. n /\ up_reg'[i] = up_reg[i - 1]
  BY <1>1, <1>4, <1>5
<1>7. \A i \in 1 .. n : up_reg[i].name # name BY <1>1, <1>3 DEF Named
<1>8. /\ \A i, j \in 1 .. n : up_reg[i].name = up_reg[j].name => i = j
      /\ \A i, j \in 1 .. n : i < j => up_reg[j].at < up_reg[i].at
      /\ \A i \in 1 .. n : up_reg[i].at < up_regs /\ up_reg[i].at \in Nat
  <2>1. \A i \in 1 .. n : up_reg[i] \in ProtocolType BY <1>1, ElementOfSeq DEF n
  <2>2. \A i \in 1 .. n : up_reg[i].at \in Nat BY <2>1 DEF ProtocolType
  <2> QED BY <2>2 DEF UpgradeInv, Registry, n
<1>9. \A i, j \in 1 .. n + 1 : up_reg'[i].name = up_reg'[j].name => i = j
  BY <1>1, <1>2, <1>6, <1>7, <1>8
<1>10. \A i, j \in 1 .. n + 1 : i < j => up_reg'[j].at < up_reg'[i].at
  BY <1>1, <1>2, <1>6, <1>8
<1>11. \A i \in 1 .. n + 1 : up_reg'[i].at < up_regs + 1 BY <1>1, <1>2, <1>6, <1>8
<1>12. Len(up_reg') = n + 1 BY <1>1, <1>5
<1>13. up_regs + 1 \in Nat BY <1>1
<1>14. Registry(up_reg', up_regs')
  BY <1>3, <1>5, <1>9, <1>10, <1>11, <1>12, <1>13 DEF Registry
<1>15. up_count = n /\ n < MaxProtocols BY <1>3 DEF UpgradeInv, n
<1>16. up_count' = Len(up_reg') /\ up_count' <= MaxProtocols
  BY <1>1, <1>3, <1>12, <1>15, UpgradeAssumption
<1>17. UpgradeAnswered' BY <1>3 DEF UpgradeInv, UpgradeAnswered
<1> QED BY <1>3, <1>14, <1>16, <1>17 DEF UpgradeInv

\* A protocol is taken out; the others keep their order.
LEMMA UnregisterKeeps ==
  ASSUME UpgradeInv, NEW name, UnregisterProtocol(name)
  PROVE  UpgradeInv'
<1> DEFINE n == Len(up_reg)
<1>1. /\ up_reg \in Seq(ProtocolType) /\ up_regs \in Nat /\ n \in Nat
      /\ DOMAIN up_reg = 1 .. n
  BY LenProperties DEF UpgradeInv, Registry
<1>2. PICK k \in 1 .. n : up_reg' = SubSeq(up_reg, 1, k - 1) \o SubSeq(up_reg, k + 1, n)
  BY <1>1 DEF UnregisterProtocol, Named
<1> DEFINE a == SubSeq(up_reg, 1, k - 1)
           b == SubSeq(up_reg, k + 1, n)
<1>3. \A i \in 1 .. n : up_reg[i] \in ProtocolType BY <1>1, ElementOfSeq
<1> HIDE DEF n
<1>4. /\ a \in Seq(ProtocolType) /\ Len(a) = k - 1
      /\ \A i \in 1 .. k - 1 : a[i] = up_reg[i]
  <2>1. k - 1 \in Int /\ 1 \in Int /\ \A i \in 1 .. k - 1 : up_reg[i] \in ProtocolType
    BY <1>1, <1>2, <1>3
  <2>2. /\ a \in Seq(ProtocolType) /\ Len(a) = IF 1 <= k - 1 THEN k - 1 - 1 + 1 ELSE 0
        /\ \A i \in 1 .. k - 1 - 1 + 1 : a[i] = up_reg[1 + i - 1]
    BY <2>1, SubSeqProperties
  <2> HIDE DEF a
  <2> QED BY <1>1, <1>2, <2>2
<1>5. /\ b \in Seq(ProtocolType) /\ Len(b) = n - k
      /\ \A i \in 1 .. n - k : b[i] = up_reg[k + i]
  <2>1. k + 1 \in Int /\ n \in Int /\ \A i \in k + 1 .. n : up_reg[i] \in ProtocolType
    BY <1>1, <1>2, <1>3
  <2>2. /\ b \in Seq(ProtocolType) /\ Len(b) = IF k + 1 <= n THEN n - (k + 1) + 1 ELSE 0
        /\ \A i \in 1 .. n - (k + 1) + 1 : b[i] = up_reg[k + 1 + i - 1]
    BY <2>1, SubSeqProperties
  <2> HIDE DEF b
  <2> QED BY <1>1, <1>2, <2>2
<1> HIDE DEF a, b
<1>6. up_reg' = a \o b BY <1>2 DEF a, b
<1>7. /\ up_reg' \in Seq(ProtocolType) /\ Len(up_reg') = Len(a) + Len(b)
      /\ \A i \in 1 .. Len(a) + Len(b) :
           up_reg'[i] = IF i <= Len(a) THEN a[i] ELSE b[i - Len(a)]
  BY <1>4, <1>5, <1>6, ConcatProperties
<1> DEFINE from(i) == IF i < k THEN i ELSE i + 1
<1>8. Len(up_reg') = n - 1 BY <1>1, <1>2, <1>4, <1>5, <1>7
<1>9. \A i \in 1 .. n - 1 : up_reg'[i] = up_reg[from(i)] /\ from(i) \in 1 .. n
  <2> SUFFICES ASSUME NEW i \in 1 .. n - 1
               PROVE  up_reg'[i] = up_reg[from(i)] /\ from(i) \in 1 .. n
    OBVIOUS
  <2>1. /\ i \in 1 .. Len(a) + Len(b) /\ Len(a) = k - 1
        /\ i \in Int /\ k \in Int /\ i >= 1
    BY <1>1, <1>2, <1>4, <1>5
  <2>2. CASE i < k
    <3>1. i <= Len(a) /\ i \in 1 .. k - 1 BY <2>1, <2>2
    <3>2. up_reg'[i] = a[i] BY <1>7, <2>1, <3>1
    <3> QED BY <1>1, <1>2, <1>4, <2>2, <3>1, <3>2
  <2>3. CASE ~(i < k)
    <3>1. i - (k - 1) \in 1 .. n - k /\ k + (i - (k - 1)) = i + 1 BY <1>1, <1>2, <2>3
    <3>2. ~(i <= Len(a)) BY <2>1, <2>3
    <3>3. up_reg'[i] = b[i - Len(a)] BY <1>7, <2>1, <3>2
    <3>4. up_reg'[i] = up_reg[i + 1] BY <1>5, <2>1, <3>1, <3>3
    <3> QED BY <1>1, <1>2, <2>3, <3>4
  <2> QED BY <2>2, <2>3
<1>10. /\ \A i, j \in 1 .. n : up_reg[i].name = up_reg[j].name => i = j
       /\ \A i, j \in 1 .. n : i < j => up_reg[j].at < up_reg[i].at
       /\ \A i \in 1 .. n : up_reg[i].at < up_regs
  BY DEF UpgradeInv, Registry, n
<1>11. \A i, j \in 1 .. n - 1 : (from(i) = from(j) => i = j) /\ (i < j => from(i) < from(j))
  BY <1>1, <1>2
<1> HIDE DEF from
<1>12. /\ \A i, j \in 1 .. n - 1 : up_reg'[i].name = up_reg'[j].name => i = j
       /\ \A i, j \in 1 .. n - 1 : i < j => up_reg'[j].at < up_reg'[i].at
       /\ \A i \in 1 .. n - 1 : up_reg'[i].at < up_regs
  BY <1>9, <1>10, <1>11
<1>13. up_count' = up_count - 1 /\ UNCHANGED <<up_regs, up_conn, up_last>>
  BY DEF UnregisterProtocol
<1>14. Registry(up_reg', up_regs') BY <1>1, <1>7, <1>8, <1>12, <1>13 DEF Registry
<1>15. up_count = n /\ n <= MaxProtocols BY DEF UpgradeInv, n
<1>16. up_count' = Len(up_reg') /\ up_count' <= MaxProtocols
  BY <1>1, <1>8, <1>13, <1>15, UpgradeAssumption
<1>17. UpgradeAnswered' BY <1>13 DEF UpgradeInv, UpgradeAnswered
<1> QED BY <1>13, <1>14, <1>16, <1>17 DEF UpgradeInv

\* What a handler leaves: an answer of its own or none, and the handle with the
\* library just if the state says so and the application prepared it.
OutcomeOK(o, prepared) ==
  /\ o.conn \in UpConnType /\ o.ok \in BOOLEAN
  /\ o.conn.owner = "library" <=> o.conn.state = "PROTOCOL_UPGRADED"
  /\ o.conn.owner = "library" => ~o.conn.reading /\ ~o.conn.timer /\ prepared
  /\ \/ Len(o.sent) = 1 /\ o.sent # <<>> /\ o.conn.state # "PROTOCOL_UPGRADED"
     \/ /\ o.sent = <<>>
        /\ o.ok <=> o.conn.state = "PROTOCOL_UPGRADED"

\* The websocket handler answers by itself, and never hands the socket over.
LEMMA WebsocketOutcome ==
  ASSUME NEW c \in UpConnType, c.state = "HTTP_READING", c.owner = "uvhttp",
         NEW prepared \in BOOLEAN, NEW o \in WebsocketHandler(c)
  PROVE  OutcomeOK(o, prepared)
<1> DEFINE c2 == [c EXCEPT !.state = "CLOSING", !.reading = FALSE]
           c3 == [c EXCEPT !.websocket = TRUE]
<1>1. /\ c2 \in UpConnType /\ c2.state = "CLOSING" /\ c2.owner = "uvhttp"
      /\ c3 \in UpConnType /\ c3.state = "HTTP_READING" /\ c3.owner = "uvhttp"
  BY DEF UpConnType
<1> HIDE DEF c2, c3
<1>2. Len(<<"500">>) = 1 /\ <<"500">> # <<>> /\ Len(<<"101">>) = 1 /\ <<"101">> # <<>>
  OBVIOUS
<1>3. \/ o = [conn |-> c, sent |-> <<"500">>, ok |-> FALSE]
      \/ o = [conn |-> c2, sent |-> <<"101">>, ok |-> FALSE]
      \/ o = [conn |-> c3, sent |-> <<"101">>, ok |-> TRUE]
  BY Zenon DEF WebsocketHandler, Outcome, c2, c3
<1>4. CASE o = [conn |-> c, sent |-> <<"500">>, ok |-> FALSE]
  <2>1. o.conn = c /\ o.sent = <<"500">> /\ o.ok = FALSE BY <1>4
  <2> QED BY <1>2, <2>1 DEF OutcomeOK
<1>5. CASE o = [conn |-> c2, sent |-> <<"101">>, ok |-> FALSE]
  <2>1. o.conn = c2 /\ o.sent = <<"101">> /\ o.ok = FALSE BY <1>5
  <2> QED BY <1>1, <1>2, <2>1 DEF OutcomeOK
<1>6. CASE o = [conn |-> c3, sent |-> <<"101">>, ok |-> TRUE]
  <2>1. o.conn = c3 /\ o.sent = <<"101">> /\ o.ok = TRUE BY <1>6
  <2> QED BY <1>1, <1>2, <2>1 DEF OutcomeOK
<1> QED BY <1>3, <1>4, <1>5, <1>6

\* An application's handler answers nothing: it hands the socket over or fails.
LEMMA ApplicationOutcome ==
  ASSUME NEW c \in UpConnType, c.state = "HTTP_READING", c.owner = "uvhttp",
         NEW prepared \in BOOLEAN, NEW o \in ApplicationHandler(c, prepared)
  PROVE  OutcomeOK(o, prepared)
<1> DEFINE d == SetLifecycle(IF prepared THEN Prepared(c) ELSE c)
           d1 == [d EXCEPT !.reading = FALSE, !.timer = FALSE]
           d2 == [d EXCEPT !.reading = FALSE, !.timer = FALSE, !.owner = "library",
                           !.state = "PROTOCOL_UPGRADED"]
<1>1. /\ d \in UpConnType /\ d.owner = "uvhttp"
      /\ d.state = IF prepared THEN "HTTP_PROCESSING" ELSE "HTTP_READING"
  BY DEF UpConnType, SetLifecycle, Prepared
<1> HIDE DEF d
<1>2. /\ d1 \in UpConnType /\ d1.owner = "uvhttp" /\ d1.state = d.state
      /\ d2 \in UpConnType /\ d2.owner = "library" /\ d2.state = "PROTOCOL_UPGRADED"
      /\ d2.reading = FALSE /\ d2.timer = FALSE
  BY <1>1 DEF UpConnType
<1> HIDE DEF d1, d2
<1>3. \/ o = [conn |-> c, sent |-> <<>>, ok |-> FALSE]
      \/ \E fd \in BOOLEAN : o = TransferOwnership(d, fd)
  BY Zenon DEF ApplicationHandler, Outcome, d
<1>4. \A fd \in BOOLEAN :
        \/ TransferOwnership(d, fd) = [conn |-> d, sent |-> <<>>, ok |-> FALSE]
        \/ TransferOwnership(d, fd) = [conn |-> d1, sent |-> <<>>, ok |-> FALSE]
        \/ /\ d.state = "HTTP_PROCESSING"
           /\ TransferOwnership(d, fd) = [conn |-> d2, sent |-> <<>>, ok |-> TRUE]
  BY Zenon DEF TransferOwnership, Outcome, d1, d2
<1>5. CASE o = [conn |-> c, sent |-> <<>>, ok |-> FALSE]
  BY <1>5 DEF OutcomeOK
<1>6. CASE o = [conn |-> d, sent |-> <<>>, ok |-> FALSE]
  BY <1>1, <1>6 DEF OutcomeOK
<1>7. CASE o = [conn |-> d1, sent |-> <<>>, ok |-> FALSE]
  BY <1>1, <1>2, <1>7 DEF OutcomeOK
<1>8. CASE d.state = "HTTP_PROCESSING" /\ o = [conn |-> d2, sent |-> <<>>, ok |-> TRUE]
  BY <1>1, <1>2, <1>8 DEF OutcomeOK
<1> QED BY <1>3, <1>4, <1>5, <1>6, <1>7, <1>8

\* on_message_complete: the request has one taker and one answer.
LEMMA DispatchKeeps ==
  ASSUME UpgradeInv, NEW q, Dispatch(q)
  PROVE  UpgradeInv'
<1>1. up_conn \in UpConnType /\ up_conn.state = "HTTP_READING" /\ up_conn.owner = "uvhttp"
      /\ UNCHANGED <<up_reg, up_count, up_regs>>
  BY DEF UpgradeInv, UpgradeAnswered, Dispatch, UpConnType
<1> SUFFICES up_conn' \in UpConnType /\ UpgradeAnswered' BY <1>1 DEF UpgradeInv
<1>2. CASE /\ \E answer : up_last' = [NothingYet EXCEPT !.sent = <<answer>>]
           /\ UNCHANGED up_conn
  <2>1. PICK answer : up_last' = [NothingYet EXCEPT !.sent = <<answer>>] BY <1>2
  <2>2. up_last'.sent = <<answer>> BY <2>1 DEF NothingYet
  <2>3. Len(up_last'.sent) = 1 BY <2>2
  <2> QED BY <1>1, <1>2, <2>3 DEF UpgradeAnswered
<1>3. ASSUME NEW prepared \in BOOLEAN, NEW o, OutcomeOK(o, prepared), NEW taker,
             up_conn' = o.conn,
             up_last' = [taker |-> taker, prepared |-> prepared,
                         sent |-> IF o.ok THEN o.sent ELSE Failed(o)]
      PROVE  up_conn' \in UpConnType /\ UpgradeAnswered'
  <2>1. up_last'.sent = (IF o.ok THEN o.sent ELSE Failed(o)) /\ up_last'.prepared = prepared
    BY <1>3
  <2>2. Len(up_last'.sent) = IF o.conn.state = "PROTOCOL_UPGRADED" THEN 0 ELSE 1
    <3>1. CASE o.sent = <<>> /\ o.ok
      <4>1. Len(up_last'.sent) = 0 BY <2>1, <3>1
      <4>2. o.conn.state = "PROTOCOL_UPGRADED" BY <1>3, <3>1 DEF OutcomeOK
      <4> QED BY <4>1, <4>2
    <3>2. CASE o.sent = <<>> /\ ~o.ok
      <4>1. up_last'.sent = <<"400">> BY <2>1, <3>2 DEF Failed
      <4>2. Len(up_last'.sent) = 1 BY <4>1
      <4>3. o.conn.state # "PROTOCOL_UPGRADED" BY <1>3, <3>2 DEF OutcomeOK
      <4> QED BY <4>2, <4>3
    <3>3. CASE o.sent # <<>>
      <4>1. up_last'.sent = o.sent BY <2>1, <3>3 DEF Failed
      <4> QED BY <1>3, <3>3, <4>1 DEF OutcomeOK
    <3> QED BY <1>3, <3>1, <3>2, <3>3 DEF OutcomeOK
  <2> QED BY <1>3, <2>1, <2>2 DEF UpgradeAnswered, OutcomeOK
<1>4. CASE \E prepared \in BOOLEAN :
           \E o \in IF up_reg[ChosenProtocol(q)].name = "websocket" THEN WebsocketHandler(up_conn)
                    ELSE ApplicationHandler(up_conn, prepared) :
             /\ up_conn' = o.conn
             /\ up_last' = [taker |-> up_reg[ChosenProtocol(q)].name, prepared |-> prepared,
                            sent |-> IF o.ok THEN o.sent ELSE Failed(o)]
  <2>1. PICK prepared \in BOOLEAN : \E o :
             /\ \/ o \in WebsocketHandler(up_conn)
                \/ o \in ApplicationHandler(up_conn, prepared)
             /\ up_conn' = o.conn
             /\ up_last' = [taker |-> up_reg[ChosenProtocol(q)].name, prepared |-> prepared,
                            sent |-> IF o.ok THEN o.sent ELSE Failed(o)]
    BY <1>4, Zenon
  <2>2. PICK o :
             /\ \/ o \in WebsocketHandler(up_conn)
                \/ o \in ApplicationHandler(up_conn, prepared)
             /\ up_conn' = o.conn
             /\ up_last' = [taker |-> up_reg[ChosenProtocol(q)].name, prepared |-> prepared,
                            sent |-> IF o.ok THEN o.sent ELSE Failed(o)]
    BY <2>1, Zenon
  <2>3. OutcomeOK(o, prepared) BY <1>1, <2>2, WebsocketOutcome, ApplicationOutcome
  <2> QED BY <1>3, <2>2, <2>3
<1> QED BY <1>2, <1>4, Zenon DEF Dispatch

\* Every step keeps the invariant.
LEMMA UpgradeInvNext == UpgradeInv /\ [UpgradeNext]_upgradeVars => UpgradeInv'
<1> SUFFICES ASSUME UpgradeInv, [UpgradeNext]_upgradeVars PROVE UpgradeInv' OBVIOUS
<1>1. CASE \E p \in Protocols, h \in HeaderValues : RegisterProtocol(p, h)
  BY <1>1, RegisterKeeps
<1>2. CASE RegisterWebsocket
  <2>1. "websocket" \in HeaderValues BY UpgradeAssumption DEF HeaderValues
  <2> QED BY <1>2, <2>1, RegisterKeeps DEF RegisterWebsocket
<1>3. CASE \E p : UnregisterProtocol(p) BY <1>3, UnregisterKeeps
<1>4. CASE \E q : Dispatch(q) BY <1>4, DispatchKeeps
<1>5. CASE UpConnectionGone
  <2>1. /\ HttpConn \in UpConnType /\ HttpConn.owner = "uvhttp"
        /\ HttpConn.state = "HTTP_READING"
    BY DEF HttpConn, UpConnType
  <2>2. /\ up_conn' = HttpConn /\ up_last' = NothingYet /\ UNCHANGED <<up_reg, up_count, up_regs>>
    BY <1>5 DEF UpConnectionGone
  <2> QED BY <2>1, <2>2 DEF UpgradeInv, UpgradeAnswered
<1>6. CASE UNCHANGED upgradeVars
  BY <1>6 DEF upgradeVars, UpgradeInv, UpgradeAnswered
<1> QED BY <1>1, <1>2, <1>3, <1>4, <1>5, <1>6, Zenon DEF UpgradeNext, HeaderValues

\* Both branches of on_message_complete find the first protocol that fits, which
\* is the one registered last.
LEMMA FirstIsLatest ==
  ASSUME UpgradeInv, NEW q
  PROVE  IF Suitable(q) = {} THEN ChosenProtocol(q) = 0
         ELSE /\ ChosenProtocol(q) \in Suitable(q)
              /\ \A j \in Suitable(q) : up_reg[j].at <= up_reg[ChosenProtocol(q)].at
<1> DEFINE S == Suitable(q)
           n == Len(up_reg)
           fit == {i \in DOMAIN up_reg : HeaderFits(up_reg[i], q) /\ Detects(up_reg[i], q)}
<1>1. /\ up_reg \in Seq(ProtocolType) /\ n \in Nat /\ DOMAIN up_reg = 1 .. n /\ up_count = n
  BY LenProperties DEF UpgradeInv, Registry
<1>2. \A i \in 1 .. n : up_reg[i].at \in Nat
  <2>1. \A i \in 1 .. n : up_reg[i] \in ProtocolType BY <1>1, ElementOfSeq
  <2> QED BY <2>1 DEF ProtocolType
<1>3. \A i, j \in 1 .. n : i < j => up_reg[j].at < up_reg[i].at BY DEF UpgradeInv, Registry
<1>4. S \subseteq 1 .. n BY <1>1 DEF Suitable
<1>5. CASE q.upgrade = ""
  <2>1. S = {} BY <1>5, Zenon DEF Suitable
  <2>2. ChosenProtocol(q) = 0 BY <1>5, Zenon DEF ChosenProtocol
  <2> QED BY <2>1, <2>2
<1>6. CASE q.upgrade # ""
  <2>1. S = fit BY <1>6, Zenon DEF Suitable
  <2>2. ChosenProtocol(q) = IF up_count = 1 THEN OnlyProtocol(q) ELSE FirstProtocol(q)
    BY <1>6, Zenon DEF ChosenProtocol
  <2>3. CASE up_count = 1
    <3>1. DOMAIN up_reg = {1} /\ Head(up_reg) = up_reg[1] BY <1>1, <2>3
    <3>2. 1 \in fit <=> HeaderFits(up_reg[1], q) /\ Detects(up_reg[1], q) BY <3>1
    <3>3. fit \subseteq {1} BY <3>1
    <3>4. OnlyProtocol(q) = IF 1 \in fit THEN 1 ELSE 0
      BY <3>1, <3>2, Zenon DEF OnlyProtocol
    <3> HIDE DEF fit, S
    <3>5. up_reg[1].at <= up_reg[1].at BY <1>1, <1>2, <2>3
    <3> QED BY <2>1, <2>2, <2>3, <3>3, <3>4, <3>5 DEF S
  <2>4. CASE up_count # 1
    <3>1. ChosenProtocol(q) = IF S = {} THEN 0 ELSE Min(S)
      BY <2>1, <2>2, <2>4, Zenon DEF FirstProtocol
    <3> HIDE DEF S, fit
    <3>2. CASE S # {}
      <4>1. S \subseteq Nat BY <1>1, <1>4
      <4>2. \E x \in S : \A y \in S : x <= y BY <3>2, <4>1, LeastNat
      <4>3. Min(S) \in S /\ \A y \in S : Min(S) <= y BY <4>2, Zenon DEF Min
      <4> DEFINE m == Min(S)
      <4> HIDE DEF m
      <4>4. m \in S /\ \A y \in S : m <= y BY <4>3 DEF m
      <4>5. ASSUME NEW j \in S PROVE up_reg[j].at <= up_reg[m].at
        <5>1. m \in 1 .. n /\ j \in 1 .. n /\ m <= j BY <1>4, <4>4
        <5>2. up_reg[m].at \in Nat /\ up_reg[j].at \in Nat BY <1>2, <5>1
        <5>3. CASE m = j BY <5>2, <5>3
        <5>4. CASE m < j
          <6>1. up_reg[j].at < up_reg[m].at BY <1>3, <5>1, <5>4
          <6> QED BY <5>2, <6>1
        <5> QED BY <1>1, <5>1, <5>3, <5>4
      <4>6. ChosenProtocol(q) = m BY <3>1, <3>2 DEF m
      <4> QED BY <3>2, <4>4, <4>5, <4>6 DEF S
    <3> QED BY <3>1, <3>2 DEF S
  <2> QED BY <2>3, <2>4
<1> QED BY <1>5, <1>6

\* For any protocols, registered and removed in any order: a request goes to the
\* protocol registered last among those it fits, has one answer, and uvhttp sends
\* nothing on a connection that was handed over.
THEOREM UpgradesAreRight == UpgradeSpec => []UpgradeOK
<1>1. UpgradeInit => UpgradeInv
  <2> SUFFICES ASSUME UpgradeInit PROVE UpgradeInv OBVIOUS
  <2>1. /\ HttpConn \in UpConnType /\ HttpConn.owner = "uvhttp"
        /\ HttpConn.state = "HTTP_READING"
    BY DEF HttpConn, UpConnType
  <2>2. up_reg = <<>> /\ up_count = 0 /\ up_regs = 0 /\ up_conn = HttpConn /\ up_last = NothingYet
    BY DEF UpgradeInit
  <2>3. /\ <<>> \in Seq(ProtocolType) /\ Len(<<>>) = 0 BY EmptySeq
  <2>4. Registry(up_reg, up_regs) BY <2>2, <2>3 DEF Registry
  <2>5. up_count = Len(up_reg) /\ up_count <= MaxProtocols BY <2>2, <2>3, UpgradeAssumption
  <2> QED BY <2>1, <2>2, <2>4, <2>5 DEF UpgradeInv, UpgradeAnswered
<1>2. UpgradeInv => UpgradeOK
  <2> SUFFICES ASSUME UpgradeInv PROVE UpgradeChosen
    BY DEF UpgradeInv, UpgradeOK
  <2>1. DOMAIN up_reg = 1 .. Len(up_reg) BY LenProperties DEF UpgradeInv, Registry
  <2>2. /\ up_count = Len(up_reg) /\ up_count <= MaxProtocols
        /\ \A i, j \in DOMAIN up_reg : up_reg[i].name = up_reg[j].name => i = j
    BY <2>1 DEF UpgradeInv, Registry
  <2> QED BY <2>2, FirstIsLatest, Zenon DEF UpgradeChosen
<1> QED BY <1>1, <1>2, UpgradeInvNext, PTL DEF UpgradeSpec

-----------------------------------------------------------------------------
(* What TLS connections write and read.                                    *)

\* The sequences that FlattenSeq goes through.
FlatsBy(ss, b, g) == g = [i \in 1 .. b |-> IF i = 1 THEN ss[i] ELSE g[i - 1] \o ss[i]]
FlatsOf(ss, b) == CHOOSE g : FlatsBy(ss, b, g)

\* FlattenSeq is the last of them.
LEMMA FlattenIs ==
  ASSUME NEW ss, Len(ss) # 0
  PROVE  SeqExt!FlattenSeq(ss) = FlatsOf(ss, Len(ss))[Len(ss)]
BY DEF SeqExt!FlattenSeq, FlatsOf, FlatsBy

\* They exist.
LEMMA FlatsExist ==
  ASSUME NEW ss, NEW c \in Nat
  PROVE  FlatsBy(ss, c, FlatsOf(ss, c))
<1> DEFINE B == {b \in Nat : ~ \E g : FlatsBy(ss, b, g)}
<1>1. B = {}
  <2>1. SUFFICES ASSUME B # {} PROVE FALSE OBVIOUS
  <2>2. PICK b \in B : \A a \in B : b <= a
    <3>1. B \in SUBSET Nat OBVIOUS
    <3> HIDE DEF B
    <3> QED BY <2>1, <3>1, LeastNat
  <2>3. b \in Nat /\ ~ \E g : FlatsBy(ss, b, g) BY <2>2
  <2>4. CASE b = 0
    <3> DEFINE g == [i \in 1 .. 0 |-> ss[1]]
    <3>1. g = [i \in 1 .. 0 |-> IF i = 1 THEN ss[i] ELSE g[i - 1] \o ss[i]] OBVIOUS
    <3> QED BY <2>3, <2>4, <3>1 DEF FlatsBy
  <2>5. CASE b # 0
    <3>1. b - 1 \in Nat /\ b - 1 \notin B BY <2>2, <2>3, <2>5
    <3>2. PICK g : FlatsBy(ss, b - 1, g) BY <3>1
    <3> DEFINE f == [i \in 1 .. b |-> IF i = b THEN (IF b = 1 THEN ss[1] ELSE g[b - 1] \o ss[b]) ELSE g[i]]
    <3>3. \A i \in 1 .. b - 1 : g[i] = IF i = 1 THEN ss[i] ELSE g[i - 1] \o ss[i]
      BY <3>2 DEF FlatsBy
    <3>4. ASSUME NEW i \in 1 .. b
          PROVE  f[i] = IF i = 1 THEN ss[i] ELSE f[i - 1] \o ss[i]
      <4>1. CASE i = b
        <5>1. i # 1 => i - 1 \in 1 .. b - 1 /\ i - 1 \in 1 .. b /\ i - 1 # b BY <2>3, <4>1
        <5>2. i # 1 => f[i - 1] = g[i - 1] BY <5>1
        <5> QED BY <4>1, <5>2
      <4>2. CASE i # b
        <5>1. i \in 1 .. b - 1 /\ f[i] = g[i] BY <2>3, <4>2
        <5>2. i # 1 => i - 1 \in 1 .. b - 1 /\ f[i - 1] = g[i - 1] BY <2>3, <5>1
        <5> QED BY <3>3, <5>1, <5>2
      <4> QED BY <4>1, <4>2
    <3>5. f = [i \in 1 .. b |-> f[i]] OBVIOUS
    <3> HIDE DEF f
    <3>6. f = [i \in 1 .. b |-> IF i = 1 THEN ss[i] ELSE f[i - 1] \o ss[i]] BY <3>4, <3>5
    <3> QED BY <2>3, <3>6 DEF FlatsBy
  <2> QED BY <2>4, <2>5
<1>2. \E g : FlatsBy(ss, c, g) BY <1>1
<1> QED BY <1>2 DEF FlatsOf

\* They are sequences, and a longer list of sequences has the same ones first.
LEMMA FlatsFacts ==
  ASSUME NEW T, NEW ss \in Seq(Seq(T)), NEW s \in Seq(T), NEW n, n = Len(ss)
  PROVE  \A i \in 1 .. n : /\ FlatsOf(ss, n)[i] \in Seq(T)
                           /\ FlatsOf(Append(ss, s), n + 1)[i] = FlatsOf(ss, n)[i]
<1> DEFINE g == FlatsOf(ss, n)
           h == FlatsOf(Append(ss, s), n + 1)
           B == {i \in 1 .. n : ~(g[i] \in Seq(T) /\ h[i] = g[i])}
<1>1. n \in Nat BY LenProperties
<1>2. FlatsBy(ss, n, g) /\ FlatsBy(Append(ss, s), n + 1, h) BY <1>1, FlatsExist
<1>3. \A i \in 1 .. n : ss[i] \in Seq(T) /\ Append(ss, s)[i] = ss[i]
  BY AppendProperties, ElementOfSeq
<1> HIDE DEF g, h
<1>4. \A i \in 1 .. n : g[i] = IF i = 1 THEN ss[i] ELSE g[i - 1] \o ss[i] BY <1>2 DEF FlatsBy
<1>5. \A i \in 1 .. n : h[i] = IF i = 1 THEN ss[i] ELSE h[i - 1] \o ss[i]
  <2>1. \A i \in 1 .. n : i \in 1 .. n + 1 BY <1>1
  <2> QED BY <1>2, <1>3, <2>1 DEF FlatsBy
<1>6. SUFFICES ASSUME B # {} PROVE FALSE BY DEF g, h
<1>7. PICK b \in B : \A a \in B : b <= a
  <2>1. B \in SUBSET Nat BY <1>1
  <2> HIDE DEF B
  <2> QED BY <1>6, <2>1, LeastNat
<1>8. b \in 1 .. n /\ b # 1 BY <1>3, <1>4, <1>5, <1>7
<1>9. g[b - 1] \in Seq(T) /\ h[b - 1] = g[b - 1]
  <2>1. b - 1 \in 1 .. n /\ b - 1 \notin B BY <1>1, <1>7, <1>8
  <2> QED BY <2>1
<1>10. g[b] = g[b - 1] \o ss[b] /\ h[b] = h[b - 1] \o ss[b] /\ ss[b] \in Seq(T)
  BY <1>3, <1>4, <1>5, <1>8
<1>11. g[b] \in Seq(T) /\ h[b] = g[b] BY <1>9, <1>10, ConcatProperties
<1> QED BY <1>7, <1>11

\* Flattening goes from left to right.
LEMMA FlattenAppend ==
  ASSUME NEW T, NEW ss \in Seq(Seq(T)), NEW s \in Seq(T)
  PROVE  /\ SeqExt!FlattenSeq(ss) \in Seq(T)
         /\ SeqExt!FlattenSeq(Append(ss, s)) = SeqExt!FlattenSeq(ss) \o s
<1> DEFINE n == Len(ss)
           tt == Append(ss, s)
<1>1. n \in Nat /\ Len(tt) = n + 1 /\ tt[n + 1] = s BY AppendProperties, LenProperties
<1>2. SeqExt!FlattenSeq(tt) = FlatsOf(tt, n + 1)[n + 1]
  <2>1. Len(tt) # 0 BY <1>1
  <2>2. SeqExt!FlattenSeq(tt) = FlatsOf(tt, Len(tt))[Len(tt)] BY <2>1, FlattenIs
  <2> QED BY <1>1, <2>2
<1>3. FlatsBy(tt, n + 1, FlatsOf(tt, n + 1)) BY <1>1, FlatsExist
<1>4. CASE n = 0
  <2>1. ss = <<>> BY <1>4, EmptySeq
  <2>2. SeqExt!FlattenSeq(ss) = <<>> BY <1>4, <2>1 DEF SeqExt!FlattenSeq
  <2>3. FlatsOf(tt, n + 1)[n + 1] = s BY <1>1, <1>3, <1>4 DEF FlatsBy
  <2>4. <<>> \o s = s BY ConcatEmptySeq
  <2>5. <<>> \in Seq(T) OBVIOUS
  <2> QED BY <1>2, <2>2, <2>3, <2>4, <2>5
<1>5. CASE n # 0
  <2>1. SeqExt!FlattenSeq(ss) = FlatsOf(ss, n)[n] BY <1>5, FlattenIs
  <2>2. n \in 1 .. n BY <1>1, <1>5
  <2>3. FlatsOf(ss, n)[n] \in Seq(T) /\ FlatsOf(tt, n + 1)[n] = FlatsOf(ss, n)[n]
    BY <2>2, FlatsFacts
  <2> HIDE DEF tt, n
  <2>4. FlatsOf(tt, n + 1)[n + 1] = FlatsOf(tt, n + 1)[n] \o tt[n + 1]
    <3>1. n + 1 \in 1 .. n + 1 /\ n + 1 # 1 /\ (n + 1) - 1 = n BY <1>1, <1>5
    <3> QED BY <1>3, <3>1 DEF FlatsBy
  <2> QED BY <1>1, <1>2, <2>1, <2>3, <2>4 DEF tt
<1> QED BY <1>4, <1>5

\* The first k sequences of a list, one after the other.
FirstOf(f, k) == SeqExt!FlattenSeq([r \in 1 .. k |-> f[r]])

\* No rows give nothing.
LEMMA FirstNone == ASSUME NEW f PROVE FirstOf(f, 0) = <<>>
<1>1. [r \in 1 .. 0 |-> f[r]] = <<>> OBVIOUS
<1> QED BY <1>1 DEF FirstOf, SeqExt!FlattenSeq

\* Only the first rows count.
LEMMA FirstSame ==
  ASSUME NEW f, NEW g, NEW k, \A r \in 1 .. k : f[r] = g[r]
  PROVE  FirstOf(f, k) = FirstOf(g, k)
<1>1. [r \in 1 .. k |-> f[r]] = [r \in 1 .. k |-> g[r]] OBVIOUS
<1> QED BY <1>1 DEF FirstOf

\* Rows of elements of T give a sequence of elements of T.
LEMMA FirstSeq ==
  ASSUME NEW T, NEW f, NEW k \in Nat, \A r \in 1 .. k : f[r] \in Seq(T)
  PROVE  FirstOf(f, k) \in Seq(T)
<1> DEFINE ss == [r \in 1 .. k |-> f[r]]
<1>1. ss \in [1 .. k -> Seq(T)] OBVIOUS
<1> HIDE DEF ss
<1>2. ss \in Seq(Seq(T)) BY <1>1, SeqDef
<1>3. <<>> \in Seq(T) OBVIOUS
<1>4. SeqExt!FlattenSeq(ss) \in Seq(T) BY <1>2, <1>3, FlattenAppend
<1> QED BY <1>4 DEF FirstOf, ss

\* One row more is appended.
LEMMA FirstNext ==
  ASSUME NEW T, NEW f, NEW k \in Nat, \A r \in 1 .. k + 1 : f[r] \in Seq(T)
  PROVE  FirstOf(f, k) \in Seq(T) /\ FirstOf(f, k + 1) = FirstOf(f, k) \o f[k + 1]
<1> DEFINE ss == [r \in 1 .. k |-> f[r]]
           tt == [r \in 1 .. k + 1 |-> f[r]]
           s == f[k + 1]
<1>1. \A r \in 1 .. k : r \in 1 .. k + 1 OBVIOUS
<1>2. ss \in [1 .. k -> Seq(T)] BY <1>1
<1>3. s \in Seq(T) OBVIOUS
<1> HIDE DEF ss
<1>4. ss \in Seq(Seq(T)) BY <1>2, SeqDef
<1>5. Len(ss) = k BY <1>2, <1>4, LenProperties
<1>6. tt = Append(ss, s)
  <2> HIDE DEF s
  <2>1. /\ Append(ss, s) \in Seq(Seq(T)) /\ Len(Append(ss, s)) = k + 1
        /\ Append(ss, s)[k + 1] = s /\ \A r \in 1 .. k : Append(ss, s)[r] = ss[r]
    BY <1>3, <1>4, <1>5, AppendProperties
  <2>2. Append(ss, s) = [r \in 1 .. k + 1 |-> Append(ss, s)[r]]
    <3>1. Append(ss, s) \in [1 .. k + 1 -> Seq(T)] BY <2>1, LenProperties
    <3> QED BY <3>1
  <2>3. \A r \in 1 .. k + 1 : r \in 1 .. k \/ r = k + 1 OBVIOUS
  <2>4. \A r \in 1 .. k + 1 : Append(ss, s)[r] = f[r] BY <2>1, <2>3 DEF ss, s
  <2> QED BY <2>2, <2>4
<1> HIDE DEF tt, s
<1>7. /\ SeqExt!FlattenSeq(ss) \in Seq(T)
      /\ SeqExt!FlattenSeq(Append(ss, s)) = SeqExt!FlattenSeq(ss) \o s
  BY <1>3, <1>4, FlattenAppend
<1> QED BY <1>6, <1>7 DEF FirstOf, ss, tt, s

-----------------------------------------------------------------------------
(* uvhttp_connection_tls_write.                                            *)

Row(c, n) == [i \in 1 .. n |-> <<c, i>>]
Rows(calls) == [c \in DOMAIN calls |-> Row(c, calls[c])]
Stream(calls) == FirstOf(Rows(calls), Len(calls))
Pairs == Nat \X Nat

\* The length of the response being written.
LastOf(calls) == IF calls = <<>> THEN 0 ELSE calls[Len(calls)]

\* What g ends with: the response that was given to tls_write last.
EndsWith(g, calls) ==
  /\ g \in Seq(Pairs) /\ LastOf(calls) <= Len(g)
  /\ \A i \in 1 .. LastOf(calls) : g[Len(g) - LastOf(calls) + i] = <<Len(calls), i>>

\* How much of all responses is with mbedtls or the peer: up to p, and the record
\* that waits, which is the one p is at.
Taken(calls, now, pending) ==
  now.at + IF pending = <<>> THEN 0 ELSE Min({LastOf(calls) - now.at, RecordLimit})

OutputInv ==
  /\ to_calls \in Seq(WriteSizes) /\ to_peer \in Seq(Pairs) /\ to_pending \in Seq(Pairs)
  /\ to_now \in [at : Nat, retries : Nat, active : BOOLEAN] /\ to_failed \in BOOLEAN
  /\ EndsWith(Stream(to_calls), to_calls)
  /\ SeqExt!IsPrefix(to_peer \o to_pending, Stream(to_calls))
  /\ to_failed => ~to_now.active
  /\ ~to_failed /\ ~to_now.active => to_pending = <<>> /\ to_peer = Stream(to_calls)
  /\ to_now.active =>
       /\ to_calls # <<>> /\ to_now.at <= LastOf(to_calls)
       /\ to_now.at = LastOf(to_calls) => to_pending = <<>>
       /\ Len(to_peer) + Len(to_pending) =
            (Len(Stream(to_calls)) - LastOf(to_calls)) + Taken(to_calls, to_now, to_pending)

\* A row is a sequence of pairs.
LEMMA RowIs ==
  ASSUME NEW c \in Nat, NEW m \in Nat PROVE Row(c, m) \in Seq(Pairs) /\ Len(Row(c, m)) = m
<1>1. Row(c, m) \in [1 .. m -> Pairs] BY DEF Row, Pairs
<1> QED BY <1>1, SeqDef

\* A new response is appended to what there is to send.
LEMMA StreamGrows ==
  ASSUME NEW calls \in Seq(Nat), NEW len \in Nat
  PROVE  /\ Stream(calls) \in Seq(Pairs)
         /\ Stream(Append(calls, len)) = Stream(calls) \o Row(Len(calls) + 1, len)
         /\ Row(Len(calls) + 1, len) \in Seq(Pairs) /\ Len(Row(Len(calls) + 1, len)) = len
<1> DEFINE n == Len(calls)
           more == Append(calls, len)
           f == Rows(calls)
           g == Rows(more)
<1>1. /\ n \in Nat /\ DOMAIN calls = 1 .. n /\ DOMAIN more = 1 .. n + 1 /\ Len(more) = n + 1
      /\ more[n + 1] = len /\ \A c \in 1 .. n : more[c] = calls[c] /\ calls[c] \in Nat
  BY AppendProperties, LenProperties, ElementOfSeq
<1> HIDE DEF more, n
<1>2. ASSUME NEW c \in Nat, NEW m \in Nat
      PROVE  Row(c, m) \in Seq(Pairs) /\ Len(Row(c, m)) = m
  BY <1>2, RowIs
<1>3. \A c \in 1 .. n + 1 : c \in Nat /\ more[c] \in Nat
  <2>1. \A c \in 1 .. n + 1 : c \in 1 .. n \/ c = n + 1 BY <1>1
  <2> QED BY <1>1, <2>1
<1>4. \A c \in 1 .. n + 1 : g[c] = Row(c, more[c]) /\ g[c] \in Seq(Pairs)
  BY <1>1, <1>2, <1>3 DEF Rows
<1>5. \A c \in 1 .. n : f[c] = g[c]
  <2>1. \A c \in 1 .. n : c \in 1 .. n + 1 BY <1>1
  <2> QED BY <1>1, <1>4, <2>1 DEF Rows
<1> HIDE DEF f, g
<1>6. FirstOf(f, n) = FirstOf(g, n) BY <1>5, FirstSame
<1>7. FirstOf(g, n) \in Seq(Pairs) /\ FirstOf(g, n + 1) = FirstOf(g, n) \o g[n + 1]
  BY <1>1, <1>4, FirstNext
<1>8. g[n + 1] = Row(n + 1, len) /\ n + 1 \in Nat
  <2>1. n + 1 \in 1 .. n + 1 BY <1>1
  <2> QED BY <1>1, <1>4, <2>1
<1>9. Row(n + 1, len) \in Seq(Pairs) /\ Len(Row(n + 1, len)) = len BY <1>2, <1>8
<1> QED BY <1>1, <1>6, <1>7, <1>8, <1>9 DEF Stream, f, g, n, more

\* A prefix, byte by byte.
LEMMA PrefixIs ==
  ASSUME NEW T, NEW s \in Seq(T), NEW t \in Seq(T)
  PROVE  SeqExt!IsPrefix(s, t) <=> Len(s) <= Len(t) /\ \A i \in 1 .. Len(s) : s[i] = t[i]
<1>1. Len(s) \in Nat /\ Len(t) \in Nat BY LenProperties
<1>2. SubSeq(s, 1, Len(s)) = s BY SubSeqFull
<1>3. SUFFICES ASSUME Len(s) <= Len(t)
               PROVE  s = SubSeq(t, 1, Len(s)) <=> \A i \in 1 .. Len(s) : s[i] = t[i]
  BY <1>2 DEF SeqExt!IsPrefix
<1> DEFINE u == SubSeq(t, 1, Len(s))
<1>4. u \in Seq(T) /\ Len(u) = Len(s) /\ \A i \in 1 .. Len(s) : u[i] = t[i]
  <2>1. \A i \in 1 .. Len(s) : t[i] \in T BY <1>1, <1>3, ElementOfSeq
  <2>2. /\ u \in Seq(T) /\ Len(u) = IF 1 <= Len(s) THEN Len(s) - 1 + 1 ELSE 0
        /\ \A i \in 1 .. Len(s) - 1 + 1 : u[i] = t[1 + i - 1]
    BY <1>1, <2>1, SubSeqProperties
  <2> HIDE DEF u
  <2> QED BY <1>1, <2>2
<1> HIDE DEF u
<1>5. (\A i \in 1 .. Len(s) : s[i] = u[i]) => s = u BY <1>4, SeqEqual
<1> QED BY <1>4, <1>5 DEF u

\* A sequence cut in two, before its j + 1-st element.
IsCut(r, j, a, b) == a = SubSeq(r, 1, j) /\ b = SubSeq(r, j + 1, Len(r))

\* The first n elements of a sequence and the rest, as sequences.
LEMMA CutFacts ==
  ASSUME NEW T, NEW r \in Seq(T), NEW j \in 0 .. Len(r), NEW a, NEW b, IsCut(r, j, a, b)
  PROVE  /\ a \in Seq(T) /\ Len(a) = j /\ \A i \in 1 .. j : a[i] = r[i]
         /\ b \in Seq(T) /\ Len(b) = Len(r) - j /\ \A i \in 1 .. Len(r) - j : b[i] = r[j + i]
<1>1. Len(r) \in Nat /\ j \in Nat /\ j <= Len(r) BY LenProperties
<1>2. /\ a \in Seq(T) /\ Len(a) = j /\ \A i \in 1 .. j : a[i] = r[i]
  <2>1. \A i \in 1 .. j : r[i] \in T BY <1>1, ElementOfSeq
  <2>2. /\ a \in Seq(T) /\ Len(a) = IF 1 <= j THEN j - 1 + 1 ELSE 0
        /\ \A i \in 1 .. j - 1 + 1 : a[i] = r[1 + i - 1]
    BY <1>1, <2>1, SubSeqProperties DEF IsCut
  <2> QED BY <1>1, <2>2
<1>3. /\ b \in Seq(T) /\ Len(b) = Len(r) - j /\ \A i \in 1 .. Len(r) - j : b[i] = r[j + i]
  <2>1. \A i \in j + 1 .. Len(r) : r[i] \in T BY <1>1, ElementOfSeq
  <2>2. /\ b \in Seq(T) /\ Len(b) = IF j + 1 <= Len(r) THEN Len(r) - (j + 1) + 1 ELSE 0
        /\ \A i \in 1 .. Len(r) - (j + 1) + 1 : b[i] = r[(j + 1) + i - 1]
    BY <1>1, <2>1, SubSeqProperties DEF IsCut
  <2>3. Len(b) = Len(r) - j BY <1>1, <2>2
  <2>4. ASSUME NEW i \in 1 .. Len(r) - j PROVE b[i] = r[j + i]
    <3>1. i \in 1 .. Len(r) - (j + 1) + 1 /\ (j + 1) + i - 1 = j + i BY <1>1
    <3> QED BY <2>2, <3>1
  <2> QED BY <2>2, <2>3, <2>4
<1> QED BY <1>2, <1>3

\* A cut puts the sequence in two parts.
LEMMA CutInTwo ==
  ASSUME NEW T, NEW r \in Seq(T), NEW j \in 0 .. Len(r), NEW a, NEW b, IsCut(r, j, a, b)
  PROVE  a \o b = r /\ (b = <<>> <=> j = Len(r))
<1>1. Len(r) \in Nat /\ j \in Nat /\ j <= Len(r) BY LenProperties
<1>2. /\ a \in Seq(T) /\ Len(a) = j /\ \A i \in 1 .. j : a[i] = r[i]
      /\ b \in Seq(T) /\ Len(b) = Len(r) - j /\ \A i \in 1 .. Len(r) - j : b[i] = r[j + i]
  BY CutFacts
<1>3. a \o b = r
  <2>1. /\ a \o b \in Seq(T) /\ Len(a \o b) = Len(r)
        /\ \A i \in 1 .. Len(r) : (a \o b)[i] = IF i <= j THEN a[i] ELSE b[i - j]
    BY <1>1, <1>2, ConcatProperties
  <2>2. ASSUME NEW i \in 1 .. Len(r) PROVE (a \o b)[i] = r[i]
    <3>1. CASE i <= j
      <4>1. i \in 1 .. j BY <1>1, <3>1
      <4> QED BY <1>2, <2>1, <3>1, <4>1
    <3>2. CASE ~(i <= j)
      <4>1. i - j \in 1 .. Len(r) - j /\ j + (i - j) = i BY <1>1, <3>2
      <4> QED BY <1>2, <2>1, <3>2, <4>1
    <3> QED BY <3>1, <3>2
  <2> QED BY <2>1, <2>2, SeqEqual
<1>4. b = <<>> <=> j = Len(r)
  <2>1. Len(b) = 0 <=> b = <<>> BY <1>2, EmptySeq
  <2> QED BY <1>1, <1>2, <2>1
<1> QED BY <1>3, <1>4

\* The least of two numbers.
LEMMA MinOfTwo ==
  ASSUME NEW a \in Nat, NEW b \in Nat
  PROVE  Min({a, b}) = IF a <= b THEN a ELSE b
<1>1. {a, b} \in SUBSET Nat /\ {a, b} # {} OBVIOUS
<1>2. Min({a, b}) \in {a, b} /\ \A y \in {a, b} : Min({a, b}) <= y BY <1>1, MinIsLeast
<1>3. Min({a, b}) <= a /\ Min({a, b}) <= b BY <1>2
<1>4. Min({a, b}) = a \/ Min({a, b}) = b BY <1>2
<1> QED BY <1>3, <1>4

\* The invariant holds at the start.
LEMMA OutputInit == TlsOutputInit => OutputInv
<1>1. SUFFICES ASSUME TlsOutputInit PROVE OutputInv OBVIOUS
<1>2. Stream(<<>>) = <<>>
  BY FirstNone DEF Stream
<1>3. <<>> \in Seq(Pairs) /\ <<>> \in Seq(WriteSizes) /\ Len(<<>>) = 0 OBVIOUS
<1>4. SeqExt!IsPrefix(<<>> \o <<>>, <<>>)
  <2>1. <<>> \o <<>> = <<>> BY <1>3, ConcatEmptySeq
  <2>2. SubSeq(<<>>, 1, Len(<<>>)) = <<>> BY <1>3, SubSeqFull
  <2> QED BY <1>3, <2>1, <2>2 DEF SeqExt!IsPrefix
<1>5. EndsWith(<<>>, <<>>) BY <1>3 DEF EndsWith, LastOf
<1> QED BY <1>1, <1>2, <1>3, <1>4, <1>5 DEF TlsOutputInit, OutputInv, NoCall

\* The facts about the response being written that the steps below share.
LEMMA OutputFacts ==
  ASSUME OutputInv
  PROVE  LET G == Stream(to_calls)
             L == LastOf(to_calls)
         IN  /\ G \in Seq(Pairs) /\ Len(G) \in Nat /\ L \in Nat /\ L <= Len(G)
             /\ Len(to_calls) \in Nat /\ Len(to_peer) \in Nat /\ Len(to_pending) \in Nat
             /\ to_calls \in Seq(Nat)
             /\ to_calls # <<>> => L = to_calls[Len(to_calls)]
<1>1. to_calls \in Seq(Nat)
  <2>1. to_calls \in Seq(WriteSizes) BY DEF OutputInv
  <2>2. Len(to_calls) \in Nat /\ to_calls \in [1 .. Len(to_calls) -> WriteSizes]
    BY <2>1, LenProperties
  <2>3. to_calls \in [1 .. Len(to_calls) -> Nat] BY <2>2, TlsOutputAssumption
  <2> QED BY <2>2, <2>3, SeqDef
<1>2. LastOf(to_calls) \in Nat
  <2>1. to_calls # <<>> => Len(to_calls) \in 1 .. Len(to_calls)
    BY <1>1, EmptySeq, LenProperties
  <2> QED BY <1>1, <2>1, ElementOfSeq DEF LastOf
<1> QED BY <1>1, <1>2, LenProperties DEF OutputInv, EndsWith, LastOf

\* mbedtls goes on with the next bytes, or with the record that waits.
LEMMA RecordContinues ==
  ASSUME OutputInv, to_now.active, to_now.at < LastOf(to_calls)
  PROVE  LET n == Min({LastOf(to_calls) - to_now.at, RecordLimit})
             record == IF to_pending # <<>> THEN to_pending ELSE NextBytes(n)
         IN  /\ n \in Nat /\ 1 <= n /\ n <= LastOf(to_calls) - to_now.at
             /\ record \in Seq(Pairs) /\ record # <<>>
             /\ to_peer \o record \in Seq(Pairs)
             /\ SeqExt!IsPrefix(to_peer \o record, Stream(to_calls))
             /\ Len(to_peer) + Len(record) =
                  (Len(Stream(to_calls)) - LastOf(to_calls)) + to_now.at + n
<1> DEFINE G == Stream(to_calls)
           L == LastOf(to_calls)
           at == to_now.at
           n == Min({L - at, RecordLimit})
           record == IF to_pending # <<>> THEN to_pending ELSE NextBytes(n)
           W == to_peer \o record
<1>1. /\ G \in Seq(Pairs) /\ Len(G) \in Nat /\ L \in Nat /\ L <= Len(G)
      /\ Len(to_calls) \in Nat /\ Len(to_peer) \in Nat
  BY OutputFacts
<1>2. /\ at \in Nat /\ at < L /\ to_peer \in Seq(Pairs) /\ to_pending \in Seq(Pairs)
  BY DEF OutputInv
<1>3. n \in Nat /\ 1 <= n /\ n <= L - at
  <2>1. L - at \in Nat /\ L - at >= 1 /\ RecordLimit \in Nat /\ RecordLimit >= 1
    BY <1>1, <1>2, TlsOutputAssumption
  <2> HIDE DEF L, at
  <2>2. n = IF L - at <= RecordLimit THEN L - at ELSE RecordLimit BY <2>1, MinOfTwo
  <2> QED BY <2>1, <2>2
<1>4. Len(to_peer) + Len(to_pending) = (Len(G) - L) + at + IF to_pending = <<>> THEN 0 ELSE n
  <2> DEFINE k == IF to_pending = <<>> THEN 0 ELSE n
  <2>1. Len(to_peer) + Len(to_pending) = (Len(G) - L) + (at + k) BY DEF OutputInv, Taken
  <2>2. k \in Nat BY <1>3
  <2> HIDE DEF k, G, L, at
  <2>3. (Len(G) - L) + (at + k) = (Len(G) - L) + at + k BY <1>1, <1>2, <2>2
  <2> QED BY <2>1, <2>3 DEF k
<1>5. SeqExt!IsPrefix(to_peer \o to_pending, G) BY DEF OutputInv
<1>6. \A i \in 1 .. L : G[Len(G) - L + i] = <<Len(to_calls), i>> BY DEF OutputInv, EndsWith
<1>7. CASE to_pending # <<>>
  <2>1. record = to_pending BY <1>7
  <2> HIDE DEF record, n
  <2> QED BY <1>1, <1>2, <1>3, <1>4, <1>5, <1>7, <2>1, ConcatProperties DEF record, n
<1>8. CASE to_pending = <<>>
  <2>1. record = [i \in 1 .. n |-> <<Len(to_calls), at + i>>] BY <1>8 DEF NextBytes
  <2>2. to_peer \o to_pending = to_peer BY <1>2, <1>8, ConcatEmptySeq
  <2>3. Len(to_pending) = 0 BY <1>8
  <2> HIDE DEF record, n, G, L, at
  <2>4. Len(to_peer) = (Len(G) - L) + at BY <1>1, <1>2, <1>3, <1>4, <1>8, <2>3
  <2>5. record \in Seq(Pairs) /\ Len(record) = n
    <3>1. record \in [1 .. n -> Pairs] BY <1>1, <1>2, <1>3, <2>1 DEF Pairs
    <3>2. record \in Seq(Pairs) BY <1>3, <3>1, SeqDef
    <3> QED BY <1>3, <3>1, <3>2, LenProperties
  <2>6. record # <<>> BY <1>3, <2>5
  <2>7. /\ W \in Seq(Pairs) /\ Len(W) = Len(to_peer) + n
        /\ \A i \in 1 .. Len(to_peer) + n :
             W[i] = IF i <= Len(to_peer) THEN to_peer[i] ELSE record[i - Len(to_peer)]
    BY <1>2, <2>5, ConcatProperties
  <2>8. Len(to_peer) <= Len(G) /\ \A i \in 1 .. Len(to_peer) : to_peer[i] = G[i]
    BY <1>1, <1>2, <1>5, <2>2, PrefixIs
  <2> HIDE DEF W
  <2>9. ASSUME NEW i \in 1 .. Len(W) PROVE W[i] = G[i]
    <3>1. CASE i <= Len(to_peer)
      <4>1. i \in 1 .. Len(to_peer) BY <1>1, <3>1
      <4> QED BY <2>7, <2>8, <3>1, <4>1
    <3>2. CASE ~(i <= Len(to_peer))
      <4> DEFINE k == i - Len(to_peer)
      <4>1. k \in 1 .. n /\ at + k \in 1 .. L /\ Len(G) - L + (at + k) = i
        BY <1>1, <1>2, <1>3, <2>4, <2>7, <3>2
      <4>2. W[i] = record[k] BY <2>7, <3>2
      <4>3. record[k] = <<Len(to_calls), at + k>> BY <2>1, <4>1
      <4> HIDE DEF k
      <4> QED BY <1>6, <4>1, <4>2, <4>3
    <3> QED BY <3>1, <3>2
  <2>10. Len(W) <= Len(G) BY <1>1, <1>2, <1>3, <2>4, <2>7
  <2>11. SeqExt!IsPrefix(W, G) BY <1>1, <2>7, <2>9, <2>10, PrefixIs
  <2>12. Len(to_peer) + Len(record) = (Len(G) - L) + at + n BY <1>1, <1>2, <1>3, <2>4, <2>5
  <2> QED BY <1>3, <2>5, <2>6, <2>7, <2>11, <2>12 DEF record, n, G, L, at, W
<1> QED BY <1>7, <1>8

\* The invariant but for the response being written.
OutputKept ==
  /\ to_calls \in Seq(WriteSizes) /\ to_peer \in Seq(Pairs) /\ to_pending \in Seq(Pairs)
  /\ to_now \in [at : Nat, retries : Nat, active : BOOLEAN] /\ to_failed \in BOOLEAN
  /\ EndsWith(Stream(to_calls), to_calls)
  /\ SeqExt!IsPrefix(to_peer \o to_pending, Stream(to_calls))

\* uvhttp_connection_tls_write preserves it: a new response starts where the last ended.
LEMMA TlsWriteKeeps ==
  ASSUME OutputInv, NEW len \in WriteSizes, TlsWrite(len) PROVE OutputInv'
<1> DEFINE G == Stream(to_calls)
           c == Len(to_calls)
           row == Row(c + 1, len)
           H == Stream(to_calls')
<1>1. len \in Nat /\ len > 0 BY TlsOutputAssumption
<1>2. G \in Seq(Pairs) /\ Len(G) \in Nat /\ c \in Nat /\ to_calls \in Seq(Nat) BY OutputFacts
<1>3. /\ to_calls' = Append(to_calls, len)
      /\ to_now' = [at |-> 0, retries |-> 0, active |-> TRUE]
      /\ to_pending' = to_pending /\ to_peer' = to_peer /\ to_failed' = to_failed
      /\ ~to_now.active /\ ~to_failed
  BY DEF TlsWrite, NoCall
<1>4. to_pending = <<>> /\ to_peer = G /\ to_failed \in BOOLEAN /\ to_calls \in Seq(WriteSizes)
  BY <1>3 DEF OutputInv
<1>5. to_calls' \in Seq(WriteSizes) /\ Len(to_calls') = c + 1 /\ to_calls'[c + 1] = len
  BY <1>3, <1>4, AppendProperties
<1>6. LastOf(to_calls') = len
  <2>1. to_calls' # <<>> BY <1>2, <1>5
  <2> QED BY <1>5, <2>1 DEF LastOf
<1>7. H = G \o row /\ row \in Seq(Pairs) /\ Len(row) = len BY <1>1, <1>2, <1>3, StreamGrows
<1> HIDE DEF G, H, row, c
<1>8. /\ H \in Seq(Pairs) /\ Len(H) = Len(G) + len
      /\ \A i \in 1 .. Len(G) + len : H[i] = IF i <= Len(G) THEN G[i] ELSE row[i - Len(G)]
  BY <1>2, <1>7, ConcatProperties
<1>9. \A i \in 1 .. len : row[i] = <<c + 1, i>> BY DEF Row, row
<1>10. EndsWith(H, to_calls')
  <2>1. ASSUME NEW i \in 1 .. len PROVE H[Len(H) - len + i] = <<c + 1, i>>
    <3>1. /\ Len(H) - len + i \in 1 .. Len(G) + len /\ ~(Len(H) - len + i <= Len(G))
          /\ (Len(H) - len + i) - Len(G) = i
      BY <1>1, <1>2, <1>8
    <3> QED BY <1>8, <1>9, <3>1
  <2>2. len <= Len(H) BY <1>1, <1>2, <1>8
  <2> QED BY <1>5, <1>6, <1>8, <2>1, <2>2 DEF EndsWith
<1>11. SeqExt!IsPrefix(to_peer' \o to_pending', H)
  <2>1. to_peer' \o to_pending' = G BY <1>2, <1>3, <1>4, ConcatEmptySeq
  <2>2. Len(G) <= Len(H) BY <1>1, <1>2, <1>8
  <2>3. ASSUME NEW i \in 1 .. Len(G) PROVE G[i] = H[i]
    <3>1. i \in 1 .. Len(G) + len /\ i <= Len(G) BY <1>1, <1>2
    <3> QED BY <1>8, <3>1
  <2>4. SeqExt!IsPrefix(G, H) BY <1>2, <1>8, <2>2, <2>3, PrefixIs
  <2> QED BY <2>1, <2>4
<1>12. Len(to_peer') + Len(to_pending') = (Len(H) - len) + Taken(to_calls', to_now', to_pending')
  <2>1. Taken(to_calls', to_now', to_pending') = 0 BY <1>3, <1>4 DEF Taken
  <2>2. Len(to_pending') = 0 /\ Len(to_peer') = Len(G) BY <1>3, <1>4
  <2> QED BY <1>1, <1>2, <1>8, <2>1, <2>2
<1>13. to_calls' # <<>> BY <1>2, <1>5
<1>14. OutputKept' BY <1>2, <1>3, <1>4, <1>5, <1>10, <1>11 DEF OutputKept, H, G
<1>15. /\ to_now'.active /\ to_now'.at = 0 /\ ~to_failed' /\ 0 <= len /\ to_pending' = <<>>
  BY <1>1, <1>3, <1>4
<1> QED BY <1>6, <1>12, <1>13, <1>14, <1>15 DEF OutputInv, OutputKept, H

\* A turn of its loop preserves it, whatever mbedtls and the socket take.
LEMMA WriteRoundKeeps == ASSUME OutputInv, WriteRound PROVE OutputInv'
<1> DEFINE G == Stream(to_calls)
           L == LastOf(to_calls)
           at == to_now.at
           n == Min({L - at, RecordLimit})
           record == IF to_pending # <<>> THEN to_pending ELSE NextBytes(n)
<1>1. to_now.active /\ to_calls # <<>> /\ to_failed = FALSE /\ L = to_calls[Len(to_calls)]
  BY OutputFacts DEF WriteRound, OutputInv
<1>2. /\ G \in Seq(Pairs) /\ Len(G) \in Nat /\ L \in Nat /\ at \in Nat
      /\ to_peer \in Seq(Pairs) /\ to_now.retries \in Nat
      /\ to_now = [at |-> at, retries |-> to_now.retries, active |-> to_now.active]
  BY OutputFacts DEF OutputInv
<1>3. at < L BY <1>1, <1>2 DEF WriteRound
<1>4. /\ n \in Nat /\ 1 <= n /\ n <= L - at /\ record \in Seq(Pairs) /\ record # <<>>
      /\ SeqExt!IsPrefix(to_peer \o record, G)
      /\ Len(to_peer) + Len(record) = (Len(G) - L) + at + n
  BY <1>1, <1>3, RecordContinues
<1>5. to_calls' = to_calls BY DEF WriteRound
<1>6. ASSUME NEW j \in 0 .. Len(record), BioSend(record, j)
      PROVE  /\ to_peer' \in Seq(Pairs) /\ to_pending' \in Seq(Pairs)
             /\ SeqExt!IsPrefix(to_peer' \o to_pending', G)
             /\ Len(to_peer') + Len(to_pending') = (Len(G) - L) + at + n
             /\ to_pending' = <<>> <=> j = Len(record)
  <2> HIDE DEF record, G, L, at, n
  <2> DEFINE a == SubSeq(record, 1, j)
             b == SubSeq(record, j + 1, Len(record))
  <2>1. /\ a \in Seq(Pairs) /\ b \in Seq(Pairs) /\ Len(a) = j /\ Len(b) = Len(record) - j
        /\ (b = <<>> <=> j = Len(record)) /\ (to_peer \o a) \o b = to_peer \o record
    <3>1. IsCut(record, j, a, b) BY DEF IsCut
    <3> HIDE DEF a, b
    <3>2. a \in Seq(Pairs) /\ b \in Seq(Pairs) /\ Len(a) = j /\ Len(b) = Len(record) - j
      BY <1>4, <1>6, <3>1, CutFacts
    <3>3. to_peer \in Seq(Pairs) /\ record \in Seq(Pairs) /\ j \in 0 .. Len(record)
      BY <1>2, <1>4, <1>6
    <3>4. a \o b = record /\ (b = <<>> <=> j = Len(record)) BY <3>1, <3>3, CutInTwo
    <3>5. (to_peer \o a) \o b = to_peer \o (a \o b) BY <3>2, <3>3, ConcatAssociative
    <3> QED BY <3>2, <3>4, <3>5
  <2>2. to_peer' = to_peer \o a /\ to_pending' = b BY <1>6 DEF BioSend
  <2> HIDE DEF a, b
  <2>3. to_peer' \in Seq(Pairs) /\ Len(to_peer') = Len(to_peer) + j
    BY <1>2, <2>1, <2>2, ConcatProperties
  <2>4. Len(to_peer) \in Nat /\ Len(record) \in Nat /\ j \in Nat BY <1>2, <1>4, <1>6, LenProperties
  <2>5. Len(to_peer') + Len(to_pending') = Len(to_peer) + Len(record)
    <3>1. Len(to_pending') = Len(record) - j BY <2>1, <2>2
    <3> QED BY <2>3, <2>4, <3>1
  <2> QED BY <1>4, <2>1, <2>2, <2>3, <2>5
<1>7. PICK j \in 0 .. Len(record) :
        /\ BioSend(record, j)
        /\ \/ /\ j = Len(record) /\ to_failed' = to_failed
              /\ to_now' = [to_now EXCEPT !.at = @ + n, !.retries = 0]
           \/ /\ j # Len(record) /\ to_now' = NoCall /\ to_failed' = TRUE
           \/ /\ j # Len(record) /\ to_failed' = to_failed
              /\ to_now' = [to_now EXCEPT !.retries = @ + 1]
  <2>1. Len(record) \in Nat BY <1>4, LenProperties
  <2>2. \/ /\ BioSend(record, Len(record)) /\ UNCHANGED to_failed
           /\ to_now' = [to_now EXCEPT !.at = @ + n, !.retries = 0]
        \/ /\ \E j \in 0 .. Len(record) - 1 : BioSend(record, j)
           /\ \/ to_now' = NoCall /\ to_failed' = TRUE
              \/ to_now' = [to_now EXCEPT !.retries = @ + 1] /\ UNCHANGED to_failed
    BY <1>1 DEF WriteRound
  <2> HIDE DEF record, n
  <2>3. CASE /\ BioSend(record, Len(record)) /\ UNCHANGED to_failed
             /\ to_now' = [to_now EXCEPT !.at = @ + n, !.retries = 0]
    <3>1. Len(record) \in 0 .. Len(record) BY <2>1
    <3> QED BY <2>3, <3>1
  <2>4. CASE /\ \E j \in 0 .. Len(record) - 1 : BioSend(record, j)
             /\ \/ to_now' = NoCall /\ to_failed' = TRUE
                \/ to_now' = [to_now EXCEPT !.retries = @ + 1] /\ UNCHANGED to_failed
    <3>1. PICK j \in 0 .. Len(record) - 1 : BioSend(record, j) BY <2>4
    <3>2. j \in 0 .. Len(record) /\ j # Len(record) BY <2>1, <3>1
    <3> QED BY <2>4, <3>1, <3>2
  <2> QED BY <2>2, <2>3, <2>4
<1>8. /\ to_peer' \in Seq(Pairs) /\ to_pending' \in Seq(Pairs)
      /\ SeqExt!IsPrefix(to_peer' \o to_pending', G)
      /\ Len(to_peer') + Len(to_pending') = (Len(G) - L) + at + n
      /\ to_pending' = <<>> <=> j = Len(record)
  BY <1>6, <1>7
<1>9. to_calls \in Seq(WriteSizes) /\ EndsWith(G, to_calls) BY DEF OutputInv
<1> HIDE DEF record
<1>10. CASE /\ j = Len(record) /\ to_failed' = to_failed
            /\ to_now' = [to_now EXCEPT !.at = @ + n, !.retries = 0]
  <2>1. to_now' = [at |-> at + n, retries |-> 0, active |-> TRUE] BY <1>1, <1>2, <1>10
  <2> HIDE DEF at, n, G, L
  <2>2. at + n \in Nat /\ at + n <= L BY <1>2, <1>4
  <2>3. Taken(to_calls', to_now', to_pending') = at + n
    BY <1>2, <1>4, <1>8, <1>10, <2>1 DEF Taken
  <2>4. (Len(G) - L) + at + n = (Len(G) - L) + (at + n) BY <1>2, <1>4
  <2>5. OutputKept'
    <3>1. to_now' \in [at : Nat, retries : Nat, active : BOOLEAN] BY <2>1, <2>2
    <3>2. to_failed' \in BOOLEAN BY <1>1, <1>10
    <3> QED BY <1>5, <1>8, <1>9, <3>1, <3>2 DEF OutputKept, G
  <2>6. to_pending' = <<>> BY <1>8, <1>10
  <2>7. Len(to_peer') + Len(to_pending') = (Len(G) - L) + Taken(to_calls', to_now', to_pending')
    BY <1>8, <2>3, <2>4
  <2>8. to_now'.active /\ to_now'.at <= LastOf(to_calls') /\ to_calls' # <<>> /\ ~to_failed'
    <3>1. to_now'.active /\ to_now'.at = at + n BY <2>1
    <3>2. LastOf(to_calls') = L BY <1>5 DEF L
    <3> QED BY <1>1, <1>5, <1>10, <2>2, <3>1, <3>2
  <2>9. Stream(to_calls') = G /\ LastOf(to_calls') = L BY <1>5 DEF G, L
  <2> QED BY <2>5, <2>6, <2>7, <2>8, <2>9 DEF OutputInv, OutputKept
<1>11. CASE j # Len(record) /\ to_now' = NoCall /\ to_failed' = TRUE
  BY <1>5, <1>8, <1>9, <1>11 DEF OutputInv, NoCall
<1>12. CASE /\ j # Len(record) /\ to_failed' = to_failed
            /\ to_now' = [to_now EXCEPT !.retries = @ + 1]
  <2>1. to_now' = [at |-> at, retries |-> to_now.retries + 1, active |-> TRUE]
    BY <1>1, <1>2, <1>12
  <2>2. to_pending' # <<>> BY <1>8, <1>12
  <2>3. Taken(to_calls', to_now', to_pending') = at + n BY <1>5, <2>1, <2>2 DEF Taken
  <2> HIDE DEF at, n, G, L
  <2>4. (Len(G) - L) + at + n = (Len(G) - L) + (at + n) BY <1>2, <1>4
  <2>5. OutputKept'
    <3>1. to_now' \in [at : Nat, retries : Nat, active : BOOLEAN]
      <4>1. to_now.retries + 1 \in Nat BY <1>2
      <4> QED BY <1>2, <2>1, <4>1
    <3>2. to_failed' \in BOOLEAN BY <1>1, <1>12
    <3> QED BY <1>5, <1>8, <1>9, <3>1, <3>2 DEF OutputKept, G
  <2>6. Len(to_peer') + Len(to_pending') = (Len(G) - L) + Taken(to_calls', to_now', to_pending')
    BY <1>8, <2>3, <2>4
  <2>7. at <= L /\ at # L BY <1>2, <1>3
  <2>8. /\ to_now'.active /\ to_now'.at <= LastOf(to_calls') /\ to_now'.at # LastOf(to_calls')
        /\ to_calls' # <<>> /\ ~to_failed'
    BY <1>1, <1>5, <1>12, <2>1, <2>7 DEF L
  <2>9. Stream(to_calls') = G /\ LastOf(to_calls') = L BY <1>5 DEF G, L
  <2> QED BY <2>5, <2>6, <2>8, <2>9 DEF OutputInv, OutputKept
<1> QED BY <1>7, <1>10, <1>11, <1>12

\* So does its return, after success and after an error.
LEMMA WriteReturnsKeeps == ASSUME OutputInv, WriteReturns PROVE OutputInv'
<1> DEFINE G == Stream(to_calls)
           L == LastOf(to_calls)
<1>1. /\ to_now.active /\ to_calls # <<>> /\ ~to_failed /\ L = to_calls[Len(to_calls)]
      /\ to_now.at = L
      /\ to_now' = NoCall /\ UNCHANGED <<to_calls, to_pending, to_peer, to_failed>>
  BY OutputFacts DEF WriteReturns, OutputInv
<1>2. /\ G \in Seq(Pairs) /\ Len(G) \in Nat /\ L \in Nat /\ to_peer \in Seq(Pairs)
      /\ Len(to_peer) \in Nat
  BY OutputFacts DEF OutputInv
<1>3. to_pending = <<>> /\ SeqExt!IsPrefix(to_peer \o to_pending, G) BY <1>1 DEF OutputInv
<1>4. Len(to_peer) = Len(G)
  <2>1. Taken(to_calls, to_now, to_pending) = L BY <1>1, <1>2, <1>3 DEF Taken
  <2>2. Len(to_peer) + Len(to_pending) = (Len(G) - L) + Taken(to_calls, to_now, to_pending)
    BY <1>1 DEF OutputInv
  <2>3. Len(to_pending) = 0 BY <1>3
  <2> QED BY <1>2, <2>1, <2>2, <2>3
<1>5. to_peer = G
  <2>1. to_peer \o to_pending = to_peer BY <1>2, <1>3, ConcatEmptySeq
  <2> HIDE DEF G
  <2>2. \A i \in 1 .. Len(to_peer) : to_peer[i] = G[i] BY <1>2, <1>3, <2>1, PrefixIs
  <2> QED BY <1>2, <1>4, <2>2, SeqEqual
<1> QED BY <1>1, <1>3, <1>5 DEF OutputInv, NoCall

\* What the peer gets of the responses, for every response length, record limit
\* and number of retries: uvhttp_connection_tls_write.
THEOREM ResponsesArriveInOrder == TlsOutputSpec => []OutputInOrder
<1>1. TlsOutputInit => OutputInv BY OutputInit
<1>2. OutputInv /\ [TlsOutputNext]_tlsOutputVars => OutputInv'
  <2>1. SUFFICES ASSUME OutputInv, [TlsOutputNext]_tlsOutputVars PROVE OutputInv' OBVIOUS
  <2>2. CASE WriteRound BY <2>1, <2>2, WriteRoundKeeps
  <2>3. CASE WriteError BY <2>1, <2>3 DEF WriteError, OutputInv, NoCall
  <2>4. CASE WriteReturns BY <2>1, <2>4, WriteReturnsKeeps
  <2>5. CASE \E len \in WriteSizes : TlsWrite(len) BY <2>1, <2>5, TlsWriteKeeps
  <2>6. CASE UNCHANGED tlsOutputVars BY <2>1, <2>6 DEF OutputInv, tlsOutputVars
  <2> QED BY <2>1, <2>2, <2>3, <2>4, <2>5, <2>6 DEF TlsOutputNext
<1>3. OutputInv => OutputInOrder
  <2>1. SUFFICES ASSUME OutputInv PROVE OutputInOrder OBVIOUS
  <2>2. DOMAIN to_calls = 1 .. Len(to_calls) BY <2>1, LenProperties DEF OutputInv
  <2>3. [c \in 1 .. Len(to_calls) |-> Rows(to_calls)[c]] =
          [c \in DOMAIN to_calls |-> [i \in 1 .. to_calls[c] |-> <<c, i>>]]
    BY <2>2 DEF Rows, Row
  <2>4. Given = Stream(to_calls) BY <2>3 DEF Given, Stream, FirstOf
  <2> QED BY <2>1, <2>4 DEF OutputInv, OutputInOrder
<1> QED BY <1>1, <1>2, <1>3, PTL DEF TlsOutputSpec

-----------------------------------------------------------------------------
(* on_read and on_websocket_read over TLS.                                 *)

CipherRow(r, size) == [j \in 1 .. size + 1 |-> <<r, j - 1>>]
PlainRow(r, record) == IF record.kind = "data" THEN Row(r, record.size) ELSE <<>>

\* The ciphertext and the plaintext of the first k records.
Ciphers(records) == [r \in DOMAIN records |-> CipherRow(r, records[r].size)]
Plains(records) == [r \in DOMAIN records |-> PlainRow(r, records[r])]
CipherTo(records, k) == FirstOf(Ciphers(records), k)
PlainTo(records, k) == FirstOf(Plains(records), k)

RecordType == [kind : {"handshake", "data", "notify"}, size : Nat \ {0}]
MbType == [cipher : Seq(Pairs), in : Seq(Pairs), out : Seq(Pairs)]

\* The ciphertext that is left to decrypt.
Unread(m, wire) == m.in \o (m.cipher \o wire)

\* mbedtls has taken the first R records, and not all of the next.
After(records, wire, m, R) ==
  R \in 0 .. Len(records) /\ CipherTo(records, R) \o Unread(m, wire) = CipherTo(records, Len(records))
Partial(records, m, R) == m.in # <<>> => Len(m.in) <= records[R + 1].size

\* The records: the handshake comes first, and more only makes the streams longer.
RecordsOK(records) ==
  /\ records \in Seq(RecordType)
  /\ \A r \in 1 .. Len(records) : records[r].kind = "handshake" <=> r = 1
  /\ \A k \in 0 .. Len(records) :
       /\ SeqExt!IsPrefix(CipherTo(records, k), CipherTo(records, Len(records)))
       /\ SeqExt!IsPrefix(PlainTo(records, k), PlainTo(records, Len(records)))

Small(records) == \A r \in DOMAIN records : records[r].size <= ReadSize

Reasons == {"none", "nobufs", "eof", "tls", "notify", "parse", "frames"}

InputType ==
  /\ ti_mb \in MbType /\ ti_wire \in Seq(Pairs) /\ ti_buffer \in Seq(Pairs)
  /\ ti_parsed \in Seq(Pairs)
  /\ ti_conn \in [state : {"handshake", "http", "ws", "closed"}, why : Reasons,
                  at : {"idle", "handshake", "http", "parse", "ws"}, filled : BOOLEAN]

\* Where an open connection stands.
Progress ==
  \E R \in 0 .. Len(ti_records) :
    /\ After(ti_records, ti_wire, ti_mb, R) /\ Partial(ti_records, ti_mb, R)
    /\ (ti_parsed \o ti_buffer) \o ti_mb.out = PlainTo(ti_records, R)
    /\ R = 0 <=> ti_conn.state = "handshake"

Drained(m) == m.out = <<>> /\ m.cipher = <<>>

\* What the places in the callbacks know.
Places ==
  /\ ti_conn.at \in {"idle", ti_conn.state} \/ (ti_conn.state = "http" /\ ti_conn.at = "parse")
  /\ ti_conn.at \notin {"http", "parse"} => ti_buffer = <<>>
  /\ ti_conn.at = "http" => Len(ti_buffer) < ReadSize
  /\ ti_conn.at = "parse" => Len(ti_buffer) >= ReadSize \/ Drained(ti_mb)
  /\ ti_conn.at = "idle" /\ ti_conn.state # "handshake" => ti_conn.filled \/ Drained(ti_mb)
  /\ ti_conn.state = "handshake" => ti_mb.out = <<>>
  /\ Len(ti_mb.cipher) <= ReadSize

\* With no record larger than tls_cipher_buf, it has room when a callback is done.
Room ==
  /\ Len(ti_mb.out) < ReadSize
  /\ ti_conn.at \in {"idle", "parse"} => Len(ti_mb.cipher) < ReadSize
  /\ ti_conn.at = "http" =>
       Len(ti_mb.cipher) < ReadSize \/ Len(ti_buffer) + Len(ti_mb.out) < ReadSize

InputInv ==
  /\ InputType /\ RecordsOK(ti_records)
  /\ SeqExt!IsPrefix(ti_parsed \o ti_buffer, PlainTo(ti_records, Len(ti_records)))
  /\ ti_conn.why = "nobufs" => ~Small(ti_records)
  /\ ti_conn.state = "closed" => ti_conn.at = "idle"
  /\ ti_conn.state # "closed" => Progress /\ Places /\ (Small(ti_records) => Room)

\* The streams, one record at a time.
LEMMA StreamFacts ==
  ASSUME NEW records \in Seq(RecordType)
  PROVE  LET n == Len(records) IN
         /\ n \in Nat
         /\ \A k \in 0 .. n : CipherTo(records, k) \in Seq(Pairs) /\ PlainTo(records, k) \in Seq(Pairs)
         /\ \A k \in 0 .. n - 1 :
              /\ records[k + 1] \in RecordType
              /\ CipherRow(k + 1, records[k + 1].size) \in Seq(Pairs)
              /\ Len(CipherRow(k + 1, records[k + 1].size)) = records[k + 1].size + 1
              /\ PlainRow(k + 1, records[k + 1]) \in Seq(Pairs)
              /\ CipherTo(records, k + 1) =
                   CipherTo(records, k) \o CipherRow(k + 1, records[k + 1].size)
              /\ PlainTo(records, k + 1) = PlainTo(records, k) \o PlainRow(k + 1, records[k + 1])
<1> DEFINE n == Len(records)
           c == Ciphers(records)
           p == Plains(records)
<1>1. n \in Nat /\ DOMAIN records = 1 .. n /\ \A r \in 1 .. n : records[r] \in RecordType
  BY LenProperties, ElementOfSeq
<1>2. ASSUME NEW r \in 1 .. n
      PROVE  /\ c[r] = CipherRow(r, records[r].size) /\ c[r] \in Seq(Pairs)
             /\ Len(c[r]) = records[r].size + 1
             /\ p[r] = PlainRow(r, records[r]) /\ p[r] \in Seq(Pairs)
  <2> DEFINE size == records[r].size
  <2>1. size \in Nat /\ r \in Nat BY <1>1, <1>2 DEF RecordType
  <2>2. c[r] = CipherRow(r, size) /\ p[r] = PlainRow(r, records[r])
    BY <1>1, <1>2 DEF Ciphers, Plains
  <2> HIDE DEF size
  <2>3. CipherRow(r, size) \in [1 .. size + 1 -> Pairs] BY <2>1 DEF CipherRow, Pairs
  <2>4. CipherRow(r, size) \in Seq(Pairs)
    <3>1. size + 1 \in Nat BY <2>1
    <3> QED BY <2>3, <3>1, SeqDef
  <2>5. Len(CipherRow(r, size)) = size + 1 BY <2>1, <2>3, <2>4, LenProperties
  <2>6. PlainRow(r, records[r]) \in Seq(Pairs)
    <3>1. Row(r, size) \in Seq(Pairs) BY <2>1, RowIs
    <3>2. <<>> \in Seq(Pairs) OBVIOUS
    <3> QED BY <3>1, <3>2 DEF PlainRow, size
  <2> QED BY <2>2, <2>4, <2>5, <2>6 DEF size
<1> HIDE DEF c, p
<1>3. ASSUME NEW k \in 0 .. n
      PROVE  CipherTo(records, k) \in Seq(Pairs) /\ PlainTo(records, k) \in Seq(Pairs)
  <2>1. k \in Nat BY <1>1, <1>3
  <2> HIDE DEF n
  <2>2. ASSUME NEW r \in 1 .. k PROVE c[r] \in Seq(Pairs) /\ p[r] \in Seq(Pairs)
    <3>1. r \in 1 .. n BY <1>1, <2>1
    <3> QED BY <1>2, <3>1
  <2> QED BY <2>1, <2>2, FirstSeq DEF CipherTo, PlainTo, c, p
<1>4. ASSUME NEW k \in 0 .. n - 1
      PROVE  /\ records[k + 1] \in RecordType
             /\ CipherRow(k + 1, records[k + 1].size) \in Seq(Pairs)
             /\ Len(CipherRow(k + 1, records[k + 1].size)) = records[k + 1].size + 1
             /\ PlainRow(k + 1, records[k + 1]) \in Seq(Pairs)
             /\ CipherTo(records, k + 1) =
                  CipherTo(records, k) \o CipherRow(k + 1, records[k + 1].size)
             /\ PlainTo(records, k + 1) = PlainTo(records, k) \o PlainRow(k + 1, records[k + 1])
  <2>1. k \in Nat /\ k + 1 \in 1 .. n BY <1>1, <1>4
  <2> HIDE DEF n
  <2>2. ASSUME NEW r \in 1 .. k + 1 PROVE c[r] \in Seq(Pairs) /\ p[r] \in Seq(Pairs)
    <3>1. r \in 1 .. n BY <1>1, <2>1
    <3> QED BY <1>2, <3>1
  <2>3. FirstOf(c, k + 1) = FirstOf(c, k) \o c[k + 1] BY <2>1, <2>2, FirstNext
  <2>4. FirstOf(p, k + 1) = FirstOf(p, k) \o p[k + 1] BY <2>1, <2>2, FirstNext
  <2> QED BY <1>1, <1>2, <2>1, <2>3, <2>4 DEF CipherTo, PlainTo, c, p, n
<1> QED BY <1>1, <1>3, <1>4

\* The ciphertext that is left begins with the next record.
LEMMA NextRecord ==
  ASSUME NEW records, RecordsOK(records), NEW wire \in Seq(Pairs), NEW m \in MbType, NEW R,
         After(records, wire, m, R), NEW U, U = Unread(m, wire), U # <<>>
  PROVE  /\ R \in 0 .. Len(records) - 1 /\ U \in Seq(Pairs)
         /\ records[R + 1].size + 1 <= Len(U)
         /\ \A j \in 1 .. records[R + 1].size + 1 : U[j] = <<R + 1, j - 1>>
<1> DEFINE n == Len(records)
           A == CipherTo(records, R)
           B == CipherTo(records, R + 1)
           N == CipherTo(records, n)
           row == CipherRow(R + 1, records[R + 1].size)
           size == records[R + 1].size
<1>1. records \in Seq(RecordType) /\ R \in 0 .. n BY DEF RecordsOK, After
<1>2. n \in Nat /\ A \in Seq(Pairs) /\ N \in Seq(Pairs)
  <2>1. n \in Nat /\ \A k \in 0 .. n : CipherTo(records, k) \in Seq(Pairs) BY <1>1, StreamFacts
  <2>2. n \in 0 .. n BY <2>1
  <2> QED BY <1>1, <2>1, <2>2
<1>3. U \in Seq(Pairs)
  <2>1. m.in \in Seq(Pairs) /\ m.cipher \in Seq(Pairs) BY DEF MbType
  <2>2. m.cipher \o wire \in Seq(Pairs) BY <2>1, ConcatProperties
  <2>3. m.in \o (m.cipher \o wire) \in Seq(Pairs) BY <2>1, <2>2, ConcatProperties
  <2> QED BY <2>3 DEF Unread
<1>4. A \o U = N BY DEF After
<1> HIDE DEF A, N, n
<1>5. /\ Len(A) \in Nat /\ Len(U) \in Nat /\ Len(U) # 0 /\ Len(N) = Len(A) + Len(U)
      /\ \A i \in 1 .. Len(A) + Len(U) : N[i] = IF i <= Len(A) THEN A[i] ELSE U[i - Len(A)]
  <2>1. Len(A) \in Nat /\ Len(U) \in Nat BY <1>2, <1>3, LenProperties
  <2>2. Len(U) # 0 BY <1>3, EmptySeq
  <2> QED BY <1>2, <1>3, <1>4, <2>1, <2>2, ConcatProperties
<1>6. R \in 0 .. n - 1
  <2>1. R # n
    <3>1. SUFFICES ASSUME R = n PROVE FALSE OBVIOUS
    <3>2. A = N BY <3>1 DEF A, N
    <3> QED BY <1>5, <3>2
  <2> QED BY <1>1, <1>2, <2>1
<1>7. /\ records[R + 1] \in RecordType /\ row \in Seq(Pairs) /\ Len(row) = size + 1
      /\ B = A \o row
  BY <1>1, <1>6, StreamFacts DEF A, n
<1>8. size \in Nat BY <1>7 DEF RecordType
<1> HIDE DEF row, size, B
<1>9. /\ B \in Seq(Pairs) /\ Len(B) = Len(A) + (size + 1)
      /\ \A i \in 1 .. Len(A) + (size + 1) : B[i] = IF i <= Len(A) THEN A[i] ELSE row[i - Len(A)]
  <2>1. /\ A \o row \in Seq(Pairs) /\ Len(A \o row) = Len(A) + Len(row)
        /\ \A i \in 1 .. Len(A) + Len(row) :
             (A \o row)[i] = IF i <= Len(A) THEN A[i] ELSE row[i - Len(A)]
    BY <1>2, <1>7, ConcatProperties
  <2> QED BY <1>7, <2>1
<1>10. SeqExt!IsPrefix(B, N)
  <2>1. R + 1 \in 0 .. n BY <1>2, <1>6
  <2> QED BY <2>1 DEF RecordsOK, B, N, n
<1>11. Len(B) <= Len(N) /\ \A i \in 1 .. Len(B) : B[i] = N[i] BY <1>2, <1>9, <1>10, PrefixIs
<1>12. size + 1 <= Len(U) BY <1>5, <1>8, <1>9, <1>11
<1>13. ASSUME NEW j \in 1 .. size + 1 PROVE U[j] = <<R + 1, j - 1>>
  <2> DEFINE i == Len(A) + j
  <2>1. /\ i \in 1 .. Len(A) + Len(U) /\ i \in 1 .. Len(A) + (size + 1) /\ ~(i <= Len(A))
        /\ i - Len(A) = j
    BY <1>5, <1>8, <1>12, <1>13
  <2> HIDE DEF i
  <2>2. N[i] = U[j] /\ B[i] = row[j] /\ i \in 1 .. Len(B) BY <1>5, <1>9, <2>1
  <2>3. row[j] = <<R + 1, j - 1>> BY <1>13 DEF row, size, CipherRow
  <2> QED BY <1>11, <2>2, <2>3
<1> QED BY <1>3, <1>6, <1>12, <1>13 DEF n, size

\* mbedtls_bio_recv moves bytes from tls_cipher_buf to mbedtls, and none past.
LEMMA BioRecvIs ==
  ASSUME NEW m \in MbType, NEW n \in Nat
  PROVE  LET b == BioRecv(m, n)
             k == IF n <= Len(m.cipher) THEN n ELSE Len(m.cipher)
         IN  /\ b \in MbType /\ b.out = m.out
             /\ \A wire \in Seq(Pairs) : Unread(b, wire) = Unread(m, wire)
             /\ Len(b.in) = Len(m.in) + k /\ Len(b.cipher) = Len(m.cipher) - k
<1> DEFINE c == m.cipher
           k == IF n <= Len(c) THEN n ELSE Len(c)
           x == SubSeq(c, 1, k)
           y == SubSeq(c, k + 1, Len(c))
           b == [cipher |-> y, in |-> m.in \o x, out |-> m.out]
<1>1. c \in Seq(Pairs) /\ m.in \in Seq(Pairs) /\ m.out \in Seq(Pairs) /\ Len(c) \in Nat
  BY LenProperties DEF MbType
<1>2. Min({n, Len(c)}) = k /\ k \in 0 .. Len(c)
  <2> HIDE DEF c
  <2> QED BY <1>1, MinOfTwo
<1>3. BioRecv(m, n) = b
  <2>1. m = [cipher |-> c, in |-> m.in, out |-> m.out] BY DEF MbType
  <2>2. BioRecv(m, n) = [m EXCEPT !.in = m.in \o x, !.cipher = y] BY <1>2 DEF BioRecv
  <2> HIDE DEF x, y
  <2> QED BY <2>1, <2>2
<1>4. IsCut(c, k, x, y) BY DEF IsCut
<1> HIDE DEF c, k, x, y
<1>5. x \in Seq(Pairs) /\ Len(x) = k /\ y \in Seq(Pairs) /\ Len(y) = Len(c) - k
  BY <1>1, <1>2, <1>4, CutFacts
<1>6. x \o y = c BY <1>1, <1>2, <1>4, CutInTwo
<1>7. m.in \o x \in Seq(Pairs) /\ Len(m.in \o x) = Len(m.in) + k BY <1>1, <1>5, ConcatProperties
<1>8. ASSUME NEW wire \in Seq(Pairs) PROVE Unread(b, wire) = Unread(m, wire)
  <2>1. y \o wire \in Seq(Pairs) BY <1>5, <1>8, ConcatProperties
  <2>2. (m.in \o x) \o (y \o wire) = m.in \o (x \o (y \o wire))
    <3> DEFINE V == y \o wire
               u == m.in
    <3>1. u \in Seq(Pairs) /\ x \in Seq(Pairs) /\ V \in Seq(Pairs) BY <1>1, <1>5, <2>1
    <3> HIDE DEF u, V
    <3>2. (u \o x) \o V = u \o (x \o V) BY <3>1, ConcatAssociative
    <3> QED BY <3>2 DEF u, V
  <2>3. (x \o y) \o wire = x \o (y \o wire) BY <1>5, <1>8, ConcatAssociative
  <2>4. x \o (y \o wire) = c \o wire BY <1>6, <2>3
  <2>5. Unread(b, wire) = (m.in \o x) \o (y \o wire) BY DEF Unread
  <2>6. Unread(m, wire) = m.in \o (c \o wire) BY DEF Unread, c
  <2> QED BY <2>2, <2>4, <2>5, <2>6
<1>9. b \in MbType BY <1>1, <1>5, <1>7 DEF MbType
<1>10. b.out = m.out /\ Len(b.in) = Len(m.in) + k /\ Len(b.cipher) = Len(m.cipher) - k
  BY <1>5, <1>7 DEF c
<1> HIDE DEF b
<1> QED BY <1>3, <1>8, <1>9, <1>10 DEF c, k

\* What mbedtls has collected belongs to the next record.
LEMMA CollectedIs ==
  ASSUME RecordsOK(ti_records), ti_wire \in Seq(Pairs), NEW m \in MbType, NEW R,
         After(ti_records, ti_wire, m, R), m.in # <<>>
  PROVE  /\ R \in 0 .. Len(ti_records) - 1 /\ RecordOf(m) = ti_records[R + 1]
         /\ \A j \in 1 .. Len(m.in) :
              j <= ti_records[R + 1].size + 1 => m.in[j] = <<R + 1, j - 1>>
<1> DEFINE U == Unread(m, ti_wire)
           V == m.cipher \o ti_wire
           size == ti_records[R + 1].size
<1>1. m.in \in Seq(Pairs) /\ Len(m.in) \in Nat /\ Len(m.in) # 0 /\ V \in Seq(Pairs)
  <2>1. m.in \in Seq(Pairs) /\ m.cipher \in Seq(Pairs) BY DEF MbType
  <2> QED BY <2>1, LenProperties, EmptySeq, ConcatProperties
<1> HIDE DEF V
<1>2. /\ U \in Seq(Pairs) /\ Len(U) = Len(m.in) + Len(V)
      /\ \A i \in 1 .. Len(m.in) + Len(V) : U[i] = IF i <= Len(m.in) THEN m.in[i] ELSE V[i - Len(m.in)]
  <2>1. U = m.in \o V BY DEF Unread, V
  <2> HIDE DEF U
  <2> QED BY <1>1, <2>1, ConcatProperties
<1>3. U # <<>>
  <2>1. Len(V) \in Nat BY <1>1, LenProperties
  <2>2. Len(U) # 0 BY <1>1, <1>2, <2>1
  <2> QED BY <2>2
<1>4. /\ R \in 0 .. Len(ti_records) - 1
      /\ \A j \in 1 .. size + 1 : U[j] = <<R + 1, j - 1>>
  <2>1. U = Unread(m, ti_wire) OBVIOUS
  <2> HIDE DEF U
  <2> QED BY <1>3, <2>1, NextRecord
<1> HIDE DEF U
<1>5. size \in Nat
  <2>1. ti_records \in Seq(RecordType) BY DEF RecordsOK
  <2>2. ti_records[R + 1] \in RecordType BY <1>4, <2>1, StreamFacts
  <2> QED BY <2>2 DEF RecordType
<1>6. ASSUME NEW j \in 1 .. Len(m.in), j <= size + 1 PROVE m.in[j] = <<R + 1, j - 1>>
  <2>1. Len(V) \in Nat BY <1>1, LenProperties
  <2>2. j \in 1 .. Len(m.in) + Len(V) /\ j <= Len(m.in) /\ j \in 1 .. size + 1
    BY <1>1, <1>5, <1>6, <2>1
  <2> QED BY <1>2, <1>4, <2>2
<1>7. m.in[1] = <<R + 1, 0>>
  <2>1. 1 \in 1 .. Len(m.in) /\ 1 <= size + 1 /\ 1 - 1 = 0 BY <1>1, <1>5
  <2>2. m.in[1] = <<R + 1, 1 - 1>> BY <1>6, <2>1
  <2> QED BY <2>1, <2>2
<1>8. RecordOf(m) = ti_records[R + 1]
  <2>1. m.in[1][1] = R + 1 BY <1>7
  <2> QED BY <2>1 DEF RecordOf
<1> QED BY <1>4, <1>6, <1>8

\* mbedtls collects up to the end of the next record, or all there is.
LEMMA FetchedIs ==
  ASSUME RecordsOK(ti_records), ti_wire \in Seq(Pairs), NEW m \in MbType, NEW R,
         After(ti_records, ti_wire, m, R), Partial(ti_records, m, R)
  PROVE  LET f == Fetched(m) IN
         /\ f \in MbType /\ f.out = m.out /\ After(ti_records, ti_wire, f, R)
         /\ \/ /\ Complete(f) /\ R \in 0 .. Len(ti_records) - 1 /\ RecordOf(f) = ti_records[R + 1]
               /\ Len(f.in) = ti_records[R + 1].size + 1 /\ Len(f.cipher) < Len(m.cipher)
            \/ ~Complete(f) /\ f.cipher = <<>> /\ Partial(ti_records, f, R)
<1> DEFINE h == IF m.in = <<>> THEN BioRecv(m, 1) ELSE m
           size == ti_records[R + 1].size
<1>1. m.in \in Seq(Pairs) /\ m.cipher \in Seq(Pairs) /\ Len(m.in) \in Nat /\ Len(m.cipher) \in Nat
  BY LenProperties DEF MbType
<1>2. /\ h \in MbType /\ h.out = m.out /\ Unread(h, ti_wire) = Unread(m, ti_wire)
      /\ Len(h.cipher) <= Len(m.cipher)
      /\ h.in = <<>> => Len(h.cipher) = 0
      /\ h.in # <<>> => Len(h.in) = 1 \/ Len(h.in) <= size
      /\ h.in # <<>> => Len(h.in) >= 1
  <2>1. CASE m.in = <<>>
    <3>1. /\ h \in MbType /\ h.out = m.out /\ Unread(h, ti_wire) = Unread(m, ti_wire)
          /\ Len(h.in) = Len(m.in) + IF 1 <= Len(m.cipher) THEN 1 ELSE Len(m.cipher)
          /\ Len(h.cipher) = Len(m.cipher) - IF 1 <= Len(m.cipher) THEN 1 ELSE Len(m.cipher)
      BY <2>1, BioRecvIs
    <3> HIDE DEF h
    <3>2. Len(m.in) = 0 BY <2>1
    <3>3. h.in \in Seq(Pairs) /\ Len(h.in) \in Nat BY <3>1, LenProperties DEF MbType
    <3>4. h.in = <<>> <=> Len(h.in) = 0 BY <3>3, EmptySeq
    <3>5. CASE 1 <= Len(m.cipher)
      <4>1. Len(h.in) = 1 /\ Len(h.cipher) = Len(m.cipher) - 1 BY <3>1, <3>2, <3>5
      <4>2. h.in # <<>> /\ Len(h.cipher) <= Len(m.cipher) /\ Len(h.in) >= 1 BY <1>1, <3>4, <4>1
      <4> QED BY <3>1, <4>1, <4>2
    <3>6. CASE ~(1 <= Len(m.cipher))
      <4>1. Len(m.cipher) = 0 BY <1>1, <3>6
      <4>2. Len(h.in) = 0 /\ Len(h.cipher) = 0 BY <3>1, <3>2, <4>1
      <4> QED BY <1>1, <3>1, <3>4, <4>1, <4>2
    <3> QED BY <3>5, <3>6
  <2>2. CASE m.in # <<>>
    <3>1. h = m BY <2>2
    <3>2. Len(m.in) # 0 BY <1>1, <2>2, EmptySeq
    <3> QED BY <1>1, <2>2, <3>1, <3>2 DEF Partial
  <2> QED BY <2>1, <2>2
<1>3. After(ti_records, ti_wire, h, R) BY <1>2 DEF After
<1>4. Fetched(m) = IF h.in = <<>> THEN h ELSE BioRecv(h, RecordOf(h).size + 1 - Len(h.in))
  BY DEF Fetched
<1> HIDE DEF h
<1>5. h.in \in Seq(Pairs) /\ h.cipher \in Seq(Pairs) /\ Len(h.in) \in Nat /\ Len(h.cipher) \in Nat
  BY <1>2, LenProperties DEF MbType
<1>6. CASE h.in = <<>>
  <2>1. Fetched(m) = h /\ h.cipher = <<>>
    <3>1. h.cipher = <<>> BY <1>2, <1>5, <1>6, EmptySeq
    <3> QED BY <1>4, <1>6, <3>1
  <2>2. ~Complete(h) /\ Partial(ti_records, h, R) BY <1>6 DEF Complete, Partial
  <2> QED BY <1>2, <1>3, <2>1, <2>2
<1>7. CASE h.in # <<>>
  <2>1. R \in 0 .. Len(ti_records) - 1 /\ RecordOf(h) = ti_records[R + 1]
    BY <1>2, <1>3, <1>7, CollectedIs
  <2>2. size \in Nat /\ size >= 1
    <3>1. ti_records \in Seq(RecordType) BY DEF RecordsOK
    <3>2. ti_records[R + 1] \in RecordType BY <2>1, <3>1, StreamFacts
    <3> QED BY <3>2 DEF RecordType
  <2> DEFINE n == size + 1 - Len(h.in)
             f == BioRecv(h, n)
             k == IF n <= Len(h.cipher) THEN n ELSE Len(h.cipher)
  <2>3. n \in Nat /\ n >= 1
    <3>1. Len(h.in) <= size BY <1>2, <1>7, <2>2
    <3> HIDE DEF size
    <3> QED BY <1>5, <2>2, <3>1
  <2>4. Fetched(m) = f BY <1>4, <1>7, <2>1
  <2>5. /\ f \in MbType /\ f.out = h.out /\ Unread(f, ti_wire) = Unread(h, ti_wire)
        /\ Len(f.in) = Len(h.in) + k /\ Len(f.cipher) = Len(h.cipher) - k
    <3> HIDE DEF n
    <3> QED BY <1>2, <2>3, BioRecvIs
  <2> HIDE DEF f
  <2>6. After(ti_records, ti_wire, f, R) BY <1>3, <2>5 DEF After
  <2>7. f.in \in Seq(Pairs) /\ f.cipher \in Seq(Pairs) BY <2>5 DEF MbType
  <2> HIDE DEF size
  <2>8. f.in # <<>>
    <3>1. Len(f.in) # 0 BY <1>2, <1>5, <1>7, <2>3, <2>5
    <3> QED BY <3>1
  <2>9. RecordOf(f) = ti_records[R + 1] BY <2>5, <2>6, <2>8, CollectedIs
  <2>10. CASE n <= Len(h.cipher)
    <3>1. Len(f.in) = size + 1 BY <1>5, <2>2, <2>3, <2>5, <2>10
    <3>2. Len(f.cipher) < Len(m.cipher) BY <1>1, <1>2, <1>5, <2>3, <2>5, <2>10
    <3>3. Complete(f) BY <2>8, <2>9, <3>1 DEF Complete, size
    <3> QED BY <1>2, <2>1, <2>4, <2>5, <2>6, <2>9, <3>1, <3>2, <3>3 DEF size
  <2>11. CASE ~(n <= Len(h.cipher))
    <3>1. Len(f.in) <= size /\ Len(f.cipher) = 0
      <4>1. k = Len(h.cipher) BY <2>11
      <4> HIDE DEF k
      <4>2. Len(f.in) = Len(h.in) + Len(h.cipher) /\ Len(f.cipher) = Len(h.cipher) - Len(h.cipher)
        BY <2>5, <4>1
      <4>3. Len(h.in) + Len(h.cipher) <= size
        <5>1. \A a, b, s \in Nat : ~(s + 1 - a <= b) => a + b <= s OBVIOUS
        <5>2. ~(size + 1 - Len(h.in) <= Len(h.cipher)) BY <2>11
        <5>3. size \in Nat BY <2>2
        <5> QED BY <1>5, <5>1, <5>2, <5>3
      <4>4. Len(f.in) <= size BY <4>2, <4>3
      <4>5. Len(f.cipher) = 0 BY <1>5, <4>2
      <4> QED BY <4>4, <4>5
    <3>2. f.cipher = <<>> BY <2>7, <3>1, EmptySeq
    <3>3. ~Complete(f) BY <2>2, <2>9, <3>1 DEF Complete, size
    <3>4. Partial(ti_records, f, R) BY <3>1 DEF Partial, size
    <3> QED BY <1>2, <2>4, <2>5, <2>6, <3>2, <3>3, <3>4
  <2> QED BY <2>10, <2>11
<1> QED BY <1>6, <1>7

\* A whole record leaves the next ones.
LEMMA RecordTaken ==
  ASSUME RecordsOK(ti_records), ti_wire \in Seq(Pairs), NEW f \in MbType, NEW R,
         After(ti_records, ti_wire, f, R), f.in # <<>>, Len(f.in) = ti_records[R + 1].size + 1,
         NEW g \in MbType, g.in = <<>>, g.cipher = f.cipher
  PROVE  /\ f.in = CipherRow(R + 1, ti_records[R + 1].size)
         /\ After(ti_records, ti_wire, g, R + 1) /\ Partial(ti_records, g, R + 1)
<1> DEFINE n == Len(ti_records)
           size == ti_records[R + 1].size
           row == CipherRow(R + 1, size)
           A == CipherTo(ti_records, R)
           V == f.cipher \o ti_wire
<1>1. /\ R \in 0 .. n - 1
      /\ \A j \in 1 .. Len(f.in) : j <= size + 1 => f.in[j] = <<R + 1, j - 1>>
  BY CollectedIs
<1>2. ti_records \in Seq(RecordType) BY DEF RecordsOK
<1>3. /\ n \in Nat /\ ti_records[R + 1] \in RecordType /\ row \in Seq(Pairs)
      /\ Len(row) = size + 1 /\ CipherTo(ti_records, R + 1) = A \o row
  BY <1>1, <1>2, StreamFacts
<1>4. size \in Nat BY <1>3 DEF RecordType
<1>5. f.in \in Seq(Pairs) /\ f.cipher \in Seq(Pairs) BY DEF MbType
<1>6. f.in = row
  <2>1. \A j \in 1 .. size + 1 : row[j] = <<R + 1, j - 1>> BY DEF CipherRow
  <2> HIDE DEF row, size
  <2>2. Len(f.in) = size + 1 BY DEF size
  <2>3. ASSUME NEW j \in 1 .. size + 1 PROVE f.in[j] = row[j]
    <3>1. j \in 1 .. Len(f.in) /\ j <= size + 1 BY <1>4, <2>2, <2>3
    <3> QED BY <1>1, <2>1, <2>3, <3>1 DEF size
  <2> QED BY <1>3, <1>5, <2>2, <2>3, SeqEqual
<1>7. V \in Seq(Pairs) BY <1>5, ConcatProperties
<1>8. A \in Seq(Pairs)
  <2>1. R \in 0 .. n BY <1>1, <1>3
  <2> QED BY <1>2, <2>1, StreamFacts
<1>9. Unread(g, ti_wire) = V
  <2>1. Unread(g, ti_wire) = <<>> \o V BY DEF Unread
  <2> HIDE DEF V
  <2>2. <<>> \o V = V BY <1>7, ConcatEmptySeq
  <2> QED BY <2>1, <2>2
<1>10. Unread(f, ti_wire) = row \o V BY <1>6 DEF Unread
<1> HIDE DEF row, A, V
<1>11. (A \o row) \o V = A \o (row \o V)
  <2>1. A \in Seq(Pairs) /\ row \in Seq(Pairs) /\ V \in Seq(Pairs) BY <1>3, <1>7, <1>8
  <2> QED BY ONLY <2>1, ConcatAssociative
<1>12. A \o Unread(f, ti_wire) = CipherTo(ti_records, n) BY DEF After, A
<1>13. CipherTo(ti_records, R + 1) \o Unread(g, ti_wire) = CipherTo(ti_records, n)
  BY <1>3, <1>9, <1>10, <1>11, <1>12
<1>14. R + 1 \in 0 .. n BY <1>1, <1>3
<1> QED BY <1>6, <1>13, <1>14 DEF After, Partial, row

\* The bytes d that mbedtls_ssl_read returns come next, and rm is what is left.
Continues(m, R, d, rm) ==
  \E Q \in 1 .. Len(ti_records) :
    /\ After(ti_records, ti_wire, rm, Q) /\ Partial(ti_records, rm, Q)
    /\ \A p \in Seq(Pairs) : p \o m.out = PlainTo(ti_records, R) =>
                               (p \o d) \o rm.out = PlainTo(ti_records, Q)

\* They come from the last record, or from a new one.
Consumes(m, d, rm) ==
  \/ rm.cipher = m.cipher /\ Len(d) + Len(rm.out) = Len(m.out)
  \/ Len(rm.cipher) < Len(m.cipher) /\ (Small(ti_records) => Len(rm.out) < ReadSize)

\* mbedtls_ssl_read into n bytes.
LEMMA SslReadIs ==
  ASSUME RecordsOK(ti_records), ti_wire \in Seq(Pairs), NEW m \in MbType, NEW R,
         After(ti_records, ti_wire, m, R), Partial(ti_records, m, R), R # 0, NEW n \in Nat, n # 0
  PROVE  LET r == SslRead(m, n) IN
         /\ r.ret \in {"want", "notify", "data"} /\ r.m \in MbType
         /\ r.ret = "want" =>
              /\ m.out = <<>> /\ Drained(r.m)
              /\ After(ti_records, ti_wire, r.m, R) /\ Partial(ti_records, r.m, R)
         /\ r.ret = "data" =>
              /\ r.data \in Seq(Pairs) /\ Len(r.data) <= n
              /\ Consumes(m, r.data, r.m) /\ Continues(m, R, r.data, r.m)
<1> DEFINE f == Fetched(m)
           d == IF m.out # <<>> THEN m.out ELSE SubSeq(f.in, 2, Len(f.in))
           e == IF m.out # <<>> THEN m ELSE f
           k == IF n <= Len(d) THEN n ELSE Len(d)
           x == SubSeq(d, 1, k)
           y == SubSeq(d, k + 1, Len(d))
           rm == [cipher |-> e.cipher, in |-> IF m.out = <<>> THEN <<>> ELSE e.in, out |-> y]
           N == Len(ti_records)
<1>1. /\ m.in \in Seq(Pairs) /\ m.cipher \in Seq(Pairs) /\ m.out \in Seq(Pairs)
      /\ m = [cipher |-> m.cipher, in |-> m.in, out |-> m.out]
  BY DEF MbType
<1>2. /\ f \in MbType /\ f.out = m.out /\ After(ti_records, ti_wire, f, R)
      /\ \/ /\ Complete(f) /\ R \in 0 .. N - 1 /\ RecordOf(f) = ti_records[R + 1]
            /\ Len(f.in) = ti_records[R + 1].size + 1 /\ Len(f.cipher) < Len(m.cipher)
         \/ ~Complete(f) /\ f.cipher = <<>> /\ Partial(ti_records, f, R)
  BY FetchedIs
<1>3. R \in 1 .. N /\ N \in Nat
  <2>1. R \in 0 .. N BY DEF After
  <2>2. N \in Nat BY LenProperties DEF RecordsOK
  <2> QED BY <2>1, <2>2
<1>4. CASE m.out = <<>> /\ ~Complete(f)
  <2>1. SslRead(m, n) = [ret |-> "want", m |-> f, data |-> <<>>] BY <1>4 DEF SslRead
  <2> HIDE DEF f
  <2> QED BY <1>2, <1>4, <2>1 DEF Drained
<1>5. CASE m.out = <<>> /\ Complete(f) /\ RecordOf(f).kind = "notify"
  <2>1. SslRead(m, n) = [ret |-> "notify", m |-> f, data |-> <<>>] BY <1>5 DEF SslRead
  <2> HIDE DEF f
  <2> QED BY <1>2, <2>1
<1>6. ASSUME d \in Seq(Pairs)
      PROVE  /\ x \in Seq(Pairs) /\ Len(x) = k /\ y \in Seq(Pairs) /\ Len(y) = Len(d) - k
             /\ k \in Nat /\ k <= n /\ k <= Len(d) /\ (Len(d) # 0 => k # 0) /\ Len(d) \in Nat
             /\ \A p \in Seq(Pairs) : (p \o x) \o y = p \o d
             /\ Min({n, Len(d)}) = k
  <2>1. Len(d) \in Nat BY <1>6, LenProperties
  <2> HIDE DEF d
  <2>2. /\ k \in Nat /\ k <= n /\ k <= Len(d) /\ (Len(d) # 0 => k # 0) /\ k \in 0 .. Len(d)
        /\ Min({n, Len(d)}) = k
    BY <2>1, MinOfTwo
  <2>3. IsCut(d, k, x, y) BY DEF IsCut
  <2> HIDE DEF k, x, y
  <2>4. x \in Seq(Pairs) /\ Len(x) = k /\ y \in Seq(Pairs) /\ Len(y) = Len(d) - k
    BY <1>6, <2>2, <2>3, CutFacts
  <2>5. x \o y = d BY <1>6, <2>2, <2>3, CutInTwo
  <2>6. ASSUME NEW p \in Seq(Pairs) PROVE (p \o x) \o y = p \o d
    <3>1. x \in Seq(Pairs) /\ y \in Seq(Pairs) /\ p \in Seq(Pairs) BY <2>4, <2>6
    <3>2. (p \o x) \o y = p \o (x \o y) BY <3>1, ConcatAssociative
    <3> QED BY <2>5, <3>2
  <2> QED BY <2>1, <2>2, <2>4, <2>6
<1>7. ASSUME d \in Seq(Pairs), m.out # <<>> \/ (Complete(f) /\ RecordOf(f).kind # "notify")
      PROVE  SslRead(m, n) = [ret |-> "data", data |-> x, m |-> rm]
  <2>1. Min({n, Len(d)}) = k BY <1>6, <1>7
  <2> QED BY <1>7, <2>1 DEF SslRead
<1>8. CASE m.out # <<>>
  <2>1. d = m.out /\ e = m BY <1>8
  <2>2. d \in Seq(Pairs) BY <1>1, <2>1
  <2>3. SslRead(m, n) = [ret |-> "data", data |-> x, m |-> rm]
    <3> HIDE DEF d, x, rm, f
    <3>1. m.out # <<>> \/ (Complete(f) /\ RecordOf(f).kind # "notify") BY <1>8
    <3> QED BY <1>7, <2>2, <3>1, Zenon
  <2>4. rm = [cipher |-> m.cipher, in |-> m.in, out |-> y] BY <1>8, <2>1
  <2>5. /\ x \in Seq(Pairs) /\ Len(x) = k /\ y \in Seq(Pairs) /\ Len(y) = Len(d) - k
        /\ k \in Nat /\ k <= n /\ k <= Len(d) /\ Len(d) \in Nat
        /\ \A p \in Seq(Pairs) : (p \o x) \o y = p \o d
    BY <1>6, <2>2
  <2> HIDE DEF d, e, k, x, y, rm
  <2>6. rm \in MbType /\ rm.cipher = m.cipher /\ rm.in = m.in /\ rm.out = y
    BY <1>1, <2>4, <2>5 DEF MbType
  <2>7. After(ti_records, ti_wire, rm, R) /\ Partial(ti_records, rm, R)
    BY <2>6 DEF After, Partial, Unread
  <2>8. Len(x) + Len(rm.out) = Len(m.out) BY <2>1, <2>5, <2>6
  <2>9. Len(x) <= n BY <2>5
  <2>10. \A p \in Seq(Pairs) : p \o m.out = PlainTo(ti_records, R) =>
                                 (p \o x) \o rm.out = PlainTo(ti_records, R)
    BY <2>1, <2>5, <2>6
  <2>11. Continues(m, R, x, rm) BY <1>3, <2>7, <2>10 DEF Continues
  <2>12. Consumes(m, x, rm) BY <2>6, <2>8 DEF Consumes
  <2>13. SslRead(m, n).ret = "data" /\ SslRead(m, n).data = x /\ SslRead(m, n).m = rm BY <2>3
  <2> QED BY <2>5, <2>6, <2>9, <2>11, <2>12, <2>13
<1>9. CASE m.out = <<>> /\ Complete(f) /\ RecordOf(f).kind # "notify"
  <2> DEFINE size == ti_records[R + 1].size
  <2>1. /\ R \in 0 .. N - 1 /\ RecordOf(f) = ti_records[R + 1] /\ Len(f.in) = size + 1
        /\ Len(f.cipher) < Len(m.cipher) /\ f.in # <<>>
    BY <1>2, <1>9 DEF Complete
  <2>2. ti_records \in Seq(RecordType) BY DEF RecordsOK
  <2>3. /\ ti_records[R + 1] \in RecordType /\ PlainRow(R + 1, ti_records[R + 1]) \in Seq(Pairs)
        /\ PlainTo(ti_records, R + 1) = PlainTo(ti_records, R) \o PlainRow(R + 1, ti_records[R + 1])
    BY <2>1, <2>2, StreamFacts
  <2>4. R + 1 \in 1 .. N /\ R + 1 # 1 BY <1>3, <2>1
  <2>5. ti_records[R + 1].kind = "data" /\ size \in Nat /\ size # 0
    <3>1. ti_records[R + 1].kind # "handshake" BY <2>4 DEF RecordsOK
    <3>2. ti_records[R + 1].kind # "notify" BY <1>9, <2>1
    <3> QED BY <2>3, <3>1, <3>2 DEF RecordType
  <2>6. PlainRow(R + 1, ti_records[R + 1]) = Row(R + 1, size) BY <2>5 DEF PlainRow
  <2>7. d = SubSeq(f.in, 2, Len(f.in)) /\ e = f BY <1>9
  <2>8. f.in \in Seq(Pairs) /\ f.cipher \in Seq(Pairs) BY <1>2 DEF MbType
  <2>9. d \in Seq(Pairs) /\ Len(d) = size /\ \A i \in 1 .. size : d[i] = f.in[1 + i]
    <3> DEFINE b == f.in
    <3>1. IsCut(b, 1, SubSeq(b, 1, 1), d)
      <4>1. 1 + 1 = 2 OBVIOUS
      <4> QED BY <2>7, <4>1 DEF IsCut
    <3> HIDE DEF f, d, size
    <3>2. b \in Seq(Pairs) /\ Len(b) = size + 1 /\ 1 \in 0 .. Len(b) BY <2>1, <2>5, <2>8
    <3> HIDE DEF b
    <3>3. /\ d \in Seq(Pairs) /\ Len(d) = Len(b) - 1
          /\ \A i \in 1 .. Len(b) - 1 : d[i] = b[1 + i]
      BY <3>1, <3>2, CutFacts
    <3>4. Len(b) - 1 = size BY <2>5, <3>2
    <3> QED BY <3>3, <3>4 DEF b
  <2>10. SslRead(m, n) = [ret |-> "data", data |-> x, m |-> rm]
    <3> HIDE DEF d, x, rm, f
    <3> QED BY <1>7, <1>9, <2>9
  <2>11. rm = [cipher |-> f.cipher, in |-> <<>>, out |-> y] BY <1>9, <2>7
  <2>12. /\ x \in Seq(Pairs) /\ Len(x) = k /\ y \in Seq(Pairs) /\ Len(y) = Len(d) - k
         /\ k \in Nat /\ k <= n /\ k <= Len(d) /\ (Len(d) # 0 => k # 0)
         /\ \A p \in Seq(Pairs) : (p \o x) \o y = p \o d
    BY <1>6, <2>9
  <2> HIDE DEF f, d, e, k, x, y, rm
  <2>13. rm \in MbType /\ rm.cipher = f.cipher /\ rm.in = <<>> /\ rm.out = y
    <3>1. <<>> \in Seq(Pairs) OBVIOUS
    <3> QED BY <2>8, <2>11, <2>12, <3>1 DEF MbType
  <2>14. /\ f.in = CipherRow(R + 1, size)
         /\ After(ti_records, ti_wire, rm, R + 1) /\ Partial(ti_records, rm, R + 1)
    BY <1>2, <2>1, <2>13, RecordTaken
  <2> HIDE DEF size
  <2>15. d = Row(R + 1, size)
    <3>1. ASSUME NEW i \in 1 .. size PROVE d[i] = <<R + 1, i>>
      <4>1. 1 + i \in 1 .. size + 1 /\ (1 + i) - 1 = i BY <2>5, <3>1
      <4>2. f.in[1 + i] = <<R + 1, (1 + i) - 1>> BY <2>14, <4>1 DEF CipherRow
      <4> QED BY <2>9, <3>1, <4>1, <4>2
    <3>2. Row(R + 1, size) \in Seq(Pairs) /\ Len(Row(R + 1, size)) = size
      <4>1. R + 1 \in Nat BY <2>4
      <4> QED BY <2>5, <4>1, RowIs
    <3>3. \A i \in 1 .. size : Row(R + 1, size)[i] = <<R + 1, i>> BY DEF Row
    <3> QED BY <2>9, <3>1, <3>2, <3>3, SeqEqual
  <2>16. ASSUME NEW p \in Seq(Pairs), p \o m.out = PlainTo(ti_records, R)
         PROVE  (p \o x) \o rm.out = PlainTo(ti_records, R + 1)
    <3>1. p = PlainTo(ti_records, R) BY <1>9, <2>16, ConcatEmptySeq
    <3>2. (p \o x) \o y = p \o d BY <2>12, <2>16
    <3> QED BY <2>3, <2>6, <2>13, <2>15, <3>1, <3>2
  <2>17. Small(ti_records) => Len(rm.out) < ReadSize
    <3>1. Len(rm.out) < size BY <2>5, <2>9, <2>12, <2>13
    <3>2. R + 1 \in DOMAIN ti_records BY <2>2, <2>4, LenProperties
    <3>3. Small(ti_records) => size <= ReadSize BY <3>2 DEF Small, size
    <3>4. Len(rm.out) \in Nat BY <2>12, <2>13, LenProperties
    <3> QED BY <2>5, <3>1, <3>3, <3>4, TlsInputAssumption
  <2>18. Len(x) <= n BY <2>12
  <2>19. Continues(m, R, x, rm) BY <2>4, <2>14, <2>16 DEF Continues
  <2>20. Consumes(m, x, rm) BY <2>1, <2>13, <2>17 DEF Consumes
  <2>21. SslRead(m, n).ret = "data" /\ SslRead(m, n).data = x /\ SslRead(m, n).m = rm BY <2>10
  <2> QED BY <2>12, <2>13, <2>18, <2>19, <2>20, <2>21
<1> QED BY <1>4, <1>5, <1>8, <1>9

-----------------------------------------------------------------------------
(* The steps.                                                              *)

\* A prefix stays one.
LEMMA PrefixGrows ==
  ASSUME NEW a \in Seq(Pairs), NEW b \in Seq(Pairs), NEW c \in Seq(Pairs), SeqExt!IsPrefix(a, b)
  PROVE  SeqExt!IsPrefix(a, b \o c) /\ SeqExt!IsPrefix(b \o c, b \o c)
<1> DEFINE d == b \o c
<1>1. /\ d \in Seq(Pairs) /\ Len(d) = Len(b) + Len(c)
      /\ \A i \in 1 .. Len(b) + Len(c) : d[i] = IF i <= Len(b) THEN b[i] ELSE c[i - Len(b)]
  BY ConcatProperties
<1>2. Len(a) \in Nat /\ Len(b) \in Nat /\ Len(c) \in Nat BY LenProperties
<1>3. Len(a) <= Len(b) /\ \A i \in 1 .. Len(a) : a[i] = b[i] BY PrefixIs
<1> HIDE DEF d
<1>4. ASSUME NEW i \in 1 .. Len(a) PROVE a[i] = d[i]
  <2>1. i \in 1 .. Len(b) + Len(c) /\ i <= Len(b) BY <1>2, <1>3
  <2> QED BY <1>1, <1>3, <2>1
<1>5. Len(a) <= Len(d) /\ Len(d) <= Len(d) BY <1>1, <1>2, <1>3
<1>6. SeqExt!IsPrefix(a, d) BY <1>1, <1>4, <1>5, PrefixIs
<1>7. SeqExt!IsPrefix(d, d) BY <1>1, <1>5, PrefixIs
<1> QED BY <1>6, <1>7 DEF d

\* What mbedtls has decrypted begins what the peer sent.
LEMMA DecryptedIsSent ==
  ASSUME NEW records, RecordsOK(records), NEW Q \in 0 .. Len(records),
         NEW a \in Seq(Pairs), NEW b \in Seq(Pairs), a \o b = PlainTo(records, Q)
  PROVE  SeqExt!IsPrefix(a, PlainTo(records, Len(records)))
<1> DEFINE c == PlainTo(records, Q)
           d == PlainTo(records, Len(records))
<1>1. records \in Seq(RecordType) /\ SeqExt!IsPrefix(c, d) BY DEF RecordsOK
<1>2. c \in Seq(Pairs) /\ d \in Seq(Pairs)
  <2>1. Len(records) \in 0 .. Len(records) BY <1>1, LenProperties
  <2> QED BY <1>1, <2>1, StreamFacts
<1>3. a \o b = c OBVIOUS
<1> HIDE DEF c, d
<1>4. Len(c) <= Len(d) /\ \A i \in 1 .. Len(c) : c[i] = d[i]
  <2>1. SeqExt!IsPrefix(c, d) <=> Len(c) <= Len(d) /\ \A i \in 1 .. Len(c) : c[i] = d[i]
    BY ONLY <1>2, PrefixIs
  <2> QED BY ONLY <1>1, <2>1
<1>5. /\ Len(c) = Len(a) + Len(b)
      /\ \A i \in 1 .. Len(a) + Len(b) : c[i] = IF i <= Len(a) THEN a[i] ELSE b[i - Len(a)]
  BY <1>3, ConcatProperties
<1>6. Len(a) \in Nat /\ Len(b) \in Nat /\ Len(d) \in Nat BY <1>2, LenProperties
<1>7. ASSUME NEW i \in 1 .. Len(a) PROVE a[i] = d[i]
  <2>1. i \in 1 .. Len(a) + Len(b) /\ i <= Len(a) BY <1>6, <1>7
  <2> QED BY <1>4, <1>5, <2>1
<1>8. Len(a) <= Len(d) BY <1>4, <1>5, <1>6
<1>9. SeqExt!IsPrefix(a, d) BY <1>2, <1>7, <1>8, PrefixIs
<1> QED BY <1>9 DEF d

\* A connection that closes keeps what was parsed.
LEMMA ClosedKeeps ==
  ASSUME InputInv, ti_records' = ti_records, NEW w \in Reasons, Closed(w),
         w = "nobufs" => ~Small(ti_records),
         ti_mb' \in MbType, ti_wire' \in Seq(Pairs), ti_buffer' \in Seq(Pairs),
         ti_parsed' \in Seq(Pairs),
         SeqExt!IsPrefix(ti_parsed' \o ti_buffer', PlainTo(ti_records, Len(ti_records)))
  PROVE  InputInv'
<1>1. /\ ti_conn.filled \in BOOLEAN
      /\ ti_conn' = [state |-> "closed", why |-> w, at |-> "idle", filled |-> ti_conn.filled]
  BY DEF InputInv, InputType, Closed
<1>2. InputType' BY <1>1 DEF InputType
<1>3. ti_conn'.state = "closed" /\ ti_conn'.at = "idle" /\ ti_conn'.why = w BY <1>1
<1>4. RecordsOK(ti_records) BY DEF InputInv
<1> QED BY <1>2, <1>3, <1>4 DEF InputInv

\* The invariant holds at the start.
LEMMA TlsInputStarts == TlsInputInit => InputInv
<1>1. SUFFICES ASSUME TlsInputInit PROVE InputInv OBVIOUS
<1>2. <<>> \in Seq(Pairs) /\ <<>> \in Seq(RecordType) /\ Len(<<>>) = 0 /\ <<>> \o <<>> = <<>>
  OBVIOUS
<1>3. /\ ti_records = <<>> /\ ti_wire = <<>> /\ ti_buffer = <<>> /\ ti_parsed = <<>>
      /\ ti_mb = [cipher |-> <<>>, in |-> <<>>, out |-> <<>>]
      /\ ti_conn = [state |-> "handshake", at |-> "idle", why |-> "none", filled |-> FALSE]
  BY <1>1 DEF TlsInputInit
<1>4. InputType BY <1>2, <1>3 DEF InputType, MbType, Reasons
<1>5. CipherTo(<<>>, 0) = <<>> /\ PlainTo(<<>>, 0) = <<>> BY FirstNone DEF CipherTo, PlainTo
<1>6. SeqExt!IsPrefix(<<>>, <<>>)
  <2>1. SubSeq(<<>>, 1, Len(<<>>)) = <<>> BY <1>2, SubSeqFull
  <2> QED BY <1>2, <2>1 DEF SeqExt!IsPrefix
<1>7. RecordsOK(<<>>)
  <2>1. \A k \in 0 .. 0 : k = 0 OBVIOUS
  <2> QED BY <1>2, <1>5, <1>6, <2>1 DEF RecordsOK
<1>8. Progress
  <2>1. Unread(ti_mb, <<>>) = <<>> BY <1>2, <1>3 DEF Unread
  <2>2. After(<<>>, <<>>, ti_mb, 0)
    <3>1. 0 \in 0 .. Len(<<>>) BY <1>2
    <3>2. CipherTo(<<>>, 0) \o Unread(ti_mb, <<>>) = CipherTo(<<>>, Len(<<>>))
      BY <1>2, <1>5, <2>1
    <3> QED BY <3>1, <3>2 DEF After
  <2>3. Partial(<<>>, ti_mb, 0) BY <1>3 DEF Partial
  <2>4. (ti_parsed \o ti_buffer) \o ti_mb.out = PlainTo(<<>>, 0) BY <1>2, <1>3, <1>5
  <2>5. 0 \in 0 .. Len(ti_records) BY <1>2, <1>3
  <2> QED BY <1>3, <2>2, <2>3, <2>4, <2>5 DEF Progress
<1>9. Places /\ Room BY <1>2, <1>3, TlsInputAssumption DEF Places, Room
<1> QED BY <1>2, <1>3, <1>4, <1>5, <1>6, <1>7, <1>8, <1>9 DEF InputInv

\* ReadError.
LEMMA ReadErrorKeeps ==
  ASSUME InputInv, NEW w \in {"nobufs", "eof"}, ReadError(w) PROVE InputInv'
<1>1. /\ Closed(w) /\ w \in Reasons
      /\ ti_records' = ti_records /\ ti_wire' = ti_wire /\ ti_mb' = ti_mb
      /\ ti_buffer' = ti_buffer /\ ti_parsed' = ti_parsed
      /\ ti_conn.state # "closed" /\ ti_conn.at = "idle"
      /\ w = "nobufs" => Len(ti_mb.cipher) = ReadSize
  BY DEF ReadError, Reasons
<1>2. Small(ti_records) => Len(ti_mb.cipher) < ReadSize BY <1>1 DEF InputInv, Room
<1>3. w = "nobufs" => ~Small(ti_records) BY <1>1, <1>2, TlsInputAssumption
<1>4. /\ ti_mb' \in MbType /\ ti_wire' \in Seq(Pairs) /\ ti_buffer' \in Seq(Pairs)
      /\ ti_parsed' \in Seq(Pairs)
      /\ SeqExt!IsPrefix(ti_parsed' \o ti_buffer', PlainTo(ti_records, Len(ti_records)))
  BY <1>1 DEF InputInv, InputType
<1> QED BY <1>1, <1>3, <1>4, ClosedKeeps

\* The state that goes with a place where the connection is open.
Standing(state, at, filled) ==
  ti_conn' = [state |-> state, at |-> at, why |-> ti_conn.why, filled |-> filled]

\* A connection that stays open, with the same records.
LEMMA OpenKeeps ==
  ASSUME InputInv, ti_records' = ti_records, NEW Q \in 0 .. Len(ti_records),
         ti_mb' \in MbType, ti_wire' \in Seq(Pairs), ti_buffer' \in Seq(Pairs),
         ti_parsed' \in Seq(Pairs),
         After(ti_records, ti_wire', ti_mb', Q), Partial(ti_records, ti_mb', Q),
         (ti_parsed' \o ti_buffer') \o ti_mb'.out = PlainTo(ti_records, Q),
         NEW s \in {"handshake", "http", "ws"}, Q = 0 <=> s = "handshake",
         NEW at \in {"idle", "handshake", "http", "parse", "ws"}, NEW filled \in BOOLEAN,
         Standing(s, at, filled), Places', Small(ti_records) => Room'
  PROVE  InputInv'
<1>1. ti_conn' = [state |-> s, at |-> at, why |-> ti_conn.why, filled |-> filled]
  BY DEF Standing
<1>2. ti_conn.why \in Reasons /\ RecordsOK(ti_records)
      /\ (ti_conn.why = "nobufs" => ~Small(ti_records))
  BY DEF InputInv, InputType
<1>3. InputType' BY <1>1, <1>2 DEF InputType
<1>4. ti_conn'.state = s /\ ti_conn'.why = ti_conn.why /\ s # "closed" BY <1>1
<1>5. Progress' BY <1>4 DEF Progress
<1>6. SeqExt!IsPrefix(ti_parsed' \o ti_buffer', PlainTo(ti_records, Len(ti_records)))
  <2> DEFINE a == ti_parsed' \o ti_buffer'
             b == ti_mb'.out
  <2>1. a \in Seq(Pairs) BY ConcatProperties
  <2>2. b \in Seq(Pairs) BY DEF MbType
  <2>3. a \o b = PlainTo(ti_records, Q) OBVIOUS
  <2> HIDE DEF a, b
  <2>4. SeqExt!IsPrefix(a, PlainTo(ti_records, Len(ti_records)))
    BY <1>2, <2>1, <2>2, <2>3, DecryptedIsSent
  <2> QED BY <2>4 DEF a
<1> QED BY <1>2, <1>3, <1>4, <1>5, <1>6 DEF InputInv

\* What the steps of an open connection start from.
LEMMA OpenFacts ==
  ASSUME InputInv, ti_conn.state # "closed"
  PROVE  /\ RecordsOK(ti_records) /\ Progress /\ Places /\ (Small(ti_records) => Room)
         /\ ti_mb \in MbType /\ ti_mb.cipher \in Seq(Pairs) /\ ti_mb.in \in Seq(Pairs)
         /\ ti_mb.out \in Seq(Pairs) /\ ti_wire \in Seq(Pairs) /\ ti_buffer \in Seq(Pairs)
         /\ ti_parsed \in Seq(Pairs) /\ Len(ti_mb.cipher) \in Nat /\ Len(ti_mb.out) \in Nat
         /\ Len(ti_buffer) \in Nat /\ Len(ti_wire) \in Nat
         /\ ti_mb = [cipher |-> ti_mb.cipher, in |-> ti_mb.in, out |-> ti_mb.out]
         /\ ti_conn.state \in {"handshake", "http", "ws"} /\ ti_conn.filled \in BOOLEAN
         /\ ti_conn = [state |-> ti_conn.state, at |-> ti_conn.at, why |-> ti_conn.why,
                       filled |-> ti_conn.filled]
         /\ SeqExt!IsPrefix(ti_parsed \o ti_buffer, PlainTo(ti_records, Len(ti_records)))
<1>1. /\ RecordsOK(ti_records) /\ Progress /\ Places /\ (Small(ti_records) => Room) /\ InputType
      /\ SeqExt!IsPrefix(ti_parsed \o ti_buffer, PlainTo(ti_records, Len(ti_records)))
  BY DEF InputInv
<1>2. /\ ti_mb \in MbType /\ ti_wire \in Seq(Pairs) /\ ti_buffer \in Seq(Pairs)
      /\ ti_parsed \in Seq(Pairs)
  BY <1>1 DEF InputType
<1>3. /\ ti_mb.cipher \in Seq(Pairs) /\ ti_mb.in \in Seq(Pairs) /\ ti_mb.out \in Seq(Pairs)
      /\ ti_mb = [cipher |-> ti_mb.cipher, in |-> ti_mb.in, out |-> ti_mb.out]
  BY <1>2 DEF MbType
<1>4. /\ ti_conn.state \in {"handshake", "http", "ws"} /\ ti_conn.filled \in BOOLEAN
      /\ ti_conn = [state |-> ti_conn.state, at |-> ti_conn.at, why |-> ti_conn.why,
                    filled |-> ti_conn.filled]
  BY <1>1 DEF InputType
<1>5. /\ Len(ti_mb.cipher) \in Nat /\ Len(ti_mb.out) \in Nat /\ Len(ti_buffer) \in Nat
      /\ Len(ti_wire) \in Nat
  BY <1>2, <1>3, LenProperties
<1> QED BY <1>1, <1>2, <1>3, <1>4, <1>5

\* on_read with n bytes of ciphertext preserves it.
LEMMA OnReadKeeps == ASSUME InputInv, NEW n \in 1 .. ReadSize, OnRead(n) PROVE InputInv'
<1> DEFINE a == SubSeq(ti_wire, 1, n)
           b == SubSeq(ti_wire, n + 1, Len(ti_wire))
           c == ti_mb.cipher
           s == ti_conn.state
<1>1. /\ ti_conn.state # "closed" /\ ti_conn.at = "idle"
      /\ n <= Len(ti_wire) /\ n <= ReadSize - Len(ti_mb.cipher)
      /\ ti_mb' = [ti_mb EXCEPT !.cipher = c \o a] /\ ti_wire' = b
      /\ ti_conn' = [ti_conn EXCEPT !.at = s]
      /\ ti_records' = ti_records /\ ti_buffer' = ti_buffer /\ ti_parsed' = ti_parsed
  BY DEF OnRead, Goto
<1>2. /\ RecordsOK(ti_records) /\ Progress /\ Places /\ (Small(ti_records) => Room)
      /\ c \in Seq(Pairs) /\ ti_mb.in \in Seq(Pairs) /\ ti_mb.out \in Seq(Pairs)
      /\ ti_wire \in Seq(Pairs) /\ ti_buffer \in Seq(Pairs) /\ ti_parsed \in Seq(Pairs)
      /\ Len(c) \in Nat /\ Len(ti_wire) \in Nat
      /\ ti_mb = [cipher |-> c, in |-> ti_mb.in, out |-> ti_mb.out]
      /\ s \in {"handshake", "http", "ws"} /\ ti_conn.filled \in BOOLEAN
      /\ ti_conn = [state |-> s, at |-> ti_conn.at, why |-> ti_conn.why, filled |-> ti_conn.filled]
  BY <1>1, OpenFacts
<1>3. n \in Nat /\ n \in 0 .. Len(ti_wire) /\ ReadSize \in Nat
  BY <1>1, <1>2, TlsInputAssumption
<1>4. IsCut(ti_wire, n, a, b) BY DEF IsCut
<1> HIDE DEF a, b
<1>5. a \in Seq(Pairs) /\ Len(a) = n /\ b \in Seq(Pairs) BY <1>2, <1>3, <1>4, CutFacts
<1>6. a \o b = ti_wire BY <1>2, <1>3, <1>4, CutInTwo
<1>7. ti_mb' = [cipher |-> c \o a, in |-> ti_mb.in, out |-> ti_mb.out] BY <1>1, <1>2
<1>8. c \o a \in Seq(Pairs) /\ Len(c \o a) = Len(c) + n
  <2> HIDE DEF c
  <2> QED BY <1>2, <1>5, ConcatProperties
<1>9. /\ ti_mb' \in MbType /\ ti_mb'.in = ti_mb.in /\ ti_mb'.out = ti_mb.out
      /\ ti_mb'.cipher = c \o a
  BY <1>2, <1>7, <1>8 DEF MbType
<1>10. Unread(ti_mb', ti_wire') = Unread(ti_mb, ti_wire)
  <2> HIDE DEF c
  <2>1. c \in Seq(Pairs) /\ a \in Seq(Pairs) /\ b \in Seq(Pairs) BY <1>2, <1>5
  <2>2. (c \o a) \o b = c \o (a \o b) BY <2>1, ConcatAssociative
  <2>3. (c \o a) \o b = c \o ti_wire BY <1>6, <2>2
  <2> QED BY <1>1, <1>9, <2>3 DEF Unread, c
<1>11. Standing(s, s, ti_conn.filled) BY <1>1, <1>2 DEF Standing
<1>12. PICK R \in 0 .. Len(ti_records) :
         /\ After(ti_records, ti_wire, ti_mb, R) /\ Partial(ti_records, ti_mb, R)
         /\ (ti_parsed \o ti_buffer) \o ti_mb.out = PlainTo(ti_records, R)
         /\ R = 0 <=> s = "handshake"
  BY <1>2 DEF Progress
<1>13. After(ti_records, ti_wire', ti_mb', R) /\ Partial(ti_records, ti_mb', R)
  BY <1>9, <1>10, <1>12 DEF After, Partial
<1>14. ti_conn'.state = s /\ ti_conn'.at = s BY <1>11 DEF Standing
<1>15. Len(ti_mb'.cipher) <= ReadSize BY <1>1, <1>2, <1>3, <1>8, <1>9
<1>16. ti_buffer' = <<>> /\ Len(ti_buffer') = 0 BY <1>1, <1>2 DEF Places
<1>17. s = "handshake" => ti_mb'.out = <<>> BY <1>2, <1>9 DEF Places
<1> HIDE DEF s
<1>18. Places'
  BY <1>2, <1>3, <1>14, <1>15, <1>16, <1>17, TlsInputAssumption DEF Places
<1>19. Small(ti_records) => Room'
  <2>1. SUFFICES ASSUME Small(ti_records) PROVE Room' OBVIOUS
  <2>2. Len(ti_mb'.out) < ReadSize BY <1>2, <1>9, <2>1 DEF Room
  <2>3. Len(ti_mb'.out) \in Nat BY <1>2, <1>9, LenProperties
  <2>4. Len(ti_buffer') + Len(ti_mb'.out) < ReadSize BY <1>16, <2>2, <2>3
  <2> QED BY <1>2, <1>14, <2>2, <2>4 DEF Room
<1>20. (ti_parsed' \o ti_buffer') \o ti_mb'.out = PlainTo(ti_records, R) BY <1>1, <1>9, <1>12
<1>21. /\ ti_wire' \in Seq(Pairs) /\ ti_buffer' \in Seq(Pairs) /\ ti_parsed' \in Seq(Pairs)
       /\ s \in {"idle", "handshake", "http", "parse", "ws"}
  BY <1>1, <1>2, <1>5
<1> QED BY <1>1, <1>2, <1>9, <1>11, <1>12, <1>13, <1>18, <1>19, <1>20, <1>21, OpenKeeps

\* A step of the handshake preserves it.
LEMMA HandshakeKeeps == ASSUME InputInv, Handshake PROVE InputInv'
<1> DEFINE f == Fetched(ti_mb)
           g == [f EXCEPT !.in = <<>>]
<1>1. /\ ti_conn.at = "handshake"
      /\ ti_records' = ti_records /\ ti_wire' = ti_wire /\ ti_buffer' = ti_buffer
      /\ ti_parsed' = ti_parsed
      /\ \/ /\ Complete(f) /\ ti_mb' = g
            /\ ti_conn' = [ti_conn EXCEPT !.state = "http", !.at = "http"]
         \/ /\ ~Complete(f) /\ ti_mb' = f
            /\ ti_conn' = [ti_conn EXCEPT !.at = "idle"] \/ Closed("tls")
  BY DEF Handshake, Goto
<1>2. ti_conn.state # "closed" BY <1>1 DEF InputInv
<1>3. /\ RecordsOK(ti_records) /\ Progress /\ Places
      /\ ti_mb \in MbType /\ Len(ti_mb.cipher) \in Nat
      /\ ti_wire \in Seq(Pairs) /\ ti_buffer \in Seq(Pairs) /\ ti_parsed \in Seq(Pairs)
      /\ ti_conn.filled \in BOOLEAN
      /\ ti_conn = [state |-> ti_conn.state, at |-> ti_conn.at, why |-> ti_conn.why,
                    filled |-> ti_conn.filled]
      /\ SeqExt!IsPrefix(ti_parsed \o ti_buffer, PlainTo(ti_records, Len(ti_records)))
  BY <1>2, OpenFacts
<1>4. ti_conn.state = "handshake" /\ ti_buffer = <<>> /\ ti_mb.out = <<>> /\ Len(ti_mb.cipher) <= ReadSize
  BY <1>1, <1>3 DEF Places
<1>5. /\ After(ti_records, ti_wire, ti_mb, 0) /\ Partial(ti_records, ti_mb, 0)
      /\ (ti_parsed \o ti_buffer) \o ti_mb.out = PlainTo(ti_records, 0)
  BY <1>3, <1>4 DEF Progress
<1>6. /\ f \in MbType /\ f.out = ti_mb.out /\ After(ti_records, ti_wire, f, 0)
      /\ \/ /\ Complete(f) /\ 0 \in 0 .. Len(ti_records) - 1
            /\ Len(f.in) = ti_records[0 + 1].size + 1 /\ Len(f.cipher) < Len(ti_mb.cipher)
         \/ ~Complete(f) /\ f.cipher = <<>> /\ Partial(ti_records, f, 0)
  BY <1>3, <1>5, FetchedIs
<1> HIDE DEF f
<1>7. ReadSize \in Nat /\ ReadSize > 0 BY TlsInputAssumption
<1>8. CASE ~Complete(f) /\ ti_mb' = f /\ Closed("tls")
  <2>1. "tls" \in Reasons /\ "tls" # "nobufs" BY DEF Reasons
  <2> QED BY <1>1, <1>3, <1>6, <1>8, <2>1, ClosedKeeps
<1>9. CASE ~Complete(f) /\ ti_mb' = f /\ ti_conn' = [ti_conn EXCEPT !.at = "idle"]
  <2>1. Standing("handshake", "idle", ti_conn.filled) BY <1>3, <1>4, <1>9 DEF Standing
  <2>2. ti_conn'.state = "handshake" /\ ti_conn'.at = "idle" BY <2>1 DEF Standing
  <2>3. Len(ti_mb'.cipher) = 0 /\ ti_mb'.out = <<>> /\ Len(ti_mb'.out) = 0
    BY <1>4, <1>6, <1>9
  <2>4. Places' BY <1>1, <1>4, <1>7, <2>2, <2>3 DEF Places
  <2>5. Room' BY <1>7, <2>2, <2>3 DEF Room
  <2>6. 0 \in 0 .. Len(ti_records) BY <1>6 DEF After
  <2>7. After(ti_records, ti_wire', ti_mb', 0) /\ Partial(ti_records, ti_mb', 0) /\ ti_mb' \in MbType
    BY <1>1, <1>6, <1>9
  <2>8. (ti_parsed' \o ti_buffer') \o ti_mb'.out = PlainTo(ti_records, 0) BY <1>1, <1>4, <1>5, <2>3
  <2>9. ti_wire' \in Seq(Pairs) /\ ti_buffer' \in Seq(Pairs) /\ ti_parsed' \in Seq(Pairs)
    BY <1>1, <1>3
  <2> QED BY <1>1, <1>3, <2>1, <2>4, <2>5, <2>6, <2>7, <2>8, <2>9, OpenKeeps
<1>10. CASE /\ Complete(f) /\ ti_mb' = g
            /\ ti_conn' = [ti_conn EXCEPT !.state = "http", !.at = "http"]
  <2>1. Standing("http", "http", ti_conn.filled) BY <1>3, <1>10 DEF Standing
  <2>2. ti_conn'.state = "http" /\ ti_conn'.at = "http" BY <2>1 DEF Standing
  <2>3. /\ f.in \in Seq(Pairs) /\ f.cipher \in Seq(Pairs) /\ f.out \in Seq(Pairs)
        /\ f = [cipher |-> f.cipher, in |-> f.in, out |-> f.out]
    BY <1>6 DEF MbType
  <2>4. ti_mb' = [cipher |-> f.cipher, in |-> <<>>, out |-> f.out] BY <1>10, <2>3
  <2>5. ti_mb' \in MbType /\ ti_mb'.cipher = f.cipher /\ ti_mb'.in = <<>> /\ ti_mb'.out = <<>>
    <3>1. <<>> \in Seq(Pairs) OBVIOUS
    <3> QED BY <1>4, <1>6, <2>3, <2>4, <3>1 DEF MbType
  <2>6. /\ 0 \in 0 .. Len(ti_records) - 1 /\ Len(f.in) = ti_records[0 + 1].size + 1
        /\ Len(f.cipher) < Len(ti_mb.cipher) /\ f.in # <<>>
    BY <1>6, <1>10 DEF Complete
  <2>7. After(ti_records, ti_wire, ti_mb', 0 + 1) /\ Partial(ti_records, ti_mb', 0 + 1)
    <3> DEFINE h == ti_mb'
    <3>1. h \in MbType /\ h.in = <<>> /\ h.cipher = f.cipher BY <2>5
    <3> HIDE DEF h
    <3>2. After(ti_records, ti_wire, h, 0 + 1) /\ Partial(ti_records, h, 0 + 1)
      BY <1>3, <1>6, <2>6, <3>1, RecordTaken
    <3> QED BY <3>2 DEF h
  <2>8. 1 \in 0 .. Len(ti_records) /\ 1 \in 1 .. Len(ti_records) /\ 0 + 1 = 1
    BY <2>6
  <2>9. PlainTo(ti_records, 1) = PlainTo(ti_records, 0)
    <3>1. ti_records \in Seq(RecordType) /\ ti_records[1].kind = "handshake"
      BY <1>3, <2>8 DEF RecordsOK
    <3>2. PlainRow(0 + 1, ti_records[0 + 1]) = <<>> BY <2>8, <3>1 DEF PlainRow
    <3>3. /\ PlainTo(ti_records, 0 + 1) = PlainTo(ti_records, 0) \o PlainRow(0 + 1, ti_records[0 + 1])
      BY <2>6, <3>1, StreamFacts
    <3>4. PlainTo(ti_records, 0) \in Seq(Pairs)
      <4>1. 0 \in 0 .. Len(ti_records) BY <1>6 DEF After
      <4> QED BY <3>1, <4>1, StreamFacts
    <3>5. PlainTo(ti_records, 0) \o <<>> = PlainTo(ti_records, 0) BY <3>4, ConcatEmptySeq
    <3> QED BY <2>8, <3>2, <3>3, <3>5
  <2>10. (ti_parsed' \o ti_buffer') \o ti_mb'.out = PlainTo(ti_records, 1)
    BY <1>1, <1>4, <1>5, <2>5, <2>9
  <2>11. Len(f.cipher) \in Nat /\ Len(f.cipher) < ReadSize BY <1>3, <1>4, <1>7, <2>3, <2>6, LenProperties
  <2>12. Len(ti_buffer') = 0 /\ ti_buffer' = <<>> /\ Len(ti_mb'.out) = 0 BY <1>1, <1>4, <2>5
  <2>13. Len(ti_mb'.cipher) < ReadSize /\ Len(ti_mb'.cipher) <= ReadSize BY <1>7, <2>5, <2>11
  <2>14. Places' BY <1>7, <2>2, <2>12, <2>13 DEF Places
  <2>15. Room' BY <1>7, <2>2, <2>12, <2>13 DEF Room
  <2>16. ti_wire' \in Seq(Pairs) /\ ti_buffer' \in Seq(Pairs) /\ ti_parsed' \in Seq(Pairs)
    BY <1>1, <1>3
  <2>17. After(ti_records, ti_wire', ti_mb', 1) /\ Partial(ti_records, ti_mb', 1) BY <1>1, <2>7, <2>8
  <2>18. 1 = 0 <=> "http" = "handshake" OBVIOUS
  <2> QED BY <1>1, <1>3, <2>1, <2>5, <2>8, <2>10, <2>14, <2>15, <2>16, <2>17, <2>18, OpenKeeps
<1> QED BY <1>1, <1>8, <1>9, <1>10

\* Parsing what read_buffer holds preserves it.
LEMMA ParseKeeps == ASSUME InputInv, Parse PROVE InputInv'
<1>1. /\ ti_conn.at = "parse" /\ ti_parsed' = ti_parsed \o ti_buffer /\ ti_buffer' = <<>>
      /\ ti_records' = ti_records /\ ti_wire' = ti_wire /\ ti_mb' = ti_mb
      /\ \/ Closed("parse")
         \/ \E s \in {"http", "ws"} :
              ti_conn' = [ti_conn EXCEPT !.state = s, !.at = "idle",
                                         !.filled = Len(ti_buffer) >= ReadSize]
  BY DEF Parse
<1>2. ti_conn.state # "closed" BY <1>1 DEF InputInv
<1>3. /\ RecordsOK(ti_records) /\ Progress /\ Places /\ (Small(ti_records) => Room)
      /\ ti_mb \in MbType /\ ti_wire \in Seq(Pairs) /\ ti_buffer \in Seq(Pairs)
      /\ ti_parsed \in Seq(Pairs) /\ ti_conn.state \in {"handshake", "http", "ws"}
      /\ ti_conn = [state |-> ti_conn.state, at |-> ti_conn.at, why |-> ti_conn.why,
                    filled |-> ti_conn.filled]
      /\ SeqExt!IsPrefix(ti_parsed \o ti_buffer, PlainTo(ti_records, Len(ti_records)))
  BY <1>2, OpenFacts
<1>4. ti_conn.state = "http" /\ (Len(ti_buffer) >= ReadSize \/ Drained(ti_mb))
      /\ Len(ti_mb.cipher) <= ReadSize
  BY <1>1, <1>2, <1>3 DEF Places
<1>5. /\ ti_parsed' \in Seq(Pairs) /\ ti_buffer' \in Seq(Pairs)
      /\ ti_parsed' \o ti_buffer' = ti_parsed \o ti_buffer
  <2> DEFINE a == ti_parsed \o ti_buffer
  <2>1. a \in Seq(Pairs) BY <1>3, ConcatProperties
  <2>2. a \o <<>> = a BY <2>1, ConcatEmptySeq
  <2>3. <<>> \in Seq(Pairs) OBVIOUS
  <2> QED BY <1>1, <2>1, <2>2, <2>3
<1>6. CASE Closed("parse")
  <2>1. "parse" \in Reasons /\ "parse" # "nobufs" BY DEF Reasons
  <2>2. ti_mb' \in MbType /\ ti_wire' \in Seq(Pairs) BY <1>1, <1>3
  <2>3. SeqExt!IsPrefix(ti_parsed' \o ti_buffer', PlainTo(ti_records, Len(ti_records)))
    BY <1>3, <1>5
  <2> QED BY <1>1, <1>5, <1>6, <2>1, <2>2, <2>3, ClosedKeeps
<1>7. ASSUME NEW s \in {"http", "ws"},
             ti_conn' = [ti_conn EXCEPT !.state = s, !.at = "idle",
                                        !.filled = Len(ti_buffer) >= ReadSize]
      PROVE  InputInv'
  <2> DEFINE full == Len(ti_buffer) >= ReadSize
  <2>1. Standing(s, "idle", full) BY <1>3, <1>7 DEF Standing
  <2>2. ti_conn'.state = s /\ ti_conn'.at = "idle" /\ ti_conn'.filled = full
    BY <2>1 DEF Standing
  <2>3. full \in BOOLEAN OBVIOUS
  <2> HIDE DEF full
  <2>4. PICK R \in 0 .. Len(ti_records) :
         /\ After(ti_records, ti_wire, ti_mb, R) /\ Partial(ti_records, ti_mb, R)
         /\ (ti_parsed \o ti_buffer) \o ti_mb.out = PlainTo(ti_records, R) /\ R # 0
    BY <1>3, <1>4 DEF Progress
  <2>5. Places'
    <3>1. ti_conn'.filled \/ Drained(ti_mb') BY <1>1, <1>4, <2>2 DEF full
    <3>2. s # "handshake" BY <1>7
    <3> QED BY <1>1, <1>4, <2>2, <3>1, <3>2 DEF Places
  <2>6. Small(ti_records) => Room' BY <1>1, <1>3, <2>2 DEF Room
  <2>7. (ti_parsed' \o ti_buffer') \o ti_mb'.out = PlainTo(ti_records, R) BY <1>1, <1>5, <2>4
  <2>8. /\ ti_mb' \in MbType /\ ti_wire' \in Seq(Pairs)
        /\ After(ti_records, ti_wire', ti_mb', R) /\ Partial(ti_records, ti_mb', R)
    BY <1>1, <1>3, <2>4
  <2>9. (R = 0 <=> s = "handshake") /\ s \in {"handshake", "http", "ws"} BY <1>7, <2>4
  <2> QED BY <1>1, <1>5, <2>1, <2>3, <2>4, <2>5, <2>6, <2>7, <2>8, <2>9, OpenKeeps
<1> QED BY <1>1, <1>6, <1>7

\* What mbedtls has decrypted so far, and what is left.
Reached(p, m) ==
  \E Q \in 1 .. Len(ti_records) :
    /\ After(ti_records, ti_wire, m, Q) /\ Partial(ti_records, m, Q)
    /\ p \o m.out = PlainTo(ti_records, Q)

\* The bytes that mbedtls_ssl_read returns are appended to what was decrypted.
LEMMA AppendsNext ==
  ASSUME NEW m, NEW R, NEW d \in Seq(Pairs), NEW rm, Continues(m, R, d, rm),
         NEW a \in Seq(Pairs), NEW b \in Seq(Pairs), NEW p, p = a \o b,
         p \o m.out = PlainTo(ti_records, R)
  PROVE  Reached(a \o (b \o d), rm)
<1>1. p \in Seq(Pairs) BY ConcatProperties
<1>2. Reached(p \o d, rm) BY <1>1 DEF Continues, Reached
<1>3. (a \o b) \o d = a \o (b \o d) BY ConcatAssociative
<1> QED BY <1>2, <1>3

\* mbedtls_ssl_read into read_buffer preserves it.
LEMMA DecryptKeeps == ASSUME InputInv, Decrypt PROVE InputInv'
<1> DEFINE n == ReadSize - Len(ti_buffer)
           r == SslRead(ti_mb, n)
           rm == r.m
           d == r.data
<1>1. /\ ti_conn.at = "http" /\ ti_mb' = rm
      /\ ti_records' = ti_records /\ ti_wire' = ti_wire /\ ti_parsed' = ti_parsed
      /\ \/ /\ r.ret = "want" /\ ti_conn' = [ti_conn EXCEPT !.at = "parse"] /\ ti_buffer' = ti_buffer
         \/ /\ r.ret # "want" /\ Closed(IF r.ret = "data" THEN "tls" ELSE r.ret)
            /\ ti_buffer' = ti_buffer
         \/ /\ r.ret = "data" /\ ti_buffer' = ti_buffer \o d
            /\ ti_conn' = [ti_conn EXCEPT !.at =
                 IF Len(ti_buffer) + Len(d) >= ReadSize THEN "parse" ELSE "http"]
  BY DEF Decrypt, Goto, Decrypted
<1>2. ti_conn.state # "closed" BY <1>1 DEF InputInv
<1>3. /\ RecordsOK(ti_records) /\ Progress /\ Places /\ (Small(ti_records) => Room)
      /\ ti_mb \in MbType /\ Len(ti_mb.cipher) \in Nat /\ Len(ti_mb.out) \in Nat
      /\ ti_wire \in Seq(Pairs) /\ ti_buffer \in Seq(Pairs) /\ ti_parsed \in Seq(Pairs)
      /\ Len(ti_buffer) \in Nat /\ ti_conn.filled \in BOOLEAN
      /\ ti_conn.state \in {"handshake", "http", "ws"}
      /\ ti_conn = [state |-> ti_conn.state, at |-> ti_conn.at, why |-> ti_conn.why,
                    filled |-> ti_conn.filled]
      /\ SeqExt!IsPrefix(ti_parsed \o ti_buffer, PlainTo(ti_records, Len(ti_records)))
  BY <1>2, OpenFacts
<1>4. ti_conn.state = "http" /\ Len(ti_buffer) < ReadSize /\ Len(ti_mb.cipher) <= ReadSize
  BY <1>1, <1>3 DEF Places
<1>5. n \in Nat /\ n # 0 /\ ReadSize \in Nat /\ ReadSize > 0 BY <1>3, <1>4, TlsInputAssumption
<1>6. PICK R \in 0 .. Len(ti_records) :
        /\ After(ti_records, ti_wire, ti_mb, R) /\ Partial(ti_records, ti_mb, R)
        /\ (ti_parsed \o ti_buffer) \o ti_mb.out = PlainTo(ti_records, R) /\ R # 0
  BY <1>3, <1>4 DEF Progress
<1>7. /\ r.ret \in {"want", "notify", "data"} /\ rm \in MbType
      /\ r.ret = "want" =>
           /\ ti_mb.out = <<>> /\ Drained(rm)
           /\ After(ti_records, ti_wire, rm, R) /\ Partial(ti_records, rm, R)
      /\ r.ret = "data" =>
           /\ d \in Seq(Pairs) /\ Len(d) <= n
           /\ Consumes(ti_mb, d, rm) /\ Continues(ti_mb, R, d, rm)
  <2> HIDE DEF n
  <2> QED BY <1>3, <1>5, <1>6, SslReadIs
<1> HIDE DEF r, rm, d
<1>8. CASE r.ret # "want" /\ Closed(IF r.ret = "data" THEN "tls" ELSE r.ret) /\ ti_buffer' = ti_buffer
  <2> DEFINE w == IF r.ret = "data" THEN "tls" ELSE r.ret
  <2>1. w \in Reasons /\ w # "nobufs" /\ Closed(w) BY <1>7, <1>8 DEF Reasons
  <2>2. /\ ti_mb' \in MbType /\ ti_wire' \in Seq(Pairs) /\ ti_buffer' \in Seq(Pairs)
        /\ ti_parsed' \in Seq(Pairs)
        /\ SeqExt!IsPrefix(ti_parsed' \o ti_buffer', PlainTo(ti_records, Len(ti_records)))
    BY <1>1, <1>3, <1>7, <1>8
  <2> HIDE DEF w
  <2> QED BY <1>1, <2>1, <2>2, ClosedKeeps
<1>9. CASE r.ret = "want" /\ ti_conn' = [ti_conn EXCEPT !.at = "parse"] /\ ti_buffer' = ti_buffer
  <2>1. Standing("http", "parse", ti_conn.filled) BY <1>3, <1>4, <1>9 DEF Standing
  <2>2. ti_conn'.state = "http" /\ ti_conn'.at = "parse" BY <2>1 DEF Standing
  <2>3. Drained(ti_mb') /\ ti_mb'.out = <<>> /\ ti_mb.out = <<>> BY <1>1, <1>7, <1>9 DEF Drained
  <2>4. Len(ti_mb'.out) = 0 /\ Len(ti_mb'.cipher) = 0 BY <2>3 DEF Drained
  <2>5. Places' BY <1>5, <2>2, <2>3, <2>4 DEF Places
  <2>6. Room' BY <1>5, <2>2, <2>4 DEF Room
  <2>7. (ti_parsed' \o ti_buffer') \o ti_mb'.out = PlainTo(ti_records, R)
    BY <1>1, <1>6, <1>9, <2>3
  <2>8. /\ ti_mb' \in MbType /\ ti_wire' \in Seq(Pairs) /\ ti_buffer' \in Seq(Pairs)
        /\ ti_parsed' \in Seq(Pairs)
        /\ After(ti_records, ti_wire', ti_mb', R) /\ Partial(ti_records, ti_mb', R)
    BY <1>1, <1>3, <1>7, <1>9
  <2>9. R = 0 <=> "http" = "handshake" BY <1>6
  <2> QED BY <1>1, <1>3, <1>6, <2>1, <2>5, <2>6, <2>7, <2>8, <2>9, OpenKeeps
<1>10. CASE /\ r.ret = "data" /\ ti_buffer' = ti_buffer \o d
            /\ ti_conn' = [ti_conn EXCEPT !.at =
                 IF Len(ti_buffer) + Len(d) >= ReadSize THEN "parse" ELSE "http"]
  <2> DEFINE at == IF Len(ti_buffer) + Len(d) >= ReadSize THEN "parse" ELSE "http"
  <2>1. /\ d \in Seq(Pairs) /\ Len(d) <= n /\ Consumes(ti_mb, d, rm)
        /\ Continues(ti_mb, R, d, rm) /\ Len(d) \in Nat
    BY <1>7, <1>10, LenProperties
  <2>2. Standing("http", at, ti_conn.filled) BY <1>3, <1>4, <1>10 DEF Standing
  <2>3. ti_conn'.state = "http" /\ ti_conn'.at = at BY <2>2 DEF Standing
  <2>4. ti_buffer' \in Seq(Pairs) /\ Len(ti_buffer') = Len(ti_buffer) + Len(d)
    BY <1>3, <1>10, <2>1, ConcatProperties
  <2>5. PICK Q \in 1 .. Len(ti_records) :
          /\ After(ti_records, ti_wire, rm, Q) /\ Partial(ti_records, rm, Q)
          /\ (ti_parsed \o (ti_buffer \o d)) \o rm.out = PlainTo(ti_records, Q)
    <3> DEFINE p == ti_parsed \o ti_buffer
    <3>1. /\ ti_parsed \in Seq(Pairs) /\ ti_buffer \in Seq(Pairs) /\ d \in Seq(Pairs)
          /\ Continues(ti_mb, R, d, rm) /\ p = ti_parsed \o ti_buffer
          /\ p \o ti_mb.out = PlainTo(ti_records, R)
      BY <1>3, <1>6, <2>1
    <3> HIDE DEF p
    <3>2. Reached(ti_parsed \o (ti_buffer \o d), rm) BY <3>1, AppendsNext
    <3> QED BY <3>2 DEF Reached
  <2>6. (ti_parsed' \o ti_buffer') \o ti_mb'.out = PlainTo(ti_records, Q) BY <1>1, <1>10, <2>5
  <2>7. rm.cipher \in Seq(Pairs) /\ rm.out \in Seq(Pairs) /\ Len(rm.cipher) \in Nat /\ Len(rm.out) \in Nat
    BY <1>7, LenProperties DEF MbType
  <2>8. Len(rm.cipher) <= Len(ti_mb.cipher) BY <1>3, <2>1, <2>7 DEF Consumes
  <2>9. Places'
    <3>1. Len(ti_mb'.cipher) <= ReadSize BY <1>1, <1>3, <1>4, <1>5, <2>7, <2>8
    <3>2. at = "http" => Len(ti_buffer') < ReadSize BY <1>3, <1>5, <2>1, <2>4
    <3>3. at = "parse" => Len(ti_buffer') >= ReadSize BY <2>4
    <3>4. at \in {"http", "parse"} OBVIOUS
    <3> HIDE DEF at
    <3> QED BY <2>3, <3>1, <3>2, <3>3, <3>4 DEF Places
  <2>10. Small(ti_records) => Room'
    <3>1. SUFFICES ASSUME Small(ti_records) PROVE Room' OBVIOUS
    <3>2. Room BY <1>3, <3>1
    <3>3. /\ Len(ti_mb.out) < ReadSize
          /\ Len(ti_mb.cipher) < ReadSize \/ Len(ti_buffer) + Len(ti_mb.out) < ReadSize
      BY <1>1, <3>2 DEF Room
    <3>4. \/ Len(rm.cipher) = Len(ti_mb.cipher) /\ Len(d) + Len(rm.out) = Len(ti_mb.out)
          \/ Len(rm.cipher) < Len(ti_mb.cipher) /\ Len(rm.out) < ReadSize
      BY <2>1, <3>1 DEF Consumes
    <3>5. Len(rm.out) < ReadSize BY <1>3, <1>5, <2>1, <2>7, <3>3, <3>4
    <3>6. Len(rm.cipher) < ReadSize \/ Len(ti_buffer) + Len(d) + Len(rm.out) < ReadSize
      <4>0. /\ Len(ti_mb.cipher) \in Nat /\ Len(ti_mb.out) \in Nat /\ Len(ti_buffer) \in Nat
            /\ Len(d) \in Nat /\ Len(rm.out) \in Nat /\ Len(rm.cipher) \in Nat
            /\ Len(ti_mb.cipher) <= ReadSize
        BY <1>3, <1>4, <2>1, <2>7
      <4>1. CASE Len(rm.cipher) < Len(ti_mb.cipher) 
        <5>1. \A x, y \in Nat : x < y /\ y <= ReadSize => x < ReadSize BY <1>5
        <5>2. Len(rm.cipher) < ReadSize BY <4>0, <4>1, <5>1
        <5> QED BY <5>2
      <4>2. CASE Len(rm.cipher) = Len(ti_mb.cipher) /\ Len(d) + Len(rm.out) = Len(ti_mb.out)
        <5>1. Len(ti_buffer) + Len(d) + Len(rm.out) = Len(ti_buffer) + Len(ti_mb.out)
          <6> DEFINE x == Len(ti_buffer)
                     y == Len(d)
                     z == Len(rm.out)
                     u == Len(ti_mb.out)
          <6>1. x \in Nat /\ y \in Nat /\ z \in Nat /\ u \in Nat /\ y + z = u BY <4>0, <4>2
          <6> HIDE DEF x, y, z, u
          <6>2. x + y + z = x + u BY <6>1
          <6> QED BY <6>2 DEF x, y, z, u
        <5> QED BY <3>3, <4>2, <5>1
      <4> QED BY <3>4, <4>1, <4>2
    <3>7. at = "parse" => Len(rm.cipher) < ReadSize
      <4>1. \A a, b, c \in Nat : a + b >= ReadSize => ~(a + b + c < ReadSize) BY <1>5
      <4>2. at = "parse" => Len(ti_buffer) + Len(d) >= ReadSize OBVIOUS
      <4> HIDE DEF at
      <4> QED BY <1>3, <2>1, <2>7, <3>6, <4>1, <4>2
    <3>8. at # "idle" /\ ti_mb' = rm BY <1>1
    <3> HIDE DEF at
    <3> QED BY <2>3, <2>4, <3>5, <3>6, <3>7, <3>8 DEF Room
  <2>11. /\ ti_mb' \in MbType /\ ti_wire' \in Seq(Pairs) /\ ti_parsed' \in Seq(Pairs)
         /\ After(ti_records, ti_wire', ti_mb', Q) /\ Partial(ti_records, ti_mb', Q)
    BY <1>1, <1>3, <1>7, <2>5
  <2>12. Q \in 0 .. Len(ti_records) /\ (Q = 0 <=> "http" = "handshake") BY <2>5
  <2>13. at \in {"idle", "handshake", "http", "parse", "ws"} OBVIOUS
  <2> HIDE DEF at
  <2> QED BY <1>1, <1>3, <2>2, <2>4, <2>6, <2>9, <2>10, <2>11, <2>12, <2>13, OpenKeeps
<1> QED BY <1>1, <1>8, <1>9, <1>10

\* So does the read of on_websocket_read.
LEMMA WsDecryptKeeps == ASSUME InputInv, WsDecrypt PROVE InputInv'
<1> DEFINE r == SslRead(ti_mb, ReadSize)
           rm == r.m
           d == r.data
<1>1. /\ ti_conn.at = "ws" /\ ti_mb' = rm
      /\ ti_records' = ti_records /\ ti_wire' = ti_wire /\ ti_buffer' = ti_buffer
      /\ \/ /\ r.ret = "want" /\ ti_parsed' = ti_parsed
            /\ ti_conn' = [ti_conn EXCEPT !.at = "idle", !.filled = FALSE]
         \/ /\ r.ret # "want" /\ ti_parsed' = ti_parsed
            /\ Closed(IF r.ret = "data" THEN "tls" ELSE r.ret)
         \/ /\ r.ret = "data" /\ ti_parsed' = ti_parsed \o d
            /\ ti_conn' = ti_conn \/ Closed("frames")
  BY DEF WsDecrypt
<1>2. ti_conn.state # "closed" BY <1>1 DEF InputInv
<1>3. /\ RecordsOK(ti_records) /\ Progress /\ Places /\ (Small(ti_records) => Room)
      /\ ti_mb \in MbType /\ Len(ti_mb.cipher) \in Nat /\ Len(ti_mb.out) \in Nat
      /\ ti_wire \in Seq(Pairs) /\ ti_buffer \in Seq(Pairs) /\ ti_parsed \in Seq(Pairs)
      /\ ti_conn.filled \in BOOLEAN /\ ti_conn.state \in {"handshake", "http", "ws"}
      /\ ti_conn = [state |-> ti_conn.state, at |-> ti_conn.at, why |-> ti_conn.why,
                    filled |-> ti_conn.filled]
      /\ SeqExt!IsPrefix(ti_parsed \o ti_buffer, PlainTo(ti_records, Len(ti_records)))
  BY <1>2, OpenFacts
<1>4. ti_conn.state = "ws" /\ ti_buffer = <<>> /\ Len(ti_mb.cipher) <= ReadSize
  BY <1>1, <1>3 DEF Places
<1>5. ReadSize \in Nat /\ ReadSize # 0 /\ ReadSize > 0 BY TlsInputAssumption
<1>6. PICK R \in 0 .. Len(ti_records) :
        /\ After(ti_records, ti_wire, ti_mb, R) /\ Partial(ti_records, ti_mb, R)
        /\ (ti_parsed \o ti_buffer) \o ti_mb.out = PlainTo(ti_records, R) /\ R # 0
  BY <1>3, <1>4 DEF Progress
<1>7. /\ r.ret \in {"want", "notify", "data"} /\ rm \in MbType
      /\ r.ret = "want" =>
           /\ ti_mb.out = <<>> /\ Drained(rm)
           /\ After(ti_records, ti_wire, rm, R) /\ Partial(ti_records, rm, R)
      /\ r.ret = "data" =>
           /\ d \in Seq(Pairs) /\ Consumes(ti_mb, d, rm) /\ Continues(ti_mb, R, d, rm)
  BY <1>3, <1>5, <1>6, SslReadIs
<1> HIDE DEF r, rm, d
<1>8. CASE r.ret # "want" /\ Closed(IF r.ret = "data" THEN "tls" ELSE r.ret) /\ ti_parsed' = ti_parsed
  <2> DEFINE w == IF r.ret = "data" THEN "tls" ELSE r.ret
  <2>1. w \in Reasons /\ w # "nobufs" /\ Closed(w) BY <1>7, <1>8 DEF Reasons
  <2>2. /\ ti_mb' \in MbType /\ ti_wire' \in Seq(Pairs) /\ ti_buffer' \in Seq(Pairs)
        /\ ti_parsed' \in Seq(Pairs)
        /\ SeqExt!IsPrefix(ti_parsed' \o ti_buffer', PlainTo(ti_records, Len(ti_records)))
    BY <1>1, <1>3, <1>7, <1>8
  <2> HIDE DEF w
  <2> QED BY <1>1, <2>1, <2>2, ClosedKeeps
<1>9. CASE /\ r.ret = "want" /\ ti_parsed' = ti_parsed
           /\ ti_conn' = [ti_conn EXCEPT !.at = "idle", !.filled = FALSE]
  <2>1. Standing("ws", "idle", FALSE) BY <1>3, <1>4, <1>9 DEF Standing
  <2>2. ti_conn'.state = "ws" /\ ti_conn'.at = "idle" BY <2>1 DEF Standing
  <2>3. Drained(ti_mb') /\ ti_mb'.out = <<>> /\ ti_mb.out = <<>> BY <1>1, <1>7, <1>9 DEF Drained
  <2>4. Len(ti_mb'.out) = 0 /\ Len(ti_mb'.cipher) = 0 BY <2>3 DEF Drained
  <2>5. Places' BY <1>1, <1>4, <1>5, <2>2, <2>3, <2>4 DEF Places
  <2>6. Room' BY <1>5, <2>2, <2>4 DEF Room
  <2>7. (ti_parsed' \o ti_buffer') \o ti_mb'.out = PlainTo(ti_records, R)
    BY <1>1, <1>6, <1>9, <2>3
  <2>8. /\ ti_mb' \in MbType /\ ti_wire' \in Seq(Pairs) /\ ti_buffer' \in Seq(Pairs)
        /\ ti_parsed' \in Seq(Pairs)
        /\ After(ti_records, ti_wire', ti_mb', R) /\ Partial(ti_records, ti_mb', R)
    BY <1>1, <1>3, <1>7, <1>9
  <2>9. R = 0 <=> "ws" = "handshake" BY <1>6
  <2> QED BY <1>1, <1>6, <2>1, <2>5, <2>6, <2>7, <2>8, <2>9, OpenKeeps
<1>10. ASSUME r.ret = "data", ti_parsed' = ti_parsed \o d, ti_conn' = ti_conn \/ Closed("frames")
       PROVE  InputInv'
  <2>1. d \in Seq(Pairs) /\ Consumes(ti_mb, d, rm) /\ Continues(ti_mb, R, d, rm) /\ Len(d) \in Nat
    BY <1>7, <1>10, LenProperties
  <2>2. ti_parsed' \in Seq(Pairs) BY <1>3, <1>10, <2>1, ConcatProperties
  <2>3. PICK Q \in 1 .. Len(ti_records) :
          /\ After(ti_records, ti_wire, rm, Q) /\ Partial(ti_records, rm, Q)
          /\ (ti_parsed \o (ti_buffer \o d)) \o rm.out = PlainTo(ti_records, Q)
    <3> DEFINE p == ti_parsed \o ti_buffer
    <3>1. /\ ti_parsed \in Seq(Pairs) /\ ti_buffer \in Seq(Pairs) /\ d \in Seq(Pairs)
          /\ Continues(ti_mb, R, d, rm) /\ p = ti_parsed \o ti_buffer
          /\ p \o ti_mb.out = PlainTo(ti_records, R)
      BY <1>3, <1>6, <2>1
    <3> HIDE DEF p
    <3>2. Reached(ti_parsed \o (ti_buffer \o d), rm) BY <3>1, AppendsNext
    <3> QED BY <3>2 DEF Reached
  <2>4. ti_parsed' \o ti_buffer' = ti_parsed \o (ti_buffer \o d)
    <3>1. ti_buffer \o d = d BY <1>4, <2>1, ConcatEmptySeq
    <3>2. ti_parsed' \o <<>> = ti_parsed' BY <2>2, ConcatEmptySeq
    <3> QED BY <1>1, <1>4, <1>10, <3>1, <3>2
  <2>5. (ti_parsed' \o ti_buffer') \o ti_mb'.out = PlainTo(ti_records, Q) BY <1>1, <2>3, <2>4
  <2>6. /\ ti_mb' \in MbType /\ ti_wire' \in Seq(Pairs) /\ ti_buffer' \in Seq(Pairs)
        /\ After(ti_records, ti_wire', ti_mb', Q) /\ Partial(ti_records, ti_mb', Q)
        /\ Q \in 0 .. Len(ti_records) /\ (Q = 0 <=> "ws" = "handshake")
    BY <1>1, <1>3, <1>7, <2>3
  <2>7. CASE Closed("frames")
    <3> DEFINE a == ti_parsed' \o ti_buffer'
               b == ti_mb'.out
    <3>1. a \in Seq(Pairs) BY <2>2, <2>6, ConcatProperties
    <3>2. b \in Seq(Pairs) BY <2>6 DEF MbType
    <3>3. a \o b = PlainTo(ti_records, Q) BY <2>5
    <3> HIDE DEF a, b
    <3>4. SeqExt!IsPrefix(a, PlainTo(ti_records, Len(ti_records)))
      BY <1>3, <2>6, <3>1, <3>2, <3>3, DecryptedIsSent
    <3>5. "frames" \in Reasons /\ "frames" # "nobufs" BY DEF Reasons
    <3>6. SeqExt!IsPrefix(ti_parsed' \o ti_buffer', PlainTo(ti_records, Len(ti_records)))
      BY <3>4 DEF a
    <3> QED BY <1>1, <2>2, <2>6, <2>7, <3>5, <3>6, ClosedKeeps
  <2>8. CASE ti_conn' = ti_conn
    <3>1. Standing("ws", "ws", ti_conn.filled) BY <1>1, <1>3, <1>4, <2>8 DEF Standing
    <3>2. ti_conn'.state = "ws" /\ ti_conn'.at = "ws" BY <1>1, <1>4, <2>8
    <3>3. rm.cipher \in Seq(Pairs) /\ rm.out \in Seq(Pairs) /\ Len(rm.cipher) \in Nat /\ Len(rm.out) \in Nat
      BY <1>7, LenProperties DEF MbType
    <3>4. Len(rm.cipher) <= Len(ti_mb.cipher) BY <1>3, <2>1, <3>3 DEF Consumes
    <3>5. Len(ti_mb'.cipher) <= ReadSize BY <1>1, <1>3, <1>4, <1>5, <3>3, <3>4
    <3>6. Places' BY <1>1, <1>4, <3>2, <3>5 DEF Places
    <3>7. Small(ti_records) => Room'
      <4>1. SUFFICES ASSUME Small(ti_records) PROVE Room' OBVIOUS
      <4>2. Len(ti_mb.out) < ReadSize BY <1>3, <4>1 DEF Room
      <4>3. Len(d) + Len(rm.out) = Len(ti_mb.out) \/ Len(rm.out) < ReadSize
        BY <2>1, <4>1 DEF Consumes
      <4>4. Len(rm.out) < ReadSize BY <1>3, <1>5, <2>1, <3>3, <4>2, <4>3
      <4> QED BY <1>1, <3>2, <4>4 DEF Room
    <3> QED BY <1>1, <1>3, <2>2, <2>5, <2>6, <3>1, <3>6, <3>7, OpenKeeps
  <2> QED BY <1>10, <2>7, <2>8
<1> QED BY <1>1, <1>8, <1>9, <1>10

\* A record more makes both streams longer.
IsExtended(records, record, more) ==
  LET n == Len(records) IN
  /\ more \in Seq(RecordType) /\ Len(more) = n + 1 /\ more[n + 1] = record /\ n \in Nat
  /\ \A k \in 1 .. n : more[k] = records[k]
  /\ \A k \in 0 .. n : /\ CipherTo(more, k) = CipherTo(records, k)
                       /\ PlainTo(more, k) = PlainTo(records, k)
  /\ CipherRow(n + 1, record.size) \in Seq(Pairs) /\ PlainRow(n + 1, record) \in Seq(Pairs)
  /\ CipherTo(more, n + 1) = CipherTo(records, n) \o CipherRow(n + 1, record.size)
  /\ PlainTo(more, n + 1) = PlainTo(records, n) \o PlainRow(n + 1, record)

\* A record more extends both streams and leaves what was there.
LEMMA StreamsGrow ==
  ASSUME NEW records \in Seq(RecordType), NEW record \in RecordType
  PROVE  IsExtended(records, record, Append(records, record))
<1> DEFINE n == Len(records)
           more == Append(records, record)
<1>1. /\ more \in Seq(RecordType) /\ Len(more) = n + 1 /\ more[n + 1] = record /\ n \in Nat
      /\ \A k \in 1 .. n : more[k] = records[k]
  BY AppendProperties, LenProperties
<1> HIDE DEF more
<1>2. DOMAIN records = 1 .. n /\ DOMAIN more = 1 .. n + 1 BY <1>1, LenProperties
<1>3. ASSUME NEW k \in 0 .. n
      PROVE  CipherTo(more, k) = CipherTo(records, k) /\ PlainTo(more, k) = PlainTo(records, k)
  <2>1. ASSUME NEW r \in 1 .. k
        PROVE  /\ Ciphers(more)[r] = Ciphers(records)[r]
               /\ Plains(more)[r] = Plains(records)[r]
    <3>1. r \in 1 .. n /\ r \in 1 .. n + 1 BY <1>1, <1>3, <2>1
    <3>2. more[r] = records[r] BY <1>1, <3>1
    <3> QED BY <1>2, <3>1, <3>2 DEF Ciphers, Plains
  <2> QED BY <2>1, FirstSame DEF CipherTo, PlainTo
<1>4. n \in 0 .. Len(more) - 1 /\ n \in 0 .. n BY <1>1
<1>5. /\ CipherRow(n + 1, more[n + 1].size) \in Seq(Pairs)
      /\ PlainRow(n + 1, more[n + 1]) \in Seq(Pairs)
      /\ CipherTo(more, n + 1) = CipherTo(more, n) \o CipherRow(n + 1, more[n + 1].size)
      /\ PlainTo(more, n + 1) = PlainTo(more, n) \o PlainRow(n + 1, more[n + 1])
  BY <1>1, <1>4, StreamFacts
<1>6. CipherTo(more, n) = CipherTo(records, n) /\ PlainTo(more, n) = PlainTo(records, n)
  BY <1>3, <1>4
<1> QED BY <1>1, <1>3, <1>5, <1>6 DEF IsExtended, more

\* The last of what is joined.
LastApart(a, b, c, d, e) == a \o (b \o (c \o (d \o e))) = (a \o (b \o (c \o d))) \o e

\* What follows is extended where it ends.
LEMMA ConcatLast ==
  ASSUME NEW a \in Seq(Pairs), NEW b \in Seq(Pairs), NEW c \in Seq(Pairs), NEW d \in Seq(Pairs),
         NEW e \in Seq(Pairs)
  PROVE  LastApart(a, b, c, d, e)
<1> DEFINE v == c \o d
           u == b \o v
<1>1. v \in Seq(Pairs) BY ConcatProperties
<1>2. v \o e = c \o (d \o e) BY ConcatAssociative
<1> HIDE DEF v
<1>3. u \in Seq(Pairs) BY <1>1, ConcatProperties
<1>4. u \o e = b \o (v \o e) BY <1>1, ConcatAssociative
<1> HIDE DEF u
<1>5. (a \o u) \o e = a \o (u \o e) BY <1>3, ConcatAssociative
<1> QED BY <1>2, <1>4, <1>5 DEF u, v, LastApart

\* A record that the peer sends preserves it.
LEMMA PeerSendsKeeps ==
  ASSUME InputInv, NEW kind \in {"handshake", "data", "notify"}, NEW size \in Nat \ {0},
         PeerSends(kind, size)
  PROVE  InputInv'
<1> DEFINE n == Len(ti_records)
           record == [kind |-> kind, size |-> size]
           row == CipherRow(n + 1, size)
           prow == PlainRow(n + 1, record)
           C == CipherTo(ti_records, n)
           P == PlainTo(ti_records, n)
           more == ti_records'
           given == ti_parsed \o ti_buffer
<1>1. /\ kind = "handshake" <=> n = 0
      /\ more = Append(ti_records, record) /\ ti_wire' = ti_wire \o Bytes(n + 1, 0)
      /\ ti_mb' = ti_mb /\ ti_buffer' = ti_buffer /\ ti_parsed' = ti_parsed /\ ti_conn' = ti_conn
  BY DEF PeerSends
<1>2. /\ InputType /\ RecordsOK(ti_records) /\ ti_records \in Seq(RecordType)
      /\ SeqExt!IsPrefix(given, P)
      /\ ti_wire \in Seq(Pairs) /\ ti_parsed \in Seq(Pairs) /\ ti_buffer \in Seq(Pairs)
  BY DEF InputInv, InputType, RecordsOK
<1>3. record \in RecordType /\ record.size = size /\ record.kind = kind BY DEF RecordType
<1> HIDE DEF more, record
<1>4. /\ more \in Seq(RecordType) /\ Len(more) = n + 1 /\ more[n + 1] = record /\ n \in Nat
      /\ \A k \in 1 .. n : more[k] = ti_records[k]
      /\ \A k \in 0 .. n : /\ CipherTo(more, k) = CipherTo(ti_records, k)
                           /\ PlainTo(more, k) = PlainTo(ti_records, k)
      /\ row \in Seq(Pairs) /\ prow \in Seq(Pairs)
      /\ CipherTo(more, n + 1) = C \o row
      /\ PlainTo(more, n + 1) = P \o prow
  <2>1. IsExtended(ti_records, record, more) BY <1>1, <1>2, <1>3, StreamsGrow
  <2> QED BY <1>3, <2>1 DEF IsExtended
<1>5. Bytes(n + 1, 0) = row
  <2>1. more[n + 1].size = size BY <1>3, <1>4
  <2>2. size + 1 - 0 = size + 1 OBVIOUS
  <2>3. \A j \in 1 .. size + 1 : j - 1 + 0 = j - 1 OBVIOUS
  <2>4. Bytes(n + 1, 0) = [j \in 1 .. size + 1 |-> <<n + 1, j - 1 + 0>>]
    BY <2>1, <2>2 DEF Bytes, more
  <2> QED BY <2>3, <2>4 DEF CipherRow
<1>6. C \in Seq(Pairs) /\ P \in Seq(Pairs)
  <2>1. n \in 0 .. n BY <1>4
  <2> QED BY <1>2, <2>1, StreamFacts
<1> HIDE DEF row, prow, C, P
<1>7. \A k \in 0 .. n : /\ CipherTo(ti_records, k) \in Seq(Pairs) /\ PlainTo(ti_records, k) \in Seq(Pairs)
                        /\ SeqExt!IsPrefix(CipherTo(ti_records, k), C)
                        /\ SeqExt!IsPrefix(PlainTo(ti_records, k), P)
  BY <1>2, StreamFacts DEF RecordsOK, C, P
<1>8. given \in Seq(Pairs) BY <1>2, ConcatProperties
<1>9. SeqExt!IsPrefix(given, P \o prow)
  <2> HIDE DEF given
  <2> QED BY <1>2, <1>4, <1>6, <1>8, PrefixGrows
<1>10. RecordsOK(more)
  <2>1. ASSUME NEW r \in 1 .. n + 1 PROVE more[r].kind = "handshake" <=> r = 1
    <3>1. CASE r \in 1 .. n BY <1>2, <1>4, <3>1 DEF RecordsOK
    <3>2. CASE r = n + 1 BY <1>1, <1>3, <1>4, <3>2
    <3> QED BY <1>4, <2>1, <3>1, <3>2
  <2>2. ASSUME NEW k \in 0 .. n + 1
        PROVE  /\ SeqExt!IsPrefix(CipherTo(more, k), C \o row)
               /\ SeqExt!IsPrefix(PlainTo(more, k), P \o prow)
    <3>1. CASE k \in 0 .. n
      <4>1. CipherTo(more, k) = CipherTo(ti_records, k) /\ PlainTo(more, k) = PlainTo(ti_records, k)
        BY <1>4, <3>1
      <4>2. SeqExt!IsPrefix(CipherTo(ti_records, k), C \o row)
        BY <1>4, <1>6, <1>7, <3>1, PrefixGrows
      <4>3. SeqExt!IsPrefix(PlainTo(ti_records, k), P \o prow)
        BY <1>4, <1>6, <1>7, <3>1, PrefixGrows
      <4> QED BY <4>1, <4>2, <4>3
    <3>2. CASE k = n + 1
      <4>1. n \in 0 .. n BY <1>4
      <4>2. SeqExt!IsPrefix(C, C) /\ SeqExt!IsPrefix(P, P) BY <1>7, <4>1 DEF C, P
      <4>3. SeqExt!IsPrefix(C \o row, C \o row) BY <1>4, <1>6, <4>2, PrefixGrows
      <4>4. SeqExt!IsPrefix(P \o prow, P \o prow) BY <1>4, <1>6, <4>2, PrefixGrows
      <4> QED BY <1>4, <3>2, <4>3, <4>4
    <3> QED BY <1>4, <2>2, <3>1, <3>2
  <2> QED BY <1>4, <2>1, <2>2 DEF RecordsOK
<1>11. ti_wire' = ti_wire \o row /\ ti_wire' \in Seq(Pairs)
  <2>1. ti_wire \o row \in Seq(Pairs) BY <1>2, <1>4, ConcatProperties
  <2> QED BY <1>1, <1>5, <2>1
<1>12. InputType' BY <1>1, <1>2, <1>11 DEF InputType
<1>13. Small(more) => Small(ti_records)
  <2>1. DOMAIN more = 1 .. n + 1 /\ DOMAIN ti_records = 1 .. n BY <1>2, <1>4, LenProperties
  <2>2. \A r \in 1 .. n : r \in 1 .. n + 1 BY <1>4
  <2> QED BY <1>4, <2>1, <2>2 DEF Small
<1>14. ASSUME ti_conn.state # "closed" PROVE Progress'
  <2>1. PICK R \in 0 .. n :
          /\ After(ti_records, ti_wire, ti_mb, R) /\ Partial(ti_records, ti_mb, R)
          /\ given \o ti_mb.out = PlainTo(ti_records, R)
          /\ R = 0 <=> ti_conn.state = "handshake"
    BY <1>14 DEF InputInv, Progress
  <2> DEFINE A == CipherTo(ti_records, R)
             i == ti_mb.in
             c == ti_mb.cipher
             w == ti_wire
  <2>2. i \in Seq(Pairs) /\ c \in Seq(Pairs) /\ w \in Seq(Pairs) /\ A \in Seq(Pairs) /\ ti_mb \in MbType
    BY <1>2, <1>7, <2>1 DEF InputType, MbType
  <2>3. A \o (i \o (c \o w)) = C BY <2>1 DEF After, Unread, C
  <2>4. Unread(ti_mb', ti_wire') = i \o (c \o (w \o row)) BY <1>1, <1>11 DEF Unread
  <2> HIDE DEF A, i, c, w
  <2>5. A \o (i \o (c \o (w \o row))) = C \o row
    <3>1. /\ A \in Seq(Pairs) /\ i \in Seq(Pairs) /\ c \in Seq(Pairs) /\ w \in Seq(Pairs)
          /\ row \in Seq(Pairs)
      BY <1>4, <2>2
    <3>2. LastApart(A, i, c, w, row) BY <3>1, ConcatLast
    <3> QED BY <2>3, <3>2 DEF LastApart
  <2>6. After(more, ti_wire', ti_mb', R)
    <3>1. R \in 0 .. n + 1 /\ CipherTo(more, R) = A BY <1>4, <2>1 DEF A
    <3> QED BY <1>4, <2>4, <2>5, <3>1 DEF After
  <2>7. Partial(more, ti_mb', R)
    <3>1. SUFFICES ASSUME ti_mb.in # <<>> PROVE Len(ti_mb.in) <= more[R + 1].size
      BY <1>1 DEF Partial
    <3>2. R \in 0 .. n - 1 BY <1>2, <2>1, <2>2, <3>1, CollectedIs
    <3>3. R + 1 \in 1 .. n BY <1>4, <3>2
    <3>4. Len(ti_mb.in) <= ti_records[R + 1].size BY <2>1, <3>1 DEF Partial
    <3> QED BY <1>4, <3>3, <3>4
  <2>8. (ti_parsed' \o ti_buffer') \o ti_mb'.out = PlainTo(more, R) BY <1>1, <1>4, <2>1
  <2>9. R \in 0 .. Len(more) BY <1>4, <2>1
  <2> QED BY <1>1, <2>1, <2>6, <2>7, <2>8, <2>9 DEF Progress, more
<1>15. ti_conn.state # "closed" => Places' /\ (Small(more) => Room')
  BY <1>1, <1>13 DEF InputInv, Places, Room, Drained
<1>16. SeqExt!IsPrefix(ti_parsed' \o ti_buffer', PlainTo(more, Len(more))) BY <1>1, <1>4, <1>9
<1>17. /\ ti_conn'.why = "nobufs" => ~Small(more)
       /\ ti_conn'.state = "closed" => ti_conn'.at = "idle"
  BY <1>1, <1>13 DEF InputInv
<1> QED BY <1>1, <1>10, <1>12, <1>14, <1>15, <1>16, <1>17 DEF InputInv, more

\* Every step preserves it.
LEMMA InputStep == InputInv /\ [TlsInputNext]_tlsInputVars => InputInv'
<1>1. SUFFICES ASSUME InputInv, [TlsInputNext]_tlsInputVars PROVE InputInv' OBVIOUS
<1>2. CASE \E s \in RecordSizes : PeerSends("data", s)
  <2>1. PICK s \in RecordSizes : PeerSends("data", s) BY <1>2
  <2>2. s \in Nat \ {0} BY <2>1, TlsInputAssumption
  <2> QED BY <1>1, <2>1, <2>2, PeerSendsKeeps
<1>3. CASE PeerSends("handshake", 1)
  <2>1. 1 \in Nat \ {0} OBVIOUS
  <2> QED BY <1>1, <1>3, <2>1, PeerSendsKeeps
<1>4. CASE PeerSends("notify", 1)
  <2>1. 1 \in Nat \ {0} OBVIOUS
  <2> QED BY <1>1, <1>4, <2>1, PeerSendsKeeps
<1>5. CASE \E n \in 1 .. ReadSize : OnRead(n) BY <1>1, <1>5, OnReadKeeps
<1>6. CASE ReadError("nobufs") BY <1>1, <1>6, ReadErrorKeeps
<1>7. CASE ReadError("eof") BY <1>1, <1>7, ReadErrorKeeps
<1>8. CASE Handshake BY <1>1, <1>8, HandshakeKeeps
<1>9. CASE Decrypt BY <1>1, <1>9, DecryptKeeps
<1>10. CASE Parse BY <1>1, <1>10, ParseKeeps
<1>11. CASE WsDecrypt BY <1>1, <1>11, WsDecryptKeeps
<1>12. CASE UNCHANGED tlsInputVars
  BY <1>1, <1>12 DEF tlsInputVars, InputInv, InputType, Progress, Places, Room
<1> QED BY <1>1, <1>2, <1>3, <1>4, <1>5, <1>6, <1>7, <1>8, <1>9, <1>10, <1>11, <1>12 DEF TlsInputNext

\* It implies what is checked.
LEMMA InputIsInOrder == InputInv => InputInOrder
<1>1. SUFFICES ASSUME InputInv PROVE InputInOrder OBVIOUS
<1>2. RecordsOK(ti_records) /\ ti_records \in Seq(RecordType) /\ InputType
  BY <1>1 DEF InputInv, RecordsOK
<1>3. /\ Len(ti_records) \in Nat /\ DOMAIN ti_records = 1 .. Len(ti_records)
      /\ \A r \in 1 .. Len(ti_records) : ti_records[r] \in RecordType
  BY <1>2, LenProperties, ElementOfSeq
<1>4. Sent = PlainTo(ti_records, Len(ti_records))
  <2>1. [r \in 1 .. Len(ti_records) |-> Plains(ti_records)[r]] =
          [r \in DOMAIN ti_records |->
            IF ti_records[r].kind = "data" THEN [j \in 1 .. ti_records[r].size |-> <<r, j>>]
            ELSE <<>>]
    BY <1>3 DEF Plains, PlainRow, Row
  <2> QED BY <2>1 DEF Sent, PlainTo, FirstOf
<1>5. SeqExt!IsPrefix(ti_parsed \o ti_buffer, Sent) BY <1>1, <1>4 DEF InputInv
<1>6. ASSUME ti_conn.state \in {"http", "ws"}, ti_conn.at = "idle", ~ti_conn.filled
      PROVE  SslRead(ti_mb, ReadSize).ret = "want"
  <2>1. /\ Progress /\ Drained(ti_mb) BY <1>1, <1>6 DEF InputInv, Places
  <2>2. ti_mb \in MbType /\ ti_wire \in Seq(Pairs) BY <1>2 DEF InputType
  <2>3. PICK R \in 0 .. Len(ti_records) :
          After(ti_records, ti_wire, ti_mb, R) /\ Partial(ti_records, ti_mb, R)
    BY <2>1 DEF Progress
  <2> DEFINE f == Fetched(ti_mb)
  <2>4. f \in MbType /\ (Complete(f) => Len(f.cipher) < Len(ti_mb.cipher))
    BY <1>2, <2>2, <2>3, FetchedIs
  <2>5. ~Complete(f)
    <3> HIDE DEF f
    <3>1. Len(ti_mb.cipher) = 0 BY <2>1 DEF Drained
    <3>2. f.cipher \in Seq(Pairs) BY <2>4 DEF MbType
    <3>3. Len(f.cipher) \in Nat BY <3>2, LenProperties
    <3> QED BY <2>4, <3>1, <3>3
  <2>6. ti_mb.out = <<>> BY <2>1 DEF Drained
  <2> QED BY <2>5, <2>6 DEF SslRead
<1>7. ASSUME ti_conn.why = "nobufs"
      PROVE  \E r \in DOMAIN ti_records : ti_records[r].size > ReadSize
  <2>1. PICK r \in DOMAIN ti_records : ~(ti_records[r].size <= ReadSize)
    BY <1>1, <1>7 DEF InputInv, Small
  <2>2. ti_records[r].size \in Nat /\ ReadSize \in Nat
    BY <1>3, <2>1, TlsInputAssumption DEF RecordType
  <2> QED BY <2>1, <2>2
<1> QED BY <1>5, <1>6, <1>7 DEF InputInOrder

\* Both directions of TLS, for every buffer size, every cut of the ciphertext and
\* every length of records and responses: on_read, on_websocket_read and
\* uvhttp_connection_tls_write.
THEOREM PlaintextArrivesInOrder == TlsInputSpec /\ TlsOutputSpec => []PlaintextInOrder
<1>1. TlsInputInit => InputInv BY TlsInputStarts
<1>2. InputInv /\ [TlsInputNext]_tlsInputVars => InputInv' BY InputStep
<1>3. InputInv => InputInOrder BY InputIsInOrder
<1>4. TlsInputSpec => []InputInOrder BY <1>1, <1>2, <1>3, PTL DEF TlsInputSpec
<1>5. TlsOutputSpec => []OutputInOrder BY ResponsesArriveInOrder
<1>6. InputInOrder /\ OutputInOrder => PlaintextInOrder BY DEF PlaintextInOrder
<1> QED BY <1>4, <1>5, <1>6, PTL

=============================================================================
