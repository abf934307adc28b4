---------------------------- MODULE RequestLimits ----------------------------
(***************************************************************************)
(* The growth of a request's body buffer and header table while llhttp     *)
(* delivers it (on_body and uvhttp_request_add_header, uvhttp_request.c),  *)
(* over the requests of one connection.                                    *)
(***************************************************************************)
EXTENDS Integers

CONSTANTS
  MaxBody, InitialBody,  \* UVHTTP_MAX_BODY_SIZE, UVHTTP_INITIAL_BUFFER_SIZE
  MaxReqHeaders, InlineReqHeaders,  \* MAX_HEADERS, UVHTTP_INLINE_HEADERS_CAPACITY
  MaxPiece               \* bound: the longest piece of a body in one callback

ASSUME RequestLimitsAssumption ==
  /\ MaxBody \in Nat /\ InitialBody \in 0 .. MaxBody /\ MaxPiece \in Nat
  /\ InlineReqHeaders \in Nat \ {0} /\ MaxReqHeaders \in Nat
  /\ InlineReqHeaders <= MaxReqHeaders

VARIABLES
  body,     \* body_length and body_capacity
  table,    \* header_count, headers_capacity and the entries in headers_extra
  refused   \* why the parser was stopped: the length asked for, NoMemory, or 0

NoMemory == -1

limitVars == <<body, table, refused>>

LimitsInit ==
  /\ body = [length |-> 0, capacity |-> InitialBody]
  /\ table = [count |-> 0, capacity |-> InlineReqHeaders, extra |-> 0]
  /\ refused = 0

\* Mutant: the room needed is not considered.
DoubledOnly(cap, need) == IF need > cap THEN 2 * cap ELSE cap

\* The capacity on_body asks for.
NewCapacity(cap, need) ==
  IF need <= cap THEN cap ELSE IF 2 * cap < need THEN need ELSE 2 * cap

\* on_body: the doubled capacity is compared with the limit, or memory is short.
OnBodyPiece(n) ==
  LET need == body.length + n
      cap == NewCapacity(body.capacity, need)
  IN
  /\ refused = 0 /\ UNCHANGED table
  /\ \/ /\ cap <= MaxBody
        /\ body' = [length |-> need, capacity |-> cap] /\ UNCHANGED refused
     \/ /\ cap > MaxBody
        /\ refused' = need /\ UNCHANGED body
     \/ /\ cap # body.capacity /\ cap <= MaxBody
        /\ refused' = NoMemory /\ UNCHANGED body

\* uvhttp_request_add_header: the table doubles up to MAX_HEADERS; behind that, or
\* without memory, the header is dropped.
AddHeader ==
  LET cap == IF 2 * table.capacity > MaxReqHeaders THEN MaxReqHeaders ELSE 2 * table.capacity
  IN
  /\ refused = 0 /\ UNCHANGED <<body, refused>>
  /\ \/ /\ table.count < table.capacity
        /\ table' = [table EXCEPT !.count = @ + 1]
     \/ /\ table.count >= table.capacity /\ cap # table.capacity
        /\ table' = [count |-> table.count + 1, capacity |-> cap,
                     extra |-> cap - InlineReqHeaders]
     \/ /\ table.count >= table.capacity
        /\ UNCHANGED table

\* uvhttp_connection_restart_read frees the body, and keeps the header table.
NextRequest ==
  /\ refused = 0
  /\ body' = [length |-> 0, capacity |-> 0]
  /\ table' = [table EXCEPT !.count = 0]
  /\ UNCHANGED refused

LimitsNext == AddHeader \/ NextRequest \/ \E n \in 1 .. MaxPiece : OnBodyPiece(n)

LimitsSpec == LimitsInit /\ [][LimitsNext]_limitVars

-----------------------------------------------------------------------------

\* A body is held in its buffer and never passes UVHTTP_MAX_BODY_SIZE; one that
\* is refused is longer than the limit or at least than half of it (the doubled
\* capacity, not the length, is compared with the limit).  Every header counted
\* has its place, inline or in headers_extra.
WithinLimits ==
  /\ body.length <= body.capacity /\ body.capacity <= MaxBody
  /\ refused > 0 => 2 * refused > MaxBody
  /\ table.count <= InlineReqHeaders + table.extra
  /\ table.capacity = InlineReqHeaders + table.extra /\ table.capacity <= MaxReqHeaders

=============================================================================
