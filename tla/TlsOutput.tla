------------------------------- MODULE TlsOutput -------------------------------
(***************************************************************************)
(* What a TLS connection writes: uvhttp_connection_tls_write gives a       *)
(* response to mbedtls piece by piece and comes back when mbedtls could    *)
(* not get rid of a record, because mbedtls_bio_send found the socket      *)
(* full.  mbedtls then keeps the record, and expects the same bytes again: *)
(* a call that finds a record waiting flushes it and takes none of the     *)
(* bytes it is given, though it reports that it did.                       *)
(*                                                                         *)
(* A byte is known by its call and its place in it.                        *)
(***************************************************************************)
EXTENDS TlsInput

CONSTANTS
  WriteSizes,   \* lengths of responses
  RecordLimit,  \* the most plaintext mbedtls puts into one record
  MaxRetries,   \* 200: fruitless calls in a row before tls_write gives up
  MaxWrites     \* bound: the responses

ASSUME TlsOutputAssumption ==
  /\ WriteSizes \subseteq Nat \ {0} /\ RecordLimit \in Nat \ {0}
  /\ MaxRetries \in Nat /\ MaxWrites \in Nat

VARIABLES
  to_calls,    \* the lengths of the responses given to tls_write so far
  to_now,      \* the call in progress: how far p is, and its retries
  to_pending,  \* the record mbedtls could not send whole: what is left of it
  to_peer,     \* what the peer got
  to_failed    \* a call gave up or failed

tlsOutputVars == <<to_calls, to_now, to_pending, to_peer, to_failed>>

NoCall == [at |-> 0, retries |-> 0, active |-> FALSE]

TlsOutputInit ==
  /\ to_calls = <<>> /\ to_now = NoCall
  /\ to_pending = <<>> /\ to_peer = <<>> /\ to_failed = FALSE

\* uvhttp_connection_tls_write is called.  Nothing is followed beyond a call
\* that failed: uvhttp_response_send_raw does not restart the connection then.
TlsWrite(len) ==
  /\ ~to_now.active /\ ~to_failed /\ Len(to_calls) < MaxWrites
  /\ to_calls' = Append(to_calls, len) /\ to_now' = [NoCall EXCEPT !.active = TRUE]
  /\ UNCHANGED <<to_pending, to_peer, to_failed>>

\* The next n bytes of the call in progress.
NextBytes(n) == [i \in 1 .. n |-> <<Len(to_calls), to_now.at + i>>]

\* mbedtls_bio_send: the socket takes j bytes of a record.
BioSend(record, j) ==
  /\ to_peer' = to_peer \o SubSeq(record, 1, j)
  /\ to_pending' = SubSeq(record, j + 1, Len(record))

\* One round of the loop: mbedtls_ssl_write with what remains of the response.
\* ret > 0: p and remaining move on; WANT_WRITE: again, or the call gives up.
WriteRound ==
  LET remaining == to_calls[Len(to_calls)] - to_now.at
      n == Min({remaining, RecordLimit})
      record == IF to_pending # <<>> THEN to_pending ELSE NextBytes(n)
  IN
  /\ to_now.active /\ remaining > 0 /\ UNCHANGED to_calls
  /\ \/ /\ BioSend(record, Len(record)) /\ UNCHANGED to_failed
        /\ to_now' = [to_now EXCEPT !.at = @ + n, !.retries = 0]
     \/ /\ \E j \in 0 .. Len(record) - 1 : BioSend(record, j)
        /\ IF to_now.retries >= MaxRetries THEN to_now' = NoCall /\ to_failed' = TRUE
           ELSE to_now' = [to_now EXCEPT !.retries = @ + 1] /\ UNCHANGED to_failed

\* mbedtls_ssl_write fails otherwise, and so does the call.
WriteError ==
  /\ to_now.active /\ to_now.at < to_calls[Len(to_calls)]
  /\ to_now' = NoCall /\ to_failed' = TRUE
  /\ UNCHANGED <<to_calls, to_pending, to_peer>>

WriteReturns ==
  /\ to_now.active /\ to_now.at = to_calls[Len(to_calls)]
  /\ to_now' = NoCall /\ UNCHANGED <<to_calls, to_pending, to_peer, to_failed>>

TlsOutputNext ==
  WriteRound \/ WriteError \/ WriteReturns \/ \E len \in WriteSizes : TlsWrite(len)

TlsOutputSpec == TlsOutputInit /\ [][TlsOutputNext]_tlsOutputVars

-----------------------------------------------------------------------------

Given == SeqExt!FlattenSeq([c \in DOMAIN to_calls |-> [i \in 1 .. to_calls[c] |-> <<c, i>>]])

\* The peer gets the bytes of the responses, each once and in order, however
\* often the socket was full in the middle of a record; all of them when the
\* calls return UVHTTP_OK.
OutputInOrder ==
  /\ SeqExt!IsPrefix(to_peer \o to_pending, Given)
  /\ ~to_now.active /\ ~to_failed => to_peer = Given

\* TLS adds and loses nothing, in either direction.
PlaintextInOrder == InputInOrder /\ OutputInOrder

=============================================================================
