------------------------------ MODULE RateLimit ------------------------------
(***************************************************************************)
(* The rate limiter of a server (uvhttp_server.c) and its use by every     *)
(* request (uvhttp_request.c): one counter for all clients, a window that  *)
(* the first request behind its end opens anew, and a list of addresses    *)
(* that are not counted, kept as an array and as a hash table.             *)
(*                                                                         *)
(* The clock counts units of which a window has a few.  The hash table     *)
(* keeps INET_ADDRSTRLEN bytes of an address: longer ones, which only IPv6 *)
(* has, are cut, and clients are looked up by their IPv4 address.          *)
(***************************************************************************)
EXTENDS Integers, Sequences, FiniteSets

CONSTANTS
  Addresses,     \* IPv4 clients
  LongAddresses, \* IPv6 addresses that may be listed too
  RlLimits, RlWindows,  \* values for max_requests and window_seconds
  RlMaxTime, MaxListed  \* bounds: the clock, the listed addresses

ASSUME RateLimitAssumption ==
  /\ RlLimits \subseteq Nat \ {0} /\ RlWindows \subseteq Nat \ {0}
  /\ RlMaxTime \in Nat /\ MaxListed \in Nat
  /\ Addresses \cap LongAddresses = {} /\ "cut" \notin Addresses

VARIABLES
  rl,       \* the rate_limit_* fields
  rl_list,  \* rate_limit_whitelist, as far as rate_limit_whitelist_count
  rl_array, \* where rate_limit_whitelist points: null, block, or dangling
  rl_hash,  \* rate_limit_whitelist_hash, in order of insertion
  rl_now,   \* uv_hrtime in units
  rl_log    \* when requests were counted since the counter was last set back

rateVars == <<rl, rl_list, rl_array, rl_hash, rl_now, rl_log>>

RateInit ==
  /\ rl = [enabled |-> FALSE, max |-> 0, window |-> 1, count |-> 0, start |-> 0]
  /\ rl_list = <<>> /\ rl_array = "null" /\ rl_hash = <<>> /\ rl_now = 0 /\ rl_log = <<>>

-----------------------------------------------------------------------------

\* uvhttp_server_enable_rate_limit, also while it is enabled.
EnableRateLimit(max, window) ==
  /\ rl' = [enabled |-> TRUE, max |-> max, window |-> window, count |-> 0, start |-> 0]
  /\ rl_log' = <<>>
  /\ UNCHANGED <<rl_list, rl_array, rl_hash, rl_now>>

\* uvhttp_server_disable_rate_limit
DisableRateLimit ==
  /\ rl' = [rl EXCEPT !.enabled = FALSE, !.count = 0, !.start = 0]
  /\ rl_log' = <<>>
  /\ UNCHANGED <<rl_list, rl_array, rl_hash, rl_now>>

\* Mutant: the new window starts where the old one ended.
OpenedEarly(r) ==
  IF rl_now - r.start >= r.window THEN [r EXCEPT !.count = 0, !.start = rl_now - r.window + 1]
  ELSE r

\* The window of uvhttp_server_check_rate_limit: opened anew when it is over.
Opened(r) ==
  IF rl_now - r.start >= r.window THEN [r EXCEPT !.count = 0, !.start = rl_now] ELSE r

\* is_client_whitelisted
Whitelisted(ip) == Len(rl_list) > 0 /\ \E i \in DOMAIN rl_hash : rl_hash[i] = ip

\* check_rate_limit_whitelist for a request of client ip: it is not counted, or
\* counted, or answered 429.
CheckRateLimit(ip) ==
  LET r == Opened(rl) IN
  /\ rl.enabled /\ ~Whitelisted(ip)
  /\ \/ /\ r.count < r.max
        /\ rl' = [r EXCEPT !.count = @ + 1]
        /\ rl_log' = Append(rl_log, rl_now)
     \/ /\ r.count >= r.max
        /\ rl' = r /\ UNCHANGED rl_log
  /\ UNCHANGED <<rl_list, rl_array, rl_hash, rl_now>>

\* What the hash table keeps of an address.
StoredAddress(ip) == IF ip \in LongAddresses THEN "cut" ELSE ip

\* Where uvhttp_realloc(p, n) of the rollback leaves rate_limit_whitelist, when it
\* held n addresses before: for n = 0 the system's realloc frees the array and
\* returns NULL, so that the pointer is kept; mimalloc's returns a block.
RolledBack(n) == IF n = 0 THEN {"dangling", "block"} ELSE {"block"}

\* uvhttp_server_add_rate_limit_whitelist.  An address that is cut is not found
\* by the test for one that is listed already.  The array cannot grow, the copy
\* of the address or the item of the table cannot be allocated, or all is well.
\* What an addition does to a dangling array is not followed.
AddWhitelist(ip) ==
  /\ Len(rl_list) < MaxListed /\ rl_array # "dangling"
  /\ ~\E i \in DOMAIN rl_hash : rl_hash[i] = ip
  /\ \/ UNCHANGED <<rl_list, rl_array, rl_hash>>
     \/ rl_array' \in RolledBack(Len(rl_list)) /\ UNCHANGED <<rl_list, rl_hash>>
     \/ /\ rl_array' = "block"
        /\ rl_list' = Append(rl_list, ip) /\ rl_hash' = Append(rl_hash, StoredAddress(ip))
  /\ UNCHANGED <<rl, rl_now, rl_log>>

\* uvhttp_server_get_rate_limit_status; the counter is that of a window that may
\* be over.
Remaining == IF rl.enabled THEN rl.max - rl.count ELSE -1

\* uvhttp_server_clear_rate_limit_all
ClearRateLimit ==
  /\ rl' = [rl EXCEPT !.count = 0, !.start = 0] /\ rl_log' = <<>>
  /\ UNCHANGED <<rl_list, rl_array, rl_hash, rl_now>>

\* uvhttp_server_reset_rate_limit_client: it sets everybody's counter back.
ResetRateLimitClient ==
  /\ rl' = [rl EXCEPT !.count = 0, !.start = rl_now] /\ rl_log' = <<>>
  /\ UNCHANGED <<rl_list, rl_array, rl_hash, rl_now>>

RateTick ==
  /\ rl_now < RlMaxTime /\ rl_now' = rl_now + 1
  /\ UNCHANGED <<rl, rl_list, rl_array, rl_hash, rl_log>>

RateNext ==
  \/ \E m \in RlLimits, w \in RlWindows : EnableRateLimit(m, w)
  \/ \E ip \in Addresses : CheckRateLimit(ip)
  \/ \E ip \in Addresses \cup LongAddresses : AddWhitelist(ip)
  \/ DisableRateLimit \/ ClearRateLimit \/ ResetRateLimitClient \/ RateTick

RateSpec == RateInit /\ [][RateNext]_rateVars

-----------------------------------------------------------------------------

\* The requests counted in the units from t + 1 to t + n.
Counted(t, n) == Cardinality({i \in DOMAIN rl_log : t < rl_log[i] /\ rl_log[i] <= t + n})

\* No stretch of time as long as a window has more than twice the limit of
\* requests in it, wherever it lies and however the windows of
\* uvhttp_server_check_rate_limit fall; the counter never passes the limit,
\* and what uvhttp_server_get_rate_limit_status says is left is left.
RateBounded ==
  rl.enabled =>
    /\ \A t \in -1 .. rl_now : Counted(t, rl.window) <= 2 * rl.max
    /\ rl.count <= rl.max /\ Remaining \in 0 .. rl.max
    /\ rl.count = Cardinality({i \in DOMAIN rl_log : rl_log[i] >= rl.start})

\* The two forms of the list hold the same addresses, so that a listed IPv4
\* client is never counted: no failed allocation leaves an address in the array of
\* uvhttp_server_add_rate_limit_whitelist and not in its table, or the array of a
\* list that is not empty freed.  A list that is empty may be left with a pointer
\* to an array that the rollback of its first addition has freed.
WhitelistAgrees ==
  /\ Len(rl_list) = Len(rl_hash) /\ (rl_list # <<>> => rl_array = "block")
  /\ \A i \in DOMAIN rl_list : rl_hash[i] = StoredAddress(rl_list[i])
  /\ \A ip \in Addresses : (\E i \in DOMAIN rl_list : rl_list[i] = ip) => Whitelisted(ip)

\* The limiter counts all those it must, and no others.
RateLimitOK == RateBounded /\ WhitelistAgrees

=============================================================================
