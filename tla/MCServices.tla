------------------------------ MODULE MCServices ------------------------------
(***************************************************************************)
(* The components around a connection, each on a small instance.  They     *)
(* share no state, so that a behaviour is one of a single component: part  *)
(* says which.  LruCache is here with one path and its faults, which       *)
(* LruCacheRefines leaves out.                                             *)
(***************************************************************************)
EXTENDS LruCache, Sendfile, StaticFiles, Response, RateLimit, RequestLimits,
        RouterCache, Upgrade, ServerSetup, TlsOutput

VARIABLE part

Parts == {"lru", "sendfile", "static", "response", "rate", "limits", "routes", "upgrade",
          "setup", "tls_in", "tls_out"}

\* Two bodies of which the longer compresses better.
MCBodyLength == [b \in {"x", "y"} |-> IF b = "x" THEN 5 ELSE 4]
MCCompressedLength == [b \in {"x", "y"} |-> IF b = "x" THEN 2 ELSE 3]

\* Colliding hashes, and a pattern that fits every request.
MCHash == [p \in {"/a", "/b", "/:x", "/s"} |->
             CASE p = "/b" -> 1 [] p = "/s" -> 2 [] OTHER -> 3]
MCFits == [p \in {"/:x"} |-> {"/a", "/b", "/s"}]

allVars == <<vars, sendfileVars, staticVars, responseVars, rateVars, limitVars,
             routerCacheVars, upgradeVars, setupVars, tlsInputVars, tlsOutputVars>>

\* Only part p may move.
Only(p) ==
  /\ part = p /\ UNCHANGED part
  /\ p # "lru" => UNCHANGED vars
  /\ p # "sendfile" => UNCHANGED sendfileVars
  /\ p # "static" => UNCHANGED staticVars
  /\ p # "response" => UNCHANGED responseVars
  /\ p # "rate" => UNCHANGED rateVars
  /\ p # "limits" => UNCHANGED limitVars
  /\ p # "routes" => UNCHANGED routerCacheVars
  /\ p # "upgrade" => UNCHANGED upgradeVars
  /\ p # "setup" => UNCHANGED setupVars
  /\ p # "tls_in" => UNCHANGED tlsInputVars
  /\ p # "tls_out" => UNCHANGED tlsOutputVars

ServicesInit ==
  /\ part \in Parts
  /\ Init /\ SendfileInit /\ StaticInit /\ ResponseInit /\ RateInit /\ LimitsInit
  /\ RouterCacheInit /\ UpgradeInit /\ SetupInit /\ TlsInputInit /\ TlsOutputInit
  /\ part # "lru" => config = CHOOSE c \in ConfigType : TRUE

ServicesNext ==
  \/ Only("lru") /\ Next
  \/ Only("sendfile") /\ SendfileNext
  \/ Only("static") /\ StaticNext
  \/ Only("response") /\ ResponseNext
  \/ Only("rate") /\ RateNext
  \/ Only("limits") /\ LimitsNext
  \/ Only("routes") /\ RouterCacheNext
  \/ Only("upgrade") /\ UpgradeNext
  \/ Only("setup") /\ SetupNext
  \/ Only("tls_in") /\ TlsInputNext
  \/ Only("tls_out") /\ TlsOutputNext

ServicesSpec ==
  /\ ServicesInit /\ [][ServicesNext]_<<part, allVars>>
  /\ SendfileFairness

===============================================================================
