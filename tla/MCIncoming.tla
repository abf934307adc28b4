------------------------------ MODULE MCIncoming ------------------------------
(***************************************************************************)
(* What comes in at a port: the connections, with the abstract life cycle  *)
(* that they implement, and the routes of their requests.  The modules of  *)
(* the two share no state, so that a behaviour is one of a single          *)
(* component: part says which.                                             *)
(***************************************************************************)
EXTENDS ConnectionRefines, MCRouter

VARIABLE part

Parts == {"connections", "router"}

\* Only part p may move.
Only(p) ==
  /\ part = p /\ UNCHANGED part
  /\ p # "connections" => UNCHANGED vars
  /\ p # "router" => UNCHANGED routerVars

IncomingInit == part \in Parts /\ Init /\ RouterInit

IncomingNext ==
  \/ Only("connections") /\ Next
  \/ Only("router") /\ RouterNext

IncomingSpec ==
  /\ IncomingInit /\ [][IncomingNext]_<<part, vars, routerVars>>
  /\ Fairness

===============================================================================
