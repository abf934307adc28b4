------------------------------ MODULE MCStreams -------------------------------
(***************************************************************************)
(* Connections, and the bytes of the WebSocket frames on them.  The        *)
(* modules of the two share no state, so that a behaviour is one of a      *)
(* single component: part says which.                                      *)
(***************************************************************************)
EXTENDS MCConnection, WsFrame

VARIABLE part

Parts == {"connections", "frames"}

\* Only part p may move.
Only(p) ==
  /\ part = p /\ UNCHANGED part
  /\ p # "connections" => UNCHANGED vars
  /\ p # "frames" => UNCHANGED wsFrameVars

StreamsInit ==
  /\ part \in Parts /\ Init /\ WsFrameInit
  /\ part # "frames" => wf_end.server /\ wf_end.by = "process_data"

StreamsNext ==
  \/ Only("connections") /\ Next
  \/ Only("frames") /\ WsFrameNext

StreamsSpec == StreamsInit /\ [][StreamsNext]_<<part, vars, wsFrameVars>>

===============================================================================
