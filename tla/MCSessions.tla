----------------------------- MODULE MCSessions -----------------------------
(***************************************************************************)
(* A small instance of RemoteAssist and one of ModelGateway: a behaviour   *)
(* is one of                                                               *)
(*   model: one request, two workers, two versions of the model;           *)
(*   raced: two of the owner's desktop requests are served together;       *)
(*   serial: one at a time, with restarts, timeouts or refused captures.   *)
(***************************************************************************)
EXTENDS RemoteAssist, ModelGateway

VARIABLES part

mcvars == <<part, vars, gatewayVars>>

\* The module that does not run stays in one of its initial states.
MCInit ==
  /\ Init /\ GatewayInit
  /\ \/ part = "model"
     \/ part \in {"raced", "serial"}
        /\ offered = [n \in Hosts |-> CHOOSE v \in Versions : TRUE]

MCNext ==
  /\ UNCHANGED part
  /\ \/ part = "model" /\ GatewayNext /\ UNCHANGED vars
     \/ part = "raced" /\ Next /\ faults' = 0 /\ UNCHANGED gatewayVars
     \/ part = "serial" /\ Next /\ UNCHANGED gatewayVars
        /\ \A c \in Calls \ {1} : calls'[c] = NoCall

MCSpec == MCInit /\ [][MCNext]_mcvars /\ GatewayFairness
=============================================================================
