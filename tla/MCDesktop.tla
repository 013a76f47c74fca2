----------------------------- MODULE MCDesktop -----------------------------
(***************************************************************************)
(* The desktop side on small instances.  A behaviour is one of three       *)
(* parts: the shell of one machine (Desktop); one pairing request with     *)
(* lost datagrams and a second approval (Lossy); or a request that is      *)
(* cancelled and followed by another, and an owner restart (Pairing with   *)
(* the configuration's bounds).                                            *)
(***************************************************************************)
EXTENDS Desktop, Pairing

VARIABLES part

Lossy == INSTANCE Pairing WITH MaxGenerations <- 1, MaxKeys <- 1,
           MaxNonces <- 2, MaxDrops <- 1, MaxRestarts <- 0

(* An empty directory, an enrolled worker, and an owner from before the    *)
(* confirmation marker existed.                                            *)
SmallRuntimes ==
  { [files |-> {}, cmds |-> 2],
    [files |-> {"pin", "ident"}, cmds |-> 2],
    [files |-> {"owner", "governor", "pin", "ident"}, cmds |-> 1] }

MCInit ==
  /\ Init /\ PairingInit
  /\ \/ part = "desktop"
     \/ part \in {"lossy", "again"} /\ files = {}

MCNext ==
  \/ part = "desktop" /\ Next /\ UNCHANGED pairingVars /\ UNCHANGED part
  \/ part = "lossy" /\ Lossy!PairingNext /\ UNCHANGED vars /\ UNCHANGED part
  \/ part = "again" /\ PairingNext /\ UNCHANGED vars /\ UNCHANGED part

On(p, A) == part = p /\ A

(* The fairness of Desktop's FairSpec and of Lossy!PairingFairSpec, each   *)
(* on its part.                                                            *)
MCSpec ==
  /\ MCInit /\ [][MCNext]_<<vars, pairingVars, part>>
  /\ WF_vars(On("desktop", Supervise))
  /\ WF_vars(On("desktop", \E p \in Agents : AgentStops(p)))
  /\ \A t \in Tasks : WF_vars(On("desktop", Step(t)))
  /\ WF_pairingVars(On("lossy", Lossy!TickHello(1)))
  /\ WF_pairingVars(On("lossy", \E o \in Owners : Lossy!RecvHello(o, 1)))
  /\ WF_pairingVars(On("lossy", \E m \in net : Lossy!RecvChallenge(m, 1)))
  /\ \A i \in 0..(Chunks - 1) :
       WF_pairingVars(On("lossy", \E m \in net :
         m.t = "chunk" /\ m.index = i /\ Lossy!RecvChunk(m, 1)))

(* An approval of a request whose laptop has found this owner reaches the  *)
(* laptop's disk although fragments are lost and reordered.                *)
ApprovalLands == part = "lossy" => Lossy!ApprovalIsStored
=============================================================================
