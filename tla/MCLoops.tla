------------------------------ MODULE MCLoops ------------------------------
(***************************************************************************)
(* Small instances of the controller's two minute loops.  A behaviour is   *)
(* one of                                                                  *)
(*   roomy: Replication with the constants of the configuration, in which  *)
(*     a cycle can probe every holder;                                     *)
(*   tight: Replication with one probe a cycle for two stale holders;      *)
(*   scan: Diagnostics of two nodes, the loop and a self-scan together.    *)
(* The variables of the other loop stay where they start.                  *)
(***************************************************************************)
EXTENDS Replication, Diagnostics

CONSTANTS w1, w2

VARIABLE part

One == {1}
Two == {1, 2}
Three == {1, 2, 3}
UnitSize == [d \in Two |-> 1]
FirstOnly == {<<1, 1>>}
FirstTwo == {<<1, 1>>, <<1, 2>>}
TwoEach == {<<1, 1>>, <<1, 2>>, <<2, 3>>, <<2, 4>>}

Tight == INSTANCE Replication WITH
  Digests <- One, Nodes <- Three, Size <- UnitSize, Recorded <- FirstTwo,
  Reachable <- Three, MaxProbes <- 1, ProbeBytes <- 1, MaxRepairs <- 1,
  Period <- 6, MaxFaults <- 1

mcvars == <<part, vars, scanVars>>

MCInit ==
  /\ ScanInit
  /\ \/ part \in {"roomy", "scan"} /\ Init
     \/ part = "tight" /\ Tight!Init

MCNext ==
  /\ UNCHANGED part
  /\ \/ part = "roomy" /\ Next /\ UNCHANGED scanVars
     \/ part = "tight" /\ Tight!Next /\ UNCHANGED scanVars
     \/ part = "scan" /\ ScanNext /\ UNCHANGED vars

\* The loops come round every minute and the runtime polls every ready task;
\* workers republish their offers.
MCFairness ==
  /\ WF_vars(part = "roomy" /\ CycleStep)
  /\ WF_vars(part = "roomy" /\ \E n \in Nodes : RegisterOffer(n) \/ OfferExpires(n))
  /\ WF_scanVars(part = "scan" /\ Snapshot("loop"))
  /\ \A s \in Scans : WF_scanVars(part = "scan" /\ ScanStep(s))

MCSpec == MCInit /\ [][MCNext]_mcvars /\ MCFairness

\* Replication alone, whatever the constants.
RotaSpec ==
  /\ part = "rota" /\ Init /\ ScanInit
  /\ [][Next /\ UNCHANGED <<part, scanVars>>]_mcvars
  /\ WF_vars(CycleStep)
  /\ WF_vars(\E n \in Nodes : RegisterOffer(n) \/ OfferExpires(n))

-----------------------------------------------------------------------------
\* The controller reconciles to two fresh receipts while two able nodes are
\* there, if a cycle can probe every holder.
RoomyReconciles == (part = "roomy" /\ Calm(1)) ~> (part # "roomy" \/ Settled(1))

\* docs/OPERATIONS.md: "The controller probes protected holders and reconciles
\* to two fresh, independently signed replicas every 60 seconds. A rotating
\* cycle authenticates at most four complete artifacts and 128 MiB".
EveryHolderHasItsTurn == Reconciles
=============================================================================
