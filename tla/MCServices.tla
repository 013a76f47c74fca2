----------------------------- MODULE MCServices -----------------------------
(***************************************************************************)
(* Four services around the scheduler, one per behaviour:                  *)
(*   relay      admission at the owner relay                               *)
(*   checkpoint the verification of the ledger at the controller's start   *)
(*   plan       the model planner and the network autopilot                *)
(*   dividend   the recording of benchmark results                         *)
(* A behaviour is one of one part; the others stay where they start.       *)
(***************************************************************************)
EXTENDS Relay, Checkpoint, Dividends

-----------------------------------------------------------------------------
(* The relay: two connections of one endpoint, one of another *)

CONSTANTS e1, e2, c1, c2, c3

MCOwner(c) == IF c = c3 THEN e2 ELSE e1

-----------------------------------------------------------------------------
(* The planners: three runtime entries of two groups, four kinds of runtime *)

CONSTANTS Entries, GroupKeys, Required, MaxNodes, Rtts, Mbps, NoLink

VARIABLES asked, plan

Kinds == {[par |-> {}, status |-> "shipped", link |-> 0],
          [par |-> {"pipeline"}, status |-> "qualified", link |-> 1],
          [par |-> {"pipeline", "tensor"}, status |-> "qualified", link |-> 3],
          [par |-> {"pipeline", "tensor"}, status |-> "candidate", link |-> 4]}

EntriesOf(keys) ==
    {[key |-> k, bytes |-> b, par |-> p.par, status |-> p.status, link |-> p.link] :
        k \in keys, b \in {2, 3}, p \in Kinds}

Planners == INSTANCE Planner WITH Runtimes <- EntriesOf(GroupKeys), Keys <- GroupKeys

-----------------------------------------------------------------------------
(* Dividends: a set of two jobs, with a true result, its twin under another *)
(* label, one with wrong figures and one that leaves a job out; and a set   *)
(* whose only job failed                                                    *)

CONSTANTS n1, n2, j1, j2, j3

Claim(n, f) == [node |-> n, figures |-> f]
Figures(a) == [j \in {j1, j2} |-> IF j = j1 THEN Claim(n1, a) ELSE Claim(n2, 7)]
Posted == {"true", "twin", "wrong", "short", "failed"}
Report(r) ==
    [set |-> IF r = "failed" THEN "duds" ELSE "pair", label |-> r,
     nodes |-> CASE r \in {"true", "twin"} -> Figures(5)
                 [] r = "wrong" -> Figures(6)
                 [] r = "short" -> [j \in {j1} |-> Claim(n1, 5)]
                 [] r = "failed" -> [j \in {j3} |-> Claim(n2, 7)]]

PairOrDuds(s) == IF s = "pair" THEN {j1, j2} ELSE {j3}
LeasedTo(j) == IF j = j1 THEN n1 ELSE n2
SignedBy(j) == [state |-> IF j = j3 THEN "failed" ELSE "succeeded",
                figures |-> IF j = j1 THEN 5 ELSE 7]

-----------------------------------------------------------------------------
(* The parts side by side *)

VARIABLE part

planVars == <<asked, plan>>
allVars == <<part, relayVars, checkpointVars, planVars, dividendVars>>

NoRequest == asked = 0 /\ plan = 0

ServicesInit ==
    /\ RelayInit /\ CheckpointInit /\ DividendsInit
    /\ \/ part \in {"relay", "checkpoint", "dividend"} /\ NoRequest
       \/ part = "plan" /\ Planners!Init

ServicesNext ==
    /\ part' = part
    /\ \/ /\ part = "relay"
          /\ RelayNext
          /\ UNCHANGED <<checkpointVars, planVars, dividendVars>>
       \/ /\ part = "checkpoint"
          /\ CheckpointNext
          /\ UNCHANGED <<relayVars, planVars, dividendVars>>
       \/ /\ part = "plan"
          /\ Planners!Next
          /\ UNCHANGED <<relayVars, checkpointVars, dividendVars>>
       \/ /\ part = "dividend"
          /\ DividendsNext
          /\ UNCHANGED <<relayVars, checkpointVars, planVars>>

ServicesSpec == ServicesInit /\ [][ServicesNext]_allVars

-----------------------------------------------------------------------------
(* What is checked *)

\* What plan_model_session and network_autopilot_status promise: a ready plan
\* fits the nodes it names and is qualified on every one of them, each strategy
\* picks what it is named for, and a better link never loses a class of traffic.
PlansAreSound ==
    part = "plan" =>
        /\ Planners!PlanHolds
        /\ Planners!ReadyIsQualified
        /\ Planners!StrategyHonoured
        /\ Planners!AdmissionIsMonotone
=============================================================================
