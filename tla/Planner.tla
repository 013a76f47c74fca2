------------------------------ MODULE Planner ------------------------------
(***************************************************************************)
(* The two read-only planners of the controller: plan_model_session, which *)
(* picks the runtimes a model would be placed on, and                      *)
(* network_autopilot_status, which says what traffic a node's link admits. *)
(* Both are pure functions of the offers; a step answers one request.      *)
(*                                                                         *)
(* A runtime entry of an offer is [key, bytes, par, status, link]: the     *)
(* (backend, compatibility key) group, the capacity runtime_capacity       *)
(* grants it, the parallelism it supports, its status, and the band of its *)
(* measured link: 0 none or slow, 1 topology_ready, 2 speed_topology_ready *)
(* (efficiency 400), 3 (650), 4 (850, or the controller's own host).  An   *)
(* offer has at most one entry per group, so the index of an entry is its  *)
(* node; two entries of one offer never meet in a plan.                    *)
(***************************************************************************)
EXTENDS Integers, Sequences, FiniteSets, SequencesExt

CONSTANTS
  Entries,      \* indices of the runtime entries, in the order of the offers
  Runtimes,     \* the entries an offer may carry
  Keys,         \* group keys, in the order of the BTreeMap
  Required,     \* the byte counts a request may ask for
  MaxNodes,     \* request.max_nodes
  Rtts, Mbps,   \* link figures, in milliseconds and megabits per second
  NoLink

VARIABLES asked, plan
vars == <<asked, plan>>

Strategies == {"size", "speed", "throughput", "efficiency", "balanced"}

-----------------------------------------------------------------------------
(* Groups *)

BytesOf(seq) == FoldLeft(LAMBDA sum, r : sum + r.bytes, 0, seq)

Truncate(seq, n) == SubSeq(seq, 1, IF n < Len(seq) THEN n ELSE Len(seq))

\* The live entries of one group, largest first (a stable sort), cut to
\* max_nodes.  Entries without capacity are skipped.
Group(rts, k) ==
  LET mine == {i \in Entries : rts[i].key = k /\ rts[i].bytes > 0}
      order == SetToSortSeq(mine, LAMBDA i, j : \/ rts[i].bytes > rts[j].bytes
                                                \/ rts[i].bytes = rts[j].bytes /\ i < j)
      entry(i) == [node |-> i, key |-> k, bytes |-> rts[i].bytes, par |-> rts[i].par,
                   status |-> rts[i].status, link |-> rts[i].link]
  IN  Truncate([x \in 1..Len(order) |-> entry(order[x])], MaxNodes)

\* The non-empty groups, the one with the most bytes first.
RankedGroups(rts) ==
  LET keys == {k \in Keys : Group(rts, k) # <<>>}
      total(k) == BytesOf(Group(rts, k))
      order == SetToSortSeq(keys, LAMBDA k, l : \/ total(k) > total(l)
                                                \/ total(k) = total(l) /\ k < l)
  IN  [x \in 1..Len(order) |-> Group(rts, order[x])]

Fits(r, need) == r.bytes >= need

Qualified(r) == r.status = "qualified" /\ r.par \cap {"pipeline", "tensor"} # {}

TopologyReady(r) == r.link >= 1

SpeedTopologyReady(r) == r.link >= 2

Elements(seq) == {seq[x] : x \in DOMAIN seq}

CeilDiv(a, b) == (a + b - 1) \div b

\* Speed-up in thousandths, by the worst link of the group.
PredictedTensorSpeedup(seq) ==
  LET all(band) == \A r \in Elements(seq) : r.link >= band
      efficiency == IF all(4) THEN 850 ELSE IF all(3) THEN 650 ELSE 400
      gain == Len(seq) * efficiency
      ready == \A r \in Elements(seq) : SpeedTopologyReady(r)
  IN  IF Len(seq) < 2 \/ ~ ready \/ gain < 1000 THEN 1000 ELSE gain

-----------------------------------------------------------------------------
(* What each strategy selects: the entries, the parallelism, the speed-up *)

Choice(sel, par, speed) == [sel |-> sel, par |-> par, speed |-> speed]

\* The first position of seq where Val is greatest, among those where Ok.
FirstBest(seq, Ok(_), Val(_)) ==
  CHOOSE x \in DOMAIN seq :
    /\ Ok(seq[x])
    /\ \A y \in DOMAIN seq :
         Ok(seq[y]) => Val(seq[y]) < Val(seq[x]) \/ (Val(seq[y]) = Val(seq[x]) /\ x <= y)

MaximumModelSize(ranked, need) ==
  LET top == ranked[1]
      split == Len(top) > 1 /\ \A r \in Elements(top) : "pipeline" \in r.par
  IN  Choice(top, IF split THEN "pipeline" ELSE "whole", 1000)

\* A group the model can be split over by tensor ranks with a real gain.
TensorGroup(seq, need) ==
  /\ Len(seq) > 1
  /\ \A r \in Elements(seq) : "tensor" \in r.par /\ Qualified(r)
  /\ PredictedTensorSpeedup(seq) > 1100
  /\ \A r \in Elements(seq) : Fits(r, CeilDiv(need, Len(seq)))

SpeedBoost(ranked, need) ==
  LET tensor(seq) == TensorGroup(seq, need)
      single(seq) == Fits(seq[1], need)
      first(seq) == seq[1].bytes
  IN  IF \E seq \in Elements(ranked) : tensor(seq)
      THEN LET best == ranked[FirstBest(ranked, tensor, PredictedTensorSpeedup)]
           IN  Choice(best, "tensor", PredictedTensorSpeedup(best))
      ELSE IF \E seq \in Elements(ranked) : single(seq)
      THEN Choice(<<ranked[FirstBest(ranked, single, first)][1]>>, "whole", 1000)
      ELSE Choice(ranked[1], "pipeline", 1000)

\* max_by_key keeps the last of several greatest groups.
MaximumThroughput(ranked, need) ==
  LET replicas(x) == SelectSeq(ranked[x], LAMBDA r : Fits(r, need))
      best == CHOOSE x \in DOMAIN ranked : \A y \in DOMAIN ranked :
                \/ Len(replicas(y)) < Len(replicas(x))
                \/ Len(replicas(y)) = Len(replicas(x)) /\ y <= x
      sel == IF replicas(best) = <<>> THEN ranked[1] ELSE replicas(best)
  IN  Choice(sel, "replica", 1000 * Len(sel))

Efficiency(ranked, need) ==
  LET all == FlattenSeq(ranked)
      fits(r) == Fits(r, need)
      less(r) == 0 - r.bytes
      one == IF \E r \in Elements(all) : fits(r) THEN all[FirstBest(all, fits, less)]
             ELSE ranked[1][1]
  IN  Choice(<<one>>, "whole", 1000)

AutonomousBalanced(ranked, need) ==
  LET fitting == SelectSeq(FlattenSeq(ranked), LAMBDA r : Fits(r, need))
  IN  IF fitting # <<>> THEN Choice(<<fitting[1]>>, "whole", 1000)
      ELSE Choice(ranked[1], "pipeline", 1000)

Select(strategy, ranked, need) ==
  CASE strategy = "size" -> MaximumModelSize(ranked, need)
    [] strategy = "speed" -> SpeedBoost(ranked, need)
    [] strategy = "throughput" -> MaximumThroughput(ranked, need)
    [] strategy = "efficiency" -> Efficiency(ranked, need)
    [] strategy = "balanced" -> AutonomousBalanced(ranked, need)

-----------------------------------------------------------------------------
(* Capacity, qualification and placement *)

Lesser(a, b) == IF a < b THEN a ELSE b

\* Each rank takes its share of the need, rounded down; the last takes what
\* is left, as far as it has room.
AllocatePipeline(sel, need) ==
  LET total == BytesOf(sel)
      share(r) == (need * r.bytes) \div total
      step(done, r) ==
        LET left == need - FoldLeft(LAMBDA sum, d : sum + d.assigned, 0, done)
            mine == IF Len(done) + 1 = Len(sel) THEN Lesser(left, r.bytes)
                    ELSE Lesser(Lesser(share(r), r.bytes), left)
        IN  Append(done, [entry |-> r, assigned |-> mine])
  IN  FoldLeft(step, <<>>, sel)

Placements(choice, need) ==
  LET give(seq, n) == [x \in DOMAIN seq |-> [entry |-> seq[x], assigned |-> n]]
  IN  CASE choice.par = "replica" ->
             give(SelectSeq(choice.sel, LAMBDA r : Fits(r, need)), need)
        [] choice.par = "tensor" -> give(choice.sel, CeilDiv(need, Len(choice.sel)))
        [] choice.par = "whole" -> AllocatePipeline(Truncate(choice.sel, 1), need)
        [] choice.par = "pipeline" -> AllocatePipeline(choice.sel, need)

CapacityFits(choice, need) ==
  CASE choice.par \in {"replica", "whole"} -> \E r \in Elements(choice.sel) : Fits(r, need)
    [] choice.par = "tensor" ->
         \A r \in Elements(choice.sel) : Fits(r, CeilDiv(need, Len(choice.sel)))
    [] choice.par = "pipeline" -> BytesOf(choice.sel) >= need

Distributed(choice) == Len(choice.sel) > 1 /\ choice.par # "replica"

\* A variant: one rule for one node and for many.
QualifiedAlike(choice) ==
  \A r \in Elements(choice.sel) : r.status \in {"shipped", "qualified"}

QualifiedChoice(choice) ==
  \A r \in Elements(choice.sel) :
    IF Distributed(choice) THEN Qualified(r) /\ TopologyReady(r)
    ELSE r.status \in {"shipped", "qualified"}

PlanModelSession(strategy, rts, need) ==
  LET ranked == RankedGroups(rts)
      choice == Select(strategy, ranked, need)
  IN  IF ranked = <<>>
      THEN [state |-> "blocked", par |-> "none", speed |-> 1000, placements |-> <<>>]
      ELSE [state |-> CASE ~ CapacityFits(choice, need) -> "blocked"
                        [] CapacityFits(choice, need) /\ QualifiedChoice(choice) -> "ready"
                        [] OTHER -> "unqualified",
            par |-> choice.par, speed |-> choice.speed,
            placements |-> Placements(choice, need)]

-----------------------------------------------------------------------------
(* Network autopilot: the path a node is reached by, the traffic it admits *)

Classes == {"control", "interactive", "media", "artifact", "bulk"}

\* A link is the fresh benchmark of a signed offer, or NoLink.
Links == [rtt : Rtts, up : Mbps, down : Mbps, path : {"direct", "relay", "unknown"}]

Reachable == [mesh : BOOLEAN, direct : BOOLEAN, relay : BOOLEAN, link : Links \cup {NoLink}]

PreferredPath(o) ==
  CASE ~ o.mesh -> "local"
    [] o.mesh /\ o.link # NoLink /\ o.link.path = "direct" -> "direct_measured"
    [] o.mesh /\ o.link # NoLink /\ o.link.path = "relay" -> "relay_measured"
    [] o.mesh /\ o.link # NoLink /\ o.link.path = "unknown" /\ o.direct -> "direct_candidate"
    [] OTHER -> IF o.relay THEN "relay_bootstrap" ELSE "recovering"

AdmitTraffic(class, path, link, candidate) ==
  \/ path = "local"
  \/ class = "control" /\ candidate
  \/ /\ class # "control"
     /\ link # NoLink
     /\ CASE class = "interactive" -> link.rtt <= 75 /\ link.up >= 2 /\ link.down >= 10
          [] class = "media" -> link.rtt <= 50 /\ link.up >= 10 /\ link.down >= 5
          [] class = "artifact" -> link.up >= 5 /\ link.down >= 5
          [] class = "bulk" -> link.up >= 20 /\ link.down >= 20

Autopilot(o) ==
  LET path == PreferredPath(o)
      candidate == o.mesh /\ (o.direct \/ o.relay)
  IN  [path |-> path,
       traffic |-> {c \in Classes : AdmitTraffic(c, path, o.link, candidate)}]

-----------------------------------------------------------------------------
(* Requests *)

NoPlan == [state |-> "none"]

ModelRequests == [kind : {"model"}, strategy : Strategies, need : Required,
                  runtimes : [Entries -> Runtimes]]

NetworkRequests == [kind : {"network"}, offer : Reachable]

Init ==
  /\ asked \in ModelRequests \cup NetworkRequests
  /\ plan = NoPlan

PlanModelSessionRequest ==
  /\ asked.kind = "model"
  /\ plan' = PlanModelSession(asked.strategy, asked.runtimes, asked.need)
  /\ UNCHANGED asked

NetworkAutopilotStatus ==
  /\ asked.kind = "network"
  /\ plan' = Autopilot(asked.offer)
  /\ UNCHANGED asked

Next == PlanModelSessionRequest \/ NetworkAutopilotStatus

Spec == Init /\ [][Next]_vars

-----------------------------------------------------------------------------
(* Properties *)

Ready == asked.kind = "model" /\ plan.state = "ready"

Assigned(ps) == FoldLeft(LAMBDA sum, p : sum + p.assigned, 0, ps)

Placed == Elements(plan.placements)

Each == [x \in DOMAIN plan.placements |-> plan.placements[x].entry]

\* A ready plan is one the nodes can hold: it names each node once, all of
\* one compatibility group, gives none more than it has, and hands out the
\* whole model.  A pipeline's rounding (allocate_pipeline) may leave less
\* than a byte per rank unassigned; replicas each hold the whole.
PlanHolds ==
  Ready =>
    /\ plan.placements # <<>>
    /\ Cardinality({p.entry.node : p \in Placed}) = Len(plan.placements)
    /\ Cardinality({p.entry.key : p \in Placed}) = 1
    /\ \A p \in Placed : p.assigned <= p.entry.bytes
    /\ IF plan.par = "replica" THEN \A p \in Placed : p.assigned = asked.need
       ELSE Assigned(plan.placements) > asked.need - Len(plan.placements)

\* "Distributed readiness requires an exact, qualified runtime offer on every
\* selected node plus measured controller links" (lib.rs:242-246): a ready
\* plan that splits a model uses qualified runtimes on ready links only, and
\* it claims a gain only from replicas, one for each thousand, or from tensor
\* ranks whose links all clear the speed gate.
ReadyIsQualified ==
  Ready =>
    /\ Len(plan.placements) > 1 /\ plan.par # "replica" =>
         \A p \in Placed : Qualified(p.entry) /\ TopologyReady(p.entry)
    /\ \A p \in Placed : p.entry.status # "candidate"
    /\ plan.speed > 1000 =>
         \/ plan.par = "replica" /\ plan.speed = 1000 * Len(plan.placements)
         \/ /\ plan.par = "tensor"
            /\ \A p \in Placed : SpeedTopologyReady(p.entry) /\ "tensor" \in p.entry.par

\* What the strategies promise, against every entry the offers carry: a plan
\* for efficiency uses the smallest entry that fits, a balanced one splits a
\* model only when no entry holds it, a speed plan falls back to the largest
\* entry that fits, and throughput has as many replicas as any group offers.
StrategyHonoured ==
  asked.kind = "model" /\ plan # NoPlan =>
    LET fit == {r \in UNION {Elements(Group(asked.runtimes, k)) : k \in Keys} :
                  r.bytes >= asked.need}
        first == plan.placements[1].entry
    IN  fit # {} =>
          /\ asked.strategy = "efficiency" =>
               first \in fit /\ \A r \in fit : first.bytes <= r.bytes
          /\ asked.strategy = "balanced" => Len(plan.placements) = 1 /\ first \in fit
          /\ asked.strategy = "speed" /\ plan.par # "tensor" =>
               first \in fit /\ \A r \in fit : first.bytes >= r.bytes
          /\ asked.strategy = "throughput" =>
               \A k \in Keys : Len(plan.placements) >= Cardinality({r \in fit : r.key = k})

\* A better link (quicker, wider both ways) never loses a class of traffic,
\* and a node whose path was never measured carries control traffic at most.
AdmissionIsMonotone ==
  asked.kind = "network" /\ plan # NoPlan =>
    LET o == asked.offer
    IN  /\ o.mesh /\ o.link = NoLink => plan.traffic \subseteq {"control"}
        /\ o.link # NoLink =>
             \A r \in Rtts, u \in Mbps, d \in Mbps :
               r <= o.link.rtt /\ u >= o.link.up /\ d >= o.link.down =>
                 plan.traffic \subseteq
                   Autopilot([o EXCEPT !.link = [o.link EXCEPT !.rtt = r, !.up = u, !.down = d]]).traffic
=============================================================================
