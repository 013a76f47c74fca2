---------------------------- MODULE Replication ----------------------------
(***************************************************************************)
(* Protected artifacts: the controller's registry of replicas and signed   *)
(* possession evidence, the reconciliation cycle that probes holders and   *)
(* repairs what has fewer than two fresh receipts, and the owner's         *)
(* replicate, retrieve and forget operations (rampage-controller), against *)
(* the workers' stores (rampage-agent's artifact gateway).                 *)
(*                                                                         *)
(* Digests and nodes are numbers: the code sorts by them.  A worker's copy *)
(* is intact, damaged or absent; module Storage models how it is written.  *)
(* A transfer is one step: the admission gate is held over it, and what    *)
(* interleaves with a cycle (offers, decay, expiry, the STOP latch the     *)
(* desktop writes, a crash) comes between its steps.                       *)
(***************************************************************************)
EXTENDS Naturals, FiniteSets, Sequences

CONSTANTS
  Digests, Nodes,  \* sets of numbers
  Size,            \* [Digests -> units]
  Recorded,        \* replicas the ledger knows at first, their receipts expired
  Reachable,       \* nodes up at first
  MaxProbes,       \* MAX_REPLICA_PROBES_PER_CYCLE
  ProbeBytes,      \* MAX_REPLICA_VERIFICATION_BYTES_PER_CYCLE, in units
  MaxRepairs,      \* MAX_AUTONOMOUS_REPAIRS_PER_CYCLE
  Period,          \* a common multiple of 1 .. the number of replicas
  MaxFaults        \* decays, expiries, outages, crashes, failures, forgets

ASSUME ReplicationAssumption ==
  /\ Digests \subseteq Nat \ {0} /\ IsFiniteSet(Digests)
  /\ Nodes \subseteq Nat /\ IsFiniteSet(Nodes)
  /\ Recorded \subseteq Digests \X Nodes
  /\ MaxProbes \in Nat /\ Period \in Nat \ {0}

VARIABLES
  rep,      \* artifact_replicas: <<digest, node>> recorded as protected
  ev,       \* replica_evidence that is_valid_at now
  logRep,   \* what restore_state would rebuild of the two
  logEv,
  disk,     \* [<<digest, node>> -> "ok", "bad" or "none"]
  source,   \* [digest -> the controller's own copy]
  nodes,    \* enrolled nodes
  up,       \* nodes that can be reached
  live,     \* nodes with an unexpired offer
  kill,     \* the STOP latch
  cursor,   \* storage_probe_cursor, modulo Period
  cycle,    \* the reconciliation that holds the gate, or NoCycle
  faults

vars == <<rep, ev, logRep, logEv, disk, source, nodes, up, live, kill, cursor,
          cycle, faults>>
registry == <<rep, ev, logRep, logEv>>
world    == <<disk, source, nodes, up, live, kill, faults>>

Keys == Digests \X Nodes
Copies(set, d) == { n \in Nodes : <<d, n>> \in set }
NoCycle == [d |-> 0, todo |-> {}, offers |-> {}, held |-> {}, proven |-> {},
            sel |-> {}, ver |-> {}, probe |-> {}, tried |-> {}, repairs |-> 0, on |-> FALSE]

Gate == ~cycle.on
Fault == faults < MaxFaults /\ faults' = faults + 1

(* artifact_request: the node is reached, over one connection a request.   *)
Reaches(n) == n \in up

(* A node answers a HEAD: its store verifies every byte of the copy.       *)
Holds(n, d) == Reaches(n) /\ disk[<<d, n>>] = "ok"

(* A node takes a transfer.  A damaged copy cannot be replaced: the upload *)
(* session of that node and digest is complete (Storage!TransferRebuilds). *)
Takes(n, d) == Reaches(n) /\ source[d] = "ok" /\ disk[<<d, n>>] # "bad"

(* replicate_to_offer: begin, the missing chunks, commit.                  *)
Transfer(n, d) == Takes(n, d) /\ disk' = [disk EXCEPT ![<<d, n>>] = "ok"]

(* The four registers after a node-signed receipt for k is recorded: the   *)
(* ledger event carries the replica and its receipt.                       *)
Record(k) ==
  /\ rep' = rep \cup {k} /\ logRep' = logRep \cup {k}
  /\ ev' = ev \cup {k} /\ logEv' = logEv \cup {k}

(* invalidate_replica: the receipt no longer counts, the record stays.     *)
Invalidate(k) == ev' = ev \ {k} /\ logEv' = logEv \ {k} /\ UNCHANGED <<rep, logRep>>

(* The same, when the append fails: memory was written first.              *)
Remember(k) ==
  rep' = rep \cup {k} /\ ev' = ev \cup {k} /\ UNCHANGED <<logRep, logEv>>

-----------------------------------------------------------------------------
(* reconcile_protected_artifacts.                                          *)

Before(a, b) == a[1] < b[1] \/ (a[1] = b[1] /\ a[2] < b[2])
Sorted(S) ==
  [k \in 1..Cardinality(S) |->
     CHOOSE x \in S : Cardinality({ y \in S : Before(y, x) }) = k - 1]
Stale == Sorted(rep \ ev)

(* select_replica_probes: from the cursor on, round the list once, within  *)
(* the number of probes and, after the first, the bytes of a cycle.        *)
SelectReplicaProbes(list, from) ==
  LET n == Len(list)
      Item(k) == list[((from + k - 1) % n) + 1]
      pick[k \in 0..n] ==
        IF k = 0 THEN [set |-> {}, bytes |-> 0]
        ELSE LET p == pick[k - 1]
                 b == p.bytes + Size[Item(k)[1]]
             IN  IF Cardinality(p.set) >= MaxProbes \/ (b > ProbeBytes /\ p.set # {})
                 THEN p ELSE [set |-> p.set \cup {Item(k)}, bytes |-> b]
  IN  pick[n].set

CycleStart ==
  /\ Gate /\ ~kill
  /\ cycle' = [NoCycle EXCEPT !.on = TRUE, !.todo = { k[1] : k \in rep },
                 !.offers = live, !.held = rep, !.proven = ev,
                 !.sel = SelectReplicaProbes(Stale, cursor)]
  /\ cursor' = (cursor + MaxProbes) % Period
  /\ UNCHANGED registry /\ UNCHANGED world

(* The next digest, in order; the cycle ends after the last.               *)
NextDigest ==
  /\ cycle.on /\ cycle.d = 0
  /\ IF cycle.todo = {} THEN cycle' = NoCycle
     ELSE LET d == CHOOSE x \in cycle.todo : \A y \in cycle.todo : x <= y
          IN  cycle' = [cycle EXCEPT !.d = d, !.todo = @ \ {d}, !.tried = {},
                          !.ver = Copies(cycle.held \cap cycle.proven, d),
                          !.probe = Copies(cycle.sel, d) \cap cycle.offers]
  /\ UNCHANGED <<cursor>> /\ UNCHANGED registry /\ UNCHANGED world

(* The node is gone, has lost the copy or finds it damaged.                *)
ProbeFails(n) == ~Holds(n, cycle.d)

(* probe_replica: a challenged HEAD.  A node that fails it, for whatever   *)
(* reason, loses its evidence (invalidate_replica) and keeps its record.   *)
(* A ledger append that fails ends the cycle.                              *)
ProbeReplica(n) ==
  LET k == <<cycle.d, n>>
  IN  /\ cycle.on /\ n \in cycle.probe
      /\ \/ /\ Holds(n, cycle.d) /\ UNCHANGED faults /\ Record(k)
            /\ cycle' = [cycle EXCEPT !.probe = @ \ {n}, !.ver = @ \cup {n}]
         \/ Holds(n, cycle.d) /\ Fault /\ Remember(k) /\ cycle' = NoCycle
         \/ /\ (ProbeFails(n) /\ UNCHANGED faults) \/ Fault
            /\ Invalidate(k) /\ cycle' = [cycle EXCEPT !.probe = @ \ {n}]
         \/ /\ ProbeFails(n) /\ Fault /\ ev' = ev \ {k} /\ cycle' = NoCycle
            /\ UNCHANGED <<rep, logRep, logEv>>
      /\ UNCHANGED <<cursor, disk, source, nodes, up, live, kill>>

Known == Copies(cycle.held, cycle.d)

(* A variant: every known holder must have passed.                         *)
AllVerified == Known \subseteq cycle.ver

(* A variant: a holder out of this cycle's budget does not count.          *)
SomeSelected ==
  Known = {} \/ \E n \in Known : <<cycle.d, n>> \in cycle.proven \cup cycle.sel

VerificationComplete ==
  \A n \in Known : <<cycle.d, n>> \in cycle.proven \cup cycle.sel

(* There is something to repair, and the local source is indexed.          *)
MayRepair ==
  /\ VerificationComplete /\ Cardinality(cycle.ver) < 2
  /\ cycle.repairs < MaxRepairs /\ source[cycle.d] # "none"

Destinations == cycle.offers \ (Known \cup cycle.tried)

(* replicate_to_offer on a node that is no known holder.  A copy that was  *)
(* committed before the answer was lost stays on the node's disk.  A ledger *)
(* append that fails ends the cycle, that of a failed attempt included.    *)
Repair(n) ==
  LET k == <<cycle.d, n>>
  IN  /\ cycle.on /\ cycle.d # 0 /\ cycle.probe = {} /\ MayRepair /\ n \in Destinations
      /\ \/ /\ Transfer(n, cycle.d) /\ Record(k) /\ UNCHANGED faults
            /\ cycle' = [cycle EXCEPT !.ver = @ \cup {n}, !.repairs = @ + 1,
                           !.tried = @ \cup {n}]
         \/ Transfer(n, cycle.d) /\ Fault /\ Remember(k) /\ cycle' = NoCycle
         \/ /\ ~Takes(n, cycle.d) /\ UNCHANGED <<faults, disk>> /\ UNCHANGED registry
            /\ cycle' = [cycle EXCEPT !.tried = @ \cup {n}]
         \/ /\ ~Takes(n, cycle.d) /\ Fault /\ cycle' = NoCycle
            /\ UNCHANGED disk /\ UNCHANGED registry
         \/ /\ Transfer(n, cycle.d) /\ Fault
            /\ cycle' = [cycle EXCEPT !.tried = @ \cup {n}] /\ UNCHANGED registry
      /\ UNCHANGED <<cursor, source, nodes, up, live, kill>>

(* Nothing to repair, no destination left, or no local source, of which an *)
(* event tells first.                                                      *)
DigestDone ==
  /\ cycle.on /\ cycle.d # 0 /\ cycle.probe = {} /\ (~MayRepair \/ Destinations = {})
  /\ \/ cycle' = [cycle EXCEPT !.d = 0] /\ UNCHANGED faults
     \/ source[cycle.d] = "none" /\ Fault /\ cycle' = NoCycle
  /\ UNCHANGED <<cursor, disk, source, nodes, up, live, kill>> /\ UNCHANGED registry

CycleStep == CycleStart \/ NextDigest \/ DigestDone
             \/ \E n \in Nodes : ProbeReplica(n) \/ Repair(n)

-----------------------------------------------------------------------------
(* The owner's operations, under the gate.                                 *)

(* remote_offer.                                                           *)
RemoteOffer(n) == n \in live

(* A transfer under the gate: the answer to the commit may be lost, or the *)
(* append may fail.                                                        *)
Copy(d, n) ==
  /\ Gate /\ RemoteOffer(n) /\ Transfer(n, d)
  /\ \/ Record(<<d, n>>) /\ UNCHANGED faults
     \/ Fault /\ (UNCHANGED registry \/ Remember(<<d, n>>))
  /\ UNCHANGED <<source, nodes, up, live, kill, cursor, cycle>>

ReplicateArtifact(d, n) == ~kill /\ Copy(d, n)

(* stage_job_inputs, of an admission whose look at the latch is past: a    *)
(* recorded replica is taken for granted, whatever became of its evidence. *)
StageJobInputs(d, n) == <<d, n>> \notin rep /\ Copy(d, n)

(* put_artifact, without the gate: the owner stores the bytes again.       *)
PutArtifact(d) ==
  /\ ~kill /\ source' = [source EXCEPT ![d] = "ok"]
  /\ UNCHANGED <<disk, nodes, up, live, kill, cursor, cycle, faults>> /\ UNCHANGED registry

ProvesPossession(k) == \/ ev' = ev \cup {k} /\ UNCHANGED faults
                       \/ Fault /\ UNCHANGED ev

(* retrieve_artifact: the bytes come home and the holder is probed, which  *)
(* may still fail.  The ledger event is none that restore_state reads.  A  *)
(* retrieval that cannot rebuild the local copy (its session is complete,  *)
(* Storage!TransferRebuilds) changes nothing.                              *)
RetrieveArtifact(d, n) ==
  /\ Gate /\ ~kill /\ <<d, n>> \in rep /\ RemoteOffer(n) /\ Holds(n, d)
  /\ source' = [source EXCEPT ![d] = "ok"] /\ ProvesPossession(<<d, n>>)
  /\ UNCHANGED <<rep, logRep, logEv, disk, nodes, up, live, kill, cursor, cycle>>

Without(set, n) == { k \in set : k[2] # n }

(* A variant: the node's evidence stays.                                   *)
RevokeKeepsEvidence(n) ==
  /\ Gate /\ n \in nodes /\ Fault
  /\ nodes' = nodes \ {n} /\ live' = live \ {n}
  /\ rep' = Without(rep, n) /\ logRep' = Without(logRep, n)
  /\ UNCHANGED <<ev, logEv, disk, source, up, kill, cursor, cycle>>

RevokeNode(n) ==
  /\ Gate /\ n \in nodes /\ Fault
  /\ nodes' = nodes \ {n} /\ live' = live \ {n}
  /\ rep' = Without(rep, n) /\ ev' = Without(ev, n)
  /\ logRep' = Without(logRep, n) /\ logEv' = Without(logEv, n)
  /\ UNCHANGED <<disk, source, up, kill, cursor, cycle>>

LocalStop ==
  /\ ~kill /\ Fault /\ kill' = TRUE
  /\ UNCHANGED <<disk, source, nodes, up, live, cursor, cycle>> /\ UNCHANGED registry

LocalResume ==
  /\ kill /\ Gate /\ kill' = FALSE
  /\ UNCHANGED <<disk, source, nodes, up, live, cursor, cycle, faults>>
  /\ UNCHANGED registry

-----------------------------------------------------------------------------
(* Workers, time and crashes.                                              *)

RegisterOffer(n) ==
  /\ n \in (up \cap nodes) \ live /\ live' = live \cup {n}
  /\ UNCHANGED <<disk, source, nodes, up, kill, cursor, cycle, faults>>
  /\ UNCHANGED registry

OfferExpires(n) ==
  /\ n \in live \ up /\ live' = live \ {n}
  /\ UNCHANGED <<disk, source, nodes, up, kill, cursor, cycle, faults>>
  /\ UNCHANGED registry

NodeGoes(n) ==
  /\ n \in up /\ Fault /\ up' = up \ {n}
  /\ UNCHANGED <<disk, source, nodes, live, kill, cursor, cycle>> /\ UNCHANGED registry

CopyDecays(k) ==
  /\ disk[k] = "ok" /\ Fault /\ disk' = [disk EXCEPT ![k] = "bad"]
  /\ UNCHANGED <<source, nodes, up, live, kill, cursor, cycle>> /\ UNCHANGED registry

(* The controller's copy is evicted, or a chunk of it cannot be read.      *)
SourceDecays(d) ==
  /\ source[d] = "ok" /\ Fault /\ \E s \in {"none", "bad"} : source' = [source EXCEPT ![d] = s]
  /\ UNCHANGED <<disk, nodes, up, live, kill, cursor, cycle>> /\ UNCHANGED registry

(* A receipt is valid for ten minutes.                                     *)
ReceiptExpires(k) ==
  /\ k \in ev /\ Fault /\ ev' = ev \ {k} /\ logEv' = logEv \ {k}
  /\ UNCHANGED <<rep, logRep, disk, source, nodes, up, live, kill, cursor, cycle>>

(* restore_state                                                           *)
Restart ==
  /\ Fault /\ cycle' = NoCycle /\ cursor' = 0
  /\ rep' = logRep /\ ev' = logEv
  /\ UNCHANGED <<logRep, logEv, disk, source, nodes, up, live, kill>>

-----------------------------------------------------------------------------
Init ==
  /\ rep = Recorded /\ logRep = Recorded /\ ev = {} /\ logEv = {}
  /\ disk = [k \in Keys |-> IF k \in Recorded THEN "ok" ELSE "none"]
  /\ source = [d \in Digests |-> "ok"]
  /\ nodes = Nodes /\ up = Reachable /\ live = {} /\ kill = FALSE
  /\ cursor = 0 /\ cycle = NoCycle /\ faults = 0

Next ==
  \/ CycleStep \/ LocalStop \/ LocalResume \/ Restart
  \/ \E n \in Nodes : RegisterOffer(n) \/ OfferExpires(n) \/ NodeGoes(n) \/ RevokeNode(n)
  \/ \E d \in Digests : PutArtifact(d) \/ SourceDecays(d)
  \/ \E d \in Digests, n \in Nodes :
       ReplicateArtifact(d, n) \/ StageJobInputs(d, n) \/ RetrieveArtifact(d, n)
  \/ \E k \in Keys : CopyDecays(k) \/ ReceiptExpires(k)

Spec == Init /\ [][Next]_vars

(* The loop ticks every minute, workers republish their offers, and what   *)
(* is expired is found expired.                                            *)
FairSpec == Spec /\ WF_vars(CycleStep)
                 /\ WF_vars(\E n \in Nodes : RegisterOffer(n) \/ OfferExpires(n))

-----------------------------------------------------------------------------
(* Type correctness of the registry, the stores and the cycle.             *)
TypeOK ==
  /\ rep \subseteq Keys /\ ev \subseteq Keys /\ logRep \subseteq Keys
  /\ logEv \subseteq Keys /\ disk \in [Keys -> {"ok", "bad", "none"}]
  /\ source \in [Digests -> {"ok", "bad", "none"}] /\ live \subseteq nodes
  /\ cursor < Period /\ cycle.repairs <= MaxRepairs
  /\ Cardinality(cycle.sel) <= MaxProbes

(* Evidence is only ever of a recorded replica of an enrolled node, in     *)
(* memory and after a restart: forgetting a node forgets what it proved,   *)
(* and no cycle that was running brings it back.                           *)
EvidenceIsRecorded ==
  /\ ev \subseteq rep /\ rep \subseteq Digests \X nodes
  /\ logEv \subseteq logRep /\ logRep \subseteq Digests \X nodes

(* A restart never counts a receipt that had stopped counting: a failed    *)
(* probe is in the ledger before the next step.                            *)
RestartRevivesNothing == logEv \subseteq ev /\ logRep \subseteq rep

(* Evidence is only ever of a recorded replica of an enrolled node, in     *)
(* memory and after a restart, and a restart counts no receipt that had    *)
(* stopped counting (revoke_node, invalidate_replica, restore_state, the   *)
(* cycle).                                                                 *)
EvidenceSound == EvidenceIsRecorded /\ RestartRevivesNothing

Proven == \A k \in ev' \ ev : disk'[k] = "ok" /\ k[2] \in up

(* Evidence appears only for a copy that is intact when the node answers;  *)
(* a restart brings none back.                                             *)
EvidenceIsProof == [][Proven]_vars

Needed ==
  \A k \in rep' \ rep : cycle.on =>
    /\ Cardinality(Copies(ev, k[1])) < 2
    /\ \A n \in Copies(rep, k[1]) \ cycle.tried :
         <<k[1], n>> \in cycle.proven \cup cycle.sel

(* The cycle copies only what has fewer than two fresh receipts, and never *)
(* while the receipt of a holder, other than a node it has just copied to, *)
(* is merely out of this cycle's budget (reconcile_protected_artifacts).   *)
RepairIsNeeded == [][Needed]_vars

(* Enough nodes are up and published that hold d or can take it.           *)
Able(d) == { n \in up \cap live \cap nodes :
               IF <<d, n>> \in rep THEN Holds(n, d) ELSE Takes(n, d) }
Calm(d) == ~kill /\ source[d] = "ok" /\ Copies(rep, d) # {} /\ Cardinality(Able(d)) >= 2

Settled(d) == ~Calm(d) \/ Cardinality(Copies(ev, d)) >= 2

(* The controller reconciles every protected artifact to two fresh,        *)
(* independent receipts, as long as two able nodes are there.              *)
Reconciles == \A d \in Digests : Calm(d) ~> Settled(d)

(* STOP ends reconciliation: the cycle it finds running gives the gate     *)
(* back, whatever the workers do.                                          *)
StopFreesGate == kill ~> Gate
=============================================================================
