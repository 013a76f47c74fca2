------------------------------ MODULE Evidence ------------------------------
(***************************************************************************)
(* The vocabulary of the controller's evidence ledger: the leases the      *)
(* Governor signs, the ledger events that carry authority, and what a      *)
(* restarted controller reads back from a sequence of such events          *)
(* (restore_state).  Events that restore_state ignores, and job.proposed,  *)
(* whose only use in the replay is to carry the job of the lease.issued    *)
(* event the same handler appends next, are not kept apart: an issuing     *)
(* event names the whole lease, its job included.                          *)
(***************************************************************************)
EXTENDS Integers, Sequences, FiniteSets

CONSTANTS
    Nodes,      \* worker identities
    JobIds,     \* values of JobSpecV1::job_id
    Keys,       \* values of idempotency_key (of jobs and of shard sets)
    SetIds,     \* values of ShardSetV1::set_id
    Jobs,       \* the job specifications clients submit
    ShardSets   \* the shard sets clients submit

JobSpec == [id : JobIds, key : Keys]
ShardSetSpec == [id : SetIds, key : Keys, jobs : SUBSET Jobs]

\* ShardSetV1::validate_at: a set is not empty and its shards differ both in
\* job id and in idempotency key.
ValidShardSet(s) ==
    /\ s.jobs # {}
    /\ \A a, b \in s.jobs : a # b => a.id # b.id /\ a.key # b.key

ASSUME JobsAssumption == Jobs \subseteq JobSpec
ASSUME ShardSetsAssumption ==
    /\ ShardSets \subseteq ShardSetSpec
    /\ \A s \in ShardSets : ValidShardSet(s) /\ IsFiniteSet(s.jobs)

(***************************************************************************)
(* A capability lease.  lease_id is a fresh UUID: here it is the pair of   *)
(* the admission that signed the lease (batch) and the job, the jobs of    *)
(* one admission being distinct.  The order of batches is the order of     *)
(* issued_at.  Expiry is not a field: the set of leases whose expires_at   *)
(* has passed is a variable of the specification that uses this module.    *)
(***************************************************************************)
Lease == [batch : Nat, job : Jobs, node : Nodes, epoch : Nat]

EventType == {"authority.epoch.advanced", "node.enrolled", "node.revoked",
              "lease.issued", "shard_set.admitted", "job.claimed",
              "job.receipted", "artifact.output.recorded",
              "fabric.owner_stop", "fabric.owner_resume"}

Event == [type : EventType, leases : SUBSET Lease, nodes : SUBSET Nodes,
          sets : SUBSET ShardSets]

LeaseEvent(type, S) == [type |-> type, leases |-> S, nodes |-> {}, sets |-> {}]
SetEvent(s, S) == [type |-> "shard_set.admitted", leases |-> S, nodes |-> {},
                   sets |-> {s}]
NodeEvent(type, n) == [type |-> type, leases |-> {}, nodes |-> {n}, sets |-> {}]
PlainEvent(type) == [type |-> type, leases |-> {}, nodes |-> {}, sets |-> {}]

IssueType == {"lease.issued", "shard_set.admitted"}

\* The leases named by the events of the given types.
LeasesOf(L, types) ==
    UNION {L[i].leases : i \in {k \in DOMAIN L : L[k].type \in types}}

Issued(L) == LeasesOf(L, IssueType)
Claimed(L) == LeasesOf(L, {"job.claimed"})
Receipted(L) == LeasesOf(L, {"job.receipted"})
Recorded(L) == LeasesOf(L, {"artifact.output.recorded"})

-----------------------------------------------------------------------------
(***************************************************************************)
(* What restore_state reads back.  The code replays the events in order    *)
(* into maps keyed by job id, node id and set id; the operators below say  *)
(* directly which entries survive that replay.                             *)
(***************************************************************************)
NamesJob(e, id) == \E l \in e.leases : l.job.id = id

\* A replayed lease is kept only if it is unexpired and of the restored epoch.
Passes(l, epoch, expired) == l.epoch = epoch /\ l \notin expired

\* Mutant of SurvivesReplay: a claim ends the assignment like a receipt.
SurvivesReplayUnclaimed(L, i, l, epoch, expired) ==
    /\ L[i].type \in IssueType
    /\ l \in L[i].leases
    /\ Passes(l, epoch, expired)
    /\ \A k \in (i + 1) .. Len(L) :
        L[k].type \in {"job.claimed", "job.receipted"} => ~NamesJob(L[k], l.job.id)

\* Replaying the i-th event inserts the assignment of lease l, and no later
\* event removes or overwrites it.
SurvivesReplay(L, i, l, epoch, expired) ==
    /\ L[i].type \in IssueType
    /\ l \in L[i].leases
    /\ Passes(l, epoch, expired)
    /\ \A k \in (i + 1) .. Len(L) :
        /\ L[k].type = "job.receipted" => ~NamesJob(L[k], l.job.id)
        /\ L[k].type = "node.revoked" => l.node \notin L[k].nodes
        /\ L[k].type \in IssueType =>
             \A m \in L[k].leases :
                m.job.id = l.job.id => ~Passes(m, epoch, expired)

RestoredAssignments(L, epoch, expired) ==
    {l \in Issued(L) : \E i \in DOMAIN L : SurvivesReplay(L, i, l, epoch, expired)}

\* Mutant of RestoredClaims: the claimed flags are not replayed.
RestoredNoClaims(L, epoch, expired) == {}

\* A job.claimed event marks whatever assignment its job id has at that point.
RestoredClaims(L, epoch, expired) ==
    {l \in Issued(L) :
        \E i \in DOMAIN L :
            /\ SurvivesReplay(L, i, l, epoch, expired)
            /\ \E k \in (i + 1) .. Len(L) :
                L[k].type = "job.claimed" /\ NamesJob(L[k], l.job.id)}

RestoredNodes(L) ==
    {n \in Nodes :
        \E i \in DOMAIN L :
            /\ L[i].type = "node.enrolled" /\ n \in L[i].nodes
            /\ \A k \in (i + 1) .. Len(L) :
                L[k].type = "node.revoked" => n \notin L[k].nodes}

\* Shard sets are restored whatever the age and epoch of their leases; a
\* revocation drops every set with a shard on the revoked node.
SetRecord == [spec : ShardSets, leases : SUBSET Lease]

\* Mutant of RestoredSets: shard sets are not replayed.
RestoredNoSets(L) == {}

RestoredSets(L) ==
    LET At(i) == {[spec |-> s, leases |-> L[i].leases] : s \in L[i].sets}
        Kept(i) == \A k \in (i + 1) .. Len(L) :
            /\ L[k].type = "node.revoked" =>
                 \A l \in L[i].leases : l.node \notin L[k].nodes
            /\ \A s \in L[i].sets, t \in L[k].sets : s.id # t.id
    IN  UNION {At(i) : i \in {k \in DOMAIN L : Kept(k)}}

\* The idempotency map is rebuilt from the assignments; when two of them share
\* a key, the one collected last stays, in the unspecified order of a HashMap.
RestoredKeys(A) ==
    {I \in SUBSET {l.job : l \in A} :
        /\ \A a, b \in I : a.key = b.key => a = b
        /\ \A l \in A : \E a \in I : a.key = l.job.key}
=============================================================================
