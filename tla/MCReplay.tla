------------------------------ MODULE MCReplay ------------------------------
(***************************************************************************)
(* A small instance of Replay: two jobs, two nodes, leases that pass, are  *)
(* stale or are fenced, and two shard sets that share a set id.            *)
(***************************************************************************)
EXTENDS Replay

CONSTANTS n1, n2, j1, j2, k1, k2, s1

A == [id |-> j1, key |-> k1]
B == [id |-> j2, key |-> k2]
TwoJobs == {A, B}

L(b, j, n, e) == [batch |-> b, job |-> j, node |-> n, epoch |-> e]

\* The fenced lease, the stale one, and four that pass.
Fenced1 == L(0, A, n1, 1)
Stale2 == L(1, A, n1, 2)
Live == {L(2, A, n1, 2), L(3, A, n2, 2), L(4, B, n1, 2), L(5, B, n2, 2)}
StaleLeases == {Stale2}
Pool == Live \cup {Fenced1, Stale2}

Single == [id |-> s1, key |-> k1, jobs |-> {A}]
Pair == [id |-> s1, key |-> k2, jobs |-> TwoJobs]
TwoSets == {Single, Pair}

Events ==
    {LeaseEvent("lease.issued", {l}) : l \in Pool}
    \cup {LeaseEvent(t, {l}) : t \in {"job.claimed", "job.receipted"},
                               l \in {L(2, A, n1, 2), L(4, B, n1, 2)}}
    \cup {NodeEvent(t, n) : t \in {"node.enrolled", "node.revoked"}, n \in Nodes}
    \cup {SetEvent(Single, {L(3, A, n2, 2)}),
          SetEvent(Pair, {Stale2, L(5, B, n2, 2)}),
          PlainEvent("authority.epoch.advanced")}
=============================================================================
