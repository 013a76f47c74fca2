------------------------------- MODULE Replay -------------------------------
(***************************************************************************)
(* restore_state as the code runs it: the events are applied one by one,   *)
(* in sequence order, to maps keyed by node id, job id and set id.  The    *)
(* specification grows an arbitrary ledger event by event, and the         *)
(* invariant compares the fold with the direct definitions of Evidence     *)
(* that Controller restarts with.                                          *)
(***************************************************************************)
EXTENDS Evidence

CONSTANTS
    Feed,       \* the events a ledger may hold
    Epoch,      \* the epoch restore_state is called with
    Stale,      \* the leases that have expired by then
    MaxLength   \* bound: length of the ledger

\* The events the handlers append: a set is named by the event of its admission
\* and by no other, one set to an event.
Appended == {e \in Event :
    e.sets = {} \/ (e.type = "shard_set.admitted" /\ \E s \in ShardSets : e.sets = {s})}

ASSUME FeedAssumption == Feed \subseteq Appended /\ Epoch \in Nat /\ MaxLength \in Nat

Empty == [nodes |-> {}, assignments |-> {}, claimed |-> {}, completed |-> {},
          sets |-> {}]

Without(S, ids) == {l \in S : l.job.id \notin ids}

\* Mutant of InsertLeases: a replaced assignment leaves its claimed flag behind.
InsertKeepsClaims(r, kept) ==
    [r EXCEPT !.assignments = Without(@, {l.job.id : l \in kept}) \cup kept]

\* assignments.insert of the leases that are unexpired and of the epoch.
InsertLeases(r, kept) ==
    [r EXCEPT !.assignments = Without(@, {l.job.id : l \in kept}) \cup kept,
              !.claimed = Without(@, {l.job.id : l \in kept})]

\* One iteration of the loop over restore_events.
ApplyEvent(r, e, epoch, expired) ==
    LET inserted == InsertLeases(r, {l \in e.leases : Passes(l, epoch, expired)})
        ids == {l.job.id : l \in e.leases}
    IN  CASE e.type = "node.enrolled" ->
               [r EXCEPT !.nodes = @ \cup e.nodes]
          [] e.type = "node.revoked" ->
               [r EXCEPT !.nodes = @ \ e.nodes,
                         !.assignments = {l \in @ : l.node \notin e.nodes},
                         !.claimed = {l \in @ : l.node \notin e.nodes},
                         !.sets = {s \in @ : \A l \in s.leases : l.node \notin e.nodes}]
          [] e.type = "lease.issued" -> inserted
          [] e.type = "shard_set.admitted" ->
               [inserted EXCEPT
                   !.sets = {s \in @ : \A t \in e.sets : s.spec.id # t.id}
                            \cup {[spec |-> t, leases |-> e.leases] : t \in e.sets}]
          [] e.type = "job.claimed" ->
               [r EXCEPT !.claimed = @ \cup {l \in r.assignments : l.job.id \in ids}]
          [] e.type = "job.receipted" ->
               [r EXCEPT !.assignments = Without(@, ids),
                         !.claimed = Without(@, ids),
                         !.completed = @ \cup e.leases]
          [] OTHER -> r

\* The loop, over the first events of the ledger.
Replayed(L, epoch, expired) ==
    LET after[n \in 0 .. Len(L)] ==
            IF n = 0 THEN Empty ELSE ApplyEvent(after[n - 1], L[n], epoch, expired)
    IN  after[Len(L)]

\* The same state, by the direct definitions.
Restored(L, epoch, expired) ==
    [nodes |-> RestoredNodes(L),
     assignments |-> RestoredAssignments(L, epoch, expired),
     claimed |-> RestoredClaims(L, epoch, expired),
     completed |-> Receipted(L),
     sets |-> RestoredSets(L)]

VARIABLE log

ReplayInit == log = <<>>

Grow(e) == Len(log) < MaxLength /\ log' = Append(log, e)

ReplaySpec == ReplayInit /\ [][\E e \in Feed : Grow(e)]_log

\* For every ledger, replaying it event by event leaves exactly the nodes,
\* assignments, claimed flags, receipts and shard sets the direct definitions
\* name (restore_state).
RestoreIsReplay == Replayed(log, Epoch, Stale) = Restored(log, Epoch, Stale)
=============================================================================
