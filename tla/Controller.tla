----------------------------- MODULE Controller -----------------------------
(***************************************************************************)
(* The authority core of the Rampage controller: enrolment and revocation  *)
(* of workers, admission of jobs and shard sets, claims and receipts, the  *)
(* owner's STOP and RESUME, and the crash and restart of the process.      *)
(*                                                                         *)
(* Durable state is the evidence ledger, the fencing epoch stored beside   *)
(* it, the KILL latch file and the KILL.epoch marker file.  Everything     *)
(* else dies with the process and is rebuilt by restore_state.  Handlers   *)
(* run concurrently; those that take admission_gate exclude each other,    *)
(* and are split where they await or where a crash between two durable     *)
(* writes can be told apart.                                               *)
(***************************************************************************)
EXTENDS Evidence

CONSTANTS
    Slots,        \* admissible amount of the one resource each job asks for
    Joining,      \* the nodes that enrol while the instance runs
    Forgettable,  \* the nodes the owner may revoke
    AppendMayFail,\* whether a ledger append may return an error
    MaxWaiting,   \* bound: submissions waiting for the gate at once
    MaxEpoch,     \* bound: fencing epochs; a STOP begins only below it
    MaxBatches,   \* bound: admissions that reach the Governor
    MaxEvents     \* bound: length of the ledger

ASSUME BoundsAssumption ==
    /\ Slots \in Nat /\ MaxWaiting \in Nat
    /\ MaxEpoch \in Nat /\ MaxBatches \in Nat /\ MaxEvents \in Nat
    /\ Joining \subseteq Nodes /\ Forgettable \subseteq Nodes /\ AppendMayFail \in BOOLEAN

VARIABLES
    \* durable
    ledger,       \* the authority-bearing events, in sequence order
    dbEpoch,      \* the fencing_epochs row, written with its event
    kill,         \* the KILL latch file: "present" or "absent"
    marker,       \* epoch in KILL.epoch; 0: absent, empty or unreadable
    \* the process
    phase,        \* "down", "opened", "fenced" (startup) or "serving"
    epoch,        \* AppState::fencing_epoch
    nodes,        \* AppState::nodes
    offers,       \* nodes with a live offer in AppState::offers
    assignments,  \* AppState::assignments, the lease of each entry
    claimed,      \* the entries of assignments whose claimed flag is set
    idempotency,  \* AppState::idempotency, as (key, job id) pairs
    reservations, \* AppState::reservations, named by the lease they serve
    completed,    \* AppState::completed_receipts, named by their lease
    shardSets,    \* AppState::shard_sets
    gate,         \* the holder of admission_gate and what it has in hand
    waitingJobs,  \* submit_job calls past the latch check, before the gate
    waitingSets,  \* submit_shard_set calls in the same place
    enrolling,    \* enroll_node calls between nodes.insert and node.enrolled
    registering,  \* register_offer calls between the node check and the insert
    \* the rest of the world
    batches,      \* number of admissions signed so far
    expired,      \* leases whose expires_at has passed
    executed,     \* leases for which a worker holds a signed receipt
    latchedAt     \* history: length of the ledger when KILL was last created

durable == <<ledger, dbEpoch, kill, marker, latchedAt>>
tables == <<nodes, offers, assignments, claimed, idempotency, reservations,
            completed, shardSets>>
calls == <<waitingJobs, waitingSets, enrolling, registering>>
world == <<batches, expired, executed>>
vars == <<durable, phase, epoch, tables, gate, calls, world>>

Op == {"free", "job", "set", "stop", "mark", "stopped", "resume", "output"}
Gate == [op : Op, leases : SUBSET Lease, sets : SUBSET ShardSets]
Held(op, S, sets) == [op |-> op, leases |-> S, sets |-> sets]
Free == Held("free", {}, {})

\* One row of the ledger (Ledger::append), within the bound on its length.
Log(e) == Len(ledger) < MaxEvents /\ ledger' = Append(ledger, e)

Serving == phase = "serving"
Latched == kill = "present"

\* A gated handler that has just taken the gate.
Enters == Serving /\ gate.op = "free"

Init ==
    /\ ledger = <<>> /\ dbEpoch = 0 /\ kill = "absent" /\ marker = 0 /\ latchedAt = 0
    /\ phase = "down" /\ epoch = 0
    /\ nodes = {} /\ offers = {} /\ assignments = {} /\ claimed = {}
    /\ idempotency = {} /\ reservations = {} /\ completed = {} /\ shardSets = {}
    /\ gate = Free
    /\ waitingJobs = {} /\ waitingSets = {} /\ enrolling = {} /\ registering = {}
    /\ batches = 0 /\ expired = {} /\ executed = {}

-----------------------------------------------------------------------------
(***************************************************************************)
(* Enrolment, offers and revocation.  enroll_node and register_offer do    *)
(* not take the gate.                                                      *)
(***************************************************************************)
\* enroll_node, the invite being valid: the identity enters the table before
\* node.enrolled is appended.  A worker has one enrolment under way at most.
EnrollInsert(n) ==
    /\ Serving
    /\ n \notin enrolling
    /\ nodes' = nodes \cup {n}
    /\ enrolling' = enrolling \cup {n}
    /\ UNCHANGED <<durable, phase, epoch, offers, assignments, claimed, idempotency,
                   reservations, completed, shardSets, gate, waitingJobs,
                   waitingSets, registering, world>>

EnrollRecord(n) ==
    /\ n \in enrolling
    /\ enrolling' = enrolling \ {n}
    /\ Log(NodeEvent("node.enrolled", n))
    /\ UNCHANGED <<dbEpoch, kill, marker, latchedAt, phase, epoch, tables, gate,
                   waitingJobs, waitingSets, registering, world>>

\* The append of node.enrolled fails: the identity stays in the table.
EnrollRecordFails(n) ==
    /\ AppendMayFail
    /\ n \in enrolling
    /\ enrolling' = enrolling \ {n}
    /\ UNCHANGED <<durable, phase, epoch, tables, gate, waitingJobs, waitingSets,
                   registering, world>>

\* register_offer checks the node and its signature ...
RegisterCheck(n) ==
    /\ Serving
    /\ n \in nodes
    /\ registering' = registering \cup {n}
    /\ UNCHANGED <<durable, phase, epoch, tables, gate, waitingJobs, waitingSets,
                   enrolling, world>>

\* ... and inserts the offer later, without looking at the node again.
RegisterInsert(n) ==
    /\ n \in registering
    /\ registering' = registering \ {n}
    /\ offers' = offers \cup {n}
    /\ UNCHANGED <<durable, phase, epoch, nodes, assignments, claimed, idempotency,
                   reservations, completed, shardSets, gate, waitingJobs,
                   waitingSets, enrolling, world>>

\* revoke_node: the event first, then every table the node appears in; the
\* idempotency map is left as it is.
RevokeNode(n) ==
    /\ Enters
    /\ n \in nodes
    /\ Log(NodeEvent("node.revoked", n))
    /\ nodes' = nodes \ {n}
    /\ offers' = offers \ {n}
    /\ assignments' = {l \in assignments : l.node # n}
    /\ claimed' = {l \in claimed : l.node # n}
    /\ reservations' = {l \in reservations : l.node # n}
    /\ shardSets' = {r \in shardSets : \A l \in r.leases : l.node # n}
    /\ UNCHANGED <<dbEpoch, kill, marker, latchedAt, phase, epoch, idempotency,
                   completed, gate, calls, world>>

-----------------------------------------------------------------------------
(***************************************************************************)
(* Admission.  Both submit handlers look at the latch and validate the     *)
(* request before they wait for the gate, and never look again.            *)
(***************************************************************************)
Reserved(n) == {r \in reservations \ expired : r.node = n}

\* The job map entry the idempotency key leads to, if there is one.
Existing(j) ==
    {l \in assignments : \E e \in idempotency : e.key = j.key /\ e.id = l.job.id}

\* Room for one more call past the latch check.
MayWait == Cardinality(waitingJobs) + Cardinality(waitingSets) < MaxWaiting

SubmitCheck(j) ==
    /\ Serving
    /\ ~Latched
    /\ MayWait
    /\ waitingJobs' = waitingJobs \cup {j}
    /\ UNCHANGED <<durable, phase, epoch, tables, gate, waitingSets, enrolling,
                   registering, world>>

\* submit_job returns without new authority: the same request is already
\* assigned, the key is bound to other data, no offer is admissible, or the
\* Governor denies the lease.
SubmitAnswer(j) ==
    /\ Enters
    /\ j \in waitingJobs
    /\ waitingJobs' = waitingJobs \ {j}
    /\ UNCHANGED <<durable, phase, epoch, tables, gate, waitingSets, enrolling,
                   registering, world>>

\* submit_job up to stage_job_inputs: place the job on an offer with room and
\* sign a lease for the current epoch.
SubmitAuthorize(j, n) ==
    /\ Enters
    /\ j \in waitingJobs
    /\ Existing(j) = {}
    /\ n \in offers
    /\ Cardinality(Reserved(n)) < Slots
    /\ batches < MaxBatches
    /\ batches' = batches + 1
    /\ gate' = Held("job", {[batch |-> batches, job |-> j, node |-> n,
                             epoch |-> epoch]}, {})
    /\ waitingJobs' = waitingJobs \ {j}
    /\ UNCHANGED <<durable, phase, epoch, tables, waitingSets, enrolling,
                   registering, expired, executed>>

\* Publishing authority: idempotency, assignments and reservations take the
\* new leases, a job id keeping only its newest assignment.
Publish(S) ==
    LET ids == {l.job.id : l \in S}
        keys == {l.job.key : l \in S}
    IN  /\ assignments' = {l \in assignments : l.job.id \notin ids} \cup S
        /\ claimed' = {l \in claimed : l.job.id \notin ids}
        /\ idempotency' = {j \in idempotency : j.key \notin keys}
                          \cup {l.job : l \in S}
        /\ reservations' = (reservations \ expired) \cup S

SubmitPublish ==
    /\ gate.op = "job"
    /\ Log(LeaseEvent("lease.issued", gate.leases))
    /\ Publish(gate.leases)
    /\ gate' = Free
    /\ UNCHANGED <<dbEpoch, kill, marker, latchedAt, phase, epoch, nodes, offers,
                   completed, shardSets, calls, world>>

SetCheck(s) ==
    /\ Serving
    /\ ~Latched
    /\ MayWait
    /\ waitingSets' = waitingSets \cup {s}
    /\ UNCHANGED <<durable, phase, epoch, tables, gate, waitingJobs, enrolling,
                   registering, world>>

SetAnswer(s) ==
    /\ Enters
    /\ s \in waitingSets
    /\ waitingSets' = waitingSets \ {s}
    /\ UNCHANGED <<durable, phase, epoch, tables, gate, waitingJobs, enrolling,
                   registering, world>>

\* Mutant of SetPlan: each shard is placed as if it were the only one.
SetPlanEachAlone(s, place) ==
    /\ Enters
    /\ s \in waitingSets
    /\ \A r \in shardSets : r.spec.key # s.key
    /\ \A j \in s.jobs, e \in idempotency : e.key = j.key => e.id = j.id
    /\ \A j \in s.jobs : Cardinality(Reserved(place[j])) + 1 <= Slots
    /\ batches < MaxBatches
    /\ batches' = batches + 1
    /\ gate' = Held("set", {[batch |-> batches, job |-> j, node |-> place[j],
                             epoch |-> epoch] : j \in s.jobs}, {s})
    /\ waitingSets' = waitingSets \ {s}
    /\ UNCHANGED <<durable, phase, epoch, tables, waitingJobs, enrolling,
                   registering, expired, executed>>

\* submit_shard_set up to stage_job_inputs: a set key not seen before, shard
\* keys not bound to other jobs, and room for all shards together.
SetPlan(s, place) ==
    /\ Enters
    /\ s \in waitingSets
    /\ \A r \in shardSets : r.spec.key # s.key
    /\ \A j \in s.jobs, e \in idempotency : e.key = j.key => e.id = j.id
    /\ \A n \in offers :
        Cardinality(Reserved(n)) + Cardinality({j \in s.jobs : place[j] = n}) <= Slots
    /\ batches < MaxBatches
    /\ batches' = batches + 1
    /\ gate' = Held("set", {[batch |-> batches, job |-> j, node |-> place[j],
                             epoch |-> epoch] : j \in s.jobs}, {s})
    /\ waitingSets' = waitingSets \ {s}
    /\ UNCHANGED <<durable, phase, epoch, tables, waitingJobs, enrolling,
                   registering, expired, executed>>

\* The leases of a set are signed after staging, for the epoch of that moment,
\* and published by one event.
SetPublish ==
    /\ gate.op = "set"
    /\ LET signed == {[l EXCEPT !.epoch = epoch] : l \in gate.leases}
       IN  /\ \E s \in gate.sets :
                /\ Log(SetEvent(s, signed))
                /\ shardSets' = {r \in shardSets : r.spec.id # s.id}
                                \cup {[spec |-> s, leases |-> signed]}
           /\ Publish(signed)
    /\ gate' = Free
    /\ UNCHANGED <<dbEpoch, kill, marker, latchedAt, phase, epoch, nodes, offers,
                   completed, calls, world>>

\* Staging fails, the caller goes away, or the publishing append fails.
StageFails ==
    /\ gate.op \in {"job", "set"}
    /\ gate' = Free
    /\ UNCHANGED <<durable, phase, epoch, tables, calls, world>>

-----------------------------------------------------------------------------
(***************************************************************************)
(* Claims and receipts.  Both use try_lock and are refused while the gate  *)
(* is held; both change the tables before they append.                     *)
(***************************************************************************)
\* Mutant of Claimable: the lease's epoch is not compared.
ClaimableAnyEpoch(n) == {l \in assignments \ claimed : l.node = n /\ l \notin expired}

Claimable(n) ==
    {l \in assignments \ claimed : l.node = n /\ l.epoch = epoch /\ l \notin expired}

\* The oldest claimable lease of an enrolled node, outside a STOP.
ClaimNext(n, l) ==
    /\ Enters
    /\ ~Latched
    /\ n \in nodes
    /\ l \in Claimable(n)
    /\ \A m \in Claimable(n) : l.batch <= m.batch
    /\ claimed' = claimed \cup {l}
    /\ UNCHANGED <<dbEpoch, kill, marker, latchedAt, phase, epoch, nodes, offers,
                   assignments, idempotency, reservations, completed, shardSets,
                   gate, calls, world>>

ClaimWork(n, l) == ClaimNext(n, l) /\ Log(LeaseEvent("job.claimed", {l}))
ClaimWorkFails(n, l) == AppendMayFail /\ ClaimNext(n, l) /\ UNCHANGED ledger

\* A worker that got the claim runs it while the lease is active and keeps a
\* signed receipt (the agent; a lost claim response is this step not taken).
Execute(l) ==
    /\ l \in Claimed(ledger) \ (executed \cup expired)
    /\ executed' = executed \cup {l}
    /\ UNCHANGED <<durable, phase, epoch, tables, gate, calls, batches, expired>>

\* submit_receipt accepts the receipt of the current claimed lease; a worker
\* sends it as often as it likes, and every refusal leaves the state alone.
AcceptReceipt(l) ==
    /\ Enters
    /\ l \in executed
    /\ l.node \in nodes
    /\ l \notin completed
    /\ ~Latched
    /\ l \in assignments /\ l \in claimed
    /\ l.epoch = epoch
    /\ assignments' = assignments \ {l}
    /\ claimed' = claimed \ {l}
    /\ idempotency' = {j \in idempotency : j.key # l.job.key}
    /\ reservations' = {r \in reservations : r.job.id # l.job.id}
    /\ UNCHANGED <<dbEpoch, kill, marker, latchedAt, phase, epoch, nodes, offers,
                   shardSets, calls, world>>

SubmitReceipt(l) ==
    /\ AcceptReceipt(l)
    /\ Log(LeaseEvent("job.receipted", {l}))
    /\ completed' = completed \cup {l}
    /\ gate' = Held("output", {l}, {})

SubmitReceiptFails(l) ==
    AppendMayFail /\ AcceptReceipt(l) /\ UNCHANGED <<ledger, completed, gate>>

\* The rest of submit_receipt: the output the receipt names is recorded.
RecordOutput ==
    /\ gate.op = "output"
    /\ Log(LeaseEvent("artifact.output.recorded", gate.leases))
    /\ gate' = Free
    /\ UNCHANGED <<dbEpoch, kill, marker, latchedAt, phase, epoch, tables, calls, world>>

RecordOutputFails ==
    /\ AppendMayFail
    /\ gate.op = "output"
    /\ gate' = Free
    /\ UNCHANGED <<durable, phase, epoch, tables, calls, world>>

-----------------------------------------------------------------------------
(***************************************************************************)
(* STOP and RESUME.  local_stop makes three durable writes (KILL, the      *)
(* epoch with its event, the marker) before its own event.                 *)
(***************************************************************************)
\* The desktop and the tray create KILL themselves; the POST that asks the
\* controller for the rest is best effort.
TrayLatch ==
    /\ dbEpoch < MaxEpoch
    /\ ~Latched
    /\ kill' = "present"
    /\ latchedAt' = Len(ledger)
    /\ UNCHANGED <<ledger, dbEpoch, marker, phase, epoch, tables, gate, calls, world>>

StopLatch ==
    /\ dbEpoch < MaxEpoch
    /\ Enters
    /\ ~(Latched /\ marker = epoch)
    /\ kill' = "present"
    /\ latchedAt' = IF Latched THEN latchedAt ELSE Len(ledger)
    /\ gate' = Held("stop", {}, {})
    /\ UNCHANGED <<ledger, dbEpoch, marker, phase, epoch, tables, calls, world>>

\* Ledger::advance_fencing_epoch: the row and its event in one transaction.
AdvanceEpoch ==
    /\ dbEpoch < MaxEpoch
    /\ dbEpoch' = dbEpoch + 1
    /\ Log(PlainEvent("authority.epoch.advanced"))

StopAdvance ==
    /\ gate.op = "stop"
    /\ AdvanceEpoch
    /\ epoch' = dbEpoch + 1
    /\ gate' = Held("mark", {}, {})
    /\ UNCHANGED <<kill, marker, latchedAt, phase, tables, calls, world>>

StopMark ==
    /\ gate.op = "mark"
    /\ marker' = epoch
    /\ gate' = Held("stopped", {}, {})
    /\ UNCHANGED <<ledger, dbEpoch, kill, latchedAt, phase, epoch, tables, calls, world>>

\* Mutant of StopFinish: the event's kind is misspelt.
StopFinishMisspelt ==
    /\ gate.op = "stopped"
    /\ Log(PlainEvent("fabric.stop"))
    /\ gate' = Free
    /\ UNCHANGED <<dbEpoch, kill, marker, latchedAt, phase, epoch, tables, calls, world>>

StopFinish ==
    /\ gate.op = "stopped"
    /\ Log(PlainEvent("fabric.owner_stop"))
    /\ gate' = Free
    /\ UNCHANGED <<dbEpoch, kill, marker, latchedAt, phase, epoch, tables, calls, world>>

\* write_stop_epoch_marker truncates before it writes: interrupted, it leaves
\* the old marker or one that does not parse.
TornMarker == marker' \in {marker, 0}

\* An I/O error, or the caller going away, ends local_stop early.
StopAborts ==
    /\ gate.op \in {"stop", "mark", "stopped"}
    /\ IF gate.op = "mark" THEN TornMarker ELSE marker' = marker
    /\ gate' = Free
    /\ UNCHANGED <<ledger, dbEpoch, kill, latchedAt, phase, epoch, tables, calls, world>>

\* Mutant of ResumeUnmark: the marker outlives the latch.
ResumeKeepsMarker ==
    /\ Enters
    /\ gate' = Held("resume", {}, {})
    /\ UNCHANGED <<ledger, dbEpoch, kill, marker, latchedAt, phase, epoch, tables,
                   calls, world>>

\* local_resume, latched or not: the marker goes first, then the latch.
ResumeUnmark ==
    /\ Enters
    /\ marker' = 0
    /\ gate' = Held("resume", {}, {})
    /\ UNCHANGED <<ledger, dbEpoch, kill, latchedAt, phase, epoch, tables, calls, world>>

ResumeUnlatch ==
    /\ gate.op = "resume"
    /\ kill' = "absent"
    /\ Log(PlainEvent("fabric.owner_resume"))
    /\ gate' = Free
    /\ UNCHANGED <<dbEpoch, marker, latchedAt, phase, epoch, tables, calls, world>>

ResumeAborts ==
    /\ gate.op = "resume"
    /\ kill' \in {kill, "absent"}
    /\ gate' = Free
    /\ UNCHANGED <<ledger, dbEpoch, marker, latchedAt, phase, epoch, tables, calls, world>>

-----------------------------------------------------------------------------
(***************************************************************************)
(* Startup, crash and the passing of time.                                 *)
(***************************************************************************)
Quiet == gate' = Free /\ waitingJobs' = {} /\ waitingSets' = {}
         /\ enrolling' = {} /\ registering' = {}

Crash ==
    /\ phase # "down"
    /\ phase' = "down"
    /\ epoch' = 0
    /\ nodes' = {} /\ offers' = {} /\ assignments' = {} /\ claimed' = {}
    /\ idempotency' = {} /\ reservations' = {} /\ completed' = {} /\ shardSets' = {}
    /\ Quiet
    /\ IF gate.op = "mark" \/ phase = "fenced" THEN TornMarker ELSE marker' = marker
    /\ UNCHANGED <<ledger, dbEpoch, kill, latchedAt, world>>

\* The ledger is opened and verified; a new installation starts at epoch 1.
BootOpen ==
    /\ phase = "down"
    /\ phase' = "opened"
    /\ IF dbEpoch = 0 THEN AdvanceEpoch ELSE UNCHANGED <<ledger, dbEpoch>>
    /\ UNCHANGED <<kill, marker, latchedAt, epoch, tables, gate, calls, world>>

UnmatchedLatch == Latched /\ marker # dbEpoch

\* A latch whose marker does not name the current epoch: fence first ...
BootFence ==
    /\ phase = "opened"
    /\ UnmatchedLatch
    /\ phase' = "fenced"
    /\ AdvanceEpoch
    /\ UNCHANGED <<kill, marker, latchedAt, epoch, tables, gate, calls, world>>

\* Mutant of Restore: reservations and idempotency keys start out empty.
RestoreWorkOnly ==
    /\ phase' = "serving"
    /\ epoch' = dbEpoch
    /\ nodes' = RestoredNodes(ledger)
    /\ offers' \in SUBSET RestoredNodes(ledger)
    /\ assignments' = RestoredAssignments(ledger, dbEpoch, expired)
    /\ claimed' = RestoredClaims(ledger, dbEpoch, expired)
    /\ reservations' = {} /\ idempotency' = {}
    /\ completed' = Receipted(ledger)
    /\ shardSets' = RestoredSets(ledger)

\* restore_state and the start of the server.
Restore ==
    /\ phase' = "serving"
    /\ epoch' = dbEpoch
    /\ nodes' = RestoredNodes(ledger)
    /\ offers' \in SUBSET RestoredNodes(ledger)
    /\ assignments' = RestoredAssignments(ledger, dbEpoch, expired)
    /\ claimed' = RestoredClaims(ledger, dbEpoch, expired)
    /\ reservations' = RestoredAssignments(ledger, dbEpoch, expired)
    /\ idempotency' \in RestoredKeys(RestoredAssignments(ledger, dbEpoch, expired))
    /\ completed' = Receipted(ledger)
    /\ shardSets' = RestoredSets(ledger)

BootRestore ==
    /\ phase = "opened"
    /\ ~UnmatchedLatch
    /\ Restore
    /\ UNCHANGED <<durable, gate, calls, world>>

\* ... then write the marker and go on.
BootMark ==
    /\ phase = "fenced"
    /\ marker' = dbEpoch
    /\ Restore
    /\ UNCHANGED <<ledger, dbEpoch, kill, latchedAt, gate, calls, world>>

OfferExpires(n) ==
    /\ n \in offers
    /\ offers' = offers \ {n}
    /\ UNCHANGED <<durable, phase, epoch, nodes, assignments, claimed, idempotency,
                   reservations, completed, shardSets, gate, calls, world>>

\* Deadlines differ from job to job, so leases expire in any order.
LeaseExpires(l) ==
    /\ l \notin expired
    /\ expired' = expired \cup {l}
    /\ UNCHANGED <<durable, phase, epoch, tables, gate, calls, batches, executed>>

-----------------------------------------------------------------------------
StopNext == TrayLatch \/ StopLatch \/ StopAdvance \/ StopMark \/ StopFinish
            \/ StopAborts \/ ResumeUnmark \/ ResumeUnlatch \/ ResumeAborts

BootNext == Crash \/ BootOpen \/ BootFence \/ BootRestore \/ BootMark

NodeNext ==
    \/ \E n \in Joining : EnrollInsert(n)
    \/ \E n \in Nodes :
        \/ EnrollRecord(n) \/ EnrollRecordFails(n)
        \/ RegisterCheck(n) \/ RegisterInsert(n) \/ OfferExpires(n)
    \/ \E n \in Forgettable : RevokeNode(n)

AdmitNext ==
    \/ \E j \in Jobs :
        \/ SubmitCheck(j) \/ SubmitAnswer(j)
        \/ \E n \in Nodes : SubmitAuthorize(j, n)
    \/ \E s \in ShardSets :
        \/ SetCheck(s) \/ SetAnswer(s)
        \/ \E place \in [s.jobs -> offers] : SetPlan(s, place)
    \/ SubmitPublish \/ SetPublish \/ StageFails

WorkNext ==
    \/ \E n \in Nodes, l \in assignments : ClaimWork(n, l) \/ ClaimWorkFails(n, l)
    \/ \E l \in Claimed(ledger) : Execute(l)
    \/ \E l \in executed : SubmitReceipt(l) \/ SubmitReceiptFails(l)
    \/ RecordOutput \/ RecordOutputFails
    \/ \E l \in Issued(ledger) : LeaseExpires(l)

Next == StopNext \/ BootNext \/ NodeNext \/ AdmitNext \/ WorkNext

Spec == Init /\ [][Next]_vars
-----------------------------------------------------------------------------
(***************************************************************************)
(* Properties.                                                             *)
(***************************************************************************)
\* Type invariant.
TypeOK ==
    /\ ledger \in Seq(Event) /\ dbEpoch \in Nat /\ kill \in {"present", "absent"}
    /\ marker \in Nat /\ latchedAt \in Nat
    /\ phase \in {"down", "opened", "fenced", "serving"} /\ epoch \in Nat
    /\ nodes \subseteq Nodes /\ offers \subseteq Nodes
    /\ assignments \subseteq Lease /\ claimed \subseteq Lease
    /\ idempotency \subseteq JobSpec /\ reservations \subseteq Lease
    /\ completed \subseteq Lease /\ shardSets \subseteq SetRecord
    /\ gate \in Gate
    /\ waitingJobs \subseteq Jobs /\ waitingSets \subseteq ShardSets
    /\ enrolling \subseteq Nodes /\ registering \subseteq Nodes
    /\ batches \in Nat /\ expired \subseteq Lease /\ executed \subseteq Lease

Authority == INSTANCE LeaseAuthority
    WITH AllLeases <- Lease, fence <- dbEpoch, issued <- Issued(ledger),
         claims <- Claimed(ledger), receipts <- Receipted(ledger)

\* What reaches the ledger is a behaviour of LeaseAuthority: claims and receipts
\* only of leases of the current epoch, in order, across STOP, crash and restart
\* (claim_work, submit_receipt, local_stop, startup).
AuthorityRefinement == Authority!ASpec

\* The order in which events may name one lease: issued, claimed, receipted,
\* then its outputs.
Follows(a, b) ==
    \/ a \in IssueType /\ b = "job.claimed"
    \/ a \in IssueType \cup {"job.claimed"} /\ b = "job.receipted"
    \/ b = "artifact.output.recorded"

\* No lease is issued, claimed or receipted by two events: a retried submission,
\* a repeated poll, a resent receipt and a restart never reuse a lease
\* (submit_job, claim_work, submit_receipt, restore_state).
SingleUse ==
    \A i, k \in DOMAIN ledger :
        i < k /\ ledger[i].leases \cap ledger[k].leases # {}
        => Follows(ledger[i].type, ledger[k].type)

Fenced(i) == ledger[i].type \in IssueType =>
                 \A l \in ledger[i].leases : l.epoch < dbEpoch

\* Once the marker names the current epoch, the STOP that created KILL has fenced
\* every lease issued before it, whatever crashes and aborted STOPs and RESUMEs
\* came before (local_stop's duplicate answer, startup's marker test).
StopFencesEarlierLeases ==
    Latched /\ marker = dbEpoch =>
        \A i \in DOMAIN ledger : i <= latchedAt => Fenced(i)

\* A later admission names the job id of lease l.  The maps of the controller are
\* keyed by job id, so the later lease takes the place of l; when it expires, a
\* restart brings l back as if it had never been replaced.
Superseded(l) ==
    \E i, k \in DOMAIN ledger :
        /\ i < k
        /\ ledger[i].type \in IssueType /\ l \in ledger[i].leases
        /\ ledger[k].type \in IssueType /\ NamesJob(ledger[k], l.job.id)

\* A restart now would bring back every live assignment with the claimed flag the
\* ledger has for it: "recoverable work remains valid" (restore_state).  Only a
\* superseded lease may come back with the flag of the lease that replaced it.
RestartKeepsWork ==
    Serving =>
        \A l \in assignments : Passes(l, dbEpoch, expired) =>
            /\ l \in RestoredAssignments(ledger, dbEpoch, expired)
            /\ l \in Claimed(ledger) => l \in RestoredClaims(ledger, dbEpoch, expired)
            /\ l \in RestoredClaims(ledger, dbEpoch, expired) =>
                 l \in Claimed(ledger) \/ Superseded(l)

\* Authority that may still start or be running.
Outstanding == assignments \ (expired \cup executed)

\* Outstanding leases never exceed what a node offered, although reservations
\* are rebuilt at restart and dropped at expiry, receipt and revocation; leases
\* that were superseded and came back are not counted, because the restart that
\* found them replaced gave their place away (choose_offer_with_topology,
\* plan_shard_set, restore_state).
NoOvercommit ==
    \A n \in Nodes :
        Cardinality({l \in Outstanding : l.node = n /\ ~Superseded(l)}) <= Slots

\* Two outstanding assignments never share an idempotency key, although the key
\* map is rebuilt at restart and keeps stale entries after a revocation
\* (submit_job, submit_shard_set, restore_state).
OneLeasePerKey ==
    \A a, b \in Outstanding : a.job.key = b.job.key => a = b

\* A shard set is admitted again under the same key only after a node of its
\* first admission was forgotten, or its set id was reused (submit_shard_set).
SetAdmittedOnce ==
    \A i, k \in DOMAIN ledger :
        (i < k /\ \E s \in ledger[i].sets, t \in ledger[k].sets : s.key = t.key)
        => \E m \in (i + 1) .. (k - 1) :
              \/ ledger[m].nodes \cap {l.node : l \in ledger[i].leases} # {}
                 /\ ledger[m].type = "node.revoked"
              \/ \E s \in ledger[i].sets, t \in ledger[m].sets : s.id = t.id

-----------------------------------------------------------------------------
(***************************************************************************)
(* Statements of the documentation that the code does not keep.            *)
(***************************************************************************)
\* docs/OPERATIONS.md on STOP: "The Governor refuses new leases".
NoLeaseWhileStopped ==
    \A i, k \in DOMAIN ledger :
        (i < k /\ ledger[i].type = "fabric.owner_stop" /\ ledger[k].type \in IssueType)
        => \E m \in i .. k : ledger[m].type = "fabric.owner_resume"

\* docs/ARCHITECTURE.md: "an explicit owner STOP advances it before any later
\* admission".
StopFencesBeforeResume ==
    ~Latched => \A i \in DOMAIN ledger : i <= latchedAt => Fenced(i)

\* README.md: Forget "revokes the selected identity, live offer, outstanding
\* work": no lease for a node between its revocation and its next enrolment.
ForgottenNodeGetsNoLease ==
    \A i, k \in DOMAIN ledger : \A n \in ledger[i].nodes :
        (/\ i < k /\ ledger[i].type = "node.revoked"
         /\ ledger[k].type \in IssueType /\ \E l \in ledger[k].leases : l.node = n)
        => \E m \in i .. k : ledger[m].type = "node.enrolled" /\ n \in ledger[m].nodes

\* README.md: "restart replay keeps revoked nodes and offers gone".
RestartKeepsRevoked == Serving => RestoredNodes(ledger) \subseteq nodes

\* docs/OPERATIONS.md: the output references of a receipt "become recorded
\* remote replicas".
OutputsRecorded ==
    Enters => Receipted(ledger) \subseteq Recorded(ledger)
=============================================================================
