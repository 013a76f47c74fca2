-------------------------- MODULE AdmissionProofs ---------------------------
(***************************************************************************)
(* What admission and restart promise together: a restart keeps the work   *)
(* (RestartKeepsWork), no node is overcommitted (NoOvercommit) and a shard *)
(* set is admitted once (SetAdmittedOnce).  All rest on what one more      *)
(* event does to the state that restore_state reads back.  The lemmas are  *)
(* here; the theorems they lead to are stated in ReplayProofs.             *)
(***************************************************************************)
EXTENDS ControllerProofs, FiniteFacts

-----------------------------------------------------------------------------
(***************************************************************************)
(* One more event: what it leaves of the state a restart rebuilds.         *)
(***************************************************************************)
\* The event leaves the assignment of lease l in the replayed map.
Spares(e, l, E, X) ==
    /\ e.type = "job.receipted" => ~NamesJob(e, l.job.id)
    /\ e.type = "node.revoked" => l.node \notin e.nodes
    /\ e.type \in IssueType => \A m \in e.leases : m.job.id = l.job.id => ~Passes(m, E, X)

\* The lease was issued, and since then neither was its node revoked nor did an
\* event of the given types name its job.
Stands(L, l, types) ==
    \E i \in DOMAIN L :
        /\ L[i].type \in IssueType /\ l \in L[i].leases
        /\ \A k \in (i + 1) .. Len(L) :
            /\ L[k].type \in types => ~NamesJob(L[k], l.job.id)
            /\ L[k].type = "node.revoked" => l.node \notin L[k].nodes

\* Neither receipted, revoked nor superseded.
Standing(L, l) == Stands(L, l, IssueType \cup {"job.receipted"})

\* A node with room for q more leases has room for any r <= q of them, as the
\* reservation book of submit_shard_set counts them.
LEMMA RoomLasts == \A p, q, r \in Nat : p + q <= Slots /\ r <= q => p + r <= Slots
  BY BoundsAssumption

\* The rows of a ledger after one more event, as the lemmas below need them.
LEMMA RowsAfter ==
    ASSUME NEW L \in Seq(Event), NEW e \in Event
    PROVE  /\ \A i : i \in DOMAIN Append(L, e) <=> i \in DOMAIN L \/ i = Len(L) + 1
           /\ \A i \in DOMAIN L : Append(L, e)[i] = L[i]
           /\ Append(L, e)[Len(L) + 1] = e
           /\ \A i \in DOMAIN L : i \in Nat /\ i <= Len(L) /\ i < Len(L) + 1
           /\ \A i \in DOMAIN L : \A k : k \in (i + 1) .. Len(Append(L, e)) <=>
                k \in (i + 1) .. Len(L) \/ k = Len(L) + 1
           /\ (Len(L) + 2) .. Len(Append(L, e)) = {}
           /\ \A i \in DOMAIN L : \A k \in (i + 1) .. Len(L) : k \in DOMAIN L /\ i < k
           /\ \A i, k \in DOMAIN L : i < k => k \in (i + 1) .. Len(L)
           /\ Len(L) + 1 \notin DOMAIN L
<1>1. /\ Len(Append(L, e)) = Len(L) + 1 /\ DOMAIN Append(L, e) = 1 .. (Len(L) + 1)
      /\ DOMAIN L = 1 .. Len(L) /\ Len(L) \in Nat
      /\ \A i \in 1 .. Len(L) : Append(L, e)[i] = L[i]
      /\ Append(L, e)[Len(L) + 1] = e
  BY AppendRows, Zenon
<1> QED BY <1>1

\* Replaying one more event inserts the current leases it issues, and keeps the
\* assignments that it spares (restore_state).
LEMMA RestoredAppend ==
    ASSUME NEW L \in Seq(Event), NEW e \in Event, NEW E, NEW X, NEW l
    PROVE  l \in RestoredAssignments(Append(L, e), E, X) <=>
             \/ e.type \in IssueType /\ l \in e.leases /\ Passes(l, E, X)
             \/ l \in RestoredAssignments(L, E, X) /\ Spares(e, l, E, X)
<1> DEFINE M == Append(L, e)
           N == Len(L) + 1
<1>1. /\ \A i : i \in DOMAIN M <=> i \in DOMAIN L \/ i = N
      /\ \A i \in DOMAIN L : M[i] = L[i]
      /\ M[N] = e
      /\ \A i \in DOMAIN L : \A k : k \in (i + 1) .. Len(M) <=> k \in (i + 1) .. Len(L) \/ k = N
      /\ \A i \in DOMAIN L : \A k \in (i + 1) .. Len(L) : k \in DOMAIN L
      /\ (N + 1) .. Len(M) = {}
  BY RowsAfter
<1> HIDE DEF M, N
<1>3. ASSUME NEW i \in DOMAIN L
      PROVE  SurvivesReplay(M, i, l, E, X) <=> SurvivesReplay(L, i, l, E, X) /\ Spares(e, l, E, X)
  BY <1>1, Zenon DEF SurvivesReplay, Spares
<1>4. SurvivesReplay(M, N, l, E, X) <=>
        e.type \in IssueType /\ l \in e.leases /\ Passes(l, E, X)
  BY <1>1, Zenon DEF SurvivesReplay
<1>5. \A i \in DOMAIN L : SurvivesReplay(L, i, l, E, X) => l \in Issued(L)
  BY LeasesOfRows, Zenon DEF SurvivesReplay, Issued
<1>6. l \in RestoredAssignments(L, E, X) <=> \E i \in DOMAIN L : SurvivesReplay(L, i, l, E, X)
  BY <1>5, Zenon DEF RestoredAssignments
<1>7. \A i \in DOMAIN M : SurvivesReplay(M, i, l, E, X) => l \in Issued(M)
  BY LeasesOfRows, Zenon DEF SurvivesReplay, Issued
<1>8. l \in RestoredAssignments(M, E, X) <=> \E i \in DOMAIN M : SurvivesReplay(M, i, l, E, X)
  BY <1>7, Zenon DEF RestoredAssignments
<1> QED BY <1>1, <1>3, <1>4, <1>6, <1>8, Zenon DEF M

\* One more event leaves a lease standing unless it names its job or revokes its
\* node.
LEMMA StandsAppend ==
    ASSUME NEW L \in Seq(Event), NEW e \in Event, NEW l, NEW T
    PROVE  Stands(Append(L, e), l, T) <=>
             \/ e.type \in IssueType /\ l \in e.leases
             \/ /\ Stands(L, l, T)
                /\ e.type \in T => ~NamesJob(e, l.job.id)
                /\ e.type = "node.revoked" => l.node \notin e.nodes
<1> DEFINE M == Append(L, e)
           N == Len(L) + 1
           Leaves(d) == /\ d.type \in T => ~NamesJob(d, l.job.id)
                        /\ d.type = "node.revoked" => l.node \notin d.nodes
           At(K, i) == /\ K[i].type \in IssueType /\ l \in K[i].leases
                       /\ \A k \in (i + 1) .. Len(K) : Leaves(K[k])
<1>1. /\ \A i : i \in DOMAIN M <=> i \in DOMAIN L \/ i = N
      /\ \A i \in DOMAIN L : M[i] = L[i]
      /\ M[N] = e
      /\ \A i \in DOMAIN L : \A k : k \in (i + 1) .. Len(M) <=> k \in (i + 1) .. Len(L) \/ k = N
      /\ \A i \in DOMAIN L : \A k \in (i + 1) .. Len(L) : k \in DOMAIN L
      /\ (N + 1) .. Len(M) = {}
  BY RowsAfter
<1>2. Stands(L, l, T) <=> \E i \in DOMAIN L : At(L, i)
  BY Zenon DEF Stands
<1>3. Stands(M, l, T) <=> \E i \in DOMAIN M : At(M, i)
  BY DEF Stands
<1> HIDE DEF M, N, Leaves
<1>4. ASSUME NEW i \in DOMAIN L
      PROVE  At(M, i) <=> At(L, i) /\ Leaves(e)
  BY <1>1, Zenon
<1>5. At(M, N) <=> e.type \in IssueType /\ l \in e.leases
  BY <1>1, Zenon
<1> HIDE DEF At
<1>6. Stands(M, l, T) <=>
        (e.type \in IssueType /\ l \in e.leases) \/ (Stands(L, l, T) /\ Leaves(e))
  BY <1>1, <1>2, <1>3, <1>4, <1>5, Zenon
<1> QED BY <1>6 DEF M, Leaves

\* The same for leases that are neither receipted, revoked nor superseded.
LEMMA StandingAppend ==
    ASSUME NEW L \in Seq(Event), NEW e \in Event, NEW l
    PROVE  Standing(Append(L, e), l) <=>
             \/ e.type \in IssueType /\ l \in e.leases
             \/ /\ Standing(L, l)
                /\ e.type \in IssueType \cup {"job.receipted"} => ~NamesJob(e, l.job.id)
                /\ e.type = "node.revoked" => l.node \notin e.nodes
BY StandsAppend, Zenon DEF Standing

\* A lease is superseded by one more event only when that event issues a lease
\* for its job id.
LEMMA SupersededAppend ==
    ASSUME ledger \in Seq(Event), NEW e \in Event, ledger' = Append(ledger, e), NEW l
    PROVE  Superseded(l)' <=>
             \/ Superseded(l)
             \/ e.type \in IssueType /\ NamesJob(e, l.job.id) /\ l \in Issued(ledger)
<1> DEFINE N == Len(ledger) + 1
<1>1. /\ \A i : i \in DOMAIN ledger' <=> i \in DOMAIN ledger \/ i = N
      /\ \A i \in DOMAIN ledger : ledger'[i] = ledger[i]
      /\ ledger'[N] = e
      /\ \A i \in DOMAIN ledger : i \in Nat /\ i < N
      /\ N \in Nat
  BY RowsAfter
<1>2. l \in Issued(ledger) <=>
        \E i \in DOMAIN ledger : ledger[i].type \in IssueType /\ l \in ledger[i].leases
  BY LeasesOfRows, Zenon DEF Issued
<1> HIDE DEF N
<1>3. \A i, k \in DOMAIN ledger' : i < k => i \in DOMAIN ledger
  BY <1>1
<1> QED BY <1>1, <1>2, <1>3, ZenonT(30) DEF Superseded

-----------------------------------------------------------------------------
(***************************************************************************)
(* The steps of the controller, told apart by what they do to the ledger,  *)
(* the tables and the leases in hand.                                      *)
(***************************************************************************)
\* An event that a replay of assignments and shard sets does not look at.
Neutral(e) ==
    /\ e.type \notin IssueType \cup {"job.claimed", "job.receipted", "node.revoked"}
    /\ e.sets = {}

\* No admission begins, and no startup ends.
Calm == /\ gate' = gate \/ gate'.op \notin {"job", "set"}
        /\ phase' = phase \/ ~Serving'

work == <<assignments, reservations, idempotency, shardSets>>
facts == <<executed, expired>>

Stays ==
    /\ ledger' = ledger \/ \E e \in Event : Neutral(e) /\ ledger' = Append(ledger, e)
    /\ UNCHANGED <<dbEpoch, work, facts>> /\ Calm

Advances ==
    /\ \E e \in Event : Neutral(e) /\ ledger' = Append(ledger, e)
    /\ dbEpoch' = dbEpoch + 1
    /\ UNCHANGED <<work, facts>> /\ Calm

Dies ==
    /\ ~Serving' /\ gate'.op = "free"
    /\ assignments' = {} /\ reservations' = {} /\ shardSets' = {}
    /\ UNCHANGED <<ledger, dbEpoch, facts>>

Restores ==
    /\ ~Serving /\ gate.op = "free" /\ gate' = gate
    /\ assignments' = RestoredAssignments(ledger, dbEpoch, expired)
    /\ reservations' = RestoredAssignments(ledger, dbEpoch, expired)
    /\ idempotency' \in RestoredKeys(RestoredAssignments(ledger, dbEpoch, expired))
    /\ shardSets' = RestoredSets(ledger)
    /\ UNCHANGED <<ledger, dbEpoch, facts>>

\* A handler that has the gate for itself and gives it back or keeps it for the
\* rest of its work.
Alone == Serving /\ Serving' /\ gate.op = "free" /\ gate'.op \notin {"job", "set"}

Forgets(n) ==
    /\ Alone
    /\ ledger' = Append(ledger, NodeEvent("node.revoked", n))
    /\ assignments' = {l \in assignments : l.node # n}
    /\ reservations' = {l \in reservations : l.node # n}
    /\ shardSets' = {r \in shardSets : \A l \in r.leases : l.node # n}
    /\ UNCHANGED <<dbEpoch, idempotency, facts>>

\* Leases are in hand: of different jobs, within the room of their nodes, and
\* under a key that is not in use.
Hand(n) == {l \in gate.leases : l.node = n}

Plans ==
    /\ Serving /\ Serving' /\ gate.op = "free" /\ gate'.op \in {"job", "set"}
    /\ IsFiniteSet(gate'.leases)
    /\ \A a, b \in gate'.leases : a.job.id = b.job.id => a = b
    /\ \A n \in Nodes : Hand(n)' # {} =>
         Cardinality(Reserved(n)) + Cardinality(Hand(n)') <= Slots
    /\ gate'.op = "job" => \E l \in Lease : gate'.leases = {l} /\ Existing(l.job) = {}
    /\ gate'.op = "set" => gate'.sets # {} /\ \A r \in shardSets, s \in gate'.sets : r.spec.key # s.key
    /\ UNCHANGED <<ledger, dbEpoch, work, facts>>

Issues(e) ==
    /\ Serving /\ Serving' /\ gate.op \in {"job", "set"} /\ gate'.op = "free"
    /\ e.type \in IssueType /\ e.leases = gate.leases /\ ledger' = Append(ledger, e)
    /\ Publish(gate.leases)
    /\ \/ gate.op = "job" /\ e.sets = {} /\ shardSets' = shardSets
       \/ gate.op = "set" /\ \E s \in gate.sets :
             /\ e = SetEvent(s, gate.leases)
             /\ shardSets' = {r \in shardSets : r.spec.id # s.id}
                             \cup {[spec |-> s, leases |-> gate.leases]}
    /\ UNCHANGED <<dbEpoch, facts>>

Claims(l) ==
    /\ Alone
    /\ l \in assignments /\ Passes(l, dbEpoch, expired)
    /\ ledger' = Append(ledger, LeaseEvent("job.claimed", {l}))
    /\ UNCHANGED <<dbEpoch, work, facts>>

Accepts(l) ==
    /\ Alone
    /\ l \in assignments /\ l \in executed
    /\ \/ ledger' = Append(ledger, LeaseEvent("job.receipted", {l}))
       \/ AppendMayFail /\ ledger' = ledger
    /\ assignments' = assignments \ {l}
    /\ reservations' = {r \in reservations : r.job.id # l.job.id}
    /\ idempotency' = {j \in idempotency : j.key # l.job.key}
    /\ UNCHANGED <<dbEpoch, shardSets, facts>>

\* Work is done or a lease expires, outside the controller.
Elapses(l) ==
    /\ \/ executed' = executed \cup {l} /\ expired' = expired
       \/ expired' = expired \cup {l} /\ executed' = executed
    /\ UNCHANGED <<ledger, dbEpoch, phase, work, gate>>

Kinds ==
    \/ Stays \/ Advances \/ Dies \/ Restores \/ Plans
    \/ \E n \in Nodes : Forgets(n)
    \/ \E e \in Event : Issues(e)
    \/ \E l \in Lease : Claims(l) \/ Accepts(l) \/ Elapses(l)

\* The leases of a set are signed for the epoch they were planned in.
LEMMA SignedAsPlanned ==
    ASSUME WorkInv, gate.op = "set"
    PROVE  {[l EXCEPT !.epoch = epoch] : l \in gate.leases} = gate.leases
<1>1. \A l \in gate.leases : l \in Lease /\ l.epoch = epoch
  BY Zenon DEF WorkInv, TypeOK, Gate, GateInv
<1>2. \A l \in gate.leases : [l EXCEPT !.epoch = epoch] = l
  BY <1>1, Zenon DEF Lease
<1> QED BY <1>2, Zenon

\* Every step is of one of the kinds, if those that plan an admission are.
LEMMA StepSorts ==
    ASSUME WorkInv, [Next]_vars,
           \A j \in Jobs, n \in Nodes : SubmitAuthorize(j, n) => Plans,
           \A s \in ShardSets : \A place \in [s.jobs -> offers] : SetPlan(s, place) => Plans
    PROVE  Kinds
<1> USE DEF durable, tables, calls, world, work, facts
<1>0. /\ ledger \in Seq(Event) /\ phase \in {"down", "opened", "fenced", "serving"}
      /\ gate.op # "free" => Serving
      /\ Serving => epoch = dbEpoch
      /\ gate.leases \subseteq Lease /\ gate.sets \subseteq ShardSets
      /\ assignments \subseteq Lease /\ executed \subseteq Lease
  BY Zenon DEF WorkInv, TypeOK, GateInv, Gate
<1>1. /\ \A t \in EventType : PlainEvent(t) \in Event
      /\ \A t \in {"authority.epoch.advanced", "fabric.owner_stop", "fabric.owner_resume"} :
            PlainEvent(t) \in Event /\ Neutral(PlainEvent(t))
      /\ \A n \in Nodes : /\ NodeEvent("node.enrolled", n) \in Event
                          /\ Neutral(NodeEvent("node.enrolled", n))
      /\ \A S \in SUBSET Lease :
            /\ LeaseEvent("artifact.output.recorded", S) \in Event
            /\ Neutral(LeaseEvent("artifact.output.recorded", S))
  BY EventTypes DEF EventType, Neutral, PlainEvent, NodeEvent, LeaseEvent, IssueType
<1>2. CASE StopNext
  <2>1. CASE StopAdvance
    <3>1. Advances
      BY <1>1, <2>1, Zenon DEF StopAdvance, AdvanceEpoch, Log, Held, Advances, Calm
    <3> QED BY <3>1, Zenon DEF Kinds
  <2>2. CASE StopFinish \/ ResumeUnlatch
    <3>1. Stays
      BY <1>1, <2>2 DEF StopFinish, ResumeUnlatch, Log, Held, Free, Stays, Calm
    <3> QED BY <3>1, Zenon DEF Kinds
  <2>3. CASE TrayLatch \/ StopLatch \/ StopMark \/ StopAborts \/ ResumeUnmark \/ ResumeAborts
    <3>1. Stays
      <4>1. ledger' = ledger /\ phase' = phase /\ UNCHANGED <<dbEpoch, work, facts>>
        BY <2>3, Zenon DEF TrayLatch, StopLatch, StopMark, StopAborts, ResumeUnmark, ResumeAborts
      <4>2. gate' \in {gate, Held("stop", {}, {}), Held("stopped", {}, {}), Held("resume", {}, {}), Free}
        BY <2>3, Zenon DEF TrayLatch, StopLatch, StopMark, StopAborts, ResumeUnmark, ResumeAborts
      <4>3. gate' = gate \/ gate'.op \notin {"job", "set"}
        BY <4>2 DEF Held, Free
      <4> QED BY <4>1, <4>3, Zenon DEF Stays, Calm
    <3> QED BY <3>1 DEF Kinds
  <2> QED BY <1>2, <2>1, <2>2, <2>3, Zenon DEF StopNext
<1>3. CASE BootNext
  <2>1. CASE Crash
    <3>1. Dies
      BY <2>1, Zenon DEF Crash, Quiet, Free, Held, Dies, Serving
    <3> QED BY <3>1, Zenon DEF Kinds
  <2>2. CASE BootOpen \/ BootFence
    <3>1. Stays \/ Advances
      BY <1>1, <2>2, Zenon DEF BootOpen, BootFence, AdvanceEpoch, Log, Stays, Advances, Calm, Serving
    <3> QED BY <3>1, Zenon DEF Kinds
  <2>3. CASE BootRestore \/ BootMark
    <3>1. Restores
      BY <1>0, <2>3, Zenon DEF BootRestore, BootMark, Restore, Restores, Serving
    <3> QED BY <3>1 DEF Kinds
  <2> QED BY <1>3, <2>1, <2>2, <2>3 DEF BootNext
<1>4. CASE NodeNext
  <2>1. ASSUME NEW n \in Nodes, RevokeNode(n) PROVE Kinds
    <3>1. Forgets(n)
      BY <2>1, Zenon DEF RevokeNode, Log, Enters, Forgets, Alone, Serving
    <3> QED BY <3>1 DEF Kinds
  <2>2. ASSUME NEW n \in Nodes, EnrollRecord(n) PROVE Kinds
    <3>1. Stays
      BY <1>1, <2>2, ZenonT(30) DEF EnrollRecord, Log, Stays, Calm
    <3> QED BY <3>1 DEF Kinds
  <2>3. ASSUME NEW n \in Nodes,
               EnrollInsert(n) \/ EnrollRecordFails(n) \/ RegisterCheck(n)
                 \/ RegisterInsert(n) \/ OfferExpires(n)
        PROVE  Kinds
    <3>1. Stays
      BY <2>3 DEF EnrollInsert, EnrollRecordFails, RegisterCheck, RegisterInsert,
                  OfferExpires, Stays, Calm
    <3> QED BY <3>1 DEF Kinds
  <2> QED BY <1>4, <2>1, <2>2, <2>3, BoundsAssumption, Zenon DEF NodeNext
<1>5. CASE AdmitNext
  <2>1. ASSUME NEW j \in Jobs, SubmitCheck(j) \/ SubmitAnswer(j) PROVE Stays
    BY <2>1, Zenon DEF SubmitCheck, SubmitAnswer, Stays, Calm
  <2>2. ASSUME NEW s \in ShardSets, SetCheck(s) \/ SetAnswer(s) PROVE Stays
    BY <2>2, Zenon DEF SetCheck, SetAnswer, Stays, Calm
  <2>3. CASE StageFails
    BY <2>3, Zenon DEF StageFails, Free, Held, Stays, Calm, Kinds
  <2>4. CASE SubmitPublish
    <3> DEFINE e == LeaseEvent("lease.issued", gate.leases)
    <3>1. /\ e \in Event /\ e.type \in IssueType /\ e.leases = gate.leases /\ e.sets = {}
      BY <1>0, EventTypes, Zenon DEF LeaseEvent, IssueType, EventType
    <3> HIDE DEF e
    <3>2. Issues(e)
      BY <1>0, <2>4, <3>1, Zenon DEF SubmitPublish, Log, Free, Held, Issues, Serving, e
    <3> QED BY <3>1, <3>2, Zenon DEF Kinds
  <2>5. CASE SetPublish
    <3>1. {[l EXCEPT !.epoch = epoch] : l \in gate.leases} = gate.leases
      BY <2>5, SignedAsPlanned, Zenon DEF SetPublish
    <3>2. PICK s \in gate.sets :
            /\ Log(SetEvent(s, gate.leases))
            /\ shardSets' = {r \in shardSets : r.spec.id # s.id}
                            \cup {[spec |-> s, leases |-> gate.leases]}
      BY <2>5, <3>1, Zenon DEF SetPublish
    <3>3. Publish(gate.leases)
      BY <2>5, <3>1, Zenon DEF SetPublish
    <3> DEFINE e == SetEvent(s, gate.leases)
    <3>4. /\ e \in Event /\ e.type \in IssueType /\ e.leases = gate.leases
      BY <1>0, EventTypes, Zenon DEF SetEvent, IssueType, EventType
    <3>5. ledger' = Append(ledger, e) /\ e = SetEvent(s, gate.leases)
      BY <3>2, Zenon DEF Log
    <3> HIDE DEF e
    <3>6. /\ Serving /\ Serving' /\ gate.op = "set" /\ gate'.op = "free"
          /\ UNCHANGED <<dbEpoch, facts>>
      BY <1>0, <2>5, Zenon DEF SetPublish, Free, Held, Serving
    <3>7. Issues(e)
      BY <3>2, <3>3, <3>4, <3>5, <3>6, Zenon DEF Issues
    <3> QED BY <3>4, <3>7, Zenon DEF Kinds
  <2> QED BY <1>5, <2>1, <2>2, <2>3, <2>4, <2>5, Zenon DEF AdmitNext, Kinds
<1>6. CASE WorkNext
  <2>1. ASSUME NEW n \in Nodes, NEW l \in assignments, ClaimWork(n, l) PROVE Claims(l)
    BY <1>0, <2>1, Zenon DEF ClaimWork, ClaimNext, Claimable, Enters, Log, Claims, Alone, Passes, Serving
  <2>2. ASSUME NEW n \in Nodes, NEW l \in assignments, ClaimWorkFails(n, l) PROVE Stays
    BY <2>2, Zenon DEF ClaimWorkFails, ClaimNext, Stays, Calm
  <2>3. ASSUME NEW l, Execute(l) \/ LeaseExpires(l) PROVE Elapses(l)
    BY <2>3, Zenon DEF Execute, LeaseExpires, Elapses
  <2>4. ASSUME NEW l, SubmitReceipt(l) \/ SubmitReceiptFails(l) PROVE Accepts(l)
    BY SMTT(30), <2>4 DEF SubmitReceipt, SubmitReceiptFails, AcceptReceipt, Enters, Log, Held, Accepts,
                Alone, Serving
  <2>5. CASE RecordOutput \/ RecordOutputFails
    <3>1. Stays
      BY <1>0, <1>1, <2>5 DEF RecordOutput, RecordOutputFails, Log, Free, Held, Stays, Calm
    <3> QED BY <3>1 DEF Kinds
  <2>6. Claimed(ledger) \subseteq Lease /\ Issued(ledger) \subseteq Lease
    BY <1>0, RestoredTypes, Zenon DEF Claimed, Issued
  <2> QED BY <1>0, <1>6, <2>1, <2>2, <2>3, <2>4, <2>5, <2>6, Zenon DEF WorkNext, Kinds
<1>7. CASE UNCHANGED vars
  BY <1>7, Zenon DEF vars, Stays, Calm, Kinds
<1> QED BY <1>2, <1>3, <1>4, <1>5, <1>6, <1>7, Zenon DEF Next

-----------------------------------------------------------------------------
(***************************************************************************)
(* The inductive invariant.                                                *)
(***************************************************************************)
Admitting == gate.op \in {"job", "set"}

\* Only finitely many leases are issued, reserved and in hand.
FiniteInv ==
    /\ IsFiniteSet(Issued(ledger)) /\ IsFiniteSet(reservations)
    /\ Admitting => IsFiniteSet(gate.leases)

\* The leases of one admission are of different jobs, and so are assignments.
IdsInv ==
    /\ \A i \in DOMAIN ledger : ledger[i].type \in IssueType =>
        \A a, b \in ledger[i].leases : a.job.id = b.job.id => a = b
    /\ Admitting => \A a, b \in gate.leases : a.job.id = b.job.id => a = b
    /\ \A a, b \in assignments : a.job.id = b.job.id => a = b

\* What is assigned and still current is what a restart would bring back.
RevivedInv ==
    Serving => \A l \in assignments :
        Passes(l, dbEpoch, expired) => l \in RestoredAssignments(ledger, dbEpoch, expired)

\* A claim in the ledger is of the newest current lease of its job.
ClaimsInv ==
    \A i, k \in DOMAIN ledger :
        i < k /\ ledger[i].type \in IssueType /\ ledger[k].type = "job.claimed" =>
            \A l \in ledger[i].leases, m \in ledger[k].leases :
                l.job.id = m.job.id /\ Passes(l, dbEpoch, expired) =>
                    l = m \/ Superseded(l)

\* The leases a restart would count against a node, and those that count now.
Due == {l \in Issued(ledger) : Standing(ledger, l) /\ Passes(l, dbEpoch, expired)} \ executed
Counted == {l \in Outstanding : ~Superseded(l)}
Load(n) == {l \in Due \cup Counted : l.node = n}

\* Reservations cover what counts, and there is room for what is in hand.
RoomInv ==
    /\ Serving => Due \subseteq assignments
    /\ Counted \subseteq reservations
    /\ \A n \in Nodes : Cardinality(Load(n)) <= Slots
    /\ Admitting => \A n \in Nodes :
         Hand(n) # {} => Cardinality(Reserved(n)) + Cardinality(Hand(n)) <= Slots

\* The table of shard sets is the one a restart would rebuild, and a set being
\* admitted has a key that the table does not have.
SetsInv ==
    /\ \A i \in DOMAIN ledger : \A s, t \in ledger[i].sets : s = t
    /\ Serving => shardSets = RestoredSets(ledger)
    /\ gate.op = "set" => \A r \in shardSets, s \in gate.sets : r.spec.key # s.key

AdmitInv == WorkInv /\ FiniteInv /\ IdsInv /\ RevivedInv /\ ClaimsInv /\ RoomInv
            /\ SetsInv /\ SetAdmittedOnce

-----------------------------------------------------------------------------
\* The events of revocations, claims and receipts.
LEMMA RowEvents ==
    /\ \A n \in Nodes : LET e == NodeEvent("node.revoked", n) IN
        e \in Event /\ e.type = "node.revoked" /\ e.nodes = {n} /\ e.leases = {} /\ e.sets = {}
    /\ \A l \in Lease, t \in {"job.claimed", "job.receipted"} : LET e == LeaseEvent(t, {l}) IN
        e \in Event /\ e.type = t /\ e.nodes = {} /\ e.leases = {l} /\ e.sets = {}
BY EventTypes, Zenon DEF NodeEvent, LeaseEvent, EventType

\* Only an issuing event adds to the issued leases.
LEMMA IssuedAfter ==
    ASSUME ledger \in Seq(Event), NEW e \in Event, ledger' = Append(ledger, e)
    PROVE  /\ e.type \in IssueType => Issued(ledger') = Issued(ledger) \cup e.leases
           /\ e.type \notin IssueType => Issued(ledger') = Issued(ledger)
BY LeasesOfAppend DEF Issued

\* A step other than an admission's last appends no issuing event.
LEMMA NothingNew ==
    ASSUME WorkInv, Kinds, \A e \in Event : ~Issues(e)
    PROVE  \/ ledger' = ledger
           \/ \E e \in Event : /\ e.type \notin IssueType /\ e.sets = {}
                               /\ ledger' = Append(ledger, e)
<1>1. CASE \E n \in Nodes : Forgets(n)
  <2>1. PICK n \in Nodes : Forgets(n)
    BY <1>1, Zenon
  <2>2. LET e == NodeEvent("node.revoked", n)
        IN  e \in Event /\ e.type = "node.revoked" /\ e.sets = {} /\ ledger' = Append(ledger, e)
    BY <2>1, RowEvents, Zenon DEF Forgets
  <2> QED BY <2>2, Zenon DEF IssueType
<1>2. CASE \E l \in Lease : Claims(l) \/ Accepts(l)
  <2>1. PICK l \in Lease : Claims(l) \/ Accepts(l)
    BY <1>2, Zenon
  <2>2. ASSUME NEW t \in {"job.claimed", "job.receipted"}
        PROVE  LET e == LeaseEvent(t, {l})
               IN  e \in Event /\ e.type \notin IssueType /\ e.sets = {}
    BY RowEvents, Zenon DEF IssueType
  <2>3. \/ ledger' = Append(ledger, LeaseEvent("job.claimed", {l}))
        \/ ledger' = Append(ledger, LeaseEvent("job.receipted", {l}))
        \/ ledger' = ledger
    BY <2>1, Zenon DEF Claims, Accepts
  <2> QED BY <2>2, <2>3, Zenon
<1>3. CASE Stays \/ Advances
  BY <1>3, Zenon DEF Stays, Advances, Neutral
<1>4. CASE Dies \/ Restores \/ Plans \/ \E l \in Lease : Elapses(l)
  BY <1>4, Zenon DEF Dies, Restores, Plans, Elapses
<1> QED BY <1>1, <1>2, <1>3, <1>4, Zenon DEF Kinds

-----------------------------------------------------------------------------
(***************************************************************************)
(* Shard sets.                                                             *)
(***************************************************************************)
\* Event d leaves the shard set of event c in the replayed table.
KeepsSet(c, d) ==
    /\ d.type = "node.revoked" => \A l \in c.leases : l.node \notin d.nodes
    /\ \A s \in c.sets, t \in d.sets : s.id # t.id

\* Membership in the replayed table, row by row.
LEMMA RestoredSetRows ==
    ASSUME NEW L, NEW r
    PROVE  r \in RestoredSets(L) <=>
             \E i \in DOMAIN L :
                 /\ \E s \in L[i].sets : r = [spec |-> s, leases |-> L[i].leases]
                 /\ \A k \in (i + 1) .. Len(L) : KeepsSet(L[i], L[k])
BY DEF RestoredSets, KeepsSet

\* One more event adds its own sets and keeps those it does not disturb.
LEMMA RestoredSetsAppend ==
    ASSUME NEW L \in Seq(Event), NEW e \in Event, NEW r
    PROVE  r \in RestoredSets(Append(L, e)) <=>
             \/ \E s \in e.sets : r = [spec |-> s, leases |-> e.leases]
             \/ \E i \in DOMAIN L :
                 /\ \E s \in L[i].sets : r = [spec |-> s, leases |-> L[i].leases]
                 /\ \A k \in (i + 1) .. Len(L) : KeepsSet(L[i], L[k])
                 /\ KeepsSet(L[i], e)
<1> DEFINE M == Append(L, e)
           N == Len(L) + 1
<1>1. /\ \A i : i \in DOMAIN M <=> i \in DOMAIN L \/ i = N
      /\ \A i \in DOMAIN L : M[i] = L[i]
      /\ M[N] = e
      /\ \A i \in DOMAIN L : \A k : k \in (i + 1) .. Len(M) <=> k \in (i + 1) .. Len(L) \/ k = N
      /\ \A i \in DOMAIN L : \A k \in (i + 1) .. Len(L) : k \in DOMAIN L
      /\ (N + 1) .. Len(M) = {}
  BY RowsAfter
<1>2. r \in RestoredSets(M) <=>
        \E i \in DOMAIN M :
            /\ \E s \in M[i].sets : r = [spec |-> s, leases |-> M[i].leases]
            /\ \A k \in (i + 1) .. Len(M) : KeepsSet(M[i], M[k])
  BY RestoredSetRows, Zenon
<1> HIDE DEF M, N
<1>3. \A i \in DOMAIN L : (\A k \in (i + 1) .. Len(M) : KeepsSet(M[i], M[k])) <=>
        (\A k \in (i + 1) .. Len(L) : KeepsSet(L[i], L[k])) /\ KeepsSet(L[i], e)
  BY <1>1, Zenon
<1>4. \A k \in (N + 1) .. Len(M) : KeepsSet(M[N], M[k])
  BY <1>1, Zenon
<1>5. r \in RestoredSets(M) <=>
             \/ \E s \in e.sets : r = [spec |-> s, leases |-> e.leases]
             \/ \E i \in DOMAIN L :
                 /\ \E s \in L[i].sets : r = [spec |-> s, leases |-> L[i].leases]
                 /\ \A k \in (i + 1) .. Len(L) : KeepsSet(L[i], L[k])
                 /\ KeepsSet(L[i], e)
  BY <1>1, <1>2, <1>3, <1>4, ZenonT(30)
<1> QED BY <1>5, Zenon DEF M

\* Steps keep the table of shard sets in step with the ledger.
LEMMA SetsStep ==
    ASSUME WorkInv, SetsInv, Kinds
    PROVE  SetsInv'
<1> USE DEF work, facts
<1>0. ledger \in Seq(Event) /\ gate.leases \subseteq Lease /\ gate.sets \subseteq ShardSets
  BY Zenon DEF WorkInv, TypeOK, Gate
<1>1. \A i \in DOMAIN ledger' : \A s, t \in ledger'[i].sets : s = t
  <2>1. ASSUME NEW e \in Event, ledger' = Append(ledger, e), \A s, t \in e.sets : s = t
        PROVE  \A i \in DOMAIN ledger' : \A s, t \in ledger'[i].sets : s = t
    BY <1>0, <2>1, RowsAfter DEF SetsInv
  <2>2. ASSUME NEW e \in Event, Issues(e)
        PROVE  ledger' = Append(ledger, e) /\ \A s, t \in e.sets : s = t
    BY <2>2, SMTT(30) DEF Issues, SetEvent
  <2>3. CASE \E e \in Event : Issues(e)
    BY <2>1, <2>2, <2>3, Zenon
  <2>4. CASE \A e \in Event : ~Issues(e)
    BY <2>1, <2>4, NothingNew, Zenon DEF SetsInv
  <2> QED BY <2>3, <2>4, Zenon
<1>2. Serving' => shardSets' = RestoredSets(ledger')
  <2> SUFFICES ASSUME Serving' PROVE \A r : r \in shardSets' <=> r \in RestoredSets(ledger')
    BY Zenon
  <2>1. ASSUME Serving, NEW e \in Event, ledger' = Append(ledger, e), e.sets = {},
               e.type # "node.revoked", shardSets' = shardSets
        PROVE  \A r : r \in shardSets' <=> r \in RestoredSets(ledger')
    <3>1. \A r : r \in shardSets <=> r \in RestoredSets(ledger)
      BY <2>1, Zenon DEF SetsInv
    <3>2. \A c : KeepsSet(c, e)
      BY <2>1, Zenon DEF KeepsSet
    <3>3. \A r : r \in RestoredSets(Append(ledger, e)) <=> r \in RestoredSets(ledger)
      BY <1>0, <2>1, <3>2, RestoredSetsAppend, RestoredSetRows
    <3> QED BY <2>1, <3>1, <3>3, Zenon
  <2>2. CASE Stays \/ Advances
    <3>1. Serving /\ shardSets' = shardSets
      BY <2>2, Zenon DEF Stays, Advances, Calm, Serving
    <3>2. CASE ledger' = ledger
      BY <3>1, <3>2, Zenon DEF SetsInv
    <3>3. CASE \E e \in Event : Neutral(e) /\ ledger' = Append(ledger, e)
      BY <2>1, <3>1, <3>3, Zenon DEF Neutral
    <3> QED BY <2>2, <3>2, <3>3, Zenon DEF Stays, Advances
  <2>3. CASE Dies \/ Restores
    BY <2>3, Zenon DEF Dies, Restores
  <2>4. CASE Plans \/ \E l \in Lease : Elapses(l)
    BY <2>4, Zenon DEF Plans, Elapses, SetsInv, Serving
  <2>5. ASSUME NEW n \in Nodes, Forgets(n)
        PROVE  \A r : r \in shardSets' <=> r \in RestoredSets(ledger')
    <3> DEFINE e == NodeEvent("node.revoked", n)
    <3>1. e \in Event /\ e.type = "node.revoked" /\ e.nodes = {n} /\ e.sets = {}
          /\ ledger' = Append(ledger, e)
      BY <2>5, RowEvents, Zenon DEF Forgets
    <3> HIDE DEF e
    <3>2. /\ \A r : r \in shardSets <=> r \in RestoredSets(ledger)
          /\ \A r : r \in shardSets' <=> r \in shardSets /\ \A l \in r.leases : l.node # n
      BY <2>5, Zenon DEF Forgets, Alone, SetsInv
    <3>3. \A c : KeepsSet(c, e) <=> \A l \in c.leases : l.node # n
      BY <3>1, Zenon DEF KeepsSet
    <3>4. ASSUME NEW r
          PROVE  r \in RestoredSets(Append(ledger, e)) <=>
                   r \in RestoredSets(ledger) /\ \A l \in r.leases : l.node # n
      <4>1. ASSUME NEW i \in DOMAIN ledger, NEW t \in ledger[i].sets,
                   r = [spec |-> t, leases |-> ledger[i].leases]
            PROVE  KeepsSet(ledger[i], e) <=> \A l \in r.leases : l.node # n
        BY <3>3, <4>1, Zenon
      <4> QED BY <1>0, <3>1, <4>1, RestoredSetsAppend, RestoredSetRows
    <3> QED BY <3>1, <3>2, <3>4, Zenon
  <2>6. ASSUME NEW c \in Lease, Claims(c) \/ Accepts(c)
        PROVE  \A r : r \in shardSets' <=> r \in RestoredSets(ledger')
    <3>1. /\ Serving /\ shardSets' = shardSets
          /\ \/ ledger' = ledger
             \/ \E t \in {"job.claimed", "job.receipted"} :
                  ledger' = Append(ledger, LeaseEvent(t, {c}))
      BY <2>6, Zenon DEF Claims, Accepts, Alone
    <3>2. CASE ledger' = ledger
      BY <3>1, <3>2, Zenon DEF SetsInv
    <3>3. ASSUME NEW t \in {"job.claimed", "job.receipted"},
                 ledger' = Append(ledger, LeaseEvent(t, {c}))
          PROVE  \A r : r \in shardSets' <=> r \in RestoredSets(ledger')
      <4> DEFINE e == LeaseEvent(t, {c})
      <4>1. e \in Event /\ e.type = t /\ e.sets = {} /\ ledger' = Append(ledger, e)
        BY <3>3, RowEvents, Zenon
      <4> HIDE DEF e
      <4>2. e.type # "node.revoked"
        BY <4>1, Zenon
      <4> QED BY <2>1, <3>1, <4>1, <4>2, Zenon
    <3> QED BY <3>1, <3>2, <3>3, Zenon
  <2>7. ASSUME NEW e \in Event, Issues(e)
        PROVE  \A r : r \in shardSets' <=> r \in RestoredSets(ledger')
    <3>1. ledger' = Append(ledger, e) /\ Serving /\ e.type # "node.revoked"
      BY <2>7, Zenon DEF Issues, IssueType
    <3>2. CASE e.sets = {} /\ shardSets' = shardSets
      BY <2>1, <3>1, <3>2, Zenon
    <3>3. ASSUME NEW s \in gate.sets, e = SetEvent(s, gate.leases),
                 shardSets' = {r \in shardSets : r.spec.id # s.id}
                              \cup {[spec |-> s, leases |-> gate.leases]}
          PROVE  \A r : r \in shardSets' <=> r \in RestoredSets(ledger')
      <4>1. e.sets = {s} /\ e.leases = gate.leases
        BY <3>3, Zenon DEF SetEvent
      <4>2. \A r : r \in shardSets <=> r \in RestoredSets(ledger)
        BY <3>1 DEF SetsInv
      <4>3. \A c : KeepsSet(c, e) <=> \A t \in c.sets : t.id # s.id
        BY <3>1, <4>1, Zenon DEF KeepsSet
      <4>4. ASSUME NEW r
            PROVE  r \in RestoredSets(Append(ledger, e)) <=>
                     \/ r = [spec |-> s, leases |-> gate.leases]
                     \/ r \in RestoredSets(ledger) /\ r.spec.id # s.id
        <5>1. ASSUME NEW i \in DOMAIN ledger, NEW t \in ledger[i].sets,
                     r = [spec |-> t, leases |-> ledger[i].leases]
              PROVE  KeepsSet(ledger[i], e) <=> r.spec.id # s.id
          <6>1. r.spec = t /\ \A u \in ledger[i].sets : u = t
            BY <5>1, Zenon DEF SetsInv
          <6> QED BY <4>3, <6>1, Zenon
        <5> QED BY SMTT(30), <1>0, <4>1, <5>1, RestoredSetsAppend, RestoredSetRows
      <4> QED BY <3>1, <3>3, <4>2, <4>4, Zenon
    <3> QED BY <2>7, <3>2, <3>3, Zenon DEF Issues
  <2> QED BY <2>2, <2>3, <2>4, <2>5, <2>6, <2>7, Zenon DEF Kinds
<1>3. gate'.op = "set" => \A r \in shardSets', s \in gate'.sets : r.spec.key # s.key
  BY Zenon DEF Kinds, Stays, Advances, Dies, Restores, Plans, Forgets, Issues, Claims, Accepts,
         Elapses, Calm, Alone, SetsInv
<1> QED BY <1>1, <1>2, <1>3 DEF SetsInv

\* A set is admitted only when the table has no set of its key, and the table is
\* the ledger's, so an earlier admission under the key was undone in between.
LEMMA OnceStep ==
    ASSUME WorkInv, SetsInv, SetAdmittedOnce, Kinds
    PROVE  SetAdmittedOnce'
<1>0. ledger \in Seq(Event)
  BY Zenon DEF WorkInv, TypeOK
<1> DEFINE Undone(L, i, k) == \E m \in (i + 1) .. (k - 1) :
              \/ L[m].nodes \cap {l.node : l \in L[i].leases} # {}
                 /\ L[m].type = "node.revoked"
              \/ \E s \in L[i].sets, t \in L[m].sets : s.id = t.id
<1> SUFFICES ASSUME NEW i \in DOMAIN ledger', NEW k \in DOMAIN ledger', i < k,
                    NEW s \in ledger'[i].sets, NEW t \in ledger'[k].sets, s.key = t.key
             PROVE  Undone(ledger', i, k)
  BY DEF SetAdmittedOnce
<1>1. CASE ledger' = ledger
  BY <1>1 DEF SetAdmittedOnce
<1>2. ASSUME NEW e \in Event, ledger' = Append(ledger, e)
      PROVE  Undone(ledger', i, k) \/ (k = Len(ledger) + 1 /\ t \in e.sets)
  <2>1. /\ i \in DOMAIN ledger
        /\ \A m \in DOMAIN ledger : ledger'[m] = ledger[m]
        /\ k \in DOMAIN ledger \/ (k = Len(ledger) + 1 /\ ledger'[k] = e)
    BY <1>0, <1>2, RowsAfter
  <2>2. CASE k \in DOMAIN ledger
    <3>1. Undone(ledger, i, k)
      BY <2>1, <2>2 DEF SetAdmittedOnce
    <3>2. \A m \in (i + 1) .. (k - 1) : m \in DOMAIN ledger
      BY <1>0, <2>1, <2>2
    <3> QED BY <2>1, <3>1, <3>2, ZenonT(60)
  <2> QED BY <2>1, <2>2, Zenon
<1>3. CASE \A e \in Event : ~Issues(e)
  BY <1>1, <1>2, <1>3, NothingNew, Zenon
<1>4. ASSUME NEW e \in Event, Issues(e), k = Len(ledger) + 1, t \in e.sets
      PROVE  Undone(ledger', i, k)
  <2>1. /\ Serving /\ ledger' = Append(ledger, e)
        /\ gate.op = "set" /\ t \in gate.sets
    <3>1. /\ Serving /\ ledger' = Append(ledger, e)
          /\ \/ e.sets = {}
             \/ gate.op = "set" /\ \E u \in gate.sets : e = SetEvent(u, gate.leases)
      BY <1>4, Zenon DEF Issues
    <3>2. \A u : SetEvent(u, gate.leases).sets = {u}
      BY Zenon DEF SetEvent
    <3> QED BY <1>4, <3>1, <3>2
  <2>2. /\ i \in DOMAIN ledger
        /\ \A m \in DOMAIN ledger : ledger'[m] = ledger[m]
    BY SMTT(30), <1>0, <1>4, <2>1, RowsAfter
  <2> DEFINE r == [spec |-> s, leases |-> ledger[i].leases]
  <2>3. r \notin RestoredSets(ledger)
    <3>1. r.spec.key = t.key
      BY Zenon
    <3> HIDE DEF r
    <3> QED BY <2>1, <3>1, Zenon DEF SetsInv
  <2>4. PICK m \in (i + 1) .. Len(ledger) : ~KeepsSet(ledger[i], ledger[m])
    BY <2>2, <2>3, RestoredSetRows, ZenonT(30)
  <2>5. m \in (i + 1) .. (k - 1) /\ m \in DOMAIN ledger
    BY <1>0, <1>4, <2>2, <2>4, SMTT(30)
  <2>6. \/ ledger[m].type = "node.revoked" /\ \E l \in ledger[i].leases : l.node \in ledger[m].nodes
        \/ \E a \in ledger[i].sets, b \in ledger[m].sets : a.id = b.id
    BY <2>4, Zenon DEF KeepsSet
  <2>7. \/ ledger[m].type = "node.revoked" /\ ledger[m].nodes \cap {l.node : l \in ledger[i].leases} # {}
        \/ \E a \in ledger[i].sets, b \in ledger[m].sets : a.id = b.id
    BY <2>6, Zenon
  <2>8. ledger'[i] = ledger[i] /\ ledger'[m] = ledger[m]
    BY <2>2, <2>5, Zenon
  <2> QED BY <2>5, <2>7, <2>8, Zenon
<1>5. CASE \E e \in Event : Issues(e)
  BY <1>2, <1>4, <1>5, Zenon DEF Issues
<1> QED BY <1>3, <1>5, Zenon

-----------------------------------------------------------------------------
(***************************************************************************)
(* Assignments and claims.                                                 *)
(***************************************************************************)
\* restore_state fills a map keyed by job id: one assignment per job.
LEMMA RestoredIds ==
    ASSUME ledger \in Seq(Event), IdsInv,
           NEW a \in RestoredAssignments(ledger, dbEpoch, expired),
           NEW b \in RestoredAssignments(ledger, dbEpoch, expired), a.job.id = b.job.id
    PROVE  a = b
<1>1. PICK i \in DOMAIN ledger : SurvivesReplay(ledger, i, a, dbEpoch, expired)
  BY Zenon DEF RestoredAssignments
<1>2. PICK k \in DOMAIN ledger : SurvivesReplay(ledger, k, b, dbEpoch, expired)
  BY Zenon DEF RestoredAssignments
<1>3. DOMAIN ledger = 1 .. Len(ledger) /\ Len(ledger) \in Nat
  OBVIOUS
<1>4. ~(i < k) /\ ~(k < i)
  <2>1. i < k => k \in (i + 1) .. Len(ledger)
    BY <1>3
  <2>2. k < i => i \in (k + 1) .. Len(ledger)
    BY <1>3
  <2> QED BY <1>1, <1>2, <2>1, <2>2, Zenon DEF SurvivesReplay
<1>5. i = k
  BY <1>3, <1>4
<1> QED BY <1>1, <1>2, <1>5, Zenon DEF SurvivesReplay, IdsInv

\* Steps keep job ids apart.
LEMMA IdsStep ==
    ASSUME WorkInv, IdsInv, Kinds
    PROVE  IdsInv'
<1> USE DEF work, facts
<1>0. ledger \in Seq(Event)
  BY DEF WorkInv, TypeOK
<1>1. \A i \in DOMAIN ledger' : ledger'[i].type \in IssueType =>
        \A a, b \in ledger'[i].leases : a.job.id = b.job.id => a = b
  <2>1. ASSUME NEW e \in Event, ledger' = Append(ledger, e),
               e.type \in IssueType => \A a, b \in e.leases : a.job.id = b.job.id => a = b
        PROVE  \A i \in DOMAIN ledger' : ledger'[i].type \in IssueType =>
                 \A a, b \in ledger'[i].leases : a.job.id = b.job.id => a = b
    BY <1>0, <2>1, RowsAfter DEF IdsInv
  <2>2. ASSUME NEW e \in Event, Issues(e)
        PROVE  ledger' = Append(ledger, e) /\ \A a, b \in e.leases : a.job.id = b.job.id => a = b
    BY <2>2, Zenon DEF Issues, IdsInv, Admitting
  <2>3. CASE \E e \in Event : Issues(e)
    BY <2>1, <2>2, <2>3, Zenon
  <2>4. CASE \A e \in Event : ~Issues(e)
    BY <2>1, <2>4, NothingNew, Zenon DEF IdsInv
  <2> QED BY <2>3, <2>4, Zenon
<1>2. Admitting' => \A a, b \in gate'.leases : a.job.id = b.job.id => a = b
  BY Zenon DEF Kinds, Stays, Advances, Dies, Restores, Plans, Forgets, Issues, Claims, Accepts,
         Elapses, Calm, Alone, Admitting, IdsInv
<1>3. \A a, b \in assignments' : a.job.id = b.job.id => a = b
  <2>1. CASE \E e \in Event : Issues(e)
    <3>1. /\ assignments' = {l \in assignments : l.job.id \notin {m.job.id : m \in gate.leases}}
                            \cup gate.leases
          /\ \A a, b \in gate.leases : a.job.id = b.job.id => a = b
      BY <2>1, Zenon DEF Issues, Publish, IdsInv, Admitting
    <3> QED BY <3>1 DEF IdsInv
  <2>2. CASE Restores
    BY <1>0, <2>2, RestoredIds, Zenon DEF Restores
  <2>3. ASSUME \A e \in Event : ~Issues(e), ~Restores
        PROVE  assignments' \subseteq assignments
    BY <2>3, Zenon DEF Kinds, Stays, Advances, Dies, Plans, Forgets, Claims, Accepts, Elapses
  <2> QED BY <2>1, <2>2, <2>3, Zenon DEF IdsInv
<1> QED BY <1>1, <1>2, <1>3, Zenon DEF IdsInv

\* A lease that has not expired is not hidden by leases that expire.
LEMMA RestoredExpiry ==
    ASSUME NEW L, NEW E, NEW X, NEW Y, X \subseteq Y, NEW l, l \notin Y,
           l \in RestoredAssignments(L, E, X)
    PROVE  l \in RestoredAssignments(L, E, Y)
BY Zenon DEF RestoredAssignments, SurvivesReplay, Passes

\* After the epoch advances no issued lease is current.
LEMMA NoneCurrent ==
    ASSUME WorkInv, WorkInv', Advances
    PROVE  /\ Issued(ledger') = Issued(ledger)
           /\ \A l \in Issued(ledger) : l \in Lease /\ ~Passes(l, dbEpoch', expired')
<1>1. ledger \in Seq(Event) /\ dbEpoch \in Nat
  BY Zenon DEF WorkInv, TypeOK
<1>2. Issued(ledger') = Issued(ledger)
  BY <1>1, IssuedAfter, Zenon DEF Advances, Neutral
<1>3. Issued(ledger) \subseteq Lease
  BY <1>1, RestoredTypes, Zenon DEF Issued
<1>4. \A l \in Issued(ledger) : l.epoch <= dbEpoch /\ dbEpoch' = dbEpoch + 1
  BY Zenon DEF WorkInv, LedgerInv, Advances
<1>5. \A l \in Issued(ledger) : l.epoch \in Nat
  BY <1>3 DEF Lease
<1>6. \A l \in Issued(ledger) : l.epoch # dbEpoch'
  BY <1>1, <1>4, <1>5
<1> QED BY <1>2, <1>3, <1>6, Zenon DEF Passes

\* Steps keep the assignments recoverable.
LEMMA RevivedStep ==
    ASSUME WorkInv, WorkInv', IdsInv, RevivedInv, Kinds
    PROVE  RevivedInv'
<1> USE DEF work, facts
<1>0. ledger \in Seq(Event) /\ assignments \subseteq Issued(ledger)
  BY Zenon DEF WorkInv, TypeOK, TableInv
<1> SUFFICES ASSUME Serving', NEW l \in assignments', Passes(l, dbEpoch', expired')
             PROVE  l \in RestoredAssignments(ledger', dbEpoch', expired')
  BY DEF RevivedInv
<1>1. ASSUME Serving, NEW e \in Event, ledger' = Append(ledger, e), l \in assignments,
             UNCHANGED <<dbEpoch, expired>>, Spares(e, l, dbEpoch, expired)
      PROVE  l \in RestoredAssignments(ledger', dbEpoch', expired')
  <2>1. l \in RestoredAssignments(ledger, dbEpoch, expired)
    BY <1>1, Zenon DEF RevivedInv
  <2> QED BY <1>0, <1>1, <2>1, RestoredAppend, Zenon
<1>2. CASE Stays
  <2>1. Serving /\ l \in assignments
    BY <1>2, Zenon DEF Stays, Calm, Serving
  <2>2. CASE ledger' = ledger
    BY <1>2, <2>1, <2>2, Zenon DEF Stays, RevivedInv
  <2>3. ASSUME NEW e \in Event, Neutral(e), ledger' = Append(ledger, e)
        PROVE  l \in RestoredAssignments(ledger', dbEpoch', expired')
    BY <1>1, <1>2, <2>1, <2>3, Zenon DEF Stays, Neutral, Spares
  <2> QED BY <1>2, <2>2, <2>3, Zenon DEF Stays
<1>3. CASE Advances
  BY <1>0, <1>3, NoneCurrent, Zenon DEF Advances
<1>4. CASE Dies
  BY <1>4, Zenon DEF Dies
<1>5. CASE Restores
  BY <1>5, Zenon DEF Restores
<1>6. CASE Plans
  BY <1>6, Zenon DEF Plans, RevivedInv
<1>7. ASSUME NEW n \in Nodes, Forgets(n)
      PROVE  l \in RestoredAssignments(ledger', dbEpoch', expired')
  <2> DEFINE e == NodeEvent("node.revoked", n)
  <2>1. e \in Event /\ e.type = "node.revoked" /\ e.nodes = {n} /\ ledger' = Append(ledger, e)
    BY <1>7, RowEvents, Zenon DEF Forgets
  <2> HIDE DEF e
  <2>2. l \in assignments /\ l.node # n /\ Serving /\ UNCHANGED <<dbEpoch, expired>>
    BY <1>7 DEF Forgets, Alone
  <2>3. Spares(e, l, dbEpoch, expired)
    BY <2>1, <2>2, Zenon DEF Spares, IssueType
  <2> QED BY <1>1, <2>1, <2>2, <2>3, Zenon
<1>8. ASSUME NEW e \in Event, Issues(e)
      PROVE  l \in RestoredAssignments(ledger', dbEpoch', expired')
  <2>1. /\ ledger' = Append(ledger, e) /\ e.type \in IssueType /\ e.leases = gate.leases
        /\ Serving /\ UNCHANGED <<dbEpoch, expired>>
        /\ l \in gate.leases \/ (l \in assignments /\ \A m \in gate.leases : m.job.id # l.job.id)
    BY <1>8, Zenon DEF Issues, Publish
  <2>2. CASE l \in gate.leases
    BY <1>0, <2>1, <2>2, RestoredAppend, Zenon
  <2>3. CASE l \in assignments /\ \A m \in gate.leases : m.job.id # l.job.id
    <3>1. Spares(e, l, dbEpoch, expired)
      BY <2>1, <2>3, Zenon DEF Spares, IssueType
    <3> QED BY <1>1, <2>1, <2>3, <3>1, Zenon
  <2> QED BY <2>1, <2>2, <2>3, Zenon
<1>9. ASSUME NEW c \in Lease, Claims(c) \/ Accepts(c)
      PROVE  l \in RestoredAssignments(ledger', dbEpoch', expired')
  <2>1. /\ Serving /\ l \in assignments /\ UNCHANGED <<dbEpoch, expired>>
        /\ \/ ledger' = ledger
           \/ ledger' = Append(ledger, LeaseEvent("job.claimed", {c}))
           \/ ledger' = Append(ledger, LeaseEvent("job.receipted", {c})) /\ l.job.id # c.job.id
    BY <1>9, Zenon DEF Claims, Accepts, Alone, IdsInv
  <2>2. ASSUME NEW t \in {"job.claimed", "job.receipted"}, ledger' = Append(ledger, LeaseEvent(t, {c})),
               t = "job.receipted" => l.job.id # c.job.id
        PROVE  l \in RestoredAssignments(ledger', dbEpoch', expired')
    <3> DEFINE e == LeaseEvent(t, {c})
    <3>1. e \in Event /\ e.type = t /\ e.leases = {c} /\ ledger' = Append(ledger, e)
      BY <2>2, RowEvents, Zenon
    <3> HIDE DEF e
    <3>2. Spares(e, l, dbEpoch, expired)
      BY <2>2, <3>1 DEF Spares, NamesJob, IssueType
    <3> QED BY <1>1, <2>1, <3>1, <3>2, Zenon
  <2>3. CASE ledger' = ledger
    BY <2>1, <2>3, Zenon DEF RevivedInv
  <2> QED BY <2>1, <2>2, <2>3, Zenon
<1>10. ASSUME NEW x \in Lease, Elapses(x)
       PROVE  l \in RestoredAssignments(ledger', dbEpoch', expired')
  <2>1. /\ Serving /\ l \in assignments /\ expired \subseteq expired' /\ l \notin expired'
        /\ UNCHANGED <<ledger, dbEpoch>> /\ Passes(l, dbEpoch, expired)
    BY <1>10, Zenon DEF Elapses, Serving, Passes
  <2>2. l \in RestoredAssignments(ledger, dbEpoch, expired)
    BY <2>1, Zenon DEF RevivedInv
  <2> QED BY <2>1, <2>2, RestoredExpiry, Zenon
<1> QED BY <1>2, <1>3, <1>4, <1>5, <1>6, <1>7, <1>8, <1>9, <1>10, Zenon DEF Kinds

\* Rows only accumulate, so a superseded lease stays superseded.
LEMMA SupersededStays ==
    ASSUME WorkInv, Kinds, NEW l, Superseded(l)
    PROVE  Superseded(l)'
<1>1. ledger \in Seq(Event)
  BY DEF WorkInv, TypeOK
<1>2. ledger' = ledger \/ \E e \in Event : ledger' = Append(ledger, e)
  BY NothingNew, Zenon DEF Issues
<1>3. CASE ledger' = ledger
  BY <1>3, Zenon DEF Superseded
<1> QED BY <1>1, <1>2, <1>3, SupersededAppend, Zenon

\* Steps keep claims on the newest current lease of a job.
LEMMA ClaimsStep ==
    ASSUME WorkInv, WorkInv', IdsInv, RevivedInv, ClaimsInv, Kinds
    PROVE  ClaimsInv'
<1> USE DEF work, facts
<1>0. ledger \in Seq(Event)
  BY DEF WorkInv, TypeOK
<1> SUFFICES ASSUME NEW i \in DOMAIN ledger', NEW k \in DOMAIN ledger', i < k,
                    ledger'[i].type \in IssueType, ledger'[k].type = "job.claimed",
                    NEW l \in ledger'[i].leases, NEW m \in ledger'[k].leases,
                    l.job.id = m.job.id, Passes(l, dbEpoch', expired')
             PROVE  l = m \/ Superseded(l)'
  BY Zenon DEF ClaimsInv
<1>1. ASSUME i \in DOMAIN ledger, k \in DOMAIN ledger, ledger'[i] = ledger[i],
             ledger'[k] = ledger[k], Passes(l, dbEpoch, expired)
      PROVE  l = m \/ Superseded(l)'
  BY <1>1, SupersededStays, Zenon DEF ClaimsInv
<1>2. ASSUME NEW e \in Event, ledger' = Append(ledger, e)
      PROVE  /\ i \in DOMAIN ledger /\ ledger'[i] = ledger[i]
             /\ \/ k \in DOMAIN ledger /\ ledger'[k] = ledger[k]
                \/ k = Len(ledger) + 1 /\ e.type = "job.claimed" /\ m \in e.leases
  BY <1>0, <1>2, RowsAfter
<1>3. CASE Advances
  <2>1. i \in DOMAIN ledger /\ ledger'[i] = ledger[i]
    BY <1>2, <1>3, Zenon DEF Advances
  <2>2. l \in Issued(ledger)
    BY <2>1, LeasesOfRows, Zenon DEF Issued
  <2> QED BY <1>3, <2>2, NoneCurrent, Zenon
<1>4. ASSUME ~Advances PROVE Passes(l, dbEpoch, expired)
  BY <1>4, Zenon DEF Kinds, Stays, Dies, Restores, Plans, Forgets, Issues, Claims, Accepts,
              Elapses, Passes
<1>5. ASSUME NEW c \in Lease, Claims(c) PROVE l = m \/ Superseded(l)'
  <2> DEFINE e == LeaseEvent("job.claimed", {c})
  <2>1. e \in Event /\ e.leases = {c} /\ ledger' = Append(ledger, e) /\ e.type \notin IssueType
    BY <1>5, RowEvents, Zenon DEF Claims, IssueType
  <2> HIDE DEF e
  <2>2. /\ Serving /\ c \in assignments /\ Passes(c, dbEpoch, expired)
        /\ UNCHANGED <<dbEpoch, expired>>
    BY <1>5, Zenon DEF Claims, Alone
  <2>3. CASE k \in DOMAIN ledger /\ ledger'[k] = ledger[k]
    BY <1>1, <1>2, <2>1, <2>2, <2>3, Zenon
  <2>4. CASE m = c
    <3>1. c \in RestoredAssignments(ledger, dbEpoch, expired)
      BY <2>2, Zenon DEF RevivedInv
    <3>2. PICK j \in DOMAIN ledger : SurvivesReplay(ledger, j, c, dbEpoch, expired)
      BY <3>1, Zenon DEF RestoredAssignments
    <3>3. ledger[j].type \in IssueType /\ c \in ledger[j].leases
      BY <3>2, Zenon DEF SurvivesReplay
    <3>4. /\ i \in DOMAIN ledger /\ ledger[i].type \in IssueType /\ l \in ledger[i].leases
          /\ Passes(l, dbEpoch, expired)
      BY <1>2, <2>1, <2>2, Zenon
    <3>5. ASSUME i < j PROVE Superseded(l)'
      <4>1. NamesJob(ledger[j], l.job.id)
        BY <2>4, <3>3, Zenon DEF NamesJob
      <4>2. Superseded(l)
        BY <3>3, <3>4, <3>5, <4>1, Zenon DEF Superseded
      <4> QED BY <4>2, SupersededStays, Zenon
    <3>6. ASSUME j < i PROVE FALSE
      <4>1. i \in (j + 1) .. Len(ledger)
        BY <1>0, <3>4, <3>6, SMTT(30)
      <4> QED BY <2>4, <3>2, <3>4, <4>1, Zenon DEF SurvivesReplay
    <3>7. ASSUME i = j PROVE l = m
      BY <2>4, <3>3, <3>4, <3>7, Zenon DEF IdsInv
    <3>8. i \in Nat /\ j \in Nat
      BY <1>0, <3>4, SMTT(30)
    <3> QED BY <3>5, <3>6, <3>7, <3>8, SMTT(30)
  <2> QED BY <1>2, <2>1, <2>3, <2>4, Zenon
<1>6. ASSUME ~Advances, \A c \in Lease : ~Claims(c) PROVE l = m \/ Superseded(l)'
  <2>1. \/ ledger' = ledger
        \/ \E e \in Event : e.type # "job.claimed" /\ ledger' = Append(ledger, e)
    <3>1. ASSUME NEW n \in Nodes, Forgets(n)
          PROVE  \E e \in Event : e.type # "job.claimed" /\ ledger' = Append(ledger, e)
      BY <3>1, RowEvents, Zenon DEF Forgets
    <3>2. ASSUME NEW c \in Lease, Accepts(c)
          PROVE  \/ ledger' = ledger
                 \/ \E e \in Event : e.type # "job.claimed" /\ ledger' = Append(ledger, e)
      BY <3>2, RowEvents, Zenon DEF Accepts
    <3>3. ASSUME NEW e \in Event, Issues(e)
          PROVE  e.type # "job.claimed" /\ ledger' = Append(ledger, e)
      BY <3>3, Zenon DEF Issues, IssueType
    <3> QED BY <1>6, <3>1, <3>2, <3>3, Zenon DEF Kinds, Stays, Dies, Restores, Plans, Elapses, Neutral
  <2>2. CASE ledger' = ledger
    BY <1>1, <1>4, <1>6, <2>2, Zenon
  <2> QED BY <1>1, <1>2, <1>4, <1>6, <2>1, <2>2, Zenon
<1> QED BY <1>3, <1>5, <1>6, Zenon

\* The flags a restart restores are those of the ledger, or of the lease that
\* superseded the restored one.
LEMMA RestoredFlags ==
    ASSUME ledger \in Seq(Event), ClaimsInv,
           NEW l \in RestoredClaims(ledger, dbEpoch, expired)
    PROVE  l \in Claimed(ledger) \/ Superseded(l)
<1>1. PICK i \in DOMAIN ledger :
        /\ SurvivesReplay(ledger, i, l, dbEpoch, expired)
        /\ \E k \in (i + 1) .. Len(ledger) :
             ledger[k].type = "job.claimed" /\ NamesJob(ledger[k], l.job.id)
  BY Zenon DEF RestoredClaims
<1>2. PICK k \in (i + 1) .. Len(ledger) :
        ledger[k].type = "job.claimed" /\ NamesJob(ledger[k], l.job.id)
  BY <1>1, Zenon
<1>3. i < k /\ k \in DOMAIN ledger
  OBVIOUS
<1>4. PICK m \in ledger[k].leases : m.job.id = l.job.id
  BY <1>2, Zenon DEF NamesJob
<1>5. /\ ledger[i].type \in IssueType /\ l \in ledger[i].leases /\ Passes(l, dbEpoch, expired)
  BY <1>1, Zenon DEF SurvivesReplay
<1>6. l = m \/ Superseded(l)
  BY <1>2, <1>3, <1>4, <1>5, Zenon DEF ClaimsInv
<1>7. m \in Claimed(ledger)
  BY <1>2, <1>3, <1>4, LeasesOfRows, Zenon DEF Claimed
<1> QED BY <1>6, <1>7, Zenon

\* A lease that stands was not superseded, because no lease is issued twice.
LEMMA StandingIsNewest ==
    ASSUME WorkInv, NEW l, Standing(ledger, l)
    PROVE  ~Superseded(l)
<1> SUFFICES ASSUME Superseded(l) PROVE FALSE
  BY Zenon
<1>0. DOMAIN ledger = 1 .. Len(ledger) /\ Len(ledger) \in Nat
  BY DEF WorkInv, TypeOK
<1>1. PICK i \in DOMAIN ledger :
        /\ ledger[i].type \in IssueType /\ l \in ledger[i].leases
        /\ \A k \in (i + 1) .. Len(ledger) :
             ledger[k].type \in IssueType => ~NamesJob(ledger[k], l.job.id)
  BY Zenon DEF Standing, Stands
<1>2. PICK j, k \in DOMAIN ledger :
        /\ j < k
        /\ ledger[j].type \in IssueType /\ l \in ledger[j].leases
        /\ ledger[k].type \in IssueType /\ NamesJob(ledger[k], l.job.id)
  BY Zenon DEF Superseded
<1>3. ASSUME NEW a \in DOMAIN ledger, NEW b \in DOMAIN ledger, a < b,
             ledger[a].type \in IssueType, ledger[b].type \in IssueType,
             l \in ledger[a].leases, l \in ledger[b].leases
      PROVE  FALSE
  <2>1. Follows(ledger[a].type, ledger[b].type)
    BY <1>3, Zenon DEF WorkInv, SingleUse
  <2> QED BY <1>3, <2>1, Zenon DEF Follows, IssueType
<1>4. i = j
  <2>1. i < j \/ j < i \/ i = j
    BY <1>0
  <2> QED BY <1>1, <1>2, <1>3, <2>1, Zenon
<1>5. k \in (i + 1) .. Len(ledger)
  BY <1>0, <1>2, <1>4
<1> QED BY <1>1, <1>2, <1>5, Zenon

\* A current lease that a restart brings back, and that was not superseded, stands;
\* one that stands and is current is brought back.
LEMMA RestoredStanding ==
    ASSUME ledger \in Seq(Event), NEW l
    PROVE  /\ l \in RestoredAssignments(ledger, dbEpoch, expired) /\ ~Superseded(l) =>
                Standing(ledger, l) /\ Passes(l, dbEpoch, expired)
           /\ l \in Issued(ledger) /\ Standing(ledger, l) /\ Passes(l, dbEpoch, expired) =>
                l \in RestoredAssignments(ledger, dbEpoch, expired)
<1>1. ASSUME l \in RestoredAssignments(ledger, dbEpoch, expired), ~Superseded(l)
      PROVE  Standing(ledger, l) /\ Passes(l, dbEpoch, expired)
  <2>1. PICK i \in DOMAIN ledger : SurvivesReplay(ledger, i, l, dbEpoch, expired)
    BY <1>1, Zenon DEF RestoredAssignments
  <2>2. \A k \in (i + 1) .. Len(ledger) : k \in DOMAIN ledger /\ i < k
    OBVIOUS
  <2>3. \A k \in (i + 1) .. Len(ledger) :
          ledger[k].type \in IssueType => ~NamesJob(ledger[k], l.job.id)
    BY <1>1, <2>1, <2>2, Zenon DEF Superseded, SurvivesReplay
  <2> QED BY <2>1, <2>3, Zenon DEF SurvivesReplay, Standing, Stands
<1>2. ASSUME l \in Issued(ledger), Standing(ledger, l), Passes(l, dbEpoch, expired)
      PROVE  l \in RestoredAssignments(ledger, dbEpoch, expired)
  BY <1>2, Zenon DEF RestoredAssignments, SurvivesReplay, Standing, Stands, NamesJob
<1> QED BY <1>1, <1>2, Zenon

\* What one step does to the leases due and counted, when it issues none.
LEMMA LoadShrinks ==
    ASSUME AdmitInv, WorkInv', Kinds, \A e \in Event : ~Issues(e)
    PROVE  /\ Due' \subseteq Due
           /\ Counted' \subseteq Due \cup Counted
           /\ ~Restores => Counted' \subseteq Counted
<1> USE DEF work, facts
<1>0. ledger \in Seq(Event) /\ WorkInv
  BY Zenon DEF AdmitInv, WorkInv, TypeOK
<1>1. Issued(ledger') = Issued(ledger)
  BY <1>0, NothingNew, IssuedAfter, Zenon
<1>2. ASSUME NEW l, Standing(ledger', l) PROVE Standing(ledger, l)
  <2>1. CASE ledger' = ledger
    BY <1>2, <2>1, Zenon
  <2>2. CASE \E e \in Event : e.type \notin IssueType /\ ledger' = Append(ledger, e)
    <3>1. PICK e \in Event : e.type \notin IssueType /\ ledger' = Append(ledger, e)
      BY <2>2, Zenon
    <3>2. Standing(Append(ledger, e), l)
      BY <1>2, <3>1, Zenon
    <3> QED BY <1>0, <3>1, <3>2, StandingAppend, Zenon
  <2> QED BY <1>0, <2>1, <2>2, NothingNew, Zenon
<1>3. ASSUME NEW l, Superseded(l) PROVE Superseded(l)'
  BY <1>0, <1>3, SupersededStays, Zenon
<1>4. executed \subseteq executed' /\ expired \subseteq expired'
  BY Zenon DEF Kinds, Stays, Advances, Dies, Restores, Plans, Forgets, Claims, Accepts, Elapses
<1>5. \A l \in Issued(ledger) : Passes(l, dbEpoch', expired') => Passes(l, dbEpoch, expired)
  <2>1. CASE Advances
    BY <1>0, <2>1, NoneCurrent, Zenon
  <2>2. CASE ~Advances
    <3>1. dbEpoch' = dbEpoch
      BY <2>2, Zenon DEF Kinds, Stays, Dies, Restores, Plans, Forgets, Claims, Accepts, Elapses
    <3> QED BY <1>4, <3>1, Zenon DEF Passes
  <2> QED BY <2>1, <2>2, Zenon
<1>6. Due' \subseteq Due
  BY <1>1, <1>2, <1>4, <1>5, Zenon DEF Due
<1>7. ASSUME ~Restores PROVE Counted' \subseteq Counted
  <2>1. assignments' \subseteq assignments
    BY <1>7, Zenon DEF Kinds, Stays, Advances, Dies, Plans, Forgets, Claims, Accepts, Elapses
  <2> QED BY <1>3, <1>4, <2>1, Zenon DEF Counted, Outstanding
<1>8. ASSUME Restores PROVE Counted' \subseteq Due
  <2> SUFFICES ASSUME NEW l \in Counted' PROVE l \in Due
    BY Zenon
  <2>1. /\ l \in RestoredAssignments(ledger, dbEpoch, expired)
        /\ l \notin executed /\ ~Superseded(l)
    BY <1>3, <1>4, <1>8, Zenon DEF Counted, Outstanding, Restores
  <2>2. l \in Issued(ledger)
    BY <2>1, Zenon DEF RestoredAssignments
  <2> QED BY <1>0, <2>1, <2>2, RestoredStanding, Zenon DEF Due
<1> QED BY <1>6, <1>7, <1>8, Zenon

\* What is due counts: it is assigned, unexpired, not executed and not superseded.
LEMMA DueCounts ==
    ASSUME AdmitInv, Serving
    PROVE  Due \subseteq Counted /\ Due \cup Counted \subseteq reservations \ expired
<1>1. Due \subseteq assignments /\ Counted \subseteq reservations
  BY Zenon DEF AdmitInv, RoomInv
<1>2. \A l \in Due : l \notin expired /\ l \notin executed /\ ~Superseded(l)
  BY StandingIsNewest DEF AdmitInv, Due, Passes
<1> QED BY <1>1, <1>2, Zenon DEF Counted, Outstanding

-----------------------------------------------------------------------------
\* submit_job has one lease in hand, for a node with room.
LEMMA PlansOne ==
    ASSUME FiniteFacts, WorkInv, IsFiniteSet(reservations),
           NEW j \in Jobs, NEW n \in Nodes, SubmitAuthorize(j, n)
    PROVE  Plans
<1> USE DEF durable, tables, calls, world
<1> DEFINE x == [batch |-> batches, job |-> j, node |-> n, epoch |-> epoch]
<1>1. /\ gate' = Held("job", {x}, {}) /\ Serving /\ Serving' /\ gate.op = "free"
      /\ Existing(j) = {} /\ Cardinality(Reserved(n)) < Slots
      /\ UNCHANGED <<ledger, dbEpoch, work, facts>>
  BY Zenon DEF SubmitAuthorize, Enters, Serving, work, facts
<1>2. x.job = j /\ x.node = n /\ x \in Lease
  BY Zenon DEF WorkInv, TypeOK, Lease
<1> HIDE DEF x
<1>3. gate'.op = "job" /\ gate'.leases = {x}
  BY <1>1, Zenon DEF Held
<1>4. IsFiniteSet({x}) /\ Cardinality({x}) = 1
  BY Zenon DEF FiniteFacts, SingletonFact
<1>5. ASSUME NEW m \in Nodes, Hand(m)' # {}
      PROVE  Cardinality(Reserved(m)) + Cardinality(Hand(m)') <= Slots
  <2>1. m = n /\ Hand(m)' = {x}
    BY <1>2, <1>3, <1>5, Zenon DEF Hand
  <2>2. Cardinality(Hand(m)') = 1
    BY <1>4, <2>1, Zenon
  <2>3. Cardinality(Reserved(n)) \in Int /\ Slots \in Int
    <3>1. IsFiniteSet(Reserved(n))
      BY Zenon DEF FiniteFacts, SubsetFact, Reserved
    <3> QED BY <3>1, BoundsAssumption DEF FiniteFacts, CountFact
  <2> QED BY <1>1, <2>1, <2>2, <2>3
<1> QED BY <1>1, <1>2, <1>3, <1>4, <1>5, Zenon DEF Plans

\* The values of a function with a finite domain are no more than its arguments.
LEMMA FiniteRange ==
    ASSUME FiniteFacts, NEW S, IsFiniteSet(S), NEW f, DOMAIN f = S, NEW T, T = {f[x] : x \in S},
           f \in [S -> T]
    PROVE  IsFiniteSet(T) /\ Cardinality(T) <= Cardinality(S)
<1>1. \A t \in T : \E s \in S : f[s] = t
  BY Zenon
<1> QED BY <1>1 DEF FiniteFacts, OntoFact

\* submit_shard_set has one lease per shard in hand, within the room of each node.
LEMMA PlansMany ==
    ASSUME FiniteFacts, WorkInv, IsFiniteSet(reservations),
           NEW s \in ShardSets, NEW place \in [s.jobs -> offers], SetPlan(s, place)
    PROVE  Plans
<1> USE DEF durable, tables, calls, world
<1> DEFINE Lse(j) == [batch |-> batches, job |-> j, node |-> place[j], epoch |-> epoch]
           S == {Lse(j) : j \in s.jobs}
<1>1. /\ gate' = Held("set", S, {s}) /\ Serving /\ Serving' /\ gate.op = "free"
      /\ \A r \in shardSets : r.spec.key # s.key
      /\ UNCHANGED <<ledger, dbEpoch, work, facts>>
  BY Zenon DEF SetPlan, Enters, Serving, work, facts
<1>2. \A n \in offers :
        Cardinality(Reserved(n)) + Cardinality({j \in s.jobs : place[j] = n}) <= Slots
  BY Zenon DEF SetPlan
<1>3. \A j : Lse(j).job = j /\ Lse(j).node = place[j]
  BY Zenon
<1>4. IsFiniteSet(s.jobs) /\ \A a, b \in s.jobs : a.id = b.id => a = b
  BY ShardSetsAssumption, Zenon DEF ValidShardSet
<1> HIDE DEF Lse
<1>5. gate'.op = "set" /\ gate'.leases = S /\ gate'.sets = {s}
  BY <1>1, Zenon DEF Held
<1>6. IsFiniteSet(S)
  <2> DEFINE f == [j \in s.jobs |-> Lse(j)]
  <2>1. DOMAIN f = s.jobs /\ S = {f[x] : x \in s.jobs} /\ f \in [s.jobs -> S]
    BY Zenon
  <2> HIDE DEF f, S
  <2> QED BY <1>4, <2>1, FiniteRange, Zenon
<1>7. \A a, b \in gate'.leases : a.job.id = b.job.id => a = b
  <2>1. ASSUME NEW i \in s.jobs, NEW j \in s.jobs, Lse(i).job.id = Lse(j).job.id
        PROVE  Lse(i) = Lse(j)
    <3>1. i.id = j.id
      BY <1>3, <2>1, Zenon
    <3> QED BY <1>4, <3>1, Zenon
  <2> QED BY <1>5, <2>1, Zenon
<1>8. ASSUME NEW n \in Nodes, Hand(n)' # {}
      PROVE  Cardinality(Reserved(n)) + Cardinality(Hand(n)') <= Slots
  <2> DEFINE J == {j \in s.jobs : place[j] = n}
  <2>1. Hand(n)' = {Lse(j) : j \in J}
    <3>1. \A j : Lse(j).node = place[j]
      BY <1>3, Zenon
    <3> QED BY <1>5, <3>1 DEF Hand
  <2>2. IsFiniteSet(J)
    BY <1>4, Zenon DEF FiniteFacts, SubsetFact
  <2>3. n \in offers
    BY <1>8, <2>1, Zenon
  <2> HIDE DEF J
  <2>4. IsFiniteSet(Hand(n)') /\ Cardinality(Hand(n)') <= Cardinality(J)
    <3> DEFINE f == [j \in J |-> Lse(j)]
               T == Hand(n)'
    <3>1. DOMAIN f = J /\ T = {f[x] : x \in J} /\ f \in [J -> T]
      BY <2>1, Zenon
    <3> HIDE DEF f, T
    <3>2. IsFiniteSet(T) /\ Cardinality(T) <= Cardinality(J)
      BY <2>2, <3>1, FiniteRange, Zenon
    <3> QED BY <3>2, Zenon DEF T
  <2>5. /\ Cardinality(J) \in Nat /\ Cardinality(Hand(n)') \in Nat
        /\ Cardinality(Reserved(n)) \in Nat
    <3>1. IsFiniteSet(Reserved(n))
      BY Zenon DEF FiniteFacts, SubsetFact, Reserved
    <3> QED BY <2>2, <2>4, <3>1, Zenon DEF FiniteFacts, CountFact
  <2>6. Cardinality(Reserved(n)) + Cardinality(J) <= Slots
    BY <1>2, <2>3, Zenon DEF J
  <2> QED BY <2>4, <2>5, <2>6, RoomLasts, Zenon
<1> QED BY <1>1, <1>5, <1>6, <1>7, <1>8, Zenon DEF Plans

\* Every step is of one of the kinds.
LEMMA StepKinds ==
    ASSUME FiniteFacts, WorkInv, IsFiniteSet(reservations), [Next]_vars
    PROVE  Kinds
BY StepSorts, PlansOne, PlansMany, Zenon

\* Steps keep the sets finite.
LEMMA FiniteStep ==
    ASSUME FiniteFacts, WorkInv, FiniteInv, Kinds
    PROVE  FiniteInv'
<1> USE DEF work, facts
<1>0. ledger \in Seq(Event)
  BY Zenon DEF WorkInv, TypeOK
<1>1. IsFiniteSet(Issued(ledger)')
  <2>1. ASSUME NEW e \in Event, Issues(e) PROVE IsFiniteSet(Issued(ledger)')
    <3>1. Issued(ledger') = Issued(ledger) \cup gate.leases
      BY <1>0, <2>1, IssuedAfter, Zenon DEF Issues
    <3>2. IsFiniteSet(gate.leases)
      BY <2>1, Zenon DEF Issues, FiniteInv, Admitting
    <3> QED BY <3>1, <3>2, Zenon DEF FiniteFacts, UnionFact, FiniteInv
  <2>2. ASSUME \A e \in Event : ~Issues(e) PROVE Issued(ledger') = Issued(ledger)
    BY <1>0, <2>2, NothingNew, IssuedAfter, Zenon
  <2> QED BY <2>1, <2>2 DEF FiniteInv
<1>2. IsFiniteSet(reservations')
  <2>1. CASE \E e \in Event : Issues(e)
    <3>1. /\ reservations' = (reservations \ expired) \cup gate.leases
          /\ IsFiniteSet(gate.leases)
      BY <2>1, Zenon DEF Issues, Publish, FiniteInv, Admitting
    <3>2. IsFiniteSet(reservations \ expired)
      BY Zenon DEF FiniteFacts, SubsetFact, FiniteInv
    <3> QED BY <3>1, <3>2, Zenon DEF FiniteFacts, UnionFact
  <2>2. CASE Restores
    <3>1. reservations' \subseteq Issued(ledger)
      BY <1>0, <2>2, RestoredTypes, Zenon DEF Restores
    <3> QED BY <3>1, Zenon DEF FiniteFacts, SubsetFact, FiniteInv
  <2>3. ASSUME \A e \in Event : ~Issues(e), ~Restores
        PROVE  reservations' \subseteq reservations
    BY <2>3, Zenon DEF Kinds, Stays, Advances, Dies, Plans, Forgets, Claims, Accepts, Elapses
  <2> QED BY <2>1, <2>2, <2>3, Zenon DEF FiniteFacts, SubsetFact, FiniteInv
<1>3. Admitting' => IsFiniteSet(gate'.leases)
  BY Zenon DEF Kinds, Stays, Advances, Dies, Restores, Plans, Forgets, Issues, Claims, Accepts,
         Elapses, Calm, Alone, Admitting, FiniteInv
<1> QED BY <1>1, <1>2, <1>3, Zenon DEF FiniteInv

\* The loads are finite.
LEMMA FiniteLoad ==
    ASSUME FiniteFacts, WorkInv, FiniteInv, NEW n
    PROVE  IsFiniteSet(Load(n))
<1>1. Load(n) \subseteq Issued(ledger)
  BY DEF Load, Due, Counted, Outstanding, WorkInv, TableInv
<1> QED BY <1>1, Zenon DEF FiniteFacts, SubsetFact, FiniteInv

\* The last step of an admission adds what is in hand to what counted before.
LEMMA IssueLoad ==
    ASSUME AdmitInv, WorkInv', NEW e \in Event, Issues(e)
    PROVE  /\ Due' \subseteq {l \in Due : \A m \in gate.leases : m.job.id # l.job.id} \cup gate.leases
           /\ Counted' \subseteq Counted \cup gate.leases
<1> USE DEF work, facts
<1>0. ledger \in Seq(Event) /\ WorkInv
  BY Zenon DEF AdmitInv, WorkInv, TypeOK
<1>1. /\ ledger' = Append(ledger, e) /\ e.type \in IssueType /\ e.leases = gate.leases
      /\ UNCHANGED <<dbEpoch, expired, executed>>
      /\ assignments' \subseteq assignments \cup gate.leases
  BY Zenon DEF Issues, Publish
<1>2. Issued(ledger') = Issued(ledger) \cup gate.leases
  BY <1>0, <1>1, IssuedAfter, Zenon
<1>3. \A l : Standing(ledger', l) =>
        l \in gate.leases \/ (Standing(ledger, l) /\ \A m \in gate.leases : m.job.id # l.job.id)
  <2> SUFFICES ASSUME NEW l, Standing(ledger', l), l \notin gate.leases
               PROVE  Standing(ledger, l) /\ \A m \in gate.leases : m.job.id # l.job.id
    BY Zenon
  <2>1. Standing(Append(ledger, e), l)
    BY <1>1, Zenon
  <2> QED BY <1>0, <1>1, <2>1, StandingAppend, Zenon DEF NamesJob
<1>4. Due' \subseteq {l \in Due : \A m \in gate.leases : m.job.id # l.job.id} \cup gate.leases
  BY <1>1, <1>2, <1>3, Zenon DEF Due
<1>5. \A l : Superseded(l) => Superseded(l)'
  BY <1>0, <1>1, SupersededAppend, Zenon
<1>6. Counted' \subseteq Counted \cup gate.leases
  BY <1>1, <1>5, Zenon DEF Counted, Outstanding
<1> QED BY <1>4, <1>6, Zenon

\* Steps keep the load of every node within what it offers.
LEMMA LoadStep ==
    ASSUME FiniteFacts, AdmitInv, WorkInv', FiniteInv', Kinds, NEW n \in Nodes
    PROVE  Cardinality(Load(n)') <= Slots
<1>1. /\ IsFiniteSet(Load(n)) /\ IsFiniteSet(Load(n)') /\ Cardinality(Load(n)) <= Slots
  <2>1. IsFiniteSet(Load(n)')
    <3>1. Load(n)' \subseteq Issued(ledger)'
      BY Zenon DEF Load, Due, Counted, Outstanding, WorkInv, TableInv
    <3> QED BY <3>1, Zenon DEF FiniteFacts, SubsetFact, FiniteInv
  <2> QED BY <2>1, FiniteLoad, Zenon DEF AdmitInv, RoomInv
<1>2. /\ Cardinality(Load(n)) \in Nat /\ Cardinality(Load(n)') \in Nat /\ Slots \in Nat
  BY <1>1, BoundsAssumption, Zenon DEF FiniteFacts, CountFact
<1>3. ASSUME Load(n)' \subseteq Load(n) PROVE Cardinality(Load(n)') <= Slots
  BY <1>1, <1>2, <1>3 DEF FiniteFacts, SubsetFact
<1>4. CASE \A e \in Event : ~Issues(e)
  <2>1. Load(n)' \subseteq Load(n)
    BY <1>4, LoadShrinks, Zenon DEF Load
  <2> QED BY <1>3, <2>1, Zenon
<1>5. ASSUME NEW e \in Event, Issues(e) PROVE Cardinality(Load(n)') <= Slots
  <2>1. Load(n)' \subseteq Load(n) \cup Hand(n)
    BY <1>5, IssueLoad, Zenon DEF Load, Hand
  <2>2. CASE Hand(n) = {}
    BY <1>3, <2>1, <2>2, Zenon
  <2>3. CASE Hand(n) # {}
    <3>1. Cardinality(Reserved(n)) + Cardinality(Hand(n)) <= Slots
      BY <1>5, <2>3, Zenon DEF AdmitInv, RoomInv, Issues, Admitting
    <3>2. Load(n) \subseteq Reserved(n)
      BY <1>5, DueCounts, Zenon DEF Load, Reserved, Issues
    <3>3. IsFiniteSet(Hand(n)) /\ IsFiniteSet(Reserved(n))
      <4>1. IsFiniteSet(gate.leases) /\ IsFiniteSet(reservations)
        BY <1>5, Zenon DEF AdmitInv, FiniteInv, Issues, Admitting
      <4> QED BY <4>1, Zenon DEF FiniteFacts, SubsetFact, Hand, Reserved
    <3>4. /\ IsFiniteSet(Reserved(n) \cup Hand(n))
          /\ Cardinality(Reserved(n) \cup Hand(n)) =
               Cardinality(Reserved(n)) + Cardinality(Hand(n))
                 - Cardinality(Reserved(n) \cap Hand(n))
      BY <3>3, Zenon DEF FiniteFacts, UnionFact
    <3>5. Cardinality(Load(n)') <= Cardinality(Reserved(n) \cup Hand(n))
      BY <2>1, <3>2, <3>4, Zenon DEF FiniteFacts, SubsetFact
    <3>6. /\ Cardinality(Reserved(n)) \in Nat /\ Cardinality(Hand(n)) \in Nat
          /\ Cardinality(Reserved(n) \cap Hand(n)) \in Nat
      BY <3>3, Zenon DEF FiniteFacts, SubsetFact, CountFact
    <3> QED BY <1>2, <3>1, <3>4, <3>5, <3>6
  <2> QED BY <2>2, <2>3, Zenon
<1> QED BY <1>4, <1>5, Zenon

\* Steps keep the reservations and the room.
LEMMA RoomStep ==
    ASSUME FiniteFacts, AdmitInv, WorkInv', FiniteInv', Kinds
    PROVE  RoomInv'
<1> USE DEF work, facts
<1>0. ledger \in Seq(Event) /\ WorkInv /\ RoomInv /\ IdsInv /\ reservations \subseteq Lease
  BY Zenon DEF AdmitInv, WorkInv, TypeOK
<1>1. Serving' => Due' \subseteq assignments'
  <2> SUFFICES ASSUME Serving', NEW l \in Due' PROVE l \in assignments'
    BY Zenon
  <2>1. ASSUME NEW e \in Event, Issues(e) PROVE l \in assignments'
    <3>1. \/ l \in gate.leases
          \/ l \in assignments /\ \A m \in gate.leases : m.job.id # l.job.id
      BY <1>0, <2>1, IssueLoad, Zenon DEF RoomInv, Issues
    <3> QED BY <2>1, <3>1, Zenon DEF Issues, Publish
  <2>2. CASE \A e \in Event : ~Issues(e)
    <3>1. l \in Due
      BY <2>2, LoadShrinks, Zenon
    <3>2. Serving => l \in assignments
      BY <1>0, <3>1, Zenon DEF RoomInv
    <3>3. CASE Restores
      BY <1>0, <3>1, <3>3, RestoredStanding, Zenon DEF Due, Restores
    <3>4. ASSUME NEW n \in Nodes, Forgets(n) PROVE l \in assignments'
      <4>1. LET e == NodeEvent("node.revoked", n) IN
              e \in Event /\ e.type = "node.revoked" /\ e.nodes = {n} /\ e.leases = {}
              /\ ledger' = Append(ledger, e)
        BY <3>4, RowEvents, Zenon DEF Forgets
      <4>2. Standing(ledger', l)
        BY DEF Due
      <4>3. l.node # n
        BY <1>0, <4>1, <4>2, StandingAppend, Zenon
      <4> QED BY <3>2, <3>4, <4>3, Zenon DEF Forgets, Alone
    <3>5. ASSUME NEW c \in Lease, Accepts(c) PROVE l \in assignments'
      BY <3>1, <3>2, <3>5, Zenon DEF Accepts, Alone, Due
    <3>6. CASE Stays \/ Advances \/ Dies \/ Plans \/ \E c \in Lease : Claims(c) \/ Elapses(c)
      <4>1. Serving /\ assignments' = assignments
        BY <3>6, Zenon DEF Stays, Advances, Dies, Plans, Claims, Elapses, Calm, Alone, Serving
      <4> QED BY <3>2, <4>1, Zenon
    <3> QED BY <2>2, <3>3, <3>4, <3>5, <3>6, Zenon DEF Kinds
  <2> QED BY <2>1, <2>2, Zenon
<1>2. Counted' \subseteq reservations'
  <2>1. ASSUME NEW e \in Event, Issues(e) PROVE Counted' \subseteq reservations'
    <3>1. Counted' \subseteq Counted \cup gate.leases
      BY <2>1, IssueLoad, Zenon
    <3>2. Counted \subseteq reservations \ expired
      BY <1>0, Zenon DEF RoomInv, Counted, Outstanding
    <3>3. reservations' = (reservations \ expired) \cup gate.leases
      BY <2>1, Zenon DEF Issues, Publish
    <3> QED BY <3>1, <3>2, <3>3, Zenon
  <2>2. CASE Restores
    BY <2>2, Zenon DEF Restores, Counted, Outstanding
  <2>3. ASSUME ~Restores, \A e \in Event : ~Issues(e) PROVE Counted' \subseteq reservations'
    <3>1. Counted' \subseteq Counted /\ Counted' \subseteq assignments' /\ Counted' \subseteq reservations
      BY <1>0, <2>3, LoadShrinks, Zenon DEF RoomInv, Counted, Outstanding
    <3>2. CASE \E n \in Nodes : Forgets(n)
      BY <3>1, <3>2, Zenon DEF Forgets
    <3>3. ASSUME NEW c \in Lease, Accepts(c) PROVE Counted' \subseteq reservations'
      BY <1>0, <3>1, <3>3, Zenon DEF Accepts, IdsInv
    <3>4. CASE Stays \/ Advances \/ Dies \/ Plans \/ \E c \in Lease : Claims(c) \/ Elapses(c)
      BY <3>1, <3>4, Zenon DEF Stays, Advances, Dies, Plans, Claims, Elapses
    <3> QED BY <2>3, <3>2, <3>3, <3>4, Zenon DEF Kinds
  <2> QED BY <2>1, <2>2, <2>3, Zenon
<1>3. \A n \in Nodes : Cardinality(Load(n)') <= Slots
  BY LoadStep, Zenon
<1>4. ASSUME Admitting', NEW n \in Nodes, Hand(n)' # {}
      PROVE  Cardinality(Reserved(n)') + Cardinality(Hand(n)') <= Slots
  <2>1. CASE Plans
    <3>1. Reserved(n)' = Reserved(n)
      BY <2>1, Zenon DEF Plans, Reserved
    <3> QED BY <1>4, <2>1, <3>1, Zenon DEF Plans
  <2>2. CASE ~Plans
    <3>1. gate' = gate /\ Admitting /\ reservations' = reservations /\ expired \subseteq expired'
      BY <1>4, <2>2, Zenon DEF Kinds, Stays, Advances, Dies, Restores, Forgets, Issues, Claims,
                        Accepts, Elapses, Calm, Alone, Admitting
    <3>2. Hand(n)' = Hand(n) /\ Reserved(n)' \subseteq Reserved(n)
      BY <3>1, Zenon DEF Hand, Reserved
    <3>3. Cardinality(Reserved(n)) + Cardinality(Hand(n)) <= Slots
      BY <1>0, <1>4, <3>1, <3>2, Zenon DEF RoomInv
    <3>4. IsFiniteSet(Reserved(n)) /\ IsFiniteSet(Hand(n))
      BY <3>1, Zenon DEF FiniteFacts, SubsetFact, AdmitInv, FiniteInv, Reserved, Hand
    <3>5. /\ IsFiniteSet(Reserved(n)') /\ Cardinality(Reserved(n)') <= Cardinality(Reserved(n))
      BY <3>2, <3>4, Zenon DEF FiniteFacts, SubsetFact
    <3>6. /\ Cardinality(Reserved(n)) \in Nat /\ Cardinality(Reserved(n)') \in Nat
          /\ Cardinality(Hand(n)) \in Nat /\ Slots \in Nat
      BY <3>4, <3>5, BoundsAssumption, Zenon DEF FiniteFacts, CountFact
    <3>7. Cardinality(Hand(n)') = Cardinality(Hand(n))
      BY <3>2, Zenon
    <3> QED BY <3>3, <3>5, <3>6, <3>7
  <2> QED BY <2>1, <2>2, Zenon
<1> QED BY <1>1, <1>2, <1>3, <1>4, Zenon DEF RoomInv

-----------------------------------------------------------------------------
\* A new installation satisfies the invariant.
LEMMA Installs ==
    ASSUME FiniteFacts, Init
    PROVE  AdmitInv
<1>1. /\ ledger = <<>> /\ DOMAIN ledger = {} /\ assignments = {} /\ reservations = {}
      /\ gate.op = "free" /\ ~Serving
  BY DEF Init, Free, Held, Serving
<1>2. Issued(ledger) = {} /\ Due = {} /\ Counted = {}
  BY <1>1, Zenon DEF Issued, LeasesOf, Due, Counted, Outstanding
<1>3. \A n : Load(n) = {}
  BY <1>2, Zenon DEF Load
<1>4. \A n \in Nodes : Cardinality(Load(n)) <= Slots
  <2>1. Cardinality({}) = 0 /\ 0 <= Slots
    BY BoundsAssumption DEF FiniteFacts, EmptyFact
  <2> QED BY <1>3, <2>1, Zenon
<1>5. FiniteInv /\ RoomInv
  BY <1>1, <1>2, <1>4, Zenon DEF FiniteFacts, EmptyFact, FiniteInv, RoomInv, Admitting
<1>6. IdsInv /\ RevivedInv /\ ClaimsInv /\ SetsInv /\ SetAdmittedOnce
  BY <1>1, Zenon DEF IdsInv, RevivedInv, ClaimsInv, SetsInv, SetAdmittedOnce, Admitting
<1> QED BY <1>5, <1>6, WorkInit, Zenon DEF AdmitInv

\* Every step keeps the invariant.
LEMMA Steps ==
    ASSUME FiniteFacts, AdmitInv, [Next]_vars
    PROVE  AdmitInv'
<1>1. WorkInv' /\ Kinds
  BY WorkStep, StepKinds, Zenon DEF AdmitInv, FiniteInv
<1>2. FiniteInv'
  BY <1>1, FiniteStep, Zenon DEF AdmitInv
<1> QED BY <1>1, <1>2, IdsStep, RevivedStep, ClaimsStep, RoomStep, SetsStep, OnceStep, Zenon DEF AdmitInv

\* Room for the load is room for the outstanding leases that no later one replaced.
LEMMA RoomSuffices ==
    ASSUME FiniteFacts, AdmitInv
    PROVE  NoOvercommit
<1> SUFFICES ASSUME NEW n \in Nodes
             PROVE  Cardinality({l \in Outstanding : l.node = n /\ ~Superseded(l)}) <= Slots
  BY Zenon DEF NoOvercommit
<1> DEFINE C == {l \in Outstanding : l.node = n /\ ~Superseded(l)}
<1>1. C \subseteq Load(n)
  BY DEF Load, Counted
<1>2. IsFiniteSet(Load(n))
  BY FiniteLoad, Zenon DEF AdmitInv
<1> HIDE DEF C
<1>3. IsFiniteSet(C) /\ Cardinality(C) <= Cardinality(Load(n))
  BY <1>1, <1>2, Zenon DEF FiniteFacts, SubsetFact
<1>4. Cardinality(C) \in Nat /\ Cardinality(Load(n)) \in Nat /\ Slots \in Nat
  BY <1>2, <1>3, BoundsAssumption, Zenon DEF FiniteFacts, CountFact
<1>5. Cardinality(Load(n)) <= Slots
  BY Zenon DEF AdmitInv, RoomInv
<1>6. Cardinality(C) <= Slots
  BY <1>3, <1>4, <1>5
<1> QED BY <1>6, Zenon DEF C

\* What restore_state brings back follows from the invariant.
LEMMA RestartFollows == AdmitInv => RestartKeepsWork
  <1> SUFFICES ASSUME AdmitInv, Serving, NEW l \in assignments, Passes(l, dbEpoch, expired)
               PROVE  /\ l \in RestoredAssignments(ledger, dbEpoch, expired)
                      /\ l \in Claimed(ledger) => l \in RestoredClaims(ledger, dbEpoch, expired)
                      /\ l \in RestoredClaims(ledger, dbEpoch, expired) =>
                           l \in Claimed(ledger) \/ Superseded(l)
    BY Zenon DEF RestartKeepsWork
  <1>1. l \in RestoredAssignments(ledger, dbEpoch, expired)
    BY Zenon DEF AdmitInv, RevivedInv
  <1> QED BY <1>1, RestoredWork, RestoredFlags, Zenon DEF AdmitInv, WorkInv, TypeOK
=============================================================================
