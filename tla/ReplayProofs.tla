---------------------------- MODULE ReplayProofs ----------------------------
(***************************************************************************)
(* The theorems about admission and restart.  Two arguments are added to   *)
(* those of AdmissionProofs: a key leads to one lease (OneLeasePerKey),    *)
(* and the loop of restore_state computes the state Controller restarts    *)
(* with (RestoreIsReplay).                                                 *)
(***************************************************************************)
EXTENDS AdmissionProofs, Replay

-----------------------------------------------------------------------------
(***************************************************************************)
(* Idempotency keys.  A key leads to one lease when clients do not reuse   *)
(* job ids, submit single jobs, and no append fails: the ways around that  *)
(* are in README.md.                                                       *)
(***************************************************************************)
SingleJobs ==
    /\ \A a, b \in Jobs : a.id = b.id => a = b
    /\ ShardSets = {}
    /\ ~AppendMayFail

\* The current leases that a restart might bring back.
Revivable ==
    {l \in Issued(ledger) : Stands(ledger, l, {"job.receipted"}) /\ Passes(l, dbEpoch, expired)}

\* Whatever a restart might bring back is assigned already and was not replaced,
\* every assignment is under its key, and no two are under one key.
KeyInv ==
    /\ gate.op # "set"
    /\ \A l \in Revivable : ~Superseded(l)
    /\ Serving => Revivable \subseteq assignments
    /\ Serving => \A l \in assignments : l.job \in idempotency
    /\ \A a, b \in assignments \cup Revivable : a.job.key = b.job.key => a = b
    /\ gate.op = "job" => \E x \in gate.leases :
         gate.leases = {x} /\ \A l \in assignments : l.job.key # x.job.key

\* One event leaves revivable what it neither receipts nor revokes.
LEMMA RevivableStep ==
    ASSUME WorkInv, WorkInv', Kinds
    PROVE  /\ (\A e \in Event : ~Issues(e)) => Revivable' \subseteq Revivable
           /\ (\E e \in Event : Issues(e)) => Revivable' \subseteq Revivable \cup gate.leases
<1> USE DEF work, facts
<1> DEFINE T == {"job.receipted"}
<1>0. ledger \in Seq(Event)
  BY DEF WorkInv, TypeOK
<1> SUFFICES ASSUME NEW l \in Revivable'
             PROVE  l \in Revivable \/ \E e \in Event : Issues(e) /\ l \in gate.leases
  BY Zenon
<1>1. l \in Issued(ledger') /\ Stands(ledger', l, T) /\ Passes(l, dbEpoch', expired')
  BY Zenon DEF Revivable
<1> HIDE DEF T
<1>2. ASSUME l \in Issued(ledger), Stands(ledger, l, T) PROVE l \in Revivable
  <2>1. Passes(l, dbEpoch, expired)
    <3>1. CASE Advances
      BY SMTT(30), <1>1, <1>2, <3>1, NoneCurrent
    <3>2. CASE ~Advances
      BY <1>1, <3>2, Zenon DEF Kinds, Stays, Dies, Restores, Plans, Forgets, Issues, Claims, Accepts,
                        Elapses, Passes
    <3> QED BY <3>1, <3>2
  <2> QED BY <1>2, <2>1 DEF Revivable, T
<1>3. CASE ledger' = ledger
  BY <1>1, <1>2, <1>3, Zenon
<1>4. ASSUME NEW e \in Event, ledger' = Append(ledger, e)
      PROVE  l \in Revivable \/ (e.type \in IssueType /\ l \in e.leases)
  <2>1. Stands(Append(ledger, e), l, T)
    BY <1>1, <1>4
  <2>2. l \in Issued(ledger) \/ (e.type \in IssueType /\ l \in e.leases)
    BY <1>0, <1>1, <1>4, IssuedAfter, Zenon
  <2>3. Stands(ledger, l, T) \/ (e.type \in IssueType /\ l \in e.leases)
    BY <1>0, <2>1, StandsAppend, Zenon
  <2> QED BY <1>2, <2>2, <2>3, Zenon
<1>5. ASSUME NEW e \in Event, Issues(e)
      PROVE  l \in Revivable \/ l \in gate.leases
  BY <1>4, <1>5, Zenon DEF Issues
<1>6. CASE \A e \in Event : ~Issues(e)
  BY <1>3, <1>4, <1>6, NothingNew, Zenon
<1> QED BY <1>5, <1>6, Zenon

\* Two leases of single jobs that share a job id share their job.
LEMMA SameJob ==
    ASSUME SingleJobs, NEW a \in Lease, NEW b \in Lease, a.job.id = b.job.id
    PROVE  a.job = b.job
BY DEF SingleJobs, Lease

\* The steps of an installation with single jobs keep KeyInv.
LEMMA KeyStep ==
    ASSUME SingleJobs, AdmitInv, AdmitInv', KeyInv, Kinds
    PROVE  KeyInv'
<1> USE DEF work, facts
<1>0. /\ ledger \in Seq(Event) /\ WorkInv /\ WorkInv' /\ IdsInv
      /\ assignments \subseteq Lease /\ Revivable \subseteq Lease /\ gate.leases \subseteq Lease
      /\ ~AppendMayFail
  <2>1. ledger \in Seq(Event) /\ assignments \subseteq Lease /\ gate.leases \subseteq Lease
    BY Zenon DEF AdmitInv, WorkInv, TypeOK, Gate
  <2>2. Revivable \subseteq Lease
    BY <2>1, RestoredTypes, Zenon DEF Revivable, Issued
  <2> QED BY <2>1, <2>2, Zenon DEF AdmitInv, SingleJobs
<1>1. gate'.op # "set"
  <2>1. gate'.sets = {}
    BY <1>0 DEF WorkInv, TypeOK, Gate, SingleJobs
  <2> QED BY <2>1, Zenon DEF Kinds, Stays, Advances, Dies, Restores, Plans, Forgets, Issues, Claims,
                      Accepts, Elapses, Calm, Alone, KeyInv
<1>2. ASSUME NEW e \in Event, Issues(e) PROVE KeyInv'
  <2>1. PICK x \in gate.leases : gate.leases = {x} /\ \A l \in assignments : l.job.key # x.job.key
    BY <1>2, Zenon DEF Issues, KeyInv
  <2>2. \A l \in assignments : l.job.id # x.job.id
    BY <1>0, <2>1, SameJob, Zenon
  <2>3. /\ Serving /\ e.type \in IssueType /\ e.leases = {x} /\ ledger' = Append(ledger, e)
        /\ assignments' = assignments \cup {x}
        /\ idempotency' = {j \in idempotency : j.key # x.job.key} \cup {x.job}
        /\ gate'.op = "free" /\ gate.op \in {"job", "set"}
    BY <1>2, <2>1, <2>2, ZenonT(60) DEF Issues, Publish
  <2>4. Revivable \subseteq assignments /\ Revivable' \subseteq Revivable \cup {x}
    BY <1>0, <1>2, <2>1, <2>3, RevivableStep, Zenon DEF KeyInv
  <2>5. x \notin Issued(ledger)
    <3>1. x.batch + 1 = batches /\ \A l \in Issued(ledger) : l.batch + 1 < batches
      BY <1>0, <2>3, Zenon DEF WorkInv, GateInv, LedgerInv
    <3>2. x.batch \in Nat /\ batches \in Nat
      BY <1>0, Zenon DEF WorkInv, TypeOK, Lease
    <3> QED BY <3>1, <3>2
  <2>6. ASSUME NEW l \in Revivable' PROVE ~Superseded(l)'
    <3>1. CASE l \in Revivable
      <4>1. ~NamesJob(e, l.job.id) /\ ~Superseded(l)
        BY <2>2, <2>3, <2>4, <3>1, Zenon DEF KeyInv, NamesJob
      <4> QED BY <1>0, <2>3, <4>1, SupersededAppend, Zenon
    <3>2. CASE l = x
      <4>1. ~Superseded(x)
        BY <2>5, LeasesOfRows, Zenon DEF Superseded, Issued
      <4> QED BY <1>0, <2>3, <2>5, <3>2, <4>1, SupersededAppend, Zenon
    <3> QED BY SMTT(30), <2>4, <3>1, <3>2
  <2>7. \A l \in assignments' : l.job \in idempotency'
    BY <2>1, <2>3 DEF KeyInv
  <2>8. \A a, b \in assignments' \cup Revivable' : a.job.key = b.job.key => a = b
    <3> SUFFICES ASSUME NEW a \in assignments' \cup Revivable', NEW b \in assignments' \cup Revivable',
                        a.job.key = b.job.key
                 PROVE  a = b
      BY Zenon
    <3>1. (a = x \/ a \in assignments) /\ (b = x \/ b \in assignments)
      BY <2>3, <2>4, Zenon
    <3>2. a \in assignments /\ b \in assignments => a = b
      BY Zenon DEF KeyInv
    <3> QED BY <2>1, <3>1, <3>2, Zenon
  <2> QED BY <1>1, <2>3, <2>4, <2>6, <2>7, <2>8, Zenon DEF KeyInv
<1>3. CASE \A e \in Event : ~Issues(e)
  <2>1. Revivable' \subseteq Revivable
    BY <1>0, <1>3, RevivableStep, Zenon
  <2>2. \A l : Superseded(l)' => Superseded(l)
    <3>1. CASE ledger' = ledger
      BY <3>1, Zenon DEF Superseded
    <3> QED BY <1>0, <1>3, <3>1, NothingNew, SupersededAppend, Zenon
  <2>3. RestoredAssignments(ledger, dbEpoch, expired) = Revivable
    <3>1. RestoredAssignments(ledger, dbEpoch, expired) \subseteq Revivable
      BY Zenon DEF RestoredAssignments, SurvivesReplay, Revivable, Stands
    <3>2. ASSUME NEW l \in Revivable PROVE l \in RestoredAssignments(ledger, dbEpoch, expired)
      <4>1. /\ l \in Issued(ledger) /\ Passes(l, dbEpoch, expired) /\ ~Superseded(l)
            /\ Stands(ledger, l, {"job.receipted"})
        BY Zenon DEF Revivable, KeyInv
      <4>2. \A i, k \in DOMAIN ledger :
              i < k /\ ledger[i].type \in IssueType /\ l \in ledger[i].leases
              /\ ledger[k].type \in IssueType => ~NamesJob(ledger[k], l.job.id)
        BY <4>1, Zenon DEF Superseded
      <4>3. \A i \in DOMAIN ledger : \A k \in (i + 1) .. Len(ledger) : k \in DOMAIN ledger /\ i < k
        BY <1>0
      <4>4. Standing(ledger, l)
        BY <4>1, <4>2, <4>3, Zenon DEF Standing, Stands
      <4> QED BY <1>0, <4>1, <4>4, RestoredStanding, Zenon
    <3> QED BY <3>1, <3>2, Zenon
  <2>4. Restores \/ assignments' \subseteq assignments
    BY <1>3, Zenon DEF Kinds, Stays, Advances, Dies, Plans, Forgets, Claims, Accepts, Elapses
  <2>5. \A a, b \in assignments' \cup Revivable' : a.job.key = b.job.key => a = b
    BY <2>1, <2>3, <2>4, Zenon DEF KeyInv, Restores
  <2>6. Serving' => Revivable' \subseteq assignments'
    <3> SUFFICES ASSUME Serving', NEW l \in Revivable' PROVE l \in assignments'
      BY Zenon
    <3>0. Serving => l \in assignments
      BY <2>1, Zenon DEF KeyInv
    <3>1. CASE Restores
      BY <2>1, <2>3, <3>1, Zenon DEF Restores
    <3>2. ASSUME NEW n \in Nodes, Forgets(n) PROVE l \in assignments'
      <4>1. LET d == NodeEvent("node.revoked", n) IN
              d \in Event /\ d.type = "node.revoked" /\ d.nodes = {n} /\ d.leases = {}
              /\ ledger' = Append(ledger, d)
        BY <3>2, RowEvents, Zenon DEF Forgets
      <4>2. Stands(ledger', l, {"job.receipted"})
        BY Zenon DEF Revivable
      <4>3. l.node # n
        BY <1>0, <4>1, <4>2, StandsAppend, Zenon
      <4> QED BY <3>0, <3>2, <4>3, Zenon DEF Forgets, Alone
    <3>3. ASSUME NEW c \in Lease, Accepts(c) PROVE l \in assignments'
      <4>1. LET d == LeaseEvent("job.receipted", {c}) IN
              d \in Event /\ d.type = "job.receipted" /\ d.leases = {c}
              /\ ledger' = Append(ledger, d)
        BY <1>0, <3>3, RowEvents, Zenon DEF Accepts
      <4>2. Stands(ledger', l, {"job.receipted"})
        BY DEF Revivable
      <4>3. l.job.id # c.job.id
        BY <1>0, <4>1, <4>2, StandsAppend, ZenonT(30) DEF NamesJob, IssueType
      <4> QED BY SMTT(30), <3>0, <3>3, <4>3 DEF Accepts, Alone
    <3>4. CASE Stays \/ Advances \/ Dies \/ Plans \/ \E c \in Lease : Claims(c) \/ Elapses(c)
      <4>1. Serving /\ assignments' = assignments
        BY <3>4, Zenon DEF Stays, Advances, Dies, Plans, Claims, Elapses, Calm, Alone, Serving
      <4> QED BY <3>0, <4>1, Zenon
    <3> QED BY <1>3, <3>1, <3>2, <3>3, <3>4, Zenon DEF Kinds
  <2>7. Serving' => \A l \in assignments' : l.job \in idempotency'
    <3> SUFFICES ASSUME Serving', NEW l \in assignments' PROVE l.job \in idempotency'
      OBVIOUS
    <3>1. CASE Restores
      <4>1. /\ l \in Revivable /\ idempotency' \subseteq {m.job : m \in Revivable}
            /\ \E a \in idempotency' : a.key = l.job.key
        BY <2>3, <3>1, Zenon DEF Restores, RestoredKeys
      <4> QED BY <4>1, Zenon DEF KeyInv
    <3>2. CASE ~Restores
      <4>1. l \in assignments /\ (Serving => l.job \in idempotency)
        BY <2>4, <3>2, Zenon DEF KeyInv
      <4>2. ASSUME NEW c \in Lease, Accepts(c) PROVE l.job \in idempotency'
        BY <4>1, <4>2, Zenon DEF Accepts, Alone, KeyInv
      <4>3. CASE Stays \/ Advances \/ Dies \/ Plans \/ (\E n \in Nodes : Forgets(n))
                 \/ \E c \in Lease : Claims(c) \/ Elapses(c)
        BY <4>1, <4>3, Zenon DEF Stays, Advances, Dies, Plans, Claims, Elapses, Forgets, Calm,
                          Alone, Serving
      <4> QED BY <1>3, <3>2, <4>2, <4>3, Zenon DEF Kinds
    <3> QED BY <3>1, <3>2, Zenon
  <2>8. gate'.op = "job" => \E x \in gate'.leases :
          gate'.leases = {x} /\ \A l \in assignments' : l.job.key # x.job.key
    <3> SUFFICES ASSUME gate'.op = "job"
                 PROVE  \E x \in gate'.leases :
                          gate'.leases = {x} /\ \A l \in assignments' : l.job.key # x.job.key
      BY Zenon
    <3>1. CASE Plans
      <4>1. PICK x \in Lease : gate'.leases = {x} /\ Existing(x.job) = {}
        BY <3>1, Zenon DEF Plans
      <4>2. /\ assignments' = assignments
            /\ \A l \in assignments : l.job \in idempotency
        BY <3>1, Zenon DEF Plans, KeyInv
      <4>3. \A l \in assignments : l.job.key # x.job.key
        BY <4>1, <4>2, Zenon DEF Existing
      <4> QED BY <4>1, <4>2, <4>3, Zenon
    <3>2. CASE ~Plans
      <4>1. gate' = gate /\ assignments' = assignments
        BY <1>3, <3>2, Zenon DEF Kinds, Stays, Advances, Dies, Restores, Forgets, Claims, Accepts,
                          Elapses, Calm, Alone
      <4> QED BY <4>1, Zenon DEF KeyInv
    <3> QED BY <3>1, <3>2, Zenon
  <2> QED BY <1>1, <2>1, <2>2, <2>5, <2>6, <2>7, <2>8, Zenon DEF KeyInv
<1> QED BY <1>2, <1>3

\* The invariant holds at first.
LEMMA KeyStart == Init => KeyInv
<1> SUFFICES ASSUME Init PROVE KeyInv
  BY Zenon
<1>1. DOMAIN ledger = {} /\ assignments = {} /\ gate.op = "free" /\ ~Serving
  BY DEF Init, Free, Held, Serving
<1>2. Revivable = {}
  BY <1>1, Zenon DEF Revivable, Issued, LeasesOf
<1> QED BY <1>1, <1>2, Zenon DEF KeyInv

-----------------------------------------------------------------------------
(***************************************************************************)
(* The replay loop of restore_state computes what the direct definitions   *)
(* say, for every ledger: one more event does to the definitions what one  *)
(* more iteration does to the maps, and so, by the least prefix on which   *)
(* they would differ, for a ledger of any length.                          *)
(***************************************************************************)
\* A replayed flag outlives an event that spares its assignment; a job.claimed
\* event sets it.
LEMMA ClaimsAppend ==
    ASSUME NEW L \in Seq(Event), NEW e \in Event, NEW E, NEW X, NEW l
    PROVE  l \in RestoredClaims(Append(L, e), E, X) <=>
             \/ l \in RestoredClaims(L, E, X) /\ Spares(e, l, E, X)
             \/ /\ e.type = "job.claimed" /\ NamesJob(e, l.job.id)
                /\ l \in RestoredAssignments(L, E, X)
<1> DEFINE M == Append(L, e)
           N == Len(L) + 1
           Flagged(K, i) == \E k \in (i + 1) .. Len(K) :
                              K[k].type = "job.claimed" /\ NamesJob(K[k], l.job.id)
<1>1. /\ \A i : i \in DOMAIN M <=> i \in DOMAIN L \/ i = N
      /\ \A i \in DOMAIN L : M[i] = L[i]
      /\ M[N] = e
      /\ \A i \in DOMAIN L : \A k : k \in (i + 1) .. Len(M) <=> k \in (i + 1) .. Len(L) \/ k = N
      /\ \A i \in DOMAIN L : \A k \in (i + 1) .. Len(L) : k \in DOMAIN L
      /\ (N + 1) .. Len(M) = {}
  BY RowsAfter
<1> HIDE DEF M, N
<1>2. ASSUME NEW i \in DOMAIN L
      PROVE  /\ SurvivesReplay(M, i, l, E, X) <=> SurvivesReplay(L, i, l, E, X) /\ Spares(e, l, E, X)
             /\ Flagged(M, i) <=> Flagged(L, i) \/ (e.type = "job.claimed" /\ NamesJob(e, l.job.id))
  BY <1>1, Zenon DEF SurvivesReplay, Spares
<1>3. ~Flagged(M, N)
  BY <1>1, Zenon
<1>4. ASSUME NEW K
      PROVE  /\ l \in RestoredClaims(K, E, X) <=>
                  \E i \in DOMAIN K : SurvivesReplay(K, i, l, E, X) /\ Flagged(K, i)
             /\ l \in RestoredAssignments(K, E, X) <=>
                  \E i \in DOMAIN K : SurvivesReplay(K, i, l, E, X)
  <2>1. \A i \in DOMAIN K : SurvivesReplay(K, i, l, E, X) => l \in Issued(K)
    BY LeasesOfRows, Zenon DEF SurvivesReplay, Issued
  <2> QED BY <2>1, Zenon DEF RestoredClaims, RestoredAssignments
<1>5. e.type = "job.claimed" => Spares(e, l, E, X)
  BY Zenon DEF Spares, IssueType
<1> HIDE DEF Flagged
<1> QED BY <1>1, <1>2, <1>3, <1>4, <1>5, Zenon DEF M

\* One more event enrols or forgets its nodes.
LEMMA NodesAppend ==
    ASSUME NEW L \in Seq(Event), NEW e \in Event, NEW n \in Nodes
    PROVE  n \in RestoredNodes(Append(L, e)) <=>
             \/ e.type = "node.enrolled" /\ n \in e.nodes
             \/ n \in RestoredNodes(L) /\ (e.type = "node.revoked" => n \notin e.nodes)
<1> DEFINE M == Append(L, e)
           N == Len(L) + 1
<1>1. /\ \A i : i \in DOMAIN M <=> i \in DOMAIN L \/ i = N
      /\ \A i \in DOMAIN L : M[i] = L[i]
      /\ M[N] = e
      /\ \A i \in DOMAIN L : \A k : k \in (i + 1) .. Len(M) <=> k \in (i + 1) .. Len(L) \/ k = N
      /\ \A i \in DOMAIN L : \A k \in (i + 1) .. Len(L) : k \in DOMAIN L
      /\ (N + 1) .. Len(M) = {}
  BY RowsAfter
<1> DEFINE Keeps(f) == f.type = "node.revoked" => n \notin f.nodes
           Enrols(f) == f.type = "node.enrolled" /\ n \in f.nodes
<1>2. n \in RestoredNodes(M) <=>
        \E i \in DOMAIN M : Enrols(M[i]) /\ \A k \in (i + 1) .. Len(M) : Keeps(M[k])
  BY Zenon DEF RestoredNodes
<1>3. n \in RestoredNodes(L) <=>
        \E i \in DOMAIN L : Enrols(L[i]) /\ \A k \in (i + 1) .. Len(L) : Keeps(L[k])
  BY Zenon DEF RestoredNodes
<1> HIDE DEF M, N, Keeps, Enrols
<1>4. \A i \in DOMAIN L : (\A k \in (i + 1) .. Len(M) : Keeps(M[k])) <=>
        (\A k \in (i + 1) .. Len(L) : Keeps(L[k])) /\ Keeps(e)
  BY <1>1, Zenon
<1>5. \A k \in (N + 1) .. Len(M) : Keeps(M[k])
  BY <1>1, Zenon
<1>6. n \in RestoredNodes(M) <=> Enrols(e) \/ (n \in RestoredNodes(L) /\ Keeps(e))
  BY <1>1, <1>2, <1>3, <1>4, <1>5, Zenon
<1> QED BY <1>6, Zenon DEF M, Keeps, Enrols

\* A replayed shard set outlives an event that neither revokes a node of one of
\* its shards nor admits a set of its id.
LEMMA SetsAppend ==
    ASSUME NEW L \in Seq(Appended), NEW e \in Appended, NEW r
    PROVE  r \in RestoredSets(Append(L, e)) <=>
             \/ \E s \in e.sets : r = [spec |-> s, leases |-> e.leases]
             \/ /\ r \in RestoredSets(L)
                /\ e.type = "node.revoked" => \A l \in r.leases : l.node \notin e.nodes
                /\ \A t \in e.sets : r.spec.id # t.id
<1>1. L \in Seq(Event) /\ e \in Event /\ \A i \in DOMAIN L : L[i] \in Appended
  BY DEF Appended
<1>2. ASSUME NEW i \in DOMAIN L, NEW s \in L[i].sets, r = [spec |-> s, leases |-> L[i].leases]
      PROVE  KeepsSet(L[i], e) <=>
               /\ e.type = "node.revoked" => \A l \in r.leases : l.node \notin e.nodes
               /\ \A t \in e.sets : r.spec.id # t.id
  <2>1. L[i].sets = {s} /\ r.spec = s /\ r.leases = L[i].leases
    BY <1>1, <1>2, Zenon DEF Appended
  <2> QED BY <2>1, Zenon DEF KeepsSet
<1> QED BY <1>1, <1>2, RestoredSetsAppend, RestoredSetRows

\* One more iteration of the loop does to the maps what one more event does to
\* the direct definitions.
LEMMA IterationIsEvent ==
    ASSUME NEW L \in Seq(Appended), NEW e \in Appended, NEW E, NEW X
    PROVE  ApplyEvent(Restored(L, E, X), e, E, X) = Restored(Append(L, e), E, X)
<1> DEFINE r == Restored(L, E, X)
           M == Append(L, e)
           ids == {l.job.id : l \in e.leases}
           kept == {l \in e.leases : Passes(l, E, X)}
<1>0. L \in Seq(Event) /\ e \in Event /\ e.nodes \subseteq Nodes
  <2>1. L \in Seq(Event) /\ e \in Event
    BY DEF Appended
  <2> QED BY <2>1, Zenon DEF Event
<1>1. /\ r.nodes = RestoredNodes(L) /\ r.assignments = RestoredAssignments(L, E, X)
      /\ r.claimed = RestoredClaims(L, E, X) /\ r.completed = Receipted(L)
      /\ r.sets = RestoredSets(L)
      /\ r = [nodes |-> r.nodes, assignments |-> r.assignments, claimed |-> r.claimed,
              completed |-> r.completed, sets |-> r.sets]
  BY Zenon DEF Restored
<1>2. \A l : /\ l.job.id \in ids <=> NamesJob(e, l.job.id)
             /\ l.job.id \in {m.job.id : m \in kept} <=>
                  \E m \in e.leases : m.job.id = l.job.id /\ Passes(m, E, X)
  BY Zenon DEF NamesJob
<1>3. \A l : l \in RestoredAssignments(M, E, X) <=>
             \/ e.type \in IssueType /\ l \in kept
             \/ l \in r.assignments /\ Spares(e, l, E, X)
  BY SMTT(30), <1>0, <1>1, RestoredAppend
<1>4. \A l : l \in RestoredClaims(M, E, X) <=>
             \/ l \in r.claimed /\ Spares(e, l, E, X)
             \/ /\ e.type = "job.claimed" /\ l.job.id \in ids
                /\ l \in r.assignments
  BY SMTT(30), <1>0, <1>1, <1>2, ClaimsAppend
<1>5. /\ RestoredNodes(M) \subseteq Nodes /\ r.nodes \subseteq Nodes
      /\ \A n \in Nodes : n \in RestoredNodes(M) <=>
             \/ e.type = "node.enrolled" /\ n \in e.nodes
             \/ n \in r.nodes /\ (e.type = "node.revoked" => n \notin e.nodes)
  <2>1. \A K : RestoredNodes(K) \subseteq Nodes
    BY Zenon DEF RestoredNodes
  <2> QED BY SMTT(30), <1>0, <1>1, <2>1, NodesAppend
<1>6. \A s : s \in RestoredSets(M) <=>
             \/ s \in {[spec |-> t, leases |-> e.leases] : t \in e.sets}
             \/ /\ s \in r.sets
                /\ e.type = "node.revoked" => \A l \in s.leases : l.node \notin e.nodes
                /\ \A t \in e.sets : s.spec.id # t.id
  BY <1>1, SetsAppend
<1>7. Receipted(M) = IF e.type = "job.receipted" THEN r.completed \cup e.leases
                                                 ELSE r.completed
  BY <1>0, <1>1, LeasesOfAppend, ZenonT(60) DEF Receipted
<1>8. e.type # "shard_set.admitted" => e.sets = {}
  BY DEF Appended
<1>9. \A l : e.type \notin IssueType \cup {"job.receipted", "node.revoked"} => Spares(e, l, E, X)
  BY Zenon DEF Spares
<1>10. \A l : e.type \in IssueType =>
          (Spares(e, l, E, X) <=> l.job.id \notin {m.job.id : m \in kept})
  BY <1>2, Zenon DEF Spares, IssueType
<1>11. \A l : e.type = "node.revoked" => (Spares(e, l, E, X) <=> l.node \notin e.nodes)
  BY Zenon DEF Spares, IssueType
<1>12. \A l : e.type = "job.receipted" => (Spares(e, l, E, X) <=> l.job.id \notin ids)
  BY <1>2, Zenon DEF Spares, IssueType
<1>13. Restored(M, E, X) =
         [nodes |-> RestoredNodes(M), assignments |-> RestoredAssignments(M, E, X),
          claimed |-> RestoredClaims(M, E, X), completed |-> Receipted(M),
          sets |-> RestoredSets(M)]
  BY DEF Restored
<1> HIDE DEF r, M, ids, kept
<1> DEFINE Loop == ApplyEvent(r, e, E, X)
<1>14. CASE e.type = "node.enrolled"
  <2>1. Loop = [r EXCEPT !.nodes = @ \cup e.nodes]
    BY <1>14, Zenon DEF ApplyEvent
  <2>2. /\ RestoredNodes(M) = r.nodes \cup e.nodes
        /\ RestoredAssignments(M, E, X) = r.assignments
        /\ RestoredClaims(M, E, X) = r.claimed
        /\ Receipted(M) = r.completed
        /\ RestoredSets(M) = r.sets
    BY <1>0, <1>3, <1>4, <1>5, <1>6, <1>7, <1>8, <1>9, <1>14, Zenon DEF IssueType
  <2> QED BY <1>1, <1>13, <2>1, <2>2, Zenon DEF r, M
<1>15. CASE e.type = "node.revoked"
  <2>1. Loop = [r EXCEPT !.nodes = @ \ e.nodes,
                         !.assignments = {l \in @ : l.node \notin e.nodes},
                         !.claimed = {l \in @ : l.node \notin e.nodes},
                         !.sets = {s \in @ : \A l \in s.leases : l.node \notin e.nodes}]
    BY <1>15 DEF ApplyEvent
  <2>2. /\ RestoredNodes(M) = r.nodes \ e.nodes
        /\ RestoredAssignments(M, E, X) = {l \in r.assignments : l.node \notin e.nodes}
        /\ RestoredClaims(M, E, X) = {l \in r.claimed : l.node \notin e.nodes}
        /\ Receipted(M) = r.completed
    BY <1>3, <1>4, <1>5, <1>7, <1>11, <1>15, Zenon DEF IssueType
  <2>3. RestoredSets(M) = {s \in r.sets : \A l \in s.leases : l.node \notin e.nodes}
    BY <1>6, <1>8, <1>15, Zenon
  <2> QED BY <1>1, <1>13, <2>1, <2>2, <2>3, Zenon DEF r, M
<1>16. ASSUME e.type \in IssueType
       PROVE  /\ RestoredNodes(M) = r.nodes
              /\ RestoredAssignments(M, E, X) =
                   Without(r.assignments, {m.job.id : m \in kept}) \cup kept
              /\ RestoredClaims(M, E, X) = Without(r.claimed, {m.job.id : m \in kept})
              /\ Receipted(M) = r.completed
  BY <1>3, <1>4, <1>5, <1>7, <1>10, <1>16, Zenon DEF IssueType, Without
<1>17. CASE e.type = "lease.issued"
  <2>1. Loop = InsertLeases(r, kept)
    BY <1>17 DEF ApplyEvent, kept
  <2>2. RestoredSets(M) = r.sets
    BY <1>6, <1>8, <1>17, Zenon
  <2> QED BY <1>1, <1>13, <1>16, <1>17, <2>1, <2>2, Zenon DEF r, M, InsertLeases, IssueType
<1>18. CASE e.type = "shard_set.admitted"
  <2>1. Loop = [InsertLeases(r, kept) EXCEPT
                  !.sets = {s \in @ : \A t \in e.sets : s.spec.id # t.id}
                           \cup {[spec |-> t, leases |-> e.leases] : t \in e.sets}]
    BY <1>18, Zenon DEF ApplyEvent, kept
  <2>2. RestoredSets(M) = {s \in r.sets : \A t \in e.sets : s.spec.id # t.id}
                          \cup {[spec |-> t, leases |-> e.leases] : t \in e.sets}
    BY <1>6, <1>18, Zenon
  <2> QED BY <1>1, <1>13, <1>16, <1>18, <2>1, <2>2, Zenon DEF r, M, InsertLeases, IssueType
<1>19. CASE e.type = "job.claimed"
  <2>1. Loop = [r EXCEPT !.claimed = @ \cup {l \in r.assignments : l.job.id \in ids}]
    BY <1>19, Zenon DEF ApplyEvent, ids
  <2>2. /\ RestoredNodes(M) = r.nodes
        /\ RestoredAssignments(M, E, X) = r.assignments
        /\ RestoredClaims(M, E, X) = r.claimed \cup {l \in r.assignments : l.job.id \in ids}
        /\ Receipted(M) = r.completed
        /\ RestoredSets(M) = r.sets
    BY <1>3, <1>4, <1>5, <1>6, <1>7, <1>8, <1>9, <1>19, Zenon DEF IssueType
  <2> QED BY <1>1, <1>13, <2>1, <2>2, Zenon DEF r, M
<1>20. CASE e.type = "job.receipted"
  <2>1. Loop = [r EXCEPT !.assignments = Without(@, ids), !.claimed = Without(@, ids),
                         !.completed = @ \cup e.leases]
    BY <1>20 DEF ApplyEvent, ids
  <2>2. /\ RestoredNodes(M) = r.nodes
        /\ RestoredAssignments(M, E, X) = Without(r.assignments, ids)
        /\ RestoredClaims(M, E, X) = Without(r.claimed, ids)
        /\ Receipted(M) = r.completed \cup e.leases
        /\ RestoredSets(M) = r.sets
    BY <1>3, <1>4, <1>5, <1>6, <1>7, <1>8, <1>12, <1>20, Zenon DEF IssueType, Without
  <2> QED BY <1>1, <1>13, <2>1, <2>2, Zenon DEF r, M
<1>21. CASE e.type \notin {"node.enrolled", "node.revoked", "lease.issued",
                           "shard_set.admitted", "job.claimed", "job.receipted"}
  <2>1. Loop = r
    BY <1>21, Zenon DEF ApplyEvent
  <2>2. /\ RestoredNodes(M) = r.nodes
        /\ RestoredAssignments(M, E, X) = r.assignments
        /\ RestoredClaims(M, E, X) = r.claimed
        /\ Receipted(M) = r.completed
        /\ RestoredSets(M) = r.sets
    BY <1>3, <1>4, <1>5, <1>6, <1>7, <1>8, <1>9, <1>21, Zenon DEF IssueType
  <2> QED BY <1>1, <1>13, <2>1, <2>2, Zenon DEF r, M
<1> QED BY <1>14, <1>15, <1>17, <1>18, <1>19, <1>20, <1>21, Zenon

\* A nonempty set of lengths has a least one.
LEMMA LeastLength ==
    ASSUME FiniteFacts, NEW S, S \subseteq Nat, S # {}
    PROVE  \E x \in S : \A y \in S : x <= y
BY Zenon DEF FiniteFacts, LeastFact

\* The empty ledger restores nothing.
LEMMA NothingRestored == ASSUME NEW E, NEW X PROVE Restored(<<>>, E, X) = Empty
<1>1. DOMAIN <<>> = {}
  OBVIOUS
<1>2. \A T : LeasesOf(<<>>, T) = {}
  BY <1>1, Zenon DEF LeasesOf
<1>3. /\ RestoredNodes(<<>>) = {}
      /\ RestoredAssignments(<<>>, E, X) = {} /\ RestoredClaims(<<>>, E, X) = {}
      /\ Receipted(<<>>) = {}
  BY <1>1, <1>2, Zenon DEF RestoredNodes, RestoredAssignments, RestoredClaims, Receipted, Issued
<1>4. RestoredSets(<<>>) = {}
  BY <1>1, RestoredSetRows, Zenon
<1> QED BY <1>3, <1>4, Zenon DEF Restored, Empty

\* The loop and the definitions agree on every prefix of the ledger: on the
\* empty one, and, by IterationIsEvent, on the least one that is left.
LEMMA ReplayFollows ==
    ASSUME FiniteFacts, NEW L \in Seq(Appended), NEW E, NEW X
    PROVE  Replayed(L, E, X) = Restored(L, E, X)
<1> DEFINE len == Len(L)
           Prefix(n) == SubSeq(L, 1, n)
           Apply(r, n) == ApplyEvent(r, L[n], E, X)
           Fits(f, m) == f = [n \in 0..m |-> IF n = 0 THEN Empty ELSE Apply(f[n - 1], n)]
           after == CHOOSE f : Fits(f, len)
<1>0. Replayed(L, E, X) = after[len]
  BY DEF Replayed
<1>1. len \in Nat
  OBVIOUS
<1>2. ASSUME NEW n \in 1..len
      PROVE  Apply(Restored(Prefix(n - 1), E, X), n) = Restored(Prefix(n), E, X)
  <2>1. /\ Prefix(n - 1) \in Seq(Appended) /\ L[n] \in Appended
        /\ Prefix(n) = Append(Prefix(n - 1), L[n])
    OBVIOUS
  <2> HIDE DEF Prefix
  <2>2. ApplyEvent(Restored(Prefix(n - 1), E, X), L[n], E, X)
          = Restored(Append(Prefix(n - 1), L[n]), E, X)
    BY <2>1, IterationIsEvent
  <2> QED BY <2>1, <2>2, Zenon
<1>6. Prefix(0) = <<>> /\ Prefix(len) = L
  OBVIOUS
<1> HIDE DEF Prefix
<1> HIDE DEF Apply
<1>3. \A m \in Nat : \E f : Fits(f, m)
  <2> DEFINE bad == {m \in Nat : ~ \E f : Fits(f, m)}
  <2>1. SUFFICES bad = {}
    BY Zenon
  <2>2. SUFFICES ASSUME bad # {} PROVE FALSE
    OBVIOUS
  <2>3. PICK m \in bad : \A x \in bad : m <= x
    BY <2>2, LeastLength, Zenon
  <2>4. m # 0
    <3>1. Fits([n \in 0..0 |-> Empty], 0)
      OBVIOUS
    <3> QED BY <2>3, <3>1, Zenon
  <2>5. m - 1 \in Nat /\ m - 1 \notin bad
    <3>1. m \in Nat
      BY Zenon
    <3> HIDE DEF bad
    <3> QED BY <2>3, <2>4, <3>1
  <2>6. PICK f : Fits(f, m - 1)
    BY <2>5, Zenon
  <2> DEFINE g == [n \in 0..m |-> IF n = m THEN Apply(f[m - 1], m) ELSE f[n]]
  <2>7. Fits(g, m)
    <3>1. \A n \in 0..m : g[n] = IF n = 0 THEN Empty ELSE Apply(g[n - 1], n)
      BY <2>4, <2>5, <2>6
    <3> QED BY <3>1, Zenon
  <2> QED BY <2>3, <2>7, Zenon
<1>4. Fits(after, len)
  BY <1>1, <1>3, Zenon
<1> HIDE DEF after
<1>5. \A n \in 0..len : after[n] = Restored(Prefix(n), E, X)
  <2> DEFINE bad == {n \in 0..len : after[n] # Restored(Prefix(n), E, X)}
  <2>1. SUFFICES ASSUME bad # {} PROVE FALSE
    BY Zenon
  <2>2. PICK m \in bad : \A x \in bad : m <= x
    <3>1. bad \subseteq Nat
      OBVIOUS
    <3> HIDE DEF bad
    <3> QED BY <2>1, <3>1, LeastLength, Zenon
  <2>3. m # 0
    <3>1. after[0] = Empty
      BY <1>1, <1>4
    <3>2. after[0] = Restored(Prefix(0), E, X)
      BY <1>6, <3>1, NothingRestored, Zenon
    <3> QED BY <2>2, <3>2, Zenon
  <2>4. m - 1 \in 0..len /\ m - 1 \notin bad /\ m \in 1..len
    <3>1. m \in 0..len
      BY Zenon
    <3>2. m - 1 \in 0..len /\ m \in 1..len /\ ~ (m <= m - 1)
      BY <1>1, <2>3, <3>1
    <3> QED BY <2>2, <3>2, Zenon
  <2>5. after[m] = Apply(after[m - 1], m)
    BY <1>4, <2>3, <2>4, Zenon
  <2> QED BY <1>2, <2>2, <2>4, <2>5, Zenon
<1>7. after[len] = Restored(Prefix(len), E, X)
  BY <1>1, <1>5
<1> QED BY <1>0, <1>6, <1>7, Zenon

\* The loop that a restart would run now on the controller's own ledger.
RestartReplays == Replayed(ledger, dbEpoch, expired) = Restored(ledger, dbEpoch, expired)

\* The controller's handlers append only events with at most one shard set, in
\* the event of its admission.
LEMMA AppendsStep ==
    ASSUME FiniteFacts, AdmitInv, ledger \in Seq(Appended), [Next]_vars
    PROVE  ledger' \in Seq(Appended)
<1>1. Kinds /\ WorkInv
  <2>1. WorkInv /\ IsFiniteSet(reservations)
    BY Zenon DEF AdmitInv, FiniteInv
  <2> QED BY <2>1, StepKinds, Zenon
<1>2. ASSUME NEW e \in Event, e.sets = {} PROVE e \in Appended
  BY <1>2, Zenon DEF Appended
<1>3. ASSUME NEW e \in Event, Issues(e) PROVE e \in Appended
  <2>1. gate.sets \subseteq ShardSets
    BY <1>1, Zenon DEF WorkInv, TypeOK, Gate
  <2>2. CASE e.sets = {}
    BY <1>2, <2>2, Zenon
  <2>3. CASE \E s \in gate.sets : e = SetEvent(s, gate.leases)
    <3>1. PICK s \in gate.sets : e = SetEvent(s, gate.leases)
      BY <2>3, Zenon
    <3>2. e.type = "shard_set.admitted" /\ e.sets = {s} /\ s \in ShardSets
      BY <2>1, <3>1, Zenon DEF SetEvent
    <3> QED BY <3>2, Zenon DEF Appended
  <2> QED BY <1>3, <2>2, <2>3, Zenon DEF Issues
<1>4. CASE \E e \in Event : Issues(e)
  BY <1>3, <1>4 DEF Issues
<1>5. CASE \A e \in Event : ~Issues(e)
  BY <1>1, <1>2, <1>5, NothingNew
<1> QED BY <1>4, <1>5

-----------------------------------------------------------------------------
(***************************************************************************)
(* The facts about finite sets, from the library.                          *)
(***************************************************************************)
Library == INSTANCE FiniteSetTheorems

\* The library's finite sets are those of the modules above.
LEMMA SameFinite == \A S : IsFiniteSet(S) <=> Library!IsFiniteSet(S)
  BY Zenon DEF IsFiniteSet, Library!IsFiniteSet

\* It counts them the same way.
LEMMA SameCount == \A S : Cardinality(S) = Library!Cardinality(S)
  BY Zenon DEF Cardinality, Library!Cardinality

\* The order on the naturals is well founded.
LEMMA NaturalsHaveLeast == LeastFact
<1> SUFFICES ASSUME NEW S \in SUBSET Nat, S # {} PROVE \E x \in S : \A y \in S : x <= y
  BY DEF LeastFact
<1> DEFINE R == Library!OpToRel(<, Nat)
<1>1. Library!IsWellFoundedOn(R, Nat)
  BY Library!NatLessThanWellFounded, Zenon
<1>2. \A x, y \in Nat : <<y, x>> \in R <=> y < x
  BY DEF Library!OpToRel
<1> HIDE DEF R
<1>3. PICK x \in S : \A y \in S : ~ (<<y, x>> \in R)
  BY <1>1, Library!WFMin, Zenon
<1>4. ASSUME NEW y \in S PROVE x <= y
  <2>1. x \in Nat /\ y \in Nat /\ ~ (<<y, x>> \in R)
    BY <1>3
  <2> QED BY <1>2, <2>1
<1> QED BY <1>4, Zenon

\* What the lemmas assume about finite sets holds.
LEMMA FiniteFactsHold == FiniteFacts
<1>1. CountFact
  BY SameFinite, SameCount, Library!FS_CardinalityType, Zenon DEF CountFact
<1>2. EmptyFact
  BY SameFinite, SameCount, Library!FS_EmptySet, Zenon DEF EmptyFact
<1>3. SingletonFact
  BY SameFinite, SameCount, Library!FS_Singleton, Zenon DEF SingletonFact
<1>4. IntervalFact
  BY SameFinite, SameCount, Library!FS_Interval, Zenon DEF IntervalFact
<1>5. SubsetFact
  BY SameFinite, SameCount, Library!FS_Subset, Zenon DEF SubsetFact
<1>6. AddFact
  BY SameFinite, SameCount, Library!FS_AddElement, Zenon DEF AddFact
<1>7. RemoveFact
  BY SameFinite, SameCount, Library!FS_RemoveElement, Zenon DEF RemoveFact
<1>8. UnionFact
  BY SameFinite, SameCount, Library!FS_Union, Zenon DEF UnionFact
<1>9. ProductFact
  BY SameFinite, SameCount, Library!FS_Product, Zenon DEF ProductFact
<1>10. OntoFact
  <2> SUFFICES ASSUME NEW S, NEW T, IsFiniteSet(S), NEW f \in [S -> T],
                      \A t \in T : \E s \in S : f[s] = t
               PROVE  IsFiniteSet(T) /\ Cardinality(T) <= Cardinality(S)
    BY Zenon DEF OntoFact
  <2>1. f \in Library!Surjection(S, T)
    BY DEF Library!Surjection
  <2> QED BY <2>1, SameFinite, SameCount, Library!FS_Surjection, Zenon
<1>11. IntoFact
  <2> SUFFICES ASSUME NEW S, NEW T, IsFiniteSet(T), NEW f \in [S -> T],
                      \A s, t \in S : f[s] = f[t] => s = t
               PROVE  /\ IsFiniteSet(S) /\ Cardinality(S) <= Cardinality(T)
                      /\ Cardinality(S) = Cardinality(T) => \A t \in T : \E s \in S : f[s] = t
    BY DEF IntoFact
  <2>1. f \in Library!Injection(S, T)
    BY DEF Library!Injection, Library!IsInjective
  <2>2. /\ IsFiniteSet(S) /\ Cardinality(S) <= Cardinality(T)
        /\ Cardinality(S) = Cardinality(T) => f \in Library!Surjection(S, T)
    BY <2>1, SameFinite, SameCount, Library!FS_Injection, Zenon
  <2> QED BY <2>2, Zenon DEF Library!Surjection
<1> QED
  BY <1>1, <1>2, <1>3, <1>4, <1>5, <1>6, <1>7, <1>8, <1>9, <1>10, <1>11, NaturalsHaveLeast, Zenon
     DEF FiniteFacts
-----------------------------------------------------------------------------
\* The invariant is inductive.
LEMMA AdmitInit == Init => AdmitInv
BY Installs, FiniteFactsHold, Zenon

\* Every step keeps it.
LEMMA AdmitStep == AdmitInv /\ [Next]_vars => AdmitInv'
BY Steps, FiniteFactsHold

\* A restart brings back every live assignment with its claimed flag, whatever
\* was admitted, claimed, receipted, revoked and fenced before (restore_state).
THEOREM RestartIsFaithful == Spec => []RestartKeepsWork
BY RestartFollows, AdmitInit, AdmitStep, PTL DEF Spec

\* No node holds more outstanding leases than it offered room for, across any
\* number of admissions, expiries, revocations and restarts (submit_job,
\* submit_shard_set, restore_state).
THEOREM NodesAreNotOvercommitted == Spec => []NoOvercommit
<1>1. AdmitInv => NoOvercommit
  BY RoomSuffices, FiniteFactsHold
<1> QED BY <1>1, AdmitInit, AdmitStep, PTL DEF Spec

\* A shard set is not admitted twice under one key unless its first admission was
\* undone by a revocation or its set id was reused (submit_shard_set).
THEOREM SetsAreAdmittedOnce == Spec => []SetAdmittedOnce
<1>1. AdmitInv => SetAdmittedOnce
  BY Zenon DEF AdmitInv
<1> QED BY <1>1, AdmitInit, AdmitStep, PTL DEF Spec

\* With single jobs and a ledger that takes every append, no two outstanding
\* leases share an idempotency key, across restarts, expiries, revocations and
\* STOPs (submit_job, restore_state).
THEOREM KeysLeadToOneLease ==
    ASSUME SingleJobs
    PROVE  Spec => []OneLeasePerKey
<1>1. AdmitInv /\ KeyInv /\ [Next]_vars => KeyInv'
  <2> SUFFICES ASSUME AdmitInv, KeyInv, [Next]_vars PROVE KeyInv'
    OBVIOUS
  <2>1. AdmitInv'
    BY AdmitStep, Zenon
  <2>2. WorkInv /\ IsFiniteSet(reservations)
    BY Zenon DEF AdmitInv, FiniteInv
  <2>3. Kinds
    BY <2>2, StepKinds, FiniteFactsHold, Zenon
  <2> QED BY <2>1, <2>3, KeyStep, Zenon
<1>2. KeyInv => OneLeasePerKey
  BY Zenon DEF KeyInv, OneLeasePerKey, Outstanding
<1> QED BY <1>1, <1>2, KeyStart, AdmitInit, AdmitStep, PTL DEF Spec

\* For every ledger the handlers can append, and every epoch and set of expired
\* leases it is read back with, the loop of restore_state ends with the nodes,
\* assignments, flags, receipts and shard sets of the direct definitions.
THEOREM ReplayIsDirect ==
    ASSUME NEW L \in Seq(Appended), NEW E, NEW X
    PROVE  Replayed(L, E, X) = Restored(L, E, X)
BY ReplayFollows, FiniteFactsHold, Zenon

\* The same as an invariant of the ledger that grows event by event: at every
\* length, restore_state reads back what the direct definitions name.
THEOREM RestoreIsDirect == ReplaySpec => []RestoreIsReplay
<1>1. ReplayInit => log \in Seq(Appended)
  BY DEF ReplayInit
<1>2. log \in Seq(Appended) /\ [\E e \in Feed : Grow(e)]_log => (log \in Seq(Appended))'
  BY FeedAssumption DEF Grow
<1>3. log \in Seq(Appended) => RestoreIsReplay
  BY ReplayIsDirect DEF RestoreIsReplay
<1> QED BY <1>1, <1>2, <1>3, PTL DEF ReplaySpec

\* Whatever the controller has been through, restore_state run on its ledger
\* gives what the restart actions of Controller assign: the state they are
\* defined by is the state the code's loop computes.
THEOREM RestartRunsTheLoop == Spec => []RestartReplays
<1>1. Init => ledger \in Seq(Appended)
  BY DEF Init
<1>2. ledger \in Seq(Appended) => RestartReplays
  BY ReplayIsDirect DEF RestartReplays
<1>3. AdmitInv /\ ledger \in Seq(Appended) /\ [Next]_vars => (ledger \in Seq(Appended))'
  BY AppendsStep, FiniteFactsHold
<1> QED BY <1>1, <1>2, <1>3, AdmitInit, AdmitStep, PTL DEF Spec
=============================================================================
