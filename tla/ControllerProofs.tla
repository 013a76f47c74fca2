-------------------------- MODULE ControllerProofs --------------------------
(***************************************************************************)
(* Proofs about Controller, for every set of nodes, jobs and shard sets    *)
(* and every value of the bounds.                                          *)
(***************************************************************************)
EXTENDS Controller, TLAPS

-----------------------------------------------------------------------------
(***************************************************************************)
(* The events of the model and the sequences that hold them.               *)
(***************************************************************************)
\* Every event an action appends is an event of the ledger (Ledger::append).
LEMMA EventTypes ==
    /\ \A t \in EventType, S \in SUBSET Lease : LeaseEvent(t, S) \in Event
    /\ \A s \in ShardSets, S \in SUBSET Lease : SetEvent(s, S) \in Event
    /\ \A t \in EventType, n \in Nodes : NodeEvent(t, n) \in Event
    /\ \A t \in EventType : PlainEvent(t) \in Event
BY DEF Event, LeaseEvent, SetEvent, NodeEvent, PlainEvent, EventType

\* Appending keeps the rows already there and adds one (Ledger::append).
LEMMA AppendRows ==
    ASSUME NEW L \in Seq(Event), NEW e \in Event
    PROVE  /\ Append(L, e) \in Seq(Event)
           /\ Len(Append(L, e)) = Len(L) + 1
           /\ DOMAIN Append(L, e) = 1 .. (Len(L) + 1)
           /\ DOMAIN L = 1 .. Len(L)
           /\ \A i \in 1 .. Len(L) : Append(L, e)[i] = L[i]
           /\ Append(L, e)[Len(L) + 1] = e
           /\ Len(L) \in Nat
OBVIOUS

\* The leases named by events of some types, after one more event.
LEMMA LeasesOfAppend ==
    ASSUME NEW L \in Seq(Event), NEW e \in Event, NEW T
    PROVE  LeasesOf(Append(L, e), T) =
             IF e.type \in T THEN LeasesOf(L, T) \cup e.leases ELSE LeasesOf(L, T)
<1> DEFINE M == Append(L, e)
<1>1. /\ DOMAIN M = 1 .. (Len(L) + 1) /\ DOMAIN L = 1 .. Len(L) /\ Len(L) \in Nat
      /\ \A i \in 1 .. Len(L) : M[i] = L[i]
      /\ M[Len(L) + 1] = e
  BY AppendRows
<1> HIDE DEF M
<1>2. \A l : l \in LeasesOf(M, T) <=>
              \E i \in DOMAIN M : M[i].type \in T /\ l \in M[i].leases
  BY DEF LeasesOf
<1>3. \A l : l \in LeasesOf(L, T) <=>
              \E i \in DOMAIN L : L[i].type \in T /\ l \in L[i].leases
  BY DEF LeasesOf
<1>4. \A i \in 1 .. (Len(L) + 1) : i \in 1 .. Len(L) \/ i = Len(L) + 1
  BY <1>1
<1>5. \A i \in 1 .. Len(L) : i \in 1 .. (Len(L) + 1)
  BY <1>1
<1>6. Len(L) + 1 \in 1 .. (Len(L) + 1)
  BY <1>1
<1>7. \A l : l \in LeasesOf(M, T) <=>
              l \in LeasesOf(L, T) \/ (e.type \in T /\ l \in e.leases)
  BY <1>1, <1>2, <1>3, <1>4, <1>5, <1>6
<1> QED
  BY <1>7, Zenon DEF M

\* What restore_state reads back has the types of the tables it fills.
LEMMA RestoredTypes ==
    ASSUME NEW L \in Seq(Event), NEW E, NEW X
    PROVE  /\ \A T : LeasesOf(L, T) \subseteq Lease
           /\ RestoredAssignments(L, E, X) \subseteq Issued(L)
           /\ RestoredClaims(L, E, X) \subseteq RestoredAssignments(L, E, X)
           /\ RestoredNodes(L) \subseteq Nodes
           /\ RestoredSets(L) \subseteq SetRecord
<1>0. \A i \in DOMAIN L : L[i] \in Event
  OBVIOUS
<1>1. \A i \in DOMAIN L : /\ L[i].leases \subseteq Lease
                          /\ L[i].sets \subseteq ShardSets
  BY <1>0 DEF Event
<1>2. \A T : LeasesOf(L, T) \subseteq Lease
  BY <1>1, Zenon DEF LeasesOf
<1>3. /\ RestoredAssignments(L, E, X) \subseteq Issued(L)
      /\ RestoredClaims(L, E, X) \subseteq RestoredAssignments(L, E, X)
      /\ RestoredNodes(L) \subseteq Nodes
  BY Zenon DEF RestoredAssignments, RestoredClaims, RestoredNodes
<1>4. RestoredSets(L) \subseteq SetRecord
  BY <1>1 DEF RestoredSets, SetRecord
<1> QED BY <1>2, <1>3, <1>4, Zenon

\* The rebuilt key map names jobs of the restored assignments.
LEMMA RestoredKeyTypes ==
    ASSUME NEW A \in SUBSET Lease, NEW I \in RestoredKeys(A)
    PROVE  I \subseteq JobSpec
BY JobsAssumption DEF RestoredKeys, Lease

\* A logged event extends the ledger.
LEMMA LogType ==
    ASSUME ledger \in Seq(Event), NEW e \in Event, Log(e)
    PROVE  ledger' \in Seq(Event) /\ ledger' = Append(ledger, e)
BY DEF Log

-----------------------------------------------------------------------------
\* A new installation has the right types.
LEMMA TypeInit == Init => TypeOK
BY DEF Init, TypeOK, Free, Held, Gate, Op

\* Every step keeps the types.
LEMMA TypeStep == TypeOK /\ [Next]_vars => TypeOK'
<1> SUFFICES ASSUME TypeOK, [Next]_vars PROVE TypeOK'
  BY Zenon
<1> USE DEF TypeOK, durable, tables, calls, world
<1>1. CASE TrayLatch
  BY <1>1 DEF TrayLatch
<1>2. CASE StopLatch
  BY <1>2 DEF StopLatch, Held, Gate, Op
<1>3. CASE StopAdvance
  BY <1>3, EventTypes, LogType DEF StopAdvance, AdvanceEpoch, Held, Gate, Op, EventType
<1>4. CASE StopMark
  BY <1>4, Zenon DEF StopMark, Held, Gate, Op
<1>5. CASE StopFinish
  BY <1>5, EventTypes, LogType, Zenon DEF StopFinish, Free, Held, Gate, Op, EventType
<1>6. CASE StopAborts
  BY <1>6 DEF StopAborts, TornMarker, Free, Held, Gate, Op
<1>7. CASE ResumeUnmark
  BY <1>7, Zenon DEF ResumeUnmark, Held, Gate, Op
<1>8. CASE ResumeUnlatch
  BY <1>8, EventTypes, LogType, Zenon DEF ResumeUnlatch, Free, Held, Gate, Op, EventType
<1>9. CASE ResumeAborts
  BY <1>9, Zenon DEF ResumeAborts, Free, Held, Gate, Op
<1>10. CASE Crash
  BY <1>10 DEF Crash, TornMarker, Quiet, Free, Held, Gate, Op
<1>11. CASE BootOpen
  BY <1>11, EventTypes, LogType DEF BootOpen, AdvanceEpoch, EventType
<1>12. CASE BootFence
  BY <1>12, EventTypes, LogType DEF BootFence, AdvanceEpoch, EventType
<1>13. ASSUME Restore PROVE
         /\ phase' \in {"down", "opened", "fenced", "serving"} /\ epoch' \in Nat
         /\ nodes' \subseteq Nodes /\ offers' \subseteq Nodes
         /\ assignments' \subseteq Lease /\ claimed' \subseteq Lease
         /\ idempotency' \subseteq JobSpec /\ reservations' \subseteq Lease
         /\ completed' \subseteq Lease /\ shardSets' \subseteq SetRecord
  <2> DEFINE A == RestoredAssignments(ledger, dbEpoch, expired)
  <2>1. /\ A \subseteq Lease /\ RestoredClaims(ledger, dbEpoch, expired) \subseteq Lease
        /\ RestoredNodes(ledger) \subseteq Nodes /\ Receipted(ledger) \subseteq Lease
        /\ RestoredSets(ledger) \subseteq SetRecord
    BY RestoredTypes, Zenon DEF Issued, Receipted
  <2>2. idempotency' \subseteq JobSpec
    BY <2>1, <1>13, RestoredKeyTypes, Zenon DEF Restore
  <2> QED BY <1>13, <2>1, <2>2, Zenon DEF Restore
<1>14. CASE BootRestore
  BY <1>13, <1>14, Zenon DEF BootRestore
<1>15. CASE BootMark
  BY <1>13, <1>15, Zenon DEF BootMark
<1>16. ASSUME NEW n \in Nodes, EnrollInsert(n) PROVE TypeOK'
  BY <1>16, Zenon DEF EnrollInsert
<1>17. ASSUME NEW n \in Nodes, EnrollRecord(n) PROVE TypeOK'
  BY <1>17, EventTypes, LogType, Zenon DEF EnrollRecord, EventType
<1>18. ASSUME NEW n \in Nodes, EnrollRecordFails(n) PROVE TypeOK'
  BY <1>18, Zenon DEF EnrollRecordFails
<1>19. ASSUME NEW n \in Nodes, RegisterCheck(n) PROVE TypeOK'
  BY <1>19, Zenon DEF RegisterCheck
<1>20. ASSUME NEW n \in Nodes, RegisterInsert(n) PROVE TypeOK'
  BY <1>20, Zenon DEF RegisterInsert
<1>21. ASSUME NEW n \in Nodes, OfferExpires(n) PROVE TypeOK'
  BY <1>21, Zenon DEF OfferExpires
<1>22. ASSUME NEW n \in Nodes, RevokeNode(n) PROVE TypeOK'
  BY <1>22, EventTypes, LogType, Zenon DEF RevokeNode, EventType
<1>23. ASSUME NEW j \in Jobs, SubmitCheck(j) \/ SubmitAnswer(j) PROVE TypeOK'
  BY <1>23, Zenon DEF SubmitCheck, SubmitAnswer
<1>24. ASSUME NEW j \in Jobs, NEW n \in Nodes, SubmitAuthorize(j, n) PROVE TypeOK'
  BY SMTT(60), <1>24 DEF SubmitAuthorize, Held, Gate, Op, Lease
<1>25. ASSUME NEW s \in ShardSets, SetCheck(s) \/ SetAnswer(s) PROVE TypeOK'
  BY <1>25 DEF SetCheck, SetAnswer
<1>26. ASSUME NEW s \in ShardSets, NEW place \in [s.jobs -> offers], SetPlan(s, place)
       PROVE  TypeOK'
  <2>1. s.jobs \subseteq Jobs
    BY ShardSetsAssumption, Zenon DEF ShardSetSpec
  <2>2. {[batch |-> batches, job |-> j, node |-> place[j], epoch |-> epoch] : j \in s.jobs}
          \subseteq Lease
    BY SMTT(30), <2>1 DEF Lease
  <2> QED BY <1>26, <2>2 DEF SetPlan, Held, Gate, Op
<1>27. ASSUME NEW S \in SUBSET Lease, Publish(S)
       PROVE  /\ assignments' \subseteq Lease /\ claimed' \subseteq Lease
              /\ idempotency' \subseteq JobSpec /\ reservations' \subseteq Lease
  <2>1. {l.job : l \in S} \subseteq JobSpec
    BY JobsAssumption, Zenon DEF Lease
  <2> QED BY <1>27, <2>1, Zenon DEF Publish
<1>28. gate.leases \subseteq Lease /\ gate.sets \subseteq ShardSets
  BY Zenon DEF Gate
<1>29. CASE SubmitPublish
  <2>1. LeaseEvent("lease.issued", gate.leases) \in Event
    BY <1>28, EventTypes, Zenon DEF EventType
  <2>2. ledger' \in Seq(Event)
    BY <1>29, <2>1, LogType, Zenon DEF SubmitPublish
  <2>3. Free \in Gate
    BY Zenon DEF Free, Held, Gate, Op
  <2> QED BY <1>27, <1>28, <1>29, <2>2, <2>3, Zenon DEF SubmitPublish
<1>30. CASE SetPublish
  <2> DEFINE signed == {[l EXCEPT !.epoch = epoch] : l \in gate.leases}
  <2>1. signed \subseteq Lease
    BY <1>28, Zenon DEF Lease
  <2> HIDE DEF signed
  <2>2. PICK s \in gate.sets :
          /\ Log(SetEvent(s, signed))
          /\ shardSets' = {r \in shardSets : r.spec.id # s.id}
                          \cup {[spec |-> s, leases |-> signed]}
    BY <1>30, Zenon DEF SetPublish, signed
  <2>3. s \in ShardSets
    BY <1>28, Zenon
  <2>4. ledger' \in Seq(Event)
    BY <2>1, <2>2, <2>3, EventTypes, LogType, Zenon
  <2>5. shardSets' \subseteq SetRecord
    BY <2>1, <2>2, <2>3 DEF SetRecord
  <2>6. Publish(signed)
    BY <1>30, Zenon DEF SetPublish, signed
  <2>7. Free \in Gate
    BY Zenon DEF Free, Held, Gate, Op
  <2> QED BY <1>27, <1>30, <2>1, <2>4, <2>5, <2>6, <2>7, Zenon DEF SetPublish
<1>31. CASE StageFails
  BY <1>31, Zenon DEF StageFails, Free, Held, Gate, Op
<1>32. ASSUME NEW n \in Nodes, NEW l \in assignments, ClaimWork(n, l) PROVE TypeOK'
  BY <1>32, EventTypes, LogType, Zenon DEF ClaimWork, ClaimNext, EventType
<1>33. ASSUME NEW n \in Nodes, NEW l \in assignments, ClaimWorkFails(n, l) PROVE TypeOK'
  BY <1>33, Zenon DEF ClaimWorkFails, ClaimNext
<1>34. \A T : LeasesOf(ledger, T) \subseteq Lease
  BY RestoredTypes, Zenon
<1>35. ASSUME NEW l \in Claimed(ledger), Execute(l) PROVE TypeOK'
  BY <1>34, <1>35, Zenon DEF Execute, Claimed
<1>36. ASSUME NEW l \in executed, SubmitReceipt(l) PROVE TypeOK'
  BY <1>36, EventTypes, LogType, Zenon DEF SubmitReceipt, AcceptReceipt, EventType, Held, Gate, Op
<1>37. ASSUME NEW l \in executed, SubmitReceiptFails(l) PROVE TypeOK'
  BY <1>37, Zenon DEF SubmitReceiptFails, AcceptReceipt
<1>38. CASE RecordOutput
  BY <1>28, <1>38, EventTypes, LogType, Zenon DEF RecordOutput, EventType, Free, Held, Gate, Op
<1>39. CASE RecordOutputFails
  BY <1>39, Zenon DEF RecordOutputFails, Free, Held, Gate, Op
<1>40. ASSUME NEW l \in Issued(ledger), LeaseExpires(l) PROVE TypeOK'
  BY <1>34, <1>40, Zenon DEF LeaseExpires, Issued
<1>41. CASE UNCHANGED vars
  BY <1>41, Zenon DEF vars
<1>42. CASE StopNext
  BY <1>1, <1>2, <1>3, <1>4, <1>5, <1>6, <1>7, <1>8, <1>9, <1>42, Zenon DEF StopNext
<1>43. CASE BootNext
  BY <1>10, <1>11, <1>12, <1>14, <1>15, <1>43, Zenon DEF BootNext
<1>44. CASE NodeNext
  BY <1>16, <1>17, <1>18, <1>19, <1>20, <1>21, <1>22, <1>44, BoundsAssumption, Zenon DEF NodeNext
<1>45. CASE AdmitNext
  BY <1>23, <1>24, <1>25, <1>26, <1>29, <1>30, <1>31, <1>45, Zenon DEF AdmitNext
<1>46. CASE WorkNext
  BY <1>32, <1>33, <1>35, <1>36, <1>37, <1>38, <1>39, <1>40, <1>46, Zenon DEF WorkNext
<1> QED BY <1>41, <1>42, <1>43, <1>44, <1>45, <1>46, Zenon DEF Next

\* The variables of the controller keep their types in every behaviour.
THEOREM TypeCorrect == Spec => []TypeOK
BY TypeInit, TypeStep, PTL DEF Spec

-----------------------------------------------------------------------------
(***************************************************************************)
(* The inductive invariant.                                                *)
(***************************************************************************)
\* A serving process works with the stored epoch, only a serving process
\* holds the gate, and leases being staged are the newest admission.
GateInv ==
    /\ phase # "down" => dbEpoch > 0
    /\ Serving => epoch = dbEpoch
    /\ gate.op # "free" => Serving
    /\ gate.op \in {"job", "set"} =>
         \A l \in gate.leases : l.epoch = epoch /\ l.batch + 1 = batches
    /\ gate.op = "output" => gate.leases \subseteq Receipted(ledger)

\* Lease events are those of the four kinds; a lease passes through them in
\* order, and is older than the next admission and no newer than the epoch.
LedgerInv ==
    /\ \A i \in DOMAIN ledger :
        ledger[i].leases # {} =>
            ledger[i].type \in IssueType \cup {"job.claimed", "job.receipted",
                                               "artifact.output.recorded"}
    /\ \A l \in Issued(ledger) : l.epoch <= dbEpoch /\ l.batch < batches
    /\ gate.op \in {"job", "set"} => \A l \in Issued(ledger) : l.batch + 1 < batches
    /\ dbEpoch = 0 => Issued(ledger) = {}
    /\ Claimed(ledger) \subseteq Issued(ledger)
    /\ Receipted(ledger) \subseteq Claimed(ledger)
    /\ Recorded(ledger) \subseteq Receipted(ledger)
    /\ executed \subseteq Claimed(ledger)

\* The assignment table holds issued leases without receipt, and flags those
\* the ledger has a claim for.
TableInv ==
    /\ assignments \subseteq Issued(ledger)
    /\ claimed \subseteq assignments
    /\ \A l \in assignments : l \in Claimed(ledger) => l \in claimed
    /\ \A l \in assignments : l \notin Receipted(ledger)

WorkInv == TypeOK /\ GateInv /\ LedgerInv /\ SingleUse /\ TableInv

-----------------------------------------------------------------------------
(***************************************************************************)
(* Lemmas on ledgers that satisfy the invariant.                           *)
(***************************************************************************)
\* Membership in the sets of leases, row by row.
LEMMA LeasesOfRows ==
    ASSUME NEW L, NEW T, NEW l
    PROVE  l \in LeasesOf(L, T) <=> \E i \in DOMAIN L : L[i].type \in T /\ l \in L[i].leases
BY Zenon DEF LeasesOf

\* An event without leases leaves the sets of leases as they were.
LEMMA PlainAppend ==
    ASSUME ledger \in Seq(Event), NEW e \in Event, e.leases = {},
           ledger' = Append(ledger, e)
    PROVE  /\ Issued(ledger') = Issued(ledger)
           /\ Claimed(ledger') = Claimed(ledger)
           /\ Receipted(ledger') = Receipted(ledger)
           /\ Recorded(ledger') = Recorded(ledger)
<1>1. ASSUME NEW T PROVE LeasesOf(ledger', T) = LeasesOf(ledger, T)
  <2>1. LeasesOf(Append(ledger, e), T) =
          IF e.type \in T THEN LeasesOf(ledger, T) \cup e.leases ELSE LeasesOf(ledger, T)
    BY LeasesOfAppend, Zenon
  <2> QED BY <2>1
<1> QED BY <1>1, Zenon DEF Issued, Claimed, Receipted, Recorded

\* A lease named by some row was issued, and is in the set of that row's kind.
LEMMA LeaseRow ==
    ASSUME LedgerInv, NEW i \in DOMAIN ledger, NEW l \in ledger[i].leases
    PROVE  /\ l \in Issued(ledger)
           /\ \/ ledger[i].type \in IssueType
              \/ ledger[i].type = "job.claimed" /\ l \in Claimed(ledger)
              \/ ledger[i].type = "job.receipted" /\ l \in Receipted(ledger)
              \/ ledger[i].type = "artifact.output.recorded" /\ l \in Recorded(ledger)
<1>1. ledger[i].type \in IssueType \cup {"job.claimed", "job.receipted",
                                         "artifact.output.recorded"}
  BY Zenon DEF LedgerInv
<1>2. /\ ledger[i].type \in IssueType => l \in Issued(ledger)
      /\ ledger[i].type = "job.claimed" => l \in Claimed(ledger)
      /\ ledger[i].type = "job.receipted" => l \in Receipted(ledger)
      /\ ledger[i].type = "artifact.output.recorded" => l \in Recorded(ledger)
  BY LeasesOfRows, Zenon DEF Issued, Claimed, Receipted, Recorded
<1> QED BY <1>1, <1>2 DEF LedgerInv

\* SingleUse survives a new row that follows every row sharing a lease with it.
LEMMA SingleUseAppend ==
    ASSUME ledger \in Seq(Event), SingleUse, NEW e \in Event,
           ledger' = Append(ledger, e),
           \A i \in DOMAIN ledger : ledger[i].leases \cap e.leases # {} =>
               Follows(ledger[i].type, e.type)
    PROVE  SingleUse'
<1>1. /\ DOMAIN ledger' = 1 .. (Len(ledger) + 1) /\ DOMAIN ledger = 1 .. Len(ledger)
      /\ \A i \in 1 .. Len(ledger) : ledger'[i] = ledger[i]
      /\ ledger'[Len(ledger) + 1] = e /\ Len(ledger) \in Nat
  BY AppendRows, Zenon
<1> SUFFICES ASSUME NEW i \in DOMAIN ledger', NEW k \in DOMAIN ledger', i < k,
                    ledger'[i].leases \cap ledger'[k].leases # {}
             PROVE  Follows(ledger'[i].type, ledger'[k].type)
  BY Zenon DEF SingleUse
<1>2. i \in 1 .. Len(ledger) /\ ledger'[i] = ledger[i]
  BY <1>1
<1>3. CASE k \in 1 .. Len(ledger)
  <2>1. i \in DOMAIN ledger /\ k \in DOMAIN ledger /\ ledger'[k] = ledger[k]
    BY <1>1, <1>2, <1>3, Zenon
  <2>2. Follows(ledger[i].type, ledger[k].type)
    BY <2>1, <1>2, Zenon DEF SingleUse
  <2> QED BY <2>1, <2>2, <1>2, Zenon
<1>4. CASE k = Len(ledger) + 1
  <2>1. ledger'[k] = e /\ i \in DOMAIN ledger
    BY <1>1, <1>2, <1>4, Zenon
  <2> QED BY <2>1, <1>2, Zenon
<1> QED BY <1>1, <1>3, <1>4

\* The first conjunct of LedgerInv survives a row of the right kind.
LEMMA LeaseKindsAppend ==
    ASSUME ledger \in Seq(Event), LedgerInv, NEW e \in Event,
           ledger' = Append(ledger, e),
           e.leases # {} => e.type \in IssueType \cup {"job.claimed", "job.receipted",
                                                       "artifact.output.recorded"}
    PROVE  \A i \in DOMAIN ledger' : ledger'[i].leases # {} =>
             ledger'[i].type \in IssueType \cup {"job.claimed", "job.receipted",
                                                 "artifact.output.recorded"}
<1>1. /\ DOMAIN ledger' = 1 .. (Len(ledger) + 1) /\ DOMAIN ledger = 1 .. Len(ledger)
      /\ \A i \in 1 .. Len(ledger) : ledger'[i] = ledger[i]
      /\ ledger'[Len(ledger) + 1] = e /\ Len(ledger) \in Nat
  BY AppendRows
<1>2. \A i \in DOMAIN ledger' : i \in DOMAIN ledger \/ i = Len(ledger) + 1
  BY <1>1
<1> QED BY <1>1, <1>2 DEF LedgerInv

\* A row without leases keeps what the invariant says of the ledger.
LEMMA PlainRow ==
    ASSUME WorkInv, NEW e \in Event, e.leases = {}, ledger' = Append(ledger, e),
           dbEpoch' \in {dbEpoch, dbEpoch + 1}, UNCHANGED <<batches, executed>>,
           gate' = gate \/ gate'.op \notin {"job", "set"}
    PROVE  /\ LedgerInv' /\ SingleUse'
           /\ Issued(ledger') = Issued(ledger) /\ Claimed(ledger') = Claimed(ledger)
           /\ Receipted(ledger') = Receipted(ledger)
<1>1. ledger \in Seq(Event) /\ dbEpoch \in Nat /\ batches \in Nat
  BY Zenon DEF WorkInv, TypeOK
<1>2. /\ Issued(ledger') = Issued(ledger) /\ Claimed(ledger') = Claimed(ledger)
      /\ Receipted(ledger') = Receipted(ledger) /\ Recorded(ledger') = Recorded(ledger)
  BY <1>1, PlainAppend, Zenon
<1>3. SingleUse'
  BY <1>1, SingleUseAppend, Zenon DEF WorkInv
<1>4. \A i \in DOMAIN ledger' : ledger'[i].leases # {} =>
             ledger'[i].type \in IssueType \cup {"job.claimed", "job.receipted",
                                                 "artifact.output.recorded"}
  BY <1>1, LeaseKindsAppend, Zenon DEF WorkInv
<1>5. Issued(ledger) \subseteq Lease
  BY <1>1, RestoredTypes, Zenon DEF Issued
<1>6. \A l \in Issued(ledger') : l.epoch <= dbEpoch' /\ l.batch < batches'
  BY <1>1, <1>2, <1>5 DEF WorkInv, LedgerInv, Lease
<1>7. LedgerInv'
  BY SMTT(30), <1>1, <1>2, <1>4, <1>6 DEF WorkInv, LedgerInv
<1> QED BY <1>2, <1>3, <1>7, Zenon

\* A step that touches neither ledger, epoch, gate nor assignments.
LEMMA IdleStep ==
    ASSUME WorkInv, TypeOK',
           UNCHANGED <<ledger, dbEpoch, phase, epoch, assignments, claimed, gate,
                       batches, executed>>
    PROVE  WorkInv'
BY Zenon DEF WorkInv, GateInv, LedgerInv, SingleUse, TableInv, Serving

\* STOP and RESUME keep WorkInv.
LEMMA WorkStop ==
    ASSUME WorkInv, TypeOK', StopNext
    PROVE  WorkInv'
<1> USE DEF durable, tables, calls, world
<1>1. CASE TrayLatch
  BY <1>1, IdleStep, Zenon DEF TrayLatch
<1>2. CASE StopLatch \/ StopMark \/ StopAborts \/ ResumeUnmark \/ ResumeAborts
  <2>1. /\ UNCHANGED <<ledger, dbEpoch, phase, epoch, assignments, claimed, batches, executed>>
        /\ gate'.op \in {"free", "stop", "stopped", "resume"}
        /\ Serving
    <3>1. /\ UNCHANGED <<ledger, dbEpoch, phase, epoch, assignments, claimed, batches, executed>>
          /\ Serving \/ gate.op \in {"stop", "mark", "stopped", "resume"}
      BY <1>2, Zenon DEF StopLatch, StopMark, StopAborts, ResumeUnmark, ResumeAborts, Enters
    <3>2. gate'.op \in {"free", "stop", "stopped", "resume"}
      <4>1. gate' \in {Held("stop", {}, {}), Held("stopped", {}, {}), Held("resume", {}, {}), Free}
        BY <1>2, Zenon DEF StopLatch, StopMark, StopAborts, ResumeUnmark, ResumeAborts
      <4> QED BY <4>1 DEF Held, Free
    <3>3. gate.op # "free" => Serving
      BY Zenon DEF WorkInv, GateInv
    <3> QED BY <3>1, <3>2, <3>3, Zenon
  <2> QED BY <2>1, Zenon DEF WorkInv, GateInv, LedgerInv, SingleUse, TableInv, Serving
<1>3. CASE StopAdvance
  <2>1. /\ ledger' = Append(ledger, PlainEvent("authority.epoch.advanced"))
        /\ dbEpoch' = dbEpoch + 1 /\ epoch' = dbEpoch + 1 /\ gate'.op = "mark"
        /\ UNCHANGED <<phase, assignments, claimed, batches, executed>>
        /\ Serving
    BY <1>3, Zenon DEF StopAdvance, AdvanceEpoch, Log, Held, WorkInv, GateInv
  <2>2. /\ PlainEvent("authority.epoch.advanced") \in Event
        /\ PlainEvent("authority.epoch.advanced").leases = {}
    BY EventTypes, Zenon DEF EventType, PlainEvent
  <2>3. /\ LedgerInv' /\ SingleUse'
        /\ Issued(ledger') = Issued(ledger) /\ Claimed(ledger') = Claimed(ledger)
        /\ Receipted(ledger') = Receipted(ledger)
    BY <2>1, <2>2, PlainRow, ZenonT(30)
  <2>4. GateInv' /\ TableInv'
    <3>1. dbEpoch \in Nat
      BY Zenon DEF WorkInv, TypeOK
    <3>2. dbEpoch' > 0
      BY <2>1, <3>1
    <3>3. epoch' = dbEpoch'
      BY <2>1, Zenon
    <3>4. GateInv'
      BY <2>1, <3>2, <3>3, Zenon DEF GateInv, Serving
    <3>5. TableInv'
      BY <2>1, <2>3, Zenon DEF WorkInv, TableInv
    <3> QED BY <3>4, <3>5, Zenon
  <2> QED BY <2>3, <2>4, Zenon DEF WorkInv
<1>4. CASE StopFinish \/ ResumeUnlatch
  <2>1. PICK e \in Event :
          /\ e.leases = {} /\ ledger' = Append(ledger, e) /\ gate'.op = "free"
          /\ UNCHANGED <<dbEpoch, phase, epoch, assignments, claimed, batches, executed>>
    <3>1. /\ PlainEvent("fabric.owner_stop") \in Event
          /\ PlainEvent("fabric.owner_resume") \in Event
          /\ PlainEvent("fabric.owner_stop").leases = {}
          /\ PlainEvent("fabric.owner_resume").leases = {}
      BY EventTypes, Zenon DEF EventType, PlainEvent
    <3>2. CASE StopFinish
      BY <3>1, <3>2, Zenon DEF StopFinish, Log, Free, Held
    <3>3. CASE ResumeUnlatch
      BY <3>1, <3>3, Zenon DEF ResumeUnlatch, Log, Free, Held
    <3> QED BY <1>4, <3>2, <3>3, Zenon
  <2>2. /\ LedgerInv' /\ SingleUse'
        /\ Issued(ledger') = Issued(ledger) /\ Claimed(ledger') = Claimed(ledger)
        /\ Receipted(ledger') = Receipted(ledger)
    BY <2>1, PlainRow, Zenon
  <2>3. GateInv' /\ TableInv'
    BY <2>1, <2>2, Zenon DEF WorkInv, GateInv, TableInv, Serving
  <2> QED BY <2>2, <2>3, Zenon DEF WorkInv
<1> QED BY <1>1, <1>2, <1>3, <1>4, Zenon DEF StopNext

\* A lease that survives the replay has no receipt, and its claims follow the
\* row that issues it, so the restored flag is the ledger's (restore_state).
LEMMA RestoredWork ==
    ASSUME WorkInv, NEW l \in RestoredAssignments(ledger, dbEpoch, expired)
    PROVE  /\ l \in Issued(ledger)
           /\ l \notin Receipted(ledger)
           /\ l \in Claimed(ledger) => l \in RestoredClaims(ledger, dbEpoch, expired)
<1>0. ledger \in Seq(Event)
  BY Zenon DEF WorkInv, TypeOK
<1>1. l \in Issued(ledger)
  BY Zenon DEF RestoredAssignments
<1>2. PICK i \in DOMAIN ledger : SurvivesReplay(ledger, i, l, dbEpoch, expired)
  BY Zenon DEF RestoredAssignments
<1>3. ledger[i].type \in IssueType /\ l \in ledger[i].leases
  BY <1>2, Zenon DEF SurvivesReplay
<1>4. DOMAIN ledger = 1 .. Len(ledger) /\ Len(ledger) \in Nat
  BY <1>0
<1>5. ASSUME NEW k \in DOMAIN ledger, l \in ledger[k].leases,
             ledger[k].type \in {"job.claimed", "job.receipted"}
      PROVE  k \in (i + 1) .. Len(ledger) /\ NamesJob(ledger[k], l.job.id)
  <2>1. k # i
    BY <1>3, <1>5, Zenon DEF IssueType
  <2>2. ~(k < i)
    <3>1. ledger[k].leases \cap ledger[i].leases # {}
      BY <1>3, <1>5, Zenon
    <3>2. ~Follows(ledger[k].type, ledger[i].type)
      BY <1>3, <1>5, Zenon DEF Follows, IssueType
    <3> QED BY <3>1, <3>2, Zenon DEF WorkInv, SingleUse
  <2>3. NamesJob(ledger[k], l.job.id)
    BY <1>5, Zenon DEF NamesJob
  <2> QED BY <1>4, <2>1, <2>2, <2>3
<1>6. l \notin Receipted(ledger)
  <2> SUFFICES ASSUME l \in Receipted(ledger) PROVE FALSE
    BY Zenon
  <2>1. PICK k \in DOMAIN ledger : ledger[k].type = "job.receipted" /\ l \in ledger[k].leases
    BY LeasesOfRows DEF Receipted
  <2>2. k \in (i + 1) .. Len(ledger) /\ NamesJob(ledger[k], l.job.id)
    BY <1>5, <2>1, Zenon
  <2> QED BY <1>2, <2>1, <2>2, Zenon DEF SurvivesReplay
<1>7. ASSUME l \in Claimed(ledger)
      PROVE  l \in RestoredClaims(ledger, dbEpoch, expired)
  <2>1. PICK k \in DOMAIN ledger : ledger[k].type = "job.claimed" /\ l \in ledger[k].leases
    BY <1>7, LeasesOfRows DEF Claimed
  <2>2. k \in (i + 1) .. Len(ledger) /\ NamesJob(ledger[k], l.job.id)
    BY <1>5, <2>1, Zenon
  <2> QED BY <1>1, <1>2, <2>1, <2>2, Zenon DEF RestoredClaims
<1> QED BY <1>1, <1>6, <1>7, Zenon

\* Crash and startup keep WorkInv.
LEMMA WorkBoot ==
    ASSUME WorkInv, TypeOK', BootNext
    PROVE  WorkInv'
<1> USE DEF durable, tables, calls, world
<1>1. CASE Crash
  <2>1. /\ UNCHANGED <<ledger, dbEpoch, batches, executed>> /\ phase' = "down"
        /\ gate'.op = "free" /\ assignments' = {} /\ claimed' = {}
    BY <1>1, Zenon DEF Crash, Quiet, Free, Held
  <2> QED BY <2>1, Zenon DEF WorkInv, GateInv, LedgerInv, SingleUse, TableInv, Serving
<1>2. CASE BootOpen \/ BootFence
  <2>1. /\ UNCHANGED <<epoch, assignments, claimed, gate, batches, executed>>
        /\ phase' \in {"opened", "fenced"} /\ phase \in {"down", "opened"}
        /\ dbEpoch' > 0
    <3>1. /\ UNCHANGED <<epoch, assignments, claimed, gate, batches, executed>>
          /\ phase' \in {"opened", "fenced"} /\ phase \in {"down", "opened"}
          /\ dbEpoch' = dbEpoch + 1 \/ dbEpoch' = dbEpoch
          /\ dbEpoch' = dbEpoch => dbEpoch # 0 \/ AdvanceEpoch
      BY <1>2, Zenon DEF BootOpen, BootFence, AdvanceEpoch
    <3>2. dbEpoch \in Nat
      BY Zenon DEF WorkInv, TypeOK
    <3>3. AdvanceEpoch => dbEpoch' = dbEpoch + 1
      BY Zenon DEF AdvanceEpoch
    <3>4. dbEpoch' > 0
      BY <3>1, <3>2, <3>3
    <3> QED BY <3>1, <3>4, Zenon
  <2>2. CASE UNCHANGED <<ledger, dbEpoch>>
    BY <2>1, <2>2, Zenon DEF WorkInv, GateInv, LedgerInv, SingleUse, TableInv, Serving
  <2>3. CASE AdvanceEpoch
    <3>1. /\ PlainEvent("authority.epoch.advanced") \in Event
          /\ PlainEvent("authority.epoch.advanced").leases = {}
      BY EventTypes DEF EventType, PlainEvent
    <3>2. /\ LedgerInv' /\ SingleUse'
          /\ Issued(ledger') = Issued(ledger) /\ Claimed(ledger') = Claimed(ledger)
          /\ Receipted(ledger') = Receipted(ledger)
      BY <2>1, <2>3, <3>1, PlainRow, Zenon DEF AdvanceEpoch, Log
    <3>3. GateInv' /\ TableInv'
      BY <2>1, <3>2, Zenon DEF WorkInv, GateInv, TableInv, Serving
    <3> QED BY <3>2, <3>3 DEF WorkInv
  <2> QED BY <1>2, <2>2, <2>3, Zenon DEF BootOpen, BootFence
<1>3. CASE BootRestore \/ BootMark
  <2> DEFINE A == RestoredAssignments(ledger, dbEpoch, expired)
             C == RestoredClaims(ledger, dbEpoch, expired)
  <2>1. /\ UNCHANGED <<ledger, dbEpoch, gate, batches, executed>>
        /\ phase' = "serving" /\ epoch' = dbEpoch /\ phase \in {"opened", "fenced"}
        /\ assignments' = A /\ claimed' = C
    BY <1>3, Zenon DEF BootRestore, BootMark, Restore
  <2>2. gate.op = "free"
    BY <2>1, Zenon DEF WorkInv, GateInv, Serving, TypeOK, Gate, Op
  <2>3. C \subseteq A
    BY RestoredTypes, Zenon DEF WorkInv, TypeOK
  <2>4. TableInv'
    BY <2>1, <2>3, RestoredWork, Zenon DEF TableInv
  <2>5. GateInv' /\ LedgerInv' /\ SingleUse'
    BY <2>1, <2>2, Zenon DEF WorkInv, GateInv, LedgerInv, SingleUse, Serving
  <2> QED BY <2>4, <2>5, Zenon DEF WorkInv
<1> QED BY <1>1, <1>2, <1>3, Zenon DEF BootNext

\* Enrolment, offers and revocation keep WorkInv.
LEMMA WorkNode ==
    ASSUME WorkInv, TypeOK', NodeNext
    PROVE  WorkInv'
<1> USE DEF durable, tables, calls, world
<1>1. ASSUME NEW n \in Nodes,
             EnrollInsert(n) \/ EnrollRecordFails(n) \/ RegisterCheck(n)
               \/ RegisterInsert(n) \/ OfferExpires(n)
      PROVE  WorkInv'
  BY <1>1, IdleStep, Zenon DEF EnrollInsert, EnrollRecordFails, RegisterCheck, RegisterInsert,
                        OfferExpires
<1>2. ASSUME NEW n \in Nodes, EnrollRecord(n) \/ RevokeNode(n) PROVE WorkInv'
  <2>1. PICK e \in Event :
          /\ e.leases = {} /\ ledger' = Append(ledger, e)
          /\ UNCHANGED <<dbEpoch, phase, epoch, gate, batches, executed>>
    BY <1>2, EventTypes, Zenon DEF EnrollRecord, RevokeNode, Log, EventType, NodeEvent
  <2>2. /\ assignments' \subseteq assignments
        /\ claimed' \subseteq assignments'
        /\ \A l \in assignments' : l \in claimed => l \in claimed'
    BY <1>2, Zenon DEF EnrollRecord, RevokeNode, WorkInv, TableInv
  <2>3. /\ LedgerInv' /\ SingleUse'
        /\ Issued(ledger') = Issued(ledger) /\ Claimed(ledger') = Claimed(ledger)
        /\ Receipted(ledger') = Receipted(ledger)
    BY <2>1, PlainRow, Zenon
  <2>4. GateInv'
    BY <2>1, <2>3, Zenon DEF WorkInv, GateInv, Serving
  <2>5. TableInv'
    BY <2>2, <2>3, Zenon DEF WorkInv, TableInv
  <2> QED BY <2>3, <2>4, <2>5, Zenon DEF WorkInv
<1> QED BY <1>1, <1>2, BoundsAssumption, Zenon DEF NodeNext

\* A row that issues the leases being staged: they are fresh and current.
LEMMA IssueRow ==
    ASSUME WorkInv, NEW e \in Event, e.type \in IssueType, ledger' = Append(ledger, e),
           gate.op \in {"job", "set"}, gate'.op = "free",
           UNCHANGED <<dbEpoch, batches, executed>>,
           \A l \in e.leases : l.epoch = dbEpoch /\ l.batch + 1 = batches
    PROVE  /\ LedgerInv' /\ SingleUse'
           /\ Issued(ledger') = Issued(ledger) \cup e.leases
           /\ Claimed(ledger') = Claimed(ledger) /\ Receipted(ledger') = Receipted(ledger)
           /\ e.leases \cap Issued(ledger) = {}
<1>1. /\ ledger \in Seq(Event) /\ dbEpoch \in Nat /\ batches \in Nat
      /\ dbEpoch > 0
  BY Zenon DEF WorkInv, TypeOK, GateInv, Serving
<1>2. /\ Issued(ledger') = Issued(ledger) \cup e.leases
      /\ Claimed(ledger') = Claimed(ledger) /\ Receipted(ledger') = Receipted(ledger)
      /\ Recorded(ledger') = Recorded(ledger)
  BY <1>1, LeasesOfAppend DEF Issued, Claimed, Receipted, Recorded, IssueType
<1>3. e.leases \subseteq Lease /\ Issued(ledger) \subseteq Lease
  BY <1>1, RestoredTypes, Zenon DEF Issued, Event
<1>4. e.leases \cap Issued(ledger) = {}
  BY SMTT(30), <1>1, <1>3 DEF WorkInv, LedgerInv, Lease
<1>5. \A i \in DOMAIN ledger : ledger[i].leases \cap e.leases = {}
  BY <1>4, LeaseRow, Zenon DEF WorkInv
<1>6. SingleUse'
  BY <1>1, <1>5, SingleUseAppend, Zenon DEF WorkInv
<1>7. \A i \in DOMAIN ledger' : ledger'[i].leases # {} =>
             ledger'[i].type \in IssueType \cup {"job.claimed", "job.receipted",
                                                 "artifact.output.recorded"}
  BY <1>1, LeaseKindsAppend, Zenon DEF WorkInv
<1>8. \A l \in Issued(ledger') : l.epoch <= dbEpoch' /\ l.batch < batches'
  BY SMTT(30), <1>1, <1>2, <1>3 DEF WorkInv, LedgerInv, Lease
<1>9. /\ Claimed(ledger') \subseteq Issued(ledger') /\ Receipted(ledger') \subseteq Claimed(ledger')
      /\ Recorded(ledger') \subseteq Receipted(ledger') /\ executed' \subseteq Claimed(ledger')
  BY <1>2, Zenon DEF WorkInv, LedgerInv
<1>10. gate'.op \notin {"job", "set"} /\ dbEpoch' # 0
  BY <1>1
<1>11. LedgerInv'
  BY <1>7, <1>8, <1>9, <1>10, Zenon DEF LedgerInv
<1> QED BY <1>2, <1>4, <1>6, <1>11, Zenon

\* Publishing fresh leases keeps the table invariant.
LEMMA PublishTable ==
    ASSUME WorkInv, NEW S \in SUBSET Lease, Publish(S),
           Issued(ledger') = Issued(ledger) \cup S,
           Claimed(ledger') = Claimed(ledger), Receipted(ledger') = Receipted(ledger),
           S \cap Issued(ledger) = {}
    PROVE  TableInv'
<1>1. S \cap Claimed(ledger) = {} /\ S \cap Receipted(ledger) = {}
  BY Zenon DEF WorkInv, LedgerInv
<1>2. /\ assignments' \subseteq assignments \cup S
      /\ claimed' \subseteq assignments'
      /\ \A l \in assignments' \ S : l \in claimed => l \in claimed'
  BY Zenon DEF Publish, WorkInv, TableInv
<1> QED BY <1>1, <1>2, Zenon DEF WorkInv, TableInv

\* Admission keeps WorkInv.
LEMMA WorkAdmit ==
    ASSUME WorkInv, TypeOK', AdmitNext
    PROVE  WorkInv'
<1> USE DEF durable, tables, calls, world
<1>1. ASSUME NEW j \in Jobs, SubmitCheck(j) \/ SubmitAnswer(j) PROVE WorkInv'
  BY <1>1, IdleStep, Zenon DEF SubmitCheck, SubmitAnswer
<1>2. ASSUME NEW s \in ShardSets, SetCheck(s) \/ SetAnswer(s) PROVE WorkInv'
  BY <1>2, IdleStep, Zenon DEF SetCheck, SetAnswer
<1>3. ASSUME UNCHANGED <<ledger, dbEpoch, phase, epoch, assignments, claimed, executed>>,
             Serving, batches' = batches + 1, gate'.op \in {"job", "set"},
             \A l \in gate'.leases : l.epoch = epoch /\ l.batch = batches
      PROVE  WorkInv'
  <2>1. batches \in Nat /\ Issued(ledger) \subseteq Lease
    BY RestoredTypes, Zenon DEF WorkInv, TypeOK, Issued
  <2>2. \A l \in Issued(ledger) : l.batch + 1 < batches' /\ l.batch < batches'
    <3> SUFFICES ASSUME NEW l \in Issued(ledger)
                 PROVE  l.batch + 1 < batches' /\ l.batch < batches'
      BY Zenon
    <3>1. l.batch \in Nat
      BY <2>1, Zenon DEF Lease
    <3>2. l.batch < batches
      BY Zenon DEF WorkInv, LedgerInv
    <3> QED BY SMTT(30), <1>3, <2>1, <3>1, <3>2
  <2>3. LedgerInv'
    BY <1>3, <2>2, Zenon DEF WorkInv, LedgerInv
  <2>4. GateInv' /\ SingleUse' /\ TableInv'
    BY <1>3, Zenon DEF WorkInv, GateInv, SingleUse, TableInv, Serving
  <2> QED BY <2>3, <2>4, Zenon DEF WorkInv
<1>4. ASSUME NEW j \in Jobs, NEW n \in Nodes, SubmitAuthorize(j, n) PROVE WorkInv'
  BY SMTT(30), <1>3, <1>4 DEF SubmitAuthorize, Held, Enters
<1>5. ASSUME NEW s \in ShardSets, NEW place \in [s.jobs -> offers], SetPlan(s, place)
      PROVE  WorkInv'
  <2>1. /\ UNCHANGED <<ledger, dbEpoch, phase, epoch, assignments, claimed, executed>>
        /\ Serving /\ batches' = batches + 1
    BY <1>5, Zenon DEF SetPlan, Enters
  <2>2. gate'.op = "set" /\ \A l \in gate'.leases : l.epoch = epoch /\ l.batch = batches
    <3> DEFINE S == {[batch |-> batches, job |-> j, node |-> place[j], epoch |-> epoch]
                        : j \in s.jobs}
    <3>1. \A l \in S : l.epoch = epoch /\ l.batch = batches
      OBVIOUS
    <3>2. gate' = Held("set", S, {s})
      BY <1>5, Zenon DEF SetPlan
    <3> HIDE DEF S
    <3> QED BY <3>1, <3>2, Zenon DEF Held
  <2> QED BY <1>3, <2>1, <2>2, Zenon
<1>6. CASE SubmitPublish
  <2> DEFINE e == LeaseEvent("lease.issued", gate.leases)
  <2>1. gate.leases \subseteq Lease
    BY Zenon DEF WorkInv, TypeOK, Gate
  <2>2. e \in Event /\ e.type \in IssueType /\ e.leases = gate.leases
    BY <2>1, EventTypes, Zenon DEF LeaseEvent, IssueType, EventType
  <2> HIDE DEF e
  <2>3. /\ ledger' = Append(ledger, e) /\ gate'.op = "free" /\ Publish(gate.leases)
        /\ UNCHANGED <<dbEpoch, phase, epoch, batches, executed>>
    BY <1>6, Zenon DEF SubmitPublish, Log, Free, Held, e
  <2>4. \A l \in e.leases : l.epoch = dbEpoch /\ l.batch + 1 = batches
    BY <1>6, <2>2, Zenon DEF SubmitPublish, WorkInv, GateInv
  <2>5. gate.op \in {"job", "set"}
    BY <1>6, Zenon DEF SubmitPublish
  <2>6. /\ LedgerInv' /\ SingleUse'
        /\ Issued(ledger') = Issued(ledger) \cup gate.leases
        /\ Claimed(ledger') = Claimed(ledger) /\ Receipted(ledger') = Receipted(ledger)
        /\ gate.leases \cap Issued(ledger) = {}
    BY <2>2, <2>3, <2>4, <2>5, IssueRow, Zenon
  <2>7. TableInv'
    BY <2>1, <2>3, <2>6, PublishTable, Zenon
  <2>8. GateInv'
    BY <2>3, <2>5, Zenon DEF WorkInv, GateInv, Serving
  <2> QED BY <2>6, <2>7, <2>8, Zenon DEF WorkInv
<1>7. CASE SetPublish
  <2> DEFINE signed == {[l EXCEPT !.epoch = epoch] : l \in gate.leases}
  <2>1. gate.leases \subseteq Lease /\ gate.sets \subseteq ShardSets /\ epoch \in Nat
    BY Zenon DEF WorkInv, TypeOK, Gate
  <2>2. signed \subseteq Lease /\ \A l \in signed : l.epoch = epoch
    BY <2>1 DEF Lease
  <2>3. \A l \in signed : \E m \in gate.leases : l.batch = m.batch
    BY <2>1, Zenon DEF Lease
  <2>4. PICK s \in gate.sets : ledger' = Append(ledger, SetEvent(s, signed))
    BY <1>7, Zenon DEF SetPublish, Log
  <2>5. Publish(signed)
    BY <1>7, Zenon DEF SetPublish
  <2> HIDE DEF signed
  <2>6. /\ gate'.op = "free" /\ gate.op = "set"
        /\ UNCHANGED <<dbEpoch, phase, epoch, batches, executed>>
    BY <1>7, Zenon DEF SetPublish, Free, Held
  <2>7. /\ SetEvent(s, signed) \in Event /\ SetEvent(s, signed).type \in IssueType
        /\ SetEvent(s, signed).leases = signed
    BY <2>1, <2>2, <2>4, EventTypes, Zenon DEF SetEvent, IssueType
  <2>8. \A l \in signed : l.epoch = dbEpoch /\ l.batch + 1 = batches
    BY <2>2, <2>3, <2>6, Zenon DEF WorkInv, GateInv
  <2>9. /\ LedgerInv' /\ SingleUse'
        /\ Issued(ledger') = Issued(ledger) \cup signed
        /\ Claimed(ledger') = Claimed(ledger) /\ Receipted(ledger') = Receipted(ledger)
        /\ signed \cap Issued(ledger) = {}
    BY <2>4, <2>6, <2>7, <2>8, IssueRow, Zenon
  <2>10. TableInv'
    BY <2>2, <2>5, <2>9, PublishTable, Zenon
  <2>11. GateInv'
    BY <2>6, Zenon DEF WorkInv, GateInv, Serving
  <2> QED BY <2>9, <2>10, <2>11, Zenon DEF WorkInv
<1>8. CASE StageFails
  <2>1. /\ UNCHANGED <<ledger, dbEpoch, phase, epoch, assignments, claimed, batches, executed>>
        /\ gate'.op = "free"
    BY <1>8, Zenon DEF StageFails, Free, Held
  <2> QED BY <2>1, Zenon DEF WorkInv, GateInv, LedgerInv, SingleUse, TableInv, Serving
<1> QED BY <1>1, <1>2, <1>4, <1>5, <1>6, <1>7, <1>8, Zenon DEF AdmitNext

\* A row that claims, receipts or records the output of leases already issued.
LEMMA ProgressRow ==
    ASSUME WorkInv, NEW S \in SUBSET Lease, NEW t \in EventType,
           ledger' = Append(ledger, LeaseEvent(t, S)),
           UNCHANGED <<dbEpoch, batches, executed>>, gate'.op \notin {"job", "set"},
           \/ t = "job.claimed" /\ S \subseteq Issued(ledger) \ Claimed(ledger)
           \/ t = "job.receipted" /\ S \subseteq Claimed(ledger) \ Receipted(ledger)
           \/ t = "artifact.output.recorded" /\ S \subseteq Receipted(ledger)
    PROVE  /\ LedgerInv' /\ SingleUse'
           /\ Issued(ledger') = Issued(ledger)
           /\ Claimed(ledger') = Claimed(ledger) \cup (IF t = "job.claimed" THEN S ELSE {})
           /\ Receipted(ledger') = Receipted(ledger)
                                   \cup (IF t = "job.receipted" THEN S ELSE {})
<1> DEFINE e == LeaseEvent(t, S)
<1>1. ledger \in Seq(Event) /\ dbEpoch \in Nat /\ batches \in Nat
  BY Zenon DEF WorkInv, TypeOK
<1>2. e \in Event /\ e.type = t /\ e.leases = S
  BY EventTypes, Zenon DEF LeaseEvent
<1> HIDE DEF e
<1>3. ledger' = Append(ledger, e)
  BY DEF e
<1>4. ASSUME NEW T
      PROVE  LeasesOf(ledger', T) =
               IF t \in T THEN LeasesOf(ledger, T) \cup S ELSE LeasesOf(ledger, T)
  <2>1. LeasesOf(Append(ledger, e), T) =
          IF e.type \in T THEN LeasesOf(ledger, T) \cup e.leases ELSE LeasesOf(ledger, T)
    BY <1>1, <1>2, LeasesOfAppend, Zenon
  <2> QED BY <1>2, <1>3, <2>1, Zenon
<1>5. /\ Issued(ledger') = Issued(ledger)
      /\ Claimed(ledger') = Claimed(ledger) \cup (IF t = "job.claimed" THEN S ELSE {})
      /\ Receipted(ledger') = Receipted(ledger) \cup (IF t = "job.receipted" THEN S ELSE {})
      /\ Recorded(ledger') = Recorded(ledger)
                             \cup (IF t = "artifact.output.recorded" THEN S ELSE {})
  BY <1>4, Zenon DEF Issued, Claimed, Receipted, Recorded, IssueType
<1>6. ASSUME NEW i \in DOMAIN ledger, ledger[i].leases \cap S # {}
      PROVE  Follows(ledger[i].type, t)
  <2>1. PICK l \in S : l \in ledger[i].leases
    BY <1>6, Zenon
  <2>2. \/ ledger[i].type \in IssueType
        \/ ledger[i].type = "job.claimed" /\ l \in Claimed(ledger)
        \/ ledger[i].type = "job.receipted" /\ l \in Receipted(ledger)
        \/ ledger[i].type = "artifact.output.recorded" /\ l \in Recorded(ledger)
    BY <2>1, LeaseRow, Zenon DEF WorkInv
  <2>3. /\ l \in Receipted(ledger) => l \in Claimed(ledger)
        /\ l \in Recorded(ledger) => l \in Receipted(ledger)
    BY Zenon DEF WorkInv, LedgerInv
  <2> QED BY <2>1, <2>2, <2>3, Zenon DEF Follows
<1>7. SingleUse'
  BY <1>1, <1>2, <1>3, <1>6, SingleUseAppend, Zenon DEF WorkInv
<1>8. \A i \in DOMAIN ledger' : ledger'[i].leases # {} =>
             ledger'[i].type \in IssueType \cup {"job.claimed", "job.receipted",
                                                 "artifact.output.recorded"}
  BY <1>1, <1>2, <1>3, LeaseKindsAppend, Zenon DEF WorkInv
<1>9. LedgerInv'
  BY <1>1, <1>5, <1>8, Zenon DEF WorkInv, LedgerInv
<1> QED BY <1>5, <1>7, <1>9, Zenon

\* Claims, executions, receipts, outputs and expiry keep WorkInv.
LEMMA WorkLease ==
    ASSUME WorkInv, TypeOK', WorkNext
    PROVE  WorkInv'
<1> USE DEF durable, tables, calls, world
<1>0. gate.leases \subseteq Lease /\ assignments \subseteq Lease
  BY Zenon DEF WorkInv, TypeOK, Gate
<1>1. ASSUME NEW n \in Nodes, NEW l \in assignments, ClaimWork(n, l) PROVE WorkInv'
  <2>1. /\ ledger' = Append(ledger, LeaseEvent("job.claimed", {l}))
        /\ claimed' = claimed \cup {l} /\ l \notin claimed /\ gate.op = "free"
        /\ UNCHANGED <<dbEpoch, phase, epoch, assignments, gate, batches, executed>>
    BY <1>1, Zenon DEF ClaimWork, ClaimNext, Claimable, Log, Enters
  <2>2. l \in Issued(ledger) /\ l \notin Claimed(ledger)
    BY <2>1, Zenon DEF WorkInv, TableInv
  <2>3. {l} \in SUBSET Lease /\ "job.claimed" \in EventType
    BY <1>0, Zenon DEF EventType
  <2>4. /\ LedgerInv' /\ SingleUse' /\ Issued(ledger') = Issued(ledger)
        /\ Claimed(ledger') = Claimed(ledger) \cup {l}
        /\ Receipted(ledger') = Receipted(ledger)
    <3> DEFINE t == "job.claimed"
               S == {l}
    <3>1. /\ t \in EventType /\ S \in SUBSET Lease /\ t = "job.claimed"
          /\ S \subseteq Issued(ledger) \ Claimed(ledger)
          /\ gate'.op \notin {"job", "set"} /\ ledger' = Append(ledger, LeaseEvent(t, S))
      BY <2>1, <2>2, <2>3, Zenon
    <3> HIDE DEF t, S
    <3>2. /\ LedgerInv' /\ SingleUse' /\ Issued(ledger') = Issued(ledger)
          /\ Claimed(ledger') = Claimed(ledger) \cup S
          /\ Receipted(ledger') = Receipted(ledger)
      BY <2>1, <3>1, ProgressRow, Zenon
    <3> QED BY <3>2, Zenon DEF S
  <2>5. GateInv' /\ TableInv'
    BY <2>1, <2>4, Zenon DEF WorkInv, GateInv, TableInv, Serving
  <2> QED BY <2>4, <2>5, Zenon DEF WorkInv
<1>2. ASSUME NEW n \in Nodes, NEW l \in assignments, ClaimWorkFails(n, l) PROVE WorkInv'
  <2>1. /\ claimed' = claimed \cup {l}
        /\ UNCHANGED <<ledger, dbEpoch, phase, epoch, assignments, gate, batches, executed>>
    BY <1>2, Zenon DEF ClaimWorkFails, ClaimNext
  <2> QED BY <2>1, Zenon DEF WorkInv, GateInv, LedgerInv, SingleUse, TableInv, Serving
<1>3. ASSUME NEW l \in Claimed(ledger), Execute(l) PROVE WorkInv'
  <2>1. /\ executed' = executed \cup {l}
        /\ UNCHANGED <<ledger, dbEpoch, phase, epoch, assignments, claimed, gate, batches>>
    BY <1>3, Zenon DEF Execute
  <2> QED BY <2>1, Zenon DEF WorkInv, GateInv, LedgerInv, SingleUse, TableInv, Serving
<1>4. ASSUME NEW l \in executed, SubmitReceipt(l) PROVE WorkInv'
  <2>1. /\ ledger' = Append(ledger, LeaseEvent("job.receipted", {l}))
        /\ assignments' = assignments \ {l} /\ claimed' = claimed \ {l}
        /\ l \in assignments /\ gate'.op = "output" /\ gate'.leases = {l} /\ Serving
        /\ UNCHANGED <<dbEpoch, phase, epoch, batches, executed>>
    BY <1>4, Zenon DEF SubmitReceipt, AcceptReceipt, Log, Enters, Held
  <2>2. l \in Claimed(ledger) /\ l \notin Receipted(ledger)
    BY <2>1, Zenon DEF WorkInv, LedgerInv, TableInv
  <2>3. {l} \in SUBSET Lease /\ "job.receipted" \in EventType
    BY <1>0, <2>1, Zenon DEF EventType
  <2>4. /\ LedgerInv' /\ SingleUse' /\ Issued(ledger') = Issued(ledger)
        /\ Claimed(ledger') = Claimed(ledger)
        /\ Receipted(ledger') = Receipted(ledger) \cup {l}
    <3> DEFINE t == "job.receipted"
               S == {l}
    <3>1. /\ t \in EventType /\ S \in SUBSET Lease /\ t = "job.receipted"
          /\ S \subseteq Claimed(ledger) \ Receipted(ledger)
          /\ gate'.op \notin {"job", "set"} /\ ledger' = Append(ledger, LeaseEvent(t, S))
      BY <2>1, <2>2, <2>3, Zenon
    <3> HIDE DEF t, S
    <3>2. /\ LedgerInv' /\ SingleUse' /\ Issued(ledger') = Issued(ledger)
          /\ Claimed(ledger') = Claimed(ledger)
          /\ Receipted(ledger') = Receipted(ledger) \cup S
      BY <2>1, <3>1, ProgressRow, Zenon
    <3> QED BY <3>2, Zenon DEF S
  <2>5. GateInv' /\ TableInv'
    BY <2>1, <2>4, Zenon DEF WorkInv, GateInv, TableInv, Serving
  <2> QED BY <2>4, <2>5, Zenon DEF WorkInv
<1>5. ASSUME NEW l \in executed, SubmitReceiptFails(l) PROVE WorkInv'
  <2>1. /\ assignments' = assignments \ {l} /\ claimed' = claimed \ {l}
        /\ UNCHANGED <<ledger, dbEpoch, phase, epoch, gate, batches, executed>>
    BY <1>5, Zenon DEF SubmitReceiptFails, AcceptReceipt
  <2> QED BY <2>1, Zenon DEF WorkInv, GateInv, LedgerInv, SingleUse, TableInv, Serving
<1>6. CASE RecordOutput
  <2>1. /\ ledger' = Append(ledger, LeaseEvent("artifact.output.recorded", gate.leases))
        /\ gate'.op = "free" /\ gate.op = "output"
        /\ UNCHANGED <<dbEpoch, phase, epoch, assignments, claimed, batches, executed>>
    BY <1>6, Zenon DEF RecordOutput, Log, Free, Held
  <2>2. gate.leases \subseteq Receipted(ledger) /\ "artifact.output.recorded" \in EventType
    BY <2>1, Zenon DEF WorkInv, GateInv, EventType
  <2>3. /\ LedgerInv' /\ SingleUse' /\ Issued(ledger') = Issued(ledger)
        /\ Claimed(ledger') = Claimed(ledger) /\ Receipted(ledger') = Receipted(ledger)
    <3> DEFINE t == "artifact.output.recorded"
    <3>1. /\ t \in EventType /\ t = "artifact.output.recorded" /\ t # "job.claimed"
          /\ t # "job.receipted" /\ gate'.op \notin {"job", "set"}
          /\ ledger' = Append(ledger, LeaseEvent(t, gate.leases))
      BY <2>1, <2>2
    <3> HIDE DEF t
    <3>2. gate.leases \in SUBSET Lease
      BY <1>0, Zenon
    <3>3. /\ LedgerInv' /\ SingleUse' /\ Issued(ledger') = Issued(ledger)
          /\ Claimed(ledger') = Claimed(ledger) \cup (IF t = "job.claimed" THEN gate.leases ELSE {})
          /\ Receipted(ledger') = Receipted(ledger)
                                  \cup (IF t = "job.receipted" THEN gate.leases ELSE {})
      BY <2>1, <2>2, <3>1, <3>2, ProgressRow, Zenon
    <3> QED BY <3>1, <3>3, Zenon
  <2>4. GateInv' /\ TableInv'
    BY <2>1, <2>3, Zenon DEF WorkInv, GateInv, TableInv, Serving
  <2> QED BY <2>3, <2>4, Zenon DEF WorkInv
<1>7. CASE RecordOutputFails
  <2>1. /\ UNCHANGED <<ledger, dbEpoch, phase, epoch, assignments, claimed, batches, executed>>
        /\ gate'.op = "free"
    BY <1>7 DEF RecordOutputFails, Free, Held
  <2> QED BY <2>1, Zenon DEF WorkInv, GateInv, LedgerInv, SingleUse, TableInv, Serving
<1>8. ASSUME NEW l \in Issued(ledger), LeaseExpires(l) PROVE WorkInv'
  BY <1>8, IdleStep, Zenon DEF LeaseExpires
<1> QED BY <1>1, <1>2, <1>3, <1>4, <1>5, <1>6, <1>7, <1>8, Zenon DEF WorkNext

\* A new installation satisfies WorkInv.
LEMMA WorkInit == Init => WorkInv
<1> SUFFICES ASSUME Init PROVE WorkInv
  BY Zenon
<1>1. ledger = <<>> /\ DOMAIN ledger = {}
  BY DEF Init
<1>2. \A T : LeasesOf(ledger, T) = {}
  BY <1>1, Zenon DEF LeasesOf
<1> QED
  BY <1>1, <1>2, TypeInit, Zenon DEF Init, WorkInv, GateInv, LedgerInv, SingleUse, TableInv, Serving,
     Free, Held, Issued, Claimed, Receipted, Recorded

\* Every step keeps WorkInv.
LEMMA WorkStep == WorkInv /\ [Next]_vars => WorkInv'
<1> SUFFICES ASSUME WorkInv, [Next]_vars PROVE WorkInv'
  OBVIOUS
<1>1. TypeOK'
  BY TypeStep, Zenon DEF WorkInv
<1>2. CASE UNCHANGED vars
  BY <1>1, <1>2, IdleStep, Zenon DEF vars, durable, tables, calls, world
<1> QED BY <1>1, <1>2, WorkStop, WorkBoot, WorkNode, WorkAdmit, WorkLease, Zenon DEF Next

\* No lease is issued, claimed or receipted twice, whatever retries, crashes and
\* restarts happen (submit_job, claim_work, submit_receipt, restore_state).
THEOREM LeasesAreSingleUse == Spec => []SingleUse
<1>1. WorkInv => SingleUse
  BY DEF WorkInv
<1> QED BY <1>1, WorkInit, WorkStep, PTL DEF Spec

-----------------------------------------------------------------------------
(***************************************************************************)
(* STOP fences what was issued before it, and what reaches the ledger is a *)
(* behaviour of LeaseAuthority: StopFencesEarlierLeases and                *)
(* AuthorityRefinement, on top of the invariant above.                     *)
(***************************************************************************)
\* The marker names an epoch only under a latch, and never one ahead of the
\* stored epoch; between the advance and the marker nothing is left unfenced.
StopInv ==
    /\ ~Latched => marker = 0
    /\ marker <= dbEpoch
    /\ gate.op = "mark" \/ phase = "fenced" =>
         Latched /\ \A i \in DOMAIN ledger : Fenced(i)
    /\ gate.op \in {"stop", "stopped"} => Latched
    /\ gate.op = "resume" => marker = 0
    /\ latchedAt <= Len(ledger)

IInv == WorkInv /\ StopInv /\ StopFencesEarlierLeases

-----------------------------------------------------------------------------
(***************************************************************************)
(* STOP.                                                                   *)
(***************************************************************************)
\* The ledger stays as it is or takes one row that issues nothing.
PlainGrowth ==
    \/ ledger' = ledger
    \/ \E e \in Event : ledger' = Append(ledger, e) /\ e.type \notin IssueType

\* What was fenced stays fenced, and a row that issues nothing is fenced.
LEMMA FencedGrowth ==
    ASSUME ledger \in Seq(Event), dbEpoch \in Nat, dbEpoch' \in {dbEpoch, dbEpoch + 1},
           \/ ledger' = ledger
           \/ \E e \in Event : ledger' = Append(ledger, e)
    PROVE  /\ Len(ledger) \in Nat /\ Len(ledger') \in Nat /\ Len(ledger) <= Len(ledger')
           /\ DOMAIN ledger = 1 .. Len(ledger) /\ DOMAIN ledger' = 1 .. Len(ledger')
           /\ \A i \in DOMAIN ledger : i \in DOMAIN ledger' /\ ledger'[i] = ledger[i]
           /\ \A i \in DOMAIN ledger : Fenced(i) => Fenced(i)'
           /\ PlainGrowth => \A i \in DOMAIN ledger' : i \notin DOMAIN ledger => Fenced(i)'
<1>0. \A i \in DOMAIN ledger : ledger[i] \in Event
  OBVIOUS
<1>1. /\ Len(ledger) \in Nat /\ Len(ledger') \in Nat /\ Len(ledger) <= Len(ledger')
      /\ DOMAIN ledger = 1 .. Len(ledger) /\ DOMAIN ledger' = 1 .. Len(ledger')
      /\ \A i \in DOMAIN ledger : i \in DOMAIN ledger' /\ ledger'[i] = ledger[i]
  <2>1. CASE ledger' = ledger
    BY <2>1
  <2>2. ASSUME NEW e \in Event, ledger' = Append(ledger, e) PROVE <1>1!1
    <3>1. /\ DOMAIN ledger' = 1 .. (Len(ledger) + 1) /\ DOMAIN ledger = 1 .. Len(ledger)
          /\ \A i \in 1 .. Len(ledger) : ledger'[i] = ledger[i]
          /\ Len(ledger') = Len(ledger) + 1 /\ Len(ledger) \in Nat
      BY <2>2, AppendRows
    <3> QED BY <3>1
  <2> QED BY <2>1, <2>2
<1>2. ASSUME NEW i \in DOMAIN ledger, Fenced(i) PROVE Fenced(i)'
  <2>1. ledger'[i] = ledger[i] /\ ledger[i] \in Event
    BY <1>0, <1>1, Zenon
  <2>2. ledger[i].leases \subseteq Lease
    BY <2>1, Zenon DEF Event
  <2>3. ledger[i].type \in IssueType => \A l \in ledger[i].leases : l.epoch < dbEpoch
    BY <1>2, Zenon DEF Fenced
  <2>4. \A l \in ledger[i].leases : l.epoch \in Nat
    BY <2>2, Zenon DEF Lease
  <2>5. ledger[i].type \in IssueType => \A l \in ledger[i].leases : l.epoch < dbEpoch'
    BY <2>3, <2>4
  <2> QED BY <2>1, <2>5, Zenon DEF Fenced
<1>3. ASSUME PlainGrowth, NEW i \in DOMAIN ledger', i \notin DOMAIN ledger PROVE Fenced(i)'
  <2>1. PICK e \in Event : ledger' = Append(ledger, e) /\ e.type \notin IssueType
    BY <1>3, Zenon DEF PlainGrowth
  <2>2. /\ DOMAIN ledger' = 1 .. (Len(ledger) + 1) /\ DOMAIN ledger = 1 .. Len(ledger)
        /\ ledger'[Len(ledger) + 1] = e /\ Len(ledger) \in Nat
    BY <2>1, AppendRows, Zenon
  <2>3. i = Len(ledger) + 1
    BY <1>3, <2>2
  <2> QED BY <2>1, <2>2, <2>3, Zenon DEF Fenced
<1> QED BY <1>1, <1>2, <1>3, Zenon

\* Every row is fenced once the epoch has advanced.
LEMMA AdvanceFences ==
    ASSUME WorkInv, AdvanceEpoch
    PROVE  /\ \A i \in DOMAIN ledger' : Fenced(i)'
           /\ PlainGrowth /\ dbEpoch' = dbEpoch + 1
<1>1. ledger \in Seq(Event) /\ dbEpoch \in Nat
  BY DEF WorkInv, TypeOK
<1>2. /\ PlainEvent("authority.epoch.advanced") \in Event
      /\ PlainEvent("authority.epoch.advanced").type \notin IssueType
  BY EventTypes, Zenon DEF PlainEvent, EventType, IssueType
<1>3. PlainGrowth /\ dbEpoch' = dbEpoch + 1
  BY <1>2, Zenon DEF AdvanceEpoch, Log, PlainGrowth
<1>4. ASSUME NEW i \in DOMAIN ledger PROVE Fenced(i)'
  <2>1. ledger'[i] = ledger[i]
    BY <1>1, <1>3, FencedGrowth, Zenon DEF PlainGrowth
  <2>2. \A l \in ledger[i].leases : l \in Issued(ledger)
    BY LeaseRow, Zenon DEF WorkInv
  <2>3. \A l \in Issued(ledger) : l.epoch \in Nat
    BY <1>1, RestoredTypes DEF Issued, Lease
  <2>4. \A l \in Issued(ledger) : l.epoch < dbEpoch'
    BY <1>1, <1>3, <2>3 DEF WorkInv, LedgerInv
  <2> QED BY <2>1, <2>2, <2>4 DEF Fenced
<1>5. \A i \in DOMAIN ledger' : i \notin DOMAIN ledger => Fenced(i)'
  BY <1>1, <1>3, FencedGrowth, Zenon DEF PlainGrowth
<1> QED BY <1>3, <1>4, <1>5, Zenon

\* Bounds carry over to a longer ledger, and to a row within them.
LEMMA Within ==
    \A a, n, m \in Nat : a <= n =>
        /\ n <= m => a <= m
        /\ \A i \in 1 .. m : i <= a => i \in 1 .. n
OBVIOUS

\* A step that leaves the epoch, the latch and the marker alone.
LEMMA StopIdle ==
    ASSUME IInv, UNCHANGED <<dbEpoch, kill, marker, latchedAt>>,
           gate'.op \in {"mark", "stop", "stopped", "resume"} => gate' = gate,
           phase' = "fenced" => phase = "fenced",
           \/ PlainGrowth
           \/ /\ \E e \in Event : ledger' = Append(ledger, e)
              /\ gate'.op # "mark" /\ phase' # "fenced"
    PROVE  StopInv' /\ StopFencesEarlierLeases'
<1>1. ledger \in Seq(Event) /\ dbEpoch \in Nat /\ latchedAt \in Nat /\ marker \in Nat
  BY Zenon DEF IInv, WorkInv, TypeOK
<1>2. /\ \A i \in DOMAIN ledger : Fenced(i) => Fenced(i)'
      /\ PlainGrowth => \A i \in DOMAIN ledger' : i \notin DOMAIN ledger => Fenced(i)'
  BY <1>1, FencedGrowth, Zenon DEF PlainGrowth
<1>3. /\ Len(ledger) \in Nat /\ Len(ledger') \in Nat /\ Len(ledger) <= Len(ledger')
      /\ DOMAIN ledger = 1 .. Len(ledger) /\ DOMAIN ledger' = 1 .. Len(ledger')
      /\ latchedAt <= Len(ledger)
  BY <1>1, FencedGrowth, Zenon DEF PlainGrowth, IInv, StopInv
<1>4. StopFencesEarlierLeases'
  <2> SUFFICES ASSUME Latched', marker' = dbEpoch', NEW i \in DOMAIN ledger', i <= latchedAt'
               PROVE  Fenced(i)'
    BY Zenon DEF StopFencesEarlierLeases
  <2>1. Latched /\ marker = dbEpoch /\ i <= latchedAt
    BY Zenon DEF Latched
  <2>2. i \in DOMAIN ledger
    BY <1>1, <1>3, <2>1, Within, Zenon
  <2> QED BY <1>2, <2>1, <2>2, Zenon DEF IInv, StopFencesEarlierLeases
<1>5. gate'.op = "mark" \/ phase' = "fenced" =>
        Latched' /\ \A i \in DOMAIN ledger' : Fenced(i)'
  <2> SUFFICES ASSUME gate'.op = "mark" \/ phase' = "fenced"
               PROVE  Latched' /\ \A i \in DOMAIN ledger' : Fenced(i)'
    BY Zenon
  <2>1. gate.op = "mark" \/ phase = "fenced"
    BY Zenon
  <2>2. Latched /\ \A i \in DOMAIN ledger : Fenced(i)
    BY <2>1, Zenon DEF IInv, StopInv
  <2> QED BY <1>2, <2>2, Zenon DEF Latched
<1>6. /\ ~Latched' => marker' = 0
      /\ gate'.op \in {"stop", "stopped"} => Latched'
      /\ gate'.op = "resume" => marker' = 0
  BY DEF IInv, StopInv, Latched
<1>7. marker' <= dbEpoch' /\ latchedAt' <= Len(ledger')
  BY <1>1, <1>3, Within, Zenon DEF IInv, StopInv
<1> QED BY <1>4, <1>5, <1>6, <1>7, Zenon DEF StopInv

\* Steps outside STOP, RESUME and startup leave the latch and the marker alone.
LEMMA StopOthers ==
    ASSUME IInv, NodeNext \/ AdmitNext \/ WorkNext
    PROVE  StopInv' /\ StopFencesEarlierLeases'
<1> USE DEF durable, tables, calls, world
<1>0. /\ gate.leases \subseteq Lease /\ gate.sets \subseteq ShardSets /\ epoch \in Nat
      /\ assignments \subseteq Lease /\ executed \subseteq Lease
  BY Zenon DEF IInv, WorkInv, TypeOK, Gate
<1>1. CASE NodeNext
  <2>1. UNCHANGED <<dbEpoch, kill, marker, latchedAt, gate, phase>>
    BY <1>1, Zenon DEF NodeNext, EnrollInsert, EnrollRecord, EnrollRecordFails, RegisterCheck,
                RegisterInsert, OfferExpires, RevokeNode
  <2>2. \/ ledger' = ledger
        \/ \E n \in Nodes, t \in {"node.enrolled", "node.revoked"} :
             ledger' = Append(ledger, NodeEvent(t, n))
    BY <1>1, BoundsAssumption, Zenon
       DEF NodeNext, EnrollInsert, EnrollRecord, EnrollRecordFails, RegisterCheck,
           RegisterInsert, OfferExpires, RevokeNode, Log
  <2>3. ASSUME NEW n \in Nodes, NEW t \in {"node.enrolled", "node.revoked"}
        PROVE  NodeEvent(t, n) \in Event /\ NodeEvent(t, n).type \notin IssueType
    BY EventTypes, Zenon DEF NodeEvent, EventType, IssueType
  <2>4. PlainGrowth
    BY <2>2, <2>3, Zenon DEF PlainGrowth
  <2> QED BY <2>1, <2>4, StopIdle, Zenon
<1>2. CASE AdmitNext
  <2>1. UNCHANGED <<dbEpoch, kill, marker, latchedAt, phase>>
    BY <1>2, Zenon DEF AdmitNext, SubmitCheck, SubmitAnswer, SubmitAuthorize, SetCheck, SetAnswer,
                SetPlan, SubmitPublish, SetPublish, StageFails
  <2>2. gate'.op \in {"mark", "stop", "stopped", "resume"} => gate' = gate
    <3>1. ASSUME NEW j \in Jobs, NEW n \in Nodes, SubmitAuthorize(j, n) PROVE gate'.op = "job"
      BY <3>1 DEF SubmitAuthorize, Held
    <3>2. ASSUME NEW s \in ShardSets, NEW place \in [s.jobs -> offers], SetPlan(s, place)
          PROVE  gate'.op = "set"
      BY <3>2, Zenon DEF SetPlan, Held
    <3>3. SubmitPublish \/ SetPublish \/ StageFails => gate'.op = "free"
      BY DEF SubmitPublish, SetPublish, StageFails, Free, Held
    <3>4. gate' = gate \/ gate'.op \in {"free", "job", "set"}
      BY <1>2, <3>1, <3>2, <3>3, Zenon DEF AdmitNext, SubmitCheck, SubmitAnswer, SetCheck, SetAnswer
    <3> QED BY <3>4, Zenon
  <2>3. CASE SubmitPublish \/ SetPublish
    <3>1. gate'.op # "mark" /\ gate.op \in {"job", "set"}
      BY <2>3 DEF SubmitPublish, SetPublish, Free, Held
    <3>2. phase' # "fenced"
      BY <2>1, <3>1, Zenon DEF IInv, WorkInv, GateInv, Serving
    <3>3. \E e \in Event : ledger' = Append(ledger, e)
      <4>1. CASE SubmitPublish
        BY <1>0, <4>1, EventTypes, Zenon DEF SubmitPublish, Log, EventType
      <4>2. CASE SetPublish
        <5> DEFINE signed == {[l EXCEPT !.epoch = epoch] : l \in gate.leases}
        <5>1. signed \subseteq Lease
          BY <1>0, Zenon DEF Lease
        <5>2. \E s \in gate.sets : ledger' = Append(ledger, SetEvent(s, signed))
          BY <4>2, Zenon DEF SetPublish, Log
        <5> HIDE DEF signed
        <5> QED BY <1>0, <5>1, <5>2, EventTypes, Zenon
      <4> QED BY <2>3, <4>1, <4>2, Zenon
    <3> QED BY <2>1, <2>2, <3>1, <3>2, <3>3, StopIdle, Zenon
  <2>4. CASE ~(SubmitPublish \/ SetPublish)
    <3>1. PlainGrowth
      BY <1>2, <2>4, Zenon DEF AdmitNext, SubmitCheck, SubmitAnswer, SubmitAuthorize, SetCheck,
                        SetAnswer, SetPlan, StageFails, PlainGrowth
    <3> QED BY <2>1, <2>2, <3>1, StopIdle, Zenon
  <2> QED BY <2>3, <2>4
<1>3. CASE WorkNext
  <2>1. UNCHANGED <<dbEpoch, kill, marker, latchedAt, phase>>
    BY <1>3, Zenon DEF WorkNext, ClaimWork, ClaimWorkFails, ClaimNext, Execute, SubmitReceipt,
                SubmitReceiptFails, AcceptReceipt, RecordOutput, RecordOutputFails,
                LeaseExpires
  <2>2. gate'.op \in {"mark", "stop", "stopped", "resume"} => gate' = gate
    <3>1. ASSUME NEW l, SubmitReceipt(l) PROVE gate'.op = "output"
      BY <3>1, Zenon DEF SubmitReceipt, Held
    <3>2. ASSUME RecordOutput PROVE gate'.op = "free"
      BY <3>2, Zenon DEF RecordOutput, Free, Held
    <3>3. ASSUME RecordOutputFails PROVE gate'.op = "free"
      BY <3>3, Zenon DEF RecordOutputFails, Free, Held
    <3>4. gate' = gate \/ gate'.op \in {"free", "output"}
      BY <1>3, <3>1, <3>2, <3>3, Zenon DEF WorkNext, ClaimWork, ClaimWorkFails, ClaimNext, Execute,
                                    SubmitReceiptFails, LeaseExpires
    <3> QED BY <3>4, Zenon
  <2>3. \/ ledger' = ledger
        \/ \E l \in assignments \cup executed, t \in {"job.claimed", "job.receipted"} :
             ledger' = Append(ledger, LeaseEvent(t, {l}))
        \/ ledger' = Append(ledger, LeaseEvent("artifact.output.recorded", gate.leases))
    BY <1>3, Zenon DEF WorkNext, ClaimWork, ClaimWorkFails, ClaimNext, Execute, SubmitReceipt,
                SubmitReceiptFails, RecordOutput, RecordOutputFails, LeaseExpires, Log
  <2>4. ASSUME NEW S \in SUBSET Lease,
               NEW t \in {"job.claimed", "job.receipted", "artifact.output.recorded"}
        PROVE  LeaseEvent(t, S) \in Event /\ LeaseEvent(t, S).type \notin IssueType
    BY EventTypes, Zenon DEF LeaseEvent, EventType, IssueType
  <2>5. PlainGrowth
    BY <1>0, <2>3, <2>4, Zenon DEF PlainGrowth
  <2> QED BY <2>1, <2>2, <2>5, StopIdle
<1> QED BY <1>1, <1>2, <1>3, Zenon

\* Before the first epoch there is nothing to fence.
LEMMA NothingIssued ==
    ASSUME WorkInv, dbEpoch = 0, NEW i \in DOMAIN ledger
    PROVE  Fenced(i)
<1>1. \A l \in ledger[i].leases : l \in Issued(ledger)
  BY LeaseRow DEF WorkInv
<1> QED BY <1>1, Zenon DEF WorkInv, LedgerInv, Fenced

\* A step that only moves the latch, the marker and the gate, and leaves no
\* latch matched by the marker that was not matched with everything fenced.
LEMMA LatchStep ==
    ASSUME IInv, UNCHANGED <<ledger, dbEpoch>>, gate'.op # "mark", phase' # "fenced",
           kill' = "absent" => marker' = 0, kill' \in {"present", "absent"},
           marker' \in {0, marker, dbEpoch}, latchedAt' \in {latchedAt, Len(ledger)},
           gate'.op \in {"stop", "stopped"} => kill' = "present",
           gate'.op = "resume" => marker' = 0,
           \/ kill' = "absent"
           \/ marker' # dbEpoch
           \/ \A i \in DOMAIN ledger : Fenced(i)
           \/ UNCHANGED <<kill, marker, latchedAt>>
    PROVE  StopInv' /\ StopFencesEarlierLeases'
<1>1. /\ ledger \in Seq(Event) /\ dbEpoch \in Nat /\ latchedAt \in Nat /\ marker \in Nat
      /\ marker <= dbEpoch /\ latchedAt <= Len(ledger)
  BY Zenon DEF IInv, WorkInv, TypeOK, StopInv
<1>2. marker' <= dbEpoch' /\ latchedAt' <= Len(ledger')
  <2>1. Len(ledger) \in Nat
    BY <1>1
  <2>2. 0 <= dbEpoch /\ dbEpoch <= dbEpoch /\ Len(ledger) <= Len(ledger)
    BY <1>1, <2>1
  <2> QED BY <1>1, <2>2, Zenon
<1>3. \A i \in DOMAIN ledger : Fenced(i) => Fenced(i)'
  BY Zenon DEF Fenced
<1>4. StopFencesEarlierLeases'
  BY <1>3, Zenon DEF IInv, StopFencesEarlierLeases, Latched
<1>5. /\ ~Latched' => marker' = 0
      /\ gate'.op \in {"stop", "stopped"} => Latched'
      /\ gate'.op = "resume" => marker' = 0
  BY Zenon DEF Latched
<1> QED BY <1>2, <1>4, <1>5, Zenon DEF StopInv

\* Advancing the epoch leaves no latch matched, and everything fenced.
LEMMA AdvanceStep ==
    ASSUME IInv, AdvanceEpoch, UNCHANGED <<kill, marker, latchedAt>>,
           gate'.op \in {"mark", "stop", "stopped"} \/ phase' = "fenced" => Latched,
           gate'.op = "resume" => marker = 0
    PROVE  StopInv' /\ StopFencesEarlierLeases'
<1>1. /\ \A i \in DOMAIN ledger' : Fenced(i)'
      /\ PlainGrowth /\ dbEpoch' = dbEpoch + 1
  BY AdvanceFences, Zenon DEF IInv
<1>2. /\ ledger \in Seq(Event) /\ latchedAt \in Nat /\ latchedAt <= Len(ledger)
      /\ marker \in Nat /\ dbEpoch \in Nat /\ marker <= dbEpoch
  BY Zenon DEF IInv, WorkInv, TypeOK, StopInv
<1>3. Len(ledger) \in Nat /\ Len(ledger') \in Nat /\ Len(ledger) <= Len(ledger')
  BY <1>1, <1>2, FencedGrowth, Zenon DEF PlainGrowth
<1>4. latchedAt' <= Len(ledger')
  BY <1>2, <1>3, Within, Zenon
<1>5. marker' <= dbEpoch' /\ marker' # dbEpoch'
  <2>1. \A a, b \in Nat : a <= b => a <= b + 1 /\ a # b + 1
    OBVIOUS
  <2> QED BY <1>1, <1>2, <2>1, Zenon
<1>6. StopFencesEarlierLeases'
  BY <1>5, Zenon DEF StopFencesEarlierLeases
<1>7. Latched' <=> Latched
  BY Zenon DEF Latched
<1>8. ~Latched' => marker' = 0
  BY <1>7, Zenon DEF IInv, StopInv
<1> QED BY <1>1, <1>4, <1>5, <1>6, <1>7, <1>8, Zenon DEF StopInv

\* STOP and RESUME keep what is said of them.
LEMMA StopStop ==
    ASSUME IInv, StopNext
    PROVE  StopInv' /\ StopFencesEarlierLeases'
<1> USE DEF durable, tables, calls, world
<1>0. /\ dbEpoch \in Nat /\ marker \in Nat /\ kill \in {"present", "absent"}
      /\ gate.op # "free" => Serving
      /\ Serving => epoch = dbEpoch /\ dbEpoch > 0 /\ phase # "fenced"
      /\ kill = "absent" => marker = 0
  BY Zenon DEF IInv, WorkInv, TypeOK, GateInv, StopInv, Latched, Serving
<1>1. CASE TrayLatch
  <2>1. /\ UNCHANGED <<ledger, dbEpoch, marker, gate, phase>> /\ kill' = "present"
        /\ latchedAt' = Len(ledger) /\ kill # "present" /\ marker = 0
    BY <1>0, <1>1, Zenon DEF TrayLatch, Latched
  <2>2. gate.op # "mark" /\ phase # "fenced"
    BY <2>1, Zenon DEF IInv, StopInv, Latched
  <2>3. dbEpoch = 0 => \A i \in DOMAIN ledger : Fenced(i)
    BY NothingIssued, Zenon DEF IInv
  <2>4. marker' # dbEpoch \/ \A i \in DOMAIN ledger : Fenced(i)
    BY <2>1, <2>3, Zenon
  <2>5. gate'.op = "resume" => marker' = 0
    BY <2>1, Zenon
  <2> QED BY <2>1, <2>2, <2>4, <2>5, LatchStep, Zenon
<1>2. CASE StopLatch
  <2>1. /\ UNCHANGED <<ledger, dbEpoch, marker, phase>> /\ kill' = "present"
        /\ latchedAt' \in {latchedAt, Len(ledger)} /\ gate'.op = "stop" /\ Serving
        /\ ~(kill = "present" /\ marker = epoch)
    BY <1>2, Zenon DEF StopLatch, Enters, Held, Latched
  <2>2. marker' # dbEpoch /\ phase' # "fenced"
    BY <1>0, <2>1
  <2> QED BY <2>1, <2>2, LatchStep, Zenon
<1>3. CASE StopAdvance
  <2>1. /\ UNCHANGED <<kill, marker, latchedAt, phase>> /\ AdvanceEpoch
        /\ gate'.op = "mark" /\ gate.op = "stop"
    BY <1>3, Zenon DEF StopAdvance, Held
  <2>2. Latched
    BY <2>1 DEF IInv, StopInv
  <2> QED BY <2>1, <2>2, AdvanceStep, Zenon
<1>4. CASE StopMark
  <2>1. /\ UNCHANGED <<ledger, dbEpoch, kill, latchedAt, phase>> /\ marker' = epoch
        /\ gate'.op = "stopped" /\ gate.op = "mark"
    BY <1>4, Zenon DEF StopMark, Held
  <2>2. kill = "present" /\ \A i \in DOMAIN ledger : Fenced(i)
    BY <2>1, Zenon DEF IInv, StopInv, Latched
  <2> QED BY <1>0, <2>1, <2>2, LatchStep, Zenon
<1>5. CASE StopFinish
  <2>1. /\ PlainEvent("fabric.owner_stop") \in Event
        /\ PlainEvent("fabric.owner_stop").type \notin IssueType
    BY EventTypes, Zenon DEF PlainEvent, EventType, IssueType
  <2>2. /\ UNCHANGED <<dbEpoch, kill, marker, latchedAt, phase>> /\ gate'.op = "free"
        /\ ledger' = Append(ledger, PlainEvent("fabric.owner_stop"))
    BY <1>5, Zenon DEF StopFinish, Log, Free, Held
  <2>3. PlainGrowth
    BY <2>1, <2>2 DEF PlainGrowth
  <2> QED BY <2>2, <2>3, StopIdle, Zenon
<1>6. CASE StopAborts
  <2>1. /\ UNCHANGED <<ledger, dbEpoch, kill, latchedAt, phase>> /\ marker' \in {marker, 0}
        /\ gate'.op = "free" /\ gate.op # "free"
    BY <1>6, Zenon DEF StopAborts, TornMarker, Free, Held
  <2>2. phase' # "fenced" /\ (marker' # dbEpoch \/ marker' = marker)
    BY <1>0, <2>1
  <2> QED BY <1>0, <2>1, <2>2, LatchStep, Zenon
<1>7. CASE ResumeUnmark
  <2>1. /\ UNCHANGED <<ledger, dbEpoch, kill, latchedAt, phase>> /\ marker' = 0
        /\ gate'.op = "resume" /\ Serving
    BY <1>7, Zenon DEF ResumeUnmark, Enters, Held
  <2>2. phase' # "fenced" /\ marker' # dbEpoch
    BY <1>0, <2>1
  <2> QED BY <1>0, <2>1, <2>2, LatchStep, Zenon
<1>8. CASE ResumeUnlatch \/ ResumeAborts
  <2>1. /\ PlainEvent("fabric.owner_resume") \in Event
        /\ PlainEvent("fabric.owner_resume").type \notin IssueType
    BY EventTypes, Zenon DEF PlainEvent, EventType, IssueType
  <2>2. /\ UNCHANGED <<dbEpoch, marker, latchedAt, phase>> /\ gate'.op = "free"
        /\ gate.op = "resume" /\ kill' \in {kill, "absent"}
        /\ \/ ledger' = ledger
           \/ ledger' = Append(ledger, PlainEvent("fabric.owner_resume"))
    <3>1. CASE ResumeUnlatch
      BY <3>1, Zenon DEF ResumeUnlatch, Log, Free, Held
    <3>2. CASE ResumeAborts
      BY <3>2, Zenon DEF ResumeAborts, Free, Held
    <3> QED BY <1>8, <3>1, <3>2, Zenon
  <2>3. PlainGrowth
    BY <2>1, <2>2, Zenon DEF PlainGrowth
  <2>4. marker = 0 /\ marker' # dbEpoch' /\ phase' # "fenced"
    BY <1>0, <2>2 DEF IInv, StopInv
  <2>5. ledger \in Seq(Event) /\ latchedAt \in Nat /\ latchedAt <= Len(ledger) /\ marker <= dbEpoch
    BY Zenon DEF IInv, WorkInv, TypeOK, StopInv
  <2>6. Len(ledger) \in Nat /\ Len(ledger') \in Nat /\ Len(ledger) <= Len(ledger')
    BY <1>0, <2>2, <2>3, <2>5, FencedGrowth, Zenon DEF PlainGrowth
  <2>7. latchedAt' <= Len(ledger') /\ marker' <= dbEpoch'
    BY <2>2, <2>5, <2>6, Within, Zenon
  <2>8. StopFencesEarlierLeases'
    BY <2>4 DEF StopFencesEarlierLeases
  <2> QED BY <2>2, <2>4, <2>7, <2>8, Zenon DEF StopInv
<1> QED BY <1>1, <1>2, <1>3, <1>4, <1>5, <1>6, <1>7, <1>8 DEF StopNext

\* Crash and startup keep what is said of STOP.
LEMMA StopBoot ==
    ASSUME IInv, BootNext
    PROVE  StopInv' /\ StopFencesEarlierLeases'
<1> USE DEF durable, tables, calls, world
<1>0. /\ dbEpoch \in Nat /\ marker \in Nat /\ kill \in {"present", "absent"}
      /\ gate.op # "free" => phase = "serving"
      /\ phase # "down" => dbEpoch > 0
      /\ kill = "absent" => marker = 0
  BY DEF IInv, WorkInv, TypeOK, Gate, GateInv, StopInv, Latched, Serving
<1>1. CASE Crash
  <2>1. /\ UNCHANGED <<ledger, dbEpoch, kill, latchedAt>> /\ marker' \in {marker, 0}
        /\ gate'.op = "free" /\ phase' = "down" /\ phase # "down"
    BY <1>1, Zenon DEF Crash, TornMarker, Quiet, Free, Held
  <2>2. marker' # dbEpoch \/ marker' = marker
    BY <1>0, <2>1
  <2> QED BY <1>0, <2>1, <2>2, LatchStep, Zenon
<1>2. CASE BootOpen
  <2>1. /\ UNCHANGED <<kill, marker, latchedAt, gate>> /\ phase' = "opened"
        /\ phase = "down"
        /\ AdvanceEpoch \/ UNCHANGED <<ledger, dbEpoch>>
    BY <1>2, Zenon DEF BootOpen
  <2>2. gate.op = "free"
    BY <1>0, <2>1, Zenon
  <2>3. CASE AdvanceEpoch
    BY <2>1, <2>2, <2>3, AdvanceStep, Zenon
  <2>4. CASE UNCHANGED <<ledger, dbEpoch>>
    BY <1>0, <2>1, <2>2, <2>4, LatchStep, Zenon
  <2> QED BY <2>1, <2>3, <2>4, Zenon
<1>3. CASE BootFence
  <2>1. /\ UNCHANGED <<kill, marker, latchedAt, gate>> /\ AdvanceEpoch
        /\ Latched /\ phase = "opened"
    BY <1>3, Zenon DEF BootFence, UnmatchedLatch
  <2>2. gate.op = "free"
    BY <1>0, <2>1, Zenon
  <2> QED BY <2>1, <2>2, AdvanceStep, Zenon
<1>4. CASE BootRestore
  <2>1. /\ UNCHANGED <<ledger, dbEpoch, kill, marker, latchedAt, gate>>
        /\ phase' = "serving" /\ phase = "opened"
    BY <1>4, Zenon DEF BootRestore, Restore
  <2>2. gate.op = "free"
    BY <1>0, <2>1, Zenon
  <2> QED BY <1>0, <2>1, <2>2, LatchStep, Zenon
<1>5. CASE BootMark
  <2>1. /\ UNCHANGED <<ledger, dbEpoch, kill, latchedAt, gate>> /\ marker' = dbEpoch
        /\ phase' = "serving" /\ phase = "fenced"
    BY <1>5, Zenon DEF BootMark, Restore
  <2>2. gate.op = "free"
    BY <1>0, <2>1, Zenon
  <2>3. kill = "present" /\ \A i \in DOMAIN ledger : Fenced(i)
    BY <2>1, Zenon DEF IInv, StopInv, Latched
  <2> QED BY <2>1, <2>2, <2>3, LatchStep, Zenon
<1> QED BY <1>1, <1>2, <1>3, <1>4, <1>5, Zenon DEF BootNext

\* A new installation satisfies the invariant.
LEMMA InvInit == Init => IInv
<1> SUFFICES ASSUME Init PROVE IInv
  OBVIOUS
<1>1. WorkInv
  BY WorkInit, Zenon
<1>2. /\ DOMAIN ledger = {} /\ Len(ledger) = 0 /\ marker = 0 /\ dbEpoch = 0 /\ latchedAt = 0
      /\ gate.op = "free" /\ phase = "down"
  BY DEF Init, Free, Held
<1>3. marker <= dbEpoch /\ latchedAt <= Len(ledger)
  BY <1>2
<1> QED BY <1>1, <1>2, <1>3, Zenon DEF IInv, StopInv, StopFencesEarlierLeases

\* Every step keeps the invariant.
LEMMA InvStep == IInv /\ [Next]_vars => IInv'
<1> SUFFICES ASSUME IInv, [Next]_vars PROVE IInv'
  OBVIOUS
<1>1. WorkInv'
  BY WorkStep, Zenon DEF IInv
<1>2. CASE UNCHANGED vars
  <2>1. PlainGrowth /\ UNCHANGED <<dbEpoch, kill, marker, latchedAt, gate, phase>>
    BY <1>2, Zenon DEF vars, durable, PlainGrowth
  <2>2. StopInv' /\ StopFencesEarlierLeases'
    BY <2>1, StopIdle, Zenon
  <2> QED BY <1>1, <2>2, Zenon DEF IInv
<1> QED BY <1>1, <1>2, StopStop, StopBoot, StopOthers, Zenon DEF Next, IInv

\* A STOP whose marker names the current epoch has fenced every lease issued
\* before its latch, over any crashes, torn markers and aborted handlers
\* (local_stop, local_resume and the startup of main).
THEOREM StopFences == Spec => []StopFencesEarlierLeases
<1>1. IInv => StopFencesEarlierLeases
  BY DEF IInv
<1> QED BY <1>1, InvInit, InvStep, PTL DEF Spec

-----------------------------------------------------------------------------
(***************************************************************************)
(* Controller implements LeaseAuthority: the stored epoch is the fence,    *)
(* and the leases the ledger has issued, claimed and receipted are the     *)
(* abstract sets.                                                          *)
(***************************************************************************)
\* The abstract state, read off the ledger, is the same after the step.
Kept ==
    /\ dbEpoch' = dbEpoch
    /\ Issued(ledger') = Issued(ledger)
    /\ Claimed(ledger') = Claimed(ledger)
    /\ Receipted(ledger') = Receipted(ledger)

\* A step that keeps the ledger, or adds a row without leases, is a stutter.
LEMMA PlainKept ==
    ASSUME ledger \in Seq(Event), dbEpoch' = dbEpoch,
           ledger' = ledger \/ \E e \in Event : e.leases = {} /\ ledger' = Append(ledger, e)
    PROVE  Kept
<1>1. CASE ledger' = ledger
  BY <1>1, Zenon DEF Kept
<1>2. ASSUME NEW e \in Event, e.leases = {}, ledger' = Append(ledger, e) PROVE Kept
  BY <1>2, PlainAppend, Zenon DEF Kept
<1> QED BY <1>1, <1>2, Zenon

\* An advance of the epoch is the abstract Fence.
LEMMA AdvanceIsFence ==
    ASSUME ledger \in Seq(Event), AdvanceEpoch
    PROVE  Authority!Fence
<1>1. /\ PlainEvent("authority.epoch.advanced") \in Event
      /\ PlainEvent("authority.epoch.advanced").leases = {}
  BY EventTypes, Zenon DEF EventType, PlainEvent
<1>2. /\ Issued(ledger') = Issued(ledger) /\ Claimed(ledger') = Claimed(ledger)
      /\ Receipted(ledger') = Receipted(ledger)
  BY <1>1, PlainAppend, Zenon DEF AdvanceEpoch, Log
<1> QED BY <1>2, Zenon DEF Authority!Fence, AdvanceEpoch

\* STOP and RESUME: only the advance of the epoch shows.
LEMMA StopIsFence ==
    ASSUME ledger \in Seq(Event), StopNext
    PROVE  Authority!Fence \/ Kept
<1> USE DEF durable, tables, calls, world
<1>1. CASE StopAdvance
  BY <1>1, AdvanceIsFence, Zenon DEF StopAdvance
<1>2. CASE StopFinish \/ ResumeUnlatch
  <2>1. \E e \in Event : e.leases = {} /\ ledger' = Append(ledger, e)
    BY <1>2, EventTypes, Zenon DEF StopFinish, ResumeUnlatch, Log, EventType, PlainEvent
  <2>2. dbEpoch' = dbEpoch
    BY <1>2, Zenon DEF StopFinish, ResumeUnlatch
  <2> QED BY <2>1, <2>2, PlainKept, Zenon
<1>3. CASE TrayLatch \/ StopLatch \/ StopMark \/ StopAborts \/ ResumeUnmark \/ ResumeAborts
  <2>1. UNCHANGED <<ledger, dbEpoch>>
    BY <1>3, Zenon DEF TrayLatch, StopLatch, StopMark, StopAborts, ResumeUnmark, ResumeAborts
  <2> QED BY <2>1, PlainKept, Zenon
<1> QED BY <1>1, <1>2, <1>3, Zenon DEF StopNext

\* Crash and startup: only an advance of the epoch shows.
LEMMA BootIsFence ==
    ASSUME ledger \in Seq(Event), BootNext
    PROVE  Authority!Fence \/ Kept
<1>1. AdvanceEpoch \/ UNCHANGED <<ledger, dbEpoch>>
  BY Zenon DEF BootNext, Crash, BootOpen, BootFence, BootRestore, BootMark, durable
<1> QED BY <1>1, AdvanceIsFence, PlainKept, Zenon

\* Enrolment, offers and revocation do not show.
LEMMA NodeIsStutter ==
    ASSUME ledger \in Seq(Event), NodeNext
    PROVE  Kept
<1> USE DEF durable, tables, calls, world
<1>1. dbEpoch' = dbEpoch
  BY Zenon DEF NodeNext, EnrollInsert, EnrollRecord, EnrollRecordFails, RegisterCheck,
         RegisterInsert, OfferExpires, RevokeNode
<1>2. \/ ledger' = ledger
      \/ \E n \in Nodes, t \in {"node.enrolled", "node.revoked"} :
           ledger' = Append(ledger, NodeEvent(t, n))
  BY BoundsAssumption, Zenon
     DEF NodeNext, EnrollInsert, EnrollRecord, EnrollRecordFails, RegisterCheck,
         RegisterInsert, OfferExpires, RevokeNode, Log
<1>3. ASSUME NEW n \in Nodes, NEW t \in {"node.enrolled", "node.revoked"}
      PROVE  NodeEvent(t, n) \in Event /\ NodeEvent(t, n).leases = {}
  BY EventTypes, Zenon DEF NodeEvent, EventType
<1> QED BY <1>1, <1>2, <1>3, PlainKept, Zenon

\* Admission: a publication is the abstract Issue, the rest does not show.
LEMMA AdmitIsIssue ==
    ASSUME WorkInv, AdmitNext
    PROVE  Authority!Issue \/ Kept
<1> USE DEF durable, tables, calls, world
<1>0. /\ ledger \in Seq(Event) /\ gate.leases \subseteq Lease /\ gate.sets \subseteq ShardSets
      /\ epoch \in Nat
  BY Zenon DEF WorkInv, TypeOK, Gate
<1>1. CASE SubmitPublish \/ SetPublish
  <2>1. /\ gate'.op = "free" /\ gate.op \in {"job", "set"}
        /\ UNCHANGED <<dbEpoch, batches, executed>>
    BY <1>1 DEF SubmitPublish, SetPublish, Free, Held
  <2>2. \A l \in gate.leases : l.epoch = dbEpoch /\ l.batch + 1 = batches
    BY <2>1, Zenon DEF WorkInv, GateInv
  <2>3. PICK e \in Event :
          /\ e.type \in IssueType /\ ledger' = Append(ledger, e)
          /\ \A l \in e.leases : l.epoch = dbEpoch /\ l.batch + 1 = batches
    <3>1. CASE SubmitPublish
      <4> DEFINE e == LeaseEvent("lease.issued", gate.leases)
      <4>1. e \in Event /\ e.type \in IssueType /\ e.leases = gate.leases
        BY <1>0, EventTypes, Zenon DEF LeaseEvent, EventType, IssueType
      <4>2. ledger' = Append(ledger, e)
        BY <3>1, Zenon DEF SubmitPublish, Log
      <4> HIDE DEF e
      <4> QED BY <2>2, <4>1, <4>2, Zenon
    <3>2. CASE SetPublish
      <4> DEFINE signed == {[l EXCEPT !.epoch = epoch] : l \in gate.leases}
      <4>1. signed \subseteq Lease /\ \A l \in signed : l.epoch = epoch
        BY <1>0, Zenon DEF Lease
      <4>2. \A l \in signed : \E m \in gate.leases : l.batch = m.batch
        BY <1>0 DEF Lease
      <4>3. PICK s \in gate.sets : ledger' = Append(ledger, SetEvent(s, signed))
        BY <3>2, Zenon DEF SetPublish, Log
      <4> HIDE DEF signed
      <4>4. /\ SetEvent(s, signed) \in Event /\ SetEvent(s, signed).type \in IssueType
            /\ SetEvent(s, signed).leases = signed
        BY <1>0, <4>1, <4>3, EventTypes, Zenon DEF SetEvent, IssueType
      <4>5. \A l \in signed : l.epoch = dbEpoch /\ l.batch + 1 = batches
        BY <2>1, <2>2, <4>1, <4>2, Zenon DEF WorkInv, GateInv
      <4> QED BY <4>3, <4>4, <4>5, Zenon
    <3> QED BY <1>1, <3>1, <3>2, Zenon
  <2>4. /\ Issued(ledger') = Issued(ledger) \cup e.leases
        /\ Claimed(ledger') = Claimed(ledger) /\ Receipted(ledger') = Receipted(ledger)
    BY <2>1, <2>3, IssueRow, Zenon
  <2>5. e.leases \subseteq Lease
    BY Zenon DEF Event
  <2> QED BY <2>1, <2>3, <2>4, <2>5, Zenon DEF Authority!Issue
<1>2. CASE ~(SubmitPublish \/ SetPublish)
  <2>1. UNCHANGED <<ledger, dbEpoch>>
    BY <1>2, Zenon DEF AdmitNext, SubmitCheck, SubmitAnswer, SubmitAuthorize, SetCheck, SetAnswer,
                SetPlan, StageFails
  <2> QED BY <1>0, <2>1, PlainKept, Zenon
<1> QED BY <1>1, <1>2, Zenon

\* Claims and receipts of current leases are the abstract ones; the rest of a
\* lease's life does not show.
LEMMA WorkIsClaimOrReceipt ==
    ASSUME WorkInv, WorkNext
    PROVE  Authority!Claim \/ Authority!Receipt \/ Kept
<1> USE DEF durable, tables, calls, world
<1>0. /\ ledger \in Seq(Event) /\ gate.leases \subseteq Lease /\ assignments \subseteq Lease
  BY DEF WorkInv, TypeOK, Gate
<1>1. ASSUME NEW n \in Nodes, NEW l \in assignments, ClaimWork(n, l) PROVE Authority!Claim
  <2>1. /\ ledger' = Append(ledger, LeaseEvent("job.claimed", {l})) /\ l \notin claimed
        /\ l.epoch = epoch /\ Serving /\ gate' = gate /\ gate.op = "free"
        /\ UNCHANGED <<dbEpoch, batches, executed>>
    BY <1>1 DEF ClaimWork, ClaimNext, Claimable, Log, Enters
  <2>2. l \in Issued(ledger) /\ l \notin Claimed(ledger) /\ l.epoch = dbEpoch
    BY <2>1, Zenon DEF WorkInv, TableInv, GateInv
  <2> DEFINE t == "job.claimed"
             S == {l}
  <2>3. /\ t \in EventType /\ S \in SUBSET Lease /\ t = "job.claimed"
        /\ S \subseteq Issued(ledger) \ Claimed(ledger)
        /\ gate'.op \notin {"job", "set"} /\ ledger' = Append(ledger, LeaseEvent(t, S))
    BY <1>0, <2>1, <2>2, Zenon DEF EventType
  <2> HIDE DEF t, S
  <2>4. /\ Issued(ledger') = Issued(ledger) /\ Claimed(ledger') = Claimed(ledger) \cup S
        /\ Receipted(ledger') = Receipted(ledger)
    BY <2>1, <2>3, ProgressRow, Zenon
  <2> QED BY <2>1, <2>2, <2>4, Zenon DEF Authority!Claim, S
<1>2. ASSUME NEW l \in executed, SubmitReceipt(l) PROVE Authority!Receipt
  <2>1. /\ ledger' = Append(ledger, LeaseEvent("job.receipted", {l})) /\ l \in assignments
        /\ l.epoch = epoch /\ Serving /\ gate'.op = "output"
        /\ UNCHANGED <<dbEpoch, batches, executed>>
    BY <1>2, Zenon DEF SubmitReceipt, AcceptReceipt, Log, Enters, Held
  <2>2. l \in Claimed(ledger) /\ l \notin Receipted(ledger) /\ l.epoch = dbEpoch
    BY <2>1, Zenon DEF WorkInv, LedgerInv, TableInv, GateInv
  <2> DEFINE t == "job.receipted"
             S == {l}
  <2>3. /\ t \in EventType /\ S \in SUBSET Lease /\ t = "job.receipted"
        /\ S \subseteq Claimed(ledger) \ Receipted(ledger)
        /\ gate'.op \notin {"job", "set"} /\ ledger' = Append(ledger, LeaseEvent(t, S))
    BY <1>0, <2>1, <2>2, Zenon DEF EventType
  <2> HIDE DEF t, S
  <2>4. /\ Issued(ledger') = Issued(ledger) /\ Claimed(ledger') = Claimed(ledger)
        /\ Receipted(ledger') = Receipted(ledger) \cup S
    BY <2>1, <2>3, ProgressRow, Zenon
  <2> QED BY <2>1, <2>2, <2>4, Zenon DEF Authority!Receipt, S
<1>3. CASE RecordOutput
  <2>1. /\ ledger' = Append(ledger, LeaseEvent("artifact.output.recorded", gate.leases))
        /\ gate'.op = "free" /\ gate.op = "output" /\ UNCHANGED <<dbEpoch, batches, executed>>
    BY <1>3, Zenon DEF RecordOutput, Log, Free, Held
  <2>2. gate.leases \subseteq Receipted(ledger)
    BY <2>1, Zenon DEF WorkInv, GateInv
  <2> DEFINE t == "artifact.output.recorded"
  <2>3. /\ t \in EventType /\ t = "artifact.output.recorded" /\ t # "job.claimed"
        /\ t # "job.receipted" /\ gate'.op \notin {"job", "set"}
        /\ ledger' = Append(ledger, LeaseEvent(t, gate.leases))
    BY <2>1 DEF EventType
  <2> HIDE DEF t
  <2>4. /\ Issued(ledger') = Issued(ledger) /\ Claimed(ledger') = Claimed(ledger)
        /\ Receipted(ledger') = Receipted(ledger)
    <3>1. gate.leases \in SUBSET Lease
      BY <1>0, Zenon
    <3>2. /\ Issued(ledger') = Issued(ledger)
          /\ Claimed(ledger') = Claimed(ledger) \cup (IF t = "job.claimed" THEN gate.leases ELSE {})
          /\ Receipted(ledger') = Receipted(ledger)
                                  \cup (IF t = "job.receipted" THEN gate.leases ELSE {})
      BY <2>1, <2>2, <2>3, <3>1, ProgressRow, Zenon
    <3> QED BY <2>3, <3>2, Zenon
  <2> QED BY <2>1, <2>4, Zenon DEF Kept
<1>4. ASSUME NEW n \in Nodes, NEW l \in assignments, ClaimWorkFails(n, l) PROVE Kept
  BY <1>0, <1>4, PlainKept, Zenon DEF ClaimWorkFails, ClaimNext
<1>5. ASSUME NEW l, Execute(l) \/ SubmitReceiptFails(l) \/ LeaseExpires(l) PROVE Kept
  BY <1>0, <1>5, PlainKept, Zenon DEF Execute, SubmitReceiptFails, AcceptReceipt, LeaseExpires
<1>6. CASE RecordOutputFails
  BY <1>0, <1>6, PlainKept, Zenon DEF RecordOutputFails
<1> QED BY <1>1, <1>2, <1>3, <1>4, <1>5, <1>6, Zenon DEF WorkNext

\* Every step of the controller is a step of LeaseAuthority or a stutter.
LEMMA AuthorityStep == WorkInv /\ [Next]_vars => [Authority!ANext]_(Authority!avars)
<1> SUFFICES ASSUME WorkInv, [Next]_vars PROVE [Authority!ANext]_(Authority!avars)
  OBVIOUS
<1>1. ledger \in Seq(Event)
  BY DEF WorkInv, TypeOK
<1>2. ASSUME Kept PROVE UNCHANGED Authority!avars
  BY <1>2, Zenon DEF Kept, Authority!avars
<1>3. CASE UNCHANGED vars
  BY <1>3, Zenon DEF vars, durable, Authority!avars
<1>4. CASE Next
  <2>1. \/ Authority!Issue \/ Authority!Claim \/ Authority!Receipt \/ Authority!Fence
        \/ Kept
    BY <1>1, <1>4, StopIsFence, BootIsFence, NodeIsStutter, AdmitIsIssue,
       WorkIsClaimOrReceipt, Zenon DEF Next
  <2> QED BY <1>2, <2>1, Zenon DEF Authority!ANext
<1> QED BY <1>3, <1>4

\* A new installation is an initial state of LeaseAuthority.
LEMMA AuthorityInit == Init => Authority!AInit
<1> SUFFICES ASSUME Init PROVE Authority!AInit
  OBVIOUS
<1>1. ledger = <<>> /\ DOMAIN ledger = {} /\ dbEpoch = 0
  BY DEF Init
<1>2. \A T : LeasesOf(ledger, T) = {}
  BY <1>1, Zenon DEF LeasesOf
<1> QED BY <1>1, <1>2, Zenon DEF Authority!AInit, Issued, Claimed, Receipted

\* The controller implements LeaseAuthority: what its ledger records is a
\* behaviour in which leases are claimed and receipted once, in order and only
\* in their own epoch (claim_work, submit_receipt, local_stop, startup).
THEOREM ControllerRefinesAuthority == Spec => AuthorityRefinement
<1>1. WorkInv /\ [Next]_vars => [Authority!ANext]_(Authority!avars)
  BY AuthorityStep
<1> QED BY <1>1, AuthorityInit, WorkInit, WorkStep, PTL
     DEF Spec, AuthorityRefinement, Authority!ASpec
=============================================================================
