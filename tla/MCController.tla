---------------------------- MODULE MCController ----------------------------
(***************************************************************************)
(* Small instances of Controller for TLC.  The jobs and shard sets are     *)
(* chosen so that retries, reused keys and reused job ids all occur.       *)
(***************************************************************************)
EXTENDS Controller

LOCAL INSTANCE SequencesExt

CONSTANTS n1, n2, j1, j2, j3, k1, k2, k3, s1, s2

Job(j, k) == [id |-> j, key |-> k]

NoSets == {}
\* Two submissions that reuse one job id under different keys.
ReusedId == {Job(j1, k1), Job(j1, k2)}
\* Two jobs under one idempotency key.
ReusedKey == {Job(j1, k1), Job(j2, k1)}
OneJob == {Job(j1, k1)}
TwoJobs == {Job(j1, k1), Job(j2, k2)}
ThreeJobs == TwoJobs \cup {Job(j3, k3)}
\* One set of two jobs.
PairSet == {[id |-> s1, key |-> k3, jobs |-> TwoJobs]}
\* Two sets of one job that share their set id but not their key.
RivalSets == {[id |-> s1, key |-> k1, jobs |-> OneJob],
              [id |-> s1, key |-> k2, jobs |-> OneJob]}

\* A process that is not running, in an installation of the first epoch.
Cold ==
    /\ dbEpoch = 1 /\ kill = "absent" /\ marker = 0 /\ latchedAt = 0
    /\ phase = "down" /\ epoch = 0
    /\ nodes = {} /\ offers = {} /\ assignments = {} /\ claimed = {}
    /\ idempotency = {} /\ reservations = {} /\ completed = {} /\ shardSets = {}
    /\ gate = Free
    /\ waitingJobs = {} /\ waitingSets = {} /\ enrolling = {} /\ registering = {}
    /\ batches = 0 /\ expired = {} /\ executed = {}

\* An installation that has run before: first epoch, the nodes of S enrolled.
RunBefore(S) ==
    /\ \E order \in SetToSeqs(S) :
        ledger = <<PlainEvent("authority.epoch.advanced")>>
                 \o [i \in 1 .. Len(order) |-> NodeEvent("node.enrolled", order[i])]
    /\ Cold

WarmSpec == RunBefore(Nodes) /\ [][Next]_vars

-----------------------------------------------------------------------------
(***************************************************************************)
(* Two instances in one: "keys", two jobs under one idempotency key on two *)
(* workers while appends succeed, and "sets", the rival sets on the one    *)
(* worker, which may be forgotten and enrol again.  The ledger tells them  *)
(* apart: only the first has both workers enrolled.                        *)
(***************************************************************************)
OfKeys == \E i \in 1 .. 3 : i <= Len(ledger) /\ n2 \in ledger[i].nodes

\* Single jobs and their receipts, no append failing.
KeysPart ==
    \/ StopNext \/ BootNext \/ SubmitPublish \/ StageFails \/ RecordOutput
    \/ RevokeNode(n1)
    \/ \E n \in Nodes : RegisterCheck(n) \/ RegisterInsert(n) \/ OfferExpires(n)
    \/ \E j \in Jobs : \/ SubmitCheck(j) \/ SubmitAnswer(j)
                       \/ \E n \in Nodes : SubmitAuthorize(j, n)
    \/ \E n \in Nodes, l \in assignments : ClaimWork(n, l)
    \/ \E l \in Claimed(ledger) : Execute(l)
    \/ \E l \in executed : SubmitReceipt(l)
    \/ \E l \in Issued(ledger) : LeaseExpires(l)

\* An enrolment under way has its place in the ledger kept.
SetsPart ==
    /\ Next
    /\ waitingJobs' \subseteq OneJob
    /\ Len(ledger') + Cardinality(enrolling') <= 5

\* Nobody is enrolling in the first part.
KeysNext ==
    \/ \E n \in Joining : EnrollRecord(n) \/ EnrollRecordFails(n)
    \/ IF OfKeys THEN KeysPart ELSE SetsPart

KeysSpec == (RunBefore({n1}) \/ RunBefore(Nodes)) /\ [][KeysNext]_vars
=============================================================================
