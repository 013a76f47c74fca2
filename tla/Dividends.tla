----------------------------- MODULE Dividends -----------------------------
(***************************************************************************)
(* record_dividend: a benchmark result is recorded once for its shard set, *)
(* after it is compared with the set's leases and the signed receipts of   *)
(* its jobs.  Handlers hold no lock from the look-up to the append, and    *)
(* receipts arrive meanwhile.  A result is [set, nodes], where nodes maps  *)
(* each job to the node and the figures claimed for it.                    *)
(***************************************************************************)
EXTENDS Integers, Sequences, FiniteSets

CONSTANTS
  Requests,        \* the requests, each of which is posted once
  Result(_),       \* the result a request carries
  Shards(_),       \* the jobs of a shard set
  LeaseNode(_),    \* the node a job is leased to
  Receipt(_),      \* what the job's node signs: [state, figures]
  MaxLost          \* bound on failing appends

VARIABLES
  receipted,       \* jobs with a receipt, in memory and in the ledger
  ledger,          \* the dividends recorded, in order
  req,             \* req[r]: "new", "checked", or the answer
  lost
dividendVars == <<receipted, ledger, req, lost>>

Sets == {Result(r).set : r \in Requests}
Jobs == UNION {Shards(s) : s \in Sets}

Recorded == {ledger[i] : i \in DOMAIN ledger}

DividendsTypeOK ==
  /\ receipted \subseteq Jobs
  /\ Recorded \subseteq {Result(r) : r \in Requests}
  /\ req \in [Requests -> {"new", "checked", "accepted", "ok", "conflict", "error"}]
  /\ lost \in 0..MaxLost

DividendsInit ==
  /\ receipted = {}
  /\ ledger = <<>>
  /\ req = [r \in Requests |-> "new"]
  /\ lost = 0

\* submit_receipt: the receipt is in the ledger and in completed_receipts.
Complete(j) ==
  /\ j \in Jobs \ receipted
  /\ receipted' = receipted \cup {j}
  /\ UNCHANGED <<ledger, req, lost>>

\* validate_dividend_evidence: the result covers the set's jobs exactly, each
\* on the node that leased it, with the figures of its successful receipt.
Backed(result) ==
  /\ DOMAIN result.nodes = Shards(result.set)
  /\ \A j \in DOMAIN result.nodes :
       /\ result.nodes[j].node = LeaseNode(j)
       /\ j \in receipted
       /\ Receipt(j).state = "succeeded"
       /\ result.nodes[j].figures = Receipt(j).figures

\* The records of a set, and the one the handler meets first.
Earlier(s) == {i \in DOMAIN ledger : ledger[i].set = s}
First(s) == ledger[CHOOSE i \in Earlier(s) : \A k \in Earlier(s) : i <= k]

\* A variant: any earlier record of the set answers ok.
LookUpAny(r) ==
  /\ req[r] = "new"
  /\ LET result == Result(r)
     IN  req' = [req EXCEPT ![r] = IF Earlier(result.set) # {} THEN "ok"
                                   ELSE IF Backed(result) THEN "checked" ELSE "conflict"]
  /\ UNCHANGED <<receipted, ledger, lost>>

\* The first half of the handler: an earlier record settles the answer, and
\* evidence that does not match refuses the result.
LookUp(r) ==
  /\ req[r] = "new"
  /\ LET result == Result(r)
     IN  req' = [req EXCEPT ![r] =
           IF Earlier(result.set) # {} THEN IF First(result.set) = result THEN "ok" ELSE "conflict"
           ELSE IF Backed(result) THEN "checked" ELSE "conflict"]
  /\ UNCHANGED <<receipted, ledger, lost>>

\* The second half: the append.
RecordDividend(r) ==
  /\ req[r] = "checked"
  /\ \/ /\ ledger' = Append(ledger, Result(r))
        /\ req' = [req EXCEPT ![r] = "accepted"]
        /\ UNCHANGED lost
     \/ /\ lost < MaxLost
        /\ lost' = lost + 1
        /\ req' = [req EXCEPT ![r] = "error"]
        /\ UNCHANGED ledger
  /\ UNCHANGED receipted

DividendsNext ==
  \/ \E j \in Jobs : Complete(j)
  \/ \E r \in Requests : LookUp(r) \/ RecordDividend(r)

DividendsSpec == DividendsInit /\ [][DividendsNext]_dividendVars

-----------------------------------------------------------------------------
(* Properties *)

\* A dividend in the ledger, and every answer that says so, rests on signed
\* receipts for all jobs of its set, whichever order receipts and requests
\* came in.  Two requests for one set that both look it up before either
\* appends are both recorded; by this property they agree on every figure.
DividendIsBacked ==
  /\ \A d \in Recorded : Backed(d)
  /\ \A r \in Requests : req[r] \in {"accepted", "ok"} => Result(r) \in Recorded
=============================================================================
