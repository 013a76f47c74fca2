---------------------------- MODULE Diagnostics ----------------------------
(***************************************************************************)
(* The controller's self-scan: refresh_diagnostics snapshots the registries*)
(* and the ledger, builds a report, derives the nodes placement must avoid *)
(* and publishes all of it, each change with an event in the ledger first. *)
(* It takes no lock over the whole: the minute's loop, GET self-scan, POST *)
(* repair and the revocation of a node run it side by side.                *)
(*                                                                         *)
(* What a live offer says is the set of its conditions; those that lead to *)
(* a finding of the same kind (a slow link, an empty inventory, a missing  *)
(* capability contract) are one condition.                                 *)
(***************************************************************************)
EXTENDS Naturals, FiniteSets

CONSTANTS
  Workers,
  Conditions,   \* a subset of DOMAIN Severity
  Scans,        \* concurrent callers of refresh_diagnostics; "loop" is one
  Absences,     \* how many more nodes may be enrolled and silent
  Counts,       \* how many denials, failures, under-replicated artifacts
  MaxAge,       \* seconds the proof ages
  MaxChanges,   \* changes of the facts
  MaxFailures,    \* appends that fail, restarts
  None

VARIABLES
  facts,        \* what a scan reads
  constraints,  \* autonomous_constraints
  digest,       \* diagnostic_digest
  report,       \* diagnostic_report
  applied,      \* the diagnostic.autonomy.applied events of the ledger
  completed,    \* the last diagnostic.self_scan.completed event
  scan,         \* [Scans -> a scan in progress]
  changes, failures

scanVars == <<facts, constraints, digest, report, applied, completed, scan, changes, failures>>

(* Severity of the finding an offer's condition leads to: little thermal   *)
(* headroom, a low battery, a signed endpoint without a route, a link or   *)
(* an inventory below par, idle capacity or local polling.                 *)
Severity ==
  [hot |-> "warning", flat |-> "warning", unrouted |-> "critical",
   poor |-> "warning", idle |-> "info"]

Suppressing == {"hot", "flat", "unrouted"}

(* The newest Compute Dividend: the nodes it measured and its standing.    *)
Proofs == [nodes : SUBSET Workers, is : {"fresh", "stale", "invalid"}]

Facts == [enrolled : SUBSET Workers, offers : [Workers -> {None} \cup SUBSET Conditions],
          absent : Absences, kill : BOOLEAN, proof : {None} \cup Proofs,
          age : 0..MaxAge, denials : Counts, failed : Counts, under : Counts]

-----------------------------------------------------------------------------
(* build_diagnostic_report.                                                *)

Live(f) == { n \in Workers : f.offers[n] # None }

FabricFindings(f) ==
  (IF f.kill THEN {<<"critical", "OWNER_STOP_ACTIVE", "fabric">>} ELSE {})
  \cup (IF f.enrolled = {} /\ f.absent = 0
        THEN {<<"warning", "NO_ENROLLED_CONTRIBUTORS", "fabric">>} ELSE {})
  \cup { <<"warning", "NODE_WITHOUT_LIVE_OFFER", n>> : n \in f.enrolled \ Live(f) }

OfferFindings(f) ==
  UNION { { <<Severity[c], c, n>> : c \in f.offers[n] } : n \in Live(f) }

DividendFindings(f) ==
  IF f.proof = None
  THEN IF Cardinality(Live(f)) >= 2 THEN {<<"info", "COMPUTE_DIVIDEND_MISSING", "fabric">>} ELSE {}
  ELSE CASE f.proof.is = "invalid" -> {<<"critical", "COMPUTE_DIVIDEND_CONTRACT_INVALID", "fabric">>}
         [] f.proof.is = "stale"   -> {<<"warning", "COMPUTE_DIVIDEND_STALE", "fabric">>}
         [] f.proof.is = "fresh" /\ f.proof.nodes # Live(f) ->
              {<<"info", "COMPUTE_DIVIDEND_TOPOLOGY_CHANGED", "fabric">>}
         [] OTHER -> {}

HistoryFindings(f) ==
  (IF f.denials >= 3 THEN {<<"warning", "REPEATED_AUTHORITY_DENIALS", "fabric">>} ELSE {})
  \cup (IF f.failed >= 2 THEN {<<"critical", "REPEATED_EXECUTION_FAILURES", "fabric">>} ELSE {})

StorageFindings(f) ==
  IF f.under > 0 THEN {<<"warning", "PROTECTED_ARTIFACT_UNDER_REPLICATED", "store">>} ELSE {}

Findings(f) == FabricFindings(f) \cup OfferFindings(f) \cup DividendFindings(f)
               \cup HistoryFindings(f) \cup StorageFindings(f)

(* Counts are cast to u8; the arithmetic saturates.                        *)
Count(found, severity) == Cardinality({ x \in found : x[1] = severity })
Criticals(f) == Count(Findings(f), "critical") % 256
Warnings(f)  == (Count(Findings(f), "warning") + f.absent) % 256

Least(a, b) == IF a < b THEN a ELSE b

Less(a, b) == IF a > b THEN a - b ELSE 0

HealthScore(f) ==
  IF f.kill THEN 0
  ELSE Less(Less(100, Least(255, Criticals(f) * 25)), Least(255, Warnings(f) * 8))

Status(f) ==
  CASE f.kill -> "stopped"
    [] ~f.kill /\ HealthScore(f) < 70 -> "degraded"
    [] ~f.kill /\ HealthScore(f) >= 70 /\ HealthScore(f) < 90 -> "attention"
    [] ~f.kill /\ HealthScore(f) >= 90 -> "healthy"

(* What the evidence digest covers: status, score, findings and metrics,   *)
(* the counts and the age of the newest proof among them.                  *)
Metrics(f) ==
  [enrolled |-> Cardinality(f.enrolled) + f.absent, live |-> Cardinality(Live(f)),
   denials |-> f.denials, failed |-> f.failed, under |-> f.under,
   proofs |-> f.proof # None, age |-> f.age]

BuildReport(f) ==
  [status |-> Status(f), score |-> HealthScore(f), metrics |-> Metrics(f),
   findings |-> Findings(f)]

(* derive_autonomous_constraints; the governor allows the three actions.   *)
Excluded(found) == { x[3] : x \in { y \in found : y[2] \in Suppressing } }
Derive(r) == [digest |-> r, excluded |-> Excluded(r.findings)]

-----------------------------------------------------------------------------
(* refresh_diagnostics, one step per access to shared state.               *)

NoScan == [pc |-> "idle", report |-> None]
Failure == failures < MaxFailures /\ failures' = failures + 1
To(s, pc) == scan' = [scan EXCEPT ![s].pc = pc]

Snapshot(s) ==
  /\ scan[s].pc = "idle"
  /\ scan' = [scan EXCEPT ![s] = [pc |-> "compare", report |-> BuildReport(facts)]]
  /\ UNCHANGED <<facts, constraints, digest, report, applied, completed, changes, failures>>

(* A variant: constraints are published without their event.               *)
CompareUnlogged(s) ==
  /\ scan[s].pc = "compare"
  /\ To(s, IF constraints = Derive(scan[s].report) THEN "digest" ELSE "publish")
  /\ UNCHANGED <<facts, constraints, digest, report, applied, completed, changes, failures>>

CompareConstraints(s) ==
  /\ scan[s].pc = "compare"
  /\ To(s, IF constraints = Derive(scan[s].report) THEN "digest" ELSE "apply")
  /\ UNCHANGED <<facts, constraints, digest, report, applied, completed, changes, failures>>

(* The event first; an append that fails ends the scan.                    *)
AppendApplied(s) ==
  /\ scan[s].pc = "apply"
  /\ \/ /\ applied' = applied \cup {Derive(scan[s].report)} /\ To(s, "publish")
        /\ UNCHANGED failures
     \/ Failure /\ scan' = [scan EXCEPT ![s] = NoScan] /\ UNCHANGED applied
  /\ UNCHANGED <<facts, constraints, digest, report, completed, changes>>

PublishConstraints(s) ==
  /\ scan[s].pc = "publish" /\ To(s, "digest")
  /\ constraints' = Derive(scan[s].report)
  /\ UNCHANGED <<facts, digest, report, applied, completed, changes, failures>>

(* A variant: a report whose digest is known is not published again.       *)
SkipsUnchanged(s) ==
  /\ scan[s].pc = "digest"
  /\ IF digest = scan[s].report THEN scan' = [scan EXCEPT ![s] = NoScan] ELSE To(s, "complete")
  /\ UNCHANGED <<facts, constraints, digest, report, applied, completed, changes, failures>>

CompareDigest(s) ==
  /\ scan[s].pc = "digest"
  /\ To(s, IF digest = scan[s].report THEN "report" ELSE "complete")
  /\ UNCHANGED <<facts, constraints, digest, report, applied, completed, changes, failures>>

AppendCompleted(s) ==
  /\ scan[s].pc = "complete"
  /\ \/ /\ completed' = scan[s].report /\ To(s, "note") /\ UNCHANGED failures
     \/ Failure /\ scan' = [scan EXCEPT ![s] = NoScan] /\ UNCHANGED completed
  /\ UNCHANGED <<facts, constraints, digest, report, applied, changes>>

NoteDigest(s) ==
  /\ scan[s].pc = "note" /\ To(s, "report") /\ digest' = scan[s].report
  /\ UNCHANGED <<facts, constraints, report, applied, completed, changes, failures>>

PublishReport(s) ==
  /\ scan[s].pc = "report" /\ scan' = [scan EXCEPT ![s] = NoScan]
  /\ report' = scan[s].report
  /\ UNCHANGED <<facts, constraints, digest, applied, completed, changes, failures>>

ScanStep(s) ==
  \/ CompareConstraints(s) \/ AppendApplied(s) \/ PublishConstraints(s)
  \/ CompareDigest(s) \/ AppendCompleted(s) \/ NoteDigest(s) \/ PublishReport(s)

(* A start of the controller scans before it serves: memory is empty, so   *)
(* everything is appended.                                                 *)
StartScans ==
  /\ Failure /\ scan' = [s \in Scans |-> NoScan]
  /\ LET r == BuildReport(facts)
     IN  /\ constraints' = Derive(r) /\ applied' = applied \cup {Derive(r)}
         /\ digest' = r /\ completed' = r /\ report' = r
  /\ UNCHANGED <<facts, changes>>

(* Registries, ledger and latch change under the scans' feet: enrolment,   *)
(* signed offers and their expiry, revocation, STOP, a Compute Dividend.   *)
FactsChange ==
  /\ changes < MaxChanges /\ changes' = changes + 1
  /\ \/ \E n \in facts.enrolled, o \in {None} \cup SUBSET Conditions :
          facts' = [facts EXCEPT !.offers[n] = o]
     \/ \E n \in facts.enrolled :
          facts' = [facts EXCEPT !.enrolled = @ \ {n}, !.offers[n] = None]
     \/ \E n \in Workers \ facts.enrolled : facts' = [facts EXCEPT !.enrolled = @ \cup {n}]
     \/ facts' = [facts EXCEPT !.kill = ~@]
     \/ \E x \in Absences : facts' = [facts EXCEPT !.absent = x]
     \/ facts' = [facts EXCEPT !.proof = [nodes |-> Live(facts), is |-> "fresh"], !.age = 0]
     \/ /\ facts.proof # None
        /\ \E x \in {"stale", "invalid"} : facts' = [facts EXCEPT !.proof.is = x]
     \/ \E x \in Counts : \/ facts' = [facts EXCEPT !.denials = x]
                          \/ facts' = [facts EXCEPT !.failed = x]
                          \/ facts' = [facts EXCEPT !.under = x]
  /\ UNCHANGED <<constraints, digest, report, applied, completed, scan, failures>>

Tick ==
  /\ facts.proof # None /\ facts.age < MaxAge /\ facts' = [facts EXCEPT !.age = @ + 1]
  /\ UNCHANGED <<constraints, digest, report, applied, completed, scan, changes, failures>>

-----------------------------------------------------------------------------
ScanInit ==
  /\ facts = [enrolled |-> Workers, offers |-> [n \in Workers |-> {}], absent |-> 0,
              kill |-> FALSE, proof |-> None, age |-> 0, denials |-> 0, failed |-> 0, under |-> 0]
  /\ LET r == BuildReport(facts)
     IN  /\ constraints = Derive(r) /\ applied = {Derive(r)}
         /\ digest = r /\ completed = r /\ report = r
  /\ scan = [s \in Scans |-> NoScan] /\ changes = 0 /\ failures = 0

ScanNext == \/ FactsChange \/ Tick \/ StartScans
        \/ \E s \in Scans : Snapshot(s) \/ ScanStep(s)

ScanSpec == ScanInit /\ [][ScanNext]_scanVars

(* The loop ticks, and a scan that began is a function that returns.       *)
FairScanSpec == ScanSpec /\ WF_scanVars(Snapshot("loop")) /\ \A s \in Scans : WF_scanVars(ScanStep(s))

-----------------------------------------------------------------------------
(* Type correctness of the facts and of the scans.                         *)
ScanTypeOK ==
  /\ facts \in Facts
  /\ \A s \in Scans : scan[s].pc \in {"idle", "compare", "apply", "publish", "digest",
                                      "complete", "note", "report"}
  /\ constraints.excluded \subseteq Workers /\ report.score \in 0..255

(* Placement never obeys a constraint the ledger has no evidence of, with  *)
(* scans side by side, appends that fail and restarts.                     *)
AppliedIsLedgered == constraints \in applied

(* A published report says healthy only with no critical finding and at    *)
(* most one warning, at most one node silent, and stopped exactly under    *)
(* STOP.  256 silent nodes would wrap the count; Absences stays below.     *)
StatusIsEarned ==
  /\ report.status = "healthy" =>
       /\ Count(report.findings, "critical") = 0 /\ Count(report.findings, "warning") <= 1
       /\ report.metrics.enrolled <= report.metrics.live + 1
  /\ (report.status = "stopped") = (<<"critical", "OWNER_STOP_ACTIVE", "fabric">> \in report.findings)

(* placement_offers.                                                       *)
PlacementOffers == Live(facts) \ constraints.excluded

Converged ==
  /\ PlacementOffers = { n \in Live(facts) : facts.offers[n] \cap Suppressing = {} }
  /\ report = BuildReport(facts)

(* Once the facts rest, placement avoids exactly the nodes they speak      *)
(* against and the report is theirs: a scan that overtook another is       *)
(* corrected by the next.                                                  *)
Converges == <>[]Converged

(* A self-scan event is appended only when something other than the clock  *)
(* has changed since the last one.                                         *)
EventMeansChange ==
  [][completed' # completed =>
       [completed' EXCEPT !.metrics.age = 0] # [completed EXCEPT !.metrics.age = 0]]_scanVars
=============================================================================
