------------------------------- MODULE Worker -------------------------------
(***************************************************************************)
(* One worker process and what the controller keeps about it.  The same    *)
(* node runs as the desktop worker loop ("serve"), as the one-item command *)
(* ("once"), both in rampage-agent, or as the mobile edge worker ("edge"), *)
(* in rampage-edge.  Every control request is answered once, late or not   *)
(* at all: a request whose deadline has passed may still reach the         *)
(* controller, and an answer may be lost after the controller has acted.   *)
(* A crash loses what is in memory (the call, the executor thread, the     *)
(* loop) and keeps what is on disk.                                        *)
(***************************************************************************)
EXTENDS Naturals, FiniteSets

CONSTANTS Jobs,       \* the jobs the controller may assign to this node
          Kinds,      \* the ways the process is started
          MaxFaults,  \* bound: crashes, lost requests and lost answers
          MaxStops    \* bound: owner STOPs, local or at the controller

VARIABLES kind,    \* how this node runs
          disk,    \* the node's files: kill latch, enrolment, outbox, nonces
          pc,      \* where the process is
          call,    \* the outstanding control request, or None
          reply,   \* its answer, or None
          late,    \* requests given up on that may still arrive
          exec,    \* the executor: phase and job
          link,    \* readiness, the link probe and its benchmark
          ctl,     \* the controller: invite, enrolment, assignments, receipts
          ran,     \* how often each job has been run on this node
          faults, stops

vars == <<kind, disk, pc, call, reply, late, exec, link, ctl, ran, faults, stops>>

None == "none"

ASSUME WorkerAssumption == None \notin Jobs /\ Kinds \subseteq {"serve", "once", "edge"}

Idle == [phase |-> "idle", job |-> None]
Unready == [ready |-> FALSE, probing |-> FALSE, bench |-> FALSE]
Request(op, arg) == [op |-> op, arg |-> arg]
NoCall == Request(None, None)

(* The files of a node that has an invitation and has never been started.  *)
FreshDisk == [kill |-> FALSE, invite |-> TRUE, marker |-> FALSE, pin |-> FALSE,
              identity |-> FALSE, outbox |-> None, nonces |-> {}]

Init ==
  /\ kind \in Kinds
  /\ disk = FreshDisk
  /\ pc = "off" /\ call = NoCall /\ reply = None /\ late = {}
  /\ exec = Idle /\ link = Unready
  /\ ctl = [invite |-> "open", enrolled |-> FALSE,
            asg |-> [j \in Jobs |-> None], done |-> {}]
  /\ ran = [j \in Jobs |-> 0]
  /\ faults = 0 /\ stops = 0

-----------------------------------------------------------------------------
(* The controller's answers.  Each is <<the controller afterwards, answer>>. *)

EnrollNode(c) ==
  IF c.invite = "open" THEN <<[c EXCEPT !.invite = "spent", !.enrolled = TRUE], "ok">>
                       ELSE <<c, "refused">>

RegisterOffer(c) == <<c, IF c.enrolled THEN "ok" ELSE "refused">>

Open(c) == {j \in Jobs : c.asg[j] = "open"}

ClaimWork(c, j) ==
  IF ~c.enrolled THEN <<c, "refused">>
  ELSE IF j = None THEN <<c, "empty">>
  ELSE <<[c EXCEPT !.asg[j] = "claimed"], j>>

SubmitReceipt(c, j) ==
  IF ~c.enrolled THEN <<c, "refused">>
  ELSE IF j \in c.done THEN <<c, "ok">>
  ELSE IF c.asg[j] # "claimed" THEN <<c, "refused">>
  ELSE <<[c EXCEPT !.asg[j] = "receipted", !.done = @ \cup {j}], "ok">>

(* Which unclaimed assignment is handed out: the oldest, here any.         *)
Outcomes(m) ==
  CASE m.op = "enroll"  -> {EnrollNode(ctl)}
    [] m.op = "offer"   -> {RegisterOffer(ctl)}
    [] m.op = "receipt" -> {SubmitReceipt(ctl, m.arg)}
    [] m.op = "claim"   ->
         {ClaimWork(ctl, j) : j \in IF Open(ctl) = {} THEN {None} ELSE Open(ctl)}

-----------------------------------------------------------------------------
(* The mesh: one request at a time, under a deadline.                      *)

Send(op, arg) == call' = Request(op, arg) /\ reply' = None /\ pc' = "wait"
Waiting(op) == pc = "wait" /\ call # NoCall /\ call.op = op /\ reply # None
Hangup == call' = NoCall /\ reply' = None

ControllerServes ==
  /\ call # NoCall /\ reply = None
  /\ \E o \in Outcomes(call) :
       /\ ctl' = o[1]
       /\ \/ reply' = o[2] /\ UNCHANGED faults
          \/ /\ faults < MaxFaults
             /\ reply' = "lost" /\ faults' = faults + 1
  /\ UNCHANGED <<kind, disk, pc, call, late, exec, link, ran, stops>>

DeadlinePasses ==
  /\ call # NoCall /\ reply = None /\ faults < MaxFaults
  /\ reply' = "lost" /\ late' = late \cup {call} /\ faults' = faults + 1
  /\ UNCHANGED <<kind, disk, pc, call, exec, link, ctl, ran, stops>>

LateRequestArrives ==
  /\ \E m \in late : \E o \in Outcomes(m) : ctl' = o[1] /\ late' = late \ {m}
  /\ UNCHANGED <<kind, disk, pc, call, reply, exec, link, ran, faults, stops>>

LateRequestDropped ==
  /\ \E m \in late : late' = late \ {m}
  /\ UNCHANGED <<kind, disk, pc, call, reply, exec, link, ctl, ran, faults, stops>>

-----------------------------------------------------------------------------
(* What happens around the worker.                                         *)

(* Placement needs a current offer of the node.                            *)
ControllerAssigns(j) ==
  /\ ctl.asg[j] = None /\ link.ready
  /\ ctl' = [ctl EXCEPT !.asg[j] = "open"]
  /\ UNCHANGED <<kind, disk, pc, call, reply, late, exec, link, ran, faults, stops>>

(* STOP at the controller, or the node's revocation, fences every lease.   *)
ControllerFences ==
  /\ stops < MaxStops /\ stops' = stops + 1
  /\ ctl' = [ctl EXCEPT !.asg = [j \in Jobs |->
               IF @[j] \in {"open", "claimed"} THEN "fenced" ELSE @[j]]]
  /\ UNCHANGED <<kind, disk, pc, call, reply, late, exec, link, ran, faults>>

InviteExpires ==
  /\ ctl.invite = "open" /\ faults < MaxFaults /\ faults' = faults + 1
  /\ ctl' = [ctl EXCEPT !.invite = "expired"]
  /\ UNCHANGED <<kind, disk, pc, call, reply, late, exec, link, ran, stops>>

OwnerStops ==
  /\ ~disk.kill /\ stops < MaxStops /\ stops' = stops + 1
  /\ disk' = [disk EXCEPT !.kill = TRUE]
  /\ UNCHANGED <<kind, pc, call, reply, late, exec, link, ctl, ran, faults>>

OwnerResumes ==
  /\ disk.kill /\ disk' = [disk EXCEPT !.kill = FALSE]
  /\ UNCHANGED <<kind, pc, call, reply, late, exec, link, ctl, ran, faults, stops>>

(* The process ends: the executor and the outstanding call end with it.    *)
Ends == pc' = "off" /\ exec' = Idle /\ link' = Unready /\ Hangup

Crash ==
  /\ pc # "off" /\ faults < MaxFaults /\ faults' = faults + 1
  /\ Ends
  /\ late' = IF call # NoCall /\ reply = None THEN late \cup {call} ELSE late
  /\ UNCHANGED <<kind, disk, ctl, ran, stops>>

-----------------------------------------------------------------------------
(* Start-up and enrolment of the desktop agent (serve and once).           *)

AlreadyEnrolled == disk.pin \/ disk.marker

ReadyAt == CASE kind = "serve" -> "top" [] kind = "once" -> "flush" [] kind = "edge" -> "idle"

AgentStarts ==
  /\ kind # "edge" /\ pc = "off" /\ ~disk.kill
  /\ IF AlreadyEnrolled
     THEN pc' = (IF disk.pin THEN ReadyAt ELSE "pin") /\ UNCHANGED <<call, reply>>
     ELSE disk.invite /\ ctl.invite # "expired" /\ Send("enroll", None)
  /\ disk' = [disk EXCEPT !.identity = TRUE]
  /\ UNCHANGED <<kind, late, exec, link, ctl, ran, faults, stops>>

AgentEnrolled ==
  /\ kind # "edge" /\ Waiting("enroll")
  /\ IF reply = "ok"
     THEN pc' = "pin" /\ disk' = [disk EXCEPT !.marker = TRUE]
     ELSE pc' = "off" /\ UNCHANGED disk
  /\ Hangup
  /\ UNCHANGED <<kind, late, exec, link, ctl, ran, faults, stops>>

AgentPins ==
  /\ kind # "edge" /\ pc = "pin"
  /\ IF disk.pin THEN disk' = [disk EXCEPT !.invite = FALSE] /\ pc' = ReadyAt
                 ELSE disk' = [disk EXCEPT !.pin = TRUE] /\ UNCHANGED pc
  /\ UNCHANGED <<kind, call, reply, late, exec, link, ctl, ran, faults, stops>>

(* Start-up and enrolment of the edge worker: its pin and its identity are *)
(* two files, written one after the other once the controller has answered. *)

(* A variant: the files are written before the answer.                     *)
EdgeOpensUnlocked ==
  /\ kind = "edge" /\ pc = "off" /\ ~disk.kill
  /\ IF disk.pin /\ disk.identity
     THEN pc' = ReadyAt /\ UNCHANGED <<call, reply, disk>>
     ELSE /\ disk.invite /\ (disk.pin \/ ctl.invite # "expired")
          /\ Send("enroll", None) /\ disk' = [disk EXCEPT !.identity = TRUE, !.pin = TRUE]
  /\ UNCHANGED <<kind, late, exec, link, ctl, ran, faults, stops>>

EdgeOpens ==
  /\ kind = "edge" /\ pc = "off" /\ ~disk.kill
  /\ IF disk.pin /\ disk.identity
     THEN pc' = ReadyAt /\ UNCHANGED <<call, reply>>
     ELSE disk.invite /\ (disk.pin \/ ctl.invite # "expired") /\ Send("enroll", None)
  /\ UNCHANGED <<kind, disk, late, exec, link, ctl, ran, faults, stops>>

EdgeEnrolled ==
  /\ kind = "edge" /\ Waiting("enroll")
  /\ IF reply = "ok"
     THEN pc' = "identity" /\ disk' = [disk EXCEPT !.pin = TRUE]
     ELSE pc' = "off" /\ UNCHANGED disk
  /\ Hangup
  /\ UNCHANGED <<kind, late, exec, link, ctl, ran, faults, stops>>

EdgeWritesIdentity ==
  /\ kind = "edge" /\ pc = "identity"
  /\ disk' = [disk EXCEPT !.identity = TRUE] /\ pc' = ReadyAt
  /\ UNCHANGED <<kind, call, reply, late, exec, link, ctl, ran, faults, stops>>

-----------------------------------------------------------------------------
(* The desktop worker loop.                                                *)

(* The top of the loop: KILL ends the process; the results of the probe    *)
(* and capability threads are taken; the offer is sent when it is due.     *)
ServeTopBeforeReady ==
  /\ kind = "serve" /\ pc = "top"
  /\ IF disk.kill /\ ~link.ready THEN Ends
     ELSE /\ UNCHANGED exec
          /\ \/ Send("offer", None)
             \/ link.ready /\ pc' = "flush" /\ UNCHANGED <<call, reply>>
          /\ \/ UNCHANGED link
             \/ link.probing /\ \E b \in BOOLEAN : link' = [link EXCEPT !.probing = FALSE, !.bench = b]
  /\ UNCHANGED <<kind, disk, late, ctl, ran, faults, stops>>

ServeTop ==
  /\ kind = "serve" /\ pc = "top"
  /\ IF disk.kill THEN Ends
     ELSE /\ UNCHANGED exec
          /\ \/ Send("offer", None)
             \/ link.ready /\ pc' = "flush" /\ UNCHANGED <<call, reply>>
          /\ \/ UNCHANGED link
             \/ link.probing /\ \E b \in BOOLEAN : link' = [link EXCEPT !.probing = FALSE, !.bench = b]
  /\ UNCHANGED <<kind, disk, late, ctl, ran, faults, stops>>

(* A benchmark that would expire before the offer is dropped from it.      *)
BenchmarkAges ==
  /\ link.bench /\ link' = [link EXCEPT !.bench = FALSE]
  /\ UNCHANGED <<kind, disk, pc, call, reply, late, exec, ctl, ran, faults, stops>>

(* A failed offer starts the loop again after a delay; nothing else runs.  *)
ServeOfferedSkipsOutbox ==
  /\ kind = "serve" /\ Waiting("offer") /\ Hangup
  /\ pc' = (IF reply = "ok" THEN "result" ELSE "top")
  /\ link' = [link EXCEPT !.ready = @ \/ reply = "ok"]
  /\ UNCHANGED <<kind, disk, late, exec, ctl, ran, faults, stops>>

ServeOffered ==
  /\ kind = "serve" /\ Waiting("offer") /\ Hangup
  /\ pc' = (IF reply = "ok" THEN "flush" ELSE "top")
  /\ link' = [link EXCEPT !.ready = @ \/ reply = "ok"]
  /\ UNCHANGED <<kind, disk, late, exec, ctl, ran, faults, stops>>

(* Deliver the receipt that is waiting on disk.                            *)
Flush ==
  /\ pc = "flush"
  /\ IF disk.outbox # None THEN Send("receipt", disk.outbox)
     ELSE /\ pc' = (IF kind = "serve" THEN "result" ELSE IF kind = "edge" THEN "offer" ELSE "claim")
          /\ UNCHANGED <<call, reply>>
  /\ UNCHANGED <<kind, disk, late, exec, link, ctl, ran, faults, stops>>

ServeFlushed ==
  /\ kind = "serve" /\ Waiting("receipt") /\ Hangup
  /\ disk' = IF reply = "ok" THEN [disk EXCEPT !.outbox = None] ELSE disk
  /\ pc' = "result"
  /\ UNCHANGED <<kind, late, exec, link, ctl, ran, faults, stops>>

(* The executor's answer, if there is one: a receipt replaces the outbox.  *)
ServeTakesAnyResult ==
  /\ kind = "serve" /\ pc = "result" /\ pc' = "claim"
  /\ disk' = IF exec.phase \in {"receipt", "error"} THEN [disk EXCEPT !.outbox = exec.job] ELSE disk
  /\ exec' = IF exec.phase \in {"receipt", "error"} THEN Idle ELSE exec
  /\ UNCHANGED <<kind, call, reply, late, link, ctl, ran, faults, stops>>

ServeTakesResult ==
  /\ kind = "serve" /\ pc = "result" /\ pc' = "claim"
  /\ disk' = IF exec.phase = "receipt" THEN [disk EXCEPT !.outbox = exec.job] ELSE disk
  /\ exec' = IF exec.phase \in {"receipt", "error"} THEN Idle ELSE exec
  /\ UNCHANGED <<kind, call, reply, late, link, ctl, ran, faults, stops>>

(* Claim when no work is in flight and the poll is due; then the probe.    *)
ServePolls ==
  /\ kind = "serve" /\ pc = "claim" /\ exec = Idle /\ Send("claim", None)
  /\ UNCHANGED <<kind, disk, late, exec, link, ctl, ran, faults, stops>>

ServeSkipsPoll ==
  /\ kind = "serve" /\ pc = "claim" /\ pc' = "probe"
  /\ UNCHANGED <<kind, disk, call, reply, late, exec, link, ctl, ran, faults, stops>>

ServeClaimed ==
  /\ kind = "serve" /\ Waiting("claim") /\ Hangup /\ pc' = "probe"
  /\ exec' = IF reply \in Jobs THEN [phase |-> "claimed", job |-> reply] ELSE exec
  /\ UNCHANGED <<kind, disk, late, link, ctl, ran, faults, stops>>

ServeProbes ==
  /\ kind = "serve" /\ pc = "probe" /\ pc' = "top"
  /\ \/ /\ link.ready /\ exec = Idle /\ ~link.probing /\ ~link.bench
        /\ link' = [link EXCEPT !.probing = TRUE]
     \/ UNCHANGED link
  /\ UNCHANGED <<kind, disk, call, reply, late, exec, ctl, ran, faults, stops>>

-----------------------------------------------------------------------------
(* Running a claim: on the executor thread of the loop, inline elsewhere.  *)

(* The lease is checked and its nonce consumed, on disk, before the run.   *)
ExecAccepts ==
  /\ exec.phase = "claimed"
  /\ IF exec.job \in disk.nonces
     THEN exec' = [exec EXCEPT !.phase = "error"] /\ UNCHANGED disk
     ELSE /\ exec' = [exec EXCEPT !.phase = "accepted"]
          /\ disk' = [disk EXCEPT !.nonces = @ \cup {exec.job}]
  /\ UNCHANGED <<kind, pc, call, reply, late, link, ctl, ran, faults, stops>>

LeaseLapsed ==
  /\ exec.phase = "claimed" /\ faults < MaxFaults /\ faults' = faults + 1
  /\ exec' = [exec EXCEPT !.phase = "error"]
  /\ UNCHANGED <<kind, disk, pc, call, reply, late, link, ctl, ran, stops>>

(* The adapter runs; success and failure both give a signed receipt.       *)
ExecRuns ==
  /\ exec.phase = "accepted"
  /\ exec' = [exec EXCEPT !.phase = "receipt"]
  /\ ran' = [ran EXCEPT ![exec.job] = @ + 1]
  /\ UNCHANGED <<kind, disk, pc, call, reply, late, link, ctl, faults, stops>>

-----------------------------------------------------------------------------
(* The one-item command and the edge worker's pulse: the same steps in a   *)
(* straight line, each ending the item (once) or the pulse (edge) on error. *)

GivesUp == /\ pc' = (IF kind = "once" THEN "off" ELSE "idle")
           /\ exec' = Idle

Pulse ==
  /\ kind = "edge" /\ pc = "idle" /\ ~disk.kill
  /\ pc' = "flush"
  /\ UNCHANGED <<kind, disk, call, reply, late, exec, link, ctl, ran, faults, stops>>

EdgeCloses ==
  /\ kind = "edge" /\ pc = "idle" /\ Ends
  /\ UNCHANGED <<kind, disk, late, ctl, ran, faults, stops>>

LineFlushed ==
  /\ kind # "serve" /\ Waiting("receipt") /\ exec = Idle /\ Hangup
  /\ IF reply = "ok"
     THEN /\ disk' = [disk EXCEPT !.outbox = None]
          /\ pc' = (IF kind = "edge" THEN "offer" ELSE "claim") /\ UNCHANGED exec
     ELSE GivesUp /\ UNCHANGED disk
  /\ UNCHANGED <<kind, late, link, ctl, ran, faults, stops>>

EdgeOffers ==
  /\ kind = "edge" /\ pc = "offer" /\ Send("offer", None)
  /\ UNCHANGED <<kind, disk, late, exec, link, ctl, ran, faults, stops>>

EdgeOffered ==
  /\ kind = "edge" /\ Waiting("offer") /\ Hangup
  /\ IF reply = "ok" THEN pc' = "claim" /\ UNCHANGED exec ELSE GivesUp
  /\ link' = [link EXCEPT !.ready = reply = "ok"]
  /\ UNCHANGED <<kind, disk, late, ctl, ran, faults, stops>>

LineClaims ==
  /\ kind # "serve" /\ pc = "claim" /\ Send("claim", None)
  /\ UNCHANGED <<kind, disk, late, exec, link, ctl, ran, faults, stops>>

LineClaimed ==
  /\ kind # "serve" /\ Waiting("claim") /\ Hangup
  /\ IF reply \in Jobs
     THEN exec' = [phase |-> "claimed", job |-> reply] /\ pc' = "run"
     ELSE GivesUp
  /\ UNCHANGED <<kind, disk, late, link, ctl, ran, faults, stops>>

(* The receipt is on disk before it is posted.                             *)
LinePersists ==
  /\ kind # "serve" /\ pc = "run"
  /\ \/ /\ exec.phase = "receipt"
        /\ disk' = [disk EXCEPT !.outbox = exec.job]
        /\ Send("receipt", exec.job) /\ UNCHANGED exec
     \/ /\ exec.phase = "error"
        /\ GivesUp /\ UNCHANGED <<disk, call, reply>>
  /\ UNCHANGED <<kind, late, link, ctl, ran, faults, stops>>

LineSubmittedUnchecked ==
  /\ kind # "serve" /\ Waiting("receipt") /\ exec # Idle /\ Hangup
  /\ disk' = [disk EXCEPT !.outbox = None]
  /\ GivesUp
  /\ UNCHANGED <<kind, late, link, ctl, ran, faults, stops>>

LineSubmitted ==
  /\ kind # "serve" /\ Waiting("receipt") /\ exec # Idle /\ Hangup
  /\ disk' = IF reply = "ok" THEN [disk EXCEPT !.outbox = None] ELSE disk
  /\ GivesUp
  /\ UNCHANGED <<kind, late, link, ctl, ran, faults, stops>>

-----------------------------------------------------------------------------
Startup == AgentStarts \/ AgentEnrolled \/ AgentPins
             \/ EdgeOpens \/ EdgeEnrolled \/ EdgeWritesIdentity

Loop == ServeTop \/ ServeOffered \/ Flush \/ ServeFlushed \/ ServeTakesResult
          \/ ServePolls \/ ServeSkipsPoll \/ ServeClaimed \/ ServeProbes

Line == LineFlushed \/ EdgeOffers \/ EdgeOffered \/ LineClaims \/ LineClaimed
          \/ LinePersists \/ LineSubmitted

Executor == ExecAccepts \/ ExecRuns

Environment ==
  \/ LateRequestArrives \/ LateRequestDropped \/ DeadlinePasses
  \/ \E j \in Jobs : ControllerAssigns(j)
  \/ ControllerFences \/ InviteExpires \/ OwnerStops \/ OwnerResumes \/ Crash
  \/ BenchmarkAges \/ LeaseLapsed \/ Pulse \/ EdgeCloses

Next == Startup \/ Loop \/ Line \/ Executor \/ ControllerServes \/ Environment

Spec == Init /\ [][Next]_vars

(* A request ends by its answer or its deadline; a started thread keeps    *)
(* running; the loop sleeps 100 ms a turn and its poll timer is 2 s, so a  *)
(* claim that stays due is sent; the desktop and the mobile shell restart  *)
(* and pulse their worker.                                                 *)
FairSpec == /\ Spec
            /\ WF_vars(ControllerServes)
            /\ WF_vars(Startup \/ Loop \/ Line \/ Pulse)
            /\ WF_vars(Executor)
            /\ SF_vars(ServePolls)

-----------------------------------------------------------------------------
(* Every variable has its type.                                            *)
TypeOK ==
  /\ kind \in {"serve", "once", "edge"}
  /\ disk \in [kill : BOOLEAN, invite : BOOLEAN, marker : BOOLEAN, pin : BOOLEAN,
               identity : BOOLEAN, outbox : Jobs \cup {None}, nonces : SUBSET Jobs]
  /\ pc \in {"off", "wait", "pin", "identity", "top", "idle", "flush", "offer",
             "result", "claim", "probe", "run"}
  /\ call \in [op : {None, "enroll", "offer", "receipt", "claim"}, arg : Jobs \cup {None}]
  /\ reply \in Jobs \cup {None, "empty", "ok", "refused", "lost"}
  /\ exec \in [phase : {"idle", "claimed", "accepted", "receipt", "error"}, job : Jobs \cup {None}]
  /\ link \in [ready : BOOLEAN, probing : BOOLEAN, bench : BOOLEAN]
  /\ ctl \in [invite : {"open", "spent", "expired"}, enrolled : BOOLEAN,
              asg : [Jobs -> {None, "open", "claimed", "receipted", "fenced"}], done : SUBSET Jobs]
  /\ ran \in [Jobs -> Nat]

(* A pin or marker on the node's disk means the controller has enrolled    *)
(* it, whatever crash or lost answer came between: a node that believes it *)
(* is enrolled never skips an enrolment the controller does not have.      *)
PinMeansEnrolled == disk.pin \/ disk.marker => ctl.enrolled

(* A receipt the controller recorded, however late it arrived, is of a job *)
(* this node ran, and a job is never run twice.                            *)
RecordedMeansRun == \A j \in Jobs : ran[j] <= 1 /\ (j \in ctl.done => ran[j] = 1)

(* A signed receipt leaves the outbox only after the controller recorded   *)
(* it: always for the one-item command and the edge worker; in the desktop *)
(* loop, unless the receipt of a later job has replaced it.                *)
OutboxRetained ==
  [][disk.outbox # None /\ disk'.outbox # disk.outbox
       => disk.outbox \in ctl.done \/ (kind = "serve" /\ disk'.outbox # None)]_vars

(* The same with no exception: what submit_receipt relies on when it tells *)
(* a worker to retain the receipt and retry.                               *)
ReceiptRetained ==
  [][disk.outbox # None /\ disk'.outbox # disk.outbox => disk.outbox \in ctl.done]_vars

(* A receipt in the outbox of the desktop loop reaches the controller,     *)
(* unless its lease is fenced, a later one replaces it or the owner stops. *)
ReceiptLands ==
  \A j \in Jobs : (kind = "serve" /\ disk.outbox = j)
     ~> (j \in ctl.done \/ ctl.asg[j] = "fenced" \/ disk.outbox # j \/ disk.kill)

(* An assignment of a serving worker is claimed, unless it is fenced or    *)
(* the owner stops the worker.                                             *)
WorkIsClaimed ==
  \A j \in Jobs : (kind = "serve" /\ ctl.asg[j] = "open")
     ~> (ctl.asg[j] # "open" \/ disk.kill)

(* The local STOP ends the desktop loop, whatever it was waiting for.      *)
StopEndsLoop == (kind = "serve" /\ disk.kill) ~> (pc = "off" \/ ~disk.kill)
=============================================================================
