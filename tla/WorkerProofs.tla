---------------------------- MODULE WorkerProofs ----------------------------
(***************************************************************************)
(* Proofs for one worker: its agent and the model sessions it serves.      *)
(*                                                                         *)
(* The agent, for any set of jobs and number of faults: a node             *)
(* that believes it is enrolled is; a job is run at most once and a        *)
(* receipt the controller records is of a job this node ran.  The second   *)
(* rests on the nonce that accepting a lease leaves on disk, and on every  *)
(* receipt on its way (in the outbox, in a call, in a request given up on) *)
(* being of a job that was run.                                            *)
(*                                                                         *)
(* Model sessions, for any number of them: a client is told of a           *)
(* completion only with the receipt and the whole output.  This rests on   *)
(* what a receipt in flight says: it counts all that the worker produced,  *)
(* which produces nothing more.                                            *)
(***************************************************************************)
EXTENDS Integers, Worker, ModelGateway, TLAPS

(* The agent.                                                              *)

Real == [op : {"enroll", "offer", "receipt", "claim"}, arg : Jobs \cup {None}]

Disks == [kill : BOOLEAN, invite : BOOLEAN, marker : BOOLEAN, pin : BOOLEAN,
          identity : BOOLEAN, outbox : Jobs \cup {None}, nonces : SUBSET Jobs]

\* The types of what the two properties are about.
Typed ==
  /\ disk \in Disks
  /\ call \in Real \cup {NoCall} /\ late \subseteq Real
  /\ exec \in [phase : {"idle", "claimed", "accepted", "receipt", "error"}, job : Jobs \cup {None}]
  /\ ctl \in [invite : {"open", "spent", "expired"}, enrolled : BOOLEAN,
              asg : [Jobs -> {None, "open", "claimed", "receipted", "fenced"}], done : SUBSET Jobs]
  /\ ran \in [Jobs -> Nat]

\* Everything that lets the node believe it is enrolled.
Believes == disk.pin \/ disk.marker \/ pc = "pin" \/ (call.op = "enroll" /\ reply = "ok")

Enrolment == Believes => ctl.enrolled

Once == \A j \in Jobs : ran[j] <= 1 /\ (ran[j] = 1 => j \in disk.nonces)

Executing ==
  /\ exec.phase # "idle" => exec.job \in Jobs
  /\ exec.phase = "accepted" => exec.job \in disk.nonces /\ ran[exec.job] = 0
  /\ exec.phase = "receipt" => ran[exec.job] = 1

\* Receipts on their way, and those recorded, are of jobs that were run.
Delivering ==
  /\ disk.outbox # None => ran[disk.outbox] = 1
  /\ \A m \in late \cup {call} : m.op = "receipt" => m.arg \in Jobs /\ ran[m.arg] = 1
  /\ \A j \in ctl.done : ran[j] = 1

WorkerInv == Typed /\ Enrolment /\ Once /\ Executing /\ Delivering

\* The invariant holds before the first start.
LEMMA WorkerStarts == Init => WorkerInv
  BY WorkerAssumption
     DEF Init, WorkerInv, Typed, Disks, Enrolment, Believes, Once, Executing, Delivering, FreshDisk, Idle,
         NoCall, Request, None

\* What the controller's answer to a request may do to the controller.
LEMMA Answered ==
  ASSUME Typed, NEW m \in Real, NEW o \in Outcomes(m), m.op = "receipt" => m.arg \in Jobs
  PROVE  /\ o[1] \in [invite : {"open", "spent", "expired"}, enrolled : BOOLEAN,
                      asg : [Jobs -> {None, "open", "claimed", "receipted", "fenced"}],
                      done : SUBSET Jobs]
         /\ ctl.enrolled => o[1].enrolled
         /\ m.op = "enroll" /\ o[2] = "ok" => o[1].enrolled
         /\ \A j \in o[1].done : j \in ctl.done \/ (m.op = "receipt" /\ j = m.arg)
  <1>1. CASE m.op = "enroll"
    <2>1. o = EnrollNode(ctl)
      BY <1>1, Zenon DEF Outcomes
    <2> QED
      BY <1>1, <2>1, Zenon DEF EnrollNode, Typed
  <1>2. CASE m.op = "offer"
    <2>1. o = RegisterOffer(ctl)
      BY <1>2, Zenon DEF Outcomes
    <2> QED
      BY <1>2, <2>1, Zenon DEF RegisterOffer, Typed
  <1>3. CASE m.op = "receipt"
    <2>1. o = SubmitReceipt(ctl, m.arg)
      BY <1>3 DEF Outcomes
    <2> QED
      BY <1>3, <2>1, Zenon DEF SubmitReceipt, Typed
  <1>4. CASE m.op = "claim"
    <2>1. PICK j \in Jobs \cup {None} : o = ClaimWork(ctl, j)
      BY <1>4 DEF Outcomes, Open
    <2> QED
      BY <1>4, <2>1, WorkerAssumption, Zenon DEF ClaimWork, Typed
  <1> QED
    BY <1>1, <1>2, <1>3, <1>4, Zenon DEF Real

\* A call that is being made is a request.
LEMMA CallIsReal ==
  ASSUME Typed, call # NoCall PROVE call \in Real
  BY Zenon DEF Typed

\* The controller hears a request, in time or late.
LEMMA Heard ==
  ASSUME WorkerInv, NEW m \in late \cup {call}, m \in Real, NEW o \in Outcomes(m), ctl' = o[1],
         disk' = disk, exec' = exec, ran' = ran, pc' = pc, call' = call,
         late' \subseteq late,
         reply' = "ok" => reply = "ok" \/ (m = call /\ o[2] = "ok")
  PROVE  WorkerInv'
  <1>0. Typed /\ Enrolment /\ Once /\ Executing /\ Delivering
    BY DEF WorkerInv
  <1>1. m.op = "receipt" => m.arg \in Jobs /\ ran[m.arg] = 1
    BY <1>0 DEF Delivering
  <1>2. /\ ctl' \in [invite : {"open", "spent", "expired"}, enrolled : BOOLEAN,
                     asg : [Jobs -> {None, "open", "claimed", "receipted", "fenced"}],
                     done : SUBSET Jobs]
        /\ ctl.enrolled => ctl'.enrolled
        /\ m.op = "enroll" /\ o[2] = "ok" => ctl'.enrolled
        /\ \A j \in ctl'.done : j \in ctl.done \/ (m.op = "receipt" /\ j = m.arg)
    BY <1>0, <1>1, Answered
  <1>3. Typed'
    BY <1>0, <1>2, Zenon DEF Typed
  <1>4. Enrolment'
    BY <1>0, <1>2, Zenon DEF Enrolment, Believes
  <1>5. Once' /\ Executing'
    BY <1>0, Zenon DEF Once, Executing
  <1>6. Delivering'
    BY <1>0, <1>1, <1>2 DEF Delivering
  <1> QED
    BY <1>3, <1>4, <1>5, <1>6 DEF WorkerInv

\* What most steps of the worker do: nothing is accepted or run, and what is
\* sent or put in the outbox is of a job that was run.
Moves ==
  /\ Typed'
  /\ ran' = ran /\ disk'.nonces = disk.nonces
  /\ ctl'.done = ctl.done /\ (ctl.enrolled => ctl'.enrolled)
  /\ disk'.outbox \in {None, disk.outbox} \/ ran[disk'.outbox] = 1
  /\ exec' \in {exec, Idle} \/ (exec'.phase \in {"claimed", "error"} /\ exec'.job \in Jobs)
  /\ late' \subseteq late \cup {call}
  /\ \/ call' = call
     \/ call'.op = "receipt" => call'.arg \in Jobs /\ ran[call'.arg] = 1
  /\ Believes' => Believes \/ ctl.enrolled

\* A file that is written is written whole, and no other with it.
LEMMA OneFile ==
  ASSUME Typed, NEW b \in BOOLEAN
  PROVE  /\ LET d == [disk EXCEPT !.kill = b]
            IN  d \in Disks /\ d.outbox = disk.outbox /\ d.nonces = disk.nonces
                /\ d.pin = disk.pin /\ d.marker = disk.marker
         /\ LET d == [disk EXCEPT !.identity = b]
            IN  d \in Disks /\ d.outbox = disk.outbox /\ d.nonces = disk.nonces
                /\ d.pin = disk.pin /\ d.marker = disk.marker
         /\ LET d == [disk EXCEPT !.invite = b]
            IN  d \in Disks /\ d.outbox = disk.outbox /\ d.nonces = disk.nonces
                /\ d.pin = disk.pin /\ d.marker = disk.marker
         /\ LET d == [disk EXCEPT !.pin = b]
            IN  d \in Disks /\ d.outbox = disk.outbox /\ d.nonces = disk.nonces
                /\ d.marker = disk.marker
         /\ LET d == [disk EXCEPT !.marker = b]
            IN  d \in Disks /\ d.outbox = disk.outbox /\ d.nonces = disk.nonces
                /\ d.pin = disk.pin
  <1>0. disk \in Disks
    BY DEF Typed
  <1>1. /\ [disk EXCEPT !.kill = b] \in Disks /\ [disk EXCEPT !.identity = b] \in Disks
        /\ [disk EXCEPT !.invite = b] \in Disks /\ [disk EXCEPT !.pin = b] \in Disks
        /\ [disk EXCEPT !.marker = b] \in Disks
    BY <1>0 DEF Disks
  <1> QED
    BY <1>0, <1>1, Zenon DEF Disks

\* A step that moves the agent keeps the invariant.
LEMMA MovesKeep == WorkerInv /\ Moves => WorkerInv'
  <1> SUFFICES ASSUME WorkerInv, Moves PROVE WorkerInv'
    OBVIOUS
  <1>0. Typed /\ Enrolment /\ Once /\ Executing /\ Delivering
    BY Zenon DEF WorkerInv
  <1>1. Enrolment'
    BY <1>0 DEF Moves, Enrolment
  <1>2. Once'
    BY <1>0 DEF Moves, Once
  <1>3. Executing'
    BY <1>0 DEF Moves, Executing, Idle
  <1>4. Delivering'
    BY <1>0 DEF Moves, Delivering
  <1> QED
    BY <1>1, <1>2, <1>3, <1>4, Zenon DEF WorkerInv, Moves

\* Every step keeps the invariant.
LEMMA WorkerInductive == WorkerInv /\ [Next]_vars => WorkerInv'
  <1> SUFFICES ASSUME WorkerInv, [Next]_vars PROVE WorkerInv'
    OBVIOUS
  <1>0. Typed /\ Enrolment /\ Once /\ Executing /\ Delivering
    BY DEF WorkerInv
  <1> USE WorkerAssumption DEF Send, Hangup, Request, NoCall, None, Idle
  <1>1. CASE Startup
    <2>1. ASSUME AgentStarts PROVE Moves
      <3>1. /\ disk' \in Disks /\ disk'.outbox = disk.outbox /\ disk'.nonces = disk.nonces
            /\ disk'.pin = disk.pin /\ disk'.marker = disk.marker
        BY <1>0, <2>1, OneFile, Zenon DEF AgentStarts, Typed
      <3>2. Typed'
        BY <1>0, <2>1, <3>1 DEF AgentStarts, Typed, Real, ReadyAt
      <3>3. Believes' => Believes \/ ctl.enrolled
        BY <1>0, <2>1, <3>1, Zenon DEF AgentStarts, Believes, Enrolment, ReadyAt, AlreadyEnrolled
      <3> QED
        BY <2>1, <3>1, <3>2, <3>3 DEF AgentStarts, Moves
    <2>2. ASSUME AgentEnrolled PROVE Moves
      <3>1. disk' \in Disks /\ disk'.outbox = disk.outbox /\ disk'.nonces = disk.nonces
        BY <1>0, <2>2, OneFile, ZenonT(30) DEF AgentEnrolled, Typed
      <3>2. Typed'
        BY <1>0, <2>2, <3>1 DEF AgentEnrolled, Typed, Real, Waiting
      <3>3. Believes' => Believes \/ ctl.enrolled
        BY <1>0, <2>2, <3>1 DEF AgentEnrolled, Believes, Enrolment, Waiting
      <3> QED
        BY <2>2, <3>1, <3>2, <3>3, Zenon DEF AgentEnrolled, Moves
    <2>3. ASSUME AgentPins PROVE Moves
      <3>1. disk' \in Disks /\ disk'.outbox = disk.outbox /\ disk'.nonces = disk.nonces
        <4>1. CASE disk' = [disk EXCEPT !.invite = FALSE]
          BY <1>0, <4>1, OneFile, Zenon
        <4>2. CASE disk' = [disk EXCEPT !.pin = TRUE]
          BY <1>0, <4>2, OneFile, Zenon
        <4> QED
          BY <2>3, <4>1, <4>2, Zenon DEF AgentPins
      <3>2. Typed'
        BY <1>0, <2>3, <3>1 DEF AgentPins, Typed, Real
      <3>3. Believes' => Believes \/ ctl.enrolled
        BY <1>0, <2>3, <3>1, Zenon DEF AgentPins, Believes, Enrolment, ReadyAt
      <3> QED
        BY <2>3, <3>1, <3>2, <3>3 DEF AgentPins, Moves
    <2>4. ASSUME EdgeOpens PROVE Moves
      BY <1>0, <2>4 DEF EdgeOpens, ReadyAt, Moves, Typed, Believes, Real, Disks
    <2>5. ASSUME EdgeEnrolled PROVE Moves
      <3>1. disk' \in Disks /\ disk'.outbox = disk.outbox /\ disk'.nonces = disk.nonces
        BY <1>0, <2>5, OneFile, Zenon DEF EdgeEnrolled, Typed
      <3>2. Typed'
        BY <1>0, <2>5, <3>1 DEF EdgeEnrolled, Typed, Real, Waiting
      <3>3. Believes' => Believes \/ ctl.enrolled
        BY <1>0, <2>5, <3>1 DEF EdgeEnrolled, Believes, Enrolment, Waiting
      <3> QED
        BY <2>5, <3>1, <3>2, <3>3, Zenon DEF EdgeEnrolled, Moves
    <2>6. ASSUME EdgeWritesIdentity PROVE Moves
      <3>1. /\ disk' \in Disks /\ disk'.outbox = disk.outbox /\ disk'.nonces = disk.nonces
            /\ disk'.pin = disk.pin /\ disk'.marker = disk.marker
        BY <1>0, <2>6, OneFile, Zenon DEF EdgeWritesIdentity, Typed
      <3>2. Typed'
        BY <1>0, <2>6, <3>1 DEF EdgeWritesIdentity, Typed, Real
      <3>3. Believes' => Believes \/ ctl.enrolled
        BY <1>0, <2>6, <3>1 DEF EdgeWritesIdentity, Believes, Enrolment, ReadyAt
      <3> QED
        BY <2>6, <3>1, <3>2, <3>3 DEF EdgeWritesIdentity, Moves
    <2>0. Moves
      BY <1>1, <2>1, <2>2, <2>3, <2>4, <2>5, <2>6 DEF Startup
    <2> QED
      BY <2>0, MovesKeep, Zenon
  <1>2. CASE Loop
    <2>1. ASSUME ServeTop PROVE Moves
      <3>1. /\ UNCHANGED <<disk, late, ctl, ran>> /\ pc' # "pin"
            /\ reply' # "ok" \/ UNCHANGED <<call, reply>>
            /\ exec' \in {exec, Idle} /\ call' \in {call, NoCall, Request("offer", None)}
        BY <2>1, Zenon DEF ServeTop, Ends
      <3>2. Typed'
        BY <1>0, <3>1 DEF Typed, Real
      <3>3. Believes' => Believes \/ ctl.enrolled
        BY <3>1, Zenon DEF Believes
      <3> QED
        BY <3>1, <3>2, <3>3 DEF Moves
    <2>2. ASSUME ServeOffered PROVE Moves
      BY <1>0, <2>2 DEF ServeOffered, Waiting, Moves, Typed, Believes, Real, Disks
    <2>3. ASSUME Flush PROVE Moves
      BY <1>0, <2>3 DEF Flush, Delivering, Moves, Typed, Believes, Real, Disks
    <2>4. ASSUME ServeFlushed PROVE Moves
      BY <1>0, <2>4 DEF ServeFlushed, Waiting, Moves, Typed, Believes, Real, Disks
    <2>5. ASSUME ServeTakesResult PROVE Moves
      BY <1>0, <2>5 DEF ServeTakesResult, Executing, Moves, Typed, Believes, Real, Disks
    <2>6. ASSUME ServePolls PROVE Moves
      BY <1>0, <2>6 DEF ServePolls, Moves, Typed, Believes, Real, Disks
    <2>7. ASSUME ServeSkipsPoll PROVE Moves
      BY <1>0, <2>7 DEF ServeSkipsPoll, Moves, Typed, Believes, Real, Disks
    <2>8. ASSUME ServeClaimed PROVE Moves
      BY <1>0, <2>8 DEF ServeClaimed, Waiting, Moves, Typed, Believes, Real, Disks
    <2>9. ASSUME ServeProbes PROVE Moves
      BY <1>0, <2>9 DEF ServeProbes, Moves, Typed, Believes, Real, Disks
    <2>0. Moves
      BY <1>2, <2>1, <2>2, <2>3, <2>4, <2>5, <2>6, <2>7, <2>8, <2>9, Zenon DEF Loop
    <2> QED
      BY <2>0, MovesKeep
  <1>3. CASE Line
    <2>1. ASSUME LineFlushed PROVE Moves
      BY <1>0, <2>1 DEF LineFlushed, GivesUp, Waiting, Moves, Typed, Believes, Real, Disks
    <2>2. ASSUME EdgeOffers PROVE Moves
      BY <1>0, <2>2 DEF EdgeOffers, Moves, Typed, Believes, Real, Disks
    <2>3. ASSUME EdgeOffered PROVE Moves
      BY <1>0, <2>3 DEF EdgeOffered, GivesUp, Waiting, Moves, Typed, Believes, Real, Disks
    <2>4. ASSUME LineClaims PROVE Moves
      BY <1>0, <2>4 DEF LineClaims, Moves, Typed, Believes, Real, Disks
    <2>5. ASSUME LineClaimed PROVE Moves
      BY <1>0, <2>5 DEF LineClaimed, GivesUp, Waiting, Moves, Typed, Believes, Real, Disks
    <2>6. ASSUME LinePersists PROVE Moves
      BY <1>0, <2>6 DEF LinePersists, GivesUp, Executing, Moves, Typed, Believes, Real, Disks
    <2>7. ASSUME LineSubmitted PROVE Moves
      BY <1>0, <2>7, Zenon DEF LineSubmitted, GivesUp, Waiting, Moves, Typed, Believes, Real, Disks
    <2>0. Moves
      BY <1>3, <2>1, <2>2, <2>3, <2>4, <2>5, <2>6, <2>7, Zenon DEF Line
    <2> QED
      BY <2>0, MovesKeep
  <1>4. CASE ExecAccepts
    <2> QED
      BY <1>0, <1>4 DEF ExecAccepts, WorkerInv, Typed, Disks, Enrolment, Believes, Once, Executing, Delivering
  <1>5. CASE ExecRuns
    <2> QED
      BY <1>0, <1>5 DEF ExecRuns, WorkerInv, Typed, Enrolment, Believes, Once, Executing, Delivering
  <1>6. CASE ControllerServes
    <2>1. PICK o \in Outcomes(call) : ctl' = o[1] /\ (reply' = o[2] \/ reply' = "lost")
      BY <1>6, Zenon DEF ControllerServes
    <2>2. call \in Real
      BY <1>0, <1>6, CallIsReal, Zenon DEF ControllerServes
    <2> QED
      BY <1>6, <2>1, <2>2, Heard, Zenon DEF ControllerServes
  <1>7. CASE LateRequestArrives
    <2>0. PICK m \in late : \E o \in Outcomes(m) : ctl' = o[1] /\ late' = late \ {m}
      BY <1>7, Zenon DEF LateRequestArrives
    <2>1. PICK o \in Outcomes(m) : ctl' = o[1] /\ late' = late \ {m}
      BY <2>0, Zenon
    <2>2. m \in Real
      BY <1>0, Zenon DEF Typed
    <2> QED
      BY <1>7, <2>1, <2>2, Heard, Zenon DEF LateRequestArrives
  <1>8. CASE \/ LateRequestDropped \/ DeadlinePasses \/ Crash \/ Pulse \/ EdgeCloses
             \/ BenchmarkAges \/ LeaseLapsed \/ OwnerStops \/ OwnerResumes
    <2>1. ASSUME LateRequestDropped PROVE Moves
      BY <1>0, <2>1 DEF LateRequestDropped, Moves, Typed, Believes, Real, Disks
    <2>2. ASSUME DeadlinePasses PROVE Moves
      BY <1>0, <2>2, CallIsReal DEF DeadlinePasses, Moves, Typed, Believes, Real, Disks
    <2>3. ASSUME Crash PROVE Moves
      BY <1>0, <2>3, CallIsReal DEF Crash, Ends, Moves, Typed, Believes, Real, Disks
    <2>4. ASSUME Pulse PROVE Moves
      BY <1>0, <2>4 DEF Pulse, Moves, Typed, Believes, Real, Disks
    <2>5. ASSUME EdgeCloses PROVE Moves
      BY <1>0, <2>5 DEF EdgeCloses, Ends, Moves, Typed, Believes, Real, Disks
    <2>6. ASSUME BenchmarkAges PROVE Moves
      BY <1>0, <2>6 DEF BenchmarkAges, Moves, Typed, Believes, Real, Disks
    <2>7. ASSUME LeaseLapsed PROVE Moves
      BY <1>0, <2>7 DEF LeaseLapsed, Executing, Moves, Typed, Believes, Real, Disks
    <2>8. ASSUME OwnerStops PROVE Moves
      <3>1. /\ disk' \in Disks /\ disk'.outbox = disk.outbox /\ disk'.nonces = disk.nonces
            /\ disk'.pin = disk.pin /\ disk'.marker = disk.marker
        BY <1>0, <2>8, OneFile, Zenon DEF OwnerStops, Typed
      <3>2. Typed'
        BY <1>0, <2>8, <3>1, Zenon DEF OwnerStops, Typed, Real
      <3>3. Believes' => Believes \/ ctl.enrolled
        BY <1>0, <2>8, <3>1, Zenon DEF OwnerStops, Believes, Enrolment
      <3> QED
        BY <2>8, <3>1, <3>2, <3>3, Zenon DEF OwnerStops, Moves
    <2>9. ASSUME OwnerResumes PROVE Moves
      <3>1. /\ disk' \in Disks /\ disk'.outbox = disk.outbox /\ disk'.nonces = disk.nonces
            /\ disk'.pin = disk.pin /\ disk'.marker = disk.marker
        BY <1>0, <2>9, OneFile, Zenon DEF OwnerResumes, Typed
      <3>2. Typed'
        BY <1>0, <2>9, <3>1 DEF OwnerResumes, Typed, Real
      <3>3. Believes' => Believes \/ ctl.enrolled
        BY <1>0, <2>9, <3>1 DEF OwnerResumes, Believes, Enrolment
      <3> QED
        BY <2>9, <3>1, <3>2, <3>3, Zenon DEF OwnerResumes, Moves
    <2>0. Moves
      BY SMTT(30), <1>8, <2>1, <2>2, <2>3, <2>4, <2>5, <2>6, <2>7, <2>8, <2>9
    <2> QED
      BY <2>0, MovesKeep
  <1>9. CASE ControllerFences \/ InviteExpires \/ \E j \in Jobs : ControllerAssigns(j)
    <2>1. Moves
      BY SMTT(30), <1>0, <1>9 DEF ControllerFences, InviteExpires, ControllerAssigns, Moves, Typed, Believes
    <2> QED
      BY <2>1, MovesKeep
  <1>10. CASE UNCHANGED vars
    BY <1>0, <1>10 DEF vars, WorkerInv, Typed, Enrolment, Believes, Once, Executing, Delivering
  <1> QED
    BY <1>1, <1>2, <1>3, <1>4, <1>5, <1>6, <1>7, <1>8, <1>9, <1>10, Zenon DEF Next, Executor, Environment

\* The invariant holds throughout.
LEMMA WorkerAlways == Spec => []WorkerInv
  BY WorkerStarts, WorkerInductive, PTL DEF Spec

\* A node with a pin or a marker is enrolled at the controller, for any
\* number of crashes, lost answers and late requests.
THEOREM PinIsEarned == Spec => []PinMeansEnrolled
  <1>1. WorkerInv => PinMeansEnrolled
    BY Zenon DEF WorkerInv, Enrolment, Believes, PinMeansEnrolled
  <1> QED
    BY <1>1, WorkerAlways, PTL

\* No job is run twice on a node, and a recorded receipt is of a job the
\* node ran, for any jobs and any number of faults.
THEOREM RunsAtMostOnce == Spec => []RecordedMeansRun
  <1>1. WorkerInv => RecordedMeansRun
    BY Zenon DEF WorkerInv, Once, Delivering, RecordedMeansRun
  <1> QED
    BY <1>1, WorkerAlways, PTL

-----------------------------------------------------------------------------
(***************************************************************************)
(* OutboxRetained.  The outbox is emptied on an "ok" without looking at    *)
(* the receipt it was for, so it rests on the answer being that of the     *)
(* receipt in the outbox; and a line (once, edge) writes its outbox        *)
(* without looking at what is there, so it rests on the outbox having been *)
(* delivered before the claim.                                             *)
(***************************************************************************)
\* The receipt being delivered is the one in the outbox; "ok" means recorded.
Posting ==
  /\ pc # "wait" => call = NoCall
  /\ call.op = "receipt" => call.arg = disk.outbox
  /\ call.op = "receipt" /\ reply = "ok" => call.arg \in ctl.done

\* A line offers, claims and runs with an empty outbox.
EmptyHanded ==
  kind # "serve" /\ (pc \in {"offer", "claim", "run"}
                       \/ (pc = "wait" /\ call.op \in {"offer", "claim"}))
    => disk.outbox = None

PostInv == kind \in Kinds /\ Posting /\ EmptyHanded

\* The controller forgets no receipt, and "ok" to one means it is recorded.
LEMMA Acknowledged ==
  ASSUME Typed, NEW m \in Real, NEW o \in Outcomes(m), m.op = "receipt" => m.arg \in Jobs
  PROVE  ctl.done \subseteq o[1].done /\ (m.op = "receipt" /\ o[2] = "ok" => m.arg \in o[1].done)
  <1>1. CASE m.op = "enroll"
    <2>1. o = EnrollNode(ctl)
      BY <1>1 DEF Outcomes
    <2> QED
      BY <1>1, <2>1 DEF EnrollNode, Typed
  <1>2. CASE m.op = "offer"
    <2>1. o = RegisterOffer(ctl)
      BY <1>2 DEF Outcomes
    <2> QED
      BY <1>2, <2>1 DEF RegisterOffer, Typed
  <1>3. CASE m.op = "receipt"
    <2>1. o = SubmitReceipt(ctl, m.arg)
      BY <1>3 DEF Outcomes
    <2> QED
      BY <1>3, <2>1 DEF SubmitReceipt, Typed
  <1>4. CASE m.op = "claim"
    <2>1. PICK j \in Jobs \cup {None} : o = ClaimWork(ctl, j)
      BY <1>4 DEF Outcomes, Open
    <2> QED
      BY <1>4, <2>1, WorkerAssumption, Zenon DEF ClaimWork, Typed
  <1> QED
    BY <1>1, <1>2, <1>3, <1>4, Zenon DEF Real

\* Steps that leave the call, the outbox and the place of the worker alone.
LEMMA Aside ==
  ASSUME PostInv, UNCHANGED <<kind, pc, call>>, disk'.outbox = disk.outbox,
         ctl.done \subseteq ctl'.done,
         reply' = "ok" /\ call.op = "receipt" => reply = "ok" \/ call.arg \in ctl'.done
  PROVE  PostInv'
  BY Zenon DEF PostInv, Posting, EmptyHanded

\* Every step keeps the two.
LEMMA PostStep ==
  ASSUME WorkerInv, PostInv, Next
  PROVE  PostInv'
  <1>0. kind \in Kinds /\ Typed /\ Delivering /\ Posting /\ EmptyHanded
    BY Zenon DEF WorkerInv, PostInv
  <1> USE WorkerAssumption DEF Send, Hangup, Request, NoCall, None, Idle
  <1>1. CASE Startup
    <2>1. disk'.outbox = disk.outbox
      BY <1>0, <1>1, OneFile, Zenon DEF Startup, AgentStarts, AgentEnrolled, AgentPins, EdgeOpens,
         EdgeEnrolled, EdgeWritesIdentity
    <2>2. /\ kind' = kind /\ ctl' = ctl /\ pc' \notin {"offer", "claim", "run"}
          /\ \/ call' = NoCall
             \/ call' = Request("enroll", None) /\ pc' = "wait"
      <3>1. CASE AgentStarts \/ EdgeOpens
        BY <1>0, <3>1 DEF AgentStarts, EdgeOpens, ReadyAt, Posting
      <3>2. CASE AgentEnrolled \/ EdgeEnrolled
        BY <3>2, Zenon DEF AgentEnrolled, EdgeEnrolled
      <3>3. CASE AgentPins \/ EdgeWritesIdentity
        BY <1>0, <3>3, Zenon DEF AgentPins, EdgeWritesIdentity, ReadyAt, Posting
      <3> QED
        BY <1>1, <3>1, <3>2, <3>3 DEF Startup
    <2> QED
      BY <1>0, <2>1, <2>2 DEF PostInv, Posting, EmptyHanded
  <1>2. CASE Loop
    <2>1. ASSUME ServeTop PROVE PostInv'
      <3>1. /\ UNCHANGED <<kind, disk, ctl>> /\ kind = "serve"
            /\ \/ call' = NoCall
               \/ call' = Request("offer", None) /\ pc' = "wait"
        BY <1>0, <2>1, Zenon DEF ServeTop, Ends, Posting
      <3> QED
        BY <1>0, <3>1 DEF PostInv, Posting, EmptyHanded
    <2>2. ASSUME ServeOffered PROVE PostInv'
      BY <1>0, <2>2, Zenon DEF ServeOffered, PostInv, Posting, EmptyHanded
    <2>3. ASSUME Flush PROVE PostInv'
      BY <1>0, <2>3 DEF Flush, PostInv, Posting, EmptyHanded
    <2>4. ASSUME ServeFlushed PROVE PostInv'
      BY <1>0, <2>4, Zenon DEF ServeFlushed, PostInv, Posting, EmptyHanded
    <2>5. ASSUME ServeTakesResult PROVE PostInv'
      BY <1>0, <2>5 DEF ServeTakesResult, PostInv, Posting, EmptyHanded
    <2>6. ASSUME ServePolls \/ ServeSkipsPoll \/ ServeClaimed \/ ServeProbes PROVE PostInv'
      BY <1>0, <2>6 DEF ServePolls, ServeSkipsPoll, ServeClaimed, ServeProbes, PostInv, Posting,
         EmptyHanded
    <2> QED
      BY <1>2, <2>1, <2>2, <2>3, <2>4, <2>5, <2>6, Zenon DEF Loop
  <1>3. CASE Line
    <2>1. ASSUME LineFlushed PROVE PostInv'
      BY <1>0, <2>1 DEF LineFlushed, GivesUp, PostInv, Posting, EmptyHanded, Typed, Disks
    <2>2. ASSUME EdgeOffers \/ LineClaims PROVE PostInv'
      BY <1>0, <2>2 DEF EdgeOffers, LineClaims, PostInv, Posting, EmptyHanded
    <2>3. ASSUME EdgeOffered \/ LineClaimed PROVE PostInv'
      BY <1>0, <2>3 DEF EdgeOffered, LineClaimed, GivesUp, Waiting, PostInv, Posting, EmptyHanded
    <2>4. ASSUME LinePersists PROVE PostInv'
      BY <1>0, <2>4 DEF LinePersists, GivesUp, PostInv, Posting, EmptyHanded, Typed, Disks
    <2>5. ASSUME LineSubmitted PROVE PostInv'
      BY <1>0, <2>5, Zenon DEF LineSubmitted, GivesUp, PostInv, Posting, EmptyHanded
    <2> QED
      BY <1>3, <2>1, <2>2, <2>3, <2>4, <2>5, Zenon DEF Line
  <1>4. CASE Executor
    <2>1. disk'.outbox = disk.outbox
      BY <1>0, <1>4 DEF Executor, ExecAccepts, ExecRuns, Typed, Disks
    <2> QED
      BY <1>4, <2>1, Aside, Zenon DEF Executor, ExecAccepts, ExecRuns
  <1>5. CASE ControllerServes
    <2>1. PICK o \in Outcomes(call) : ctl' = o[1] /\ (reply' = o[2] \/ reply' = "lost")
      BY <1>5, Zenon DEF ControllerServes
    <2>2. call \in Real
      BY <1>0, <1>5, CallIsReal, Zenon DEF ControllerServes
    <2>3. ctl.done \subseteq o[1].done /\ (call.op = "receipt" /\ o[2] = "ok" => call.arg \in o[1].done)
      BY <1>0, <2>1, <2>2, Acknowledged, Zenon DEF Delivering
    <2> QED
      BY <1>5, <2>1, <2>3, Aside, Zenon DEF ControllerServes
  <1>6. CASE LateRequestArrives
    <2>0. PICK m \in late : \E o \in Outcomes(m) : ctl' = o[1] /\ late' = late \ {m}
      BY <1>6, Zenon DEF LateRequestArrives
    <2>1. PICK o \in Outcomes(m) : ctl' = o[1]
      BY <2>0, Zenon
    <2>2. ctl.done \subseteq o[1].done
      BY <1>0, <2>1, Acknowledged, Zenon DEF Delivering, Typed
    <2> QED
      BY <1>6, <2>1, <2>2, Aside, Zenon DEF LateRequestArrives
  <1>7. CASE Crash \/ Pulse \/ EdgeCloses
    BY <1>0, <1>7 DEF Crash, Pulse, EdgeCloses, Ends, PostInv, Posting, EmptyHanded
  <1>8. CASE LateRequestDropped \/ DeadlinePasses \/ BenchmarkAges \/ LeaseLapsed
    BY <1>8, Aside, Zenon DEF LateRequestDropped, DeadlinePasses, BenchmarkAges, LeaseLapsed
  <1>9. CASE OwnerStops \/ OwnerResumes
    <2>1. disk'.outbox = disk.outbox
      BY <1>0, <1>9, OneFile, Zenon DEF OwnerStops, OwnerResumes
    <2> QED
      BY <1>9, <2>1, Aside, Zenon DEF OwnerStops, OwnerResumes
  <1>10. CASE ControllerFences \/ InviteExpires \/ \E j \in Jobs : ControllerAssigns(j)
    <2>1. ctl'.done = ctl.done
      BY <1>0, <1>10 DEF ControllerFences, InviteExpires, ControllerAssigns, Typed
    <2> QED
      BY <1>10, <2>1, Aside DEF ControllerFences, InviteExpires, ControllerAssigns
  <1> QED
    BY <1>1, <1>2, <1>3, <1>4, <1>5, <1>6, <1>7, <1>8, <1>9, <1>10, Zenon DEF Next, Environment

\* What OutboxRetained asks of one step.
Retains ==
  disk.outbox # None /\ disk'.outbox # disk.outbox
    => disk.outbox \in ctl.done \/ (kind = "serve" /\ disk'.outbox # None)

\* Only the answer to a receipt and a new receipt change the outbox.
LEMMA RetainsStep ==
  ASSUME WorkerInv, PostInv, Next
  PROVE  Retains
  <1>0. Typed /\ Executing /\ Posting /\ EmptyHanded
    BY Zenon DEF WorkerInv, PostInv
  <1> USE WorkerAssumption DEF Hangup, Request, NoCall, None
  <1>1. CASE ServeFlushed \/ LineFlushed \/ LineSubmitted
    BY <1>0, <1>1, Zenon DEF ServeFlushed, LineFlushed, LineSubmitted, Waiting, Retains, Posting
  <1>2. CASE ServeTakesResult
    <2>1. exec.phase = "receipt" => exec.job \in Jobs
      BY <1>0, Zenon DEF Executing
    <2> QED
      BY <1>0, <1>2, <2>1 DEF ServeTakesResult, Retains, Typed, Disks
  <1>3. CASE LinePersists
    BY <1>0, <1>3, Zenon DEF LinePersists, Retains, EmptyHanded
  <1>4. CASE Startup
    BY <1>0, <1>4, OneFile, Zenon DEF Startup, AgentStarts, AgentEnrolled, AgentPins, EdgeOpens,
       EdgeEnrolled, EdgeWritesIdentity, Retains
  <1>5. CASE OwnerStops \/ OwnerResumes
    BY <1>0, <1>5, OneFile, Zenon DEF OwnerStops, OwnerResumes, Retains
  <1>6. CASE Executor
    BY <1>0, <1>6 DEF Executor, ExecAccepts, ExecRuns, Typed, Disks, Retains
  <1>7. CASE UNCHANGED disk
    BY <1>7 DEF Retains
  <1> QED
    BY <1>1, <1>2, <1>3, <1>4, <1>5, <1>6, <1>7, Zenon DEF Next, Loop, Line, Environment, ServeTop,
       ServeOffered, Flush, ServePolls, ServeSkipsPoll, ServeClaimed, ServeProbes, EdgeOffers,
       EdgeOffered, LineClaims, LineClaimed, ControllerServes, LateRequestArrives,
       LateRequestDropped, DeadlinePasses, ControllerAssigns, ControllerFences, InviteExpires,
       Crash, BenchmarkAges, LeaseLapsed, Pulse, EdgeCloses

\* A signed receipt leaves the outbox only after the controller recorded it, or,
\* in the desktop loop, for the receipt of a later job, whatever crashes, lost
\* answers and late requests come between (OutboxRetained).
THEOREM ReceiptsAreRetained == Spec => OutboxRetained
  <1>1. Init => PostInv
    BY WorkerAssumption DEF Init, PostInv, Posting, EmptyHanded, NoCall, Request, FreshDisk, None
  <1>2. WorkerInv /\ PostInv /\ [Next]_vars => PostInv'
    <2>1. ASSUME WorkerInv, PostInv, UNCHANGED vars
          PROVE  PostInv'
      BY <2>1, Zenon DEF PostInv, Posting, EmptyHanded, vars
    <2> QED
      BY <2>1, PostStep, Zenon
  <1>3. WorkerInv /\ PostInv /\ [Next]_vars => [Retains]_vars
    BY RetainsStep, Zenon
  <1> QED
    BY <1>1, <1>2, <1>3, WorkerAlways, PTL DEF Spec, OutboxRetained, Retains

-----------------------------------------------------------------------------
(* Model sessions.                                                         *)

Stages == {"idle", "opening", "active", "blocked", "finishing", "done", "abandoned"}

TaskRecords ==
  [pc : Stages, node : Hosts \cup {Nil}, digest : Versions \cup {Nil}, epoch : Nat, stream : BOOLEAN,
   api : {Nil, "openai", "anthropic"}, got : Nat, chan : Int, usage : BOOLEAN, left : BOOLEAN,
   expired : BOOLEAN,
   result : {Nil, "ok", "failed", "disconnected", "cancelled", "timeout", "no usage"}]

Runs == [pc : {"idle", "asked", "running", "ended"}, out : Nat]

Marks == {"issued", "receipted", "cancel"}

Frames == [kind : {"delta", "complete", "error", "broken"}, receipt : BOOLEAN, out : Nat, usage : BOOLEAN]

\* The types of what the properties are about.
GatewayTyped ==
  /\ fencing \in Nat /\ offered \in [Hosts -> Versions \cup {Nil}] /\ installed \in [Hosts -> Versions]
  /\ task \in [Invocations -> TaskRecords] /\ wk \in [Invocations -> Runs]
  /\ wire \in [Invocations -> Seq(Frames)] /\ entries \in [Invocations -> Seq(Marks)]

\* A worker is asked only by a session, and a receipt on its way counts all
\* that the worker produced, which produces nothing more.
Serving ==
  \A r \in Invocations :
    /\ task[r].pc = "idle" => wk[r].pc = "idle"
    /\ \A i \in 1..Len(wire[r]) :
         wire[r][i].receipt => wire[r][i].out = wk[r].out /\ wk[r].pc = "ended"

\* A completion is told last.
Told == \A r \in Invocations : task[r].result = "ok" => task[r].pc \in {"finishing", "done"}

\* A session that is being opened holds the gate; one that runs is registered.
Registered ==
  \A r \in Invocations : /\ task[r].pc = "opening" => admitting = r
                         /\ task[r].pc \in {"active", "blocked", "finishing"} => r \in DOMAIN cancels

GatewayInv == GatewayTyped /\ Serving /\ Told /\ Registered /\ CompletionIsReceipted

\* The invariant holds when the controller starts.
LEMMA GatewayStarts == GatewayInit => GatewayInv
  <1> SUFFICES ASSUME GatewayInit PROVE GatewayInv
    BY Zenon
  <1>1. NoTask \in TaskRecords /\ NoTask.pc = "idle" /\ NoTask.result = Nil
    BY DEF NoTask, TaskRecords, Stages
  <1>2. NoRun \in Runs /\ NoRun.pc = "idle"
    BY Zenon DEF NoRun, Runs
  <1>4. GatewayTyped
    BY <1>1, <1>2 DEF GatewayInit, GatewayTyped
  <1>5. Serving /\ Told /\ Registered /\ CompletionIsReceipted
    BY <1>1, <1>2 DEF GatewayInit, Serving, Told, Registered, CompletionIsReceipted, Nil
  <1> QED
    BY <1>4, <1>5, Zenon DEF GatewayInv

\* What a step of one session does: the others are left alone, and this one
\* keeps its part of the invariant.
Mine(r) ==
  /\ task'[r].pc = "idle" => wk'[r].pc = "idle"
  /\ \A i \in 1..Len(wire'[r]) :
       wire'[r][i].receipt => wire'[r][i].out = wk'[r].out /\ wk'[r].pc = "ended"
  /\ task'[r].result = "ok" =>
       /\ task'[r].pc \in {"finishing", "done"}
       /\ \E i \in DOMAIN entries'[r] : entries'[r][i] = "receipted"
       /\ task'[r].got = wk'[r].out /\ wk'[r].pc = "ended"
  /\ task'[r].pc = "opening" => admitting' = r
  /\ task'[r].pc \in {"active", "blocked", "finishing"} => r \in DOMAIN cancels'

Others(r) ==
  /\ \A s \in Invocations \ {r} : /\ task'[s] = task[s] /\ wk'[s] = wk[s] /\ wire'[s] = wire[s]
                                  /\ entries'[s] = entries[s]
  /\ DOMAIN cancels \ {r} \subseteq DOMAIN cancels'
  /\ admitting' = admitting \/ admitting \in {Nil, r}

\* Such a step keeps the invariant.
LEMMA SessionKeeps ==
  ASSUME GatewayInv, NEW r \in Invocations, GatewayTyped', Mine(r), Others(r) PROVE GatewayInv'
  <1>1. Serving'
    BY DEF GatewayInv, Serving, Mine, Others
  <1>2. Told'
    BY Zenon DEF GatewayInv, Told, Mine, Others
  <1>3. Registered'
    BY GatewayAssumption, ZenonT(30) DEF GatewayInv, Registered, Mine, Others
  <1>4. CompletionIsReceipted'
    BY DEF GatewayInv, CompletionIsReceipted, Mine, Others
  <1> QED
    BY <1>1, <1>2, <1>3, <1>4, Zenon DEF GatewayInv

\* What the invariant says of one session.
LEMMA OfSession ==
  ASSUME GatewayInv, NEW r \in Invocations
  PROVE  /\ task[r] \in TaskRecords /\ wk[r] \in Runs /\ wire[r] \in Seq(Frames)
         /\ entries[r] \in Seq(Marks)
         /\ task[r].pc = "idle" => wk[r].pc = "idle"
         /\ \A i \in 1..Len(wire[r]) :
              wire[r][i].receipt => wire[r][i].out = wk[r].out /\ wk[r].pc = "ended"
         /\ task[r].result = "ok" =>
              /\ task[r].pc \in {"finishing", "done"}
              /\ \E i \in DOMAIN entries[r] : entries[r][i] = "receipted"
              /\ task[r].got = wk[r].out /\ wk[r].pc = "ended"
         /\ task[r].pc = "opening" => admitting = r
         /\ task[r].pc \in {"active", "blocked", "finishing"} => r \in DOMAIN cancels
  BY Zenon DEF GatewayInv, GatewayTyped, Serving, Told, Registered, CompletionIsReceipted

\* A step that changes the task of one session only.
LEMMA TaskMoves ==
  ASSUME GatewayInv, NEW r \in Invocations, NEW t \in TaskRecords, task' = [task EXCEPT ![r] = t],
         UNCHANGED <<fencing, offered, installed, wk, wire, entries>>,
         t.pc # "idle",
         t.result = "ok" => task[r].result = "ok" /\ t.got = task[r].got /\ t.pc \in {"finishing", "done"},
         admitting' = admitting \/ (admitting' = Nil /\ admitting \in {Nil, r}),
         t.pc = "opening" => admitting' = r,
         t.pc \in {"active", "blocked", "finishing"} => r \in DOMAIN cancels',
         DOMAIN cancels \ {r} \subseteq DOMAIN cancels'
  PROVE  GatewayInv'
  <1>1. task' \in [Invocations -> TaskRecords] /\ task'[r] = t
        /\ \A s \in Invocations \ {r} : task'[s] = task[s]
    BY Zenon DEF GatewayInv, GatewayTyped
  <1>2. GatewayTyped'
    BY <1>1, Zenon DEF GatewayInv, GatewayTyped
  <1>3. Mine(r)
    BY <1>1, OfSession, Zenon DEF Mine
  <1>4. Others(r)
    BY <1>1, Zenon DEF Others
  <1> QED
    BY <1>2, <1>3, <1>4, SessionKeeps, Zenon

\* A step of the worker's side of one session.
LEMMA RunMoves ==
  ASSUME GatewayInv, NEW r \in Invocations, NEW w \in Runs, NEW ws \in Seq(Frames),
         wk' = [wk EXCEPT ![r] = w], wire' = [wire EXCEPT ![r] = ws],
         wk[r].pc \in {"asked", "running"},
         UNCHANGED <<fencing, offered, installed, task, entries, admitting, cancels>>,
         \A i \in 1..Len(ws) : ws[i].receipt => ws[i].out = w.out /\ w.pc = "ended"
  PROVE  GatewayInv'
  <1>1. wk' \in [Invocations -> Runs] /\ wk'[r] = w /\ \A s \in Invocations \ {r} : wk'[s] = wk[s]
    BY Zenon DEF GatewayInv, GatewayTyped
  <1>2. wire' \in [Invocations -> Seq(Frames)] /\ wire'[r] = ws
        /\ \A s \in Invocations \ {r} : wire'[s] = wire[s]
    BY Zenon DEF GatewayInv, GatewayTyped
  <1>3. GatewayTyped'
    BY <1>1, <1>2, Zenon DEF GatewayInv, GatewayTyped
  <1>4. Mine(r)
    BY <1>1, <1>2, OfSession DEF Mine
  <1>5. Others(r)
    BY <1>1, <1>2, Zenon DEF Others
  <1> QED
    BY <1>3, <1>4, <1>5, SessionKeeps, Zenon

\* A worker that has not ended has sent no receipt; a frame goes behind what
\* it has sent.
LEMMA FrameSent ==
  ASSUME GatewayInv, NEW r \in Invocations, wk[r].pc \in {"asked", "running"}, NEW f \in Frames
  PROVE  /\ wire[r] \in Seq(Frames) /\ Append(wire[r], f) \in Seq(Frames)
         /\ \A i \in 1..Len(wire[r]) : ~wire[r][i].receipt
         /\ \A i \in 1..Len(Append(wire[r], f)) :
              Append(wire[r], f)[i].receipt => Append(wire[r], f)[i] = f
  <1>1. wire[r] \in Seq(Frames) /\ \A i \in 1..Len(wire[r]) : ~wire[r][i].receipt
    BY OfSession, Zenon
  <1>2. Append(wire[r], f) \in Seq(Frames)
    BY <1>1
  <1>3. \A i \in 1..Len(Append(wire[r], f)) :
          (i \in 1..Len(wire[r]) /\ Append(wire[r], f)[i] = wire[r][i]) \/ Append(wire[r], f)[i] = f
    BY <1>1
  <1> QED
    BY <1>1, <1>2, <1>3, Zenon

\* A lease names a worker, its artifact and the epoch.
LEMMA LeaseRecord ==
  ASSUME NEW n \in Hosts, NEW d \in Versions \cup {Nil}, NEW e \in Nat
  PROVE  [NoTask EXCEPT !.pc = "opening", !.node = n, !.digest = d, !.epoch = e] \in TaskRecords
  <1>1. NoTask \in TaskRecords
    BY DEF NoTask, TaskRecords, Stages
  <1> QED
    BY <1>1, Zenon DEF TaskRecords, Stages

\* And the lease of a session that starts is one.
LEMMA LeaseTyped ==
  ASSUME NEW n \in Hosts, offered[n] \in Versions \cup {Nil}, fencing \in Nat
  PROVE  /\ Leased(n) \in TaskRecords /\ Leased(n).pc = "opening" /\ Leased(n).digest = offered[n]
         /\ Leased(n).result = Nil
  <1>1. Leased(n) \in TaskRecords
    BY LeaseRecord, Zenon DEF Leased
  <1>2. NoTask \in TaskRecords /\ NoTask.result = Nil
    BY DEF NoTask, TaskRecords, Stages
  <1>3. Leased(n).pc = "opening" /\ Leased(n).digest = offered[n] /\ Leased(n).result = Nil
    BY <1>2, Zenon DEF TaskRecords, Leased
  <1> QED
    BY <1>1, <1>3, Zenon

\* The client's side: how it wants the answer, and through which API.
LEMMA ClientTyped ==
  ASSUME NEW q \in TaskRecords, NEW b \in BOOLEAN, NEW a \in {"openai", "anthropic"}
  PROVE  LET t == [q EXCEPT !.stream = b, !.api = a]
         IN  t \in TaskRecords /\ t.pc = q.pc /\ t.digest = q.digest /\ t.result = q.result
  BY Zenon DEF TaskRecords

\* start_model_invocation, under the gate: lease, entry, request.
LEMMA StartKeeps ==
  ASSUME GatewayInv, NEW r \in Invocations, NEW n \in Hosts, NEW stream \in BOOLEAN,
         NEW api \in {"openai", "anthropic"}, StartModelInvocation(r, n, stream, api)
  PROVE  GatewayInv'
  <1> DEFINE t == [Leased(n) EXCEPT !.stream = stream, !.api = api]
             w == [wk[r] EXCEPT !.pc = "asked"]
  <1>1. t \in TaskRecords /\ t.pc = "opening" /\ t.result = Nil
    <2>2. offered[n] \in Versions \cup {Nil} /\ fencing \in Nat
      BY DEF GatewayInv, GatewayTyped
    <2>3. Leased(n) \in TaskRecords /\ Leased(n).pc = "opening" /\ Leased(n).result = Nil
      BY <2>2, LeaseTyped
    <2> QED
      BY <2>3, ClientTyped, ZenonT(30)
  <1>2. /\ wk[r] \in Runs /\ w \in Runs /\ w.pc = "asked" /\ wk[r].pc = "idle"
        /\ \A i \in 1..Len(wire[r]) : ~wire[r][i].receipt
    BY OfSession, Zenon DEF Runs, StartModelInvocation
  <1>3. /\ task' = [task EXCEPT ![r] = t] /\ wk' = [wk EXCEPT ![r] = w]
        /\ entries' = [entries EXCEPT ![r] = Append(entries[r], "issued")]
        /\ admitting = Nil /\ admitting' = r
        /\ UNCHANGED <<fencing, offered, installed, wire, cancels>>
    BY Zenon DEF StartModelInvocation, ownerSide
  <1> HIDE DEF t, w
  <1>4. Append(entries[r], "issued") \in Seq(Marks)
    <2>1. entries[r] \in Seq(Marks) /\ "issued" \in Marks
      BY OfSession, Zenon DEF Marks
    <2> QED
      BY <2>1
  <1>5. /\ GatewayTyped' /\ task'[r] = t /\ wk'[r] = w
        /\ \A s \in Invocations \ {r} : task'[s] = task[s] /\ wk'[s] = wk[s] /\ entries'[s] = entries[s]
    BY <1>1, <1>2, <1>3, <1>4, Zenon DEF GatewayInv, GatewayTyped
  <1>6. Mine(r)
    BY <1>1, <1>2, <1>3, <1>5, Zenon DEF Mine, Nil
  <1>7. Others(r)
    BY <1>3, <1>5, Zenon DEF Others
  <1> QED
    BY <1>5, <1>6, <1>7, SessionKeeps

\* The worker is connected and the session registered, or it is not reached.
LEMMA ConnectKeeps ==
  ASSUME GatewayInv, NEW r \in Invocations, Connected(r) \/ ConnectFails(r) PROVE GatewayInv'
  <1>1. task[r] \in TaskRecords /\ task[r].pc = "opening" /\ admitting = r /\ task[r].result # "ok"
    BY OfSession, Zenon DEF Connected, ConnectFails
  <1>2. CASE Connected(r)
    <2> DEFINE t == [task[r] EXCEPT !.pc = "active"]
    <2>1. t \in TaskRecords /\ t.pc = "active" /\ t.result = task[r].result
      BY <1>1, Zenon DEF TaskRecords, Stages
    <2>2. task' = [task EXCEPT ![r] = t] /\ DOMAIN cancels' = DOMAIN cancels \cup {r}
      BY <1>2 DEF Connected
    <2>3. admitting' = Nil /\ UNCHANGED <<fencing, offered, installed, wk, wire, entries>>
      BY <1>2 DEF Connected, ownerSide
    <2> HIDE DEF t
    <2> QED
      BY <1>1, <2>1, <2>2, <2>3, TaskMoves, Zenon
  <1>3. CASE ConnectFails(r)
    <2> DEFINE t == [task[r] EXCEPT !.pc = "done", !.result = "failed"]
    <2>1. t \in TaskRecords /\ t.pc = "done" /\ t.result = "failed"
      BY <1>1, Zenon DEF TaskRecords, Stages
    <2>2. task' = [task EXCEPT ![r] = t] /\ cancels' = cancels
      BY <1>3, Zenon DEF ConnectFails
    <2>3. admitting' = Nil /\ UNCHANGED <<fencing, offered, installed, wk, wire, entries>>
      BY <1>3 DEF ConnectFails, ownerSide
    <2> HIDE DEF t
    <2> QED
      BY <1>1, <2>1, <2>2, <2>3, TaskMoves, Zenon
  <1> QED
    BY <1>2, <1>3

\* The worker serves a session, produces a line, ends, or dies.
LEMMA WorkerSideKeeps ==
  ASSUME GatewayInv, NEW r \in Invocations,
         ServeModelConnection(r) \/ ProcessOllamaLine(r) \/ OllamaEnds(r) \/ ConnectionBreaks(r)
  PROVE  GatewayInv'
  <1>1. /\ wk[r] \in Runs /\ wk[r].pc \in {"asked", "running"}
        /\ UNCHANGED <<fencing, offered, installed, task, entries, admitting, cancels>>
    BY OfSession, Zenon DEF ServeModelConnection, ProcessOllamaLine, OllamaEnds, ConnectionBreaks, ownerSide
  <1> DEFINE e == [wk[r] EXCEPT !.pc = "ended"]
             g == [wk[r] EXCEPT !.pc = "running"]
             h == [wk[r] EXCEPT !.out = @ + 1]
  <1>2. /\ e \in Runs /\ e.out = wk[r].out /\ e.pc = "ended" /\ g \in Runs /\ h \in Runs
        /\ wk[r].out \in Nat
    BY <1>1 DEF Runs
  <1>3. ASSUME NEW w \in Runs, wk' = [wk EXCEPT ![r] = w],
               NEW k \in {"delta", "complete", "error", "broken"}, NEW b \in BOOLEAN, NEW o \in Nat,
               NEW u \in BOOLEAN, Write(r, Frame(k, b, o, u)),
               b => o = w.out /\ w.pc = "ended"
        PROVE  GatewayInv'
    <2> DEFINE f == Frame(k, b, o, u)
    <2>1. f \in Frames /\ f.receipt = b /\ f.out = o
      BY DEF Frame, Frames
    <2>2. wire' = [wire EXCEPT ![r] = Append(wire[r], f)]
      BY <1>3, Zenon DEF Write
    <2> HIDE DEF f
    <2>3. /\ Append(wire[r], f) \in Seq(Frames)
          /\ \A i \in 1..Len(Append(wire[r], f)) :
               Append(wire[r], f)[i].receipt => Append(wire[r], f)[i] = f
      BY <1>1, <2>1, FrameSent, Zenon
    <2> DEFINE ws == Append(wire[r], f)
    <2>4. /\ ws \in Seq(Frames) /\ wire' = [wire EXCEPT ![r] = ws]
          /\ \A i \in 1..Len(ws) : ws[i].receipt => ws[i].out = w.out /\ w.pc = "ended"
      BY <1>3, <2>1, <2>2, <2>3, Zenon
    <2> HIDE DEF ws
    <2> QED
      BY <1>1, <1>3, <2>4, RunMoves, Zenon
  <1>4. CASE wk' = [wk EXCEPT ![r] = g] /\ wire' = wire
    <2> DEFINE ws == wire[r]
    <2>1. ws \in Seq(Frames) /\ \A i \in 1..Len(ws) : ~ws[i].receipt
      BY <1>1, OfSession, Zenon
    <2>2. wire' = [wire EXCEPT ![r] = ws]
      BY <1>4 DEF GatewayInv, GatewayTyped
    <2> HIDE DEF ws, g
    <2> QED
      BY <1>1, <1>2, <1>4, <2>1, <2>2, RunMoves, Zenon
  <1>5. CASE ServeModelConnection(r)
    <2>1. \/ wk' = [wk EXCEPT ![r] = g] /\ wire' = wire
          \/ wk' = [wk EXCEPT ![r] = e] /\ Write(r, Frame("error", FALSE, 0, FALSE))
      BY <1>5, Zenon DEF ServeModelConnection
    <2> HIDE DEF e, g
    <2> QED
      BY <1>2, <1>3, <1>4, <2>1, Zenon
  <1>6. CASE ProcessOllamaLine(r)
    <2>1. wk' = [wk EXCEPT ![r] = h] /\ Write(r, Frame("delta", FALSE, 0, FALSE))
      BY <1>6, Zenon DEF ProcessOllamaLine
    <2> HIDE DEF h
    <2> QED
      BY <1>2, <1>3, <2>1, Zenon
  <1>7. CASE OllamaEnds(r)
    <2>1. PICK k \in {"complete", "error"}, u \in BOOLEAN :
            wk' = [wk EXCEPT ![r] = e] /\ Write(r, Frame(k, TRUE, wk[r].out, u))
      BY <1>7, Zenon DEF OllamaEnds
    <2> HIDE DEF e
    <2> QED
      BY <1>2, <1>3, <2>1, Zenon
  <1>8. CASE ConnectionBreaks(r)
    <2>1. wk' = [wk EXCEPT ![r] = e] /\ Write(r, Frame("broken", FALSE, 0, FALSE))
      BY <1>8, Zenon DEF ConnectionBreaks
    <2> HIDE DEF e
    <2> QED
      BY <1>2, <1>3, <2>1, Zenon
  <1> QED
    BY <1>5, <1>6, <1>7, <1>8

\* The counters of a task.
LEMMA Counters ==
  ASSUME NEW q \in TaskRecords
  PROVE  /\ q.got \in Nat /\ q.got + 1 \in Nat
         /\ q.chan \in Int /\ q.chan + 1 \in Int /\ q.chan - 1 \in Int
  <1>1. q.got \in Nat /\ q.chan \in Int
    BY Zenon DEF TaskRecords
  <1> QED
    BY <1>1

\* A task whose counter of deltas becomes n.
LEMMA GotTyped ==
  ASSUME NEW q \in TaskRecords, NEW n \in Nat
  PROVE  /\ [q EXCEPT !.got = n] \in TaskRecords
         /\ [q EXCEPT !.got = n].pc = q.pc /\ [q EXCEPT !.got = n].result = q.result
  BY Zenon DEF TaskRecords

\* A task whose channel holds n deltas.
LEMMA ChanTyped ==
  ASSUME NEW q \in TaskRecords, NEW n \in Int
  PROVE  /\ [q EXCEPT !.chan = n] \in TaskRecords
         /\ [q EXCEPT !.chan = n].pc = q.pc /\ [q EXCEPT !.chan = n].result = q.result
  BY Zenon DEF TaskRecords

\* A task at another stage.
LEMMA StageTyped ==
  ASSUME NEW q \in TaskRecords, NEW p \in Stages
  PROVE  /\ [q EXCEPT !.pc = p] \in TaskRecords
         /\ [q EXCEPT !.pc = p].pc = p /\ [q EXCEPT !.pc = p].result = q.result
  BY Zenon DEF TaskRecords

\* A task whose client has gone, or that ends for another reason.
LEMMA EndTyped ==
  ASSUME NEW q \in TaskRecords
  PROVE  \A x \in {"disconnected", "cancelled", "timeout"} :
           /\ [q EXCEPT !.pc = "finishing", !.result = x] \in TaskRecords
           /\ [q EXCEPT !.pc = "finishing", !.result = x].pc = "finishing"
           /\ [q EXCEPT !.pc = "finishing", !.result = x].result = x
  BY Zenon DEF TaskRecords, Stages

\* The controller takes a frame: a delta is collected, any other ends the
\* session, with a completion only on a receipt that counts what was collected.
LEMMA FrameKeeps ==
  ASSUME GatewayInv, NEW r \in Invocations, TakeFrame(r) PROVE GatewayInv'
  <1> DEFINE f == Head(wire[r])
             good == f.kind \in {"complete", "error"} /\ VerifiedReceipt(r, f)
             ws == Tail(wire[r])
  <1>1. /\ task[r] \in TaskRecords /\ wk[r] \in Runs /\ wire[r] \in Seq(Frames) /\ wire[r] # << >>
        /\ entries[r] \in Seq(Marks) /\ task[r].pc = "active" /\ task[r].result # "ok"
        /\ r \in DOMAIN cancels
    BY OfSession, Zenon DEF TakeFrame
  <1>2. /\ f \in Frames /\ f = wire[r][1] /\ ws \in Seq(Frames)
        /\ f.receipt => f.out = wk[r].out /\ wk[r].pc = "ended"
        /\ \A i \in 1..Len(ws) : ws[i].receipt => ws[i].out = wk[r].out /\ wk[r].pc = "ended"
    <2>1. \A i \in 1..Len(wire[r]) :
            wire[r][i].receipt => wire[r][i].out = wk[r].out /\ wk[r].pc = "ended"
      BY OfSession, Zenon
    <2>2. /\ 1 \in 1..Len(wire[r]) /\ f = wire[r][1] /\ f \in Frames /\ ws \in Seq(Frames)
          /\ \A i \in 1..Len(ws) : i + 1 \in 1..Len(wire[r]) /\ ws[i] = wire[r][i + 1]
      BY <1>1
    <2> HIDE DEF f, ws
    <2> QED
      BY <2>1, <2>2, Zenon
  <1> DEFINE t == IF f.kind = "delta" THEN Relayed(r)
                  ELSE [EndsSession(r, Outcome(f, good)) EXCEPT !.usage = f.usage]
             es == IF good THEN Append(entries[r], "receipted") ELSE entries[r]
  <1>3. /\ t \in TaskRecords /\ t.pc \in {"active", "blocked", "finishing"}
        /\ t.result = "ok" => good /\ t.got = task[r].got /\ t.pc = "finishing"
    <2> HIDE DEF f
    <2>1. CASE f.kind = "delta"
      <3> DEFINE c == [task[r] EXCEPT !.got = @ + 1]
      <3>1. c \in TaskRecords /\ c.pc = "active" /\ c.result = task[r].result
        <4>1. task[r].got \in Nat /\ task[r].got + 1 \in Nat
          BY <1>1, Counters
        <4> QED
          BY <1>1, <4>1, GotTyped
      <3>2. t \in {c, [c EXCEPT !.pc = "finishing", !.result = "disconnected"], [c EXCEPT !.chan = @ + 1],
                   [c EXCEPT !.pc = "blocked"]}
        BY <2>1, Zenon DEF Relayed
      <3> HIDE DEF c, t
      <3> DEFINE gone == [c EXCEPT !.pc = "finishing", !.result = "disconnected"]
                 more == [c EXCEPT !.chan = @ + 1]
                 full == [c EXCEPT !.pc = "blocked"]
                 Fits(x) == /\ x \in TaskRecords /\ x.pc \in {"active", "blocked", "finishing"}
                            /\ x.result # "ok"
      <3>3. \A x \in {c, gone, more, full} : Fits(x)
        <4>1. c.chan \in Int /\ c.chan + 1 \in Int
          BY <3>1, Counters
        <4>2. more \in TaskRecords /\ more.pc = c.pc /\ more.result = c.result
          BY <3>1, <4>1, ChanTyped
        <4>3. full \in TaskRecords /\ full.pc = "blocked" /\ full.result = c.result
          BY <3>1, StageTyped, Zenon DEF Stages
        <4>4. gone \in TaskRecords /\ gone.pc = "finishing" /\ gone.result = "disconnected"
          BY <3>1, EndTyped, Zenon
        <4> HIDE DEF gone, more, full
        <4>5. Fits(c)
          BY <1>1, <3>1, Zenon
        <4>6. Fits(more) /\ Fits(full)
          BY <4>2, <4>3, <4>5, Zenon
        <4>7. Fits(gone)
          BY <4>4
        <4> QED
          BY <4>5, <4>6, <4>7, Zenon
      <3> QED
        BY <3>2, <3>3, Zenon
    <2>2. CASE f.kind # "delta"
      <3> DEFINE o == Outcome(f, good)
                 x == EndsSession(r, o)
      <3>1. o \in {"ok", "failed"} /\ (o = "ok" => good)
        BY Zenon DEF Outcome
      <3> HIDE DEF o
      <3>2. x \in TaskRecords /\ x.pc = "finishing" /\ x.result = o /\ x.got = task[r].got
        BY <1>1, <3>1, Zenon DEF EndsSession, TaskRecords, Stages
      <3> HIDE DEF x
      <3>3. t = [x EXCEPT !.usage = f.usage] /\ f.usage \in BOOLEAN
        BY <1>2, <2>2, Zenon DEF x, o, Frames
      <3> HIDE DEF t
      <3> QED
        BY <3>1, <3>2, <3>3, Zenon DEF TaskRecords
    <2> QED
      BY <2>1, <2>2, Zenon
  <1>4. /\ es \in Seq(Marks) /\ (good => \E i \in DOMAIN es : es[i] = "receipted")
    <2>1. CASE good
      <3>1. es = Append(entries[r], "receipted") /\ "receipted" \in Marks
        BY <2>1, Zenon DEF Marks
      <3>2. es \in Seq(Marks) /\ Len(entries[r]) + 1 \in DOMAIN es /\ es[Len(entries[r]) + 1] = "receipted"
        BY <1>1, <3>1
      <3> QED
        BY <3>2
    <2>2. CASE ~good
      BY <1>1, <2>2, Zenon
    <2> QED
      BY <2>1, <2>2, Zenon
  <1>5. good => task[r].got = wk[r].out /\ wk[r].pc = "ended"
    BY <1>2, Zenon DEF VerifiedReceipt
  <1>6. /\ wire' = [wire EXCEPT ![r] = ws] /\ task' = [task EXCEPT ![r] = t]
        /\ UNCHANGED <<fencing, offered, installed, admitting, cancels, wk>>
    BY DEF TakeFrame, ownerSide
  <1>7. entries' = [entries EXCEPT ![r] = es]
    BY Zenon DEF TakeFrame, GatewayInv, GatewayTyped
  <1> HIDE DEF f, good, ws, t, es
  <1>8. /\ GatewayTyped' /\ task'[r] = t /\ wire'[r] = ws /\ entries'[r] = es /\ wk'[r] = wk[r]
        /\ \A s \in Invocations \ {r} : /\ task'[s] = task[s] /\ wire'[s] = wire[s]
                                        /\ entries'[s] = entries[s] /\ wk'[s] = wk[s]
    BY <1>2, <1>3, <1>4, <1>6, <1>7, Zenon DEF GatewayInv, GatewayTyped
  <1>9. Mine(r)
    <2>1. \A i \in 1..Len(wire'[r]) :
            wire'[r][i].receipt => wire'[r][i].out = wk'[r].out /\ wk'[r].pc = "ended"
      BY <1>2, <1>8, Zenon
    <2>2. task'[r].result = "ok" =>
            /\ task'[r].pc \in {"finishing", "done"}
            /\ \E i \in DOMAIN entries'[r] : entries'[r][i] = "receipted"
            /\ task'[r].got = wk'[r].out /\ wk'[r].pc = "ended"
      BY <1>3, <1>4, <1>5, <1>8, Zenon
    <2>3. /\ task'[r].pc \notin {"idle", "opening"}
          /\ task'[r].pc \in {"active", "blocked", "finishing"} => r \in DOMAIN cancels'
      BY <1>1, <1>3, <1>6, <1>8, Zenon
    <2> QED
      BY <2>1, <2>2, <2>3, Zenon DEF Mine
  <1>10. Others(r)
    BY <1>6, <1>8, Zenon DEF Others
  <1> QED
    BY <1>8, <1>9, <1>10, SessionKeeps, Zenon

\* A task that only flips a flag or reads its channel keeps all that matters.
LEMMA FlagTyped ==
  ASSUME NEW q \in TaskRecords
  PROVE  /\ [q EXCEPT !.left = TRUE] \in TaskRecords /\ [q EXCEPT !.left = TRUE].pc = q.pc
         /\ [q EXCEPT !.left = TRUE].result = q.result /\ [q EXCEPT !.left = TRUE].got = q.got
         /\ [q EXCEPT !.expired = TRUE] \in TaskRecords /\ [q EXCEPT !.expired = TRUE].pc = q.pc
         /\ [q EXCEPT !.expired = TRUE].result = q.result /\ [q EXCEPT !.expired = TRUE].got = q.got
  BY Zenon DEF TaskRecords

\* The task gets room in the channel, or ends: its client is gone, it is
\* cancelled or its lease is over.
LEMMA WaitsKeep ==
  ASSUME GatewayInv, NEW r \in Invocations, SendReturns(r) \/ SeesCancellation(r) \/ SeesLeaseEnd(r)
  PROVE  GatewayInv'
  <1>1. /\ task[r] \in TaskRecords /\ task[r].pc \in {"active", "blocked"} /\ task[r].result # "ok"
        /\ r \in DOMAIN cancels
    BY OfSession DEF SendReturns, SeesCancellation, SeesLeaseEnd
  <1> DEFINE a == [task[r] EXCEPT !.pc = "active", !.chan = @ + 1]
  <1>2. PICK t : /\ task' = [task EXCEPT ![r] = t]
                 /\ t = a \/ \E x \in {"disconnected", "cancelled", "timeout"} :
                                t = [task[r] EXCEPT !.pc = "finishing", !.result = x]
    BY DEF SendReturns, SeesCancellation, SeesLeaseEnd, EndsSession, GatewayInv, GatewayTyped
  <1>3. a \in TaskRecords /\ a.pc = "active" /\ a.result = task[r].result
    <2>1. task[r].chan + 1 \in Int
      BY <1>1, Counters, Zenon
    <2> QED
      BY <1>1, <2>1, Zenon DEF TaskRecords, Stages
  <1>4. t \in TaskRecords /\ t.pc \in {"active", "finishing"} /\ t.result # "ok"
    <2> HIDE DEF a
    <2>1. CASE t = a
      BY <1>1, <1>3, <2>1, Zenon
    <2>2. CASE t # a
      <3>1. PICK x \in {"disconnected", "cancelled", "timeout"} :
               t = [task[r] EXCEPT !.pc = "finishing", !.result = x]
        BY <1>2, <2>2, Zenon
      <3> QED
        BY <1>1, <3>1, EndTyped, Zenon
    <2> QED
      BY <2>1, <2>2, Zenon
  <1>5. UNCHANGED <<fencing, offered, installed, wk, wire, entries, admitting, cancels>>
    BY DEF SendReturns, SeesCancellation, SeesLeaseEnd, ownerSide
  <1> QED
    BY <1>1, <1>2, <1>4, <1>5, TaskMoves, Zenon

\* The task of a finished session drops its entry; an Anthropic client may be
\* told of an error instead of the completion, never the other way round.
LEMMA CleanupKeeps ==
  ASSUME GatewayInv, NEW r \in Invocations, FinishesOpenAi(r) \/ FinishesAnthropic(r)
  PROVE  GatewayInv'
  <1>1. task[r] \in TaskRecords /\ task[r].pc = "finishing"
    BY OfSession, Zenon DEF FinishesOpenAi, FinishesAnthropic
  <1>2. PICK x : /\ x \in {task[r].result, "no usage"}
                 /\ task' = [task EXCEPT ![r] = [task[r] EXCEPT !.pc = "done", !.result = x]]
    <2>1. CASE FinishesOpenAi(r)
      <3>1. task' = [task EXCEPT ![r] = [task[r] EXCEPT !.pc = "done"]]
        BY <2>1, Zenon DEF FinishesOpenAi, GatewayInv, GatewayTyped
      <3>2. [task[r] EXCEPT !.pc = "done"] = [task[r] EXCEPT !.pc = "done", !.result = task[r].result]
        BY <1>1, Zenon DEF TaskRecords
      <3> QED
        BY <3>1, <3>2, Zenon
    <2>2. CASE FinishesAnthropic(r)
      BY <2>2, Zenon DEF FinishesAnthropic, GatewayInv, GatewayTyped
    <2> QED
      BY <2>1, <2>2, Zenon
  <1> DEFINE t == [task[r] EXCEPT !.pc = "done", !.result = x]
  <1>3. t \in TaskRecords /\ t.pc = "done" /\ t.result = x /\ t.got = task[r].got
    BY <1>1, <1>2, Zenon DEF TaskRecords, Stages
  <1>4. /\ UNCHANGED <<fencing, offered, installed, wk, wire, entries, admitting>>
        /\ DOMAIN cancels' = DOMAIN cancels \ {r}
    BY Zenon DEF FinishesOpenAi, FinishesAnthropic, ownerSide, DropEntry
  <1>5. task' = [task EXCEPT ![r] = t]
    BY <1>2, Zenon
  <1> HIDE DEF t
  <1> QED
    BY <1>1, <1>2, <1>3, <1>4, <1>5, TaskMoves, Zenon

\* The client reads from its channel, or its lease ends.
LEMMA ClientKeeps ==
  ASSUME GatewayInv, NEW r \in Invocations, ClientReads(r) \/ LeaseEnds(r) PROVE GatewayInv'
  <1>1. task[r] \in TaskRecords /\ task[r].chan - 1 \in Int
    BY OfSession, Counters
  <1>2. UNCHANGED <<fencing, offered, installed, wk, wire, entries, admitting, cancels>>
    BY Zenon DEF ClientReads, LeaseEnds, ownerSide
  <1>3. PICK t : /\ task' = [task EXCEPT ![r] = t]
                 /\ t \in {[task[r] EXCEPT !.chan = @ - 1], [task[r] EXCEPT !.expired = TRUE]}
    BY DEF ClientReads, LeaseEnds, GatewayInv, GatewayTyped
  <1>4. t \in TaskRecords /\ t.pc = task[r].pc /\ t.result = task[r].result /\ t.got = task[r].got
    <2>1. CASE t = [task[r] EXCEPT !.chan = @ - 1]
      BY <1>1, <2>1, ChanTyped
    <2>2. CASE t = [task[r] EXCEPT !.expired = TRUE]
      BY <1>1, <2>2, FlagTyped, Zenon
    <2> QED
      BY <1>3, <2>1, <2>2, Zenon
  <1>5. GatewayTyped'
    BY <1>2, <1>3, <1>4, Zenon DEF GatewayInv, GatewayTyped
  <1>6. /\ task'[r] = t /\ \A s \in Invocations \ {r} : task'[s] = task[s]
    BY <1>3, Zenon DEF GatewayInv, GatewayTyped
  <1>7. Mine(r) /\ Others(r)
    BY <1>2, <1>4, <1>6, OfSession, Zenon DEF Mine, Others
  <1> QED
    BY <1>5, <1>7, SessionKeeps, Zenon

\* A client that hangs up: a streaming session sees its channel closed, any
\* other is abandoned and gives the gate back.
LEMMA LeavingKeeps ==
  ASSUME GatewayInv, NEW r \in Invocations, ClientLeaves(r) PROVE GatewayInv'
  <1>1. /\ task[r] \in TaskRecords /\ task[r].pc \in {"opening", "active", "blocked"}
        /\ task[r].result # "ok" /\ (task[r].pc = "opening" => admitting = r)
        /\ (task[r].pc # "opening" => r \in DOMAIN cancels)
    BY OfSession, Zenon DEF ClientLeaves
  <1>2. UNCHANGED <<fencing, offered, installed, wk, wire, entries, cancels>>
    BY Zenon DEF ClientLeaves, ownerSide
  <1>3. CASE task[r].stream /\ task[r].pc # "opening"
    <2>1. /\ task' = [task EXCEPT ![r] = [task[r] EXCEPT !.left = TRUE]] /\ admitting' = admitting
      BY <1>3, Zenon DEF ClientLeaves, GatewayInv, GatewayTyped
    <2> DEFINE t == [task[r] EXCEPT !.left = TRUE]
    <2>2. t \in TaskRecords /\ t.pc = task[r].pc /\ t.result = task[r].result
      BY <1>1, FlagTyped, Zenon
    <2>3. task' = [task EXCEPT ![r] = t]
      BY <2>1, Zenon
    <2> HIDE DEF t
    <2> QED
      BY <1>1, <1>2, <1>3, <2>1, <2>2, <2>3, TaskMoves, Zenon
  <1>4. CASE ~(task[r].stream /\ task[r].pc # "opening")
    <2>1. /\ task' = [task EXCEPT ![r] = [task[r] EXCEPT !.pc = "abandoned"]]
          /\ admitting' = IF admitting = r THEN Nil ELSE admitting
      BY <1>4, Zenon DEF ClientLeaves, GatewayInv, GatewayTyped
    <2> DEFINE t == [task[r] EXCEPT !.pc = "abandoned"]
    <2>2. t \in TaskRecords /\ t.pc = "abandoned" /\ t.result = task[r].result
      BY <1>1, StageTyped, Zenon DEF Stages
    <2>3. task' = [task EXCEPT ![r] = t]
      BY <2>1, Zenon
    <2> HIDE DEF t
    <2> QED
      BY <1>1, <1>2, <2>1, <2>2, <2>3, TaskMoves, Zenon
  <1> QED
    BY <1>3, <1>4, Zenon

\* The owner cancels one session, and the ledger says so.
LEMMA CancellingKeeps ==
  ASSUME GatewayInv, NEW r \in Invocations, CancelModelSession(r) PROVE GatewayInv'
  <1> DEFINE es == Append(entries[r], "cancel")
  <1>1. entries' = [entries EXCEPT ![r] = es] /\ entries[r] \in Seq(Marks)
    BY OfSession, Zenon DEF CancelModelSession, GatewayInv, GatewayTyped
  <1>2. /\ es \in Seq(Marks) /\ \A i \in DOMAIN entries[r] : i \in DOMAIN es /\ es[i] = entries[r][i]
    BY <1>1 DEF Marks
  <1>3. /\ UNCHANGED <<fencing, offered, installed, task, wk, wire, admitting>>
        /\ DOMAIN cancels' = DOMAIN cancels
    BY Zenon DEF CancelModelSession, ownerSide
  <1> HIDE DEF es
  <1>4. GatewayTyped' /\ entries'[r] = es /\ \A s \in Invocations \ {r} : entries'[s] = entries[s]
    BY <1>1, <1>2, <1>3, Zenon DEF GatewayInv, GatewayTyped
  <1>5. Mine(r) /\ Others(r)
    <2>1. Mine(r)
      BY <1>2, <1>3, <1>4, OfSession, ZenonT(60) DEF Mine
    <2>2. Others(r)
      BY <1>3, <1>4, Zenon DEF Others
    <2> QED
      BY <2>1, <2>2, Zenon
  <1> QED
    BY <1>4, <1>5, SessionKeeps, Zenon

\* STOP, RESUME, a revocation, a pull and an offer change no session.
LEMMA RestKeeps ==
  ASSUME GatewayInv,
         \/ LocalStopCancels \/ LocalResumeModels
         \/ \E n \in Hosts : \/ RevokeNodeCancels(n) \/ RegisterModelOffer(n)
                             \/ \E d \in Versions : ModelPulled(n, d)
         \/ UNCHANGED gatewayVars
  PROVE  GatewayInv'
  <1>1. /\ UNCHANGED <<task, wk, wire, entries, admitting>> /\ DOMAIN cancels' = DOMAIN cancels
    BY Zenon DEF LocalStopCancels, LocalResumeModels, RevokeNodeCancels, RegisterModelOffer, ModelPulled,
           CancelAll, ownerSide, gatewayVars
  <1>2. fencing' \in Nat
    BY DEF LocalStopCancels, LocalResumeModels, RevokeNodeCancels, RegisterModelOffer, ModelPulled,
           ownerSide, gatewayVars, GatewayInv, GatewayTyped
  <1>3. offered' \in [Hosts -> Versions \cup {Nil}] /\ installed' \in [Hosts -> Versions]
    BY ZenonT(30) DEF LocalStopCancels, LocalResumeModels, RevokeNodeCancels, RegisterModelOffer, ModelPulled,
           ownerSide, gatewayVars, GatewayInv, GatewayTyped
  <1>4. GatewayTyped'
    BY <1>1, <1>2, <1>3, Zenon DEF GatewayInv, GatewayTyped
  <1>5. Serving' /\ Told' /\ Registered' /\ CompletionIsReceipted'
    <2>1. Serving'
      BY <1>1, Zenon DEF GatewayInv, Serving
    <2>2. Told' /\ Registered'
      BY <1>1, Zenon DEF GatewayInv, Told, Registered
    <2>3. CompletionIsReceipted'
      BY <1>1, Zenon DEF GatewayInv, CompletionIsReceipted
    <2> QED
      BY <2>1, <2>2, <2>3, Zenon
  <1> QED
    BY <1>4, <1>5, Zenon DEF GatewayInv

\* Every step keeps the invariant.
LEMMA GatewayStep == GatewayInv /\ [GatewayNext]_gatewayVars => GatewayInv'
  <1> SUFFICES ASSUME GatewayInv, [GatewayNext]_gatewayVars PROVE GatewayInv'
    OBVIOUS
  <1>1. CASE \E r \in Invocations, n \in Hosts, stream \in BOOLEAN, api \in {"openai", "anthropic"} :
               StartModelInvocation(r, n, stream, api)
    BY <1>1, StartKeeps, Zenon
  <1>2. CASE \E r \in Invocations : Connected(r) \/ ConnectFails(r)
    BY <1>2, ConnectKeeps, Zenon
  <1>3. CASE \E r \in Invocations : \/ ServeModelConnection(r) \/ ProcessOllamaLine(r)
                                    \/ OllamaEnds(r) \/ ConnectionBreaks(r)
    BY <1>3, WorkerSideKeeps, Zenon
  <1>4. CASE \E r \in Invocations : TakeFrame(r)
    BY <1>4, FrameKeeps, Zenon
  <1>5. CASE \E r \in Invocations : SendReturns(r) \/ SeesCancellation(r) \/ SeesLeaseEnd(r)
    BY <1>5, WaitsKeep
  <1>6. CASE \E r \in Invocations : FinishesOpenAi(r) \/ FinishesAnthropic(r)
    BY <1>6, CleanupKeeps
  <1>7. CASE \E r \in Invocations : ClientReads(r) \/ LeaseEnds(r)
    BY <1>7, ClientKeeps
  <1>8. CASE \E r \in Invocations : ClientLeaves(r)
    BY <1>8, LeavingKeeps
  <1>9. CASE \E r \in Invocations : CancelModelSession(r)
    BY <1>9, CancellingKeeps
  <1>10. CASE \/ LocalStopCancels \/ LocalResumeModels
              \/ \E n \in Hosts : \/ RevokeNodeCancels(n) \/ RegisterModelOffer(n)
                                  \/ \E d \in Versions : ModelPulled(n, d)
              \/ UNCHANGED gatewayVars
    BY <1>10, RestKeeps
  <1> QED
    BY <1>1, <1>2, <1>3, <1>4, <1>5, <1>6, <1>7, <1>8, <1>9, <1>10, Zenon DEF GatewayNext, TaskStep

\* A session is opened by start_model_invocation only.
LEMMA OnlyStartOpens ==
  ASSUME GatewayInv, [GatewayNext]_gatewayVars, NEW s \in Invocations, task[s].pc = "idle",
         task'[s].pc = "opening"
  PROVE  \E n \in Hosts, stream \in BOOLEAN, api \in {"openai", "anthropic"} :
           StartModelInvocation(s, n, stream, api)
  <1>1. task'[s] # task[s] /\ task \in [Invocations -> TaskRecords]
    BY Zenon DEF GatewayInv, GatewayTyped
  <1>2. ~ UNCHANGED task
    BY <1>1, Zenon
  <1>3. PICK r \in Invocations :
          \/ \E n \in Hosts, stream \in BOOLEAN, api \in {"openai", "anthropic"} :
               StartModelInvocation(r, n, stream, api)
          \/ Connected(r) \/ ConnectFails(r) \/ TakeFrame(r) \/ SeesLeaseEnd(r) \/ SendReturns(r)
          \/ FinishesOpenAi(r) \/ FinishesAnthropic(r) \/ SeesCancellation(r)
          \/ ClientReads(r) \/ ClientLeaves(r) \/ LeaseEnds(r)
    BY <1>2, Zenon DEF GatewayNext, TaskStep, ServeModelConnection, ProcessOllamaLine, OllamaEnds, ConnectionBreaks,
                CancelModelSession, LocalStopCancels, LocalResumeModels, RevokeNodeCancels,
                RegisterModelOffer, ModelPulled, gatewayVars
  <1>4. \A t : task' = [task EXCEPT ![r] = t] => r = s /\ task'[s] = t
    BY <1>1, Zenon
  <1>5. \E t : task' = [task EXCEPT ![r] = t]
    BY <1>3, ZenonT(30) DEF StartModelInvocation, Connected, ConnectFails, TakeFrame, SeesLeaseEnd, SendReturns,
                FinishesOpenAi, FinishesAnthropic, SeesCancellation, ClientReads, ClientLeaves, LeaseEnds
  <1>6. r = s
    BY <1>4, <1>5, Zenon
  <1>7. task'[s].pc = task[s].pc \/ \E n \in Hosts, stream \in BOOLEAN, api \in {"openai", "anthropic"} :
                                     StartModelInvocation(s, n, stream, api)
    <2>1. CASE ClientReads(s)
      <3>1. task'[s] = [task[s] EXCEPT !.chan = @ - 1] /\ task[s] \in TaskRecords
        BY <1>1, <2>1, Zenon DEF ClientReads
      <3> QED
        BY <3>1, Zenon DEF TaskRecords
    <2>2. CASE ~ClientReads(s)
      BY <1>3, <1>6, <2>2, Zenon DEF Connected, ConnectFails, TakeFrame, SeesLeaseEnd, SendReturns, FinishesOpenAi,
                              FinishesAnthropic, SeesCancellation, ClientLeaves, LeaseEnds
    <2> QED
      BY <2>1, <2>2, Zenon
  <1> QED
    BY <1>7, Zenon

\* The live offers of the model of a session that is opened agree.
LEMMA OffersAgree == GatewayInv /\ [GatewayNext]_gatewayVars => Agreed
  <1> SUFFICES ASSUME GatewayInv, [GatewayNext]_gatewayVars, NEW s \in Invocations,
                      task[s].pc = "idle", task'[s].pc = "opening", NEW m \in Hosts
               PROVE  offered[m] \in {Nil, task'[s].digest}
    BY Zenon DEF Agreed
  <1>1. PICK n \in Hosts, stream \in BOOLEAN, api \in {"openai", "anthropic"} :
          StartModelInvocation(s, n, stream, api)
    BY OnlyStartOpens, Zenon
  <1> DEFINE with == {h \in Hosts : offered[h] # Nil}
  <1>2. n \in with /\ \A x, y \in with : offered[x] = offered[y]
    BY <1>1, Zenon DEF StartModelInvocation, LiveModelCatalog
  <1>5. task'[s].digest = offered[n]
    <2>1. Leased(n) \in TaskRecords /\ Leased(n).digest = offered[n]
      BY LeaseTyped, Zenon DEF GatewayInv, GatewayTyped
    <2>2. task'[s] = [Leased(n) EXCEPT !.stream = stream, !.api = api]
      BY <1>1, Zenon DEF StartModelInvocation, GatewayInv, GatewayTyped
    <2>3. \A q \in TaskRecords : [q EXCEPT !.stream = stream, !.api = api].digest = q.digest
      BY ClientTyped, ZenonT(30)
    <2> QED
      BY <2>1, <2>2, <2>3, Zenon
  <1> QED
    BY <1>2, <1>5, Zenon

\* A worker runs a session only on the artifact of its lease.
LEMMA WorkerVerifies == GatewayInv /\ [GatewayNext]_gatewayVars => RunsLeased
  <1> SUFFICES ASSUME GatewayInv, [GatewayNext]_gatewayVars, NEW s \in Invocations,
                      wk[s].pc = "asked", wk'[s].pc = "running"
               PROVE  installed[task[s].node] = task[s].digest
    BY Zenon DEF RunsLeased
  <1>1. ~ UNCHANGED wk /\ wk \in [Invocations -> Runs]
    BY Zenon DEF GatewayInv, GatewayTyped
  <1>2. PICK r \in Invocations :
          \/ \E n \in Hosts, stream \in BOOLEAN, api \in {"openai", "anthropic"} :
               StartModelInvocation(r, n, stream, api)
          \/ ServeModelConnection(r) \/ ProcessOllamaLine(r) \/ OllamaEnds(r) \/ ConnectionBreaks(r)
    BY <1>1, ZenonT(30) DEF GatewayNext, TaskStep, Connected, ConnectFails, TakeFrame, SeesLeaseEnd, SendReturns,
                FinishesOpenAi, FinishesAnthropic, SeesCancellation, ClientReads, ClientLeaves, LeaseEnds,
                CancelModelSession, LocalStopCancels, LocalResumeModels, RevokeNodeCancels,
                RegisterModelOffer, ModelPulled, gatewayVars
  <1>3. CASE ~(ServeModelConnection(r) /\ ModelVerified(r))
    <2>1. \/ \E p \in {"asked", "ended"} : wk' = [wk EXCEPT ![r].pc = p]
          \/ wk' = [wk EXCEPT ![r].out = @ + 1]
      BY <1>2, <1>3, Zenon DEF StartModelInvocation, ServeModelConnection, ProcessOllamaLine, OllamaEnds,
                        ConnectionBreaks
    <2>2. wk[r] \in Runs /\ wk[s] \in Runs
      BY <1>1, Zenon
    <2>3. wk'[s].pc \in {"asked", "ended"} \/ wk'[s].pc = wk[s].pc
      BY <1>1, <2>1, <2>2 DEF Runs
    <2> QED
      BY <2>3, Zenon
  <1>4. CASE ServeModelConnection(r) /\ ModelVerified(r)
    <2>1. wk' = [wk EXCEPT ![r].pc = "running"]
      BY <1>4, Zenon DEF ServeModelConnection
    <2>2. r = s
      BY <1>1, <2>1, Zenon
    <2> QED
      BY <1>4, <2>2, Zenon DEF ModelVerified
  <1> QED
    BY <1>3, <1>4, Zenon

\* What a client is answered with is right: a completion only with the receipt
\* and the whole output, a lease only when the live offers agree, a run only on
\* the leased artifact (consume_model_invocation, live_model_catalog,
\* serve_model_connection).
THEOREM AnswersStaySound == GatewaySpec => AnswersAreSound
  <1>1. GatewayInv => CompletionIsReceipted
    BY Zenon DEF GatewayInv
  <1>2. GatewayInv /\ [GatewayNext]_gatewayVars => [Agreed /\ RunsLeased]_gatewayVars
    BY OffersAgree, WorkerVerifies, Zenon
  <1> QED
    BY <1>1, <1>2, GatewayStarts, GatewayStep, PTL DEF GatewaySpec, AnswersAreSound

\* STOP takes the admission gate, so it finds each session that runs registered,
\* and cancels it (local_stop, start_model_invocation).
THEOREM StopFindsEverySession == GatewaySpec => [][StopFindsAll]_gatewayVars
  <1>1. GatewayInv => [StopFindsAll]_gatewayVars
    <2> SUFFICES ASSUME GatewayInv, LocalStopCancels, NEW r \in Invocations,
                        task[r].pc \in {"opening", "active", "blocked"}
                 PROVE  r \in DOMAIN cancels' /\ cancels'[r]
      BY Zenon DEF StopFindsAll
    <2>1. admitting = Nil /\ cancels' = [s \in DOMAIN cancels |-> TRUE]
      BY Zenon DEF LocalStopCancels, CancelAll
    <2>2. r \in DOMAIN cancels
      BY <2>1, GatewayAssumption, Zenon DEF GatewayInv, Registered
    <2> QED
      BY <2>1, <2>2, Zenon
  <1> QED
    BY <1>1, GatewayStarts, GatewayStep, PTL DEF GatewaySpec
=============================================================================
