---------------------------- MODULE RemoteAssist ----------------------------
(***************************************************************************)
(* Remote Assist: the owner's desktop sessions, kept in memory by the      *)
(* controller, and the session authority of the one worker they show.      *)
(* Opening holds the admission gate across the call to the worker, like    *)
(* STOP and revocation do; frames, inputs and closing hold nothing, so     *)
(* they interleave with everything.  A lease within ten seconds of its end *)
(* is renewed by the next frame or input, which reads the session, signs a *)
(* new lease and writes the session back in three separate steps.          *)
(***************************************************************************)
EXTENDS Naturals, Sequences, FiniteSets

CONSTANTS MaxSids,    \* bound: session ids drawn, 1..MaxSids
          MaxOpen,    \* bound: the owner's requests outstanding together
          Modes,      \* subset of {"view", "control"}
          MaxSessions,\* MAX_REMOTE_DESKTOP_SESSIONS
          MaxSeq,     \* bound: input sequence numbers the owner uses
          MaxLeases,  \* bound: leases signed
          MaxCalls,   \* bound: requests the owner makes
          MaxFaults,  \* bound: restarts, timeouts and refused captures
          MaxStops    \* bound: STOPs and revocations

ASSUME RemoteAssistAssumption ==
  /\ MaxSids \in Nat /\ MaxOpen \in Nat /\ Modes \subseteq {"view", "control"}
  /\ MaxSessions \in Nat /\ MaxSeq \in Nat /\ MaxLeases \in Nat /\ MaxCalls \in Nat
  /\ MaxFaults \in Nat /\ MaxStops \in Nat

VARIABLES latch, fence, offer,  \* kill latch, fencing epoch, advertised offer
          gate,                 \* the call that holds the admission gate, 0 or STOP
          table,                \* remote_desktop_sessions
          leases,               \* every lease signed, oldest first
          calls,                \* the owner's requests being served
          net,                  \* mesh requests the worker has not answered
          worker,               \* the worker's policy, sessions, fence, nonces
          ledger,               \* what the ledger says of each session
          applied,              \* inputs and closings the worker acted on, in order
          raced,                \* sessions a renewal wrote back over a change
          made, faults, stops

ctlVars == <<latch, fence, offer, gate, table, leases>>
vars == <<ctlVars, calls, net, worker, ledger, applied, raced, made, faults, stops>>

None == "none"
Sids == 1..MaxSids
Calls == 1..MaxOpen
Stop == MaxOpen + 1
NoCall == [pc |-> None]
Operations == {"heartbeat", "frame", "input", "close"}
Absent == [lease |-> 0, started |-> FALSE]
Unseen == [lease |-> 0, last |-> 0]

Init ==
  /\ latch = FALSE /\ fence = 1 /\ offer = TRUE /\ gate = 0
  /\ table = [s \in Sids |-> Absent]
  /\ leases = <<>>
  /\ calls = [c \in Calls |-> NoCall] /\ net = {}
  /\ worker = [allowed |-> TRUE, seen |-> [s \in Sids |-> Unseen],
               epoch |-> 0, nonces |-> {}, active |-> 0]
  /\ ledger = [s \in Sids |-> <<>>]
  /\ applied = <<>> /\ raced = {}
  /\ made = 0 /\ faults = 0 /\ stops = 0

-----------------------------------------------------------------------------
(* Leases.  All have the same lifetime, so an older one is never younger.  *)

Live(l) == leases[l].age # "expired"
Due(l) == leases[l].age = "due"
Unsigned == MaxLeases - Len(leases) - Cardinality({c \in Calls : calls[c].pc = "renewing"})
Sessions == {s \in Sids : table[s] # Absent}
Signed(s, mode) == [sid |-> s, mode |-> mode, epoch |-> fence, age |-> "fresh"]

LeaseAges(l) ==
  /\ leases[l].age # "expired"
  /\ \A k \in 1..(l - 1) : leases[k].age = "expired" \/ (leases[k].age = "due" /\ leases[l].age = "fresh")
  /\ leases' = [leases EXCEPT ![l].age = IF @ = "fresh" THEN "due" ELSE "expired"]
  /\ UNCHANGED <<latch, fence, offer, gate, table, calls, net, worker, ledger, applied, raced,
                 made, faults, stops>>

(* remote_offer and authorize_remote_desktop_at_epoch both need a current  *)
(* offer that advertises the capability.                                   *)
OfferChanges ==
  /\ faults < MaxFaults /\ (offer \/ worker.allowed)
  /\ offer' = ~offer /\ faults' = faults + 1
  /\ UNCHANGED <<latch, fence, gate, table, leases, calls, net, worker, ledger, applied, raced,
                 made, stops>>

-----------------------------------------------------------------------------
(* The owner's requests.                                                   *)

(* A call waits for the answer to the mesh request it sent.  A request     *)
(* outlives its call when the call's deadline passes first.                *)
Ask(c, op, s, l, q, started) ==
  /\ calls' = [calls EXCEPT ![c] = [pc |-> op, sid |-> s, lease |-> l,
                                    started |-> started, answer |-> None]]
  /\ net' = net \cup {[call |-> c, op |-> op, sid |-> s, lease |-> l, seq |-> q,
                        stage |-> "sent"]}
Free(c) == calls' = [calls EXCEPT ![c] = NoCall] /\ UNCHANGED net
Answered(c, op) == calls[c].pc = op /\ calls[c].answer # None
Least(x, S) == x \in S /\ \A y \in S : x <= y
Begin(c) == Least(c, {d \in Calls : calls[d] = NoCall}) /\ made < MaxCalls /\ made' = made + 1

(* The sessions that stand in the way of opening another.                  *)
Conflicting(kept) == kept # {} \/ Cardinality(kept) >= MaxSessions

OpenRemoteDesktop(c, mode) ==
  LET kept == {s \in Sessions : Live(table[s].lease)}
      fresh == {s \in Sids : \A l \in DOMAIN leases : leases[l].sid # s}
  IN /\ Begin(c) /\ gate = 0 /\ ~latch
     /\ table' = [s \in Sids |-> IF s \in kept THEN table[s] ELSE Absent]
     /\ IF Conflicting(kept) \/ ~offer
        THEN UNCHANGED <<gate, leases, calls, net>>
        ELSE /\ Unsigned > 0
             /\ \E s \in fresh :
                  /\ Least(s, fresh)
                  /\ leases' = Append(leases, Signed(s, mode))
                  /\ Ask(c, "heartbeat", s, Len(leases) + 1, 0, FALSE)
             /\ gate' = c
     /\ UNCHANGED <<latch, fence, offer, worker, ledger, applied, raced, faults, stops>>

Opened(c) ==
  LET s == calls[c].sid IN
  /\ Answered(c, "heartbeat")
  /\ IF calls[c].answer = "ok"
     THEN /\ table' = [table EXCEPT ![s] = [lease |-> calls[c].lease, started |-> FALSE]]
          /\ ledger' = [ledger EXCEPT ![s] = Append(@, "opened")]
     ELSE UNCHANGED <<table, ledger>>
  /\ gate' = 0 /\ Free(c)
  /\ UNCHANGED <<latch, fence, offer, leases, worker, applied, raced, made, faults, stops>>

(* The first half of current_remote_desktop_session, for a frame or input. *)
ReadSession(c, op, s, q) ==
  LET l == table[s].lease IN
  /\ Begin(c) /\ ~latch /\ s \in Sessions
  /\ IF ~Live(l)
     THEN calls' = [calls EXCEPT ![c] = [pc |-> "expiring", sid |-> s]] /\ UNCHANGED net
     ELSE /\ offer /\ (op = "input" /\ leases[l].mode = "view" => Due(l))
          /\ IF Due(l)
             THEN /\ Unsigned > 0
                  /\ calls' = [calls EXCEPT ![c] = [pc |-> "renewing", op |-> op,
                                        sid |-> s, seq |-> q, copy |-> table[s]]]
                  /\ UNCHANGED net
             ELSE Ask(c, op, s, l, q, FALSE)
  /\ UNCHANGED <<ctlVars, worker, ledger, applied, raced, faults, stops>>

RemoteDesktopFrame(c, s) == ReadSession(c, "frame", s, 0)
RemoteDesktopInput(c, s, q) == ReadSession(c, "input", s, q)

ExpireSession(c) ==
  /\ calls[c].pc = "expiring"
  /\ table' = [table EXCEPT ![calls[c].sid] = Absent]
  /\ Free(c)
  /\ UNCHANGED <<latch, fence, offer, gate, leases, worker, ledger, applied, raced,
                 made, faults, stops>>

(* The renewal signs at the epoch it loads, or gives up without an offer.  *)
RenewSigns(c) ==
  LET r == calls[c] IN
  /\ r.pc = "renewing"
  /\ IF offer
     THEN /\ leases' = Append(leases, Signed(r.sid, leases[r.copy.lease].mode))
          /\ calls' = [calls EXCEPT ![c] = [pc |-> "storing", op |-> r.op, sid |-> r.sid,
                            seq |-> r.seq, copy |-> r.copy, lease |-> Len(leases) + 1]]
          /\ UNCHANGED net
     ELSE Free(c) /\ UNCHANGED leases
  /\ UNCHANGED <<latch, fence, offer, gate, table, worker, ledger, applied, raced,
                 made, faults, stops>>

Renewed(r) == [lease |-> r.lease, started |-> r.copy.started]

RenewStores(c) ==
  LET r == calls[c] IN
  /\ r.pc = "storing"
  /\ table' = [table EXCEPT ![r.sid] = Renewed(r)]
  /\ raced' = IF table[r.sid] = r.copy THEN raced ELSE raced \cup {r.sid}
  /\ IF r.op = "input" /\ leases[r.lease].mode = "view"
     THEN Free(c)
     ELSE Ask(c, r.op, r.sid, r.lease, r.seq, FALSE)
  /\ UNCHANGED <<latch, fence, offer, gate, leases, worker, ledger, applied,
                 made, faults, stops>>

(* A frame changes nothing at the controller when it is answered.          *)
FrameAnswered(c) ==
  /\ Answered(c, "frame")
  /\ Free(c)
  /\ UNCHANGED <<ctlVars, worker, ledger, applied, raced, made, faults, stops>>

Started(e) == [e EXCEPT !.started = TRUE]
(* The answer to an input is looked up in the table as it is now.          *)
InputAnswered(c) ==
  LET s == calls[c].sid IN
  /\ Answered(c, "input")
  /\ IF calls[c].answer = "ok" /\ s \in Sessions
     THEN /\ table' = [table EXCEPT ![s] = Started(@)]
          /\ ledger' = IF table[s].started THEN ledger
                       ELSE [ledger EXCEPT ![s] = Append(@, "control")]
     ELSE UNCHANGED <<table, ledger>>
  /\ Free(c)
  /\ UNCHANGED <<latch, fence, offer, gate, leases, worker, applied, raced,
                 made, faults, stops>>

ClosedEntry(started) == IF started THEN "closed after control" ELSE "closed"

CloseRemoteDesktop(c, s) ==
  LET l == table[s].lease IN
  /\ Begin(c) /\ s \in Sessions
  /\ table' = [table EXCEPT ![s] = Absent]
  /\ IF Live(l) /\ offer
     THEN Ask(c, "close", s, l, 0, table[s].started) /\ UNCHANGED ledger
     ELSE /\ ledger' = [ledger EXCEPT ![s] = Append(@, ClosedEntry(table[s].started))]
          /\ UNCHANGED <<calls, net>>
  /\ UNCHANGED <<latch, fence, offer, gate, leases, worker, applied, raced, faults, stops>>

(* Closing is recorded whatever the worker answered.                       *)
CloseAnswered(c) ==
  LET r == calls[c] IN
  /\ Answered(c, "close")
  /\ ledger' = [ledger EXCEPT ![r.sid] = Append(@, ClosedEntry(r.started))]
  /\ Free(c)
  /\ UNCHANGED <<ctlVars, worker, applied, raced, made, faults, stops>>

(* The deadline of a call passes, or its answer is lost on the way: the    *)
(* worker may have acted, may act later, or may never see the request.     *)
TimesOut(c) ==
  /\ calls[c].pc \in Operations /\ calls[c].answer # "lost"
  /\ faults < MaxFaults /\ faults' = faults + 1
  /\ calls' = [calls EXCEPT ![c].answer = "lost"]
  /\ net' = {[m EXCEPT !.call = IF @ = c THEN 0 ELSE @] : m \in net}
  /\ UNCHANGED <<ctlVars, worker, ledger, applied, raced, made, stops>>

-----------------------------------------------------------------------------
(* STOP, resume and revocation.                                            *)

LocalStop ==
  /\ gate = 0 /\ ~latch /\ stops < MaxStops
  /\ latch' = TRUE /\ fence' = fence + 1 /\ gate' = Stop /\ stops' = stops + 1
  /\ UNCHANGED <<offer, table, leases, calls, net, worker, ledger, applied, raced, made, faults>>

(* A variant that leaves the sessions to expire.                           *)
StopLeavesSessions ==
  /\ gate = Stop /\ gate' = 0
  /\ UNCHANGED <<latch, fence, offer, table, leases, calls, net, worker, ledger, applied,
                 raced, made, faults, stops>>

StopDrains ==
  /\ gate = Stop
  /\ table' = [s \in Sids |-> Absent] /\ gate' = 0
  /\ UNCHANGED <<latch, fence, offer, leases, calls, net, worker, ledger, applied, raced,
                 made, faults, stops>>

LocalResume ==
  /\ gate = 0 /\ latch
  /\ latch' = FALSE
  /\ UNCHANGED <<fence, offer, gate, table, leases, calls, net, worker, ledger, applied, raced,
                 made, faults, stops>>

RevokeNode ==
  /\ gate = 0 /\ stops < MaxStops /\ stops' = stops + 1
  /\ offer' = FALSE /\ table' = [s \in Sids |-> Absent]
  /\ UNCHANGED <<latch, fence, gate, leases, calls, net, worker, ledger, applied, raced,
                 made, faults>>

-----------------------------------------------------------------------------
(* The worker.  Its sessions are in memory; its fence, its spent nonces,   *)
(* its policy and the activity file are on disk.                           *)

(* CasStore::accept_authority in the scope governor.remote-assist.         *)
Acceptable(l) == leases[l].epoch >= worker.epoch /\ l \notin worker.nonces
Spent(w, l) == [w EXCEPT !.epoch = leases[l].epoch, !.nonces = @ \cup {l}]

(* Checks that precede the action, under the session lock.                 *)
Authorized(r) ==
  /\ worker.allowed /\ Live(r.lease)
  /\ (r.op = "input" => leases[r.lease].mode = "control")
  /\ worker.seen[r.sid].lease = r.lease \/ Acceptable(r.lease)

(* What the request's call, if it still waits, is told.                    *)
Tell(m, answer) ==
  calls' = IF m.call = 0 THEN calls ELSE [calls EXCEPT ![m.call].answer = answer]

HandleRequest(m) ==
  /\ m.stage = "sent"
  /\ IF Authorized(m)
     THEN /\ net' = (net \ {m}) \cup {[m EXCEPT !.stage = "entered"]}
          /\ worker' = IF worker.seen[m.sid].lease = m.lease THEN worker
                       ELSE [Spent(worker, m.lease) EXCEPT !.seen[m.sid].lease = m.lease]
          /\ UNCHANGED calls
     ELSE net' = net \ {m} /\ Tell(m, "refused") /\ UNCHANGED worker
  /\ UNCHANGED <<ctlVars, ledger, applied, raced, made, faults, stops>>

(* An input needs its session to be there still, and a higher sequence.    *)
InOrder(m) == worker.seen[m.sid] # Unseen /\ m.seq > worker.seen[m.sid].last

Act(m) ==
  /\ m.stage = "entered" /\ (m.op = "input" => InOrder(m))
  /\ net' = net \ {m} /\ Tell(m, "ok")
  /\ worker' = CASE m.op = "close" -> [worker EXCEPT !.seen[m.sid] = Unseen,
                                       !.active = IF @ = m.sid THEN 0 ELSE @]
                 [] m.op = "input" -> [worker EXCEPT !.seen[m.sid].last = m.seq,
                                                     !.active = m.sid]
                 [] OTHER          -> [worker EXCEPT !.active = m.sid]
  /\ applied' = IF m.op \in {"input", "close"}
                THEN Append(applied, [op |-> m.op, sid |-> m.sid, lease |-> m.lease, seq |-> m.seq])
                ELSE applied
  /\ UNCHANGED <<ctlVars, ledger, raced, made, faults, stops>>

(* A stale input is refused; the platform may refuse a capture or input.   *)
RefuseToAct(m) ==
  /\ m.stage = "entered"
  /\ \/ m.op = "input" /\ ~InOrder(m) /\ UNCHANGED faults
     \/ /\ m.op \in {"frame", "input"}
        /\ faults < MaxFaults /\ faults' = faults + 1
  /\ net' = net \ {m} /\ Tell(m, "refused")
  /\ UNCHANGED <<ctlVars, worker, ledger, applied, raced, made, stops>>

(* A variant whose spent nonces are in memory.                             *)
RestartForgetsNonces ==
  /\ faults < MaxFaults /\ faults' = faults + 1
  /\ worker' = [worker EXCEPT !.seen = [s \in Sids |-> Unseen], !.nonces = {}]
  /\ net' = {m \in net : m.stage = "sent"}
  /\ calls' = [c \in Calls |-> IF \E m \in net \ net' : m.call = c
                               THEN [calls[c] EXCEPT !.answer = "lost"] ELSE calls[c]]
  /\ UNCHANGED <<ctlVars, ledger, applied, raced, made, stops>>

WorkerRestarts ==
  /\ faults < MaxFaults /\ faults' = faults + 1
  /\ worker' = [worker EXCEPT !.seen = [s \in Sids |-> Unseen]]
  /\ net' = {m \in net : m.stage = "sent"}
  /\ calls' = [c \in Calls |-> IF \E m \in net \ net' : m.call = c
                               THEN [calls[c] EXCEPT !.answer = "lost"] ELSE calls[c]]
  /\ UNCHANGED <<ctlVars, ledger, applied, raced, made, stops>>

(* The worker's owner turns the policy off or latches STOP on the worker;  *)
(* the next offer round drops the capability and the activity file.        *)
WorkerDisallows ==
  /\ worker.allowed /\ faults < MaxFaults /\ faults' = faults + 1
  /\ worker' = [worker EXCEPT !.allowed = FALSE]
  /\ UNCHANGED <<ctlVars, calls, net, ledger, applied, raced, made, stops>>

RefreshDynamicCapabilities ==
  /\ ~worker.allowed /\ (offer \/ worker.active # 0)
  /\ offer' = FALSE /\ worker' = [worker EXCEPT !.active = 0]
  /\ UNCHANGED <<latch, fence, gate, table, leases, calls, net, ledger, applied, raced,
                 made, faults, stops>>

-----------------------------------------------------------------------------
CallStep(c) ==
  \/ Opened(c) \/ FrameAnswered(c) \/ InputAnswered(c) \/ CloseAnswered(c)
  \/ ExpireSession(c) \/ RenewSigns(c) \/ RenewStores(c)

Next ==
  \/ \E l \in DOMAIN leases : LeaseAges(l)
  \/ OfferChanges
  \/ \E c \in Calls : \/ \E mode \in Modes : OpenRemoteDesktop(c, mode)
                      \/ \E s \in Sids : RemoteDesktopFrame(c, s)
                      \/ \E s \in Sids, q \in 1..MaxSeq : RemoteDesktopInput(c, s, q)
                      \/ \E s \in Sids : CloseRemoteDesktop(c, s)
                      \/ CallStep(c)
                      \/ TimesOut(c)
  \/ LocalStop \/ StopDrains \/ LocalResume \/ RevokeNode
  \/ \E m \in net : HandleRequest(m) \/ Act(m) \/ RefuseToAct(m)
  \/ WorkerRestarts \/ WorkerDisallows \/ RefreshDynamicCapabilities

Spec == Init /\ [][Next]_vars

-----------------------------------------------------------------------------
(* Every variable has its type; a session in the table has a signed lease, *)
(* and one in the worker's memory has a lease whose nonce is spent.        *)
TypeOK ==
  /\ latch \in BOOLEAN /\ fence \in 1..(MaxStops + 1) /\ offer \in BOOLEAN
  /\ gate \in Calls \cup {0, Stop}
  /\ \A s \in Sids : table[s].lease \in 0..Len(leases) /\ table[s].started \in BOOLEAN
  /\ \A l \in DOMAIN leases : leases[l].sid \in Sids /\ leases[l].mode \in Modes
  /\ Len(leases) <= MaxLeases /\ worker.nonces \subseteq DOMAIN leases
  /\ \A s \in Sids : worker.seen[s].lease \in worker.nonces \cup {0}
  /\ worker.active \in Sids \cup {0} /\ raced \subseteq Sids

(* RELEASE_NOTES_0.3.0.md: one active Remote Assist session per worker.    *)
OneSession == \A s, t \in Sessions : s = t

(* open_remote_desktop keeps one session per worker; only a renewal that   *)
(* writes back a session closed since it was read can make a second one.   *)
OneSessionUnlessRaced == \A s, t \in Sessions : s = t \/ {s, t} \cap raced # {}

(* Once local_stop has drained the table, a session is in it again only if *)
(* a renewal that was under way wrote it back.                             *)
StopClears == latch /\ gate # Stop => Sessions \subseteq raced

(* The session of an applied input was closed before another one. *)
ClosedBetween(i, j) ==
  \E k \in i..j : applied[k].op = "close" /\ applied[k].sid = applied[i].sid

(* Under one lease the worker applies inputs in strictly rising order, each *)
(* at most once, whatever restarts, renewals and late requests intervene:  *)
(* a spent nonce keeps a forgotten lease from starting again at zero.  The *)
(* exception is an input that had passed the lease check when its session  *)
(* was closed: a late renewal may bring the session back, without the      *)
(* sequence it had reached, before the input takes the lock again.         *)
LeaseInputsInOrder ==
  \A i, j \in DOMAIN applied :
    /\ i < j /\ applied[i].lease = applied[j].lease
    /\ applied[i].op = "input" /\ applied[j].op = "input"
    => applied[i].seq < applied[j].seq \/ ClosedBetween(i, j)

(* The ledger records the start of control once, and a closing that says   *)
(* there was none is not preceded by one, unless a renewal raced.          *)
ControlTold ==
  \A s \in Sids \ raced : \A i, j \in DOMAIN ledger[s] :
    i < j /\ ledger[s][i] = "control" => ledger[s][j] = "closed after control"
=============================================================================
