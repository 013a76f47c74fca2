------------------------------ MODULE Pairing ------------------------------
(***************************************************************************)
(* Nearby pairing (apps/desktop/src-tauri/src/pairing.rs): the owner PCs'  *)
(* datagram inboxes, the joining laptop's pairing loops, and the one-time  *)
(* invitation each approval carries (its use is in module Worker).         *)
(*                                                                         *)
(* Datagrams are a set: they are reordered, may be lost (MaxDrops) and     *)
(* come twice because both sides retransmit.  A pending request's key is a *)
(* number drawn when the inbox makes its secret: the code both screens     *)
(* show is that number.  An approval is a nonce; its ciphertext is cut in  *)
(* Chunks fragments that only the same key opens.  A request is known by   *)
(* the laptop's generation.  The owner's request outlives the laptop's:    *)
(* both last fifteen minutes, the laptop's starts first, and the inbox is  *)
(* open for a year.                                                        *)
(***************************************************************************)
EXTENDS Naturals, Sequences, FiniteSets

CONSTANTS
  Owners,        \* owner PCs that hear the laptop
  Chunks,        \* fragments of an approval
  MaxGenerations, \* generations of the laptop (begin and cancel both count)
  MaxKeys,       \* secrets drawn by the inboxes
  MaxNonces,     \* approvals given
  MaxPending,    \* MAX_PENDING_REQUESTS
  MaxDrops,      \* datagrams lost
  MaxRestarts,   \* restarts of owner apps
  NoOwner

(* There is no owner called NoOwner, and an approval has a fragment.       *)
ASSUME PairingAssumption ==
  /\ MaxGenerations \in Nat /\ MaxKeys \in Nat /\ MaxNonces \in Nat
  /\ Chunks \in Nat \ {0} /\ NoOwner \notin Owners

VARIABLES
  pending,    \* [owner -> [request -> [key, state, nonce]]], as functions
  attention,  \* [owner -> owner_attention_active]
  keys,       \* secrets drawn so far
  nonces,     \* the approvals given: a sequence of [owner, req, key]
  net,        \* datagrams on their way
  generation, \* worker_generation
  loop,       \* [request -> the loop's locals]
  view,       \* the status the laptop shows: [state, req, key]
  stored,     \* the nonce whose invitation is on the laptop's disk, or 0
  shown,      \* the codes the laptop has shown: <<request, key>>
  drops, restarts

pairingVars == <<pending, attention, keys, nonces, net, generation, loop, view,
                 stored, shown, drops, restarts>>

Reqs  == 1..MaxGenerations
Index == 0..(Chunks - 1)

NoPair == [key |-> 0, state |-> "none", nonce |-> 0]
NoLoop == [live |-> FALSE, sel |-> NoOwner, key |-> 0, nonce |-> 0, got |-> {}]
IdleView == [state |-> "idle", req |-> 0, key |-> 0]

Hello(r)            == [t |-> "hello", req |-> r]
Challenge(o, r, k)  == [t |-> "challenge", req |-> r, owner |-> o, key |-> k]
Chunk(o, r, k, n, i) == [t |-> "chunk", req |-> r, owner |-> o, key |-> k,
                         nonce |-> n, index |-> i]
Rejected(o, r)      == [t |-> "rejected", req |-> r, owner |-> o]
Complete(o, r, k)   == [t |-> "complete", req |-> r, owner |-> o, key |-> k]

Held(o) == { r \in Reqs : pending[o][r] # NoPair }
Awaiting(o) == { r \in Held(o) : pending[o][r].state = "awaiting" }

(* A variant: always the challenge.                                        *)
AnswerChallenge(o, r) == { Challenge(o, r, pending[o][r].key) }

(* What the inbox answers to a request it knows: the approval's fragments, *)
(* or the challenge as long as there is no approval.                       *)
Answer(o, r) ==
  LET p == pending[o][r]
  IN  IF p.nonce # 0 THEN { Chunk(o, r, p.key, p.nonce, i) : i \in Index }
      ELSE { Challenge(o, r, p.key) }

-----------------------------------------------------------------------------
(* The laptop.                                                             *)

OwnerFrame == <<pending, attention, keys, nonces, restarts>>

Busy == view.state \in {"searching", "waiting"}

(* begin_worker; the spawned loop sends its first Hello on its first tick. *)
BeginWorker ==
  /\ ~Busy /\ generation < MaxGenerations /\ stored = 0
  /\ generation' = generation + 1
  /\ view' = [state |-> "searching", req |-> generation', key |-> 0]
  /\ loop' = [loop EXCEPT ![generation'] = [NoLoop EXCEPT !.live = TRUE]]
  /\ UNCHANGED <<net, stored, shown, drops>> /\ UNCHANGED OwnerFrame

CancelWorker ==
  /\ Busy /\ generation < MaxGenerations /\ stored = 0
  /\ generation' = generation + 1 /\ view' = IdleView
  /\ UNCHANGED <<net, loop, stored, shown, drops>> /\ UNCHANGED OwnerFrame

(* set_worker_status: a loop of an older generation changes nothing.       *)
SetStatus(r, s) == view' = IF generation = r THEN s ELSE view

Failed(r) == [state |-> "failed", req |-> r, key |-> 0]

(* A variant: the loop does not look at its generation.                    *)
LoopsOn(r, l) == loop' = [loop EXCEPT ![r] = l]

(* The head of the loop: it goes round with l if its generation is current. *)
GoesOn(r, l) == loop' = [loop EXCEPT ![r] = IF generation = r THEN l ELSE NoLoop]

EndsLoop(r) == loop' = [loop EXCEPT ![r] = NoLoop]

(* Each loop has its socket: what is on its way to it is lost with it.     *)
ToLoop(m, r) == m.t \in {"challenge", "chunk", "rejected"} /\ m.req = r

NetWithout(m, r) == { d \in net \ {m} : loop'[r].live \/ ~ToLoop(d, r) }

(* The fifteen minutes are over, or the generation is no longer current.   *)
LoopOver(r) ==
  /\ loop[r].live /\ stored = 0 /\ EndsLoop(r) /\ SetStatus(r, Failed(r))
  /\ net' = { d \in net : ~ToLoop(d, r) }
  /\ UNCHANGED <<generation, stored, shown, drops>> /\ UNCHANGED OwnerFrame

TickHello(r) ==
  /\ loop[r].live /\ generation = r /\ stored = 0 /\ Hello(r) \notin net
  /\ net' = net \cup {Hello(r)}
  /\ UNCHANGED <<generation, loop, view, stored, shown, drops>>
  /\ UNCHANGED OwnerFrame

(* A waiting loop takes one datagram; its generation may be stale by then. *)
Receives(m, r, t) ==
  m \in net /\ m.t = t /\ m.req = r /\ loop[r].live /\ stored = 0

RecvChallenge(m, r) ==
  /\ Receives(m, r, "challenge")
  /\ IF loop[r].sel \in {NoOwner, m.owner}
     THEN /\ GoesOn(r, [loop[r] EXCEPT !.sel = m.owner, !.key = m.key])
          /\ SetStatus(r, [state |-> "waiting", req |-> r, key |-> m.key])
          /\ shown' = IF generation = r THEN shown \cup {<<r, m.key>>} ELSE shown
     ELSE GoesOn(r, loop[r]) /\ UNCHANGED <<view, shown>>
  /\ net' = NetWithout(m, r)
  /\ UNCHANGED <<generation, stored, drops>> /\ UNCHANGED OwnerFrame

(* ApprovalAssembly: anchored by fragment 0, bound to one nonce.           *)
Assembles(l, m) ==
  l.sel = m.owner /\ IF l.got = {} THEN m.index = 0 ELSE l.nonce = m.nonce

(* persist_remote_invite needs the pairing intent: begin writes it, cancel *)
(* removes it.                                                             *)
Intent == view.state # "idle"

(* A variant: confirms before it stores.                                   *)
ConfirmsFirst(m, r) ==
  IF loop[r].key = m.key
  THEN /\ stored' = (IF Intent THEN m.nonce ELSE stored) /\ EndsLoop(r)
       /\ net' = NetWithout(m, r) \cup {Complete(m.owner, r, m.key)}
       /\ SetStatus(r, [state |-> "approved", req |-> r, key |-> m.key])
  ELSE /\ EndsLoop(r) /\ net' = NetWithout(m, r) /\ SetStatus(r, Failed(r))
       /\ UNCHANGED stored

(* finish_worker_enrollment: decrypt, store, confirm; then a restart.      *)
Finish(m, r) ==
  IF loop[r].key = m.key /\ Intent
  THEN /\ stored' = m.nonce /\ EndsLoop(r)
       /\ net' = NetWithout(m, r) \cup {Complete(m.owner, r, m.key)}
       /\ SetStatus(r, [state |-> "approved", req |-> r, key |-> m.key])
  ELSE /\ EndsLoop(r) /\ net' = NetWithout(m, r) /\ SetStatus(r, Failed(r))
       /\ UNCHANGED stored

RecvChunk(m, r) ==
  /\ Receives(m, r, "chunk")
  /\ LET got == loop[r].got \cup {m.index}
     IN  \/ /\ ~Assembles(loop[r], m) /\ GoesOn(r, loop[r])
            /\ net' = NetWithout(m, r) /\ UNCHANGED <<view, stored>>
         \/ /\ Assembles(loop[r], m) /\ got # Index
            /\ GoesOn(r, [loop[r] EXCEPT !.got = got, !.nonce = m.nonce])
            /\ net' = NetWithout(m, r) /\ UNCHANGED <<view, stored>>
         \/ Assembles(loop[r], m) /\ got = Index /\ Finish(m, r)
  /\ UNCHANGED <<generation, shown, drops>> /\ UNCHANGED OwnerFrame

RecvRejected(m, r) ==
  /\ Receives(m, r, "rejected")
  /\ IF loop[r].sel = m.owner
     THEN EndsLoop(r) /\ SetStatus(r, Failed(r))
     ELSE GoesOn(r, loop[r]) /\ UNCHANGED view
  /\ net' = NetWithout(m, r)
  /\ UNCHANGED <<generation, stored, shown, drops>> /\ UNCHANGED OwnerFrame

WorkerRecv(r) ==
  \E m \in net : RecvChallenge(m, r) \/ RecvChunk(m, r) \/ RecvRejected(m, r)

-----------------------------------------------------------------------------
(* An owner PC.                                                            *)

WorkerFrame == <<generation, loop, view, stored, shown, drops>>

(* Datagrams to the laptop's socket for request r.                         *)
Sent(r, ms) == IF loop[r].live THEN ms ELSE {}

Room(o) == Cardinality(Held(o)) < MaxPending

(* owner_receive_loop on a Hello: a known request is answered again, a new *)
(* one is admitted, or it is ignored: there is no room for it, or          *)
(* admit_source_attempt has counted its address too often this minute.     *)
RecvHello(o, r) ==
  /\ Hello(r) \in net
  /\ \/ /\ r \in Held(o) /\ net' = (net \ {Hello(r)}) \cup Sent(r, Answer(o, r))
        /\ UNCHANGED <<pending, attention, keys>>
     \/ /\ r \notin Held(o) /\ Room(o) /\ keys < MaxKeys
        /\ keys' = keys + 1
        /\ pending' = [pending EXCEPT ![o][r] =
                         [key |-> keys', state |-> "awaiting", nonce |-> 0]]
        /\ attention' = [attention EXCEPT ![o] = TRUE]
        /\ net' = (net \ {Hello(r)}) \cup Sent(r, {Challenge(o, r, keys')})
     \/ /\ r \notin Held(o) /\ net' = net \ {Hello(r)}
        /\ UNCHANGED <<pending, attention, keys>>
  /\ UNCHANGED <<nonces, restarts>> /\ UNCHANGED WorkerFrame

(* create_invite makes an invitation nobody else holds.                    *)
CreateInvite == Len(nonces) + 1

(* approve_pairing: a new invitation at the controller, then approve() on  *)
(* the request in whatever state it is.                                    *)
Approve(o, r) ==
  /\ r \in Held(o) /\ Len(nonces) < MaxNonces
  /\ LET p == pending[o][r]
         n == CreateInvite
     IN  /\ nonces' = Append(nonces, [owner |-> o, req |-> r, key |-> p.key])
         /\ pending' = [pending EXCEPT ![o][r].state = "approved", ![o][r].nonce = n]
         /\ net' = net \cup Sent(r, { Chunk(o, r, p.key, n, i) : i \in Index })
  /\ UNCHANGED <<attention, keys, restarts>> /\ UNCHANGED WorkerFrame

Reject(o, r) ==
  /\ r \in Held(o)
  /\ pending' = [pending EXCEPT ![o][r] = NoPair]
  /\ net' = net \cup Sent(r, {Rejected(o, r)})
  /\ UNCHANGED <<attention, keys, nonces, restarts>> /\ UNCHANGED WorkerFrame

RecvComplete(o, r) ==
  \E m \in net :
    /\ m.t = "complete" /\ m.owner = o /\ m.req = r /\ net' = net \ {m}
    /\ pending' = IF pending[o][r].state = "approved" /\ pending[o][r].key = m.key
                  THEN [pending EXCEPT ![o][r].state = "completed"] ELSE pending
    /\ UNCHANGED <<attention, keys, nonces, restarts>>
    /\ UNCHANGED WorkerFrame

(* prune_owner_state, after the laptop's own request is over.              *)
Prune(o, r) ==
  /\ r \in Held(o) /\ ~loop[r].live
  /\ pending' = [pending EXCEPT ![o][r] = NoPair]
  /\ UNCHANGED <<attention, keys, nonces, net, restarts>>
  /\ UNCHANGED WorkerFrame

(* owner_window, polled by the screen.                                     *)
OwnerWindow(o) ==
  /\ attention[o] /\ Awaiting(o) = {} /\ attention' = [attention EXCEPT ![o] = FALSE]
  /\ UNCHANGED <<pending, keys, nonces, net, restarts>>
  /\ UNCHANGED WorkerFrame

(* The owner's app restarts and opens its inbox again; what it held is     *)
(* gone, as in deactivate_owner_window.                                    *)
RestartOwner(o) ==
  /\ restarts < MaxRestarts /\ restarts' = restarts + 1
  /\ pending' = [pending EXCEPT ![o] = [r \in Reqs |-> NoPair]]
  /\ attention' = [attention EXCEPT ![o] = FALSE]
  /\ UNCHANGED <<keys, nonces, net>> /\ UNCHANGED WorkerFrame

Drop(m) ==
  /\ m \in net /\ drops < MaxDrops /\ drops' = drops + 1 /\ net' = net \ {m}
  /\ UNCHANGED <<generation, loop, view, stored, shown>> /\ UNCHANGED OwnerFrame

-----------------------------------------------------------------------------
PairingInit ==
  /\ pending = [o \in Owners |-> [r \in Reqs |-> NoPair]]
  /\ attention = [o \in Owners |-> FALSE]
  /\ keys = 0 /\ nonces = << >> /\ net = {} /\ generation = 0
  /\ loop = [r \in Reqs |-> NoLoop] /\ view = IdleView
  /\ stored = 0 /\ shown = {} /\ drops = 0 /\ restarts = 0

OwnerStep(o) ==
  \/ OwnerWindow(o) \/ RestartOwner(o)
  \/ \E r \in Reqs : \/ RecvHello(o, r) \/ Approve(o, r) \/ Reject(o, r)
                     \/ RecvComplete(o, r) \/ Prune(o, r)

WorkerStep ==
  \/ BeginWorker \/ CancelWorker
  \/ \E r \in Reqs : LoopOver(r) \/ TickHello(r) \/ WorkerRecv(r)

PairingNext ==
  WorkerStep \/ (\E o \in Owners : OwnerStep(o)) \/ (\E m \in net : Drop(m))

PairingSpec == PairingInit /\ [][PairingNext]_pairingVars

(* The runtime keeps polling both sockets and the ticker, and no datagram  *)
(* waits for ever in a socket's queue.                                     *)
Fairness ==
  \A r \in Reqs :
    /\ WF_pairingVars(TickHello(r))
    /\ WF_pairingVars(\E o \in Owners : RecvHello(o, r))
    /\ WF_pairingVars(\E m \in net : RecvChallenge(m, r))
    /\ \A i \in Index :
         WF_pairingVars(\E m \in net :
           m.t = "chunk" /\ m.index = i /\ RecvChunk(m, r))

PairingFairSpec == PairingSpec /\ Fairness

-----------------------------------------------------------------------------
Pend == [key : 0..MaxKeys, state : {"none", "awaiting", "approved", "completed"},
         nonce : 0..MaxNonces]

(* Type correctness of the inbox, the loops and the laptop's view, and the *)
(* bound MAX_PENDING_REQUESTS.                                             *)
PairingTypeOK ==
  /\ pending \in [Owners -> [Reqs -> Pend]]
  /\ attention \in [Owners -> BOOLEAN]
  /\ \A o \in Owners : Cardinality(Held(o)) <= MaxPending
  /\ \A r \in Reqs :
       loop[r].got \subseteq Index /\ loop[r].sel \in Owners \cup {NoOwner}
  /\ view.state \in {"idle", "searching", "waiting", "approved", "failed"}
  /\ stored \in 0..Len(nonces)

(* The invitation on the laptop's disk came over a channel whose code the  *)
(* laptop showed for that very request: a loop of a cancelled request takes *)
(* at most one more datagram, never a challenge and then an approval.      *)
JoinsShownCode ==
  stored # 0 => <<nonces[stored].req, nonces[stored].key>> \in shown

(* The owner's screen says completed only of a laptop that has stored an   *)
(* invitation of this owner for that request: the confirmation is sent     *)
(* after persist_remote_invite, never before.                              *)
CompletedMeansStored ==
  \A o \in Owners, r \in Reqs :
    pending[o][r].state = "completed" =>
      stored # 0 /\ nonces[stored].owner = o /\ nonces[stored].req = r

(* What the laptop shows is about its current request: an older loop's     *)
(* failure or code never replaces it.                                      *)
ViewIsCurrent == view.state # "idle" => view.req = generation

(* A request that waits for the owner's decision keeps the attention flag, *)
(* which a poll of the window clears only when nothing is waiting.         *)
WaitingIsAnnounced == \A o \in Owners : Awaiting(o) # {} => attention[o]

(* What either screen shows is true: completed only of a laptop that has   *)
(* stored this owner's invitation for that request, a code or a failure    *)
(* only of the laptop's current request, and a request that waits for a    *)
(* decision keeps the owner's attention flag (finish_worker_enrollment,    *)
(* set_worker_status, owner_window).                                       *)
ScreensTellTruth == CompletedMeansStored /\ ViewIsCurrent /\ WaitingIsAnnounced

Ended(r) == stored # 0 \/ ~loop[r].live \/ generation # r

Approvals(r) == { n \in 1..Len(nonces) : nonces[n].req = r }

(* An approval of a request whose laptop has found this owner reaches the  *)
(* laptop's disk although fragments are lost and reordered, unless either  *)
(* side ends the request or the owner approves or restarts again.          *)
ApprovalIsStored ==
  \A o \in Owners, r \in Reqs :
    ( /\ pending[o][r].state = "approved" /\ loop[r].sel = o
      /\ Cardinality(Approvals(r)) = 1 )
      ~> ( \/ Ended(r) \/ Cardinality(Approvals(r)) > 1
           \/ pending[o][r].state # "approved" )

(* PAIRING.md: packet loss and repeated approvals do not force the user to *)
(* start over, an approval of a request whose laptop shows this owner's    *)
(* code is stored by the laptop, unless either side ends the request.      *)
LossIsHealed ==
  \A o \in Owners, r \in Reqs :
    (pending[o][r].state = "approved" /\ loop[r].sel = o)
      ~> (Ended(r) \/ pending[o][r].state # "approved")
=============================================================================
