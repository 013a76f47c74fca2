----------------------------- MODULE LoopProofs -----------------------------
(***************************************************************************)
(* Proofs for loops that run beside the handlers: the two loops of nearby  *)
(* pairing, and the controller's reconciliation of protected artifacts.    *)
(***************************************************************************)
EXTENDS Replication, Pairing, FiniteFacts, TLAPS

-----------------------------------------------------------------------------
(***************************************************************************)
(* Pairing, for any number of laptops' requests, owners and datagrams: an  *)
(* invitation is stored only for the code that was on the screen, and what *)
(* the two screens say is so.  Both rest on what a datagram in flight      *)
(* commits its sender to: a fragment is of an approval of its owner, a     *)
(* confirmation of an invitation that is stored.                           *)
(***************************************************************************)

Loops == [live : BOOLEAN, sel : Owners \cup {NoOwner}, key : Nat, nonce : Nat, got : SUBSET Nat]

Pairs == [key : Nat, state : {"none", "awaiting", "approved", "completed"}, nonce : Nat]

\* The types of what the two properties are about.
PairTyped ==
  /\ pending \in [Owners -> [Reqs -> Pairs]] /\ attention \in [Owners -> BOOLEAN]
  /\ keys \in Nat /\ nonces \in Seq([owner : Owners, req : Reqs, key : Nat])
  /\ generation \in 0..MaxGenerations /\ loop \in [Reqs -> Loops]
  /\ stored \in 0..Len(nonces)

\* Approval n is owner o's, of request r, under key k.
Is(n, o, r, k) == n \in 1..Len(nonces) /\ nonces[n] = [owner |-> o, req |-> r, key |-> k]

\* A challenge names an owner, a fragment its approval; a confirmation is
\* under way only after an invitation of the owner it goes to was stored.
Wire ==
  /\ \A m \in net : m.t = "challenge" => m.owner \in Owners /\ m.key \in Nat
  /\ \A m \in net : m.t = "chunk" => m.owner \in Owners /\ m.index \in Nat
                                     /\ Is(m.nonce, m.owner, m.req, m.key)
  /\ \A m \in net : m.t = "complete" =>
       stored # 0 /\ nonces[stored].owner = m.owner /\ nonces[stored].req = m.req

\* The approval an inbox holds is of its own request, under its own key.
Inboxes ==
  \A o \in Owners, r \in Reqs :
    pending[o][r].nonce # 0 => Is(pending[o][r].nonce, o, r, pending[o][r].key)

\* A loop that has found its owner has shown the code of its key.
Chosen == \A r \in Reqs : loop[r].sel # NoOwner => <<r, loop[r].key>> \in shown

PairingInv ==
  /\ PairTyped /\ Wire /\ Inboxes /\ Chosen /\ JoinsShownCode
  /\ CompletedMeansStored /\ ViewIsCurrent /\ WaitingIsAnnounced

\* The invariant holds while no laptop has asked.
LEMMA PairingStarts == PairingInit => PairingInv
  <1> SUFFICES ASSUME PairingInit PROVE PairingInv
    BY Zenon
  <1>1. PairTyped
    BY PairingAssumption DEF PairingInit, PairTyped, NoPair, NoLoop, Loops, Pairs
  <1>2. Wire /\ Inboxes /\ Chosen
    BY Zenon DEF PairingInit, Wire, Inboxes, Chosen, NoPair, NoLoop
  <1>3. JoinsShownCode /\ CompletedMeansStored
    BY Zenon DEF PairingInit, JoinsShownCode, CompletedMeansStored, NoPair, IdleView
  <1>4. ViewIsCurrent /\ WaitingIsAnnounced
    BY Zenon DEF PairingInit, ViewIsCurrent, WaitingIsAnnounced, Awaiting, Held, NoPair, NoLoop, IdleView
  <1> QED
    BY <1>1, <1>2, <1>3, <1>4 DEF PairingInv

\* What most steps of the laptop do: no invitation is stored, a loop ends, or
\* stays with its owner and key, and no datagram but a Hello is sent.
LaptopMoves ==
  /\ UNCHANGED <<pending, attention, keys, nonces, stored>>
  /\ loop' \in [Reqs -> Loops] /\ generation' \in 0..MaxGenerations
  /\ \A d \in net' : d \in net \/ d.t = "hello"
  /\ shown \subseteq shown' /\ Chosen' /\ ViewIsCurrent'

\* Such a step keeps the invariant.
LEMMA LaptopKeeps == ASSUME PairingInv, LaptopMoves PROVE PairingInv'
  <1>1. PairTyped'
    BY Zenon DEF PairingInv, LaptopMoves, PairTyped
  <1>2. Wire' /\ Inboxes'
    BY DEF PairingInv, LaptopMoves, Wire, Inboxes, Is
  <1>3. JoinsShownCode' /\ CompletedMeansStored' /\ WaitingIsAnnounced'
    BY Zenon DEF PairingInv, LaptopMoves, JoinsShownCode, CompletedMeansStored, WaitingIsAnnounced, Awaiting, Held
  <1> QED
    BY <1>1, <1>2, <1>3, Zenon DEF PairingInv, LaptopMoves

\* A loop that ends, or goes round as it was, has its owner and key as before.
LEMMA RoundKeeps ==
  ASSUME PairingInv, NEW r \in Reqs, NEW l \in Loops, loop' = [loop EXCEPT ![r] = l], shown' = shown,
         l.sel # NoOwner => l.sel = loop[r].sel /\ l.key = loop[r].key
  PROVE  loop' \in [Reqs -> Loops] /\ Chosen'
  BY Zenon DEF PairingInv, PairTyped, Chosen

\* NoLoop is a loop, and names no owner.
LEMMA NoLoopTyped == NoLoop \in Loops /\ NoLoop.sel = NoOwner
  BY Zenon DEF NoLoop, Loops

\* begin_worker, cancel_worker and the end of a request.
LEMMA BeginKeeps == ASSUME PairingInv, BeginWorker PROVE PairingInv'
  <1> DEFINE l == [NoLoop EXCEPT !.live = TRUE]
  <1>1. l \in Loops /\ l.sel = NoOwner
    BY Zenon DEF NoLoop, Loops
  <1>2. generation' \in Reqs /\ loop' = [loop EXCEPT ![generation'] = l] /\ shown' = shown
    BY PairingAssumption DEF BeginWorker, PairingInv, PairTyped, Reqs
  <1> HIDE DEF l
  <1>3. loop' \in [Reqs -> Loops] /\ Chosen'
    BY <1>1, <1>2, RoundKeeps, Zenon
  <1>4. ViewIsCurrent'
    BY Zenon DEF BeginWorker, ViewIsCurrent
  <1>5. LaptopMoves
    BY <1>2, <1>3, <1>4 DEF BeginWorker, LaptopMoves, OwnerFrame, Reqs
  <1> QED
    BY <1>5, LaptopKeeps

\* cancel_worker: a new generation, and no view.
LEMMA CancelKeeps == ASSUME PairingInv, CancelWorker PROVE PairingInv'
  <1>1. LaptopMoves
    BY PairingAssumption DEF CancelWorker, LaptopMoves, OwnerFrame, PairingInv, PairTyped, Chosen,
                             ViewIsCurrent, IdleView, Reqs
  <1> QED
    BY <1>1, LaptopKeeps

\* set_worker_status says something of the current request only.
LEMMA StatusIsCurrent ==
  ASSUME ViewIsCurrent, NEW r, NEW s, s.req = r, SetStatus(r, s), generation' = generation
  PROVE  ViewIsCurrent'
  BY Zenon DEF ViewIsCurrent, SetStatus

\* The end of a loop: fifteen minutes, or another generation.
LEMMA OverKeeps == ASSUME PairingInv, NEW r \in Reqs, LoopOver(r) PROVE PairingInv'
  <1>1. loop' \in [Reqs -> Loops] /\ Chosen'
    BY NoLoopTyped, RoundKeeps, Zenon DEF LoopOver, EndsLoop
  <1>2. ViewIsCurrent'
    BY StatusIsCurrent, Zenon DEF LoopOver, Failed, PairingInv
  <1>3. LaptopMoves
    BY <1>1, <1>2, Zenon DEF LoopOver, LaptopMoves, OwnerFrame, PairingInv, PairTyped
  <1> QED
    BY <1>3, LaptopKeeps, Zenon

\* The ticker sends a Hello.
LEMMA TickKeeps == ASSUME PairingInv, NEW r \in Reqs, TickHello(r) PROVE PairingInv'
  <1>1. LaptopMoves
    BY DEF TickHello, LaptopMoves, OwnerFrame, Hello, PairingInv, PairTyped, Chosen, ViewIsCurrent
  <1> QED
    BY <1>1, LaptopKeeps

\* A loop that takes a datagram and goes round as it was, if at all.
LEMMA GoesOnTyped ==
  ASSUME PairingInv, NEW r \in Reqs, NEW l \in Loops, GoesOn(r, l)
  PROVE  \E k \in Loops : loop' = [loop EXCEPT ![r] = k] /\ (k = l \/ k.sel = NoOwner)
  BY NoLoopTyped, Zenon DEF GoesOn

\* A challenge of the loop's owner, or of the first owner: the loop keeps a
\* new key only while its generation is current, and then its code is shown.
LEMMA ChallengeKeeps ==
  ASSUME PairingInv, NEW r \in Reqs, NEW m \in net, RecvChallenge(m, r) PROVE PairingInv'
  <1> DEFINE l == [loop[r] EXCEPT !.sel = m.owner, !.key = m.key]
  <1>1. /\ m \in net /\ m.t = "challenge" /\ m.owner \in Owners /\ m.key \in Nat
        /\ net' \subseteq net /\ loop[r] \in Loops
        /\ UNCHANGED <<pending, attention, keys, nonces, stored, generation>>
    BY Zenon DEF RecvChallenge, Receives, NetWithout, OwnerFrame, PairingInv, PairTyped, Wire
  <1>2. l \in Loops /\ l.sel = m.owner /\ l.key = m.key
    BY <1>1, Zenon DEF Loops
  <1> HIDE DEF l
  <1>3. CASE loop[r].sel \in {NoOwner, m.owner}
    <2>1. /\ GoesOn(r, l) /\ SetStatus(r, [state |-> "waiting", req |-> r, key |-> m.key])
          /\ shown' = IF generation = r THEN shown \cup {<<r, m.key>>} ELSE shown
      BY <1>3, Zenon DEF RecvChallenge, l
    <2>2. loop' = [loop EXCEPT ![r] = IF generation = r THEN l ELSE NoLoop]
      BY <2>1, Zenon DEF GoesOn
    <2>3. loop' \in [Reqs -> Loops] /\ Chosen' /\ shown \subseteq shown'
      BY <1>2, <2>1, <2>2, NoLoopTyped, Zenon DEF PairingInv, PairTyped, Chosen
    <2>4. ViewIsCurrent'
      BY <1>1, <2>1, StatusIsCurrent, Zenon DEF PairingInv
    <2>5. LaptopMoves
      BY <1>1, <2>3, <2>4, Zenon DEF LaptopMoves, PairingInv, PairTyped
    <2> QED
      BY <2>5, LaptopKeeps, Zenon
  <1>4. CASE loop[r].sel \notin {NoOwner, m.owner}
    <2>1. GoesOn(r, loop[r]) /\ UNCHANGED <<view, shown>>
      BY <1>4, Zenon DEF RecvChallenge
    <2>2. loop' \in [Reqs -> Loops] /\ Chosen'
      BY <1>1, <2>1, GoesOnTyped, RoundKeeps
    <2>3. LaptopMoves
      BY <1>1, <2>1, <2>2, Zenon DEF LaptopMoves, PairingInv, PairTyped, ViewIsCurrent
    <2> QED
      BY <2>3, LaptopKeeps
  <1> QED
    BY <1>3, <1>4, Zenon

\* A rejection by the loop's owner ends the loop; another's does nothing.
LEMMA RejectedKeeps ==
  ASSUME PairingInv, NEW r \in Reqs, NEW m \in net, RecvRejected(m, r) PROVE PairingInv'
  <1>1. /\ net' \subseteq net /\ loop[r] \in Loops
        /\ UNCHANGED <<pending, attention, keys, nonces, stored, generation, shown>>
    BY Zenon DEF RecvRejected, Receives, NetWithout, OwnerFrame, PairingInv, PairTyped
  <1>2. loop' \in [Reqs -> Loops] /\ Chosen' /\ ViewIsCurrent'
    <2>1. CASE loop[r].sel = m.owner
      <3>1. loop' = [loop EXCEPT ![r] = NoLoop] /\ SetStatus(r, Failed(r))
        BY <2>1, Zenon DEF RecvRejected, EndsLoop
      <3>2. loop' \in [Reqs -> Loops] /\ Chosen'
        BY <1>1, <3>1, NoLoopTyped, RoundKeeps, Zenon
      <3> QED
        BY <1>1, <3>1, <3>2, StatusIsCurrent, Zenon DEF PairingInv, Failed
    <2>2. CASE loop[r].sel # m.owner
      <3>1. GoesOn(r, loop[r]) /\ UNCHANGED view
        BY <2>2, Zenon DEF RecvRejected
      <3>2. loop' \in [Reqs -> Loops] /\ Chosen'
        BY <1>1, <3>1, GoesOnTyped, RoundKeeps
      <3> QED
        BY <1>1, <3>1, <3>2, Zenon DEF PairingInv, ViewIsCurrent
    <2> QED
      BY <2>1, <2>2, Zenon
  <1>3. LaptopMoves
    BY <1>1, <1>2, Zenon DEF LaptopMoves, PairingInv, PairTyped
  <1> QED
    BY <1>3, LaptopKeeps

\* finish_worker_enrollment: the invitation stored is of the approval whose
\* fragment arrived, under the key of a code that was shown.
LEMMA FinishKeeps ==
  ASSUME PairingInv, NEW r \in Reqs, NEW m \in net, Receives(m, r, "chunk"), Assembles(loop[r], m),
         Finish(m, r), UNCHANGED <<generation, shown, drops>>, UNCHANGED OwnerFrame
  PROVE  PairingInv'
  <1>1. /\ m.owner \in Owners /\ m.req = r /\ Is(m.nonce, m.owner, r, m.key) /\ stored = 0
        /\ UNCHANGED <<pending, attention, keys, nonces, generation, shown>>
        /\ loop' = [loop EXCEPT ![r] = NoLoop]
    BY Zenon DEF Receives, PairingInv, Wire, Finish, EndsLoop, OwnerFrame
  <1>2. loop' \in [Reqs -> Loops] /\ Chosen'
    BY <1>1, NoLoopTyped, RoundKeeps, Zenon
  <1>3. CASE ~(loop[r].key = m.key /\ Intent)
    <2>1. net' \subseteq net /\ stored' = stored /\ SetStatus(r, Failed(r))
      BY <1>3, Zenon DEF Finish, NetWithout
    <2>2. ViewIsCurrent'
      BY <1>1, <2>1, StatusIsCurrent, Zenon DEF PairingInv, Failed
    <2>3. LaptopMoves
      BY <1>1, <1>2, <2>1, <2>2, Zenon DEF LaptopMoves, PairingInv, PairTyped
    <2> QED
      BY <2>3, LaptopKeeps, Zenon
  <1>4. CASE loop[r].key = m.key /\ Intent
    <2>1. /\ stored' = m.nonce /\ SetStatus(r, [state |-> "approved", req |-> r, key |-> m.key])
          /\ \A d \in net' : d \in net \/ d = Complete(m.owner, r, m.key)
      BY <1>4, Zenon DEF Finish, NetWithout
    <2>2. ViewIsCurrent'
      BY <1>1, <2>1, StatusIsCurrent, Zenon DEF PairingInv
    <2>3. <<r, m.key>> \in shown
      BY <1>1, <1>4, PairingAssumption, Zenon DEF Assembles, PairingInv, Chosen
    <2>4. /\ m.nonce \in 0..Len(nonces) /\ m.nonce # 0
          /\ nonces[m.nonce].owner = m.owner /\ nonces[m.nonce].req = r /\ nonces[m.nonce].key = m.key
      <3>1. m.nonce \in 1..Len(nonces) /\ nonces[m.nonce] = [owner |-> m.owner, req |-> r, key |-> m.key]
        BY <1>1, Zenon DEF Is
      <3>2. Len(nonces) \in Nat
        BY DEF PairingInv, PairTyped
      <3> QED
        BY <3>1, <3>2
    <2>7. PairTyped'
      BY <1>1, <1>2, <2>1, <2>4, Zenon DEF PairingInv, PairTyped
    <2>8. JoinsShownCode'
      BY <1>1, <2>1, <2>3, <2>4, Zenon DEF JoinsShownCode
    <2>5. Wire'
      BY <1>1, <2>1, <2>4 DEF PairingInv, Wire, Is, Complete
    <2>6. Inboxes' /\ CompletedMeansStored' /\ WaitingIsAnnounced'
      <3>1. Inboxes'
        BY <1>1, Zenon DEF PairingInv, Inboxes, Is
      <3>2. CompletedMeansStored'
        BY <1>1, Zenon DEF PairingInv, CompletedMeansStored, Awaiting, Held
      <3>3. WaitingIsAnnounced'
        BY <1>1, Zenon DEF PairingInv, WaitingIsAnnounced, Awaiting, Held
      <3> QED
        BY <3>1, <3>2, <3>3, Zenon
    <2> QED
      BY <1>2, <2>2, <2>5, <2>6, <2>7, <2>8, Zenon DEF PairingInv
  <1> QED
    BY <1>3, <1>4, Zenon

\* A fragment that does not belong, one that does, and the last one.
LEMMA ChunkKeeps ==
  ASSUME PairingInv, NEW r \in Reqs, NEW m \in net, RecvChunk(m, r) PROVE PairingInv'
  <1> DEFINE got == loop[r].got \cup {m.index}
             l == [loop[r] EXCEPT !.got = got, !.nonce = m.nonce]
  <1>1. CASE Assembles(loop[r], m) /\ got = Index /\ Finish(m, r)
    BY <1>1, FinishKeeps DEF RecvChunk
  <1>2. ASSUME NEW k \in Loops, k.sel = loop[r].sel, k.key = loop[r].key, GoesOn(r, k),
               net' = NetWithout(m, r), UNCHANGED <<view, stored>>
        PROVE  PairingInv'
    <2>1. UNCHANGED <<pending, attention, keys, nonces, generation, shown>>
      BY DEF RecvChunk, OwnerFrame
    <2>2. loop' \in [Reqs -> Loops] /\ Chosen'
      BY <1>2, <2>1, GoesOnTyped, RoundKeeps
    <2>3. LaptopMoves
      BY <1>2, <2>1, <2>2, Zenon DEF LaptopMoves, PairingInv, PairTyped, ViewIsCurrent, NetWithout
    <2> QED
      BY <2>3, LaptopKeeps
  <1>3. loop[r] \in Loops /\ m.index \in Nat /\ m.nonce \in Nat
    <2>1. m.t = "chunk"
      BY Zenon DEF RecvChunk, Receives
    <2>2. m.index \in Nat /\ m.nonce \in 1..Len(nonces)
      BY <2>1, Zenon DEF PairingInv, Wire, Is
    <2>3. loop[r] \in Loops /\ Len(nonces) \in Nat
      BY DEF PairingInv, PairTyped
    <2> QED
      BY <2>2, <2>3
  <1>4. l \in Loops /\ l.sel = loop[r].sel /\ l.key = loop[r].key
    BY <1>3, Zenon DEF Loops
  <1>5. \/ GoesOn(r, loop[r]) /\ net' = NetWithout(m, r) /\ UNCHANGED <<view, stored>>
        \/ GoesOn(r, l) /\ net' = NetWithout(m, r) /\ UNCHANGED <<view, stored>>
        \/ Assembles(loop[r], m) /\ got = Index /\ Finish(m, r)
    BY Zenon DEF RecvChunk
  <1> HIDE DEF l, got
  <1> QED
    BY <1>1, <1>2, <1>3, <1>4, <1>5

\* What a step of an owner PC does: the laptop is left alone, approvals are
\* only added, and what is sent is a challenge of an owner or a fragment of
\* an approval.
OwnerMoves ==
  /\ UNCHANGED <<generation, loop, view, stored, shown>>
  /\ pending' \in [Owners -> [Reqs -> Pairs]] /\ attention' \in [Owners -> BOOLEAN]
  /\ keys' \in Nat /\ nonces' \in Seq([owner : Owners, req : Reqs, key : Nat])
  /\ Len(nonces) <= Len(nonces') /\ \A n \in 1..Len(nonces) : nonces'[n] = nonces[n]
  /\ \A d \in net' : \/ d \in net \/ d.t = "rejected"
                     \/ d.t = "challenge" /\ d.owner \in Owners /\ d.key \in Nat
                     \/ d.t = "chunk" /\ d.owner \in Owners /\ d.index \in Nat
                        /\ d.nonce \in 1..Len(nonces')
                        /\ nonces'[d.nonce] = [owner |-> d.owner, req |-> d.req, key |-> d.key]
  /\ Inboxes' /\ WaitingIsAnnounced'
  /\ \A o \in Owners, r \in Reqs : pending'[o][r].state = "completed" =>
       \/ pending[o][r].state = "completed"
       \/ \E m \in net : m.t = "complete" /\ m.owner = o /\ m.req = r

\* Such a step keeps the invariant.
LEMMA OwnerKeeps == ASSUME PairingInv, OwnerMoves PROVE PairingInv'
  <1>0. Len(nonces) \in Nat /\ Len(nonces') \in Nat
    BY DEF PairingInv, PairTyped, OwnerMoves
  <1>1. PairTyped'
    BY <1>0 DEF PairingInv, OwnerMoves, PairTyped
  <1>2. ASSUME NEW n, NEW o, NEW r, NEW k, Is(n, o, r, k) PROVE Is(n, o, r, k)'
    BY <1>0, <1>2 DEF Is, OwnerMoves
  <1>3. stored # 0 => stored' # 0 /\ nonces'[stored'] = nonces[stored]
    BY DEF PairingInv, PairTyped, OwnerMoves
  <1>4. Wire'
    <2>1. ASSUME NEW d \in net', d.t = "challenge" PROVE d.owner \in Owners /\ d.key \in Nat
      BY <2>1, Zenon DEF PairingInv, Wire, OwnerMoves
    <2>2. ASSUME NEW d \in net', d.t = "chunk"
          PROVE  d.owner \in Owners /\ d.index \in Nat /\ Is(d.nonce, d.owner, d.req, d.key)'
      <3>1. CASE d \in net
        BY <2>2, <3>1, <1>2, Zenon DEF PairingInv, Wire
      <3>2. CASE d \notin net
        BY <2>2, <3>2, Zenon DEF OwnerMoves, Is
      <3> QED
        BY <3>1, <3>2, Zenon
    <2>3. ASSUME NEW d \in net', d.t = "complete"
          PROVE  stored' # 0 /\ nonces'[stored'].owner = d.owner /\ nonces'[stored'].req = d.req
      <3>1. d \in net
        BY <2>3, Zenon DEF OwnerMoves
      <3> QED
        BY <2>3, <3>1, <1>3 DEF PairingInv, Wire
    <2> QED
      BY <2>1, <2>2, <2>3, Zenon DEF Wire
  <1>5. Chosen' /\ JoinsShownCode' /\ ViewIsCurrent'
    BY <1>3, Zenon DEF PairingInv, Chosen, JoinsShownCode, ViewIsCurrent, OwnerMoves
  <1>6. CompletedMeansStored'
    <2> SUFFICES ASSUME NEW o \in Owners, NEW r \in Reqs, pending'[o][r].state = "completed"
                 PROVE  stored # 0 /\ nonces[stored].owner = o /\ nonces[stored].req = r
      BY SMTT(30), <1>3 DEF CompletedMeansStored, OwnerMoves
    <2>1. CASE pending[o][r].state = "completed"
      BY <2>1, Zenon DEF PairingInv, CompletedMeansStored
    <2>2. CASE \E m \in net : m.t = "complete" /\ m.owner = o /\ m.req = r
      BY <2>2, Zenon DEF PairingInv, Wire
    <2> QED
      BY <2>1, <2>2 DEF OwnerMoves
  <1> QED
    BY <1>1, <1>4, <1>5, <1>6, Zenon DEF PairingInv, OwnerMoves

\* A request of one inbox becomes p: an approval p holds is its own, and if p
\* waits for a decision the owner's attention is called.
LEMMA RequestChanges ==
  ASSUME PairingInv, NEW o \in Owners, NEW r \in Reqs, NEW p \in Pairs,
         pending' = [pending EXCEPT ![o] = [pending[o] EXCEPT ![r] = p]],
         attention' = attention \/ attention' = [attention EXCEPT ![o] = TRUE],
         p.nonce # 0 => /\ p.nonce \in 1..Len(nonces')
                        /\ nonces'[p.nonce] = [owner |-> o, req |-> r, key |-> p.key],
         p.state = "awaiting" => attention'[o],
         nonces' \in Seq([owner : Owners, req : Reqs, key : Nat]),
         Len(nonces) <= Len(nonces'), \A n \in 1..Len(nonces) : nonces'[n] = nonces[n]
  PROVE  /\ pending' \in [Owners -> [Reqs -> Pairs]] /\ attention' \in [Owners -> BOOLEAN]
         /\ Inboxes' /\ WaitingIsAnnounced'
         /\ \A q \in Owners, s \in Reqs :
              pending'[q][s].state = "completed" =>
                pending[q][s].state = "completed" \/ (q = o /\ s = r /\ p.state = "completed")
  <1>1. /\ pending' \in [Owners -> [Reqs -> Pairs]]
        /\ \A q \in Owners, s \in Reqs : pending'[q][s] = IF q = o /\ s = r THEN p ELSE pending[q][s]
    BY Zenon DEF PairingInv, PairTyped
  <1>2. attention' \in [Owners -> BOOLEAN] /\ \A q \in Owners : attention[q] => attention'[q]
    BY Zenon DEF PairingInv, PairTyped
  <1>3. Inboxes'
    <2> SUFFICES ASSUME NEW q \in Owners, NEW s \in Reqs, pending'[q][s].nonce # 0
                 PROVE  /\ pending'[q][s].nonce \in 1..Len(nonces')
                        /\ nonces'[pending'[q][s].nonce] =
                             [owner |-> q, req |-> s, key |-> pending'[q][s].key]
      BY Zenon DEF Inboxes, Is
    <2>1. CASE q = o /\ s = r
      BY <1>1, <2>1, Zenon
    <2>2. CASE ~(q = o /\ s = r)
      <3>1. pending'[q][s] = pending[q][s] /\ Is(pending[q][s].nonce, q, s, pending[q][s].key)
        BY <1>1, <2>2, Zenon DEF PairingInv, Inboxes
      <3>2. Len(nonces) \in Nat /\ Len(nonces') \in Nat
        BY DEF PairingInv, PairTyped
      <3> QED
        <4> DEFINE n == pending[q][s].nonce
        <4>1. n \in 1..Len(nonces) /\ nonces[n] = [owner |-> q, req |-> s, key |-> pending[q][s].key]
          BY <3>1, Zenon DEF Is
        <4>2. nonces'[n] = nonces[n]
          BY <4>1, Zenon
        <4>3. n \in 1..Len(nonces')
          <5> HIDE DEF n
          <5> QED
            BY <3>2, <4>1
        <4> QED
          BY <3>1, <4>1, <4>2, <4>3, Zenon
    <2> QED
      BY <2>1, <2>2, Zenon
  <1>4. WaitingIsAnnounced'
    <2> SUFFICES ASSUME NEW q \in Owners, NEW s \in Reqs, pending'[q][s] # NoPair,
                        pending'[q][s].state = "awaiting"
                 PROVE  attention'[q]
      BY DEF WaitingIsAnnounced, Awaiting, Held
    <2>1. CASE q = o /\ s = r
      BY <1>1, <2>1, Zenon
    <2>2. CASE ~(q = o /\ s = r)
      <3>1. s \in Awaiting(q)
        BY <1>1, <2>2, Zenon DEF Awaiting, Held
      <3> QED
        BY <1>2, <3>1, Zenon DEF PairingInv, WaitingIsAnnounced
    <2> QED
      BY <2>1, <2>2
  <1> QED
    BY <1>1, <1>2, <1>3, <1>4

\* A challenge and a fragment as the inbox sends them.
LEMMA AnswerTyped ==
  ASSUME PairingInv, NEW o \in Owners, NEW r \in Reqs, NEW d \in Answer(o, r)
  PROVE  \/ d.t = "challenge" /\ d.owner \in Owners /\ d.key \in Nat
         \/ d.t = "chunk" /\ d.owner \in Owners /\ d.index \in Nat
            /\ Is(d.nonce, d.owner, d.req, d.key)
  <1> DEFINE p == pending[o][r]
  <1>1. p \in Pairs /\ (p.nonce # 0 => Is(p.nonce, o, r, p.key))
    BY Zenon DEF PairingInv, PairTyped, Inboxes
  <1>2. CASE p.nonce # 0
    <2>1. PICK i \in Index : d = Chunk(o, r, p.key, p.nonce, i)
      BY <1>2, Zenon DEF Answer
    <2>2. i \in Nat
      BY PairingAssumption DEF Index
    <2> QED
      BY <1>1, <1>2, <2>1, <2>2, Zenon DEF Chunk
  <1>3. CASE p.nonce = 0
    BY <1>1, <1>3 DEF Answer, Challenge, Pairs
  <1> QED
    BY <1>2, <1>3, Zenon

\* Nothing changes at the owners: what the frame of RecvHello leaves alone.
LEMMA InboxSame ==
  ASSUME PairingInv, UNCHANGED <<pending, attention, nonces>>
  PROVE  /\ pending' \in [Owners -> [Reqs -> Pairs]] /\ attention' \in [Owners -> BOOLEAN]
         /\ nonces' \in Seq([owner : Owners, req : Reqs, key : Nat])
         /\ Inboxes' /\ WaitingIsAnnounced'
  BY Zenon DEF PairingInv, PairTyped, Inboxes, Is, WaitingIsAnnounced, Awaiting, Held

\* A Hello: a known request is answered, a new one is admitted with a new
\* key and announced, or it is ignored.
LEMMA HelloKeeps ==
  ASSUME PairingInv, NEW o \in Owners, NEW r \in Reqs, RecvHello(o, r) PROVE PairingInv'
  <1>0. UNCHANGED <<nonces, generation, loop, view, stored, shown>>
    BY Zenon DEF RecvHello, WorkerFrame
  <1>1. /\ nonces' \in Seq([owner : Owners, req : Reqs, key : Nat]) /\ keys \in Nat
        /\ Len(nonces) <= Len(nonces') /\ \A n \in 1..Len(nonces) : nonces'[n] = nonces[n]
    BY <1>0 DEF PairingInv, PairTyped
  <1>2. CASE /\ UNCHANGED <<pending, attention, keys>>
             /\ net' \subseteq net \cup Answer(o, r)
    <2>1. /\ pending' \in [Owners -> [Reqs -> Pairs]] /\ attention' \in [Owners -> BOOLEAN]
          /\ Inboxes' /\ WaitingIsAnnounced'
      BY <1>0, <1>2, InboxSame, Zenon
    <2>2. \A d \in net' : \/ d \in net
                          \/ d.t = "challenge" /\ d.owner \in Owners /\ d.key \in Nat
                          \/ d.t = "chunk" /\ d.owner \in Owners /\ d.index \in Nat
                             /\ Is(d.nonce, d.owner, d.req, d.key)
      BY <1>2, AnswerTyped, Zenon
    <2>3. OwnerMoves
      BY <1>0, <1>1, <1>2, <2>1, <2>2, Zenon DEF OwnerMoves, Is
    <2> QED
      BY <2>3, OwnerKeeps, Zenon
  <1>3. CASE /\ keys' = keys + 1 /\ attention' = [attention EXCEPT ![o] = TRUE]
             /\ pending' = [pending EXCEPT ![o][r] =
                              [key |-> keys', state |-> "awaiting", nonce |-> 0]]
             /\ net' \subseteq net \cup {Challenge(o, r, keys')}
    <2> DEFINE p == [key |-> keys', state |-> "awaiting", nonce |-> 0]
    <2>1. p \in Pairs /\ p.nonce = 0 /\ p.state = "awaiting" /\ keys' \in Nat
      BY <1>1, <1>3 DEF Pairs
    <2>2. /\ attention' = [attention EXCEPT ![o] = TRUE] /\ attention'[o]
          /\ pending' = [pending EXCEPT ![o] = [pending[o] EXCEPT ![r] = p]]
      BY <1>3, Zenon DEF PairingInv, PairTyped
    <2> HIDE DEF p
    <2>3. /\ pending' \in [Owners -> [Reqs -> Pairs]] /\ attention' \in [Owners -> BOOLEAN]
          /\ Inboxes' /\ WaitingIsAnnounced'
          /\ \A q \in Owners, s \in Reqs :
               pending'[q][s].state = "completed" => pending[q][s].state = "completed"
      BY <1>1, <2>1, <2>2, RequestChanges, ZenonT(60)
    <2>4. \A d \in net' : d \in net \/ (d.t = "challenge" /\ d.owner \in Owners /\ d.key \in Nat)
      BY <1>3, <2>1 DEF Challenge
    <2>5. OwnerMoves
      BY <1>0, <1>1, <2>1, <2>3, <2>4, Zenon DEF OwnerMoves
    <2> QED
      BY <2>5, OwnerKeeps
  <1>4. \/ UNCHANGED <<pending, attention, keys>> /\ net' \subseteq net \cup Answer(o, r)
        \/ /\ keys' = keys + 1 /\ attention' = [attention EXCEPT ![o] = TRUE]
           /\ pending' = [pending EXCEPT ![o][r] =
                            [key |-> keys', state |-> "awaiting", nonce |-> 0]]
           /\ net' \subseteq net \cup {Challenge(o, r, keys')}
    BY Zenon DEF RecvHello, Sent
  <1> QED
    BY <1>2, <1>3, <1>4

\* approve() sets the state and the approval of a request, and keeps its key.
LEMMA ApprovedTyped ==
  ASSUME NEW p \in Pairs, NEW n \in Nat
  PROVE  LET q == [p EXCEPT !.state = "approved", !.nonce = n]
         IN  q \in Pairs /\ q.state = "approved" /\ q.nonce = n /\ q.key = p.key
  BY Zenon DEF Pairs

\* approve_pairing: a new approval of this request, under its key.
LEMMA ApproveKeeps ==
  ASSUME PairingInv, NEW o \in Owners, NEW r \in Reqs, Approve(o, r) PROVE PairingInv'
  <1> DEFINE p == pending[o][r]
             n == Len(nonces) + 1
             a == [owner |-> o, req |-> r, key |-> p.key]
             q == [p EXCEPT !.state = "approved", !.nonce = n]
  <1>1. p \in Pairs /\ a \in [owner : Owners, req : Reqs, key : Nat] /\ Len(nonces) \in Nat
    BY DEF PairingInv, PairTyped, Pairs
  <1>2. q \in Pairs /\ q.state = "approved" /\ q.nonce = n /\ q.key = p.key
    <2>1. p \in Pairs /\ n \in Nat
      BY <1>1
    <2> HIDE DEF p, n
    <2> QED
      BY <2>1, ApprovedTyped, Zenon
  <1>3. /\ nonces' = Append(nonces, a) /\ UNCHANGED <<attention, keys>>
        /\ UNCHANGED <<generation, loop, view, stored, shown>>
        /\ net' \subseteq net \cup { Chunk(o, r, p.key, n, i) : i \in Index }
    BY Zenon DEF Approve, CreateInvite, WorkerFrame, Sent
  <1>4. pending' = [pending EXCEPT ![o] = [pending[o] EXCEPT ![r] = q]]
    <2>1. pending' = [pending EXCEPT ![o][r].state = "approved", ![o][r].nonce = n]
      BY Zenon DEF Approve, CreateInvite
    <2> QED
      BY <2>1, Zenon DEF PairingInv, PairTyped
  <1>5. /\ nonces' \in Seq([owner : Owners, req : Reqs, key : Nat]) /\ Len(nonces') = n
        /\ Len(nonces) <= Len(nonces') /\ \A i \in 1..Len(nonces) : nonces'[i] = nonces[i]
        /\ n \in 1..Len(nonces') /\ nonces'[n] = a
    <2>1. nonces \in Seq([owner : Owners, req : Reqs, key : Nat]) /\ nonces' = Append(nonces, a)
      BY <1>3, Zenon DEF PairingInv, PairTyped
    <2>2. a \in [owner : Owners, req : Reqs, key : Nat]
      BY <1>1, Zenon
    <2> HIDE DEF a
    <2> QED
      BY <2>1, <2>2
  <1>6. q.nonce \in 1..Len(nonces') /\ nonces'[q.nonce] = [owner |-> o, req |-> r, key |-> q.key]
    BY <1>2, <1>5, Zenon
  <1>7. \A d \in net' : \/ d \in net
                        \/ d.t = "chunk" /\ d.owner \in Owners /\ d.index \in Nat
                           /\ d.nonce \in 1..Len(nonces')
                           /\ nonces'[d.nonce] = [owner |-> d.owner, req |-> d.req, key |-> d.key]
    <2> SUFFICES ASSUME NEW i \in Index
                 PROVE  LET d == Chunk(o, r, p.key, n, i)
                        IN  d.t = "chunk" /\ d.owner \in Owners /\ d.index \in Nat
                            /\ d.nonce \in 1..Len(nonces')
                            /\ nonces'[d.nonce] = [owner |-> d.owner, req |-> d.req, key |-> d.key]
      BY <1>3, ZenonT(30)
    <2>1. i \in Nat
      BY PairingAssumption DEF Index
    <2> QED
      BY <1>5, <2>1, Zenon DEF Chunk
  <1> HIDE DEF q, n, a
  <1>8. /\ pending' \in [Owners -> [Reqs -> Pairs]] /\ attention' \in [Owners -> BOOLEAN]
        /\ Inboxes' /\ WaitingIsAnnounced'
        /\ \A i \in Owners, s \in Reqs :
             pending'[i][s].state = "completed" => pending[i][s].state = "completed"
    BY <1>2, <1>3, <1>4, <1>5, <1>6, RequestChanges, Zenon
  <1>9. OwnerMoves
    BY <1>3, <1>5, <1>7, <1>8, ZenonT(30) DEF OwnerMoves, PairingInv, PairTyped
  <1> QED
    BY <1>9, OwnerKeeps

\* A request leaves the inbox: reject, and the prune of an old one.
LEMMA NoPairKeeps ==
  ASSUME PairingInv, NEW o \in Owners, NEW r \in Reqs,
         pending' = [pending EXCEPT ![o] = [pending[o] EXCEPT ![r] = NoPair]],
         UNCHANGED <<attention, keys, nonces>>, UNCHANGED WorkerFrame,
         \A d \in net' : d \in net \/ d.t = "rejected"
  PROVE  PairingInv'
  <1>1. NoPair \in Pairs /\ NoPair.nonce = 0 /\ NoPair.state = "none"
    BY DEF NoPair, Pairs
  <1>2. /\ attention' = attention /\ nonces' \in Seq([owner : Owners, req : Reqs, key : Nat])
        /\ Len(nonces) <= Len(nonces') /\ \A n \in 1..Len(nonces) : nonces'[n] = nonces[n]
    BY DEF PairingInv, PairTyped
  <1>4. /\ pending' \in [Owners -> [Reqs -> Pairs]] /\ attention' \in [Owners -> BOOLEAN]
        /\ Inboxes' /\ WaitingIsAnnounced'
        /\ \A i \in Owners, s \in Reqs :
             pending'[i][s].state = "completed" => pending[i][s].state = "completed"
    BY <1>1, <1>2, RequestChanges, ZenonT(30)
  <1>5. OwnerMoves
    BY <1>2, <1>4, ZenonT(30) DEF OwnerMoves, WorkerFrame, PairingInv, PairTyped
  <1> QED
    BY <1>5, OwnerKeeps

\* reject, and prune_owner_state.
LEMMA ForgetKeeps ==
  ASSUME PairingInv, NEW o \in Owners, NEW r \in Reqs, Reject(o, r) \/ Prune(o, r) PROVE PairingInv'
  <1>1. /\ UNCHANGED <<attention, keys, nonces>> /\ UNCHANGED WorkerFrame
        /\ \A d \in net' : d \in net \/ d.t = "rejected"
    BY DEF Reject, Prune, Sent, Rejected
  <1>2. pending' = [pending EXCEPT ![o] = [pending[o] EXCEPT ![r] = NoPair]]
    BY Zenon DEF Reject, Prune, PairingInv, PairTyped
  <1> QED
    BY <1>1, <1>2, NoPairKeeps, Zenon

\* A request that is completed keeps its approval and its key.
LEMMA CompletedTyped ==
  ASSUME NEW p \in Pairs
  PROVE  LET q == [p EXCEPT !.state = "completed"]
         IN  q \in Pairs /\ q.state = "completed" /\ q.nonce = p.nonce /\ q.key = p.key
  BY Zenon DEF Pairs

\* A confirmation: the request it names is completed, if it is approved.
LEMMA CompleteKeeps ==
  ASSUME PairingInv, NEW o \in Owners, NEW r \in Reqs, RecvComplete(o, r) PROVE PairingInv'
  <1>1. PICK m \in net :
          /\ m.t = "complete" /\ m.owner = o /\ m.req = r /\ net' = net \ {m}
          /\ pending' = IF pending[o][r].state = "approved" /\ pending[o][r].key = m.key
                        THEN [pending EXCEPT ![o][r].state = "completed"] ELSE pending
          /\ UNCHANGED <<attention, keys, nonces, restarts>> /\ UNCHANGED WorkerFrame
    BY Zenon DEF RecvComplete
  <1>2. /\ attention' = attention /\ nonces' \in Seq([owner : Owners, req : Reqs, key : Nat])
        /\ Len(nonces) <= Len(nonces') /\ \A n \in 1..Len(nonces) : nonces'[n] = nonces[n]
    BY <1>1 DEF PairingInv, PairTyped
  <1>3. /\ pending' \in [Owners -> [Reqs -> Pairs]] /\ attention' \in [Owners -> BOOLEAN]
        /\ Inboxes' /\ WaitingIsAnnounced'
        /\ \A i \in Owners, s \in Reqs : pending'[i][s].state = "completed" =>
             pending[i][s].state = "completed" \/ (i = o /\ s = r)
    <2>1. CASE pending' = pending
      BY <1>1, <2>1, InboxSame, Zenon
    <2>2. CASE pending' = [pending EXCEPT ![o][r].state = "completed"]
      <3> DEFINE p == [pending[o][r] EXCEPT !.state = "completed"]
      <3>1. /\ p \in Pairs /\ p.state = "completed" /\ p.nonce = pending[o][r].nonce
            /\ p.key = pending[o][r].key
        <4>1. pending[o][r] \in Pairs
          BY DEF PairingInv, PairTyped
        <4> QED
          BY <4>1, CompletedTyped
      <3>2. p.nonce # 0 => /\ p.nonce \in 1..Len(nonces')
                           /\ nonces'[p.nonce] = [owner |-> o, req |-> r, key |-> p.key]
        BY <1>1, <3>1 DEF PairingInv, Inboxes, Is
      <3>3. pending' = [pending EXCEPT ![o] = [pending[o] EXCEPT ![r] = p]]
        BY <2>2, Zenon DEF PairingInv, PairTyped
      <3> HIDE DEF p
      <3> QED
        BY <1>2, <3>1, <3>2, <3>3, RequestChanges, ZenonT(30)
    <2> QED
      BY <1>1, <2>1, <2>2, Zenon
  <1>4. OwnerMoves
    BY <1>1, <1>2, <1>3 DEF OwnerMoves, WorkerFrame, PairingInv, PairTyped
  <1> QED
    BY <1>4, OwnerKeeps, Zenon

\* The poll of the window clears the flag when nothing waits; a restart
\* forgets the inbox and the flag.
LEMMA WindowKeeps ==
  ASSUME PairingInv, NEW o \in Owners, OwnerWindow(o) \/ RestartOwner(o) PROVE PairingInv'
  <1>1. UNCHANGED <<keys, nonces, net>> /\ UNCHANGED WorkerFrame
    BY Zenon DEF OwnerWindow, RestartOwner
  <1>2. attention' = [attention EXCEPT ![o] = FALSE] /\ attention' \in [Owners -> BOOLEAN]
    BY Zenon DEF OwnerWindow, RestartOwner, PairingInv, PairTyped
  <1>3. /\ pending' \in [Owners -> [Reqs -> Pairs]]
        /\ \A q \in Owners, r \in Reqs :
             pending'[q][r] = pending[q][r] \/ (q = o /\ pending'[q][r] = NoPair)
        /\ \A r \in Reqs : pending'[o][r] = NoPair \/ pending'[o][r].state # "awaiting"
    <2>1. CASE OwnerWindow(o)
      BY <2>1, Zenon DEF OwnerWindow, Awaiting, Held, PairingInv, PairTyped
    <2>2. CASE RestartOwner(o)
      <3>1. NoPair \in Pairs
        BY Zenon DEF NoPair, Pairs
      <3> QED
        BY <2>2, <3>1, Zenon DEF RestartOwner, PairingInv, PairTyped
    <2> QED
      BY <2>1, <2>2, Zenon
  <1>4. NoPair.nonce = 0 /\ NoPair.state = "none"
    BY Zenon DEF NoPair
  <1>5. Inboxes'
    BY <1>1, <1>3, <1>4 DEF PairingInv, Inboxes, Is
  <1>6. WaitingIsAnnounced'
    <2> SUFFICES ASSUME NEW q \in Owners, NEW r \in Reqs, pending'[q][r] # NoPair,
                        pending'[q][r].state = "awaiting"
                 PROVE  attention'[q]
      BY Zenon DEF WaitingIsAnnounced, Awaiting, Held
    <2>1. q # o /\ r \in Awaiting(q)
      BY <1>3, Zenon DEF Awaiting, Held
    <2> QED
      BY <1>2, <2>1, Zenon DEF PairingInv, PairTyped, WaitingIsAnnounced
  <1>8. \A q \in Owners, r \in Reqs :
          pending'[q][r].state = "completed" => pending[q][r].state = "completed"
    BY <1>3, <1>4, Zenon
  <1>9. /\ keys' \in Nat /\ nonces' \in Seq([owner : Owners, req : Reqs, key : Nat])
        /\ Len(nonces) <= Len(nonces') /\ \A n \in 1..Len(nonces) : nonces'[n] = nonces[n]
    BY <1>1 DEF PairingInv, PairTyped
  <1>7. OwnerMoves
    BY <1>1, <1>2, <1>3, <1>5, <1>6, <1>8, <1>9, Zenon DEF OwnerMoves, WorkerFrame
  <1> QED
    BY <1>7, OwnerKeeps, Zenon

\* A datagram is lost.
LEMMA DropKeeps == ASSUME PairingInv, NEW m \in net, Drop(m) PROVE PairingInv'
  <1>1. LaptopMoves
    BY Zenon DEF Drop, LaptopMoves, OwnerFrame, PairingInv, PairTyped, Chosen, ViewIsCurrent
  <1> QED
    BY <1>1, LaptopKeeps, Zenon

\* Every step of nearby pairing keeps the invariant.
LEMMA PairingStep == PairingInv /\ [PairingNext]_pairingVars => PairingInv'
  <1> SUFFICES ASSUME PairingInv, [PairingNext]_pairingVars PROVE PairingInv'
    BY Zenon
  <1>1. CASE UNCHANGED pairingVars
    <2>1. LaptopMoves
      BY <1>1, Zenon DEF pairingVars, LaptopMoves, PairingInv, PairTyped, Chosen, ViewIsCurrent
    <2> QED
      BY <2>1, LaptopKeeps, Zenon
  <1>2. CASE WorkerStep
    BY <1>2, BeginKeeps, CancelKeeps, OverKeeps, TickKeeps, ChallengeKeeps, ChunkKeeps, RejectedKeeps, Zenon
       DEF WorkerStep, WorkerRecv
  <1>3. CASE \E o \in Owners : OwnerStep(o)
    BY <1>3, HelloKeeps, ApproveKeeps, ForgetKeeps, CompleteKeeps, WindowKeeps, Zenon DEF OwnerStep
  <1>4. CASE \E m \in net : Drop(m)
    BY <1>4, DropKeeps, Zenon
  <1> QED
    BY <1>1, <1>2, <1>3, <1>4, Zenon DEF PairingNext

\* For any owners, approvals, losses, cancellations and restarts: the
\* invitation the laptop stores came over a channel whose code it showed for
\* that very request (worker_pairing_loop, finish_worker_enrollment).
THEOREM StoredWasShown == PairingSpec => []JoinsShownCode
  <1>1. PairingSpec => []PairingInv
    BY PairingStarts, PairingStep, PTL DEF PairingSpec
  <1>2. PairingInv => JoinsShownCode
    BY Zenon DEF PairingInv
  <1> QED
    BY <1>1, <1>2, PTL

\* And what either screen shows is true: completed only of a stored
\* invitation, a code or failure only of the current request, and a request
\* that waits keeps the owner's attention (set_worker_status, owner_window).
THEOREM ScreensAreTrue == PairingSpec => []ScreensTellTruth
  <1>1. PairingSpec => []PairingInv
    BY PairingStarts, PairingStep, PTL DEF PairingSpec
  <1>2. PairingInv => ScreensTellTruth
    BY Zenon DEF PairingInv, ScreensTellTruth
  <1> QED
    BY <1>1, <1>2, PTL

-----------------------------------------------------------------------------
(***************************************************************************)
(* Proof that replica evidence is only ever of a recorded replica of an    *)
(* enrolled node, for any artifacts, nodes, budgets and faults.  A cycle   *)
(* works from a snapshot of the offers; what carries the proof is that     *)
(* revoke_node waits for the gate the cycle holds, so that the snapshot    *)
(* names enrolled nodes as long as the cycle runs.                         *)
(***************************************************************************)
\* The cycle is a record of its eleven fields.
CycleIsRecord ==
  cycle = [d |-> cycle.d, todo |-> cycle.todo, offers |-> cycle.offers, held |-> cycle.held,
           proven |-> cycle.proven, sel |-> cycle.sel, ver |-> cycle.ver,
           probe |-> cycle.probe, tried |-> cycle.tried, repairs |-> cycle.repairs,
           on |-> cycle.on]

\* The snapshot of a running cycle is of enrolled nodes and known digests.
SnapshotEnrolled ==
  cycle.on =>
    /\ cycle.offers \subseteq nodes
    /\ cycle.todo \subseteq Digests
    /\ cycle.d # 0 => cycle.d \in Digests
    /\ cycle.probe \subseteq cycle.offers
    /\ cycle.d = 0 => cycle.probe = {}

Enrolled == nodes \subseteq Nodes /\ live \subseteq nodes

ReplicationInv == CycleIsRecord /\ SnapshotEnrolled /\ Enrolled /\ EvidenceIsRecorded

\* A set of digests has a least one.
LEMMA LeastDigest ==
  ASSUME FiniteFacts, NEW S, S \subseteq Nat, S # {}
  PROVE  \E x \in S : \A y \in S : x <= y
  BY Zenon DEF FiniteFacts, LeastFact

\* The invariant holds at the start.
LEMMA ReplicationStarts == Init => ReplicationInv
  BY ReplicationAssumption
     DEF Init, ReplicationInv, CycleIsRecord, SnapshotEnrolled, Enrolled, EvidenceIsRecorded, NoCycle

\* The end of a cycle.
LEMMA CycleEnds == cycle' = NoCycle => CycleIsRecord' /\ SnapshotEnrolled'
  BY DEF CycleIsRecord, SnapshotEnrolled, NoCycle

\* A step that leaves the cycle and the nodes alone.
LEMMA CycleRests ==
  CycleIsRecord /\ SnapshotEnrolled /\ cycle' = cycle /\ nodes' = nodes
    => CycleIsRecord' /\ SnapshotEnrolled'
  BY Zenon DEF CycleIsRecord, SnapshotEnrolled

\* Recording a receipt of an enrolled node, in memory or in the ledger too.
LEMMA Recording ==
  ASSUME EvidenceIsRecorded, NEW k \in Digests \X nodes, nodes' = nodes,
         Record(k) \/ Remember(k)
  PROVE  EvidenceIsRecorded'
  BY Zenon DEF EvidenceIsRecorded, Record, Remember

\* A step that records nothing.
LEMMA RecordsKept ==
  ASSUME EvidenceIsRecorded, nodes' = nodes, rep' = rep, logRep' = logRep,
         ev' \subseteq ev, logEv' \subseteq logEv
  PROVE  EvidenceIsRecorded'
  BY Zenon DEF EvidenceIsRecorded

\* Every step keeps the invariant.
LEMMA ReplicationInductive ==
  ASSUME FiniteFacts, ReplicationInv, [Next]_vars
  PROVE  ReplicationInv'
  <1>0. CycleIsRecord /\ SnapshotEnrolled /\ Enrolled /\ EvidenceIsRecorded
    BY Zenon DEF ReplicationInv
  <1> USE DEF registry, world
  <1>1. CASE CycleStart
    <2>1. { k[1] : k \in rep } \subseteq Digests /\ live \subseteq nodes
      BY <1>0, Zenon DEF EvidenceIsRecorded, Enrolled
    <2>2. CycleIsRecord' /\ SnapshotEnrolled'
      BY <1>1, <2>1, Zenon DEF CycleStart, CycleIsRecord, SnapshotEnrolled, NoCycle
    <2> QED
      BY <1>0, <1>1, <2>2, Zenon DEF CycleStart, ReplicationInv, Enrolled, EvidenceIsRecorded
  <1>2. CASE NextDigest
    <2>1. CASE cycle.todo = {}
      BY <1>0, <1>2, <2>1, CycleEnds, Zenon DEF NextDigest, ReplicationInv, Enrolled, EvidenceIsRecorded
    <2>2. CASE cycle.todo # {}
      <3> DEFINE d == CHOOSE x \in cycle.todo : \A y \in cycle.todo : x <= y
      <3>1. d \in cycle.todo /\ d \in Nat \ {0}
        <4>1. cycle.todo \subseteq Nat \ {0}
          BY <1>0, <1>2, ReplicationAssumption, Zenon DEF SnapshotEnrolled, NextDigest
        <4>2. \E x \in cycle.todo : \A y \in cycle.todo : x <= y
          BY <2>2, <4>1, LeastDigest, Zenon
        <4> QED
          BY <4>1, <4>2, Zenon
      <3> HIDE DEF d
      <3>9. ReplicationInv'
        <4>1. cycle' = [cycle EXCEPT !.d = d, !.todo = @ \ {d}, !.tried = {},
                          !.ver = Copies(cycle.held \cap cycle.proven, d),
                          !.probe = Copies(cycle.sel, d) \cap cycle.offers]
          BY <1>2, <2>2, Zenon DEF NextDigest, d
        <4>2. CycleIsRecord' /\ cycle'.d = d /\ cycle'.todo = cycle.todo \ {d}
              /\ cycle'.probe = Copies(cycle.sel, d) \cap cycle.offers
              /\ cycle'.offers = cycle.offers /\ cycle'.on = cycle.on
          BY <1>0, <4>1, Zenon DEF CycleIsRecord
        <4>3. nodes' = nodes /\ cycle.on
          BY <1>2, Zenon DEF NextDigest
        <4>4. SnapshotEnrolled'
          BY <1>0, <3>1, <4>2, <4>3, ReplicationAssumption, Zenon DEF SnapshotEnrolled
        <4> QED
          BY <1>0, <1>2, <4>2, <4>4, Zenon DEF NextDigest, ReplicationInv, Enrolled, EvidenceIsRecorded
      <3> QED
        BY <3>9, Zenon
    <2> QED
      BY <2>1, <2>2, Zenon
  <1>3. ASSUME NEW n \in Nodes, ProbeReplica(n) PROVE ReplicationInv'
    <2> DEFINE k == <<cycle.d, n>>
    <2>1. k \in Digests \X nodes
      BY <1>0, <1>3, Zenon DEF ProbeReplica, SnapshotEnrolled
    <2>2. nodes' = nodes /\ live' = live
      BY <1>3, Zenon DEF ProbeReplica
    <2>3. EvidenceIsRecorded'
      <3>1. CASE Record(k) \/ Remember(k)
        BY <1>0, <2>1, <2>2, <3>1, Recording, Zenon
      <3>2. CASE ev' = ev \ {k} /\ logEv' \subseteq logEv /\ UNCHANGED <<rep, logRep>>
        BY <1>0, <2>2, <3>2, RecordsKept, Zenon
      <3> QED
        BY <1>3, <3>1, <3>2, Zenon DEF ProbeReplica, Invalidate
    <2>4. CycleIsRecord' /\ SnapshotEnrolled'
      <3>1. CASE cycle' = NoCycle
        BY <3>1, CycleEnds, Zenon
      <3>2. CASE \/ cycle' = [cycle EXCEPT !.probe = @ \ {n}, !.ver = @ \cup {n}]
                 \/ cycle' = [cycle EXCEPT !.probe = @ \ {n}]
        <4>1. CycleIsRecord' /\ cycle'.probe = cycle.probe \ {n} /\ cycle'.d = cycle.d
              /\ cycle'.todo = cycle.todo /\ cycle'.offers = cycle.offers /\ cycle'.on = cycle.on
          BY <1>0, <3>2, Zenon DEF CycleIsRecord
        <4> QED
          BY <1>0, <2>2, <4>1, Zenon DEF SnapshotEnrolled
      <3> QED
        BY <1>3, <3>1, <3>2, Zenon DEF ProbeReplica
    <2> QED
      BY <1>0, <2>2, <2>3, <2>4, Zenon DEF ReplicationInv, Enrolled
  <1>4. ASSUME NEW n \in Nodes, Repair(n) PROVE ReplicationInv'
    <2> DEFINE k == <<cycle.d, n>>
    <2>1. k \in Digests \X nodes
      BY <1>0, <1>4, Zenon DEF Repair, SnapshotEnrolled, Destinations
    <2>2. nodes' = nodes /\ live' = live
      BY <1>4, Zenon DEF Repair
    <2>3. EvidenceIsRecorded'
      <3>1. CASE Record(k) \/ Remember(k)
        BY <1>0, <2>1, <2>2, <3>1, Recording
      <3>2. CASE UNCHANGED registry
        BY <1>0, <2>2, <3>2, RecordsKept, Zenon
      <3> QED
        BY <1>4, <3>1, <3>2, Zenon DEF Repair
    <2>4. CycleIsRecord' /\ SnapshotEnrolled'
      <3>1. CASE cycle' = NoCycle
        BY <3>1, CycleEnds
      <3>2. CASE \/ cycle' = [cycle EXCEPT !.ver = @ \cup {n}, !.repairs = @ + 1,
                                          !.tried = @ \cup {n}]
                 \/ cycle' = [cycle EXCEPT !.tried = @ \cup {n}]
        <4>1. CycleIsRecord' /\ cycle'.probe = cycle.probe /\ cycle'.d = cycle.d
              /\ cycle'.todo = cycle.todo /\ cycle'.offers = cycle.offers /\ cycle'.on = cycle.on
          BY <1>0, <3>2, Zenon DEF CycleIsRecord
        <4> QED
          BY <1>0, <2>2, <4>1, Zenon DEF SnapshotEnrolled
      <3> QED
        BY <1>4, <3>1, <3>2, Zenon DEF Repair
    <2> QED
      BY <1>0, <2>2, <2>3, <2>4 DEF ReplicationInv, Enrolled
  <1>5. CASE DigestDone
    <2>1. nodes' = nodes /\ live' = live /\ UNCHANGED registry /\ cycle.probe = {}
      BY <1>5, Zenon DEF DigestDone
    <2>2. CycleIsRecord' /\ SnapshotEnrolled'
      <3>1. CASE cycle' = NoCycle
        BY <3>1, CycleEnds, Zenon
      <3>2. CASE cycle' = [cycle EXCEPT !.d = 0]
        <4>1. CycleIsRecord' /\ cycle'.probe = cycle.probe /\ cycle'.d = 0
              /\ cycle'.todo = cycle.todo /\ cycle'.offers = cycle.offers /\ cycle'.on = cycle.on
          BY <1>0, <3>2, Zenon DEF CycleIsRecord
        <4> QED
          BY <1>0, <2>1, <4>1, Zenon DEF SnapshotEnrolled
      <3> QED
        BY <1>5, <3>1, <3>2, Zenon DEF DigestDone
    <2> QED
      BY <1>0, <2>1, <2>2, RecordsKept, Zenon DEF ReplicationInv, Enrolled
  <1>6. ASSUME NEW d \in Digests, NEW n \in Nodes, Copy(d, n) PROVE ReplicationInv'
    <2>1. <<d, n>> \in Digests \X nodes /\ nodes' = nodes /\ live' = live /\ cycle' = cycle
      BY <1>0, <1>6, Zenon DEF Copy, RemoteOffer, Enrolled
    <2>2. EvidenceIsRecorded'
      <3>1. CASE Record(<<d, n>>) \/ Remember(<<d, n>>)
        BY <1>0, <2>1, <3>1, Recording, Zenon
      <3>2. CASE UNCHANGED registry
        BY <1>0, <2>1, <3>2, RecordsKept, Zenon
      <3> QED
        BY <1>6, <3>1, <3>2, Zenon DEF Copy
    <2> QED
      BY <1>0, <2>1, <2>2, CycleRests, Zenon DEF ReplicationInv, Enrolled
  <1>7. ASSUME NEW d \in Digests, NEW n \in Nodes, RetrieveArtifact(d, n) PROVE ReplicationInv'
    BY <1>0, <1>7, CycleRests, Zenon DEF RetrieveArtifact, ProvesPossession, ReplicationInv, Enrolled,
                                  EvidenceIsRecorded
  <1>8. ASSUME NEW n \in Nodes, RevokeNode(n) PROVE ReplicationInv'
    <2>1. ~ cycle.on /\ cycle' = cycle
      BY <1>8, Zenon DEF RevokeNode, Gate
    <2>2. CycleIsRecord' /\ SnapshotEnrolled'
      BY <1>0, <2>1, Zenon DEF CycleIsRecord, SnapshotEnrolled
    <2>3. EvidenceIsRecorded'
      BY <1>0, <1>8, Zenon DEF RevokeNode, EvidenceIsRecorded, Without
    <2> QED
      BY <1>0, <1>8, <2>2, <2>3, Zenon DEF RevokeNode, ReplicationInv, Enrolled
  <1>9. CASE Restart
    BY <1>0, <1>9, CycleEnds, Zenon DEF Restart, ReplicationInv, Enrolled, EvidenceIsRecorded
  <1>10. ASSUME NEW n \in Nodes, RegisterOffer(n) \/ OfferExpires(n) \/ NodeGoes(n)
         PROVE  ReplicationInv'
    <2>1. UNCHANGED <<rep, ev, logRep, logEv, nodes, cycle>> /\ live' \subseteq nodes
      BY <1>0, <1>10, Zenon DEF RegisterOffer, OfferExpires, NodeGoes, Enrolled
    <2> QED
      BY <1>0, <2>1, CycleRests, RecordsKept, Zenon DEF ReplicationInv, Enrolled
  <1>11. ASSUME NEW d \in Digests, PutArtifact(d) \/ SourceDecays(d) PROVE ReplicationInv'
    <2>1. UNCHANGED <<rep, ev, logRep, logEv, nodes, cycle, live>>
      BY <1>11, Zenon DEF PutArtifact, SourceDecays
    <2> QED
      BY <1>0, <2>1, CycleRests, RecordsKept, Zenon DEF ReplicationInv, Enrolled
  <1>12. ASSUME NEW k \in Keys, CopyDecays(k) \/ ReceiptExpires(k) PROVE ReplicationInv'
    <2>1. UNCHANGED <<rep, logRep, nodes, cycle, live>> /\ ev' \subseteq ev /\ logEv' \subseteq logEv
      BY <1>12, Zenon DEF CopyDecays, ReceiptExpires
    <2> QED
      BY <1>0, <2>1, CycleRests, RecordsKept, Zenon DEF ReplicationInv, Enrolled
  <1>13. CASE LocalStop \/ LocalResume \/ UNCHANGED vars
    <2>1. UNCHANGED <<rep, ev, logRep, logEv, nodes, cycle, live>>
      BY <1>13, Zenon DEF LocalStop, LocalResume, vars
    <2> QED
      BY <1>0, <2>1, CycleRests, RecordsKept, Zenon DEF ReplicationInv, Enrolled
  <1> QED
    BY <1>1, <1>2, <1>3, <1>4, <1>5, <1>6, <1>7, <1>8, <1>9, <1>10, <1>11, <1>12, <1>13, Zenon
       DEF Next, CycleStep, ReplicateArtifact, StageJobInputs

-----------------------------------------------------------------------------
(***************************************************************************)
(* What a cycle probes is stale: its selection is drawn from the records   *)
(* that had no evidence when it began.  The list is finite and sorted, so  *)
(* its k-th entry exists because ranks in a total order are distinct; the  *)
(* selection is a recursion over the list, followed to its least           *)
(* counterexample.                                                         *)
(***************************************************************************)
\* The order of the list is total and strict.
LEMMA BeforeIsOrder ==
  ASSUME NEW a \in Keys, NEW b \in Keys, NEW c \in Keys
  PROVE  /\ ~ Before(a, a)
         /\ Before(a, b) /\ Before(b, c) => Before(a, c)
         /\ a # b => Before(a, b) \/ Before(b, a)
  <1>1. /\ a = <<a[1], a[2]>> /\ b = <<b[1], b[2]>>
        /\ a[1] \in Nat /\ a[2] \in Nat /\ b[1] \in Nat /\ b[2] \in Nat
        /\ c[1] \in Nat /\ c[2] \in Nat
    <2>1. \A x \in Keys : x = <<x[1], x[2]>> /\ x[1] \in Digests /\ x[2] \in Nodes
      BY DEF Keys
    <2> QED
      BY <2>1, ReplicationAssumption, Zenon
  <1> QED
    BY <1>1 DEF Before

\* The k-th of a finite set of replicas is one of them.
LEMMA SortedTakes ==
  ASSUME FiniteFacts, NEW S, S \subseteq Keys, IsFiniteSet(S)
  PROVE  /\ Len(Sorted(S)) \in Nat
         /\ \A k \in 1..Len(Sorted(S)) : Sorted(S)[k] \in S
  <1> DEFINE c == Cardinality(S)
             below(x) == {y \in S : Before(y, x)}
             rank == [x \in S |-> Cardinality(below(x))]
             R == {rank[x] : x \in S}
             T == 0..(c - 1)
  <1>1. c \in Nat
    BY Zenon DEF FiniteFacts, CountFact
  <1>2. \A x \in S : IsFiniteSet(below(x)) /\ Cardinality(below(x)) \in Nat
    BY Zenon DEF FiniteFacts, SubsetFact, CountFact
  <1>3. ASSUME NEW x \in S
        PROVE  rank[x] \in T
    <2>1. below(x) \subseteq S /\ below(x) # S
      BY BeforeIsOrder, Zenon
    <2>2. Cardinality(below(x)) <= c /\ Cardinality(below(x)) # c
      BY <2>1, Zenon DEF FiniteFacts, SubsetFact
    <2> HIDE DEF below, c
    <2> QED
      BY <1>1, <1>2, <2>2
  <1>4. ASSUME NEW x \in S, NEW y \in S, x # y
        PROVE  rank[x] # rank[y]
    <2>1. ASSUME NEW a \in S, NEW b \in S, Before(a, b)
          PROVE  Cardinality(below(a)) # Cardinality(below(b))
      <3>1. below(a) \subseteq below(b)
        BY <2>1, BeforeIsOrder, Zenon
      <3>2. a \in below(b) /\ a \notin below(a)
        BY <2>1, BeforeIsOrder, Zenon
      <3>3. below(a) # below(b)
        BY <3>2, Zenon
      <3> HIDE DEF below
      <3> QED
        BY <1>2, <3>1, <3>3, Zenon DEF FiniteFacts, SubsetFact
    <2>2. Before(x, y) \/ Before(y, x)
      BY <1>4, BeforeIsOrder, Zenon
    <2> HIDE DEF below
    <2> QED
      BY <2>1, <2>2, Zenon
  <1>5. R = T
    <2>1. rank \in [S -> T] /\ \A x, y \in S : rank[x] = rank[y] => x = y
      BY <1>3, <1>4, Zenon
    <2>2. IsFiniteSet(T) /\ Cardinality(T) = c
      <3>1. 0 \in Int /\ c - 1 \in Int
        BY <1>1
      <3>2. IsFiniteSet(T) /\ Cardinality(T) = IF 0 > c - 1 THEN 0 ELSE (c - 1) - 0 + 1
        BY <3>1, Zenon DEF FiniteFacts, IntervalFact
      <3> HIDE DEF c
      <3> QED
        BY <1>1, <3>2
    <2>3. \A t \in T : \E x \in S : rank[x] = t
      <3> HIDE DEF rank, T
      <3> QED
        BY <2>1, <2>2 DEF FiniteFacts, IntoFact
    <2> QED
      BY <1>3, <2>3, Zenon
  <1>6. Len(Sorted(S)) = c
    <2>1. Sorted(S) = [k \in 1..c |-> CHOOSE x \in S : Cardinality(below(x)) = k - 1]
      BY Zenon DEF Sorted
    <2> HIDE DEF c, below
    <2> QED
      BY <1>1, <2>1
  <1>7. ASSUME NEW k \in 1..c
        PROVE  Sorted(S)[k] \in S
    <2>1. k - 1 \in T
      BY <1>1, <1>7
    <2>2. \E x \in S : Cardinality(below(x)) = k - 1
      BY <1>5, <2>1, Zenon
    <2>3. Sorted(S)[k] = CHOOSE x \in S : Cardinality(below(x)) = k - 1
      BY Zenon DEF Sorted
    <2> HIDE DEF below
    <2> QED
      BY <2>2, <2>3, Zenon
  <1> QED
    BY <1>1, <1>6, <1>7, Zenon

\* select_replica_probes picks from the list it is given.
LEMMA SelectsFromList ==
  ASSUME FiniteFacts, NEW S, NEW list, Len(list) \in Nat, \A k \in 1..Len(list) : list[k] \in S,
         NEW from \in Nat
  PROVE  SelectReplicaProbes(list, from) \subseteq S
  <1> DEFINE n == Len(list)
             Item(k) == list[((from + k - 1) % n) + 1]
             More(p, k) == LET b == p.bytes + Size[Item(k)[1]]
                           IN  IF Cardinality(p.set) >= MaxProbes \/ (b > ProbeBytes /\ p.set # {})
                               THEN p ELSE [set |-> p.set \cup {Item(k)}, bytes |-> b]
             Nothing == [set |-> {}, bytes |-> 0]
             Fits(f, m) == f = [k \in 0..m |-> IF k = 0 THEN Nothing ELSE More(f[k - 1], k)]
             pick == CHOOSE f : Fits(f, n)
  <1>0. SelectReplicaProbes(list, from) = pick[n].set
    BY Zenon DEF SelectReplicaProbes
  <1>1. ASSUME NEW k \in 1..n, NEW p, p.set \subseteq S
        PROVE  More(p, k).set \subseteq S
    <2>1. Item(k) \in S
      <3>1. n \in Nat /\ n > 0 /\ from + k - 1 \in Nat
        OBVIOUS
      <3>2. (from + k - 1) % n \in 0..(n - 1)
        BY <3>1
      <3>3. ((from + k - 1) % n) + 1 \in 1..n
        BY <3>1, <3>2
      <3> QED
        BY <3>3, Zenon
    <2> HIDE DEF Item, n
    <2> QED
      BY <1>1, <2>1, Zenon
  <1> HIDE DEF More, Nothing
  <1>2. \A m \in Nat : \E f : Fits(f, m)
    <2> DEFINE bad == {m \in Nat : ~ \E f : Fits(f, m)}
    <2>1. SUFFICES bad = {}
      BY Zenon
    <2>2. SUFFICES ASSUME bad # {} PROVE FALSE
      OBVIOUS
    <2>3. PICK m \in bad : \A x \in bad : m <= x
      BY <2>2, LeastDigest, Zenon
    <2>4. m # 0
      <3>1. Fits([k \in 0..0 |-> Nothing], 0)
        OBVIOUS
      <3> QED
        BY <2>3, <3>1, Zenon
    <2>5. m - 1 \in Nat /\ m - 1 \notin bad
      <3>1. m \in Nat
        OBVIOUS
      <3> HIDE DEF bad
      <3> QED
        BY <2>3, <2>4, <3>1
    <2>6. PICK f : Fits(f, m - 1)
      BY <2>5, Zenon
    <2> DEFINE g == [k \in 0..m |-> IF k = m THEN More(f[m - 1], m) ELSE f[k]]
    <2>7. Fits(g, m)
      <3>1. \A k \in 0..m : g[k] = IF k = 0 THEN Nothing ELSE More(g[k - 1], k)
        BY <2>4, <2>5, <2>6
      <3> QED
        BY <3>1, Zenon
    <2> QED
      BY <2>3, <2>7, Zenon
  <1>3. Fits(pick, n)
    BY <1>2, Zenon
  <1> HIDE DEF pick
  <1>4. \A k \in 0..n : pick[k].set \subseteq S
    <2> DEFINE bad == {k \in 0..n : ~ (pick[k].set \subseteq S)}
    <2>1. SUFFICES ASSUME bad # {} PROVE FALSE
      BY Zenon
    <2>2. PICK m \in bad : \A x \in bad : m <= x
      <3>1. bad \subseteq Nat
        OBVIOUS
      <3> HIDE DEF bad
      <3> QED
        BY <2>1, <3>1, LeastDigest, Zenon
    <2>3. m # 0
      BY <1>3, <2>2 DEF Nothing
    <2>4. m - 1 \in 0..n /\ m - 1 \notin bad /\ m \in 1..n
      BY <2>2, <2>3
    <2>5. pick[m] = More(pick[m - 1], m)
      BY <1>3, <2>3, <2>4, Zenon
    <2> QED
      BY <1>1, <2>2, <2>4, <2>5, Zenon
  <1> QED
    BY <1>0, <1>4

\* The records of a controller are finitely many.
LEMMA KeysFinite ==
  ASSUME FiniteFacts PROVE IsFiniteSet(Keys)
  BY ReplicationAssumption, Zenon DEF FiniteFacts, ProductFact, Keys

\* The probes of a cycle that begins now are of records without evidence.
LEMMA ProbesAreStale ==
  ASSUME FiniteFacts, rep \subseteq Keys, cursor \in Nat
  PROVE  SelectReplicaProbes(Stale, cursor) \subseteq rep \ ev
  <1>1. rep \ ev \subseteq Keys /\ IsFiniteSet(rep \ ev)
    BY KeysFinite, Zenon DEF FiniteFacts, SubsetFact
  <1>2. Len(Stale) \in Nat /\ \A k \in 1..Len(Stale) : Stale[k] \in rep \ ev
    BY <1>1, SortedTakes, Zenon DEF Stale
  <1> QED
    BY <1>2, SelectsFromList, Zenon

-----------------------------------------------------------------------------
(***************************************************************************)
(* A restart revives nothing, and the cycle repairs only what needs it.    *)
(* Both rest on the snapshots a cycle works from: as long as it holds the  *)
(* gate, they stay true of the digests it has not reached, and of the one  *)
(* it is at but for what it has proven or copied itself.                   *)
(***************************************************************************)
SnapshotHolds ==
  cycle.on =>
    /\ cycle.sel \subseteq cycle.held \ cycle.proven
    /\ cycle.held \subseteq rep
    /\ \A k \in ev : k[1] \in cycle.todo => k \in cycle.proven
    /\ \A k \in rep : k[1] \in cycle.todo => k \in cycle.held
    /\ cycle.d \notin cycle.todo
    /\ cycle.ver \subseteq Nodes
    /\ \A n \in cycle.probe : <<cycle.d, n>> \in cycle.sel \ ev
    /\ cycle.d # 0 => /\ Copies(ev, cycle.d) \subseteq cycle.ver
                      /\ Copies(rep, cycle.d) \subseteq Known \cup cycle.tried

LoopInv == cursor \in Nat /\ RestartRevivesNothing /\ SnapshotHolds

\* A step outside the cycle takes nothing from the registry while one runs.
LEMMA SnapshotRests ==
  ASSUME SnapshotHolds, cycle' = cycle,
         cycle.on => rep' = rep /\ ev' \subseteq ev
  PROVE  SnapshotHolds'
  BY Zenon DEF SnapshotHolds, Copies, Known

\* The snapshots are good when the cycle takes them.
LEMMA StartHolds ==
  ASSUME FiniteFacts, ReplicationInv, LoopInv, CycleStart
  PROVE  LoopInv'
  <1>1. rep \subseteq Keys /\ { k[1] : k \in rep } \subseteq Digests
    BY Zenon DEF ReplicationInv, EvidenceIsRecorded, Enrolled, Keys
  <1>2. SelectReplicaProbes(Stale, cursor) \subseteq rep \ ev
    BY <1>1, ProbesAreStale, Zenon DEF LoopInv
  <1>3. UNCHANGED <<rep, ev, logRep, logEv>>
    BY Zenon DEF CycleStart, registry
  <1>4. /\ cycle'.sel = SelectReplicaProbes(Stale, cursor) /\ cycle'.held = rep
        /\ cycle'.proven = ev /\ cycle'.todo = { k[1] : k \in rep } /\ cycle'.d = 0
        /\ cycle'.ver = {} /\ cycle'.probe = {}
    BY Zenon DEF CycleStart, NoCycle
  <1>5. 0 \notin { k[1] : k \in rep }
    BY <1>1, ReplicationAssumption, Zenon
  <1>6. SnapshotHolds'
    BY <1>2, <1>3, <1>4, <1>5, Zenon DEF SnapshotHolds
  <1>7. cursor' \in Nat
    <2>1. cursor' = (cursor + MaxProbes) % Period
      BY Zenon DEF CycleStart
    <2> QED
      BY <2>1, ReplicationAssumption DEF LoopInv
  <1> QED
    BY <1>3, <1>6, <1>7, Zenon DEF LoopInv, RestartRevivesNothing

\* Going on to the next digest.
LEMMA NextHolds ==
  ASSUME FiniteFacts, ReplicationInv, LoopInv, NextDigest
  PROVE  LoopInv'
  <1>1. UNCHANGED <<rep, ev, logRep, logEv, cursor>> /\ cycle.on /\ cycle.d = 0
    BY Zenon DEF NextDigest, registry
  <1>2. CASE cycle.todo = {}
    <2>1. ~ cycle'.on
      BY <1>2 DEF NextDigest, NoCycle
    <2> QED
      BY <1>1, <2>1, Zenon DEF LoopInv, RestartRevivesNothing, SnapshotHolds
  <1>3. CASE cycle.todo # {}
    <2> DEFINE d == CHOOSE x \in cycle.todo : \A y \in cycle.todo : x <= y
    <2>1. d \in cycle.todo
      <3>1. cycle.todo \subseteq Nat
        BY <1>1, ReplicationAssumption, Zenon DEF ReplicationInv, SnapshotEnrolled
      <3>2. \E x \in cycle.todo : \A y \in cycle.todo : x <= y
        BY <1>3, <3>1, LeastDigest, Zenon
      <3> QED
        BY <3>2, Zenon
    <2>2. cycle' = [cycle EXCEPT !.d = d, !.todo = @ \ {d}, !.tried = {},
                      !.ver = Copies(cycle.held \cap cycle.proven, d),
                      !.probe = Copies(cycle.sel, d) \cap cycle.offers]
      BY <1>3, Zenon DEF NextDigest
    <2> HIDE DEF d
    <2>3. /\ cycle'.d = d /\ cycle'.todo = cycle.todo \ {d} /\ cycle'.tried = {}
          /\ cycle'.ver = Copies(cycle.held \cap cycle.proven, d)
          /\ cycle'.probe = Copies(cycle.sel, d) \cap cycle.offers
          /\ cycle'.held = cycle.held /\ cycle'.proven = cycle.proven
          /\ cycle'.sel = cycle.sel /\ cycle'.on = cycle.on
      BY <2>2, Zenon DEF ReplicationInv, CycleIsRecord
    <2>4. ev \subseteq rep
      BY Zenon DEF ReplicationInv, EvidenceIsRecorded
    <2>5. Copies(ev, d) \subseteq cycle'.ver /\ Copies(rep, d) \subseteq Copies(cycle.held, d)
      BY <1>1, <2>1, <2>3, <2>4, Zenon DEF LoopInv, SnapshotHolds, Copies
    <2>6. \A n \in cycle'.probe : <<d, n>> \in cycle.sel \ ev
      BY <1>1, <2>1, <2>3, Zenon DEF LoopInv, SnapshotHolds, Copies
    <2>7. SnapshotHolds'
      BY <1>1, <2>3, <2>5, <2>6, Zenon DEF LoopInv, SnapshotHolds, Known, Copies
    <2> QED
      BY <1>1, <2>7, Zenon DEF LoopInv, RestartRevivesNothing
  <1> QED
    BY <1>2, <1>3, Zenon

\* A probe: a failure whose event is lost had no evidence in the ledger to lose.
LEMMA ProbeHolds ==
  ASSUME ReplicationInv, LoopInv, NEW n \in Nodes, ProbeReplica(n)
  PROVE  LoopInv' /\ Needed
  <1> DEFINE k == <<cycle.d, n>>
  <1>1. cycle.on /\ n \in cycle.probe /\ cycle.d # 0 /\ cursor' = cursor
    BY DEF ProbeReplica, ReplicationInv, SnapshotEnrolled
  <1>2. k \in rep /\ k \in cycle.held /\ k \notin ev /\ k \notin logEv /\ cycle.d \notin cycle.todo
    BY <1>1, Zenon DEF LoopInv, SnapshotHolds, RestartRevivesNothing
  <1>3. /\ rep' = rep /\ logRep' \in {logRep, logRep \cup {k}}
        /\ \/ ev' = ev \cup {k} /\ logEv' \in {logEv, logEv \cup {k}}
           \/ ev' = ev \ {k} /\ logEv' \in {logEv, logEv \ {k}}
    BY <1>2, Zenon DEF ProbeReplica, Record, Remember, Invalidate
  <1>4. RestartRevivesNothing'
    BY <1>2, <1>3, Zenon DEF LoopInv, RestartRevivesNothing
  <1>5. SnapshotHolds'
    <2>1. CASE cycle' = NoCycle
      BY <2>1, Zenon DEF SnapshotHolds, NoCycle
    <2>2. CASE cycle' = [cycle EXCEPT !.probe = @ \ {n}, !.ver = @ \cup {n}]
      <3>1. /\ cycle'.d = cycle.d /\ cycle'.todo = cycle.todo /\ cycle'.tried = cycle.tried
            /\ cycle'.ver = cycle.ver \cup {n} /\ cycle'.probe = cycle.probe \ {n}
            /\ cycle'.held = cycle.held /\ cycle'.proven = cycle.proven
            /\ cycle'.sel = cycle.sel /\ cycle'.on = cycle.on
        BY <2>2, Zenon DEF ReplicationInv, CycleIsRecord
      <3>2. ev' \subseteq ev \cup {k}
        BY <1>3, Zenon
      <3>3. Copies(ev', cycle.d) \subseteq cycle.ver \cup {n}
        BY <1>1, <3>2, Zenon DEF LoopInv, SnapshotHolds, Copies
      <3>4. \A x \in ev' : x[1] \in cycle.todo => x \in cycle.proven
        BY <1>1, <1>2, <3>2 DEF LoopInv, SnapshotHolds
      <3> QED
        BY <1>1, <1>2, <1>3, <3>1, <3>2, <3>3, <3>4, Zenon DEF LoopInv, SnapshotHolds, Known, Copies
    <2>3. CASE cycle' = [cycle EXCEPT !.probe = @ \ {n}] /\ ev' = ev \ {k}
      <3>1. /\ cycle'.d = cycle.d /\ cycle'.todo = cycle.todo /\ cycle'.tried = cycle.tried
            /\ cycle'.ver = cycle.ver /\ cycle'.probe = cycle.probe \ {n}
            /\ cycle'.held = cycle.held /\ cycle'.proven = cycle.proven
            /\ cycle'.sel = cycle.sel /\ cycle'.on = cycle.on
        BY <2>3, Zenon DEF ReplicationInv, CycleIsRecord
      <3> QED
        BY <1>1, <1>3, <2>3, <3>1 DEF LoopInv, SnapshotHolds, Known, Copies
    <2> QED
      BY <2>1, <2>2, <2>3, Zenon DEF ProbeReplica, Invalidate
  <1> QED
    BY <1>1, <1>3, <1>4, <1>5, Zenon DEF LoopInv, Needed

\* A repair is of an artifact with fewer than two receipts, all of whose other
\* holders have been verified or tried by this cycle.
LEMMA RepairHolds ==
  ASSUME FiniteFacts, ReplicationInv, LoopInv, NEW n \in Nodes, Repair(n)
  PROVE  LoopInv' /\ Needed
  <1> DEFINE k == <<cycle.d, n>>
  <1>1. /\ cycle.on /\ cycle.d # 0 /\ cycle.probe = {} /\ cursor' = cursor
        /\ VerificationComplete /\ Cardinality(cycle.ver) < 2 /\ cycle.d \notin cycle.todo
    BY Zenon DEF Repair, MayRepair, LoopInv, SnapshotHolds
  <1>2. /\ rep' \in {rep, rep \cup {k}} /\ ev' \in {ev, ev \cup {k}}
        /\ logRep' \in {logRep, logRep \cup {k}} /\ logEv' \in {logEv, logEv \cup {k}}
        /\ (logRep' # logRep => rep' = rep \cup {k}) /\ (logEv' # logEv => ev' = ev \cup {k})
    BY DEF Repair, Record, Remember, registry
  <1>3. RestartRevivesNothing'
    BY <1>2, Zenon DEF LoopInv, RestartRevivesNothing
  <1>4. Needed
    <2>1. SUFFICES /\ Cardinality(Copies(ev, cycle.d)) < 2
                   /\ \A m \in Copies(rep, cycle.d) \ cycle.tried :
                        <<cycle.d, m>> \in cycle.proven \cup cycle.sel
      BY <1>2 DEF Needed
    <2>2. Copies(ev, cycle.d) \subseteq cycle.ver /\ cycle.ver \subseteq Nodes
      BY <1>1, Zenon DEF LoopInv, SnapshotHolds
    <2>3. IsFiniteSet(cycle.ver)
      BY <2>2, ReplicationAssumption, Zenon DEF FiniteFacts, SubsetFact
    <2>4. /\ Cardinality(Copies(ev, cycle.d)) <= Cardinality(cycle.ver)
          /\ Cardinality(Copies(ev, cycle.d)) \in Nat /\ Cardinality(cycle.ver) \in Nat
      BY <2>2, <2>3, Zenon DEF FiniteFacts, SubsetFact, CountFact
    <2>5. Cardinality(Copies(ev, cycle.d)) < 2
      BY <1>1, <2>4
    <2>6. Copies(rep, cycle.d) \subseteq Known \cup cycle.tried
      BY <1>1, Zenon DEF LoopInv, SnapshotHolds
    <2> QED
      BY <1>1, <2>5, <2>6, Zenon DEF VerificationComplete
  <1>5. SnapshotHolds'
    <2>1. CASE cycle' = NoCycle
      BY <2>1, Zenon DEF SnapshotHolds, NoCycle
    <2>2. CASE \/ cycle' = [cycle EXCEPT !.ver = @ \cup {n}, !.repairs = @ + 1,
                                        !.tried = @ \cup {n}]
               \/ cycle' = [cycle EXCEPT !.tried = @ \cup {n}] /\ UNCHANGED <<rep, ev>>
      <3>1. /\ cycle'.d = cycle.d /\ cycle'.todo = cycle.todo
            /\ cycle'.tried = cycle.tried \cup {n} /\ cycle'.probe = {}
            /\ cycle'.held = cycle.held /\ cycle'.proven = cycle.proven
            /\ cycle'.sel = cycle.sel /\ cycle'.on = cycle.on
            /\ \/ cycle'.ver = cycle.ver \cup {n}
               \/ cycle'.ver = cycle.ver /\ ev' = ev
        BY <1>1, <2>2, Zenon DEF ReplicationInv, CycleIsRecord
      <3>2. /\ Copies(ev', cycle.d) \subseteq cycle'.ver
            /\ Copies(rep', cycle.d) \subseteq Known \cup cycle'.tried
        BY <1>1, <1>2, <3>1, Zenon DEF LoopInv, SnapshotHolds, Copies
      <3>3. /\ \A x \in ev' : x[1] \in cycle.todo => x \in cycle.proven
            /\ \A x \in rep' : x[1] \in cycle.todo => x \in cycle.held
        <4>1. /\ \A x \in ev : x[1] \in cycle.todo => x \in cycle.proven
              /\ \A x \in rep : x[1] \in cycle.todo => x \in cycle.held
              /\ cycle.d \notin cycle.todo
          BY <1>1, Zenon DEF LoopInv, SnapshotHolds
        <4>2. k[1] = cycle.d
          OBVIOUS
        <4>3. /\ \A x \in ev' : x \in ev \/ x = k
              /\ \A x \in rep' : x \in rep \/ x = k
          BY <1>2, Zenon
        <4> HIDE DEF k
        <4> QED
          BY <4>1, <4>2, <4>3, Zenon
      <3>4. cycle.held \subseteq rep' /\ cycle'.ver \subseteq Nodes
        BY <1>1, <1>2, <3>1, Zenon DEF LoopInv, SnapshotHolds
      <3> QED
        BY <1>1, <3>1, <3>2, <3>3, <3>4, Zenon DEF LoopInv, SnapshotHolds, Known, Copies
    <2> QED
      BY <2>1, <2>2, Zenon DEF Repair, registry
  <1> QED
    BY <1>1, <1>3, <1>4, <1>5, Zenon DEF LoopInv

\* The cycle leaves a digest.
LEMMA DoneHolds ==
  ASSUME ReplicationInv, LoopInv, DigestDone
  PROVE  LoopInv'
  <1>1. UNCHANGED <<rep, ev, logRep, logEv, cursor>> /\ cycle.on /\ cycle.probe = {}
    BY DEF DigestDone, registry
  <1>2. SnapshotHolds'
    <2>1. CASE cycle' = NoCycle
      BY <2>1 DEF SnapshotHolds, NoCycle
    <2>2. CASE cycle' = [cycle EXCEPT !.d = 0]
      <3>1. /\ cycle'.d = 0 /\ cycle'.todo = cycle.todo /\ cycle'.probe = {}
            /\ cycle'.ver = cycle.ver /\ cycle'.held = cycle.held
            /\ cycle'.proven = cycle.proven /\ cycle'.sel = cycle.sel
        BY <1>1, <2>2, Zenon DEF ReplicationInv, CycleIsRecord
      <3>2. 0 \notin cycle.todo
        BY <1>1, ReplicationAssumption, Zenon DEF ReplicationInv, SnapshotEnrolled
      <3> QED
        BY <1>1, <3>1, <3>2, Zenon DEF LoopInv, SnapshotHolds
    <2> QED
      BY <2>1, <2>2, Zenon DEF DigestDone
  <1> QED
    BY <1>1, <1>2, Zenon DEF LoopInv, RestartRevivesNothing

\* Every step keeps the invariant and repairs only what needs it.
LEMMA LoopStep ==
  ASSUME FiniteFacts, ReplicationInv, LoopInv, Next
  PROVE  LoopInv' /\ Needed
  <1>0. cursor \in Nat /\ RestartRevivesNothing /\ SnapshotHolds
    BY DEF LoopInv
  <1> USE DEF registry, world
  <1>1. CASE CycleStart \/ NextDigest \/ DigestDone
    <2>1. rep' = rep
      BY <1>1 DEF CycleStart, NextDigest, DigestDone
    <2> QED
      BY <1>1, <2>1, StartHolds, NextHolds, DoneHolds, Zenon DEF Needed
  <1>2. ASSUME NEW n \in Nodes, ProbeReplica(n) \/ Repair(n)
        PROVE  LoopInv' /\ Needed
    BY <1>2, ProbeHolds, RepairHolds, Zenon
  <1>3. ASSUME NEW d \in Digests, NEW n \in Nodes, Copy(d, n) \/ RetrieveArtifact(d, n)
        PROVE  LoopInv' /\ Needed
    <2>1. ~ cycle.on /\ cycle' = cycle /\ cursor' = cursor
      BY <1>3, Zenon DEF Copy, RetrieveArtifact, Gate
    <2>2. RestartRevivesNothing'
      BY <1>0, <1>3, Zenon DEF Copy, RetrieveArtifact, ProvesPossession, Record, Remember,
         RestartRevivesNothing
    <2> QED
      BY <1>0, <2>1, <2>2, SnapshotRests, Zenon DEF LoopInv, Needed
  <1>4. ASSUME NEW n \in Nodes, RevokeNode(n)
        PROVE  LoopInv' /\ Needed
    <2>1. ~ cycle.on /\ cycle' = cycle /\ cursor' = cursor
      BY <1>4, Zenon DEF RevokeNode, Gate
    <2>2. RestartRevivesNothing'
      BY <1>0, <1>4, Zenon DEF RevokeNode, Without, RestartRevivesNothing
    <2> QED
      BY <1>0, <2>1, <2>2, SnapshotRests, Zenon DEF LoopInv, Needed
  <1>5. CASE Restart
    <2>1. rep' \subseteq rep
      BY <1>0, <1>5, Zenon DEF Restart, RestartRevivesNothing
    <2> QED
      BY <1>5, <2>1, Zenon DEF Restart, LoopInv, RestartRevivesNothing, SnapshotHolds, NoCycle, Needed
  <1>6. ASSUME NEW n \in Nodes, RegisterOffer(n) \/ OfferExpires(n) \/ NodeGoes(n)
        PROVE  LoopInv' /\ Needed
    BY <1>0, <1>6, SnapshotRests, Zenon
       DEF RegisterOffer, OfferExpires, NodeGoes, LoopInv, RestartRevivesNothing, Needed
  <1>7. ASSUME NEW d \in Digests, PutArtifact(d) \/ SourceDecays(d)
        PROVE  LoopInv' /\ Needed
    BY <1>0, <1>7, SnapshotRests, Zenon
       DEF PutArtifact, SourceDecays, LoopInv, RestartRevivesNothing, Needed
  <1>8. ASSUME NEW k \in Keys, CopyDecays(k) \/ ReceiptExpires(k)
        PROVE  LoopInv' /\ Needed
    BY <1>0, <1>8, SnapshotRests, Zenon
       DEF CopyDecays, ReceiptExpires, LoopInv, RestartRevivesNothing, Needed
  <1>9. CASE LocalStop \/ LocalResume
    BY <1>0, <1>9, SnapshotRests, Zenon
       DEF LocalStop, LocalResume, LoopInv, RestartRevivesNothing, Needed
  <1> QED
    BY <1>1, <1>2, <1>3, <1>4, <1>5, <1>6, <1>7, <1>8, <1>9, Zenon
       DEF Next, CycleStep, ReplicateArtifact, StageJobInputs

\* Nothing is recorded and no cycle runs at first.
LEMMA LoopStarts == Init => LoopInv
  <1> SUFFICES ASSUME Init PROVE LoopInv
    OBVIOUS
  <1>1. RestartRevivesNothing
    BY Zenon DEF Init, RestartRevivesNothing
  <1>2. SnapshotHolds
    BY DEF Init, SnapshotHolds, NoCycle
  <1> QED
    BY <1>1, <1>2, Zenon DEF LoopInv, Init

-----------------------------------------------------------------------------
(***************************************************************************)
(* The facts about finite sets, from the library.                          *)
(***************************************************************************)
Library == INSTANCE FiniteSetTheorems

\* The library's finite sets are those of the modules above.
LEMMA SameFinite == \A S : IsFiniteSet(S) <=> Library!IsFiniteSet(S)
  BY Zenon DEF IsFiniteSet, Library!IsFiniteSet

\* It counts them the same way.
LEMMA SameCount == \A S : Cardinality(S) = Library!Cardinality(S)
  BY Zenon DEF Cardinality, Library!Cardinality

\* The order on the naturals is well founded.
LEMMA NaturalsHaveLeast == LeastFact
<1> SUFFICES ASSUME NEW S \in SUBSET Nat, S # {} PROVE \E x \in S : \A y \in S : x <= y
  BY DEF LeastFact
<1> DEFINE R == Library!OpToRel(<, Nat)
<1>1. Library!IsWellFoundedOn(R, Nat)
  BY Library!NatLessThanWellFounded, Zenon
<1>2. \A x, y \in Nat : <<y, x>> \in R <=> y < x
  BY Zenon DEF Library!OpToRel
<1> HIDE DEF R
<1>3. PICK x \in S : \A y \in S : ~ (<<y, x>> \in R)
  BY <1>1, Library!WFMin, Zenon
<1>4. ASSUME NEW y \in S PROVE x <= y
  <2>1. x \in Nat /\ y \in Nat /\ ~ (<<y, x>> \in R)
    BY <1>3, Zenon
  <2> QED BY <1>2, <2>1
<1> QED BY <1>4, Zenon

\* What the lemmas assume about finite sets holds.
LEMMA FiniteFactsHold == FiniteFacts
<1>1. CountFact
  BY SameFinite, SameCount, Library!FS_CardinalityType, Zenon DEF CountFact
<1>2. EmptyFact
  BY SameFinite, SameCount, Library!FS_EmptySet, Zenon DEF EmptyFact
<1>3. SingletonFact
  BY SameFinite, SameCount, Library!FS_Singleton, Zenon DEF SingletonFact
<1>4. IntervalFact
  BY SameFinite, SameCount, Library!FS_Interval, Zenon DEF IntervalFact
<1>5. SubsetFact
  BY SameFinite, SameCount, Library!FS_Subset, Zenon DEF SubsetFact
<1>6. AddFact
  BY SameFinite, SameCount, Library!FS_AddElement, Zenon DEF AddFact
<1>7. RemoveFact
  BY SameFinite, SameCount, Library!FS_RemoveElement, Zenon DEF RemoveFact
<1>8. UnionFact
  BY SameFinite, SameCount, Library!FS_Union, Zenon DEF UnionFact
<1>9. ProductFact
  BY SameFinite, SameCount, Library!FS_Product, Zenon DEF ProductFact
<1>10. OntoFact
  <2> SUFFICES ASSUME NEW S, NEW T, IsFiniteSet(S), NEW f \in [S -> T],
                      \A t \in T : \E s \in S : f[s] = t
               PROVE  IsFiniteSet(T) /\ Cardinality(T) <= Cardinality(S)
    BY Zenon DEF OntoFact
  <2>1. f \in Library!Surjection(S, T)
    BY Zenon DEF Library!Surjection
  <2> QED BY <2>1, SameFinite, SameCount, Library!FS_Surjection, Zenon
<1>11. IntoFact
  <2> SUFFICES ASSUME NEW S, NEW T, IsFiniteSet(T), NEW f \in [S -> T],
                      \A s, t \in S : f[s] = f[t] => s = t
               PROVE  /\ IsFiniteSet(S) /\ Cardinality(S) <= Cardinality(T)
                      /\ Cardinality(S) = Cardinality(T) => \A t \in T : \E s \in S : f[s] = t
    BY Zenon DEF IntoFact
  <2>1. f \in Library!Injection(S, T)
    BY Zenon DEF Library!Injection, Library!IsInjective
  <2>2. /\ IsFiniteSet(S) /\ Cardinality(S) <= Cardinality(T)
        /\ Cardinality(S) = Cardinality(T) => f \in Library!Surjection(S, T)
    BY <2>1, SameFinite, SameCount, Library!FS_Injection, Zenon
  <2> QED BY <2>2, Zenon DEF Library!Surjection
<1> QED
  BY <1>1, <1>2, <1>3, <1>4, <1>5, <1>6, <1>7, <1>8, <1>9, <1>10, <1>11, NaturalsHaveLeast, Zenon
     DEF FiniteFacts

-----------------------------------------------------------------------------
\* The two invariants hold throughout.
LEMMA LoopAlways == Spec => [](ReplicationInv /\ LoopInv)
  <1>1. Init => LoopInv
    BY LoopStarts, Zenon
  <1>2. ReplicationInv /\ LoopInv /\ [Next]_vars => LoopInv'
    <2>1. ASSUME LoopInv, UNCHANGED vars
          PROVE  LoopInv'
      BY <2>1, SnapshotRests, Zenon DEF LoopInv, RestartRevivesNothing, vars
    <2> QED
      BY <2>1, LoopStep, FiniteFactsHold, Zenon
  <1>3. ReplicationInv /\ [Next]_vars => ReplicationInv'
    BY ReplicationInductive, FiniteFactsHold, Zenon
  <1> QED
    BY <1>1, <1>2, <1>3, ReplicationStarts, PTL DEF Spec

\* Evidence is of recorded replicas of enrolled nodes, in memory and in what a
\* restart rebuilds, and a restart counts no receipt that had stopped counting,
\* however cycles, revocations and failing appends interleave (EvidenceSound).
THEOREM EvidenceIsSound == Spec => []EvidenceSound
  <1>1. ReplicationInv /\ LoopInv => EvidenceSound
    BY DEF ReplicationInv, LoopInv, EvidenceSound
  <1> QED
    BY <1>1, LoopAlways, PTL

\* The cycle copies only what has fewer than two fresh receipts, and never while
\* a holder is merely out of its budget, for any budgets and any number of
\* repairs a cycle (RepairIsNeeded).
THEOREM RepairsAreNeeded == Spec => RepairIsNeeded
  <1>1. ReplicationInv /\ LoopInv /\ [Next]_vars => [Needed]_vars
    BY LoopStep, FiniteFactsHold, Zenon
  <1> QED
    BY <1>1, LoopAlways, PTL DEF Spec, RepairIsNeeded
=============================================================================
