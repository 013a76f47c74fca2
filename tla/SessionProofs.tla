---------------------------- MODULE SessionProofs ----------------------------
(***************************************************************************)
(* Proofs about Remote Assist: what STOP leaves of the session table       *)
(* (StopClears), that a second session of the worker comes only from a     *)
(* renewal that raced a change (OneSessionUnlessRaced), and the order in   *)
(* which a worker applies the inputs of one lease (LeaseInputsInOrder).    *)
(* All three rest on AssistInv.                                            *)
(***************************************************************************)
EXTENDS RemoteAssist, TLAPS

Answers == {None, "ok", "refused", "lost"}
Entry == [lease : Nat, started : BOOLEAN]
Asked == [pc : Operations, sid : Sids, lease : Nat, started : BOOLEAN, answer : Answers]
Expiring == [pc : {"expiring"}, sid : Sids]
Renewing == [pc : {"renewing"}, op : {"frame", "input"}, sid : Sids, seq : Nat, copy : Entry]
Storing == [pc : {"storing"}, op : {"frame", "input"}, sid : Sids, seq : Nat, copy : Entry,
            lease : Nat]
Call == {NoCall} \cup Asked \cup Expiring \cup Renewing \cup Storing
Message == [call : Nat, op : Operations, sid : Sids, lease : Nat, seq : Nat,
            stage : {"sent", "entered"}]
SignedLease == [sid : Sids, mode : Modes, epoch : Nat, age : {"fresh", "due", "expired"}]
Memory == [lease : Nat, last : Nat]
Done == [op : {"input", "close"}, sid : Sids, lease : Nat, seq : Nat]

Shapes ==
  /\ latch \in BOOLEAN /\ fence \in Nat /\ gate \in Nat
  /\ table \in [Sids -> Entry] /\ leases \in Seq(SignedLease)
  /\ calls \in [Calls -> Call] /\ net \subseteq Message
  /\ worker \in [allowed : BOOLEAN, seen : [Sids -> Memory], epoch : Nat,
                 nonces : SUBSET Nat, active : Nat]
  /\ applied \in Seq(Done)

\* Lease l was signed for session s.
Belongs(l, s) == l \in DOMAIN leases /\ leases[l].sid = s

\* The leases of the requests that have passed the worker's checks.
LetIn == {m.lease : m \in {n \in net : n.stage = "entered"}}

\* Wherever a lease and a session are named together, the lease is of that
\* session, and what the worker has let in or applied has spent its nonce.
GoodCall(r) ==
  /\ r.pc \in Operations \cup {"storing"} => Belongs(r.lease, r.sid)
  /\ r.pc \in {"renewing", "storing"} => r.copy # Absent /\ Belongs(r.copy.lease, r.sid)
Named ==
  /\ \A s \in Sessions : Belongs(table[s].lease, s)
  /\ \A c \in Calls : GoodCall(calls[c])
  /\ \A m \in net : Belongs(m.lease, m.sid)
  /\ LetIn \subseteq worker.nonces
  /\ \A i \in DOMAIN applied :
       Belongs(applied[i].lease, applied[i].sid) /\ applied[i].lease \in worker.nonces
  /\ \A s \in Sids : worker.seen[s].lease \in worker.nonces \cup {0}

\* A request that some call waits for is the only one, and not answered yet.
Waits ==
  /\ \A m \in net : m.call # 0 => /\ m.call \in Calls /\ calls[m.call].pc \in Operations
                                  /\ calls[m.call].answer = None
  /\ \A m, n \in net : m.call # 0 /\ m.call = n.call => m = n

\* Opening holds the gate, so STOP cannot come in between, and it began with an
\* empty table: what is in the table by now, a racing renewal wrote.
Opening ==
  \A c \in Calls : calls[c].pc = "heartbeat" => gate = c /\ ~latch /\ Sessions \subseteq raced

\* An applied input is remembered in the worker's last sequence, or its session
\* was closed since, or the worker forgot it in a restart: then its spent lease
\* has no request inside and will not be let in again.
ClosedSince(i) ==
  \E k \in DOMAIN applied : i < k /\ applied[k].op = "close" /\ applied[k].sid = applied[i].sid
Forgotten(i) ==
  /\ worker.seen[applied[i].sid].lease # applied[i].lease
  /\ applied[i].lease \notin LetIn
Remembered ==
  \A i \in DOMAIN applied : applied[i].op = "input" =>
    \/ applied[i].seq <= worker.seen[applied[i].sid].last
    \/ ClosedSince(i)
    \/ Forgotten(i)

AssistInv ==
  /\ Shapes /\ Named /\ Waits /\ Opening /\ Remembered
  /\ StopClears /\ OneSessionUnlessRaced /\ LeaseInputsInOrder

-----------------------------------------------------------------------------
(* What the worker does with a request, and the order of a lease's inputs. *)

\* The worker's memory, its nonces and what it has done stay as they are.
Quiet ==
  /\ UNCHANGED applied /\ LetIn' \subseteq LetIn
  /\ worker'.seen = worker.seen /\ worker'.nonces = worker.nonces

\* Request m passes the checks: its session is remembered under its lease,
\* which was the one remembered or had its nonce unspent.
LetsIn(m) ==
  /\ UNCHANGED applied /\ LetIn' \subseteq LetIn \cup {m.lease}
  /\ worker.seen[m.sid].lease = m.lease \/ m.lease \notin worker.nonces
  /\ worker'.nonces = worker.nonces \cup {m.lease}
  /\ worker'.seen[m.sid].lease = m.lease
  /\ \A s \in Sids : worker'.seen[s].last = worker.seen[s].last
  /\ \A s \in Sids : s # m.sid => worker'.seen[s] = worker.seen[s]

\* Dropping a request lets none in.
LEMMA LetInShrinks ==
  ASSUME net' \subseteq net
  PROVE  LetIn' \subseteq LetIn
  BY DEF LetIn

\* What Act does, operation by operation.
LEMMA ActKinds ==
  ASSUME RemoteAssistAssumption, Shapes, Named, NEW m \in net, Act(m)
  PROVE  /\ m \in Message /\ m.lease \in LetIn /\ LetIn' \subseteq LetIn
         /\ worker'.nonces = worker.nonces
         /\ \A s \in Sids : s # m.sid => worker'.seen[s] = worker.seen[s]
         /\ \/ /\ m.op = "close" /\ worker'.seen[m.sid] = Unseen
               /\ applied' = Append(applied, [op |-> "close", sid |-> m.sid,
                                              lease |-> m.lease, seq |-> m.seq])
            \/ /\ m.op = "input" /\ m.seq > worker.seen[m.sid].last
               /\ worker'.seen[m.sid].last = m.seq
               /\ worker'.seen[m.sid].lease = worker.seen[m.sid].lease
               /\ applied' = Append(applied, [op |-> "input", sid |-> m.sid,
                                              lease |-> m.lease, seq |-> m.seq])
            \/ UNCHANGED applied /\ worker'.seen = worker.seen
  <1>1. m \in Message /\ m.sid \in Sids
    BY DEF Shapes, Message
  <1>2. m.lease \in LetIn
    BY Zenon DEF Act, LetIn
  <1>3. LetIn' \subseteq LetIn
    BY LetInShrinks DEF Act
  <1>4. worker.seen \in [Sids -> Memory]
        /\ DOMAIN worker = {"allowed", "seen", "epoch", "nonces", "active"}
    BY DEF Shapes
  <1>5. CASE m.op = "close"
    <2>1. worker' = [worker EXCEPT !.seen[m.sid] = Unseen, !.active = IF @ = m.sid THEN 0 ELSE @]
      BY <1>5 DEF Act
    <2>2. /\ worker'.nonces = worker.nonces
          /\ worker'.seen = [worker.seen EXCEPT ![m.sid] = Unseen]
      BY <2>1, <1>4, Zenon
    <2>3. applied' = Append(applied, [op |-> "close", sid |-> m.sid, lease |-> m.lease, seq |-> m.seq])
      BY <1>5, Zenon DEF Act
    <2> QED
      BY <1>1, <1>2, <1>3, <1>4, <1>5, <2>2, <2>3
  <1>6. CASE m.op = "input"
    <2>1. worker' = [worker EXCEPT !.seen[m.sid].last = m.seq, !.active = m.sid]
      BY <1>6 DEF Act
    <2>2. /\ worker'.nonces = worker.nonces
          /\ worker'.seen = [worker.seen EXCEPT ![m.sid].last = m.seq]
      BY <2>1, <1>4, Zenon
    <2>3. applied' = Append(applied, [op |-> "input", sid |-> m.sid, lease |-> m.lease, seq |-> m.seq])
          /\ m.seq > worker.seen[m.sid].last
      BY <1>6, Zenon DEF Act, InOrder
    <2>4. /\ worker'.seen[m.sid].last = m.seq
          /\ worker'.seen[m.sid].lease = worker.seen[m.sid].lease
          /\ \A s \in Sids : s # m.sid => worker'.seen[s] = worker.seen[s]
      BY <2>2, <1>1, <1>4 DEF Memory
    <2> QED
      BY <1>1, <1>2, <1>3, <1>6, <2>2, <2>3, <2>4, Zenon
  <1>7. CASE m.op \notin {"input", "close"}
    <2>1. worker' = [worker EXCEPT !.active = m.sid] /\ UNCHANGED applied
      BY <1>7, Zenon DEF Act
    <2>2. worker'.nonces = worker.nonces /\ worker'.seen = worker.seen
      BY <2>1, <1>4, Zenon
    <2> QED
      BY <1>1, <1>2, <1>3, <2>1, <2>2, Zenon
  <1> QED
    BY <1>5, <1>6, <1>7, Zenon

\* The history only grows, and what was between two of its entries stays.
LEMMA HistoryLasts ==
  ASSUME applied \in Seq(Done), NEW x, UNCHANGED applied \/ applied' = Append(applied, x)
  PROVE  /\ \A i \in DOMAIN applied : i \in DOMAIN applied' /\ applied'[i] = applied[i]
         /\ \A i \in DOMAIN applied : ClosedSince(i) => ClosedSince(i)'
         /\ \A i, j \in DOMAIN applied : ClosedBetween(i, j) => ClosedBetween(i, j)'
  <1>1. \A i \in DOMAIN applied : i \in DOMAIN applied' /\ applied'[i] = applied[i]
    OBVIOUS
  <1>2. \A i \in DOMAIN applied : ClosedSince(i) => ClosedSince(i)'
    BY <1>1 DEF ClosedSince
  <1>3. \A i, j \in DOMAIN applied : ClosedBetween(i, j) => ClosedBetween(i, j)'
    <2>1. \A i, j \in DOMAIN applied : \A k \in i..j : k \in DOMAIN applied
      OBVIOUS
    <2> QED
      BY <1>1, <2>1, Zenon DEF ClosedBetween
  <1> QED
    BY <1>1, <1>2, <1>3, Zenon

\* A step that adds no input keeps the order.
LEMMA OrderKept ==
  ASSUME applied \in Seq(Done), LeaseInputsInOrder, NEW x,
         UNCHANGED applied \/ (applied' = Append(applied, x) /\ x.op # "input")
  PROVE  LeaseInputsInOrder'
  <1> SUFFICES ASSUME NEW i \in DOMAIN applied', NEW j \in DOMAIN applied',
                      i < j, applied'[i].lease = applied'[j].lease,
                      applied'[i].op = "input", applied'[j].op = "input"
               PROVE  applied'[i].seq < applied'[j].seq \/ ClosedBetween(i, j)'
    BY Zenon DEF LeaseInputsInOrder
  <1>1. i \in DOMAIN applied /\ j \in DOMAIN applied
    OBVIOUS
  <1>2. applied'[i] = applied[i] /\ applied'[j] = applied[j]
    BY SMTT(30), <1>1
  <1>3. applied[i].seq < applied[j].seq \/ ClosedBetween(i, j)
    BY <1>1, <1>2 DEF LeaseInputsInOrder
  <1>4. ClosedBetween(i, j) => ClosedBetween(i, j)'
    BY <1>1, HistoryLasts, Zenon
  <1> QED
    BY <1>2, <1>3, <1>4, Zenon

\* An entry that was forgotten stays so: its lease is spent and is not the one
\* the worker remembers, so no request under it is let in again.
LEMMA LetsInRemembers ==
  ASSUME RemoteAssistAssumption, Shapes, Named, Remembered, NEW m \in net, LetsIn(m)
  PROVE  Remembered'
  <1> SUFFICES ASSUME NEW i \in DOMAIN applied, applied[i].op = "input"
               PROVE  \/ applied[i].seq <= worker'.seen[applied[i].sid].last
                      \/ ClosedSince(i)'
                      \/ Forgotten(i)'
    BY Zenon DEF Remembered, LetsIn
  <1>0. UNCHANGED applied /\ applied[i].sid \in Sids
    <2>1. applied[i] \in Done
      BY DEF Shapes
    <2> QED
      BY <2>1, Zenon DEF LetsIn, Done
  <1>1. CASE applied[i].seq <= worker.seen[applied[i].sid].last
    BY <1>0, <1>1, Zenon DEF LetsIn
  <1>2. CASE ClosedSince(i)
    BY <1>0, <1>2, Zenon DEF ClosedSince
  <1>3. CASE Forgotten(i)
    <2>1. m.lease # applied[i].lease
      <3> SUFFICES ASSUME m.lease = applied[i].lease PROVE FALSE
        BY Zenon
      <3>1. m.lease \in worker.nonces /\ m.sid = applied[i].sid
        BY DEF Named, Belongs
      <3> QED
        BY <1>3, <3>1, Zenon DEF LetsIn, Forgotten
    <2>2. applied[i].lease \notin LetIn'
      BY <1>3, <2>1, Zenon DEF LetsIn, Forgotten
    <2>3. worker'.seen[applied[i].sid].lease # applied[i].lease
      BY <1>0, <1>3, <2>1, Zenon DEF LetsIn, Forgotten
    <2> QED
      BY <1>0, <2>2, <2>3, Zenon DEF Forgotten
  <1> QED
    BY <1>1, <1>2, <1>3, Zenon DEF Remembered

\* Acting on a request keeps the order: an input must pass the last sequence,
\* which remembers every input of its lease since the session was closed.
LEMMA ActOrder ==
  ASSUME RemoteAssistAssumption, Shapes, Shapes', Named, Remembered, LeaseInputsInOrder,
         NEW m \in net, Act(m)
  PROVE  Remembered' /\ LeaseInputsInOrder'
  <1>0. /\ applied \in Seq(Done) /\ worker.seen \in [Sids -> Memory]
        /\ worker'.seen \in [Sids -> Memory]
    BY Zenon DEF Shapes
  <1>1. /\ m \in Message /\ m.lease \in LetIn /\ LetIn' \subseteq LetIn
        /\ \A s \in Sids : s # m.sid => worker'.seen[s] = worker.seen[s]
    BY ActKinds, Zenon
  <1>2. m.sid \in Sids /\ m.seq \in Nat /\ m.lease \in Nat
    BY <1>1 DEF Message
  <1>3. \A i \in DOMAIN applied : applied[i].sid \in Sids /\ applied[i].seq \in Nat
    <2>1. \A i \in DOMAIN applied : applied[i] \in Done
      BY <1>0
    <2> QED
      BY <2>1 DEF Done
  <1>4. CASE UNCHANGED applied /\ worker'.seen = worker.seen
    <2>1. LeaseInputsInOrder'
      BY <1>0, <1>4, OrderKept
    <2>2. Remembered'
      BY <1>1, <1>4 DEF Remembered, Forgotten, ClosedSince
    <2> QED
      BY <2>1, <2>2
  <1>5. ASSUME NEW x, applied' = Append(applied, x), x.op = "close", x.sid = m.sid,
               worker'.seen[m.sid] = Unseen
        PROVE  Remembered' /\ LeaseInputsInOrder'
    <2>1. LeaseInputsInOrder'
      BY <1>0, <1>5, OrderKept
    <2>2. ASSUME NEW i \in DOMAIN applied', applied'[i].op = "input"
          PROVE  (\/ applied[i].seq <= worker.seen[applied[i].sid].last
                  \/ ClosedSince(i)
                  \/ Forgotten(i))'
      <3>1. i \in DOMAIN applied /\ applied'[i] = applied[i]
        BY <1>0, <1>5, <2>2
      <3>2. CASE applied[i].sid = m.sid
        <4>1. /\ Len(applied) + 1 \in DOMAIN applied' /\ applied'[Len(applied) + 1] = x
              /\ i < Len(applied) + 1
          BY <1>0, <1>5, <3>1
        <4> QED
          BY <1>5, <3>1, <3>2, <4>1, Zenon DEF ClosedSince
      <3>3. CASE applied[i].sid # m.sid
        <4>1. worker'.seen[applied[i].sid] = worker.seen[applied[i].sid]
          BY <1>1, <1>3, <3>1, <3>3, Zenon
        <4>2. ClosedSince(i) => ClosedSince(i)'
          BY <1>0, <1>5, <3>1, HistoryLasts, Zenon
        <4>3. Forgotten(i) => Forgotten(i)'
          BY <1>1, <3>1, <4>1 DEF Forgotten
        <4> QED
          BY <2>2, <3>1, <4>1, <4>2, <4>3, Zenon DEF Remembered
      <3> QED
        BY <3>2, <3>3, Zenon
    <2> QED
      BY <2>1, <2>2, Zenon DEF Remembered
  <1>6. ASSUME NEW x, applied' = Append(applied, x), x.op = "input", x.sid = m.sid,
               x.lease = m.lease, x.seq = m.seq, m.seq > worker.seen[m.sid].last,
               worker'.seen[m.sid].last = m.seq,
               worker'.seen[m.sid].lease = worker.seen[m.sid].lease
        PROVE  Remembered' /\ LeaseInputsInOrder'
    <2> DEFINE n == Len(applied) + 1
    <2>1. /\ n \in DOMAIN applied' /\ applied'[n] = x
          /\ \A i \in DOMAIN applied' : i = n \/ (i \in DOMAIN applied /\ applied'[i] = applied[i] /\ i < n)
      BY <1>0, <1>6, SMTT(30)
    <2>2. worker.seen[m.sid].last \in Nat
      BY <1>0, <1>2 DEF Memory
    <2>3. ASSUME NEW i \in DOMAIN applied', applied'[i].op = "input"
          PROVE  (\/ applied[i].seq <= worker.seen[applied[i].sid].last
                  \/ ClosedSince(i)
                  \/ Forgotten(i))'
      <3>1. CASE i = n
        BY <1>2, <1>6, <2>1, <3>1
      <3>2. CASE i \in DOMAIN applied /\ applied'[i] = applied[i]
        <4>1. ClosedSince(i) => ClosedSince(i)'
          BY <1>0, <1>6, <3>2, HistoryLasts, Zenon
        <4>2. worker'.seen[applied[i].sid].lease = worker.seen[applied[i].sid].lease
          BY <1>1, <1>3, <1>6, <3>2
        <4>3. Forgotten(i) => Forgotten(i)'
          BY <1>1, <3>2, <4>2, Zenon DEF Forgotten
        <4>4. applied[i].seq <= worker.seen[applied[i].sid].last
                => applied[i].seq <= worker'.seen[applied[i].sid].last
          <5>1. CASE applied[i].sid = m.sid
            BY <1>2, <1>3, <1>6, <2>2, <3>2, <5>1
          <5>2. CASE applied[i].sid # m.sid
            BY <1>1, <1>3, <3>2, <5>2, Zenon
          <5> QED
            BY <5>1, <5>2, Zenon
        <4> QED
          BY <2>3, <3>2, <4>1, <4>3, <4>4 DEF Remembered
      <3> QED
        BY <2>1, <3>1, <3>2
    <2>4. ASSUME NEW i \in DOMAIN applied', NEW j \in DOMAIN applied',
                 i < j, applied'[i].lease = applied'[j].lease,
                 applied'[i].op = "input", applied'[j].op = "input"
          PROVE  applied'[i].seq < applied'[j].seq \/ ClosedBetween(i, j)'
      <3>1. i \in DOMAIN applied /\ applied'[i] = applied[i] /\ i \in Nat /\ n \in Nat
        BY <1>0, <2>1, <2>4
      <3>2. CASE j # n
        <4>1. j \in DOMAIN applied /\ applied'[j] = applied[j]
          BY <2>1, <3>2, Zenon
        <4>2. applied[i].seq < applied[j].seq \/ ClosedBetween(i, j)
          BY <2>4, <3>1, <4>1, Zenon DEF LeaseInputsInOrder
        <4>3. ClosedBetween(i, j) => ClosedBetween(i, j)'
          BY <1>0, <1>6, <3>1, <4>1, HistoryLasts, Zenon
        <4> QED
          BY <3>1, <4>1, <4>2, <4>3, Zenon
      <3>3. CASE j = n
        <4>1. applied[i].lease = m.lease /\ applied[i].op = "input"
          BY <1>6, <2>1, <2>4, <3>1, <3>3, Zenon
        <4>2. applied[i].sid = m.sid
          BY <3>1, <4>1, SMTT(30) DEF Named, Belongs
        <4>3. ~Forgotten(i)
          BY <1>1, <4>1, Zenon DEF Forgotten
        <4>4. CASE applied[i].seq <= worker.seen[applied[i].sid].last
          BY <1>2, <1>3, <1>6, <2>1, <2>2, <3>1, <3>3, <4>2, <4>4, SMTT(30)
        <4>5. CASE ClosedSince(i)
          <5>1. PICK k \in DOMAIN applied :
                  i < k /\ applied[k].op = "close" /\ applied[k].sid = applied[i].sid
            BY <4>5, Zenon DEF ClosedSince
          <5>2. k \in i..n /\ applied'[k] = applied[k]
            BY <1>0, <1>6, <3>1, <5>1
          <5> QED
            BY <3>1, <3>3, <5>1, <5>2, Zenon DEF ClosedBetween
        <4> QED
          BY <3>1, <4>1, <4>3, <4>4, <4>5, Zenon DEF Remembered
      <3> QED
        BY <3>2, <3>3, Zenon
    <2> HIDE DEF n
    <2> QED
      BY <2>3, <2>4, Zenon DEF Remembered, LeaseInputsInOrder
  <1> QED
    BY <1>4, <1>5, <1>6, ActKinds, ZenonT(80)

-----------------------------------------------------------------------------
(* Calls and requests.                                                     *)

\* A request of the owner begins in a call that serves nothing.
LEMMA BeginsFree ==
  ASSUME NEW c \in Calls, Begin(c)
  PROVE  calls[c] = NoCall
  BY Zenon DEF Begin, Least

\* The step a call is at says which record it is.
LEMMA CallShapes ==
  ASSUME calls \in [Calls -> Call], NEW c \in Calls
  PROVE  /\ calls[c].pc \in Operations => calls[c] \in Asked
         /\ calls[c].pc = "expiring" => calls[c] \in Expiring
         /\ calls[c].pc = "renewing" => calls[c] \in Renewing
         /\ calls[c].pc = "storing" => calls[c] \in Storing
         /\ calls[c] = NoCall => calls[c].pc \notin Operations \cup {"renewing", "storing"}
  <1>1. calls[c] \in Call
    BY Zenon
  <1>2. CASE calls[c] = NoCall
    BY <1>2 DEF NoCall, None, Operations
  <1>3. CASE calls[c] \in Asked
    BY <1>3 DEF Asked, NoCall, None, Operations
  <1>4. CASE calls[c] \in Expiring
    BY <1>4, Zenon DEF Expiring, NoCall, None, Operations
  <1>5. CASE calls[c] \in Renewing
    BY <1>5 DEF Renewing, NoCall, None, Operations
  <1>6. CASE calls[c] \in Storing
    BY <1>6 DEF Storing, NoCall, None, Operations
  <1> QED
    BY <1>1, <1>2, <1>3, <1>4, <1>5, <1>6, Zenon DEF Call

\* Sending a request leaves the calls and the requests well formed.
LEMMA AskShapes ==
  ASSUME RemoteAssistAssumption, Shapes, NEW c \in Calls, NEW op \in Operations,
         NEW s \in Sids, NEW l \in Nat, NEW q \in Nat, NEW st \in BOOLEAN,
         Ask(c, op, s, l, q, st)
  PROVE  calls' \in [Calls -> Call] /\ net' \subseteq Message
  <1>1. [pc |-> op, sid |-> s, lease |-> l, started |-> st, answer |-> None] \in Call
    BY Zenon DEF Call, Asked, Answers
  <1>2. [call |-> c, op |-> op, sid |-> s, lease |-> l, seq |-> q, stage |-> "sent"] \in Message
    BY DEF Message, Calls, RemoteAssistAssumption
  <1> QED
    BY <1>1, <1>2, Zenon DEF Ask, Shapes

\* So does freeing a call.
LEMMA FreeShapes ==
  ASSUME Shapes, NEW c \in Calls, Free(c)
  PROVE  calls' \in [Calls -> Call] /\ net' \subseteq Message
  <1>1. NoCall \in Call
    BY Zenon DEF Call
  <1> QED
    BY <1>1, Zenon DEF Free, Shapes

\* So does telling a call the answer to its request.
LEMMA TellShapes ==
  ASSUME Shapes, Waits, NEW m \in net, NEW a \in Answers, Tell(m, a)
  PROVE  calls' \in [Calls -> Call]
  <1>1. CASE m.call = 0
    BY <1>1, Zenon DEF Tell, Shapes
  <1>2. CASE m.call # 0
    <2>1. m.call \in Calls /\ calls[m.call] \in Asked
      BY <1>2, CallShapes, Zenon DEF Waits, Shapes
    <2>2. [calls[m.call] EXCEPT !.answer = a] \in Call
      BY <2>1, Zenon DEF Asked, Call
    <2>3. calls' = [calls EXCEPT ![m.call] = [calls[m.call] EXCEPT !.answer = a]]
      BY <1>2, Zenon DEF Tell
    <2> QED
      BY <2>1, <2>2, <2>3, Zenon DEF Shapes
  <1> QED
    BY <1>1, <1>2, Zenon

-----------------------------------------------------------------------------
(* Every step keeps the shapes.                                            *)

\* What the worker's handlers do to its memory, its nonces and the history.
LEMMA WorkerShapes ==
  ASSUME RemoteAssistAssumption, Shapes, Named, NEW m \in net
  PROVE  /\ HandleRequest(m) => worker' \in [allowed : BOOLEAN, seen : [Sids -> Memory],
                                    epoch : Nat, nonces : SUBSET Nat, active : Nat]
         /\ Act(m) => /\ worker' \in [allowed : BOOLEAN, seen : [Sids -> Memory],
                                    epoch : Nat, nonces : SUBSET Nat, active : Nat]
                      /\ applied' \in Seq(Done)
  <1> USE DEF Shapes
  <1>1. m \in Message /\ m.lease \in DOMAIN leases /\ leases[m.lease] \in SignedLease
    BY DEF Named, Belongs
  <1>2. m.sid \in Sids /\ m.lease \in Nat /\ m.seq \in Nat /\ leases[m.lease].epoch \in Nat /\ m.sid \in Nat
    <2>1. m.sid \in Sids /\ m.lease \in Nat /\ m.seq \in Nat
      BY <1>1, Zenon DEF Message
    <2>2. leases[m.lease].epoch \in Nat
      BY <1>1, Zenon DEF SignedLease
    <2>3. m.sid \in Nat
      BY <2>1 DEF Sids
    <2> QED
      BY <2>1, <2>2, <2>3, Zenon
  <1>3. Unseen \in Memory /\ worker.seen[m.sid] \in Memory
    BY <1>2 DEF Unseen, Memory
  <1>4. /\ [worker.seen[m.sid] EXCEPT !.lease = m.lease] \in Memory
        /\ [worker.seen[m.sid] EXCEPT !.last = m.seq] \in Memory
    BY <1>2, <1>3, Zenon DEF Memory
  <1>5. ASSUME HandleRequest(m)
        PROVE  worker' \in [allowed : BOOLEAN, seen : [Sids -> Memory],
                            epoch : Nat, nonces : SUBSET Nat, active : Nat]
    <2> DEFINE w == Spent(worker, m.lease)
    <2>1. w \in [allowed : BOOLEAN, seen : [Sids -> Memory], epoch : Nat,
                 nonces : SUBSET Nat, active : Nat] /\ w.seen = worker.seen
      BY <1>2, Zenon DEF Spent
    <2> HIDE DEF w
    <2>2. worker' = worker \/ worker' = [w EXCEPT !.seen[m.sid].lease = m.lease]
      BY <1>5, Zenon DEF HandleRequest, w
    <2>3. [w.seen EXCEPT ![m.sid].lease = m.lease] \in [Sids -> Memory]
      BY <2>1, <1>2, <1>4
    <2> QED
      BY <2>1, <2>2, <2>3, Zenon
  <1>6. ASSUME Act(m)
        PROVE  worker' \in [allowed : BOOLEAN, seen : [Sids -> Memory],
                                    epoch : Nat, nonces : SUBSET Nat, active : Nat]
    <2>1. CASE m.op = "close"
      BY <1>6, <1>2, <1>3, <2>1, Zenon DEF Act
    <2>2. CASE m.op = "input"
      BY <1>6, <1>2, <1>4, <2>2, Zenon DEF Act
    <2>3. CASE m.op \notin {"close", "input"}
      BY <1>6, <1>2, <2>3, Zenon DEF Act
    <2> QED
      BY <2>1, <2>2, <2>3
  <1>7. ASSUME Act(m)
        PROVE  applied' \in Seq(Done)
    <2>1. m.op \in {"input", "close"} =>
            [op |-> m.op, sid |-> m.sid, lease |-> m.lease, seq |-> m.seq] \in Done
      BY <1>2, Zenon DEF Done
    <2> QED
      BY <1>7, <2>1 DEF Act
  <1> QED
    BY <1>5, <1>6, <1>7, Zenon

\* What a restart of the worker leaves.
LEMMA RestartShapes ==
  ASSUME Shapes, Waits, WorkerRestarts
  PROVE  /\ calls' \in [Calls -> Call] /\ net' \subseteq Message
         /\ worker' \in [allowed : BOOLEAN, seen : [Sids -> Memory], epoch : Nat,
                         nonces : SUBSET Nat, active : Nat]
  <1>1. Unseen \in Memory
    BY Zenon DEF Unseen, Memory
  <1>2. ASSUME NEW c \in Calls
        PROVE  calls'[c] \in Call
    <2>1. CASE \E m \in net \ net' : m.call = c
      <3>1. PICK m \in net : m.call = c
        BY <2>1, Zenon
      <3>2. c # 0 => calls[c] \in Asked
        BY <3>1, CallShapes, Zenon DEF Waits, Shapes
      <3>3. CASE calls[c] \in Asked
        <4>1. [calls[c] EXCEPT !.answer = "lost"] \in Asked
          BY <3>3 DEF Asked, Answers
        <4> QED
          BY <2>1, <4>1 DEF WorkerRestarts, Call
      <3> QED
        BY <3>2, <3>3 DEF Calls
    <2>2. CASE ~ \E m \in net \ net' : m.call = c
      BY <2>2 DEF WorkerRestarts, Shapes
    <2> QED
      BY <2>1, <2>2, Zenon
  <1>3. calls' \in [Calls -> Call]
    BY <1>2 DEF WorkerRestarts
  <1> QED
    BY <1>1, <1>3, Zenon DEF WorkerRestarts, Shapes

\* The owner makes a request.
OwnerStep(c) ==
  \/ \E mode \in Modes : OpenRemoteDesktop(c, mode)
  \/ \E s \in Sids : RemoteDesktopFrame(c, s)
  \/ \E s \in Sids, q \in 1..MaxSeq : RemoteDesktopInput(c, s, q)
  \/ \E s \in Sids : CloseRemoteDesktop(c, s)

\* The handlers of the owner's requests keep the shapes.
LEMMA OwnerShapes ==
  ASSUME RemoteAssistAssumption, Shapes, Named, Waits, NEW c \in Calls,
         OwnerStep(c)
  PROVE  Shapes'
  <1> USE DEF Shapes
  <1>0. Absent \in Entry /\ {"heartbeat", "close", "frame", "input"} \subseteq Operations
    BY DEF Absent, Entry, Operations
  <1>1. ASSUME NEW mode \in Modes, OpenRemoteDesktop(c, mode)
        PROVE  Shapes'
    <2> DEFINE fresh == {s \in Sids : \A l \in DOMAIN leases : leases[l].sid # s}
               kept == {s \in Sessions : Live(table[s].lease)}
    <2>1. table' \in [Sids -> Entry]
      BY <1>1, <1>0, Zenon DEF OpenRemoteDesktop
    <2>2. CASE Conflicting(kept) \/ ~offer
      BY <1>1, <2>1, <2>2, Zenon DEF OpenRemoteDesktop
    <2>3. CASE ~ (Conflicting(kept) \/ ~offer)
      <3>1. gate' = c /\ \E s \in fresh : /\ leases' = Append(leases, Signed(s, mode))
                                         /\ Ask(c, "heartbeat", s, Len(leases) + 1, 0, FALSE)
        BY <1>1, <2>3, Zenon DEF OpenRemoteDesktop
      <3>2. PICK s \in Sids : /\ leases' = Append(leases, Signed(s, mode))
                              /\ Ask(c, "heartbeat", s, Len(leases) + 1, 0, FALSE)
        BY <3>1, Zenon
      <3>6. Len(leases) + 1 \in Nat
        OBVIOUS
      <3>3. Signed(s, mode) \in SignedLease
        BY Zenon DEF Signed, SignedLease
      <3>4. calls' \in [Calls -> Call] /\ net' \subseteq Message
        BY <3>2, <3>6, <1>0, AskShapes, Zenon
      <3>5. gate' \in Nat /\ leases' \in Seq(SignedLease)
        BY <3>1, <3>2, <3>3 DEF Calls, RemoteAssistAssumption
      <3> QED
        BY <1>1, <2>1, <3>4, <3>5, Zenon DEF OpenRemoteDesktop
    <2> QED
      BY <2>2, <2>3, Zenon
  <1>2. ASSUME NEW op \in {"frame", "input"}, NEW s \in Sids, NEW q \in Nat, ReadSession(c, op, s, q)
        PROVE  Shapes'
    <2> DEFINE l == table[s].lease
    <2>1. l \in Nat /\ table[s] \in Entry
      BY Zenon DEF Entry
    <2>2. CASE ~Live(l)
      <3>1. [pc |-> "expiring", sid |-> s] \in Call
        BY Zenon DEF Call, Expiring
      <3> QED
        BY <1>2, <2>2, <3>1, Zenon DEF ReadSession, ctlVars
    <2>3. CASE Live(l) /\ Due(l)
      <3>1. [pc |-> "renewing", op |-> op, sid |-> s, seq |-> q, copy |-> table[s]] \in Call
        BY <2>1, Zenon DEF Call, Renewing
      <3> QED
        BY <1>2, <2>3, <3>1, Zenon DEF ReadSession, ctlVars
    <2>4. CASE Live(l) /\ ~Due(l)
      <3>1. Ask(c, op, s, l, q, FALSE)
        BY <1>2, <2>4, Zenon DEF ReadSession
      <3>2. calls' \in [Calls -> Call] /\ net' \subseteq Message
        BY <3>1, <2>1, <1>0, AskShapes, Zenon
      <3> QED
        BY <1>2, <3>2, Zenon DEF ReadSession, ctlVars
    <2> QED
      BY <2>2, <2>3, <2>4, Zenon
  <1>3. ASSUME NEW s \in Sids, CloseRemoteDesktop(c, s)
        PROVE  Shapes'
    <2>1. table[s].lease \in Nat /\ table[s].started \in BOOLEAN
      BY Zenon DEF Entry
    <2>2. calls' \in [Calls -> Call] /\ net' \subseteq Message
      <3>1. CASE Live(table[s].lease) /\ offer
        BY <1>3, <3>1, <2>1, <1>0, AskShapes DEF CloseRemoteDesktop
      <3>2. CASE ~ (Live(table[s].lease) /\ offer)
        BY <1>3, <3>2, Zenon DEF CloseRemoteDesktop
      <3> QED
        BY <3>1, <3>2, Zenon
    <2> QED
      BY <1>3, <2>2, <1>0, Zenon DEF CloseRemoteDesktop
  <1> QED
    <2>1. 0 \in Nat /\ \A q \in 1..MaxSeq : q \in Nat
      BY DEF RemoteAssistAssumption
    <2> QED
      BY <1>1, <1>2, <1>3, <2>1, Zenon DEF OwnerStep, RemoteDesktopFrame, RemoteDesktopInput

\* The later steps of a call keep the shapes.
LEMMA CallShapesStep ==
  ASSUME RemoteAssistAssumption, Shapes, Named, NEW c \in Calls, CallStep(c) \/ TimesOut(c)
  PROVE  Shapes'
  <1> USE DEF Shapes
  <1>0. Absent \in Entry
    BY DEF Absent, Entry
  <1>1. CASE Opened(c)
    <2>1. calls[c] \in Asked
      BY <1>1, CallShapes, Zenon DEF Opened, Answered, Operations
    <2>2. [lease |-> calls[c].lease, started |-> FALSE] \in Entry /\ calls[c].sid \in Sids
      BY <2>1, Zenon DEF Asked, Entry
    <2> QED
      BY <1>1, <2>2, FreeShapes DEF Opened
  <1>2. CASE FrameAnswered(c)
    BY <1>2, FreeShapes, Zenon DEF FrameAnswered, ctlVars
  <1>3. CASE InputAnswered(c)
    <2>1. \A s \in Sids : Started(table[s]) \in Entry
      BY Zenon DEF Started, Entry
    <2>2. table' \in [Sids -> Entry]
      BY <1>3, <2>1 DEF InputAnswered, Sessions
    <2> QED
      BY <1>3, <2>2, FreeShapes, Zenon DEF InputAnswered
  <1>4. CASE CloseAnswered(c)
    BY <1>4, FreeShapes, Zenon DEF CloseAnswered, ctlVars
  <1>5. CASE ExpireSession(c)
    BY <1>5, <1>0, FreeShapes, Zenon DEF ExpireSession
  <1>6. CASE RenewSigns(c)
    <2>1. /\ calls[c] \in Renewing
          /\ calls[c].copy.lease \in DOMAIN leases
          /\ leases[calls[c].copy.lease] \in SignedLease
      <3>1. calls[c].pc = "renewing" /\ calls[c] \in Renewing
        BY <1>6, CallShapes, Zenon DEF RenewSigns
      <3>2. calls[c].copy.lease \in DOMAIN leases
        BY <3>1, Zenon DEF Named, GoodCall, Belongs
      <3>3. leases[calls[c].copy.lease] \in SignedLease
        BY <3>2
      <3> QED
        BY <3>1, <3>2, <3>3, Zenon
    <2>2. CASE offer
      <3>1. [pc |-> "storing", op |-> calls[c].op, sid |-> calls[c].sid, seq |-> calls[c].seq,
             copy |-> calls[c].copy, lease |-> Len(leases) + 1] \in Call
        BY <2>1 DEF Renewing, Storing, Call
      <3>2. Signed(calls[c].sid, leases[calls[c].copy.lease].mode) \in SignedLease
        <4> HIDE DEF Shapes
        <4>1. fence \in Nat
          BY Zenon DEF Shapes
        <4> QED
          BY <2>1, <4>1 DEF Renewing, SignedLease, Signed
      <3>3. leases' \in Seq(SignedLease)
        <4> DEFINE new == Signed(calls[c].sid, leases[calls[c].copy.lease].mode)
        <4>1. leases' = Append(leases, new) /\ new \in SignedLease
          BY <1>6, <2>2, <3>2, Zenon DEF RenewSigns
        <4> HIDE DEF new
        <4> QED
          BY <4>1
      <3> QED
        BY <1>6, <2>2, <3>1, <3>3, Zenon DEF RenewSigns
    <2>3. CASE ~offer
      BY <1>6, <2>3, FreeShapes, Zenon DEF RenewSigns
    <2> QED
      BY <2>2, <2>3, Zenon
  <1>7. CASE RenewStores(c)
    <2>1. calls[c] \in Storing
      BY <1>7, CallShapes, Zenon DEF RenewStores
    <2>2. /\ Renewed(calls[c]) \in Entry /\ calls[c].sid \in Sids /\ calls[c].op \in Operations
          /\ calls[c].lease \in Nat /\ calls[c].seq \in Nat
      BY <2>1, Zenon DEF Storing, Renewed, Entry, Operations
    <2>3. \/ Free(c)
          \/ Ask(c, calls[c].op, calls[c].sid, calls[c].lease, calls[c].seq, FALSE)
      BY <1>7, Zenon DEF RenewStores
    <2>4. calls' \in [Calls -> Call] /\ net' \subseteq Message
      BY <2>2, <2>3, AskShapes, FreeShapes, Zenon
    <2> QED
      BY <1>7, <2>2, <2>4, Zenon DEF RenewStores
  <1>8. CASE TimesOut(c)
    <2>1. calls[c] \in Asked
      BY <1>8, CallShapes, Zenon DEF TimesOut
    <2>2. [calls[c] EXCEPT !.answer = "lost"] \in Call
      BY <2>1, Zenon DEF Asked, Answers, Call
    <2>3. ASSUME NEW m \in net PROVE [m EXCEPT !.call = IF @ = c THEN 0 ELSE @] \in Message
      <3>1. m \in Message /\ m.call \in Nat
        BY Zenon DEF Message
      <3>2. (IF m.call = c THEN 0 ELSE m.call) \in Nat
        BY <3>1
      <3> QED
        BY <3>1, <3>2, Zenon DEF Message
    <2> QED
      <3>1. calls' \in [Calls -> Call]
        BY <1>8, <2>2, Zenon DEF TimesOut
      <3>2. net' \subseteq Message
        BY <1>8, <2>3, ZenonT(30) DEF TimesOut
      <3> QED
        BY <1>8, <3>1, <3>2, Zenon DEF TimesOut, ctlVars
  <1> QED
    BY <1>1, <1>2, <1>3, <1>4, <1>5, <1>6, <1>7, <1>8, Zenon DEF CallStep

\* Every step keeps the shapes.
LEMMA ShapesStep ==
  ASSUME RemoteAssistAssumption, Shapes, Named, Waits, [Next]_vars
  PROVE  Shapes'
  <1> USE DEF Shapes
  <1>0. Absent \in Entry
    BY Zenon DEF Absent, Entry
  <1>1. ASSUME NEW l \in DOMAIN leases, LeaseAges(l)
        PROVE  Shapes'
    <2> DEFINE aged == [leases[l] EXCEPT !.age = IF @ = "fresh" THEN "due" ELSE "expired"]
    <2>1. leases[l] \in SignedLease /\ l \in 1..Len(leases)
      OBVIOUS
    <2>2. aged \in SignedLease
      <3> HIDE DEF Shapes
      <3> QED
        BY <2>1, Zenon DEF SignedLease
    <2>3. leases' = [leases EXCEPT ![l] = aged]
      BY <1>1 DEF LeaseAges
    <2> HIDE DEF aged
    <2>4. leases' \in Seq(SignedLease)
      BY <2>1, <2>2, <2>3
    <2> QED
      BY <1>1, <2>4, Zenon DEF LeaseAges
  <1>2. CASE OfferChanges
    BY <1>2, Zenon DEF OfferChanges
  <1>3. ASSUME NEW c \in Calls, OwnerStep(c)
        PROVE  Shapes'
    BY <1>3, OwnerShapes, Zenon
  <1>4. ASSUME NEW c \in Calls, CallStep(c) \/ TimesOut(c)
        PROVE  Shapes'
    BY <1>4, CallShapesStep, Zenon
  <1>5. CASE LocalStop
    BY <1>5 DEF LocalStop, Stop, RemoteAssistAssumption
  <1>10. CASE StopDrains
    BY <1>10, <1>0, Zenon DEF StopDrains
  <1>11. CASE LocalResume
    BY <1>11, Zenon DEF LocalResume
  <1>12. CASE RevokeNode
    BY <1>12, <1>0, Zenon DEF RevokeNode
  <1>6. ASSUME NEW m \in net, HandleRequest(m) \/ Act(m) \/ RefuseToAct(m)
        PROVE  Shapes'
    <2>1. {"ok", "refused"} \subseteq Answers /\ [m EXCEPT !.stage = "entered"] \in Message
      BY Zenon DEF Answers, Message
    <2>2. calls' \in [Calls -> Call] /\ net' \subseteq Message
      <3>1. UNCHANGED calls \/ Tell(m, "ok") \/ Tell(m, "refused")
        BY <1>6, Zenon DEF HandleRequest, Act, RefuseToAct
      <3>2. calls' \in [Calls -> Call]
        BY <3>1, <2>1, TellShapes, Zenon
      <3> QED
        BY <1>6, <2>1, <3>2, Zenon DEF HandleRequest, Act, RefuseToAct
    <2> QED
      BY <1>6, <2>2, WorkerShapes, Zenon DEF HandleRequest, Act, RefuseToAct, ctlVars
  <1>7. CASE WorkerRestarts
    BY <1>7, RestartShapes, Zenon DEF WorkerRestarts, ctlVars
  <1>8. CASE WorkerDisallows
    BY <1>8, Zenon DEF WorkerDisallows, ctlVars
  <1>13. CASE RefreshDynamicCapabilities
    BY <1>13, Zenon DEF RefreshDynamicCapabilities
  <1>9. CASE UNCHANGED vars
    BY <1>9 DEF vars, ctlVars
  <1> HIDE DEF Shapes
  <1> QED
    BY <1>1, <1>2, <1>3, <1>4, <1>5, <1>6, <1>7, <1>8, <1>9, <1>10, <1>11, <1>12, <1>13 DEF Next, OwnerStep

-----------------------------------------------------------------------------
(* What a step does to the leases, the calls and the requests.             *)

\* The same after the step, of a lease and a session, or a call, of now.
BelongsNext(l, s) == l \in DOMAIN leases' /\ leases'[l].sid = s
GoodNext(r) ==
  /\ r.pc \in Operations \cup {"storing"} => BelongsNext(r.lease, r.sid)
  /\ r.pc \in {"renewing", "storing"} => r.copy # Absent /\ BelongsNext(r.copy.lease, r.sid)

\* Leases are only added and only age: what one was signed for stays.
LEMMA LeasesLast ==
  ASSUME RemoteAssistAssumption, Shapes, Shapes', [Next]_vars
  PROVE  \A l, s : Belongs(l, s) => BelongsNext(l, s)
  <1>1. CASE UNCHANGED leases
    BY <1>1, Zenon DEF Belongs, BelongsNext
  <1>2. ASSUME NEW x, leases' = Append(leases, x)
        PROVE  \A l, s : Belongs(l, s) => BelongsNext(l, s)
    BY SMTT(30), <1>2 DEF Belongs, BelongsNext, Shapes
  <1>3. ASSUME NEW k \in DOMAIN leases, LeaseAges(k)
        PROVE  \A l, s : Belongs(l, s) => BelongsNext(l, s)
    <2>1. leases[k] \in SignedLease
      BY DEF Shapes
    <2>2. \A l \in DOMAIN leases : l \in DOMAIN leases' /\ leases'[l].sid = leases[l].sid
      BY <1>3, <2>1 DEF LeaseAges, SignedLease
    <2> QED
      BY <2>2, Zenon DEF Belongs, BelongsNext
  <1>4. ASSUME NEW c \in Calls, OwnerStep(c)
        PROVE  UNCHANGED leases \/ \E x : leases' = Append(leases, x)
    BY <1>4, Zenon DEF OwnerStep, OpenRemoteDesktop, RemoteDesktopFrame, RemoteDesktopInput, ReadSession,
                CloseRemoteDesktop, ctlVars
  <1>5. ASSUME NEW c \in Calls, CallStep(c) \/ TimesOut(c)
        PROVE  UNCHANGED leases \/ \E x : leases' = Append(leases, x)
    BY <1>5, Zenon DEF CallStep, TimesOut, Opened, FrameAnswered, InputAnswered, CloseAnswered,
                ExpireSession, RenewSigns, RenewStores, ctlVars
  <1>6. ASSUME OfferChanges \/ LocalStop \/ StopDrains \/ LocalResume \/ RevokeNode
               \/ WorkerRestarts \/ WorkerDisallows \/ RefreshDynamicCapabilities
               \/ UNCHANGED vars \/ \E m \in net : HandleRequest(m) \/ Act(m) \/ RefuseToAct(m)
        PROVE  UNCHANGED leases
    BY <1>6, Zenon DEF OfferChanges, LocalStop, StopDrains, LocalResume, RevokeNode, WorkerRestarts,
                WorkerDisallows, RefreshDynamicCapabilities, HandleRequest, Act, RefuseToAct,
                vars, ctlVars
  <1> QED
    BY <1>1, <1>2, <1>3, <1>4, <1>5, <1>6, Zenon DEF Next, OwnerStep

\* A call sends a request under a lease of its session.
Posts(c) ==
  /\ calls[c].pc \notin Operations
  /\ \E op \in Operations, s \in Sids, l \in Nat, q \in Nat, st \in BOOLEAN :
       Ask(c, op, s, l, q, st) /\ BelongsNext(l, s)

\* A call goes on to a step at which it waits for nobody.
Moves(c) ==
  /\ calls[c].pc \in Operations => calls[c].answer # None
  /\ UNCHANGED net
  /\ \E r \in Call : /\ calls' = [calls EXCEPT ![c] = r] /\ r.pc \notin Operations
                     /\ GoodNext(r)

\* A free call is at no step that names a lease.
LEMMA NoCallIsGood ==
  NoCall \in Call /\ NoCall.pc \notin Operations /\ GoodCall(NoCall)
  BY DEF NoCall, None, Operations, GoodCall, Call

\* A call that was answered, and is freed, moves on.
LEMMA FreeMoves ==
  ASSUME NEW c \in Calls, Free(c), calls[c].pc \in Operations => calls[c].answer # None
  PROVE  Moves(c)
  <1>1. NoCall \in Call /\ NoCall.pc \notin Operations /\ GoodNext(NoCall)
    BY Zenon DEF NoCall, None, Operations, GoodNext, Call
  <1> QED
    BY <1>1, Zenon DEF Free, Moves

\* The owner's requests post, move on or leave calls and requests alone.
LEMMA OwnerKinds ==
  ASSUME RemoteAssistAssumption, Shapes, Shapes', Named, NEW c \in Calls, OwnerStep(c)
  PROVE  Posts(c) \/ Moves(c) \/ UNCHANGED <<calls, net>>
  <1>0. /\ {"heartbeat", "close", "frame", "input"} \subseteq Operations
        /\ {"expiring", "renewing"} \cap (Operations \cup {"storing"}) = {}
    BY Zenon DEF Operations
  <1>1. ASSUME NEW mode \in Modes, OpenRemoteDesktop(c, mode)
        PROVE  Posts(c) \/ UNCHANGED <<calls, net>>
    <2> DEFINE fresh == {s \in Sids : \A l \in DOMAIN leases : leases[l].sid # s}
               kept == {s \in Sessions : Live(table[s].lease)}
    <2>1. CASE Conflicting(kept) \/ ~offer
      BY <1>1, <2>1, Zenon DEF OpenRemoteDesktop
    <2>2. CASE ~ (Conflicting(kept) \/ ~offer)
      <3>1. \E s \in fresh : /\ leases' = Append(leases, Signed(s, mode))
                              /\ Ask(c, "heartbeat", s, Len(leases) + 1, 0, FALSE)
        BY <1>1, <2>2, Zenon DEF OpenRemoteDesktop
      <3>4. PICK s \in Sids : /\ leases' = Append(leases, Signed(s, mode))
                              /\ Ask(c, "heartbeat", s, Len(leases) + 1, 0, FALSE)
        BY <3>1, Zenon
      <3>2. Len(leases) + 1 \in Nat /\ leases \in Seq(SignedLease)
        BY DEF Shapes
      <3>3. calls[c].pc \notin Operations
        BY <1>1, BeginsFree, NoCallIsGood, Zenon DEF OpenRemoteDesktop
      <3>5. Signed(s, mode).sid = s
        BY DEF Signed
      <3>8. Signed(s, mode) \in SignedLease
        BY Zenon DEF Signed, SignedLease, Shapes
      <3> DEFINE l == Len(leases) + 1
      <3>6. BelongsNext(l, s)
        BY <3>2, <3>4, <3>5, <3>8 DEF BelongsNext
      <3> HIDE DEF l
      <3>7. Ask(c, "heartbeat", s, l, 0, FALSE) /\ l \in Nat
        BY <3>2, <3>4, Zenon DEF l
      <3> QED
        BY <3>3, <3>6, <3>7, <1>0, Zenon DEF Posts
    <2> QED
      BY <2>1, <2>2, Zenon
  <1>2. ASSUME NEW op \in {"frame", "input"}, NEW s \in Sids, NEW q \in Nat, ReadSession(c, op, s, q)
        PROVE  Posts(c) \/ Moves(c)
    <2> DEFINE l == table[s].lease
    <2>1. /\ l \in Nat /\ table[s] \in Entry /\ BelongsNext(l, s) /\ table[s] # Absent
          /\ calls[c].pc \notin Operations
      BY <1>2, BeginsFree, NoCallIsGood, Zenon DEF Shapes, Entry, ReadSession, Named, Sessions, Belongs, BelongsNext, ctlVars
    <2>2. CASE ~Live(l)
      <3> DEFINE r == [pc |-> "expiring", sid |-> s]
      <3>1. r \in Call /\ r.pc = "expiring"
        BY Zenon DEF Call, Expiring
      <3>2. calls' = [calls EXCEPT ![c] = r] /\ UNCHANGED net
        BY <1>2, <2>2, Zenon DEF ReadSession
      <3> HIDE DEF r
      <3>3. GoodNext(r)
        BY <3>1, <1>0, Zenon DEF GoodNext
      <3> QED
        BY <2>1, <3>1, <3>2, <3>3, <1>0, Zenon DEF Moves
    <2>3. CASE Live(l) /\ Due(l)
      <3> DEFINE r == [pc |-> "renewing", op |-> op, sid |-> s, seq |-> q, copy |-> table[s]]
      <3>1. r \in Call /\ r.pc = "renewing" /\ r.copy = table[s] /\ r.sid = s
        BY <2>1, Zenon DEF Call, Renewing
      <3>2. calls' = [calls EXCEPT ![c] = r] /\ UNCHANGED net
        BY <1>2, <2>3, Zenon DEF ReadSession
      <3> HIDE DEF r
      <3>3. GoodNext(r)
        BY <3>1, <1>0, <2>1, Zenon DEF GoodNext
      <3> QED
        BY <2>1, <3>1, <3>2, <3>3, <1>0, Zenon DEF Moves
    <2>4. CASE Live(l) /\ ~Due(l)
      <3>1. Ask(c, op, s, l, q, FALSE)
        BY <1>2, <2>4, Zenon DEF ReadSession
      <3> QED
        BY <3>1, <2>1, <1>0, Zenon DEF Posts
    <2> QED
      BY <2>2, <2>3, <2>4, Zenon
  <1>3. ASSUME NEW s \in Sids, CloseRemoteDesktop(c, s)
        PROVE  Posts(c) \/ UNCHANGED <<calls, net>>
    <2>1. /\ table[s].lease \in Nat /\ table[s].started \in BOOLEAN
          /\ BelongsNext(table[s].lease, s) /\ calls[c].pc \notin Operations
      BY <1>3, BeginsFree, NoCallIsGood, Zenon
         DEF Shapes, Entry, CloseRemoteDesktop, Named, Sessions, Belongs, BelongsNext
    <2>2. CASE Live(table[s].lease) /\ offer
      <3>1. Ask(c, "close", s, table[s].lease, 0, table[s].started)
        BY <1>3, <2>2, Zenon DEF CloseRemoteDesktop
      <3> QED
        BY <3>1, <2>1, <1>0, Zenon DEF Posts
    <2>3. CASE ~ (Live(table[s].lease) /\ offer)
      BY <1>3, <2>3, Zenon DEF CloseRemoteDesktop
    <2> QED
      BY <2>2, <2>3
  <1> QED
    BY <1>1, <1>2, <1>3 DEF OwnerStep, RemoteDesktopFrame, RemoteDesktopInput, RemoteAssistAssumption

\* So do the later steps of a call.
LEMMA CallKinds ==
  ASSUME RemoteAssistAssumption, Shapes, Shapes', Named, NEW c \in Calls, CallStep(c)
  PROVE  Posts(c) \/ Moves(c)
  <1>0. {"expiring", "renewing", "storing"} \cap Operations = {}
    BY Zenon DEF Operations
  <1>1. CASE Opened(c) \/ FrameAnswered(c) \/ InputAnswered(c) \/ CloseAnswered(c) \/ ExpireSession(c)
    <2>1. Free(c) /\ (calls[c].pc = "expiring" \/ calls[c].answer # None)
      BY <1>1, Zenon DEF Opened, FrameAnswered, InputAnswered, CloseAnswered, ExpireSession, Answered
    <2> QED
      BY <2>1, <1>0, FreeMoves, Zenon
  <1>2. CASE RenewSigns(c)
    <2>1. calls[c] \in Renewing /\ calls[c].pc \notin Operations
          /\ calls[c].copy # Absent /\ Belongs(calls[c].copy.lease, calls[c].sid)
      BY <1>2, <1>0, CallShapes, Zenon DEF RenewSigns, Shapes, Named, GoodCall
    <2>2. CASE offer
      <3> DEFINE new == Signed(calls[c].sid, leases[calls[c].copy.lease].mode)
                 r == [pc |-> "storing", op |-> calls[c].op, sid |-> calls[c].sid,
                       seq |-> calls[c].seq, copy |-> calls[c].copy, lease |-> Len(leases) + 1]
      <3>1. /\ leases' = Append(leases, new) /\ calls' = [calls EXCEPT ![c] = r]
            /\ UNCHANGED net
        BY <1>2, <2>2, Zenon DEF RenewSigns
      <3>2. new.sid = calls[c].sid /\ leases \in Seq(SignedLease) /\ leases' \in Seq(SignedLease)
        BY Zenon DEF Signed, Shapes
      <3>3. /\ r \in Call /\ r.pc = "storing" /\ r.sid = calls[c].sid
            /\ r.copy = calls[c].copy /\ r.lease = Len(leases) + 1
        <4>1. /\ calls[c].op \in {"frame", "input"} /\ calls[c].sid \in Sids
              /\ calls[c].seq \in Nat /\ calls[c].copy \in Entry
          BY <2>1, Zenon DEF Renewing
        <4>2. Len(leases) + 1 \in Nat
          BY <3>2
        <4>3. r \in Storing
          BY <4>1, <4>2, Zenon DEF Storing
        <4> QED
          BY <4>3, Zenon DEF Call
      <3> HIDE DEF new, r
      <3>4. BelongsNext(Len(leases) + 1, calls[c].sid)
        <4>1. /\ Len(leases) + 1 \in DOMAIN Append(leases, new)
              /\ Append(leases, new)[Len(leases) + 1] = new
          BY <3>1, <3>2
        <4> QED
          BY <3>1, <3>2, <4>1, Zenon DEF BelongsNext
      <3>5. BelongsNext(calls[c].copy.lease, calls[c].sid)
        BY <3>1, <3>2, <2>1, SMTT(30) DEF BelongsNext, Belongs
      <3>6. GoodNext(r)
        BY <3>3, <3>4, <3>5, <2>1, Zenon DEF GoodNext
      <3> QED
        BY <3>1, <3>3, <3>6, <2>1, <1>0, Zenon DEF Moves
    <2>3. CASE ~offer
      BY <1>2, <2>1, <2>3, FreeMoves DEF RenewSigns
    <2> QED
      BY <2>2, <2>3, Zenon
  <1>3. CASE RenewStores(c)
    <2>1. calls[c] \in Storing /\ calls[c].pc \notin Operations
          /\ Belongs(calls[c].lease, calls[c].sid)
      BY <1>3, <1>0, CallShapes, Zenon DEF RenewStores, Shapes, Named, GoodCall
    <2>2. BelongsNext(calls[c].lease, calls[c].sid)
      BY <1>3, <2>1, Zenon DEF RenewStores, Belongs, BelongsNext
    <2>3. CASE Free(c)
      BY <2>1, <2>3, FreeMoves
    <2>4. CASE Ask(c, calls[c].op, calls[c].sid, calls[c].lease, calls[c].seq, FALSE)
      <3>1. /\ calls[c].op \in Operations /\ calls[c].sid \in Sids /\ calls[c].lease \in Nat
            /\ calls[c].seq \in Nat
        BY <2>1, Zenon DEF Storing, Operations
      <3> QED
        BY <2>1, <2>2, <2>4, <3>1, Zenon DEF Posts
    <2> QED
      BY <1>3, <2>3, <2>4, Zenon DEF RenewStores
  <1> QED
    BY <1>1, <1>2, <1>3, Zenon DEF CallStep

\* The worker lets in request m, or is done with it.
Enters(m) == UNCHANGED calls /\ net' = (net \ {m}) \cup {[m EXCEPT !.stage = "entered"]}
Ends(m) == \E a \in Answers \ {None} : Tell(m, a) /\ net' = net \ {m}

\* Every step is of one of these kinds, as far as calls and requests go.
LEMMA StepKinds ==
  ASSUME RemoteAssistAssumption, Shapes, Shapes', Named, [Next]_vars
  PROVE  \/ \E c \in Calls : Posts(c) \/ Moves(c) \/ TimesOut(c)
         \/ \E m \in net : Enters(m) \/ Ends(m)
         \/ WorkerRestarts
         \/ UNCHANGED <<calls, net>>
  <1>1. ASSUME NEW m \in net, HandleRequest(m) \/ Act(m) \/ RefuseToAct(m)
        PROVE  Enters(m) \/ Ends(m)
    <2>1. {"ok", "refused"} \subseteq Answers \ {None}
      BY Zenon DEF Answers, None
    <2> QED
      BY <1>1, <2>1, Zenon DEF HandleRequest, Act, RefuseToAct, Enters, Ends
  <1>2. ASSUME NEW c \in Calls, OwnerStep(c) \/ CallStep(c)
        PROVE  Posts(c) \/ Moves(c) \/ UNCHANGED <<calls, net>>
    BY <1>2, OwnerKinds, CallKinds, Zenon
  <1>3. ASSUME \/ \E l \in DOMAIN leases : LeaseAges(l)
               \/ OfferChanges \/ LocalStop \/ StopDrains \/ LocalResume \/ RevokeNode
               \/ WorkerDisallows \/ RefreshDynamicCapabilities \/ UNCHANGED vars
        PROVE  UNCHANGED <<calls, net>>
    BY <1>3, Zenon DEF LeaseAges, OfferChanges, LocalStop, StopDrains, LocalResume, RevokeNode,
                WorkerDisallows, RefreshDynamicCapabilities, vars, ctlVars
  <1> QED
    BY <1>1, <1>2, <1>3, Zenon DEF Next, OwnerStep

-----------------------------------------------------------------------------
(* Requests and the calls that wait for them.                              *)

\* Every step keeps Waits: a call is freed, or asks again, only when it was
\* answered, and an answered request is gone.
LEMMA WaitsStep ==
  ASSUME RemoteAssistAssumption, Shapes, Shapes', Named, Waits, [Next]_vars
  PROVE  Waits'
  <1>0. 0 \notin Calls /\ net \subseteq Message /\ calls \in [Calls -> Call]
    BY SMTT(30) DEF Calls, Shapes
  <1>1. ASSUME NEW c \in Calls, calls[c].pc \in Operations => calls[c].answer # None
        PROVE  \A m \in net : m.call # c
    BY <1>0, <1>1 DEF Waits
  <1>2. ASSUME NEW c \in Calls, Posts(c)
        PROVE  Waits'
    <2>1. PICK op \in Operations, s \in Sids, l \in Nat, q \in Nat, st \in BOOLEAN :
            Ask(c, op, s, l, q, st)
      BY <1>2, Zenon DEF Posts
    <2> DEFINE a == [call |-> c, op |-> op, sid |-> s, lease |-> l, seq |-> q, stage |-> "sent"]
               r == [pc |-> op, sid |-> s, lease |-> l, started |-> st, answer |-> None]
    <2>2. net' = net \cup {a} /\ calls' = [calls EXCEPT ![c] = r]
      BY <2>1, Zenon DEF Ask
    <2>3. a.call = c /\ r.pc \in Operations /\ r.answer = None
      BY Zenon
    <2>4. \A m \in net : m.call # c
      BY <1>1, <1>2, Zenon DEF Posts
    <2> HIDE DEF a, r
    <2> QED
      BY <2>2, <2>3, <2>4, <1>0, Zenon DEF Waits
  <1>3. ASSUME NEW c \in Calls, Moves(c)
        PROVE  Waits'
    <2>1. \A m \in net : m.call # c
      BY <1>1, <1>3, Zenon DEF Moves
    <2> QED
      BY <1>3, <2>1, <1>0, Zenon DEF Moves, Waits
  <1>4. ASSUME NEW c \in Calls, TimesOut(c)
        PROVE  Waits'
    <2>1. \A m \in net : [m EXCEPT !.call = IF @ = c THEN 0 ELSE @].call
                           = IF m.call = c THEN 0 ELSE m.call
      BY <1>0, Zenon DEF Message
    <2>2. \A m \in net : m.call # c => [m EXCEPT !.call = IF @ = c THEN 0 ELSE @] = m
      BY <1>0, Zenon DEF Message
    <2>3. \A n \in net' : n.call # 0 => n \in net /\ n.call # c
      BY <1>4, <2>1, <2>2, Zenon DEF TimesOut
    <2>4. \A d \in Calls : d # c => calls'[d] = calls[d]
      BY <1>4, <1>0, Zenon DEF TimesOut
    <2> QED
      BY <2>3, <2>4, Zenon DEF Waits
  <1>5. ASSUME NEW m \in net, Enters(m)
        PROVE  Waits'
    <2> DEFINE e == [m EXCEPT !.stage = "entered"]
    <2>1. e.call = m.call /\ net' = (net \ {m}) \cup {e} /\ calls' = calls
      BY <1>0, <1>5, Zenon DEF Enters, Message
    <2> HIDE DEF e
    <2> QED
      BY <2>1, Zenon DEF Waits
  <1>6. ASSUME NEW m \in net, Ends(m)
        PROVE  Waits'
    <2>1. net' = net \ {m} /\ \A d \in Calls : d # m.call => calls'[d] = calls[d]
      BY <1>0, <1>6, Zenon DEF Ends, Tell
    <2> QED
      BY <2>1, Zenon DEF Waits
  <1>7. CASE WorkerRestarts
    <2>1. net' \subseteq net
      BY <1>7 DEF WorkerRestarts
    <2>2. ASSUME NEW m \in net', m.call # 0
          PROVE  calls'[m.call] = calls[m.call]
      <3>1. m.call \in Calls /\ \A n \in net \ net' : n.call # m.call
        BY <2>1, <2>2, Zenon DEF Waits
      <3> QED
        BY <1>7, <3>1, Zenon DEF WorkerRestarts
    <2> QED
      BY <2>1, <2>2, Zenon DEF Waits
  <1>8. CASE UNCHANGED <<calls, net>>
    BY <1>8, Zenon DEF Waits
  <1> QED
    BY <1>2, <1>3, <1>4, <1>5, <1>6, <1>7, <1>8, StepKinds, Zenon

\* Telling a call its answer changes nothing else of it.
LEMMA TellKeeps ==
  ASSUME Shapes, Waits, NEW m \in net, NEW a \in Answers, Tell(m, a), NEW d \in Calls
  PROVE  calls'[d] = calls[d] \/ (calls[d] \in Asked /\ calls'[d] = [calls[d] EXCEPT !.answer = a])
  <1>1. m.call # 0 => m.call \in Calls /\ calls[m.call] \in Asked
    BY CallShapes DEF Waits, Shapes
  <1> QED
    BY <1>1, Zenon DEF Tell, Shapes

\* Every step keeps the calls' leases those of their sessions.
LEMMA GoodCallsStep ==
  ASSUME RemoteAssistAssumption, Shapes, Shapes', Named, Waits, [Next]_vars, NEW d \in Calls
  PROVE  GoodCall(calls[d])'
  <1>0. GoodCall(calls[d]) /\ calls \in [Calls -> Call]
    BY Zenon DEF Named, Shapes
  <1>1. GoodNext(calls[d])
    BY <1>0, LeasesLast, Zenon DEF GoodCall, GoodNext
  <1>2. SUFFICES GoodNext(calls'[d])
    BY Zenon DEF GoodNext, GoodCall, Belongs, BelongsNext
  <1>3. ASSUME NEW a \in Answers, calls[d] \in Asked, calls'[d] = [calls[d] EXCEPT !.answer = a]
        PROVE  GoodNext(calls'[d])
    <2>1. /\ calls'[d].pc = calls[d].pc /\ calls'[d].sid = calls[d].sid
          /\ calls'[d].lease = calls[d].lease /\ calls[d].pc \in Operations
      BY <1>3, Zenon DEF Asked
    <2>2. {"renewing", "storing"} \cap Operations = {}
      BY Zenon DEF Operations
    <2> QED
      BY <2>1, <2>2, <1>1, Zenon DEF GoodNext
  <1>4. ASSUME NEW c \in Calls, Posts(c)
        PROVE  GoodNext(calls'[d])
    <2>1. PICK op \in Operations, s \in Sids, l \in Nat, q \in Nat, st \in BOOLEAN :
            Ask(c, op, s, l, q, st) /\ BelongsNext(l, s)
      BY <1>4, Zenon DEF Posts
    <2> DEFINE r == [pc |-> op, sid |-> s, lease |-> l, started |-> st, answer |-> None]
    <2>2. calls' = [calls EXCEPT ![c] = r] /\ r.pc = op /\ r.sid = s /\ r.lease = l
      BY <2>1 DEF Ask
    <2> HIDE DEF r
    <2>3. {"renewing", "storing"} \cap Operations = {}
      BY Zenon DEF Operations
    <2>4. GoodNext(r)
      BY <2>1, <2>2, <2>3, Zenon DEF GoodNext
    <2> QED
      BY <2>2, <2>4, <1>0, <1>1, Zenon
  <1>5. ASSUME NEW c \in Calls, Moves(c)
        PROVE  GoodNext(calls'[d])
    BY <1>5, <1>0, <1>1, Zenon DEF Moves
  <1>6. ASSUME NEW c \in Calls, TimesOut(c)
        PROVE  GoodNext(calls'[d])
    <2>1. calls'[d] = calls[d] \/ (calls[d] \in Asked /\ calls'[d] = [calls[d] EXCEPT !.answer = "lost"])
      BY <1>6, <1>0, CallShapes, Zenon DEF TimesOut
    <2> QED
      BY <2>1, <1>1, <1>3, Zenon DEF Answers
  <1>7. ASSUME NEW m \in net, Enters(m) \/ Ends(m)
        PROVE  GoodNext(calls'[d])
    <2>1. CASE Enters(m)
      BY <2>1, <1>1, Zenon DEF Enters
    <2>2. CASE Ends(m)
      BY <2>2, <1>1, <1>3, TellKeeps, Zenon DEF Ends
    <2> QED
      BY <1>7, <2>1, <2>2, Zenon
  <1>8. CASE WorkerRestarts
    <2>1. CASE \E m \in net \ net' : m.call = d
      <3>1. calls[d] \in Asked
        BY <2>1, <1>0, CallShapes DEF Waits, Calls
      <3> QED
        BY <1>8, <2>1, <3>1, <1>3, Zenon DEF WorkerRestarts, Answers
    <2>2. CASE ~ \E m \in net \ net' : m.call = d
      BY <1>8, <2>2, <1>1, Zenon DEF WorkerRestarts
    <2> QED
      BY <2>1, <2>2, Zenon
  <1>9. CASE UNCHANGED <<calls, net>>
    BY <1>9, <1>1, Zenon
  <1> QED
    BY <1>4, <1>5, <1>6, <1>7, <1>8, <1>9, StepKinds, Zenon

-----------------------------------------------------------------------------
(* What a step does to the worker.                                         *)

\* The worker's step is one of these.
LEMMA WorkerKinds ==
  ASSUME RemoteAssistAssumption, Shapes, Shapes', Named, [Next]_vars
  PROVE  \/ Quiet
         \/ \E m \in net : LetsIn(m) \/ Act(m)
         \/ WorkerRestarts
  <1>0. net \subseteq Message
    BY Zenon DEF Shapes
  <1>1. ASSUME UNCHANGED <<worker, applied>>, LetIn' \subseteq LetIn
        PROVE  Quiet
    BY <1>1, Zenon DEF Quiet
  <1>2. ASSUME NEW m \in net, HandleRequest(m)
        PROVE  Quiet \/ LetsIn(m)
    <2>1. CASE Authorized(m)
      <3> DEFINE e == [m EXCEPT !.stage = "entered"]
                 w == Spent(worker, m.lease)
      <3>6. m.lease \in DOMAIN leases /\ leases \in Seq(SignedLease)
        BY Zenon DEF Named, Belongs, Shapes
      <3>1. /\ m.sid \in Sids /\ m.lease \in Nat /\ e.lease = m.lease
            /\ m.lease # 0
        <4>1. m \in Message
          BY <1>0, Zenon
        <4>2. m.sid \in Sids /\ m.lease \in Nat /\ e.lease = m.lease
          BY <4>1, Zenon DEF Message
        <4>3. m.lease # 0
          BY <3>6
        <4> QED
          BY <4>2, <4>3, Zenon
      <3>2. LetIn' \subseteq LetIn \cup {m.lease}
        <4>1. net' = (net \ {m}) \cup {e}
          BY <1>2, <2>1, Zenon DEF HandleRequest
        <4> HIDE DEF e
        <4> QED
          BY <4>1, <3>1 DEF LetIn
      <3>3. /\ UNCHANGED applied
            /\ worker.seen[m.sid].lease = m.lease \/ m.lease \notin worker.nonces
        BY <1>2, <2>1, Zenon DEF HandleRequest, Authorized, Acceptable
      <3>4. CASE worker.seen[m.sid].lease = m.lease
        <4>1. worker' = worker
          BY <1>2, <2>1, <3>4, Zenon DEF HandleRequest
        <4>2. m.lease \in worker.nonces
          BY <3>1, <3>4, Zenon DEF Named
        <4> QED
          BY <3>1, <3>2, <3>3, <3>4, <4>1, <4>2, Zenon DEF LetsIn
      <3>5. CASE worker.seen[m.sid].lease # m.lease
        <4>1. /\ w.nonces = worker.nonces \cup {m.lease} /\ w.seen = worker.seen
              /\ DOMAIN w = DOMAIN worker /\ DOMAIN worker = {"allowed", "seen", "epoch", "nonces", "active"}
          BY Zenon DEF Spent, Shapes
        <4> HIDE DEF w
        <4>2. worker' = [w EXCEPT !.seen[m.sid].lease = m.lease]
          BY <1>2, <2>1, <3>5, Zenon DEF HandleRequest, w
        <4>3. /\ worker'.nonces = worker.nonces \cup {m.lease}
              /\ worker'.seen = [worker.seen EXCEPT ![m.sid].lease = m.lease]
          BY <4>1, <4>2, Zenon
        <4>4. worker.seen \in [Sids -> Memory]
          BY Zenon DEF Shapes
        <4>5. /\ worker'.seen[m.sid].lease = m.lease
              /\ \A s \in Sids : worker'.seen[s].last = worker.seen[s].last
              /\ \A s \in Sids : s # m.sid => worker'.seen[s] = worker.seen[s]
          BY <4>3, <4>4, <3>1 DEF Memory
        <4> QED
          BY <3>2, <3>3, <4>3, <4>5, Zenon DEF LetsIn
      <3> QED
        BY <3>4, <3>5, Zenon
    <2>2. CASE ~Authorized(m)
      <3>1. net' \subseteq net /\ UNCHANGED <<worker, applied>>
        BY <1>2, <2>2, Zenon DEF HandleRequest
      <3> QED
        BY <3>1, <1>1, LetInShrinks, Zenon
    <2> QED
      BY <2>1, <2>2, Zenon
  <1>3. ASSUME NEW m \in net, RefuseToAct(m)
        PROVE  Quiet
    <2>1. net' \subseteq net /\ UNCHANGED <<worker, applied>>
      BY <1>3, Zenon DEF RefuseToAct
    <2> QED
      BY <2>1, <1>1, LetInShrinks, Zenon
  <1>4. ASSUME NEW c \in Calls, Posts(c) \/ Moves(c) \/ TimesOut(c) \/ UNCHANGED <<calls, net>>
        PROVE  LetIn' \subseteq LetIn
    <2>1. CASE Posts(c)
      BY <2>1, SMTT(30) DEF Posts, Ask, LetIn
    <2>2. CASE Moves(c) \/ UNCHANGED <<calls, net>>
      BY <2>2, Zenon DEF Moves, LetIn
    <2>3. CASE TimesOut(c)
      <3>1. \A m \in net : /\ [m EXCEPT !.call = IF @ = c THEN 0 ELSE @].stage = m.stage
                           /\ [m EXCEPT !.call = IF @ = c THEN 0 ELSE @].lease = m.lease
        BY <1>0, Zenon DEF Message
      <3> DEFINE g(m) == [m EXCEPT !.call = IF @ = c THEN 0 ELSE @]
      <3>2. net' = {g(m) : m \in net} /\ \A m \in net : g(m).stage = m.stage /\ g(m).lease = m.lease
        BY <2>3, <3>1, Zenon DEF TimesOut
      <3> HIDE DEF g
      <3>3. ASSUME NEW x \in LetIn' PROVE x \in LetIn
        <4>1. PICK n \in net' : n.stage = "entered" /\ x = n.lease
          BY <3>3, Zenon DEF LetIn
        <4>2. PICK m \in net : n = g(m)
          BY <4>1, <3>2, Zenon
        <4> QED
          BY <4>1, <4>2, <3>2 DEF LetIn
      <3> QED
        BY <3>3, Zenon
    <2> QED
      BY <1>4, <2>1, <2>2, <2>3, Zenon
  <1>5. ASSUME NEW c \in Calls, OwnerStep(c) \/ CallStep(c) \/ TimesOut(c)
        PROVE  Quiet
    <2>1. LetIn' \subseteq LetIn
      BY <1>5, <1>4, OwnerKinds, CallKinds
    <2>2. UNCHANGED <<worker, applied>>
      BY <1>5, Zenon DEF OwnerStep, OpenRemoteDesktop, RemoteDesktopFrame, RemoteDesktopInput, ReadSession,
                  CloseRemoteDesktop, CallStep, TimesOut, Opened, FrameAnswered, InputAnswered,
                  CloseAnswered, ExpireSession, RenewSigns, RenewStores
    <2> QED
      BY <2>1, <2>2, <1>1, Zenon
  <1>6. ASSUME \/ \E l \in DOMAIN leases : LeaseAges(l)
               \/ OfferChanges \/ LocalStop \/ StopDrains \/ LocalResume \/ RevokeNode \/ UNCHANGED vars
        PROVE  Quiet
    <2>1. UNCHANGED <<net, worker, applied>>
      BY <1>6, Zenon DEF LeaseAges, OfferChanges, LocalStop, StopDrains, LocalResume, RevokeNode, vars
    <2> QED
      BY <2>1, <1>1, LetInShrinks
  <1>7. CASE WorkerDisallows \/ RefreshDynamicCapabilities
    <2>1. UNCHANGED <<net, applied>>
      BY <1>7 DEF WorkerDisallows, RefreshDynamicCapabilities
    <2>2. worker'.seen = worker.seen /\ worker'.nonces = worker.nonces
      BY <1>7, Zenon DEF WorkerDisallows, RefreshDynamicCapabilities, Shapes
    <2> QED
      BY <2>1, <2>2, LetInShrinks DEF Quiet
  <1> QED
    BY <1>2, <1>3, <1>5, <1>6, <1>7, Zenon DEF Next, OwnerStep

\* The worker's nonces, requests and memory after a step.
LEMMA NoncesStep ==
  ASSUME RemoteAssistAssumption, Shapes, Shapes', Named, [Next]_vars
  PROVE  /\ worker.nonces \subseteq worker'.nonces
         /\ LetIn' \subseteq worker'.nonces
         /\ \A s \in Sids : worker'.seen[s].lease \in worker'.nonces \cup {0}
  <1>0. /\ LetIn \subseteq worker.nonces
        /\ \A s \in Sids : worker.seen[s].lease \in worker.nonces \cup {0}
        /\ Unseen.lease = 0
    BY DEF Named, Unseen
  <1>1. CASE Quiet
    BY <1>0, <1>1, Zenon DEF Quiet
  <1>2. ASSUME NEW m \in net, LetsIn(m)
        PROVE  /\ worker.nonces \subseteq worker'.nonces
               /\ LetIn' \subseteq worker'.nonces
               /\ \A s \in Sids : worker'.seen[s].lease \in worker'.nonces \cup {0}
    BY <1>0, <1>2, Zenon DEF LetsIn
  <1>3. ASSUME NEW m \in net, Act(m)
        PROVE  /\ worker.nonces \subseteq worker'.nonces
               /\ LetIn' \subseteq worker'.nonces
               /\ \A s \in Sids : worker'.seen[s].lease \in worker'.nonces \cup {0}
    <2>1. /\ LetIn' \subseteq LetIn /\ worker'.nonces = worker.nonces
          /\ \A s \in Sids : s # m.sid => worker'.seen[s] = worker.seen[s]
          /\ \/ worker'.seen[m.sid] = Unseen
             \/ worker'.seen[m.sid].lease = worker.seen[m.sid].lease
             \/ worker'.seen = worker.seen
      BY <1>3, ActKinds, Zenon
    <2> QED
      BY <2>1, <1>0
  <1>4. CASE WorkerRestarts
    <2>1. net' \subseteq net
      BY <1>4, Zenon DEF WorkerRestarts
    <2>2. worker'.nonces = worker.nonces /\ worker'.seen = [s \in Sids |-> Unseen]
      BY <1>4 DEF WorkerRestarts, Shapes
    <2> QED
      BY <2>1, <2>2, <1>0, LetInShrinks
  <1> QED
    BY <1>1, <1>2, <1>3, <1>4, WorkerKinds, Zenon

\* A request on its way, or inside the worker, names a lease of its session.
LEMMA RequestsStep ==
  ASSUME RemoteAssistAssumption, Shapes, Shapes', Named, [Next]_vars, NEW n \in net'
  PROVE  BelongsNext(n.lease, n.sid)
  <1>0. net \subseteq Message /\ \A m \in net : BelongsNext(m.lease, m.sid)
    BY LeasesLast, Zenon DEF Shapes, Named
  <1>1. CASE n \in net
    BY <1>0, <1>1, Zenon
  <1>2. ASSUME NEW c \in Calls, Posts(c)
        PROVE  BelongsNext(n.lease, n.sid)
    BY <1>0, <1>2, SMTT(30) DEF Posts, Ask
  <1>3. ASSUME NEW m \in net, n.lease = m.lease, n.sid = m.sid
        PROVE  BelongsNext(n.lease, n.sid)
    BY <1>0, <1>3, Zenon
  <1>4. ASSUME NEW c \in Calls, TimesOut(c)
        PROVE  BelongsNext(n.lease, n.sid)
    <2>1. PICK m \in net : n = [m EXCEPT !.call = IF @ = c THEN 0 ELSE @]
      BY <1>4, Zenon DEF TimesOut
    <2>2. n.lease = m.lease /\ n.sid = m.sid
      BY <2>1, <1>0, Zenon DEF Message
    <2> QED
      BY <2>2, <1>3, Zenon
  <1>5. ASSUME NEW m \in net, Enters(m)
        PROVE  BelongsNext(n.lease, n.sid)
    <2>1. n \in net \/ n = [m EXCEPT !.stage = "entered"]
      BY <1>5, Zenon DEF Enters
    <2>2. CASE n = [m EXCEPT !.stage = "entered"]
      <3>1. n.lease = m.lease /\ n.sid = m.sid
        BY <2>2, <1>0, Zenon DEF Message
      <3> QED
        BY <3>1, <1>3, Zenon
    <2> QED
      BY <2>1, <2>2, <1>1, Zenon
  <1>6. (\E c \in Calls : Moves(c)) \/ (\E m \in net : Ends(m)) \/ WorkerRestarts \/ UNCHANGED <<calls, net>>
          => n \in net
    BY Zenon DEF Moves, Ends, WorkerRestarts
  <1> QED
    BY <1>1, <1>2, <1>4, <1>5, <1>6, StepKinds, Zenon

\* What the worker applied or closed names a lease of its session, spent.
LEMMA AppliedStep ==
  ASSUME RemoteAssistAssumption, Shapes, Shapes', Named, [Next]_vars, NEW i \in DOMAIN applied'
  PROVE  BelongsNext(applied'[i].lease, applied'[i].sid) /\ applied'[i].lease \in worker'.nonces
  <1>1. \A k \in DOMAIN applied :
          BelongsNext(applied[k].lease, applied[k].sid) /\ applied[k].lease \in worker'.nonces
    BY LeasesLast, NoncesStep, Zenon DEF Named
  <1>2. CASE UNCHANGED applied
    BY <1>1, <1>2, Zenon
  <1>3. ASSUME NEW m \in net, Act(m), ~ UNCHANGED applied
        PROVE  BelongsNext(applied'[i].lease, applied'[i].sid) /\ applied'[i].lease \in worker'.nonces
    <2>1. PICK op \in {"input", "close"} :
            applied' = Append(applied, [op |-> op, sid |-> m.sid, lease |-> m.lease, seq |-> m.seq])
      BY <1>3, ActKinds, Zenon
    <2> DEFINE x == [op |-> op, sid |-> m.sid, lease |-> m.lease, seq |-> m.seq]
    <2>2. applied' = Append(applied, x) /\ x.lease = m.lease /\ x.sid = m.sid /\ applied \in Seq(Done)
      BY <2>1, Zenon DEF Shapes
    <2> HIDE DEF x
    <2>3. (i \in DOMAIN applied /\ applied'[i] = applied[i]) \/ applied'[i] = x
      BY <2>2
    <2>4. BelongsNext(m.lease, m.sid) /\ m.lease \in worker'.nonces
      BY <1>3, ActKinds, LeasesLast, NoncesStep, Zenon DEF Named
    <2> QED
      BY <1>1, <2>2, <2>3, <2>4, Zenon
  <1> QED
    BY <1>2, <1>3, WorkerKinds, Zenon DEF Quiet, LetsIn, WorkerRestarts

\* Nothing enters the session table but by Opened and RenewStores.
TableShrinks ==
  \A s \in Sids : table'[s] # Absent => table[s] # Absent /\ table'[s].lease = table[s].lease

\* Every step but those two leaves the table smaller or as it was.
LEMMA TableKinds ==
  ASSUME RemoteAssistAssumption, Shapes, [Next]_vars
  PROVE  \/ TableShrinks
         \/ \E c \in Calls : Opened(c) \/ RenewStores(c)
  <1>0. table \in [Sids -> Entry]
    BY Zenon DEF Shapes
  <1>1. UNCHANGED table => TableShrinks
    BY Zenon DEF TableShrinks
  <1>2. ASSUME NEW c \in Calls, OwnerStep(c)
        PROVE  TableShrinks
    <2>1. ASSUME NEW mode \in Modes, OpenRemoteDesktop(c, mode)
          PROVE  TableShrinks
      BY <2>1, <1>0, Zenon DEF OpenRemoteDesktop, TableShrinks
    <2>2. ASSUME NEW s \in Sids, CloseRemoteDesktop(c, s)
          PROVE  TableShrinks
      BY <2>2, <1>0 DEF CloseRemoteDesktop, TableShrinks
    <2>3. ASSUME NEW op, NEW s, NEW q, ReadSession(c, op, s, q)
          PROVE  UNCHANGED table
      BY <2>3, Zenon DEF ReadSession, ctlVars
    <2> QED
      BY <1>2, <2>1, <2>2, <2>3, <1>1 DEF OwnerStep, RemoteDesktopFrame, RemoteDesktopInput
  <1>3. ASSUME NEW c \in Calls, InputAnswered(c)
        PROVE  TableShrinks
    <2>1. \A s \in Sids : Started(table[s]).lease = table[s].lease
      BY <1>0, Zenon DEF Started, Entry
    <2> QED
      BY <1>3, <2>1, <1>0, Zenon DEF InputAnswered, TableShrinks, Sessions
  <1>4. ASSUME NEW c \in Calls, ExpireSession(c)
        PROVE  TableShrinks
    BY <1>4, <1>0 DEF ExpireSession, TableShrinks
  <1>5. CASE StopDrains \/ RevokeNode
    BY <1>5, Zenon DEF StopDrains, RevokeNode, TableShrinks
  <1>6. ASSUME \/ \E l \in DOMAIN leases : LeaseAges(l)
               \/ \E c \in Calls : FrameAnswered(c) \/ CloseAnswered(c) \/ RenewSigns(c) \/ TimesOut(c)
               \/ \E m \in net : HandleRequest(m) \/ Act(m) \/ RefuseToAct(m)
               \/ OfferChanges \/ LocalStop \/ LocalResume \/ WorkerRestarts \/ WorkerDisallows
               \/ RefreshDynamicCapabilities \/ UNCHANGED vars
        PROVE  UNCHANGED table
    BY <1>6, Zenon DEF LeaseAges, FrameAnswered, CloseAnswered, RenewSigns, TimesOut, HandleRequest, Act,
                RefuseToAct, OfferChanges, LocalStop, LocalResume, WorkerRestarts, WorkerDisallows,
                RefreshDynamicCapabilities, vars, ctlVars
  <1> QED
    BY <1>1, <1>2, <1>3, <1>4, <1>5, <1>6, Zenon DEF Next, OwnerStep, CallStep

\* Every step keeps leases and sessions together.
LEMMA NamedStep ==
  ASSUME RemoteAssistAssumption, Shapes, Shapes', Named, Waits, [Next]_vars
  PROVE  Named'
  <1>1. ASSUME NEW s \in Sids, table'[s] # Absent
        PROVE  BelongsNext(table'[s].lease, s)
    <2>1. \A t \in Sids : table[t] # Absent => BelongsNext(table[t].lease, t)
      BY LeasesLast, Zenon DEF Named, Sessions
    <2>2. CASE TableShrinks
      BY <1>1, <2>1, <2>2, Zenon DEF TableShrinks
    <2>3. ASSUME NEW c \in Calls, Opened(c) \/ RenewStores(c)
          PROVE  BelongsNext(table'[s].lease, s)
      <3>1. GoodCall(calls[c]) /\ table \in [Sids -> Entry]
        BY Zenon DEF Named, Shapes
      <3>2. calls[c].pc \in Operations \cup {"storing"}
        BY <2>3, Zenon DEF Opened, RenewStores, Answered, Operations
      <3>3. BelongsNext(calls[c].lease, calls[c].sid)
        BY <3>1, <3>2, LeasesLast, Zenon DEF GoodCall
      <3>4. table'[s] = table[s] \/ (s = calls[c].sid /\ table'[s].lease = calls[c].lease)
        <4> DEFINE e == [lease |-> calls[c].lease, started |-> FALSE]
        <4>1. e.lease = calls[c].lease /\ Renewed(calls[c]).lease = calls[c].lease
          BY DEF Renewed
        <4>2. \/ UNCHANGED table
              \/ table' = [table EXCEPT ![calls[c].sid] = e]
              \/ table' = [table EXCEPT ![calls[c].sid] = Renewed(calls[c])]
          BY <2>3, Zenon DEF Opened, RenewStores
        <4> HIDE DEF e
        <4> QED
          BY <4>1, <4>2, <3>1, Zenon
      <3> QED
        BY <1>1, <2>1, <3>3, <3>4, Zenon
    <2> QED
      BY <2>2, <2>3, TableKinds
  <1>2. \A s \in Sessions' : Belongs(table[s].lease, s)'
    BY <1>1, Zenon DEF Sessions, Belongs, BelongsNext
  <1>3. \A c \in Calls : GoodCall(calls[c])'
    BY GoodCallsStep, Zenon
  <1>4. \A m \in net' : Belongs(m.lease, m.sid)'
    BY RequestsStep, Zenon DEF Belongs, BelongsNext
  <1>5. \A i \in DOMAIN applied' : (Belongs(applied[i].lease, applied[i].sid) /\ applied[i].lease \in worker.nonces)'
    BY AppliedStep, Zenon DEF Belongs, BelongsNext
  <1> QED
    BY <1>2, <1>3, <1>4, <1>5, NoncesStep, Zenon DEF Named

-----------------------------------------------------------------------------
(* The gate, STOP and the session table.                                   *)

GateInv == Opening /\ StopClears /\ OneSessionUnlessRaced

\* Steps that take neither gate nor latch, begin no opening and add no session.
Idle ==
  /\ UNCHANGED <<gate, latch, raced>> /\ Sessions' \subseteq Sessions
  /\ \A d \in Calls : calls'[d].pc = "heartbeat" => calls[d].pc = "heartbeat"

\* A table that only shrinks has no new session.
LEMMA ShrunkSessions ==
  ASSUME TableShrinks
  PROVE  Sessions' \subseteq Sessions
  BY Zenon DEF TableShrinks, Sessions

\* No call begins an opening when only answers change.
LEMMA NoOpening ==
  ASSUME RemoteAssistAssumption, Shapes, Waits, NEW d \in Calls,
         \/ UNCHANGED calls
         \/ \E m \in net, a \in Answers : Tell(m, a)
         \/ \E c \in Calls : TimesOut(c)
         \/ WorkerRestarts
  PROVE  calls'[d].pc = "heartbeat" => calls[d].pc = "heartbeat"
  <1>0. calls \in [Calls -> Call]
    BY DEF Shapes
  <1>1. ASSUME NEW a, calls[d] \in Asked
        PROVE  [calls[d] EXCEPT !.answer = a].pc = calls[d].pc
    BY <1>1 DEF Asked
  <1>2. ASSUME NEW m \in net, NEW a \in Answers, Tell(m, a)
        PROVE  calls'[d].pc = calls[d].pc
    BY <1>2, <1>1, TellKeeps, Zenon
  <1>3. ASSUME NEW c \in Calls, TimesOut(c)
        PROVE  calls'[d].pc = calls[d].pc
    <2>1. calls'[d] = calls[d] \/ (calls[d] \in Asked /\ calls'[d] = [calls[d] EXCEPT !.answer = "lost"])
      BY <1>3, <1>0, CallShapes, Zenon DEF TimesOut
    <2> QED
      BY <2>1, <1>1, Zenon
  <1>4. CASE WorkerRestarts
    <2>1. CASE \E m \in net \ net' : m.call = d
      <3>1. calls[d] \in Asked
        BY <2>1, <1>0, CallShapes DEF Waits, Calls
      <3> QED
        BY <1>4, <2>1, <3>1, <1>1, Zenon DEF WorkerRestarts
    <2>2. CASE ~ \E m \in net \ net' : m.call = d
      BY <1>4, <2>2, Zenon DEF WorkerRestarts
    <2> QED
      BY <2>1, <2>2
  <1> QED
    BY <1>2, <1>3, <1>4, Zenon

\* An idle step keeps what is said of gate and table.
LEMMA IdleKeeps ==
  ASSUME GateInv, Idle
  PROVE  GateInv'
  <1>1. Opening'
    BY Zenon DEF GateInv, Idle, Opening
  <1>2. StopClears'
    BY Zenon DEF GateInv, Idle, StopClears
  <1>3. OneSessionUnlessRaced'
    BY Zenon DEF GateInv, Idle, OneSessionUnlessRaced
  <1> QED
    BY <1>1, <1>2, <1>3, Zenon DEF GateInv

\* Opening begins with a table that holds nothing.
LEMMA OpenGate ==
  ASSUME RemoteAssistAssumption, Shapes, GateInv, NEW c \in Calls, NEW mode \in Modes,
         OpenRemoteDesktop(c, mode)
  PROVE  GateInv'
  <1> DEFINE kept == {s \in Sessions : Live(table[s].lease)}
  <1>0. calls \in [Calls -> Call] /\ table \in [Sids -> Entry]
    BY Zenon DEF Shapes
  <1>1. CASE Conflicting(kept) \/ ~offer
    <2>1. TableShrinks
      BY Zenon DEF OpenRemoteDesktop, TableShrinks
    <2>2. UNCHANGED <<gate, latch, raced, calls>>
      BY <1>1, Zenon DEF OpenRemoteDesktop
    <2> QED
      BY <2>1, <2>2, ShrunkSessions, IdleKeeps, Zenon DEF Idle
  <1>2. CASE ~ (Conflicting(kept) \/ ~offer)
    <2>1. kept = {}
      BY <1>2, Zenon DEF Conflicting
    <2>2. Sessions' = {}
      BY <2>1, Zenon DEF OpenRemoteDesktop, Sessions
    <2>3. gate = 0 /\ ~latch' /\ gate' = c
      BY <1>2, Zenon DEF OpenRemoteDesktop
    <2>4. \A d \in Calls : calls'[d].pc = "heartbeat" => d = c
      <3>1. \A d \in Calls : d # c => calls'[d] = calls[d]
        BY <1>2, <1>0, Zenon DEF OpenRemoteDesktop, Ask
      <3>2. \A d \in Calls : calls[d].pc # "heartbeat"
        BY <2>3 DEF GateInv, Opening, Calls
      <3> QED
        BY <3>1, <3>2, Zenon
    <2>5. Opening'
      BY <2>2, <2>3, <2>4, Zenon DEF Opening
    <2>6. StopClears' /\ OneSessionUnlessRaced'
      BY <2>2, <2>3, Zenon DEF StopClears, OneSessionUnlessRaced
    <2> QED
      BY <2>5, <2>6, Zenon DEF GateInv
  <1> QED
    BY <1>1, <1>2, Zenon

\* A session opens under the gate, beside none or beside raced ones.
LEMMA OpenedGate ==
  ASSUME RemoteAssistAssumption, Shapes, GateInv, NEW c \in Calls, Opened(c)
  PROVE  GateInv'
  <1>0. calls \in [Calls -> Call] /\ table \in [Sids -> Entry] /\ NoCall.pc # "heartbeat"
    BY DEF Shapes, NoCall, None
  <1>1. calls[c].pc = "heartbeat" /\ gate = c /\ ~latch /\ Sessions \subseteq raced
    BY Zenon DEF Opened, Answered, GateInv, Opening
  <1>2. UNCHANGED <<latch, raced>> /\ \A s \in Sessions' : s \in Sessions \/ s = calls[c].sid
    BY <1>0, Zenon DEF Opened, Sessions
  <1>3. \A d \in Calls : calls'[d].pc # "heartbeat"
    BY <1>0, <1>1, Zenon DEF Opened, Free, GateInv, Opening
  <1>4. Opening'
    BY <1>3, Zenon DEF Opening
  <1>5. StopClears'
    BY <1>1, <1>2, Zenon DEF StopClears
  <1>6. OneSessionUnlessRaced'
    BY <1>1, <1>2 DEF OneSessionUnlessRaced
  <1> QED
    BY <1>4, <1>5, <1>6, Zenon DEF GateInv

\* A renewal writes back a session that is still there, or races.
LEMMA StoreGate ==
  ASSUME RemoteAssistAssumption, Shapes, Named, GateInv, NEW c \in Calls, RenewStores(c)
  PROVE  GateInv'
  <1> DEFINE r == calls[c]
  <1>0. calls \in [Calls -> Call] /\ table \in [Sids -> Entry] /\ NoCall.pc # "heartbeat"
    BY DEF Shapes, NoCall, None
  <1>1. r \in Storing /\ r.copy # Absent
    BY CallShapes, Zenon DEF RenewStores, Shapes, Named, GoodCall
  <1>2. r.op # "heartbeat" /\ r.sid \in Sids
    BY <1>1 DEF Storing
  <1>3. \A s \in Sessions' : s \in Sessions \/ s = r.sid
    BY <1>0, Zenon DEF RenewStores, Sessions
  <1>4. raced \subseteq raced' /\ (r.sid \in Sessions \/ r.sid \in raced')
    BY <1>1, <1>2, Zenon DEF RenewStores, Sessions
  <1>5. UNCHANGED <<gate, latch>>
    BY Zenon DEF RenewStores
  <1>6. \A d \in Calls : calls'[d].pc = "heartbeat" => calls[d].pc = "heartbeat"
    <2>1. CASE Free(c)
      BY <2>1, <1>0, Zenon DEF Free
    <2>2. CASE Ask(c, r.op, r.sid, r.lease, r.seq, FALSE)
      BY <2>2, <1>0, <1>2 DEF Ask
    <2> QED
      BY <2>1, <2>2, Zenon DEF RenewStores
  <1>7. Opening'
    BY <1>3, <1>4, <1>5, <1>6, Zenon DEF Opening, GateInv
  <1>8. StopClears'
    BY <1>3, <1>4, <1>5, Zenon DEF StopClears, GateInv
  <1>9. OneSessionUnlessRaced'
    BY <1>3, <1>4 DEF OneSessionUnlessRaced, GateInv
  <1> QED
    BY <1>7, <1>8, <1>9, Zenon DEF GateInv

\* STOP waits for the gate, and drains the table before it gives it back.
LEMMA StopGate ==
  ASSUME RemoteAssistAssumption, Shapes, GateInv, LocalStop \/ StopDrains \/ LocalResume
  PROVE  GateInv'
  <1>1. CASE LocalStop
    <2>1. \A d \in Calls : calls[d].pc # "heartbeat"
      BY <1>1 DEF LocalStop, GateInv, Opening, Calls
    <2>2. UNCHANGED <<calls, table, raced>> /\ gate' = Stop
      BY <1>1, Zenon DEF LocalStop
    <2> QED
      BY <2>1, <2>2, Zenon DEF GateInv, Opening, StopClears, OneSessionUnlessRaced, Sessions
  <1>2. CASE StopDrains
    <2>1. Sessions' = {} /\ UNCHANGED <<calls, latch, raced>>
      BY <1>2, Zenon DEF StopDrains, Sessions
    <2>2. Stop \notin Calls
      BY DEF RemoteAssistAssumption, Calls, Stop
    <2>3. \A d \in Calls : calls[d].pc # "heartbeat"
      BY <1>2, <2>2, Zenon DEF StopDrains, GateInv, Opening
    <2> QED
      BY <2>1, <2>3, Zenon DEF GateInv, Opening, StopClears, OneSessionUnlessRaced
  <1>3. CASE LocalResume
    <2>1. UNCHANGED <<calls, table, raced, gate>> /\ ~latch'
      BY <1>3, Zenon DEF LocalResume
    <2> QED
      BY <2>1, Zenon DEF GateInv, Opening, StopClears, OneSessionUnlessRaced, Sessions
  <1> QED
    BY <1>1, <1>2, <1>3, Zenon

\* A call that goes on to something else is no new opening.
LEMMA NoNewHeartbeat ==
  ASSUME calls \in [Calls -> Call], NEW c \in Calls, NEW x, x.pc # "heartbeat",
         calls' = [calls EXCEPT ![c] = x]
  PROVE  \A d \in Calls : calls'[d].pc = "heartbeat" => calls[d].pc = "heartbeat"
  BY Zenon

\* Every step keeps what is said of the gate, STOP and the table.
LEMMA GateStep ==
  ASSUME RemoteAssistAssumption, Shapes, Shapes', Named, Waits, GateInv, [Next]_vars
  PROVE  GateInv'
  <1>0. /\ calls \in [Calls -> Call] /\ table \in [Sids -> Entry]
        /\ NoCall.pc # "heartbeat"
    BY Zenon DEF Shapes, NoCall, None
  <1>1. ASSUME UNCHANGED <<gate, latch, raced>>, TableShrinks,
               \A d \in Calls : calls'[d].pc = "heartbeat" => calls[d].pc = "heartbeat"
        PROVE  GateInv'
    BY <1>1, ShrunkSessions, IdleKeeps, Zenon DEF Idle
  <1>2. ASSUME NEW op \in {"frame", "input"}, NEW c \in Calls, NEW s \in Sids, NEW q, ReadSession(c, op, s, q)
        PROVE  GateInv'
    <2>1. UNCHANGED <<gate, latch, raced, table>>
      BY <1>2, Zenon DEF ReadSession, ctlVars
    <2>2. \A d \in Calls : calls'[d].pc = "heartbeat" => calls[d].pc = "heartbeat"
      <3>1. \/ calls' = [calls EXCEPT ![c] = [pc |-> "expiring", sid |-> s]]
            \/ calls' = [calls EXCEPT ![c] = [pc |-> "renewing", op |-> op,
                                              sid |-> s, seq |-> q, copy |-> table[s]]]
            \/ calls' = [calls EXCEPT ![c] = [pc |-> op, sid |-> s, lease |-> table[s].lease,
                                              started |-> FALSE, answer |-> None]]
        BY <1>2, Zenon DEF ReadSession, Ask
      <3>2. /\ [pc |-> "expiring", sid |-> s].pc # "heartbeat"
            /\ [pc |-> "renewing", op |-> op, sid |-> s, seq |-> q, copy |-> table[s]].pc # "heartbeat"
            /\ [pc |-> op, sid |-> s, lease |-> table[s].lease,
                started |-> FALSE, answer |-> None].pc # "heartbeat"
        BY Zenon
      <3> QED
        BY <1>0, <3>1, <3>2, NoNewHeartbeat, Zenon
    <2> QED
      BY <2>1, <2>2, <1>1 DEF TableShrinks
  <1>3. ASSUME NEW c \in Calls, NEW s \in Sids, CloseRemoteDesktop(c, s)
        PROVE  GateInv'
    <2>1. UNCHANGED <<gate, latch, raced>> /\ TableShrinks
      BY <1>3, <1>0 DEF CloseRemoteDesktop, TableShrinks
    <2>2. \A d \in Calls : calls'[d].pc = "heartbeat" => calls[d].pc = "heartbeat"
      <3>1. \/ calls' = calls
            \/ calls' = [calls EXCEPT ![c] = [pc |-> "close", sid |-> s, lease |-> table[s].lease,
                                              started |-> table[s].started, answer |-> None]]
        BY <1>3, Zenon DEF CloseRemoteDesktop, Ask
      <3>2. [pc |-> "close", sid |-> s, lease |-> table[s].lease,
             started |-> table[s].started, answer |-> None].pc # "heartbeat"
        BY Zenon
      <3> QED
        BY <1>0, <3>1, <3>2, NoNewHeartbeat, Zenon
    <2> QED
      BY <2>1, <2>2, <1>1, Zenon
  <1>4. ASSUME NEW c \in Calls,
               FrameAnswered(c) \/ InputAnswered(c) \/ CloseAnswered(c) \/ ExpireSession(c) \/ RenewSigns(c)
        PROVE  GateInv'
    <2>1. UNCHANGED <<gate, latch, raced>>
      BY <1>4, Zenon DEF FrameAnswered, InputAnswered, CloseAnswered, ExpireSession, RenewSigns, ctlVars
    <2>2. \A d \in Calls : calls'[d].pc = "heartbeat" => calls[d].pc = "heartbeat"
      <3>1. \/ calls' = [calls EXCEPT ![c] = NoCall]
            \/ calls' = [calls EXCEPT ![c] = [pc |-> "storing", op |-> calls[c].op, sid |-> calls[c].sid,
                                              seq |-> calls[c].seq, copy |-> calls[c].copy,
                                              lease |-> Len(leases) + 1]]
        BY <1>4, Zenon DEF FrameAnswered, InputAnswered, CloseAnswered, ExpireSession, RenewSigns, Free
      <3>2. [pc |-> "storing", op |-> calls[c].op, sid |-> calls[c].sid, seq |-> calls[c].seq,
             copy |-> calls[c].copy, lease |-> Len(leases) + 1].pc # "heartbeat"
        OBVIOUS
      <3> QED
        BY <1>0, <3>1, <3>2, NoNewHeartbeat, Zenon
    <2>3. TableShrinks
      <3>1. \A s \in Sids : Started(table[s]).lease = table[s].lease
        BY <1>0, Zenon DEF Started, Entry
      <3>2. CASE InputAnswered(c)
        BY <3>2, <3>1, <1>0, Zenon DEF InputAnswered, TableShrinks, Sessions
      <3>3. CASE ExpireSession(c)
        BY <3>3, <1>0, Zenon DEF ExpireSession, TableShrinks
      <3> QED
        BY <1>4, <3>2, <3>3, Zenon DEF FrameAnswered, CloseAnswered, RenewSigns, ctlVars, TableShrinks
    <2> QED
      BY <2>1, <2>2, <2>3, <1>1
  <1>5. ASSUME \/ \E l \in DOMAIN leases : LeaseAges(l)
               \/ OfferChanges \/ RevokeNode \/ WorkerDisallows \/ RefreshDynamicCapabilities
               \/ UNCHANGED vars
        PROVE  GateInv'
    <2>1. UNCHANGED <<gate, latch, raced, calls>> /\ TableShrinks
      BY <1>5 DEF LeaseAges, OfferChanges, RevokeNode, WorkerDisallows, RefreshDynamicCapabilities,
                  vars, ctlVars, TableShrinks
    <2> QED
      BY <2>1, <1>1, Zenon
  <1>6. ASSUME \/ \E c \in Calls : TimesOut(c)
               \/ \E m \in net : HandleRequest(m) \/ Act(m) \/ RefuseToAct(m)
               \/ WorkerRestarts
        PROVE  GateInv'
    <2>1. UNCHANGED <<gate, latch, raced, table>>
      BY <1>6, Zenon DEF TimesOut, HandleRequest, Act, RefuseToAct, WorkerRestarts, ctlVars
    <2>2. {"ok", "refused"} \subseteq Answers
      BY Zenon DEF Answers
    <2>3. \/ UNCHANGED calls
          \/ \E m \in net, a \in Answers : Tell(m, a)
          \/ \E c \in Calls : TimesOut(c)
          \/ WorkerRestarts
      BY <1>6, <2>2, Zenon DEF HandleRequest, Act, RefuseToAct
    <2>4. \A d \in Calls : calls'[d].pc = "heartbeat" => calls[d].pc = "heartbeat"
      BY <2>3, NoOpening, Zenon
    <2> QED
      BY <2>1, <2>4, <1>1, Zenon DEF TableShrinks
  <1>7. ASSUME NEW c \in Calls, OwnerStep(c) \/ CallStep(c)
        PROVE  GateInv'
    BY <1>7, <1>2, <1>3, <1>4, OpenGate, OpenedGate, StoreGate, Zenon
       DEF OwnerStep, CallStep, RemoteDesktopFrame, RemoteDesktopInput
  <1> QED
    BY <1>5, <1>6, <1>7, StopGate, Zenon DEF Next, OwnerStep

-----------------------------------------------------------------------------
(* The inputs of a lease.                                                  *)

\* Every step keeps the order of a lease's inputs.
LEMMA OrderStep ==
  ASSUME RemoteAssistAssumption, Shapes, Shapes', Named, Remembered, LeaseInputsInOrder, [Next]_vars
  PROVE  Remembered' /\ LeaseInputsInOrder'
  <1>0. applied \in Seq(Done) /\ leases \in Seq(SignedLease)
    BY DEF Shapes
  <1>1. UNCHANGED applied => LeaseInputsInOrder'
    BY <1>0, OrderKept
  <1>2. CASE Quiet
    <2>1. Remembered'
      BY <1>2 DEF Quiet, Remembered, Forgotten, ClosedSince
    <2> QED
      BY <1>1, <1>2, <2>1, Zenon DEF Quiet
  <1>3. ASSUME NEW m \in net, LetsIn(m)
        PROVE  Remembered' /\ LeaseInputsInOrder'
    BY <1>1, <1>3, LetsInRemembers, Zenon DEF LetsIn
  <1>4. CASE WorkerRestarts
    <2>1. UNCHANGED applied /\ LetIn' = {}
      BY <1>4, Zenon DEF WorkerRestarts, LetIn
    <2>2. worker'.seen = [s \in Sids |-> Unseen]
      BY <1>4, Zenon DEF WorkerRestarts, Shapes
    <2>3. ASSUME NEW i \in DOMAIN applied
          PROVE  Forgotten(i)'
      <3>1. applied[i] \in Done /\ applied[i].lease \in DOMAIN leases
        BY <1>0 DEF Named, Belongs
      <3>2. applied[i].sid \in Sids /\ applied[i].lease # 0
        BY <1>0, <3>1 DEF Done
      <3>3. worker'.seen[applied[i].sid].lease = 0
        BY <2>2, <3>2 DEF Unseen
      <3> QED
        BY <2>1, <3>2, <3>3, Zenon DEF Forgotten
    <2>4. Remembered'
      BY <2>1, <2>3, Zenon DEF Remembered
    <2> QED
      BY <1>1, <2>1, <2>4, Zenon
  <1> QED
    BY <1>2, <1>3, <1>4, ActOrder, WorkerKinds

-----------------------------------------------------------------------------
(* The results.                                                            *)

\* The invariant holds when controller and worker start.
LEMMA AssistStart ==
  ASSUME RemoteAssistAssumption, Init
  PROVE  AssistInv
  <1>1. Absent \in Entry /\ Unseen \in Memory /\ NoCall \in Call /\ Unseen.lease = 0
    BY Zenon DEF Absent, Entry, Unseen, Memory, Call
  <1>2. Shapes
    <2>1. worker \in [allowed : BOOLEAN, seen : [Sids -> Memory], epoch : Nat,
                      nonces : SUBSET Nat, active : Nat]
      BY <1>1, Zenon DEF Init
    <2>2. table \in [Sids -> Entry] /\ calls \in [Calls -> Call]
      BY <1>1, Zenon DEF Init
    <2>3. leases \in Seq(SignedLease) /\ applied \in Seq(Done)
      BY DEF Init
    <2> QED
      BY <2>1, <2>2, <2>3, Zenon DEF Init, Shapes
  <1>3. Sessions = {} /\ LetIn = {} /\ DOMAIN applied = {} /\ net = {} /\ ~latch
    BY SMTT(30), Zenon DEF Init, Sessions, LetIn
  <1>4. \A c \in Calls : calls[c] = NoCall
    BY Zenon DEF Init
  <1>5. \A c \in Calls : GoodCall(calls[c]) /\ calls[c].pc \notin Operations
    BY <1>4, NoCallIsGood, Zenon
  <1>6. \A s \in Sids : worker.seen[s].lease = 0
    BY <1>1 DEF Init
  <1>7. Named /\ Waits
    BY <1>3, <1>5, <1>6, Zenon DEF Named, Waits
  <1>8. Opening
    BY <1>5, Zenon DEF Opening, Operations
  <1>9. Remembered /\ StopClears /\ OneSessionUnlessRaced /\ LeaseInputsInOrder
    BY <1>3, Zenon DEF Remembered, StopClears, OneSessionUnlessRaced, LeaseInputsInOrder
  <1> QED
    BY <1>2, <1>7, <1>8, <1>9, Zenon DEF AssistInv

\* Every step keeps the invariant.
LEMMA AssistStep ==
  ASSUME RemoteAssistAssumption, AssistInv, [Next]_vars
  PROVE  AssistInv'
  <1>1. Shapes'
    BY ShapesStep, Zenon DEF AssistInv
  <1>2. Named' /\ Waits'
    BY <1>1, NamedStep, WaitsStep, Zenon DEF AssistInv
  <1>3. GateInv'
    BY <1>1, GateStep, Zenon DEF AssistInv, GateInv
  <1>4. Remembered' /\ LeaseInputsInOrder'
    BY <1>1, OrderStep DEF AssistInv
  <1> QED
    BY <1>1, <1>2, <1>3, <1>4, Zenon DEF AssistInv, GateInv

\* The invariant holds in every state.
LEMMA AssistAlways == Spec => []AssistInv
  <1>1. Init => AssistInv
    BY AssistStart, RemoteAssistAssumption, Zenon
  <1>2. AssistInv /\ [Next]_vars => AssistInv'
    BY AssistStep, RemoteAssistAssumption
  <1> QED
    BY <1>1, <1>2, PTL DEF Spec

\* Once local_stop has drained the session table, a session is in it again only
\* because a renewal that was under way wrote it back: opening holds the gate
\* that STOP waits for, for any number of sessions, leases and requests.
THEOREM StopClearsSessions == Spec => []StopClears
  <1>1. AssistInv => StopClears
    BY Zenon DEF AssistInv
  <1> QED
    BY <1>1, AssistAlways, PTL

\* open_remote_desktop keeps one session of the worker, except for sessions
\* that a renewal wrote back after they were closed, expired or drained.
THEOREM SecondSessionIsRaced == Spec => []OneSessionUnlessRaced
  <1>1. AssistInv => OneSessionUnlessRaced
    BY Zenon DEF AssistInv
  <1> QED
    BY <1>1, AssistAlways, PTL

\* Under one lease the worker applies inputs in strictly rising order unless
\* their session was closed in between: the last sequence is forgotten only by
\* a closing or a restart, and after a restart the spent nonce bars the lease.
THEOREM InputsAreOrdered == Spec => []LeaseInputsInOrder
  <1>1. AssistInv => LeaseInputsInOrder
    BY DEF AssistInv
  <1> QED
    BY <1>1, AssistAlways, PTL
=============================================================================
