---------------------------- MODULE DesktopProofs ----------------------------
(***************************************************************************)
(* Theorems about the desktop shell (Desktop), for any number of spawns,   *)
(* commands and faults.                                                    *)
(*                                                                         *)
(* The shell's commands are programs of small steps that interleave, so    *)
(* the invariants speak of what is LEFT of each program: Well(t, p) says   *)
(* which steps the rest p of a program of task t may hold, in which order, *)
(* and which are bound to follow.  Every command the shell offers is Well, *)
(* the tail of a Well program is Well, and so is what replaces a program   *)
(* whose check fails.                                                      *)
(*   - ShellInv: the agents that run are the one the watchdog watches,     *)
(*     those a command took from the list and is about to kill, and those  *)
(*     dropped with the list.  OneAgent and Supervised follow.             *)
(*   - Cancelling: while a cancelled pairing's invitation counts, the rest *)
(*     of some program will still take it back.  CancelHolds follows.      *)
(***************************************************************************)
EXTENDS Desktop, TLAPS

\* The steps of the programs, for each of the tasks that run them.
Storing == {<<"transaction">>, <<"purge">>, <<"vacant">>, <<"add", "invite">>, <<"del", "setup">>,
            <<"commit">>, <<"restart">>, <<"del", "invite">>, <<"add", "setup">>}
Searching == {<<"drain">>, <<"kill">>, <<"prepare">>, <<"list">>, <<"wipe">>, <<"add", "setup">>,
              <<"purge">>, <<"add", "intent">>, <<"search">>}
Owning == {<<"add", "owner">>, <<"add", "confirmed">>, <<"add", "KILL">>, <<"cancel">>,
           <<"del", "intent">>, <<"fence">>}
Steps == Storing \cup Searching \cup Owning
StepsOf(t) == IF t = "loop" THEN Storing ELSE IF t = "async" THEN Searching ELSE Steps

\* The steps that test the markers and may end or replace their program.
Checks == {<<"transaction">>, <<"vacant">>, <<"prepare">>}

\* Step b never comes after step a in a program.
NeverFollows(b, a) ==
  \/ a = <<"restart">>
  \/ a \in Checks /\ b = <<"add", "setup">>
  \/ a \in {<<"transaction">>, <<"vacant">>} /\ b = <<"add", "intent">>
  \/ a \in {<<"add", "invite">>, <<"del", "setup">>} /\ b \in Checks
  \/ a = <<"del", "setup">> /\ b = <<"add", "owner">>
  \/ a \in {<<"commit">>, <<"del", "intent">>} /\ b = <<"del", "setup">>
  \/ a \in {<<"wipe">>, <<"prepare">>} /\ b = <<"prepare">>

\* Step b comes some time after step a in a program of task t.
Needs(b, a, t) ==
  \/ a = <<"add", "invite">> /\ b = <<"commit">>
  \/ a = <<"del", "setup">> /\ b = <<"commit">> /\ t = "loop"
  \/ a = <<"prepare">> /\ b = <<"add", "intent">>
  \/ a = <<"wipe">> /\ b = <<"add", "setup">>
  \/ a = <<"wipe">> /\ b = <<"add", "intent">> /\ t = "async"

\* A step is in a program; it comes after the i-th.
Has(p, s) == \E i \in 1..Len(p) : p[i] = s
Later(p, i, s) == \E k \in 1..Len(p) : i < k /\ p[k] = s

\* No step is out of order, each has the ones that it needs after it, what was
\* drained is killed by the next step, and a program that wipes the machine
\* removes the setup marker only if it also commits.
Ordered(p) == \A i, k \in 1..Len(p) : i < k => ~NeverFollows(p[k], p[i])
Complete(p, t) ==
  \A i \in 1..Len(p) : \A b \in Steps : Needs(b, p[i], t) => Later(p, i, b)
Killing(p) ==
  \A i \in 1..Len(p) : p[i] = <<"drain">> => i + 1 <= Len(p) /\ p[i + 1] = <<"kill">>
Committing(p) ==
  \A i \in 1..Len(p) :
    p[i] \in {<<"wipe">>, <<"prepare">>} /\ Later(p, i, <<"del", "setup">>)
      => Later(p, i, <<"commit">>)

\* A program that task t may be running.
Well(t, p) ==
  /\ p \in Seq(Steps) /\ \A i \in 1..Len(p) : p[i] \in StepsOf(t)
  /\ Ordered(p) /\ Complete(p, t) /\ Killing(p) /\ Committing(p)

-----------------------------------------------------------------------------
\* What remains of a program after its first step is such a program.
LEMMA TailWell ==
  ASSUME NEW t, NEW p, Well(t, p), p # << >>
  PROVE  Well(t, Tail(p))
  <1> DEFINE q == Tail(p)
  <1>0. p \in Seq(Steps)
    BY DEF Well
  <1>1. q \in Seq(Steps) /\ Len(q) = Len(p) - 1 /\ Len(p) \in Nat
        /\ \A i \in 1..Len(q) : q[i] = p[i + 1]
    BY <1>0
  <1> HIDE DEF q
  <1>2. \A i \in 1..Len(q) : i + 1 \in 1..Len(p) /\ \A s : Later(q, i, s) <=> Later(p, i + 1, s)
    <2> SUFFICES ASSUME NEW i \in 1..Len(q), NEW s
                 PROVE  i + 1 \in 1..Len(p) /\ (Later(q, i, s) <=> Later(p, i + 1, s))
      OBVIOUS
    <2>1. Later(q, i, s) => Later(p, i + 1, s)
      BY <1>1 DEF Later
    <2>2. ASSUME Later(p, i + 1, s) PROVE Later(q, i, s)
      <3>1. PICK k \in 1..Len(p) : i + 1 < k /\ p[k] = s
        BY <2>2 DEF Later
      <3>2. k - 1 \in 1..Len(q) /\ i < k - 1 /\ q[k - 1] = s
        BY <1>1, <3>1
      <3> QED
        BY <3>2 DEF Later
    <2> QED
      BY <1>1, <2>1, <2>2
  <1>3. Ordered(q)
    BY SMTT(30), <1>1 DEF Ordered, Well
  <1>4. Complete(q, t)
    BY <1>1, <1>2, Zenon DEF Complete, Well
  <1>5. Killing(q)
    <2> SUFFICES ASSUME NEW i \in 1..Len(q), q[i] = <<"drain">>
                 PROVE  i + 1 <= Len(q) /\ q[i + 1] = <<"kill">>
      BY Zenon DEF Killing
    <2>1. i + 1 \in 1..Len(p) /\ p[i + 1] = <<"drain">>
      BY <1>1
    <2>2. (i + 1) + 1 <= Len(p) /\ p[(i + 1) + 1] = <<"kill">>
      BY <2>1, Zenon DEF Killing, Well
    <2> QED
      BY <1>1, <2>2
  <1>6. Committing(q)
    BY <1>1, <1>2, Zenon DEF Committing, Well
  <1>7. \A i \in 1..Len(q) : q[i] \in StepsOf(t)
    BY <1>1 DEF Well
  <1> QED
    BY <1>1, <1>3, <1>4, <1>5, <1>6, <1>7 DEF Well, q

\* A program written out, step by step, is one of its task.
LEMMA StepsTyped ==
  /\ \A x \in Storing : x \in StepsOf("loop") /\ x \in StepsOf("main") /\ x \in Steps
  /\ \A x \in Searching : x \in StepsOf("async") /\ x \in StepsOf("main") /\ x \in Steps
  /\ \A x \in Owning : x \in StepsOf("main") /\ x \in Steps
  BY DEF StepsOf, Steps

\* The main task runs every kind of step.
LEMMA MainSteps == \A p \in Seq(Steps) : \A i \in 1..Len(p) : p[i] \in StepsOf("main")
  <1>1. StepsOf("main") = Steps
    BY DEF StepsOf
  <1> QED
    BY <1>1

\* The approval that a pairing loop has received, and its rollback.
LEMMA PersistWell ==
  ASSUME NEW t \in {"loop", "main"}
  PROVE  Well(t, Persist)
  <1>0. \A x \in Storing : x \in StepsOf(t) /\ x \in Steps
    BY StepsTyped
  <1>a. /\ <<"transaction">> \in Storing /\ <<"purge">> \in Storing /\ <<"vacant">> \in Storing
        /\ <<"add", "invite">> \in Storing /\ <<"del", "setup">> \in Storing
        /\ <<"commit">> \in Storing /\ <<"restart">> \in Storing
    BY DEF Storing
  <1>1. Persist \in Seq(Steps) /\ Len(Persist) = 7 /\ \A i \in 1..7 : Persist[i] \in StepsOf(t)
    BY <1>0, <1>a DEF Persist
  <1>2. Ordered(Persist)
    BY <1>1 DEF Persist, Ordered, NeverFollows, Checks
  <1>3. Complete(Persist, t)
    BY <1>1 DEF Persist, Complete, Needs, Later
  <1>4. Killing(Persist) /\ Committing(Persist)
    BY <1>1 DEF Persist, Killing, Committing, Later
  <1> QED
    BY <1>1, <1>2, <1>3, <1>4 DEF Well

\* What persist_remote_invite_at leaves to do when the intent marker is gone.
LEMMA RollbackWell ==
  ASSUME NEW t \in {"loop", "main"}
  PROVE  Well(t, << <<"del", "invite">>, <<"add", "setup">> >>)
  <1> DEFINE p == << <<"del", "invite">>, <<"add", "setup">> >>
  <1>1. /\ <<"del", "invite">> \in StepsOf(t) /\ <<"add", "setup">> \in StepsOf(t)
        /\ <<"del", "invite">> \in Steps /\ <<"add", "setup">> \in Steps
    BY StepsTyped DEF Storing
  <1>2. p \in Seq(Steps) /\ Len(p) = 2 /\ \A i \in 1..2 : p[i] \in StepsOf(t)
    BY <1>1
  <1>3. Ordered(p) /\ Killing(p)
    BY <1>2 DEF Ordered, NeverFollows, Checks, Killing
  <1>4. Complete(p, t) /\ Committing(p)
    BY <1>2 DEF Complete, Needs, Committing
  <1> QED
    BY <1>2, <1>3, <1>4 DEF Well

\* Programs of the owner's commands and the tray.
LEMMA ShortWell ==
  /\ Well("main", ActivateOwner) /\ Well("main", CancelPairing)
  /\ Well("main", << <<"add", "confirmed">> >>) /\ Well("main", << <<"add", "KILL">> >>)
  /\ Well("main", << <<"restart">> >>)
  <1>0. /\ <<"add", "owner">> \in Steps /\ <<"add", "confirmed">> \in Steps
        /\ <<"del", "setup">> \in Steps /\ <<"restart">> \in Steps
        /\ <<"cancel">> \in Steps /\ <<"del", "intent">> \in Steps
        /\ <<"add", "KILL">> \in Steps
    BY StepsTyped DEF Storing, Owning
  <1>1. Well("main", ActivateOwner)
    <2>1. ActivateOwner \in Seq(Steps) /\ Len(ActivateOwner) = 4
      BY <1>0 DEF ActivateOwner
    <2>2. Ordered(ActivateOwner)
      BY <2>1 DEF ActivateOwner, Ordered, NeverFollows, Checks
    <2>3. Complete(ActivateOwner, "main") /\ Killing(ActivateOwner) /\ Committing(ActivateOwner)
      BY <2>1 DEF ActivateOwner, Complete, Needs, Killing, Committing
    <2> QED
      BY <2>1, <2>2, <2>3 DEF Well, StepsOf
  <1>2. Well("main", CancelPairing)
    <2>1. CancelPairing \in Seq(Steps) /\ Len(CancelPairing) = 2
      BY <1>0 DEF CancelPairing
    <2>2. Ordered(CancelPairing)
      BY <2>1 DEF CancelPairing, Ordered, NeverFollows, Checks
    <2>3. Complete(CancelPairing, "main") /\ Killing(CancelPairing) /\ Committing(CancelPairing)
      BY <2>1 DEF CancelPairing, Complete, Needs, Killing, Committing
    <2> QED
      BY <2>1, <2>2, <2>3 DEF Well, StepsOf
  <1>3. ASSUME NEW x \in {<<"add", "confirmed">>, <<"add", "KILL">>, <<"restart">>}
        PROVE  Well("main", <<x>>)
    <2> DEFINE p == <<x>>
    <2>1. p \in Seq(Steps) /\ Len(p) = 1 /\ p[1] = x
      BY <1>0, <1>3
    <2> HIDE DEF p
    <2>2. Ordered(p) /\ Complete(p, "main") /\ Killing(p) /\ Committing(p)
      BY <1>3, <2>1 DEF Ordered, Complete, Needs, Killing, Committing
    <2>3. Well("main", p)
      BY SMTT(30), <2>1, <2>2 DEF Well, StepsOf
    <2> QED
      BY <2>3, Zenon DEF p
  <1> QED
    BY <1>1, <1>2, <1>3

\* A reset first drains and kills the agents; then the machine restarts.
LEMMA ResetElements ==
  /\ StopAll \in Seq(Steps) /\ Len(StopAll) = 2
  /\ StopAll[1] = <<"drain">> /\ StopAll[2] = <<"kill">>
  /\ Reset \in Seq(Steps) /\ Len(Reset) = 3
  /\ Reset[1] = <<"list">> /\ Reset[2] = <<"wipe">> /\ Reset[3] = <<"add", "setup">>
  <1>1. /\ <<"drain">> \in Steps /\ <<"kill">> \in Steps /\ <<"list">> \in Steps
        /\ <<"wipe">> \in Steps /\ <<"add", "setup">> \in Steps
    BY StepsTyped DEF Searching
  <1> QED
    BY <1>1 DEF StopAll, Reset

\* Where the steps of two programs are in their concatenation.
Spliced(r, p, q) ==
  /\ r \in Seq(Steps) /\ Len(r) = Len(p) + Len(q) /\ Len(p) \in Nat /\ Len(q) \in Nat
  /\ \A i \in 1..Len(p) : r[i] = p[i]
  /\ \A i \in 1..Len(q) : r[Len(p) + i] = q[i]

\* Concatenation splices two programs.
LEMMA ConcatAt == \A p, q \in Seq(Steps) : Spliced(p \o q, p, q)
  <1> SUFFICES ASSUME NEW p \in Seq(Steps), NEW q \in Seq(Steps)
               PROVE  Spliced(p \o q, p, q)
    OBVIOUS
  <1>1. Len(p) \in Nat /\ Len(q) \in Nat
    OBVIOUS
  <1>2. /\ p \o q \in Seq(Steps) /\ Len(p \o q) = Len(p) + Len(q)
        /\ \A i \in 1..Len(p) + Len(q) : (p \o q)[i] = IF i <= Len(p) THEN p[i] ELSE q[i - Len(p)]
    OBVIOUS
  <1>3. ASSUME NEW i \in 1..Len(q) PROVE (p \o q)[Len(p) + i] = q[i]
    <2>1. Len(p) + i \in 1..Len(p) + Len(q) /\ ~(Len(p) + i <= Len(p)) /\ (Len(p) + i) - Len(p) = i
      BY <1>1
    <2> QED
      BY <1>2, <2>1
  <1> QED
    BY <1>1, <1>2, <1>3 DEF Spliced

\* leave_fabric and factory_reset stop the agents, wipe the machine and restart.
LEMMA LeaveWell == Well("main", LeaveFabric) /\ Well("main", FactoryReset)
  <1> DEFINE r == << <<"restart">> >>
             u == StopAll \o Reset
             p == u \o r
  <1>0. <<"restart">> \in Steps
    BY StepsTyped, Zenon DEF Storing
  <1>1. r \in Seq(Steps) /\ Len(r) = 1 /\ r[1] = <<"restart">>
    BY <1>0
  <1>2. p = LeaveFabric /\ p = FactoryReset
    BY Zenon DEF LeaveFabric, FactoryReset
  <1>3. Spliced(u, StopAll, Reset)
    BY ResetElements, ConcatAt, Zenon
  <1> HIDE DEF u, r
  <1>4. Spliced(p, u, r)
    BY <1>1, <1>3, ConcatAt, Zenon DEF Spliced
  <1> HIDE DEF p
  <1>5. /\ Len(u) = 5 /\ u[1] = <<"drain">> /\ u[2] = <<"kill">>
        /\ u[3] = <<"list">> /\ u[4] = <<"wipe">> /\ u[5] = <<"add", "setup">>
    BY <1>3, ResetElements DEF Spliced
  <1>6. /\ p \in Seq(Steps) /\ Len(p) = 6 /\ p[1] = <<"drain">> /\ p[2] = <<"kill">>
        /\ p[3] = <<"list">> /\ p[4] = <<"wipe">> /\ p[5] = <<"add", "setup">>
        /\ p[6] = <<"restart">>
    BY <1>1, <1>4, <1>5 DEF Spliced
  <1>7. Ordered(p) /\ Killing(p) /\ Committing(p)
    BY <1>6 DEF Ordered, NeverFollows, Checks, Killing, Committing, Later
  <1>8. Complete(p, "main")
    <2>1. Later(p, 4, <<"add", "setup">>)
      BY <1>6 DEF Later
    <2>2. \A i \in 1..6 : p[i] \notin {<<"add", "invite">>, <<"prepare">>} /\ (p[i] = <<"wipe">> => i = 4)
      BY <1>6
    <2> QED
      BY <1>6, <2>1, <2>2, Zenon DEF Complete, Needs
  <1>9. \A i \in 1..Len(p) : p[i] \in StepsOf("main")
    BY <1>6, MainSteps, Zenon
  <1> QED
    BY <1>2, <1>6, <1>7, <1>8, <1>9 DEF Well

\* A program before another, when the second has what the first needs.
LEMMA ConcatWell ==
  ASSUME NEW t \in Tasks, NEW p \in Seq(Steps), NEW q,
         \A i \in 1..Len(p) : p[i] \in StepsOf(t),
         Ordered(p), Killing(p), Well(t, q),
         \A i \in 1..Len(p), k \in 1..Len(q) : ~NeverFollows(q[k], p[i]),
         \A i \in 1..Len(p), b \in Steps : Needs(b, p[i], t) => Later(p, i, b) \/ Has(q, b),
         \A i \in 1..Len(p) : p[i] \in {<<"wipe">>, <<"prepare">>} =>
            /\ ~Later(p, i, <<"del", "setup">>)
            /\ Has(q, <<"del", "setup">>) => Has(q, <<"commit">>)
  PROVE  Well(t, p \o q)
  <1> DEFINE r == p \o q
  <1>1. Spliced(r, p, q) /\ q \in Seq(Steps)
    BY ConcatAt, Zenon DEF Well
  <1> HIDE DEF r
  <1>2. \A i \in 1..Len(r) : \/ i \in 1..Len(p) /\ r[i] = p[i]
                             \/ i - Len(p) \in 1..Len(q) /\ r[i] = q[i - Len(p)] /\ i > Len(p)
    <2> SUFFICES ASSUME NEW i \in 1..Len(r), ~(i <= Len(p))
                 PROVE  i - Len(p) \in 1..Len(q) /\ r[i] = q[i - Len(p)]
      BY <1>1 DEF Spliced
    <2>1. i - Len(p) \in 1..Len(q) /\ Len(p) + (i - Len(p)) = i
      BY <1>1 DEF Spliced
    <2> QED
      BY <1>1, <2>1, Zenon DEF Spliced
  <1>3. \A i \in 1..Len(p) : \A s : Later(r, i, s) <=> Later(p, i, s) \/ Has(q, s)
    <2> SUFFICES ASSUME NEW i \in 1..Len(p), NEW s
                 PROVE  Later(r, i, s) <=> Later(p, i, s) \/ Has(q, s)
      OBVIOUS
    <2>1. Later(r, i, s) => Later(p, i, s) \/ Has(q, s)
      BY <1>2 DEF Later, Has
    <2>2. ASSUME Later(p, i, s) PROVE Later(r, i, s)
      <3>1. PICK k \in 1..Len(p) : i < k /\ p[k] = s
        BY <2>2, Zenon DEF Later
      <3>2. k \in 1..Len(r) /\ r[k] = s
        BY <1>1, <3>1 DEF Spliced
      <3> QED
        BY <3>1, <3>2, Zenon DEF Later
    <2>3. ASSUME Has(q, s) PROVE Later(r, i, s)
      <3>1. PICK k \in 1..Len(q) : q[k] = s
        BY <2>3, Zenon DEF Has
      <3>2. Len(p) + k \in 1..Len(r) /\ i < Len(p) + k /\ r[Len(p) + k] = s
        BY <1>1, <3>1 DEF Spliced
      <3> QED
        BY <3>2, Zenon DEF Later
    <2> QED
      BY <2>1, <2>2, <2>3
  <1>4. \A i \in 1..Len(q) : \A s : Later(r, Len(p) + i, s) <=> Later(q, i, s)
    <2> SUFFICES ASSUME NEW i \in 1..Len(q), NEW s
                 PROVE  Later(r, Len(p) + i, s) <=> Later(q, i, s)
      BY Zenon
    <2>1. ASSUME Later(r, Len(p) + i, s) PROVE Later(q, i, s)
      <3>1. PICK k \in 1..Len(r) : Len(p) + i < k /\ r[k] = s
        BY <2>1, Zenon DEF Later
      <3>2. k - Len(p) \in 1..Len(q) /\ i < k - Len(p) /\ q[k - Len(p)] = s
        BY <1>1, <1>2, <3>1 DEF Spliced
      <3> QED
        BY <3>2 DEF Later
    <2>2. ASSUME Later(q, i, s) PROVE Later(r, Len(p) + i, s)
      <3>1. PICK k \in 1..Len(q) : i < k /\ q[k] = s
        BY <2>2, Zenon DEF Later
      <3>2. Len(p) + k \in 1..Len(r) /\ Len(p) + i < Len(p) + k /\ r[Len(p) + k] = s
        BY SMTT(30), <1>1, <3>1 DEF Spliced
      <3> QED
        BY <3>2, Zenon DEF Later
    <2> QED
      BY <2>1, <2>2, Zenon
  <1>5. \A i \in 1..Len(r) : i \in 1..Len(p) \/ \E k \in 1..Len(q) : i = Len(p) + k /\ r[i] = q[k]
    <2> SUFFICES ASSUME NEW i \in 1..Len(r), i \notin 1..Len(p)
                 PROVE  \E k \in 1..Len(q) : i = Len(p) + k /\ r[i] = q[k]
      BY Zenon
    <2>1. i - Len(p) \in 1..Len(q) /\ i = Len(p) + (i - Len(p)) /\ r[i] = q[i - Len(p)]
      BY <1>1, <1>2 DEF Spliced
    <2> QED
      BY <2>1, Zenon
  <1>6. \A i \in 1..Len(r) : r[i] \in StepsOf(t)
    BY <1>2, Zenon DEF Well
  <1>7. Ordered(r)
    <2> SUFFICES ASSUME NEW i \in 1..Len(r), NEW k \in 1..Len(r), i < k
                 PROVE  ~NeverFollows(r[k], r[i])
      BY DEF Ordered
    <2>1. CASE k \in 1..Len(p)
      <3>1. i \in 1..Len(p) /\ r[i] = p[i] /\ r[k] = p[k]
        BY <1>1, <2>1 DEF Spliced
      <3> QED
        BY <2>1, <3>1 DEF Ordered
    <2>2. CASE i \in 1..Len(p) /\ k \notin 1..Len(p)
      BY <1>2, <2>2
    <2>3. CASE i \notin 1..Len(p)
      <3>1. /\ i - Len(p) \in 1..Len(q) /\ r[i] = q[i - Len(p)]
            /\ k - Len(p) \in 1..Len(q) /\ r[k] = q[k - Len(p)] /\ i - Len(p) < k - Len(p)
        BY <1>1, <1>2, <2>3 DEF Spliced
      <3> QED
        BY <3>1, Zenon DEF Well, Ordered
    <2> QED
      BY <1>1, <2>1, <2>2, <2>3 DEF Spliced
  <1>8. Complete(r, t)
    <2> SUFFICES ASSUME NEW i \in 1..Len(r), NEW b \in Steps, Needs(b, r[i], t)
                 PROVE  Later(r, i, b)
      BY DEF Complete
    <2>1. CASE i \in 1..Len(p)
      BY <1>1, <1>3, <2>1 DEF Spliced
    <2>2. CASE \E k \in 1..Len(q) : i = Len(p) + k /\ r[i] = q[k]
      BY <1>4, <2>2 DEF Well, Complete
    <2> QED
      BY <1>5, <2>1, <2>2, Zenon
  <1>9. Committing(r)
    <2> SUFFICES ASSUME NEW i \in 1..Len(r), r[i] \in {<<"wipe">>, <<"prepare">>},
                        Later(r, i, <<"del", "setup">>)
                 PROVE  Later(r, i, <<"commit">>)
      BY Zenon DEF Committing
    <2>1. CASE i \in 1..Len(p)
      BY <1>1, <1>3, <2>1, Zenon DEF Spliced
    <2>2. CASE \E k \in 1..Len(q) : i = Len(p) + k /\ r[i] = q[k]
      BY <1>4, <2>2, Zenon DEF Well, Committing
    <2> QED
      BY <1>5, <2>1, <2>2
  <1>10. Killing(r)
    <2> SUFFICES ASSUME NEW i \in 1..Len(r), r[i] = <<"drain">>
                 PROVE  i + 1 <= Len(r) /\ r[i + 1] = <<"kill">>
      BY Zenon DEF Killing
    <2>1. CASE i \in 1..Len(p)
      <3>1. i + 1 <= Len(p) /\ p[i + 1] = <<"kill">>
        BY <1>1, <2>1, Zenon DEF Spliced, Killing
      <3> QED
        BY <1>1, <2>1, <3>1 DEF Spliced
    <2>2. CASE \E k \in 1..Len(q) : i = Len(p) + k /\ r[i] = q[k]
      <3>1. PICK k \in 1..Len(q) : i = Len(p) + k /\ r[i] = q[k]
        BY <2>2
      <3>a. k + 1 <= Len(q) /\ q[k + 1] = <<"kill">>
        BY <3>1, Zenon DEF Well, Killing
      <3>2. k + 1 \in 1..Len(q) /\ q[k + 1] = <<"kill">>
        BY <1>1, <3>a DEF Spliced
      <3>3. r[Len(p) + (k + 1)] = <<"kill">>
        BY <1>1, <3>2, Zenon DEF Spliced
      <3> QED
        BY SMTT(30), <1>1, <3>1, <3>2, <3>3 DEF Spliced
    <2> QED
      BY <1>5, <2>1, <2>2, Zenon
  <1> QED
    BY <1>1, <1>6, <1>7, <1>8, <1>9, <1>10, Zenon DEF Well, Spliced, r

\* ExitApp publishes the shutdown before it drains and kills.
LEMMA ExitWell == Well("main", ExitApp)
  <1> DEFINE f == << <<"fence">> >>
             r == << <<"restart">> >>
             u == f \o StopAll
  <1>0. <<"fence">> \in Steps
    BY StepsTyped DEF Owning
  <1>1. f \in Seq(Steps) /\ Len(f) = 1 /\ f[1] = <<"fence">>
    BY <1>0
  <1>2. Well("main", r) /\ Len(r) = 1 /\ r[1] = <<"restart">>
    BY ShortWell, Zenon
  <1>3. ExitApp = u \o r
    BY Zenon DEF ExitApp
  <1> HIDE DEF f, r
  <1>4. Spliced(u, f, StopAll)
    BY <1>1, ResetElements, ConcatAt, Zenon
  <1> HIDE DEF u
  <1>5. /\ u \in Seq(Steps) /\ Len(u) = 3 /\ u[1] = <<"fence">>
        /\ u[2] = <<"drain">> /\ u[3] = <<"kill">>
    BY <1>1, <1>4, ResetElements DEF Spliced
  <1>6. Ordered(u) /\ Killing(u)
    BY <1>5 DEF Ordered, NeverFollows, Checks, Killing
  <1>7. \A i \in 1..Len(u), k \in 1..Len(r) : ~NeverFollows(r[k], u[i])
    BY <1>2, <1>5 DEF NeverFollows, Checks
  <1>8. \A i \in 1..Len(u), b \in Steps : ~Needs(b, u[i], "main")
    BY <1>5 DEF Needs
  <1>9. \A i \in 1..Len(u) : u[i] \notin {<<"wipe">>, <<"prepare">>}
    BY <1>5
  <1>10. \A i \in 1..Len(u) : u[i] \in StepsOf("main")
    BY <1>5, MainSteps, Zenon
  <1> QED
    BY <1>2, <1>3, <1>5, <1>6, <1>7, <1>8, <1>9, <1>10, ConcatWell, Zenon DEF Tasks

\* Preparing a pairing, after an unconfirmed owner's agents were stopped.
Preparing(u) ==
  /\ u \in Seq(Steps)
  /\ \/ /\ Len(u) = 3 /\ u[1] = <<"prepare">> /\ u[2] = <<"purge">> /\ u[3] = <<"add", "intent">>
     \/ /\ Len(u) = 5 /\ u[1] = <<"drain">> /\ u[2] = <<"kill">> /\ u[3] = <<"prepare">>
        /\ u[4] = <<"purge">> /\ u[5] = <<"add", "intent">>

\* begin_pairing and join_remote prepare the machine this way.
LEMMA RetireElements == Preparing(Retire \o Prepare)
  <1>1. <<"prepare">> \in Steps /\ <<"purge">> \in Steps /\ <<"add", "intent">> \in Steps
    BY StepsTyped DEF Searching
  <1>2. /\ Prepare \in Seq(Steps) /\ Len(Prepare) = 3 /\ Prepare[1] = <<"prepare">>
        /\ Prepare[2] = <<"purge">> /\ Prepare[3] = <<"add", "intent">>
    BY <1>1 DEF Prepare
  <1>3. Retire = StopAll \/ Retire = << >>
    BY DEF Retire
  <1>4. << >> \in Seq(Steps) /\ Len(<< >>) = 0
    OBVIOUS
  <1>5. Retire \in Seq(Steps)
    BY <1>3, <1>4, ResetElements, Zenon
  <1> DEFINE u == Retire \o Prepare
  <1>6. Spliced(u, Retire, Prepare)
    BY <1>2, <1>5, ConcatAt
  <1> HIDE DEF u
  <1>7. CASE Retire = StopAll
    BY SMTT(30), <1>2, <1>6, <1>7, ResetElements DEF Spliced, Preparing, u
  <1>8. CASE Retire = << >>
    BY SMTT(30), <1>2, <1>4, <1>6, <1>8 DEF Spliced, Preparing, u
  <1> QED
    BY <1>3, <1>7, <1>8

\* The preparation may come before any program that does not prepare again.
LEMMA PreparingWell ==
  ASSUME NEW t \in {"main", "async"}, NEW u, Preparing(u)
  PROVE  /\ u \in Seq(Steps) /\ Ordered(u) /\ Killing(u)
         /\ \A i \in 1..Len(u) : u[i] \in StepsOf(t)
         /\ \A i \in 1..Len(u), b \in Steps : Needs(b, u[i], t) => Later(u, i, b)
         /\ \A i \in 1..Len(u) : u[i] # <<"wipe">> /\ ~Later(u, i, <<"del", "setup">>)
         /\ \A i \in 1..Len(u) : u[i] \in {<<"drain">>, <<"kill">>, <<"prepare">>, <<"purge">>,
                                           <<"add", "intent">>}
  <1>0. /\ Len(u) \in {3, 5} /\ u[Len(u)] = <<"add", "intent">>
        /\ \A i \in 1..Len(u) : u[i] = <<"prepare">> => i = Len(u) - 2
        /\ \A i \in 1..Len(u) : u[i] = <<"drain">> => i = 1 /\ Len(u) = 5 /\ u[2] = <<"kill">>
    <2>1. CASE Len(u) = 3
      <3>1. u[1] = <<"prepare">> /\ u[2] = <<"purge">> /\ u[3] = <<"add", "intent">>
        BY <2>1 DEF Preparing
      <3>2. \A i \in 1..Len(u) : i = 1 \/ i = 2 \/ i = 3
        BY <2>1
      <3> QED
        BY <2>1, <3>1, <3>2
    <2>2. CASE Len(u) = 5
      <3>1. /\ u[1] = <<"drain">> /\ u[2] = <<"kill">> /\ u[3] = <<"prepare">>
            /\ u[4] = <<"purge">> /\ u[5] = <<"add", "intent">>
        BY <2>2 DEF Preparing
      <3>2. \A i \in 1..Len(u) : i = 1 \/ i = 2 \/ i = 3 \/ i = 4 \/ i = 5
        BY <2>2
      <3> QED
        BY <2>2, <3>1, <3>2
    <2> QED
      BY <2>1, <2>2, Zenon DEF Preparing
  <1>1. u \in Seq(Steps) /\ \A i \in 1..Len(u) :
          u[i] \in {<<"drain">>, <<"kill">>, <<"prepare">>, <<"purge">>, <<"add", "intent">>}
    <2>1. u \in Seq(Steps) /\ (Len(u) = 3 \/ Len(u) = 5)
      BY DEF Preparing
    <2>2. ASSUME NEW i \in 1..Len(u)
          PROVE  u[i] \in {<<"drain">>, <<"kill">>, <<"prepare">>, <<"purge">>, <<"add", "intent">>}
      <3>1. CASE Len(u) = 3
        <4>1. i = 1 \/ i = 2 \/ i = 3
          BY <2>2, <3>1
        <4> QED
          BY <3>1, <4>1, Zenon DEF Preparing
      <3>2. CASE Len(u) = 5
        <4>1. i = 1 \/ i = 2 \/ i = 3 \/ i = 4 \/ i = 5
          BY <2>2, <3>2
        <4>2. /\ u[1] = <<"drain">> /\ u[2] = <<"kill">> /\ u[3] = <<"prepare">>
              /\ u[4] = <<"purge">> /\ u[5] = <<"add", "intent">>
          BY <3>2 DEF Preparing
        <4> QED
          BY <4>1, <4>2, Zenon
      <3> QED
        BY <2>1, <3>1, <3>2
    <2> QED
      BY <2>1, <2>2
  <1>2. \A x \in {<<"drain">>, <<"kill">>, <<"prepare">>, <<"purge">>, <<"add", "intent">>} :
          x \in StepsOf(t)
    BY StepsTyped, Zenon DEF Searching
  <1>3. Ordered(u) /\ Killing(u)
    <2>1. \A a, b \in {<<"drain">>, <<"kill">>, <<"prepare">>, <<"purge">>, <<"add", "intent">>} :
            NeverFollows(b, a) => a = <<"prepare">> /\ b = <<"prepare">>
      BY DEF NeverFollows, Checks
    <2>2. Ordered(u)
      <3> SUFFICES ASSUME NEW i \in 1..Len(u), NEW k \in 1..Len(u), i < k, NeverFollows(u[k], u[i])
                   PROVE  FALSE
        BY Zenon DEF Ordered
      <3>1. u[i] = <<"prepare">> /\ u[k] = <<"prepare">>
        BY <1>1, <2>1, Zenon
      <3> QED
        BY <1>0, <3>1
    <2>3. Killing(u)
      BY <1>0 DEF Killing
    <2> QED
      BY <2>2, <2>3, Zenon
  <1>4. ASSUME NEW i \in 1..Len(u), NEW b \in Steps, Needs(b, u[i], t)
        PROVE  Later(u, i, b)
    <2>1. u[i] = <<"prepare">> /\ b = <<"add", "intent">>
      BY <1>1, <1>4 DEF Needs
    <2> QED
      BY <1>0, <1>4, <2>1 DEF Later
  <1>5. \A i \in 1..Len(u) : u[i] # <<"wipe">> /\ ~Later(u, i, <<"del", "setup">>)
    BY <1>1 DEF Later
  <1> QED
    BY <1>1, <1>2, <1>3, <1>4, <1>5, Zenon

\* The two commands that begin a pairing.
LEMMA JoinWell == Well("async", BeginPairing) /\ Well("main", JoinRemote)
  <1> DEFINE u == Retire \o Prepare
             r == << <<"search">> >>
  <1>1. Preparing(u) /\ BeginPairing = u \o r /\ JoinRemote = u \o Persist
    BY RetireElements DEF BeginPairing, JoinRemote
  <1>2. <<"search">> \in Steps /\ <<"search">> \in StepsOf("async")
    BY StepsTyped DEF Searching
  <1>3. r \in Seq(Steps) /\ Len(r) = 1 /\ r[1] = <<"search">>
    BY <1>2
  <1> HIDE DEF u, r
  <1>4. Well("async", r)
    BY <1>2, <1>3 DEF Well, Ordered, Complete, Needs, Killing, Committing
  <1>5. Well("async", u \o r)
    <2>1. \A i \in 1..Len(u), k \in 1..Len(r) : ~NeverFollows(r[k], u[i])
      BY <1>1, <1>3, PreparingWell DEF NeverFollows, Checks
    <2>2. ~Has(r, <<"del", "setup">>)
      BY <1>3 DEF Has
    <2> QED
      BY <1>1, <1>4, <2>1, <2>2, PreparingWell, ConcatWell, Zenon DEF Tasks
  <1>6. Well("main", u \o Persist)
    <2>1. /\ Len(Persist) = 7 /\ Persist[6] = <<"commit">>
          /\ \A k \in 1..7 : Persist[k] \notin {<<"add", "setup">>, <<"prepare">>}
      BY DEF Persist
    <2>2. \A i \in 1..Len(u), k \in 1..Len(Persist) : ~NeverFollows(Persist[k], u[i])
      <3>1. \A i \in 1..Len(u) :
              u[i] \in {<<"drain">>, <<"kill">>, <<"prepare">>, <<"purge">>, <<"add", "intent">>}
        BY <1>1, PreparingWell, Zenon
      <3>2. \A a \in {<<"drain">>, <<"kill">>, <<"prepare">>, <<"purge">>, <<"add", "intent">>} :
              \A b : b \notin {<<"add", "setup">>, <<"prepare">>} => ~NeverFollows(b, a)
        BY DEF NeverFollows, Checks
      <3> QED
        BY <2>1, <3>1, <3>2, Zenon
    <2>3. Has(Persist, <<"commit">>)
      BY <2>1 DEF Has
    <2> QED
      BY <1>1, <2>2, <2>3, PersistWell, PreparingWell, ConcatWell, Zenon DEF Tasks
  <1> QED
    BY <1>1, <1>5, <1>6

\* The steps still to come are those of the tail.
LEMMA TailHas ==
  ASSUME NEW p \in Seq(Steps), p # << >>, NEW s
  PROVE  /\ Has(Tail(p), s) <=> Later(p, 1, s)
         /\ Has(p, s) <=> p[1] = s \/ Has(Tail(p), s)
  <1> DEFINE q == Tail(p)
  <1>1. q \in Seq(Steps) /\ Len(q) = Len(p) - 1 /\ Len(p) \in Nat /\ Len(p) >= 1
        /\ \A i \in 1..Len(q) : q[i] = p[i + 1]
    OBVIOUS
  <1> HIDE DEF q
  <1>2. Has(q, s) => Later(p, 1, s)
    BY <1>1 DEF Has, Later
  <1>3. ASSUME Later(p, 1, s) PROVE Has(q, s)
    <2>1. PICK k \in 1..Len(p) : 1 < k /\ p[k] = s
      BY <1>3, Zenon DEF Later
    <2>2. k - 1 \in 1..Len(q) /\ q[k - 1] = s
      BY <1>1, <2>1
    <2> QED
      BY <2>2, Zenon DEF Has
  <1>4. Has(p, s) <=> p[1] = s \/ Later(p, 1, s)
    BY <1>1 DEF Has, Later
  <1> QED
    BY <1>2, <1>3, <1>4, Zenon DEF q

\* The check on the command's own task: a reset replaces the prepare it answers.
LEMMA PrepareWell ==
  ASSUME NEW t \in {"main", "async"}, NEW p, Well(t, p), p # << >>, p[1] = <<"prepare">>
  PROVE  Well(t, Reset \o Tail(p))
  <1>0. t \in Tasks
    BY Zenon DEF Tasks
  <1>1. Well(t, Tail(p))
    BY <1>0, TailWell, Zenon
  <1>2. p \in Seq(Steps) /\ Len(p) \in Nat /\ Len(p) >= 1
    BY DEF Well
  <1>3. \A j \in 2..Len(p) : ~NeverFollows(p[j], p[1])
    BY <1>2 DEF Well, Ordered
  <1>4. \A k \in 1..Len(Tail(p)) : k + 1 \in 2..Len(p) /\ Tail(p)[k] = p[k + 1]
    BY <1>2
  <1>5. \A k \in 1..Len(Tail(p)) : Tail(p)[k] # <<"prepare">>
    BY <1>3, <1>4, Zenon DEF NeverFollows
  <1>6. Has(Tail(p), <<"add", "intent">>)
    <2>1. Later(p, 1, <<"add", "intent">>)
      <3>1. 1 \in 1..Len(p) /\ <<"add", "intent">> \in Steps
        BY <1>2, StepsTyped DEF Searching
      <3> QED
        BY <3>1, Zenon DEF Well, Complete, Needs
    <2> QED
      BY <2>1, TailHas, <1>2, Zenon
  <1>7. Has(Tail(p), <<"del", "setup">>) => Has(Tail(p), <<"commit">>)
    <2>1. Later(p, 1, <<"del", "setup">>) => Later(p, 1, <<"commit">>)
      BY <1>2 DEF Well, Committing
    <2> QED
      BY <2>1, TailHas, <1>2, Zenon
  <1> DEFINE q == Tail(p)
  <1>8. \A i \in 1..3 : Reset[i] \in StepsOf(t)
    <2>1. \A x \in {<<"list">>, <<"wipe">>, <<"add", "setup">>} : x \in StepsOf(t)
      BY StepsTyped, Zenon DEF Searching
    <2>2. \A i \in 1..3 : i = 1 \/ i = 2 \/ i = 3
      OBVIOUS
    <2> QED
      BY <2>1, <2>2, ResetElements, Zenon
  <1>9. Ordered(Reset) /\ Killing(Reset)
    BY ResetElements DEF Ordered, NeverFollows, Checks, Killing
  <1> HIDE DEF q
  <1>10. \A i \in 1..Len(Reset), k \in 1..Len(q) : ~NeverFollows(q[k], Reset[i])
    <2>1. ASSUME NEW b, NEW a \in {<<"list">>, <<"wipe">>, <<"add", "setup">>}, NeverFollows(b, a)
          PROVE  b = <<"prepare">>
      BY <2>1 DEF NeverFollows, Checks
    <2>2. \A i \in 1..3 : i = 1 \/ i = 2 \/ i = 3
      OBVIOUS
    <2>3. \A i \in 1..Len(Reset) : Reset[i] \in {<<"list">>, <<"wipe">>, <<"add", "setup">>}
      BY <2>2, ResetElements, Zenon
    <2> QED
      BY <1>5, <2>1, <2>3, Zenon DEF q
  <1>11. \A i \in 1..Len(Reset), b \in Steps : Needs(b, Reset[i], t) => Later(Reset, i, b) \/ Has(q, b)
    <2> SUFFICES ASSUME NEW i \in 1..Len(Reset), NEW b \in Steps, Needs(b, Reset[i], t)
                 PROVE  Later(Reset, i, b) \/ Has(q, b)
      BY Zenon
    <2>1. i = 2 /\ (b = <<"add", "setup">> \/ b = <<"add", "intent">>)
      BY ResetElements DEF Needs
    <2>2. CASE b = <<"add", "setup">>
      BY <2>1, <2>2, ResetElements DEF Later
    <2>3. CASE b = <<"add", "intent">>
      BY <1>6, <2>3, Zenon DEF q
    <2> QED
      BY <2>1, <2>2, <2>3, Zenon
  <1>12. \A i \in 1..Len(Reset) : ~Later(Reset, i, <<"del", "setup">>)
    BY ResetElements DEF Later
  <1>13. Well(t, Reset \o q)
    BY <1>0, <1>1, <1>7, <1>8, <1>9, <1>10, <1>11, <1>12, ResetElements, ConcatWell, Zenon DEF q
  <1> QED
    BY <1>13, Zenon DEF q

\* A command that fails leaves no program.
LEMMA EmptyWell ==
  ASSUME NEW t PROVE Well(t, << >>)
  BY DEF Well, Ordered, Complete, Killing, Committing

\* Every command the shell offers, while it is offered.
LEMMA OfferedWell ==
  ASSUME NEW c \in Offered
  PROVE  c.task \in {"main", "async"} /\ Well(c.task, c.run)
  <1>1. FactoryReset = LeaveFabric
    BY Zenon DEF FactoryReset, LeaveFabric
  <1> QED
    BY <1>1, LeaveWell, ShortWell, JoinWell, ExitWell DEF Offered

\* A step is known by its first word, unless it writes or removes a marker.
LEMMA StepNames ==
  ASSUME NEW s \in Steps
  PROVE  /\ s[1] = "restart" => s = <<"restart">>
         /\ s[1] = "commit" => s = <<"commit">>
         /\ s[1] = "prepare" => s = <<"prepare">>
         /\ s[1] = "transaction" => s = <<"transaction">>
         /\ s[1] = "vacant" => s = <<"vacant">>
         /\ s[1] = "wipe" => s = <<"wipe">>
         /\ s[1] = "purge" => s = <<"purge">>
         /\ s[1] = "drain" => s = <<"drain">>
         /\ s[1] = "kill" => s = <<"kill">>
         /\ s[1] \in {"list", "fence", "search", "cancel"} =>
              s \in {<<"list">>, <<"fence">>, <<"search">>, <<"cancel">>}
         /\ s[1] = "add" => s \in {<<"add", "setup">>, <<"add", "intent">>, <<"add", "invite">>,
                                   <<"add", "owner">>, <<"add", "confirmed">>, <<"add", "KILL">>}
         /\ s[1] = "del" => s \in {<<"del", "setup">>, <<"del", "intent">>, <<"del", "invite">>}
  BY DEF Steps, Storing, Searching, Owning

-----------------------------------------------------------------------------
\* The shell's state, typed as the proofs need it.
Shaped ==
  /\ prog \in [Tasks -> Seq(Steps)]
  /\ held = [t \in Tasks |-> held[t]]
  /\ sup = [pc |-> sup.pc, pid |-> sup.pid]
  /\ spawned \in Nat
  /\ app \in {"up", "down"}

\* Each task runs a program of its kind, and a task that has drained the list
\* is about to kill what it took.
Programs == \A t \in Tasks : Well(t, prog[t])
Drained == \A t \in Tasks : held[t] # {} => prog[t] # << >> /\ prog[t][1] = <<"kill">>

\* What the supervisor has spawned and still watches; no other agent runs,
\* apart from those that a command is killing and those that were dropped.
Watched == IF sup.pc \in {"push", "watch"} THEN {sup.pid} ELSE {}
Watching ==
  /\ app = "down" => alive = {} /\ sup.pc = "done"
  /\ sup.pc \in {"push", "watch", "reap"} => sup.pid # 0
  /\ Agents \ (Condemned \cup dropped) \subseteq Watched

\* The inductive invariant of the agents.
ShellInv == Shaped /\ Programs /\ Drained /\ Watching /\ Supervised

\* What a step leaves of its program.
LEMMA StepPrograms ==
  ASSUME Shaped, Programs, NEW t \in Tasks, Step(t), Head(prog[t])[1] # "restart"
  PROVE  /\ prog' \in [Tasks -> Seq(Steps)] /\ Programs'
         /\ \A u \in Tasks \ {t} : prog'[u] = prog[u]
  <1> DEFINE p == prog[t]
             s == Head(p)
  <1>1. p \in Seq(Steps) /\ p # << >> /\ s = p[1] /\ s \in Steps /\ Well(t, p) /\ Len(p) >= 1
    BY DEF Shaped, Programs, Step, Idle
  <1>2. FileStep(t, s) \/ ProcessStep(t, s)
    BY Zenon DEF Step
  <1>3. ASSUME NEW q, Well(t, q), prog' = [prog EXCEPT ![t] = q]
        PROVE  /\ prog' \in [Tasks -> Seq(Steps)] /\ Programs'
               /\ \A u \in Tasks \ {t} : prog'[u] = prog[u]
    <2>1. q \in Seq(Steps)
      BY <1>3, Zenon DEF Well
    <2>2. \A u \in Tasks : prog'[u] = IF u = t THEN q ELSE prog[u]
      BY <1>3, Zenon DEF Shaped
    <2>3. ASSUME NEW u \in Tasks PROVE Well(u, prog'[u])
      BY <1>3, <2>2 DEF Programs
    <2>4. Programs'
      BY <2>3, Zenon DEF Programs, Well, StepsOf, Steps, Storing, Searching, Owning, Ordered, Complete,
                  Killing, Committing
    <2> QED
      BY <1>3, <2>1, <2>2, <2>4, Zenon DEF Shaped
  <1>4. \/ prog' = [prog EXCEPT ![t] = Tail(p)]
        \/ prog' = [prog EXCEPT ![t] = << >>]
        \/ prog' = prog
        \/ s[1] = "commit" /\ prog' = [prog EXCEPT ![t] = << <<"del", "invite">>, <<"add", "setup">> >>]
        \/ s[1] = "prepare" /\ prog' = [prog EXCEPT ![t] = Reset \o Tail(p)]
        \/ s[1] = "prepare" /\ prog' = [prog EXCEPT ![t] = << >> \o Tail(p)]
    BY <1>2, Zenon DEF FileStep, ProcessStep, Rest, Fail, Shaped
  <1>5. Well(t, Tail(p)) /\ Well(t, << >>)
    BY <1>1, TailWell, EmptyWell, Zenon
  <1>6. << >> \o Tail(p) = Tail(p)
    BY <1>1
  <1>7. s[1] = "commit" => t \in {"loop", "main"}
    BY <1>1, StepNames DEF Well, StepsOf, Searching, Tasks
  <1>8. s[1] = "prepare" => t \in {"async", "main"} /\ p[1] = <<"prepare">>
    BY <1>1, StepNames DEF Well, StepsOf, Storing, Tasks
  <1>9. s[1] = "commit" => Well(t, << <<"del", "invite">>, <<"add", "setup">> >>)
    BY <1>7, RollbackWell, Zenon
  <1>10. s[1] = "prepare" => Well(t, Reset \o Tail(p))
    BY <1>1, <1>8, PrepareWell, Zenon
  <1>11. CASE prog' = prog
    BY <1>1, <1>3, <1>11, Zenon DEF Shaped
  <1> QED
    BY <1>3, <1>4, <1>5, <1>6, <1>9, <1>10, <1>11, Zenon

\* A task that starts a program had none.
LEMMA StartPrograms ==
  ASSUME Shaped, Programs, Drained, NEW t \in Tasks, NEW q, Well(t, q), prog[t] = << >>,
         prog' = [prog EXCEPT ![t] = q], held' = held
  PROVE  prog' \in [Tasks -> Seq(Steps)] /\ Programs' /\ Drained'
  <1>1. q \in Seq(Steps)
    BY Zenon DEF Well
  <1>2. \A u \in Tasks : prog'[u] = IF u = t THEN q ELSE prog[u]
    BY Zenon DEF Shaped
  <1>3. \A u \in Tasks : Well(u, prog'[u])
    BY <1>2 DEF Programs
  <1>4. Programs'
    BY <1>3, Zenon DEF Programs, Well, StepsOf, Steps, Storing, Searching, Owning, Ordered, Complete,
                Killing, Committing
  <1>5. Drained'
    BY <1>2 DEF Drained
  <1> QED
    BY <1>1, <1>4, <1>5, Zenon DEF Shaped

\* When the shell is down nothing runs.
LEMMA ShellDown ==
  ASSUME Shaped, NEW others, Down(others)
  PROVE  ShellInv'
  <1>1. prog' = NoProg /\ \A t \in Tasks : prog'[t] = << >>
    BY Zenon DEF Down, NoProg
  <1>2. \A t \in Tasks : Well(t, prog'[t])
    BY <1>1, EmptyWell, Zenon
  <1>3. Programs'
    BY <1>2, Zenon DEF Programs, Well, StepsOf, Steps, Storing, Searching, Owning, Ordered, Complete,
                Killing, Committing
  <1>4. prog' \in [Tasks -> Seq(Steps)]
    BY <1>1 DEF NoProg
  <1>5. Shaped'
    BY <1>4, Zenon DEF Shaped, Down, NoSet, Steps, Storing, Searching, Owning
  <1>6. Drained' /\ Watching' /\ Supervised'
    BY Zenon DEF Down, NoSet, Drained, Watching, Watched, Supervised, Agents, Condemned
  <1> QED
    BY <1>3, <1>5, <1>6, Zenon DEF ShellInv

\* The shell starts with no program, no agent and nothing drained.
LEMMA ShellStart == Init => ShellInv
  <1> SUFFICES ASSUME Init PROVE ShellInv
    BY Zenon
  <1>1. \A t \in Tasks : prog[t] = << >>
    BY Zenon DEF Init, NoProg
  <1>2. Programs
    BY <1>1, EmptyWell, Zenon DEF Programs
  <1>3. prog \in [Tasks -> Seq(Steps)]
    BY DEF Init, NoProg
  <1>4. Shaped
    BY <1>3, Zenon DEF Shaped, Init, NoSet
  <1>5. Drained /\ Watching /\ Supervised
    BY Zenon DEF Init, NoSet, Drained, Watching, Watched, Supervised, Agents, Condemned
  <1> QED
    BY <1>2, <1>4, <1>5, Zenon DEF ShellInv

\* A step of a command that does not end the shell.
LEMMA ShellStep ==
  ASSUME ShellInv, NEW t \in Tasks, Step(t), Head(prog[t])[1] # "restart"
  PROVE  ShellInv'
  <1> DEFINE p == prog[t]
             s == Head(p)
  <1>1. p \in Seq(Steps) /\ p # << >> /\ s = p[1] /\ s \in Steps /\ Well(t, p) /\ Len(p) \in Nat
        /\ Len(p) >= 1
    BY DEF ShellInv, Shaped, Programs, Step, Idle
  <1>2. FileStep(t, s) \/ ProcessStep(t, s)
    BY Zenon DEF Step
  <1>3. /\ prog' \in [Tasks -> Seq(Steps)] /\ Programs'
        /\ \A u \in Tasks \ {t} : prog'[u] = prog[u]
    BY StepPrograms, Zenon DEF ShellInv
  <1>4. UNCHANGED <<app, sup, dropped, spawned>>
    BY Zenon DEF Step
  <1>5. held[t] # {} => s = <<"kill">>
    BY <1>1, Zenon DEF ShellInv, Drained
  <1>6. CASE s[1] = "drain"
    <2>1. held[t] = {} /\ s = <<"drain">>
      BY <1>1, <1>5, <1>6, StepNames
    <2>2. /\ held' = [held EXCEPT ![t] = sidecars] /\ sidecars' = {} /\ alive' = alive
          /\ prog' = [prog EXCEPT ![t] = Tail(p)]
      BY <1>2, <1>6, Zenon DEF FileStep, ProcessStep, Rest
    <2>3. \A u \in Tasks : held'[u] = IF u = t THEN sidecars ELSE held[u]
      BY <2>2, Zenon DEF ShellInv, Shaped
    <2>4. Condemned' = Condemned \cup sidecars
      BY <2>1, <2>3 DEF Condemned
    <2>5. Tail(p) # << >> /\ Tail(p)[1] = <<"kill">>
      <3>1. 1 + 1 <= Len(p) /\ p[1 + 1] = <<"kill">>
        BY <1>1, <2>1 DEF Well, Killing
      <3>2. Len(Tail(p)) = Len(p) - 1 /\ 1 \in 1..Len(Tail(p)) /\ Tail(p) \in Seq(Steps)
        BY <1>1, <3>1
      <3>3. Tail(p)[1] = p[1 + 1]
        BY <1>1, <3>2
      <3>4. Len(<< >>) = 0
        BY Zenon
      <3> DEFINE q == Tail(p)
      <3> HIDE DEF q
      <3>5. 1 \in 1..Len(q)
        BY <3>2, Zenon DEF q
      <3>6. q # << >>
        BY <3>4, <3>5
      <3> QED
        BY <3>1, <3>3, <3>6, Zenon DEF q
    <2>6. prog'[t] = Tail(p)
      BY <2>2, Zenon DEF ShellInv, Shaped
    <2>7. Drained'
      BY <1>3, <2>3, <2>5, <2>6, Zenon DEF Drained, ShellInv
    <2>8. Shaped'
      BY <1>3, <1>4, <2>2, Zenon DEF ShellInv, Shaped, Steps, Storing, Searching, Owning
    <2>9. Watching' /\ Supervised'
      BY <1>4, <2>2, <2>4, Zenon DEF ShellInv, Watching, Watched, Supervised, Agents
    <2> QED
      BY <1>3, <2>7, <2>8, <2>9, Zenon DEF ShellInv
  <1>7. CASE s[1] = "kill"
    <2>1. /\ alive' = alive \ held[t] /\ held' = [held EXCEPT ![t] = {}] /\ sidecars' = sidecars
      BY <1>2, <1>7, Zenon DEF FileStep, ProcessStep
    <2>2. \A u \in Tasks : held'[u] = IF u = t THEN {} ELSE held[u]
      BY <2>1, Zenon DEF ShellInv, Shaped
    <2>3. Condemned \subseteq Condemned' \cup held[t]
      BY <2>2 DEF Condemned
    <2>4. Drained'
      BY <1>3, <2>2, Zenon DEF Drained, ShellInv
    <2>5. Shaped'
      BY <1>3, <1>4, <2>1, Zenon DEF ShellInv, Shaped, Steps, Storing, Searching, Owning
    <2>6. Watching' /\ Supervised'
      BY <1>4, <2>1, <2>3, Zenon DEF ShellInv, Watching, Watched, Supervised, Agents
    <2> QED
      BY <1>3, <2>4, <2>5, <2>6 DEF ShellInv
  <1>8. CASE s[1] \notin {"drain", "kill"}
    <2>1. held' = held /\ alive' = alive /\ sidecars' = sidecars
      BY <1>2, <1>8, Zenon DEF FileStep, ProcessStep
    <2>2. held[t] = {}
      BY <1>5, <1>8
    <2>3. Drained'
      BY <1>3, <2>1, <2>2, Zenon DEF Drained, ShellInv
    <2>4. Shaped'
      BY <1>3, <1>4, <2>1, Zenon DEF ShellInv, Shaped, Steps, Storing, Searching, Owning
    <2>5. Watching' /\ Supervised'
      BY <1>4, <2>1 DEF ShellInv, Watching, Watched, Supervised, Agents, Condemned
    <2> QED
      BY <1>3, <2>3, <2>4, <2>5 DEF ShellInv
  <1> QED
    BY <1>6, <1>7, <1>8, Zenon

\* Every step of the shell keeps the agents watched.
LEMMA ShellNext == ShellInv /\ [Next]_vars => ShellInv'
  <1> SUFFICES ASSUME ShellInv, [Next]_vars PROVE ShellInv'
    BY Zenon
  <1>0. Shaped /\ Programs /\ Drained /\ Watching /\ Supervised
    BY Zenon DEF ShellInv
  <1>1. ASSUME prog' = prog, held' = held
        PROVE  Programs' /\ Drained' /\ Condemned' = Condemned
    <2>1. Programs' /\ Drained'
      BY <1>0, <1>1, Zenon DEF Programs, Drained
    <2>2. Condemned' = Condemned
      BY <1>1, Zenon DEF Condemned
    <2> QED
      BY <2>1, <2>2, Zenon
  <1>2. CASE Launch
    <2>1. prog' = prog /\ held' = held /\ spawned' = spawned /\ app' = "up" /\ dropped' = dropped
          /\ (alive' = {} \/ alive' = {0}) /\ sidecars' = alive'
          /\ (\E pc \in {"done", "check"} : sup' = [pc |-> pc, pid |-> 0])
      BY <1>2, Zenon DEF Launch
    <2>2. Shaped'
      BY <1>0, <2>1, Zenon DEF Shaped, Steps, Storing, Searching, Owning
    <2>3. Watching' /\ Supervised'
      BY <2>1 DEF Watching, Watched, Supervised, Agents
    <2> QED
      BY <1>1, <2>1, <2>2, <2>3, Zenon DEF ShellInv
  <1>3. CASE Supervise
    <2>1. UNCHANGED <<prog, held, app, dropped>> /\ app = "up"
      BY <1>3, Zenon DEF Supervise, SupCheck, SupSpawn, SupPush, SupSeesEnd, SupStale, SupReap, SupFrame, At
    <2>2. Programs' /\ Drained' /\ Condemned' = Condemned
      BY <1>1, <2>1, Zenon
    <2>3. Shaped'
      BY <1>0, <1>3, <2>1 DEF Supervise, SupCheck, SupSpawn, SupPush, SupSeesEnd, SupStale, SupReap,
                              Goto, Shaped, Steps, Storing, Searching, Owning
    <2>4. ASSUME SupCheck PROVE Watching' /\ Supervised'
      BY <1>0, <2>1, <2>2, <2>4, Zenon DEF SupCheck, At, Goto, Shaped, Watching, Watched, Supervised, Agents
    <2>5. ASSUME SupSpawn PROVE Watching' /\ Supervised'
      <3>1. /\ sup.pc = "spawn" /\ alive' = alive \cup {spawned + 1} /\ spawned + 1 # 0
            /\ sup'.pc = "push" /\ sup'.pid = spawned + 1 /\ sidecars' = sidecars
        BY <1>0, <2>5 DEF SupSpawn, At, Shaped
      <3> QED
        BY <1>0, <2>1, <2>2, <3>1, Zenon DEF Watching, Watched, Supervised, Agents
    <2>6. ASSUME SupPush PROVE Watching' /\ Supervised'
      BY <1>0, <2>1, <2>2, <2>6, Zenon DEF SupPush, At, Goto, Shaped, Watching, Watched, Supervised, Agents
    <2>7. ASSUME SupSeesEnd PROVE Watching' /\ Supervised'
      BY <1>0, <2>1, <2>2, <2>7, Zenon DEF SupSeesEnd, At, Goto, Shaped, Watching, Watched, Supervised, Agents
    <2>8. ASSUME SupStale PROVE Watching' /\ Supervised'
      BY <1>0, <2>1, <2>2, <2>8 DEF SupStale, At, Goto, Shaped, Watching, Watched, Supervised, Agents
    <2>9. ASSUME SupReap PROVE Watching' /\ Supervised'
      BY <1>0, <2>1, <2>2, <2>9, Zenon DEF SupReap, At, Goto, Shaped, Watching, Watched, Supervised, Agents
    <2>10. Watching' /\ Supervised'
      BY <1>3, <2>4, <2>5, <2>6, <2>7, <2>8, <2>9, Zenon DEF Supervise
    <2> QED
      BY <2>2, <2>3, <2>10, Zenon DEF ShellInv
  <1>4. CASE SupSeesError
    <2>1. /\ UNCHANGED <<prog, held, app, alive, sidecars, spawned>> /\ app = "up"
          /\ dropped' = dropped \cup {sup.pid} /\ sup.pc = "watch" /\ sup' = [sup EXCEPT !.pc = "reap"]
      BY <1>4 DEF SupSeesError, At, Goto
    <2>2. Shaped'
      BY <1>0, <2>1 DEF Shaped, Steps, Storing, Searching, Owning
    <2>3. Watching' /\ Supervised'
      BY <1>0, <1>1, <2>1 DEF Shaped, Watching, Watched, Supervised, Agents
    <2> QED
      BY <1>1, <2>1, <2>2, <2>3 DEF ShellInv
  <1>5. CASE PowerLoss
    BY <1>0, <1>5, ShellDown, Zenon DEF PowerLoss
  <1>6. ASSUME NEW c \in Offered, Command(c) PROVE ShellInv'
    <2>1. c.task \in Tasks /\ Well(c.task, c.run)
      BY <1>6, OfferedWell DEF Tasks
    <2>2. /\ UNCHANGED <<held, sup, app, alive, sidecars, dropped, spawned>>
          /\ prog[c.task] = << >> /\ prog' = [prog EXCEPT ![c.task] = c.run]
      BY <1>6 DEF Command, Idle
    <2>3. prog' \in [Tasks -> Seq(Steps)] /\ Programs' /\ Drained'
      BY <1>0, <2>1, <2>2, StartPrograms, Zenon
    <2>4. Shaped'
      BY <1>0, <2>2, <2>3, Zenon DEF Shaped, Steps, Storing, Searching, Owning
    <2>5. Watching' /\ Supervised'
      BY <1>0, <2>2 DEF Watching, Watched, Supervised, Agents, Condemned
    <2> QED
      BY <2>3, <2>4, <2>5 DEF ShellInv
  <1>7. ASSUME NEW t \in Tasks, Step(t) PROVE ShellInv'
    <2>1. CASE Head(prog[t])[1] = "restart"
      <3>1. Down(Tasks \ {t})
        BY <1>7, <2>1, Zenon DEF Step
      <3> QED
        BY <1>0, <3>1, ShellDown, Zenon
    <2>2. CASE Head(prog[t])[1] # "restart"
      BY <1>7, <2>2, ShellStep, Zenon
    <2> QED
      BY <2>1, <2>2, Zenon
  <1>8. ASSUME NEW g \in loops, ApprovalArrives(g) PROVE ShellInv'
    <2>1. /\ UNCHANGED <<held, sup, app, alive, sidecars, dropped, spawned>>
          /\ prog["loop"] = << >> /\ prog' = [prog EXCEPT !["loop"] = Persist]
      BY <1>8, Zenon DEF ApprovalArrives, Idle
    <2>2. prog' \in [Tasks -> Seq(Steps)] /\ Programs' /\ Drained'
      BY <1>0, <2>1, StartPrograms, PersistWell, Zenon DEF Tasks
    <2>3. Shaped'
      BY <1>0, <2>1, <2>2, Zenon DEF Shaped, Steps, Storing, Searching, Owning
    <2>4. Watching' /\ Supervised'
      BY <1>0, <2>1 DEF Watching, Watched, Supervised, Agents, Condemned
    <2> QED
      BY <2>2, <2>3, <2>4, Zenon DEF ShellInv
  <1>9. ASSUME UNCHANGED <<held, prog, sup, app, sidecars, dropped, spawned>>, alive' \subseteq alive
        PROVE  ShellInv'
    <2>1. Shaped'
      BY <1>0, <1>9, Zenon DEF Shaped, Steps, Storing, Searching, Owning
    <2>2. Watching' /\ Supervised'
      BY <1>0, <1>1, <1>9, Zenon DEF Watching, Watched, Supervised, Agents
    <2> QED
      BY <1>1, <1>9, <2>1, <2>2, Zenon DEF ShellInv
  <1>10. CASE AgentWrites
    BY <1>9, <1>10, Zenon DEF AgentWrites, AgentFrame
  <1>11. ASSUME NEW g \in loops, LoopEnds(g) PROVE ShellInv'
    BY <1>9, <1>11, Zenon DEF LoopEnds
  <1>12. ASSUME NEW p \in Agents, AgentStops(p) \/ AgentFault(p) PROVE ShellInv'
    BY <1>9, <1>12, Zenon DEF AgentStops, AgentFault, AgentFrame
  <1>13. CASE UNCHANGED vars
    BY <1>9, <1>13, Zenon DEF vars
  <1> QED
    BY <1>2, <1>3, <1>4, <1>5, <1>6, <1>7, <1>8, <1>10, <1>11, <1>12, <1>13, Zenon DEF Next

\* Watchdog, commands and the exit path between them never run two agents on
\* one key (launch_remote_worker and launch_fabric spawn only when the agent
\* they watched is gone), whatever the bounds on spawns, commands and faults.
THEOREM AgentsAreAlone == Spec => []OneAgent
  <1>1. ShellInv => OneAgent
    <2> SUFFICES ASSUME ShellInv PROVE OneAgent
      BY Zenon
    <2>1. Agents \ (Condemned \cup dropped) \subseteq {sup.pid}
      BY Zenon DEF ShellInv, Watching, Watched
    <2> QED
      BY <2>1 DEF OneAgent
  <1> QED
    BY <1>1, ShellStart, ShellNext, PTL DEF Spec

\* No process that the shell started escapes its list: STOP, exit and the
\* commands that drain the Sidecars list reach every one.
THEOREM AgentsAreSupervised == Spec => []Supervised
  <1>1. ShellInv => Supervised
    BY Zenon DEF ShellInv
  <1> QED
    BY <1>1, ShellStart, ShellNext, PTL DEF Spec

-----------------------------------------------------------------------------
\* What a program that is left will still do to a cancelled pairing: write the
\* setup marker again, test the intent marker that is gone and roll back, or
\* write a new intent.
StoresNow(p) == Has(p, <<"commit">>) /\ \A s \in Checks : ~Has(p, s)
Intends(p) == Has(p, <<"add", "intent">>) /\ ~Has(p, <<"prepare">>)
Mends(p) == Has(p, <<"add", "setup">>) \/ StoresNow(p) \/ Intends(p)

\* An owner's activation that has written its marker and not yet removed the
\* setup marker.
Activates(p) ==
  Has(p, <<"del", "setup">>) /\ ~Has(p, <<"commit">>) /\ ~Has(p, <<"add", "owner">>)

\* The invitation counts in files F; if so, or if an activation is half done,
\* some program of P will take the cancelled pairing back.
Invited(F) == "setup" \notin F /\ "owner" \notin F /\ "invite" \in F
Mending(P, F, k) ==
  /\ "intent" \notin F
  /\ ~k /\ Invited(F) => \E t \in Tasks : Mends(P[t])
  /\ Activates(P["main"]) /\ "owner" \notin F => Intends(P["async"])

\* The inductive invariant of a cancelled pairing.
Cancelling ==
  cancelled \in BOOLEAN /\ cut \in BOOLEAN /\ (cancelled => Mending(prog, files, cut))

\* A finished program mends nothing.
LEMMA EmptyMends == ~Mends(<< >>) /\ ~Activates(<< >>) /\ ~Intends(<< >>)
  BY DEF Mends, Activates, Intends, StoresNow, Has

\* The steps of a concatenation are those of its parts.
LEMMA HasConcat ==
  ASSUME NEW p \in Seq(Steps), NEW q \in Seq(Steps), NEW x
  PROVE  p \o q \in Seq(Steps) /\ (Has(p \o q, x) <=> Has(p, x) \/ Has(q, x))
  <1> DEFINE r == p \o q
  <1>1. Spliced(r, p, q)
    BY ConcatAt, Zenon
  <1> HIDE DEF r
  <1>2. Has(p, x) => Has(r, x)
    BY <1>1 DEF Spliced, Has
  <1>3. ASSUME Has(q, x) PROVE Has(r, x)
    <2>1. PICK k \in 1..Len(q) : q[k] = x
      BY <1>3, Zenon DEF Has
    <2>2. Len(p) + k \in 1..Len(r) /\ r[Len(p) + k] = x
      BY <1>1, <2>1 DEF Spliced
    <2> QED
      BY <2>2, Zenon DEF Has
  <1>4. ASSUME Has(r, x) PROVE Has(p, x) \/ Has(q, x)
    <2>1. PICK i \in 1..Len(r) : r[i] = x
      BY <1>4, Zenon DEF Has
    <2>2. CASE i \in 1..Len(p)
      BY <1>1, <2>1, <2>2, Zenon DEF Spliced, Has
    <2>3. CASE i \notin 1..Len(p)
      <3>1. i - Len(p) \in 1..Len(q) /\ i = Len(p) + (i - Len(p))
        BY <1>1, <2>1, <2>3 DEF Spliced
      <3>2. r[Len(p) + (i - Len(p))] = q[i - Len(p)]
        BY <1>1, <3>1, Zenon DEF Spliced
      <3> QED
        BY <2>1, <3>1, <3>2, Zenon DEF Has
    <2> QED
      BY <2>2, <2>3, Zenon
  <1> QED
    BY <1>1, <1>2, <1>3, <1>4, Zenon DEF r, Spliced

\* No command starts as an activation that is half done.
LEMMA OfferedActivates ==
  ASSUME NEW c \in Offered, c.task = "main"
  PROVE  ~Activates(c.run)
  <1> DEFINE d == <<"del", "setup">>
             r == << <<"restart">> >>
             f == << <<"fence">> >>
  <1>1. <<"restart">> \in Steps /\ <<"fence">> \in Steps
    BY StepsTyped, Zenon DEF Storing, Owning
  <1>2. r \in Seq(Steps) /\ ~Has(r, d) /\ f \in Seq(Steps) /\ ~Has(f, d)
    BY <1>1 DEF Has
  <1>3. ~Has(StopAll, d) /\ ~Has(Reset, d)
    BY ResetElements DEF Has
  <1>4. /\ ~Has(LeaveFabric, d) /\ FactoryReset = LeaveFabric /\ ~Has(ExitApp, d)
    <2>1. StopAll \o Reset \in Seq(Steps) /\ ~Has(StopAll \o Reset, d)
      BY <1>3, ResetElements, HasConcat
    <2>2. ~Has(LeaveFabric, d)
      BY <1>2, <2>1, HasConcat, Zenon DEF LeaveFabric
    <2>3. f \o StopAll \in Seq(Steps) /\ ~Has(f \o StopAll, d)
      BY <1>2, <1>3, ResetElements, HasConcat, Zenon
    <2>4. ~Has(ExitApp, d)
      BY <1>2, <2>3, HasConcat, Zenon DEF ExitApp
    <2> QED
      BY <2>2, <2>4, Zenon DEF FactoryReset, LeaveFabric
  <1>5. Has(JoinRemote, <<"commit">>)
    <2>1. Retire \o Prepare \in Seq(Steps)
      BY RetireElements, Zenon DEF Preparing
    <2>2. Persist \in Seq(Steps)
      BY PersistWell, Zenon DEF Well
    <2>3. Len(Persist) = 7 /\ Persist[6] = <<"commit">>
      BY DEF Persist
    <2>4. Has(Persist, <<"commit">>)
      BY <2>3 DEF Has
    <2> QED
      BY <2>1, <2>2, <2>4, HasConcat, Zenon DEF JoinRemote
  <1>6. Has(ActivateOwner, <<"add", "owner">>)
    BY DEF ActivateOwner, Has
  <1>7. ~Has(CancelPairing, d)
    BY DEF CancelPairing, Has
  <1>8. ~Has(<< <<"add", "confirmed">> >>, d) /\ ~Has(<< <<"add", "KILL">> >>, d)
    BY DEF Has
  <1>9. \/ c.run \in {LeaveFabric, FactoryReset, ActivateOwner, JoinRemote, CancelPairing, ExitApp}
        \/ c.run = << <<"add", "confirmed">> >> \/ c.run = << <<"add", "KILL">> >> \/ c.run = r
    BY DEF Offered
  <1> HIDE DEF r
  <1> QED
    BY <1>2, <1>4, <1>5, <1>6, <1>7, <1>8, <1>9, Zenon DEF Activates

\* What a step that mends nothing itself leaves to the rest of its program.
LEMMA TailMends ==
  ASSUME NEW p \in Seq(Steps), p # << >>
  PROVE  /\ Mends(p) /\ p[1] \notin {<<"add", "setup">>, <<"commit">>, <<"add", "intent">>}
              => Mends(Tail(p))
         /\ Activates(Tail(p)) /\ p[1] \notin {<<"commit">>, <<"add", "owner">>} => Activates(p)
         /\ Intends(p) /\ p[1] # <<"add", "intent">> => Intends(Tail(p))
  <1>1. \A x : Has(p, x) <=> p[1] = x \/ Has(Tail(p), x)
    BY TailHas, Zenon
  <1> HIDE DEF Has
  <1> QED
    BY <1>1, Zenon DEF Mends, StoresNow, Intends, Activates

\* The facts about a program of a task that its first step needs.
LEMMA HeadFacts ==
  ASSUME NEW t \in Tasks, NEW p, Well(t, p), p # << >>
  PROVE  /\ p \in Seq(Steps) /\ p[1] \in Steps /\ p[1] \in StepsOf(t) /\ Well(t, Tail(p))
         /\ \A x \in Steps : Has(Tail(p), x) => ~NeverFollows(x, p[1])
         /\ \A x \in Steps : Needs(x, p[1], t) => Has(Tail(p), x)
         /\ p[1] \in {<<"wipe">>, <<"prepare">>} /\ Has(Tail(p), <<"del", "setup">>)
              => Has(Tail(p), <<"commit">>)
  <1>1. p \in Seq(Steps) /\ Len(p) \in Nat /\ Len(p) >= 1 /\ 1 \in 1..Len(p)
    BY DEF Well
  <1>2. p[1] \in Steps /\ p[1] \in StepsOf(t) /\ Well(t, Tail(p))
    BY <1>1, TailWell DEF Well
  <1>3. \A x : Has(Tail(p), x) <=> Later(p, 1, x)
    BY <1>1, TailHas, Zenon
  <1>4. \A x \in Steps : Later(p, 1, x) => ~NeverFollows(x, p[1])
    BY <1>1, Zenon DEF Later, Well, Ordered
  <1>5. \A x \in Steps : Needs(x, p[1], t) => Later(p, 1, x)
    BY <1>1, Zenon DEF Well, Complete
  <1>6. p[1] \in {<<"wipe">>, <<"prepare">>} /\ Later(p, 1, <<"del", "setup">>)
              => Later(p, 1, <<"commit">>)
    BY <1>1, Zenon DEF Well, Committing
  <1> QED
    BY <1>1, <1>2, <1>3, <1>4, <1>5, <1>6, Zenon

\* A program that is about to test the markers mends nothing yet.
LEMMA CheckMends ==
  ASSUME NEW t \in Tasks, NEW p, Well(t, p), p # << >>, p[1] \in Checks
  PROVE  ~Mends(p)
  <1>1. <<"add", "setup">> \in Steps /\ <<"add", "intent">> \in Steps
    BY StepsTyped, Zenon DEF Searching
  <1>2. \A x : Has(p, x) <=> p[1] = x \/ Has(Tail(p), x)
    BY HeadFacts, TailHas, Zenon
  <1>3. ~Has(p, <<"add", "setup">>)
    BY <1>1, <1>2, HeadFacts DEF NeverFollows, Checks
  <1>4. Has(p, p[1])
    BY <1>2, Zenon
  <1>5. ~StoresNow(p)
    BY <1>4, Zenon DEF StoresNow
  <1>6. ~Intends(p)
    <2>1. CASE p[1] = <<"prepare">>
      BY <1>4, <2>1, Zenon DEF Intends
    <2>2. CASE p[1] \in {<<"transaction">>, <<"vacant">>}
      BY <1>1, <1>2, <2>2, HeadFacts DEF NeverFollows, Intends
    <2> QED
      BY <2>1, <2>2, Zenon DEF Checks
  <1> QED
    BY <1>3, <1>5, <1>6, Zenon DEF Mends

\* A step that does not disturb the cancelled pairing: a file it removes is not
\* one that kept the invitation from counting, and the rest of its program
\* mends what the program would have.
LEMMA MendingKept ==
  ASSUME prog \in [Tasks -> Seq(Steps)], NEW t \in Tasks, NEW q, prog' = [prog EXCEPT ![t] = q],
         Mending(prog, files, cut), "intent" \notin files', Invited(files') => Invited(files),
         "owner" \notin files' => "owner" \notin files,
         Mends(prog[t]) => Mends(q),
         t = "main" /\ Activates(q) => Activates(prog[t]),
         t = "async" /\ Intends(prog[t]) => Intends(q)
  PROVE  Mending(prog', files', cut)
  <1>1. \A u \in Tasks : prog'[u] = IF u = t THEN q ELSE prog[u]
    BY Zenon
  <1>2. ~cut /\ Invited(files') => \E u \in Tasks : Mends(prog'[u])
    <2> SUFFICES ASSUME ~cut, Invited(files') PROVE \E u \in Tasks : Mends(prog'[u])
      BY Zenon
    <2>1. PICK u \in Tasks : Mends(prog[u])
      BY Zenon DEF Mending
    <2>2. Mends(prog'[u])
      BY <1>1, <2>1, Zenon
    <2> QED
      BY <2>2, Zenon
  <1>3. "main" \in Tasks /\ "async" \in Tasks
    BY Zenon DEF Tasks
  <1>4. Activates(prog'["main"]) /\ "owner" \notin files' => Intends(prog'["async"])
    BY <1>1, <1>3, Zenon DEF Mending
  <1> QED
    BY <1>2, <1>4, Zenon DEF Mending

\* What each kind of step does to the files, to its program and to the note of
\* a cancelled pairing.
LEMMA FileCases ==
  ASSUME NEW t \in Tasks, NEW s, FileStep(t, s)
  PROVE  /\ s \notin {<<"add", "intent">>, <<"del", "intent">>} => cancelled' = cancelled
         /\ s = <<"add", "intent">> => cancelled' = FALSE
         /\ s = <<"del", "intent">> => \/ cancelled' = cancelled
                                       \/ "intent" \in files /\ Uncommitted
         /\ s[1] = "add" => files' = files \cup {s[2]} /\ Rest(t)
         /\ s[1] = "del" => files' = files \ {s[2]} /\ Rest(t)
         /\ s[1] = "purge" => files' \in {files \ WorkerFiles, files} /\ Rest(t)
         /\ s[1] = "transaction" => files' = files /\ ("intent" \in files \/ Fail(t))
         /\ s[1] = "vacant" => files' = files /\ (Rest(t) \/ Fail(t))
         /\ s[1] = "commit" =>
              /\ files' = files \ {"intent"}
              /\ \/ "intent" \in files
                 \/ prog' = [prog EXCEPT ![t] = << <<"del", "invite">>, <<"add", "setup">> >>]
         /\ s[1] = "prepare" =>
              /\ files' = files
              /\ \/ Fail(t)
                 \/ prog' = [prog EXCEPT ![t] = Reset \o Tail(@)]
                 \/ prog' = [prog EXCEPT ![t] = << >> \o Tail(@)]
         /\ s[1] = "wipe" => \/ files' \subseteq files /\ prog' = prog
                             \/ files' = files /\ Rest(t)
         /\ s[1] \in {"add", "del", "purge", "transaction", "vacant", "commit", "prepare", "wipe"}
  <1>1. cancelled' = CASE s = <<"del", "intent">> /\ "intent" \in files /\ Uncommitted -> TRUE
                       [] s = <<"add", "intent">> -> FALSE
                       [] OTHER -> cancelled
    BY Zenon DEF FileStep
  <1>2. <<"del", "intent">> # <<"add", "intent">>
    OBVIOUS
  <1>3. /\ s \notin {<<"add", "intent">>, <<"del", "intent">>} => cancelled' = cancelled
        /\ s = <<"add", "intent">> => cancelled' = FALSE
        /\ s = <<"del", "intent">> => \/ cancelled' = cancelled
                                      \/ "intent" \in files /\ Uncommitted
    BY <1>1, <1>2, Zenon
  <1>4. /\ s[1] = "add" => files' = files \cup {s[2]} /\ Rest(t)
        /\ s[1] = "del" => files' = files \ {s[2]} /\ Rest(t)
        /\ s[1] = "purge" => files' \in {files \ WorkerFiles, files} /\ Rest(t)
    BY Zenon DEF FileStep
  <1>5. /\ s[1] = "transaction" => files' = files /\ ("intent" \in files \/ Fail(t))
        /\ s[1] = "vacant" => files' = files /\ (Rest(t) \/ Fail(t))
        /\ s[1] = "commit" =>
              /\ files' = files \ {"intent"}
              /\ \/ "intent" \in files
                 \/ prog' = [prog EXCEPT ![t] = << <<"del", "invite">>, <<"add", "setup">> >>]
    BY Zenon DEF FileStep
  <1>6. s[1] = "prepare" =>
              /\ files' = files
              /\ \/ Fail(t)
                 \/ prog' = [prog EXCEPT ![t] = Reset \o Tail(@)]
                 \/ prog' = [prog EXCEPT ![t] = << >> \o Tail(@)]
    BY Zenon DEF FileStep
  <1>7. /\ s[1] = "wipe" => \/ files' \subseteq files /\ prog' = prog
                            \/ files' = files /\ Rest(t)
        /\ s[1] \in {"add", "del", "purge", "transaction", "vacant", "commit", "prepare", "wipe"}
    BY Zenon DEF FileStep
  <1> QED
    BY <1>3, <1>4, <1>5, <1>6, <1>7

\* The steps of commands and pairing loops keep a cancelled pairing mended.
LEMMA CancelStep ==
  ASSUME ShellInv, Cancelling, NEW t \in Tasks, Step(t), Head(prog[t])[1] # "restart", cancelled'
  PROVE  Mending(prog', files', cut)
  <1> DEFINE p == prog[t]
             s == Head(p)
             q == Tail(p)
  <1>1. /\ prog \in [Tasks -> Seq(Steps)] /\ p \in Seq(Steps) /\ p # << >> /\ s = p[1]
        /\ s \in Steps /\ Well(t, p) /\ s \in StepsOf(t)
        /\ q \in Seq(Steps) /\ << >> \in Seq(Steps)
    BY HeadFacts DEF ShellInv, Shaped, Programs, Step, Idle, Well
  <1>a. \A x : Has(p, x) <=> s = x \/ Has(q, x)
    BY <1>1, TailHas, Zenon
  <1>b. \A x \in Steps : (Has(q, x) => ~NeverFollows(x, s)) /\ (Needs(x, s, t) => Has(q, x))
    BY <1>1, HeadFacts, Zenon
  <1>c. s \in {<<"wipe">>, <<"prepare">>} /\ Has(q, <<"del", "setup">>) => Has(q, <<"commit">>)
    BY <1>1, HeadFacts, Zenon
  <1>d. /\ Mends(p) /\ s \notin {<<"add", "setup">>, <<"commit">>, <<"add", "intent">>} => Mends(q)
        /\ Activates(q) /\ s \notin {<<"commit">>, <<"add", "owner">>} => Activates(p)
        /\ Intends(p) /\ s # <<"add", "intent">> => Intends(q)
    BY <1>a, Zenon DEF Mends, StoresNow, Intends, Activates
  <1>e. s \in Checks => ~Mends(p)
    BY <1>1, CheckMends, Zenon
  <1>2. FileStep(t, s) \/ ProcessStep(t, s)
    BY Zenon DEF Step
  <1>3. \A u \in Tasks : u \in {"main", "async", "loop"}
    BY Zenon DEF Tasks
  <1>4. s \in Searching \/ t # "async"
    BY <1>1, Zenon DEF StepsOf
  <1>5. s \in Storing \/ t # "loop"
    BY <1>1, Zenon DEF StepsOf
  <1>6. prog[t] = p
    OBVIOUS
  <1> HIDE DEF p, q
  <1>8. ASSUME cancelled, prog' = [prog EXCEPT ![t] = q], "intent" \notin files',
               Invited(files') => Invited(files), "owner" \notin files' => "owner" \notin files,
               s \notin {<<"add", "setup">>, <<"commit">>, <<"add", "intent">>, <<"add", "owner">>}
        PROVE  Mending(prog', files', cut)
    <2>1. Mending(prog, files, cut)
      BY <1>8, Zenon DEF Cancelling
    <2>2. /\ Mends(prog[t]) => Mends(q)
          /\ Activates(q) => Activates(prog[t])
          /\ Intends(prog[t]) => Intends(q)
      BY <1>6, <1>8, <1>d, Zenon
    <2> QED
      BY <1>1, <1>8, <2>1, <2>2, MendingKept, Zenon
  <1>9. ASSUME cancelled PROVE "intent" \notin files
    BY <1>9, Zenon DEF Cancelling, Mending
  <1>10. CASE ProcessStep(t, s)
    <2>1. s \notin {<<"add", "setup">>, <<"commit">>, <<"add", "intent">>, <<"add", "owner">>}
      <3>1. s[1] \in {"list", "fence", "drain", "kill", "search", "cancel"}
        BY <1>10, Zenon DEF ProcessStep
      <3> QED
        BY <3>1
    <2>2. cancelled /\ files' = files /\ prog' = [prog EXCEPT ![t] = q]
      BY <1>10, Zenon DEF ProcessStep, Rest, p, q
    <2> QED
      BY <1>8, <1>9, <2>1, <2>2, ZenonT(30)
  <1>11. ASSUME NEW u \in Tasks \ {t} PROVE prog'[u] = prog[u]
    BY <1>11, StepPrograms, Zenon DEF ShellInv
  <1>12. ASSUME NEW r, prog' = [prog EXCEPT ![t] = r] PROVE prog'[t] = r
    BY <1>1, <1>12
  <1>13. "main" \in Tasks /\ "async" \in Tasks
    BY Zenon DEF Tasks
  <1>14. ASSUME cancelled, s \in Checks, files' = files, t = "main" => ~Activates(prog'["main"])
         PROVE  Mending(prog', files', cut)
    <2>1. ~cut /\ Invited(files') => \E u \in Tasks : Mends(prog'[u])
      BY <1>6, <1>e, <1>11, <1>14, Zenon DEF Cancelling, Mending
    <2>2. Activates(prog'["main"]) /\ "owner" \notin files' => Intends(prog'["async"])
      <3> SUFFICES ASSUME Activates(prog'["main"]), "owner" \notin files
                   PROVE  Intends(prog'["async"])
        BY <1>14, Zenon
      <3>1. t # "main" /\ Activates(prog["main"])
        BY <1>11, <1>13, <1>14, Zenon
      <3>2. Intends(prog["async"])
        BY <1>14, <3>1, Zenon DEF Cancelling, Mending
      <3>3. t # "async"
        BY <1>6, <1>e, <1>14, <3>2, Zenon DEF Mends
      <3> QED
        BY <1>11, <1>13, <3>2, <3>3, Zenon
    <2> QED
      BY <1>9, <1>14, <2>1, <2>2, Zenon DEF Mending
  <1>15. \A u \in Tasks : prog'[u] = IF u = t THEN prog'[t] ELSE prog[u]
    BY <1>11
  <1>16. CASE FileStep(t, s)
    <2>1. s # <<"add", "intent">> /\ (s # <<"del", "intent">> => cancelled)
      BY <1>16, FileCases, Zenon
    <2>2. Rest(t) => prog' = [prog EXCEPT ![t] = q]
      BY DEF Rest, p, q
    <2>3. Fail(t) => prog'[t] = << >>
      BY <1>12, Zenon DEF Fail
    <2>4. CASE s[1] \in {"transaction", "vacant"}
      <3>1. s = <<"transaction">> \/ s = <<"vacant">>
        BY <1>1, <2>4, StepNames
      <3>2. s \in Checks /\ s # <<"del", "intent">> /\ s \notin Searching
            /\ s \notin {<<"add", "setup">>, <<"commit">>, <<"add", "intent">>, <<"add", "owner">>}
        BY <3>1 DEF Checks, Searching
      <3>3. files' = files /\ (Rest(t) \/ Fail(t))
        BY <1>9, <1>16, <2>1, <2>4, <3>2, FileCases, Zenon
      <3>4. CASE Rest(t)
        BY <1>8, <1>9, <2>1, <2>2, <3>2, <3>3, <3>4, Zenon
      <3>5. CASE Fail(t)
        BY <1>14, <2>1, <2>3, <3>2, <3>3, <3>5, EmptyMends, Zenon
      <3> QED
        BY <3>3, <3>4, <3>5, Zenon
    <2>5. CASE s[1] = "prepare"
      <3>1. s = <<"prepare">>
        BY <1>1, <2>5, StepNames, Zenon
      <3>2. s \in Checks /\ s # <<"del", "intent">>
        BY <3>1 DEF Checks
      <3>3. /\ files' = files
            /\ \/ Fail(t)
               \/ prog' = [prog EXCEPT ![t] = Reset \o q]
               \/ prog' = [prog EXCEPT ![t] = << >> \o q]
        BY <1>16, <2>5, FileCases, Zenon DEF p, q
      <3>4. ~Activates(q)
        BY <1>c, <3>1, Zenon DEF Activates
      <3>5. ~Activates(Reset \o q)
        <4>1. ~Has(Reset, <<"del", "setup">>)
          BY ResetElements DEF Has
        <4> QED
          BY <1>1, <1>c, <3>1, <4>1, HasConcat, ResetElements, Zenon DEF Activates
      <3>6. << >> \o q = q
        BY <1>1
      <3>7. prog'[t] = << >> \/ prog'[t] = Reset \o q \/ prog'[t] = q
        BY <1>12, <2>3, <3>3, <3>6, Zenon
      <3>8. ~Activates(prog'[t])
        BY <3>4, <3>5, <3>7, EmptyMends, Zenon
      <3> QED
        BY <1>14, <2>1, <3>2, <3>3, <3>8, Zenon
    <2>6. CASE s[1] = "commit"
      <3> DEFINE r == << <<"del", "invite">>, <<"add", "setup">> >>
      <3>1. s = <<"commit">>
        BY <1>1, <2>6, StepNames, Zenon
      <3>2. cancelled /\ "intent" \notin files /\ t # "async"
        BY <1>4, <1>9, <2>1, <3>1 DEF Searching
      <3>3. files' = files \ {"intent"} /\ prog' = [prog EXCEPT ![t] = r]
        BY <1>16, <2>6, <3>2, FileCases, Zenon
      <3>4. Mends(r) /\ ~Activates(r)
        BY DEF Mends, Activates, Has
      <3> HIDE DEF r
      <3>5. Invited(files') => Invited(files)
        BY <3>3, Zenon DEF Invited
      <3>6. Mending(prog, files, cut)
        BY <3>2, Zenon DEF Cancelling
      <3> QED
        BY <1>1, <3>2, <3>3, <3>4, <3>5, <3>6, MendingKept, Zenon
    <2>7. CASE s[1] = "wipe"
      <3>1. s = <<"wipe">>
        BY <1>1, <2>7, StepNames, Zenon
      <3>2. /\ cancelled /\ "intent" \notin files
            /\ s \notin {<<"add", "setup">>, <<"commit">>, <<"add", "intent">>, <<"add", "owner">>}
        BY <1>9, <2>1, <3>1
      <3>3. CASE files' = files /\ Rest(t)
        BY <1>8, <2>2, <3>2, <3>3, Zenon
      <3>4. CASE files' \subseteq files /\ prog' = prog
        <4>1. <<"add", "setup">> \in Steps /\ <<"add", "intent">> \in Steps /\ <<"prepare">> \in Steps
          BY StepsTyped, Zenon DEF Searching
        <4>2. Mends(prog'[t])
          BY <1>6, <1>a, <1>b, <3>1, <3>4, <4>1, Zenon DEF Mends, Needs
        <4>3. t = "main" => ~Activates(p)
          BY SMTT(30), <1>a, <1>c, <3>1 DEF Activates
        <4>4. t = "async" => Intends(p)
          BY <1>a, <1>b, <3>1, <4>1 DEF Intends, Needs, NeverFollows
        <4>5. t = "loop" => FALSE
          BY <1>5, <3>1 DEF Storing
        <4>6. Activates(prog'["main"]) => Intends(prog'["async"])
          BY <1>3, <1>6, <3>4, <4>3, <4>4, <4>5, Zenon
        <4> QED
          BY <3>2, <3>4, <4>2, <4>6, Zenon DEF Mending
      <3> QED
        BY <1>16, <2>7, <3>3, <3>4, FileCases, Zenon
    <2>8. CASE s[1] = "purge"
      <3>1. s = <<"purge">>
        BY <1>1, <2>8, StepNames
      <3>2. /\ cancelled /\ "intent" \notin files
            /\ s \notin {<<"add", "setup">>, <<"commit">>, <<"add", "intent">>, <<"add", "owner">>}
        BY <1>9, <2>1, <3>1
      <3>3. files' \in {files \ WorkerFiles, files} /\ Rest(t)
        BY <1>16, <2>8, FileCases, Zenon
      <3>4. /\ Invited(files') => Invited(files)
            /\ "owner" \notin files' => "owner" \notin files
            /\ "intent" \notin files'
        BY <3>2, <3>3 DEF Invited, WorkerFiles
      <3> QED
        BY <1>8, <2>2, <3>2, <3>3, <3>4, Zenon
    <2>9. CASE s[1] = "add"
      <3>1. s \in {<<"add", "setup">>, <<"add", "invite">>, <<"add", "owner">>, <<"add", "confirmed">>,
                  <<"add", "KILL">>}
        BY <1>1, <2>1, <2>9, StepNames
      <3>2. cancelled /\ "intent" \notin files
        BY <1>9, <2>1, <3>1
      <3>3. files' = files \cup {s[2]} /\ Rest(t)
        BY <1>16, <2>9, FileCases, Zenon
      <3>4. prog'[t] = q /\ prog' = [prog EXCEPT ![t] = q]
        BY <1>12, <2>2, <3>3, Zenon
      <3>5. Mending(prog, files, cut)
        BY <3>2, Zenon DEF Cancelling
      <3>6. "intent" \notin files' /\ ("owner" \notin files' => "owner" \notin files)
        BY <3>1, <3>2, <3>3
      <3>7. CASE s \in {<<"add", "confirmed">>, <<"add", "KILL">>}
        <4>1. Invited(files') => Invited(files)
          BY <3>3, <3>7 DEF Invited
        <4>2. s \notin {<<"add", "setup">>, <<"commit">>, <<"add", "intent">>, <<"add", "owner">>}
          BY <3>7
        <4> QED
          BY <1>8, <3>2, <3>4, <3>6, <4>1, <4>2, Zenon
      <3>8. Activates(prog'["main"]) /\ s # <<"add", "owner">> => Activates(prog["main"])
        <4>1. CASE t = "main"
          BY <1>6, <1>d, <3>1, <3>4, <4>1
        <4>2. CASE t # "main"
          BY <1>13, <1>15, <4>2, Zenon
        <4> QED
          BY <4>1, <4>2, Zenon
      <3>9. Intends(prog["async"]) => Intends(prog'["async"])
        <4>1. CASE t = "async"
          BY <1>6, <1>d, <2>1, <3>4, <4>1, Zenon
        <4>2. CASE t # "async"
          BY <1>13, <1>15, <4>2, Zenon
        <4> QED
          BY <4>1, <4>2, Zenon
      <3>10. s # <<"add", "owner">> /\ Activates(prog'["main"]) /\ "owner" \notin files'
               => Intends(prog'["async"])
        BY <3>5, <3>6, <3>8, <3>9, Zenon DEF Mending
      <3>11. CASE s = <<"add", "setup">>
        <4>1. ~Invited(files')
          BY <3>3, <3>11 DEF Invited
        <4> QED
          BY <3>6, <3>10, <3>11, <4>1 DEF Mending
      <3>12. CASE s = <<"add", "owner">>
        <4>1. "owner" \in files'
          BY <3>3, <3>12
        <4> QED
          BY <3>6, <4>1, Zenon DEF Mending, Invited
      <3>13. CASE s = <<"add", "invite">>
        <4>1. <<"commit">> \in Steps /\ Checks \subseteq Steps
          BY StepsTyped, Zenon DEF Storing, Searching, Checks
        <4>2. Has(q, <<"commit">>) /\ \A x \in Checks : ~Has(q, x)
          BY <1>b, <3>13, <4>1, Zenon DEF Needs, NeverFollows
        <4>3. Mends(prog'[t])
          BY <3>4, <4>2, Zenon DEF Mends, StoresNow
        <4> QED
          BY <3>6, <3>10, <3>13, <4>3 DEF Mending
      <3> QED
        BY <3>1, <3>7, <3>11, <3>12, <3>13, Zenon
    <2>10. CASE s[1] = "del"
      <3>1. s \in {<<"del", "setup">>, <<"del", "intent">>, <<"del", "invite">>}
            /\ s \notin {<<"add", "setup">>, <<"commit">>, <<"add", "intent">>, <<"add", "owner">>}
        BY <1>1, <2>10, StepNames
      <3>2. files' = files \ {s[2]} /\ Rest(t)
        BY <1>16, <2>10, FileCases, Zenon
      <3>3. prog'[t] = q /\ prog' = [prog EXCEPT ![t] = q]
        BY <1>12, <2>2, <3>2, Zenon
      <3>4. CASE s = <<"del", "invite">>
        <4>1. cancelled /\ "intent" \notin files
          BY <1>9, <2>1, <3>4
        <4>2. /\ Invited(files') => Invited(files)
              /\ "owner" \notin files' => "owner" \notin files
              /\ "intent" \notin files'
          BY <3>2, <3>4, <4>1 DEF Invited
        <4> QED
          BY <1>8, <3>1, <3>3, <4>1, <4>2, Zenon
      <3>5. CASE s = <<"del", "intent">>
        <4>1. /\ Invited(files') => Invited(files)
              /\ "owner" \notin files' => "owner" \notin files
              /\ "intent" \notin files'
          BY <3>2, <3>5 DEF Invited
        <4>2. CASE cancelled
          BY <1>8, <3>1, <3>3, <4>1, <4>2, Zenon
        <4>3. CASE ~cancelled
          <5>1. Uncommitted /\ t = "main"
            <6>1. "intent" \in files /\ Uncommitted
              BY <1>16, <3>5, <4>3, FileCases, Zenon
            <6>2. s \notin Storing /\ s \notin Searching
              BY <3>5 DEF Storing, Searching
            <6> QED
              BY <1>3, <1>4, <1>5, <6>1, <6>2, Zenon
          <5>2. Invited(files) => Stores(prog["loop"])
            BY <5>1, Zenon DEF Uncommitted, WorkerEnrolled, Invited
          <5>3. "loop" \in Tasks /\ prog["loop"] \in Seq(Steps) /\ Well("loop", prog["loop"])
            BY <1>1, Zenon DEF Tasks, ShellInv, Programs
          <5>4. DOMAIN prog["loop"] = 1..Len(prog["loop"])
            BY <5>3
          <5>5. \A i \in 1..Len(prog["loop"]) : prog["loop"][i] # <<"prepare">>
            BY <5>3 DEF Well, StepsOf, Storing
          <5>6. Stores(prog["loop"]) => Mends(prog["loop"])
            BY <5>4, <5>5, Zenon DEF Stores, Mends, StoresNow, Checks, Has
          <5>7. prog'["loop"] = prog["loop"]
            BY <1>15, <5>1, <5>3
          <5>8. <<"del", "setup">> \in Steps
            BY StepsTyped, Zenon DEF Storing
          <5>9. ~Activates(q)
            BY <1>b, <3>5, <5>8, Zenon DEF Activates, NeverFollows
          <5> QED
            BY <3>3, <4>1, <5>1, <5>2, <5>3, <5>6, <5>7, <5>9, Zenon DEF Mending
        <4> QED
          BY <4>2, <4>3, Zenon
      <3>6. CASE s = <<"del", "setup">>
        <4>1. cancelled /\ "intent" \notin files'
          BY <1>9, <2>1, <3>2, <3>6
        <4>2. /\ <<"commit">> \in Steps /\ <<"add", "owner">> \in Steps /\ Checks \subseteq Steps
          BY StepsTyped, Zenon DEF Storing, Searching, Owning, Checks
        <4>3. (\A x \in Checks : ~Has(q, x)) /\ ~Has(q, <<"add", "owner">>)
              /\ (t = "loop" => Has(q, <<"commit">>))
          BY <1>b, <3>6, <4>2, Zenon DEF Needs, NeverFollows
        <4>4. Mending(prog, files, cut)
          BY <4>1 DEF Cancelling
        <4>5. t # "async"
          BY <1>4, <3>6 DEF Searching
        <4>6. Activates(prog'["main"]) => Activates(prog["main"])
          <5>1. CASE t = "main"
            BY <1>6, <1>d, <3>1, <3>3, <5>1, Zenon
          <5>2. CASE t # "main"
            BY <1>13, <1>15, <5>2, Zenon
          <5> QED
            BY <5>1, <5>2, Zenon
        <4>7. prog'["async"] = prog["async"] /\ ("owner" \notin files' => "owner" \notin files)
          BY <1>13, <1>15, <3>2, <3>6, <4>5
        <4>8. Has(q, <<"commit">>) => Mends(prog'[t])
          BY <3>3, <4>3, Zenon DEF Mends, StoresNow
        <4>9. ASSUME ~Has(q, <<"commit">>), "owner" \notin files' PROVE Mends(prog'["async"])
          <5>1. t = "main"
            BY <1>3, <4>3, <4>5, <4>9, Zenon
          <5>2. Activates(p)
            BY <1>a, <3>6, <4>3, <4>9 DEF Activates
          <5>3. Intends(prog["async"])
            BY <1>6, <4>4, <4>7, <4>9, <5>1, <5>2, Zenon DEF Mending
          <5> QED
            BY <4>7, <5>3, Zenon DEF Mends
        <4> QED
          BY <1>13, <4>1, <4>4, <4>6, <4>7, <4>8, <4>9 DEF Mending, Invited
      <3> QED
        BY <3>1, <3>4, <3>5, <3>6, Zenon
    <2> QED
      BY <1>16, <2>4, <2>5, <2>6, <2>7, <2>8, <2>9, <2>10, FileCases, Zenon
  <1> QED
    BY <1>2, <1>10, <1>16, Zenon

\* A restart of the shell, or a power loss, that finds the other tasks idle
\* finds nothing left to mend.
LEMMA CancelDown ==
  ASSUME ShellInv, Mending(prog, files, cut), NEW others, Down(others),
         \A t \in Tasks \ others : ~Mends(prog[t])
  PROVE  Mending(prog', files', cut')
  <1>1. /\ files' = files /\ cut' = (cut \/ \E t \in others : ~Idle(t))
        /\ prog' = [t \in Tasks |-> << >>]
    BY Zenon DEF Down, NoProg
  <1>2. "main" \in Tasks /\ ~Activates(prog'["main"])
    BY <1>1, EmptyMends, Zenon DEF Tasks
  <1>3. ~cut' => ~Invited(files)
    <2> SUFFICES ASSUME ~cut', Invited(files) PROVE FALSE
      BY Zenon
    <2>1. ~cut /\ \A t \in others : prog[t] = << >>
      BY <1>1, Zenon DEF Idle
    <2>2. PICK t \in Tasks : Mends(prog[t])
      BY <2>1, Zenon DEF Mending
    <2> QED
      BY <2>1, <2>2, EmptyMends, Zenon
  <1> QED
    BY <1>1, <1>2, <1>3, Zenon DEF Mending

\* Every step of the shell keeps a cancelled pairing mended.
LEMMA CancelNext == ShellInv /\ Cancelling /\ [Next]_vars => Cancelling'
  <1> SUFFICES ASSUME ShellInv, Cancelling, [Next]_vars PROVE Cancelling'
    BY Zenon
  <1>0. /\ prog \in [Tasks -> Seq(Steps)] /\ cancelled \in BOOLEAN /\ cut \in BOOLEAN
        /\ cancelled => Mending(prog, files, cut)
    BY DEF ShellInv, Shaped, Cancelling
  <1>a. Cancelling' <=> /\ cancelled' \in BOOLEAN /\ cut' \in BOOLEAN
                        /\ cancelled' => Mending(prog', files', cut')
    BY Zenon DEF Cancelling, Mending, Mends, Intends, StoresNow, Activates, Has, Checks, Invited, Tasks
  <1>1. ASSUME UNCHANGED <<prog, cut, cancelled>>, "intent" \in files' => "intent" \in files,
               Invited(files') => Invited(files), "owner" \in files => "owner" \in files'
        PROVE  Cancelling'
    <2>1. ASSUME cancelled PROVE Mending(prog', files', cut')
      <3>1. Mending(prog, files, cut)
        BY <1>0, <2>1, Zenon
      <3> QED
        BY <1>1, <3>1, Zenon DEF Mending
    <2>2. cancelled' => Mending(prog', files', cut')
      BY <1>1, <2>1, Zenon
    <2> QED
      BY <1>0, <1>a, <1>1, <2>2, Zenon
  <1>2. CASE Launch
    <2>1. /\ files \subseteq files' /\ files' \subseteq files \cup {"setup", "owner", "governor"}
          /\ UNCHANGED <<prog, cut, cancelled>>
      BY <1>2, Zenon DEF Launch
    <2> QED
      BY <1>1, <2>1 DEF Invited
  <1>3. CASE Supervise \/ SupSeesError
    <2>1. UNCHANGED <<files, prog, cut, cancelled>>
      BY <1>3, Zenon DEF Supervise, SupCheck, SupSpawn, SupPush, SupSeesEnd, SupStale, SupReap, SupFrame,
                  SupSeesError
    <2> QED
      BY <1>1, <2>1, Zenon
  <1>4. CASE AgentWrites
    <2>1. /\ files' = files \cup {"ident"} \/ files' = (files \cup {"pin"}) \ {"invite"}
          /\ UNCHANGED <<prog, cut, cancelled>>
      BY <1>4 DEF AgentWrites, AgentFrame
    <2> QED
      BY <1>1, <2>1 DEF Invited
  <1>5. ASSUME NEW others, Down(others), cancelled => \A t \in Tasks \ others : ~Mends(prog[t])
        PROVE  Cancelling'
    <2>1. cancelled' = cancelled /\ cut' \in BOOLEAN
      BY <1>0, <1>5, Zenon DEF Down
    <2>2. cancelled => Mending(prog', files', cut')
      BY <1>0, <1>5, CancelDown, Zenon
    <2> QED
      BY <1>0, <1>a, <2>1, <2>2, Zenon
  <1>6. CASE PowerLoss
    BY <1>5, <1>6 DEF PowerLoss
  <1>7. ASSUME NEW t \in Tasks, NEW r, prog[t] = << >>, prog' = [prog EXCEPT ![t] = r],
               t = "main" => ~Activates(r), UNCHANGED <<files, cut, cancelled>>
        PROVE  Cancelling'
    <2>1. ~Mends(prog[t]) /\ ~Activates(prog[t]) /\ ~Intends(prog[t])
      BY <1>7, EmptyMends
    <2>2. cancelled => Mending(prog', files', cut)
      <3> SUFFICES ASSUME cancelled PROVE Mending(prog', files', cut)
        OBVIOUS
      <3>1. Mending(prog, files, cut)
        BY <1>0, Zenon
      <3>2. "intent" \notin files'
        BY <1>7, <3>1 DEF Mending
      <3> QED
        BY <1>0, <1>7, <2>1, <3>1, <3>2, MendingKept, Zenon
    <2> QED
      BY <1>0, <1>a, <1>7, <2>2, Zenon
  <1>8. ASSUME NEW c \in Offered, Command(c) PROVE Cancelling'
    <2>1. c.task \in Tasks /\ (c.task = "main" => ~Activates(c.run))
      BY <1>8, OfferedWell, OfferedActivates DEF Tasks
    <2>2. prog[c.task] = << >> /\ prog' = [prog EXCEPT ![c.task] = c.run] /\ UNCHANGED <<files, cut, cancelled>>
      BY <1>8 DEF Command, Idle
    <2> QED
      BY <1>7, <2>1, <2>2, Zenon
  <1>9. ASSUME NEW g \in loops, ApprovalArrives(g) PROVE Cancelling'
    <2>1. /\ prog["loop"] = << >> /\ prog' = [prog EXCEPT !["loop"] = Persist]
          /\ UNCHANGED <<files, cut, cancelled>>
      BY <1>9, Zenon DEF ApprovalArrives, Idle
    <2>2. "loop" \in Tasks /\ "loop" # "main"
      BY Zenon DEF Tasks
    <2> QED
      BY <1>7, <2>1, <2>2, Zenon
  <1>10. ASSUME NEW t \in Tasks, Step(t) PROVE Cancelling'
    <2>1. CASE Head(prog[t])[1] = "restart"
      <3> DEFINE p == prog[t]
      <3>0. Well(t, p) /\ p # << >>
        BY <1>10, Zenon DEF ShellInv, Programs, Step, Idle
      <3>a. p \in Seq(Steps) /\ p[1] \in Steps
        BY <3>0, HeadFacts, Zenon
      <3>1. Well(t, p) /\ p # << >> /\ p \in Seq(Steps) /\ Head(p) = p[1] /\ p[1] \in Steps
        BY <3>0, <3>a
      <3>2. p[1] = <<"restart">>
        BY <2>1, <3>1, StepNames, Zenon
      <3> HIDE DEF p
      <3>3. \A x \in Steps : ~Has(Tail(p), x)
        BY <3>1, <3>2, HeadFacts, Zenon DEF NeverFollows
      <3>4. \A x \in Steps \ {<<"restart">>} : ~Has(p, x)
        BY <3>1, <3>2, <3>3, TailHas, Zenon
      <3>5. {<<"add", "setup">>, <<"commit">>, <<"add", "intent">>} \subseteq Steps \ {<<"restart">>}
        BY StepsTyped DEF Storing, Searching
      <3>6. ~Mends(p)
        BY <3>4, <3>5, Zenon DEF Mends, StoresNow, Intends
      <3>7. \A u \in Tasks \ (Tasks \ {t}) : ~Mends(prog[u])
        BY <3>6, Zenon DEF p
      <3>8. Down(Tasks \ {t})
        BY <1>10, <2>1 DEF Step
      <3> QED
        BY <1>5, <3>7, <3>8
    <2>2. CASE Head(prog[t])[1] # "restart"
      <3>1. cancelled' \in BOOLEAN /\ cut' = cut
        <4>1. FileStep(t, Head(prog[t])) \/ ProcessStep(t, Head(prog[t]))
          BY <1>10, <2>2, Zenon DEF Step
        <4>2. cut' = cut
          BY <1>10, <2>2, Zenon DEF Step
        <4>3. ProcessStep(t, Head(prog[t])) => cancelled' = cancelled
          BY Zenon DEF ProcessStep
        <4>4. FileStep(t, Head(prog[t])) => cancelled' \in {TRUE, FALSE, cancelled}
          BY Zenon DEF FileStep
        <4> QED
          BY <1>0, <4>1, <4>2, <4>3, <4>4, Zenon
      <3>2. cancelled' => Mending(prog', files', cut')
        BY <1>10, <2>2, <3>1, CancelStep, Zenon
      <3> QED
        BY <1>0, <1>a, <3>1, <3>2, Zenon
    <2> QED
      BY <2>1, <2>2, Zenon
  <1>11. ASSUME NEW g \in loops, LoopEnds(g) PROVE Cancelling'
    BY <1>1, <1>11, Zenon DEF LoopEnds
  <1>12. ASSUME NEW p \in Agents, AgentStops(p) \/ AgentFault(p) PROVE Cancelling'
    BY <1>1, <1>12, Zenon DEF AgentStops, AgentFault, AgentFrame
  <1>13. CASE UNCHANGED vars
    BY <1>1, <1>13, Zenon DEF vars
  <1> QED
    BY <1>2, <1>3, <1>4, <1>6, <1>8, <1>9, <1>10, <1>11, <1>12, <1>13, Zenon DEF Next

\* A pairing that cancel_pairing took back does not enrol the machine, whatever
\* the other commands, the pairing loops and the agents did in between: when
\* all programs have run the invitation is gone, or the machine is in setup or
\* an owner's (a program cut short by a restart is the exception).
THEOREM CancelledPairingsStayOut == Spec => []CancelHolds
  <1>1. Init => Cancelling
    BY Zenon DEF Init, Cancelling
  <1>2. ShellInv /\ Cancelling => CancelHolds
    <2> SUFFICES ASSUME ShellInv, Cancelling, cancelled, ~cut, \A t \in Tasks : Idle(t),
                        WorkerEnrolled(files), "invite" \in files
                 PROVE  FALSE
      BY Zenon DEF CancelHolds
    <2>1. Invited(files)
      BY Zenon DEF Invited, WorkerEnrolled
    <2>2. PICK t \in Tasks : Mends(prog[t])
      BY <2>1 DEF Cancelling, Mending
    <2> QED
      BY <2>2, EmptyMends, Zenon DEF Idle
  <1> QED
    BY <1>1, <1>2, ShellStart, ShellNext, CancelNext, PTL DEF Spec
=============================================================================
