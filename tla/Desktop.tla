------------------------------ MODULE Desktop ------------------------------
(***************************************************************************)
(* The desktop shell of one machine (apps/desktop/src-tauri/src/lib.rs):   *)
(* the role files of its runtime directory, the commands that move the     *)
(* machine between setup, worker and owner, the supervisor loop that keeps *)
(* one agent process running, and the exit path.                           *)
(*                                                                         *)
(* A command is a program: the sequence of file and process steps the Rust *)
(* function makes, in its order.  Three tasks run programs at once, as in  *)
(* the shell: "main" (the synchronous commands and the tray menu, one at a *)
(* time), "async" (begin_pairing) and "loop" (a nearby-pairing loop that   *)
(* has received an approval).  A power loss may fall between any two       *)
(* steps.  Files are the names that some decision reads: "ident" stands    *)
(* for agent.key, agent.identity.json and agent.enrolled, "governor" for   *)
(* the controller's own files.  Process 0 is the controller; agents are    *)
(* numbered as spawned.                                                    *)
(***************************************************************************)
EXTENDS Naturals, Sequences, FiniteSets

CONSTANTS
  Runtimes,     \* what the runtime directory may hold at first, and the
                \* number of commands a person then gives: [files, cmds]
  MaxSpawns,    \* agents spawned in a behaviour
  MaxGen,       \* nearby-pairing attempts
  MaxFaults,    \* agent crashes and hangs
  MaxLosses     \* power losses

VARIABLES
  files,      \* names present in the runtime directory
  app,        \* "up" or "down"
  role,       \* the role launch_fabric started
  fence,      \* FabricLifecycle: shutdown has been published
  prog,       \* [task -> the steps still to run]
  held,       \* [task -> the processes drained from Sidecars, not yet killed]
  snap,       \* [task -> the entries read_dir saw]
  loops,      \* pairing loops still running, by generation
  gen,        \* PairingInner.worker_generation
  sup,        \* the supervisor task: [pc, pid]
  alive,      \* processes running
  hung,       \* agents that have stopped sending heartbeats
  sidecars,   \* the Sidecars list
  dropped,    \* agents whose handle the owner's loop gave up on a pipe error
  spawned,    \* agents spawned so far
  cancelled,  \* cancel_pairing took the intent marker before the commit, and
              \* none was written since
  cut,        \* some program was cut short by a power loss or a restart
  budget      \* what is left of commands, MaxFaults and MaxLosses

vars == <<files, app, role, fence, prog, held, snap, loops, gen, sup, alive,
          hung, sidecars, dropped, spawned, cancelled, cut, budget>>

Tasks == {"main", "async", "loop"}
Names == {"setup", "owner", "confirmed", "intent", "invite", "pin",
          "ident", "governor", "KILL"}
WorkerFiles == {"invite", "pin", "ident"}

-----------------------------------------------------------------------------
(* Decisions on the runtime directory.                                     *)

WorkerEnrolled(f) == "setup" \notin f /\ "owner" \notin f
                     /\ ("invite" \in f \/ "pin" \in f)

FabricRole(f) == CASE "setup" \in f -> "setup"
                   [] "setup" \notin f /\ WorkerEnrolled(f) -> "worker"
                   [] OTHER -> "owner"

(* enrollment_file_state finds something to complain of.                   *)
Inconsistent(f) ==
  \/ "setup" \in f /\ f \cap (WorkerFiles \cup {"owner"}) # {}
  \/ /\ "setup" \notin f /\ "owner" \in f
     /\ \/ "invite" \in f
        \/ "pin" \in f /\ "ident" \notin f
        \/ "pin" \notin f /\ "ident" \in f
  \/ /\ "setup" \notin f /\ "owner" \notin f
     /\ \/ "pin" \in f /\ "ident" \notin f
        \/ f \cap {"pin", "invite"} = {} /\ "ident" \in f

(* ensure_neutral_first_run: nothing but leftovers no decision reads.      *)
FirstRun(f) == f \subseteq {"confirmed", "intent", "KILL"}

-----------------------------------------------------------------------------
(* The programs.                                                           *)

StopAll == << <<"drain">>, <<"kill">> >>
Reset   == << <<"list">>, <<"wipe">>, <<"add", "setup">> >>
(* A variant: the intent marker is removed whether or not it is there.     *)
PersistUnchecked == << <<"transaction">>, <<"purge">>, <<"vacant">>, <<"add", "invite">>,
                       <<"del", "setup">>, <<"del", "intent">>, <<"restart">> >>

Persist == << <<"transaction">>, <<"purge">>, <<"vacant">>, <<"add", "invite">>,
              <<"del", "setup">>, <<"commit">>, <<"restart">> >>
(* prepare_worker_pairing_files, its role test first.                      *)
Prepare == << <<"prepare">>, <<"purge">>, <<"add", "intent">> >>

(* begin_pairing and join_remote stop an unconfirmed owner's sidecars.     *)
Retire == IF FabricRole(files) = "owner" THEN StopAll ELSE << >>

LeaveFabric   == StopAll \o Reset \o << <<"restart">> >>
FactoryReset  == StopAll \o Reset \o << <<"restart">> >>
ActivateOwner == << <<"add", "owner">>, <<"add", "confirmed">>,
                    <<"del", "setup">>, <<"restart">> >>
BeginPairing  == Retire \o Prepare \o << <<"search">> >>
JoinRemote    == Retire \o Prepare \o Persist
CancelPairing == << <<"cancel">>, <<"del", "intent">> >>
ExitApp       == << <<"fence">> >> \o StopAll \o << <<"restart">> >>

ConfirmedOwner(f) == FabricRole(f) = "owner" /\ "confirmed" \in f

(* A person joins by the nearby search or by a pasted invitation, not by   *)
(* both at once; a search may be started again while an old loop lingers.  *)
NoOtherJoin == prog["main"] = << >> /\ prog["async"] = << >> /\ prog["loop"] = << >>

(* The commands a person can give, with the guards that refuse them.       *)
Offered ==
  { c \in { [task |-> "main",  run |-> LeaveFabric,
             ok |-> FabricRole(files) = "worker"],
            [task |-> "main",  run |-> FactoryReset,  ok |-> TRUE],
            [task |-> "main",  run |-> ActivateOwner,
             ok |-> ~WorkerEnrolled(files) /\ "setup" \in files],
            [task |-> "main",  run |-> << <<"add", "confirmed">> >>,
             ok |-> FabricRole(files) = "owner" /\ "owner" \in files],
            [task |-> "main",  run |-> << <<"add", "KILL">> >>, ok |-> TRUE],
            [task |-> "main",  run |-> << <<"restart">> >>,
             ok |-> ~Inconsistent(files)],
            [task |-> "main",  run |-> JoinRemote,
             ok |-> ~ConfirmedOwner(files) /\ NoOtherJoin /\ loops = {}],
            [task |-> "main",  run |-> CancelPairing, ok |-> TRUE],
            [task |-> "main",  run |-> ExitApp, ok |-> TRUE],
            [task |-> "async", run |-> BeginPairing,
             ok |-> ~ConfirmedOwner(files) /\ NoOtherJoin /\ gen < MaxGen] } : c.ok }

-----------------------------------------------------------------------------
Idle(t) == prog[t] = << >>
NoProg  == [t \in Tasks |-> << >>]
NoSet   == [t \in Tasks |-> {}]

(* launch_fabric, on the role the files give.                              *)
Launch ==
  /\ app = "down"
  /\ LET f1 == IF FirstRun(files) THEN files \cup {"setup"} ELSE files
         r  == FabricRole(f1)
     IN  /\ files' = IF r = "owner" THEN f1 \cup {"owner", "governor"} ELSE f1
         /\ role' = r
         /\ sup' = [pc |-> IF r = "setup" THEN "done" ELSE "check", pid |-> 0]
         /\ alive' = IF r = "owner" THEN {0} ELSE {}
         /\ sidecars' = alive'
  /\ app' = "up" /\ fence' = FALSE
  /\ UNCHANGED <<prog, held, snap, loops, gen, hung, dropped, spawned, cancelled, cut, budget>>

(* The shell ends, with its processes: only the files survive.  The        *)
(* programs of the tasks in others are cut short.                          *)
Down(others) ==
  /\ app' = "down" /\ fence' = FALSE /\ role' = "setup"
  /\ prog' = NoProg /\ held' = NoSet /\ snap' = NoSet
  /\ loops' = {} /\ gen' = 0 /\ sup' = [pc |-> "done", pid |-> 0]
  /\ alive' = {} /\ sidecars' = {} /\ hung' = {} /\ dropped' = {}
  /\ cut' = (cut \/ \E t \in others : ~Idle(t))
  /\ UNCHANGED <<files, spawned, cancelled>>

Command(c) ==
  /\ app = "up" /\ budget.cmds > 0 /\ Idle(c.task)
  /\ prog' = [prog EXCEPT ![c.task] = c.run]
  /\ budget' = [budget EXCEPT !.cmds = @ - 1]
  /\ UNCHANGED <<files, app, role, fence, held, snap, loops, gen, sup, alive,
                 hung, sidecars, dropped, spawned, cancelled, cut>>

Rest(t) == prog' = [prog EXCEPT ![t] = Tail(@)]
Fail(t) == prog' = [prog EXCEPT ![t] = << >>]

(* No invitation has been accepted yet: at most one is being stored, past  *)
(* its tests, and its commit is still to come.                             *)
Stores(p) ==
  /\ \E i \in DOMAIN p : p[i] = <<"commit">>
  /\ \A i \in DOMAIN p : p[i] \notin {<<"transaction">>, <<"vacant">>}
Uncommitted == ~WorkerEnrolled(files) \/ Stores(prog["loop"])

(* Markers, stale credentials and the pairing transaction.                 *)
FileStep(t, s) ==
  /\ \/ s[1] = "add" /\ files' = files \cup {s[2]} /\ Rest(t)
     \/ s[1] = "del" /\ files' = files \ {s[2]} /\ Rest(t)
     \/ s[1] = "purge" /\ Rest(t)
        /\ files' = IF "setup" \in files THEN files \ WorkerFiles ELSE files
     \/ s[1] = "transaction" /\ UNCHANGED files
        /\ IF {"setup", "intent"} \subseteq files THEN Rest(t) ELSE Fail(t)
     \/ s[1] = "vacant" /\ UNCHANGED files
        /\ IF files \cap {"invite", "pin"} = {} THEN Rest(t) ELSE Fail(t)
     \/ s[1] = "commit" /\ files' = files \ {"intent"}
        /\ IF "intent" \in files THEN Rest(t)
           ELSE prog' = [prog EXCEPT ![t] = << <<"del", "invite">>, <<"add", "setup">> >>]
     \/ s[1] = "prepare" /\ UNCHANGED files
        /\ IF FabricRole(files) = "worker" \/ ConfirmedOwner(files) THEN Fail(t)
           ELSE prog' = [prog EXCEPT ![t] =
                  (IF FabricRole(files) = "owner" THEN Reset ELSE << >>) \o Tail(@)]
     \/ s[1] = "wipe"
        /\ \/ \E f \in files : files' = files \ {f} /\ UNCHANGED prog
           \/ files \cap snap[t] = {} /\ UNCHANGED files /\ Rest(t)
  /\ cancelled' = CASE s = <<"del", "intent">> /\ "intent" \in files /\ Uncommitted -> TRUE
                    [] s = <<"add", "intent">> -> FALSE
                    [] OTHER -> cancelled
  /\ UNCHANGED <<held, snap, loops, gen, fence, sidecars, alive>>

(* Sidecars, the lifecycle fence and the pairing generation.               *)
ProcessStep(t, s) ==
  /\ Rest(t)
  /\ \/ s[1] = "list" /\ snap' = [snap EXCEPT ![t] = files]
        /\ UNCHANGED <<held, loops, gen, fence, sidecars, alive>>
     \/ s[1] = "fence" /\ fence' = TRUE
        /\ UNCHANGED <<held, snap, loops, gen, sidecars, alive>>
     \/ s[1] = "drain" /\ held' = [held EXCEPT ![t] = sidecars] /\ sidecars' = {}
        /\ UNCHANGED <<snap, loops, gen, fence, alive>>
     \/ s[1] = "kill" /\ alive' = alive \ held[t] /\ held' = [held EXCEPT ![t] = {}]
        /\ UNCHANGED <<snap, loops, gen, fence, sidecars>>
     \/ s[1] = "search" /\ gen' = gen + 1 /\ loops' = loops \cup {gen'}
        /\ UNCHANGED <<held, snap, fence, sidecars, alive>>
     \/ s[1] = "cancel" /\ gen' = gen + 1
        /\ UNCHANGED <<held, snap, loops, fence, sidecars, alive>>
  /\ UNCHANGED <<files, cancelled>>

Step(t) ==
  /\ app = "up" /\ ~Idle(t)
  /\ LET s == Head(prog[t])
     IN  IF s[1] = "restart"
         THEN Down(Tasks \ {t}) /\ UNCHANGED budget
         ELSE /\ FileStep(t, s) \/ ProcessStep(t, s)
              /\ UNCHANGED <<app, role, sup, hung, dropped, spawned, cut, budget>>

(* A pairing loop receives the last fragment of an approval.  The loop     *)
(* tests its generation before it waits, never after.                      *)
ApprovalArrives(g) ==
  /\ app = "up" /\ g \in loops /\ Idle("loop")
  /\ loops' = loops \ {g}
  /\ prog' = [prog EXCEPT !["loop"] = Persist]
  /\ UNCHANGED <<files, app, role, fence, held, snap, gen, sup, alive, hung,
                 sidecars, dropped, spawned, cancelled, cut, budget>>

LoopEnds(g) ==
  /\ app = "up" /\ g \in loops /\ g # gen /\ loops' = loops \ {g}
  /\ UNCHANGED <<files, app, role, fence, prog, held, snap, gen, sup, alive,
                 hung, sidecars, dropped, spawned, cancelled, cut, budget>>

-----------------------------------------------------------------------------
(* The supervisor: launch_remote_worker's loop on a worker, launch_fabric's *)
(* on an owner.                                                            *)

At(pc) == app = "up" /\ sup.pc = pc
Goto(pc) == sup' = [sup EXCEPT !.pc = pc]
SupFrame == <<files, app, role, fence, prog, held, snap, loops, gen, dropped,
              cancelled, cut, budget>>

(* A worker's loop ends for good without an enrolment or under KILL; an    *)
(* owner's waits for a healthy controller and for KILL to go.              *)
Refused == role = "worker" /\ (~WorkerEnrolled(files) \/ "KILL" \in files)
Waits   == role = "owner" /\ (0 \notin alive \/ "KILL" \in files)

SupCheck ==
  /\ At("check") /\ (fence \/ ~Waits)
  /\ Goto(IF fence \/ Refused THEN "done" ELSE "spawn")
  /\ UNCHANGED SupFrame /\ UNCHANGED <<alive, hung, sidecars, spawned>>

SupSpawn ==
  /\ At("spawn") /\ spawned < MaxSpawns
  /\ spawned' = spawned + 1 /\ alive' = alive \cup {spawned'}
  /\ sup' = [pc |-> "push", pid |-> spawned']
  /\ UNCHANGED SupFrame /\ UNCHANGED <<hung, sidecars>>

(* A variant: the spawned agent is not listed.                             *)
PushForgets ==
  /\ At("push") /\ Goto("watch")
  /\ UNCHANGED SupFrame /\ UNCHANGED <<alive, hung, sidecars, spawned>>

SupPush ==
  /\ At("push") /\ sidecars' = sidecars \cup {sup.pid} /\ Goto("watch")
  /\ UNCHANGED SupFrame /\ UNCHANGED <<alive, hung, spawned>>

(* The event stream ends, or the heartbeat is stale: stop_sidecar kills    *)
(* the agent if the list still holds it.                                   *)
SupSeesEnd ==
  /\ At("watch") /\ sup.pid \notin alive /\ Goto("reap")
  /\ UNCHANGED SupFrame /\ UNCHANGED <<alive, hung, sidecars, spawned>>

(* Variants: a stale agent is replaced without being stopped, or left      *)
(* alone under KILL.                                                       *)
StaleRespawns ==
  /\ At("watch") /\ sup.pid \in alive \cap hung /\ Goto("check")
  /\ UNCHANGED SupFrame /\ UNCHANGED <<alive, sidecars, hung, spawned>>

StaleUnlessKilled ==
  /\ At("watch") /\ sup.pid \in alive \cap hung /\ Goto("reap") /\ "KILL" \notin files
  /\ alive' = IF sup.pid \in sidecars THEN alive \ {sup.pid} ELSE alive
  /\ sidecars' = sidecars \ {sup.pid}
  /\ UNCHANGED SupFrame /\ UNCHANGED <<hung, spawned>>

SupStale ==
  /\ At("watch") /\ sup.pid \in alive \cap hung /\ Goto("reap")
  /\ alive' = IF sup.pid \in sidecars THEN alive \ {sup.pid} ELSE alive
  /\ sidecars' = sidecars \ {sup.pid}
  /\ UNCHANGED SupFrame /\ UNCHANGED <<hung, spawned>>

(* A variant: the loop ends with its agent.                                *)
ReapEnds ==
  /\ At("reap") /\ sidecars' = sidecars \ {sup.pid} /\ Goto("done")
  /\ UNCHANGED SupFrame /\ UNCHANGED <<alive, hung, spawned>>

SupReap ==
  /\ At("reap") /\ sidecars' = sidecars \ {sup.pid}
  /\ Goto(IF fence THEN "done" ELSE "check")
  /\ UNCHANGED SupFrame /\ UNCHANGED <<alive, hung, spawned>>

(* The owner's loop also ends its watch when reading the agent's output    *)
(* fails; the agent is not stopped.                                        *)
SupSeesError ==
  /\ At("watch") /\ role = "owner" /\ sup.pid \in alive /\ budget.faults > 0
  /\ budget' = [budget EXCEPT !.faults = @ - 1]
  /\ dropped' = dropped \cup {sup.pid} /\ Goto("reap")
  /\ UNCHANGED <<files, app, role, fence, prog, held, snap, loops, gen, alive,
                 hung, sidecars, spawned, cancelled, cut>>

Supervise == SupCheck \/ SupSpawn \/ SupPush \/ SupSeesEnd \/ SupStale \/ SupReap

-----------------------------------------------------------------------------
(* The agent process, as the shell sees it (crates/rampage-agent).         *)

Agents == alive \ {0}
AgentFrame == <<app, role, fence, prog, held, snap, loops, gen, sup, sidecars,
                dropped, spawned, cancelled, cut>>

(* The owner's loop makes an invitation for its own agent.                 *)
HasInvitation == "invite" \in files \/ role = "owner"

(* It makes its identity before anything else, then enrols: the pin, and   *)
(* the invitation removed.                                                 *)
AgentWrites ==
  /\ app = "up" /\ Agents \ hung # {}
  /\ \/ "ident" \notin files /\ files' = files \cup {"ident"}
     \/ /\ "ident" \in files /\ "pin" \notin files /\ HasInvitation
        /\ files' = (files \cup {"pin"}) \ {"invite"}
  /\ UNCHANGED AgentFrame /\ UNCHANGED <<alive, hung, budget>>

(* The agent's loop returns on KILL.                                       *)
AgentStops(p) ==
  /\ app = "up" /\ p \in Agents \ hung /\ "KILL" \in files
  /\ alive' = alive \ {p}
  /\ UNCHANGED AgentFrame /\ UNCHANGED <<files, hung, budget>>

AgentFault(p) ==
  /\ app = "up" /\ p \in Agents \ hung /\ budget.faults > 0
  /\ budget' = [budget EXCEPT !.faults = @ - 1]
  /\ \/ alive' = alive \ {p} /\ UNCHANGED hung
     \/ hung' = hung \cup {p} /\ UNCHANGED alive
  /\ UNCHANGED AgentFrame /\ UNCHANGED files

PowerLoss ==
  /\ app = "up" /\ budget.losses > 0
  /\ budget' = [budget EXCEPT !.losses = @ - 1]
  /\ Down(Tasks)

-----------------------------------------------------------------------------
Init ==
  /\ \E r \in Runtimes :
       /\ files = r.files
       /\ budget = [cmds |-> r.cmds, faults |-> MaxFaults, losses |-> MaxLosses]
  /\ app = "down" /\ role = "setup" /\ fence = FALSE
  /\ prog = NoProg /\ held = NoSet /\ snap = NoSet /\ loops = {} /\ gen = 0
  /\ sup = [pc |-> "done", pid |-> 0] /\ alive = {} /\ hung = {} /\ sidecars = {} /\ dropped = {}
  /\ spawned = 0 /\ cancelled = FALSE /\ cut = FALSE

Next ==
  \/ Launch \/ Supervise \/ SupSeesError \/ AgentWrites \/ PowerLoss
  \/ \E c \in Offered : Command(c)
  \/ \E t \in Tasks : Step(t)
  \/ \E g \in loops : ApprovalArrives(g) \/ LoopEnds(g)
  \/ \E p \in Agents : AgentStops(p) \/ AgentFault(p)

Spec == Init /\ [][Next]_vars

(* Tasks, the supervisor and an agent that sees KILL are scheduled by the  *)
(* runtime and the operating system.                                       *)
FairSpec == Spec /\ WF_vars(Supervise) /\ WF_vars(\E p \in Agents : AgentStops(p))
                 /\ \A t \in Tasks : WF_vars(Step(t))

-----------------------------------------------------------------------------
(* Type correctness of the shell's state.                                  *)
TypeOK ==
  /\ files \subseteq Names /\ app \in {"up", "down"}
  /\ role \in {"setup", "worker", "owner"} /\ fence \in BOOLEAN
  /\ loops \subseteq 1..gen /\ alive \subseteq 0..spawned /\ spawned <= MaxSpawns
  /\ sidecars \subseteq 0..spawned /\ hung \subseteq 1..spawned
  /\ sup.pc \in {"done", "check", "spawn", "push", "watch", "reap"}
  /\ sup.pid \in 0..spawned

(* A process that a command has drained is being killed and replaced by    *)
(* none; apart from those the shell never runs two agents on one key,      *)
(* whatever watchdog, commands and crashes do.  Agents that an owner's     *)
(* loop has dropped on a pipe error are not counted.                       *)
Condemned == UNION { held[t] : t \in Tasks }
OneAgent == \A a, b \in Agents \ (Condemned \cup dropped) : a = b

(* Every process the shell started can still be stopped by it: it is in    *)
(* the Sidecars list, or some task holds it to kill it or to list it.  The *)
(* one exception is an agent dropped on a pipe error.                      *)
Supervised ==
  alive \subseteq sidecars \cup Condemned \cup dropped
                  \cup (IF sup.pc = "push" THEN {sup.pid} ELSE {})

(* A cancelled pairing does not enrol the machine: once cancel_pairing has *)
(* taken the intent marker, a pairing loop that was already storing its    *)
(* invitation rolls back, and when the commands have run (unless one was   *)
(* cut short) no invitation makes the machine a worker.  A pin that the    *)
(* agent of an owner being retired still writes is not the pairing's.      *)
CancelHolds ==
  cancelled /\ ~cut /\ (\A t \in Tasks : Idle(t)) => ~(WorkerEnrolled(files) /\ "invite" \in files)

(* STOP empties the machine: once KILL is written every agent ends, one    *)
(* that the supervisor was about to spawn and a hung one included.         *)
StopEmpties ==
  (app = "up" /\ "KILL" \in files) ~> (Agents = {} \/ "KILL" \notin files \/ app = "down")

(* The supervisor brings the worker back after every crash and hang, as    *)
(* long as the machine is enrolled and not stopped (and the bound on       *)
(* spawned agents is not reached).                                         *)
MayWork == app = "up" /\ role = "worker" /\ WorkerEnrolled(files)
           /\ "KILL" \notin files /\ ~fence /\ spawned < MaxSpawns
WorkerComesBack == MayWork ~> (~MayWork \/ Agents \ hung # {})

(* The managed processes are gone while a reset rotates the identity: no   *)
(* agent runs that could recreate the pin after it was removed.            *)
QuietReset ==
  \A t \in Tasks : (~Idle(t) /\ Head(prog[t])[1] = "wipe") => Agents = {}
=============================================================================
