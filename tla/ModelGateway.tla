---------------------------- MODULE ModelGateway ----------------------------
(***************************************************************************)
(* Model sessions: the OpenAI and Anthropic endpoints of the controller    *)
(* lease a model on one worker, open a stream of frames from it and relay  *)
(* them to the client.  Starting a session holds the admission gate until  *)
(* the worker is connected; after that the session runs in a task of its   *)
(* own that waits, in one select, for a frame, the end of its lease or a   *)
(* cancellation, and that waits for nothing else while a streaming client  *)
(* has not made room in its channel.                                       *)
(***************************************************************************)
EXTENDS Naturals, Sequences

CONSTANTS Invocations, \* client requests, each with a session of its own
          Hosts,       \* workers that may have the model
          Versions,    \* versions of the model's artifact
          MaxDeltas,   \* bound: deltas a worker produces in one session
          Channel,     \* capacity of the streaming channel (32 in the code)
          MaxBreaks,   \* bound: lost connections, changed installs, lost clients
          MaxHalts     \* bound: STOPs, revocations and owner cancellations

Nil == "none"

ASSUME GatewayAssumption ==
  /\ MaxDeltas \in Nat /\ Channel \in Nat /\ MaxBreaks \in Nat /\ MaxHalts \in Nat
  /\ Nil \notin Invocations /\ Nil \notin Versions

VARIABLES killed,    \* the kill latch
          fencing,   \* the fencing epoch
          admitting, \* the session that holds the admission gate, or Nil
          offered,   \* the version each worker's live offer advertises, or Nil
          installed, \* the version each worker really has
          enrolled,  \* the enrolled workers
          task,      \* the controller's side of each session
          cancels,   \* model_cancellations: registered session -> cancelled?
          wk,        \* the worker's side of each session
          wire,      \* frames on their way, oldest first
          entries,   \* the ledger's entries about each session
          breaks, halts

gatewayVars == <<killed, fencing, admitting, offered, installed, enrolled, task, cancels,
                 wk, wire, entries, breaks, halts>>
ownerSide == <<killed, fencing, enrolled, offered>>

NoTask == [pc |-> "idle", node |-> Nil, digest |-> Nil, epoch |-> 0, stream |-> FALSE,
           api |-> Nil, got |-> 0, chan |-> 0, usage |-> FALSE, left |-> FALSE,
           expired |-> FALSE, result |-> Nil]
NoRun == [pc |-> "idle", out |-> 0]

GatewayInit ==
  /\ killed = FALSE /\ fencing = 1 /\ admitting = Nil
  /\ offered \in [Hosts -> Versions] /\ installed = offered /\ enrolled = Hosts
  /\ task = [r \in Invocations |-> NoTask] /\ cancels = <<>>
  /\ wk = [r \in Invocations |-> NoRun]
  /\ wire = [r \in Invocations |-> <<>>] /\ entries = [r \in Invocations |-> <<>>]
  /\ breaks = 0 /\ halts = 0

-----------------------------------------------------------------------------
(* Starting a session.                                                     *)

(* live_model_catalog: the workers whose offers carry the model, provided  *)
(* they all carry the same artifact.                                       *)
LiveModelCatalog ==
  LET with == {n \in Hosts : offered[n] # Nil} IN
  IF \A m, n \in with : offered[m] = offered[n] THEN with ELSE {}

(* authorize_model_session_at_epoch, for the artifact the offer names.     *)
Leased(n) == [NoTask EXCEPT !.pc = "opening", !.node = n, !.digest = offered[n],
                            !.epoch = fencing]

StartModelInvocation(r, n, stream, api) ==
  /\ task[r].pc = "idle" /\ admitting = Nil /\ ~killed /\ n \in LiveModelCatalog
  /\ task' = [task EXCEPT ![r] = [Leased(n) EXCEPT !.stream = stream, !.api = api]]
  /\ entries' = [entries EXCEPT ![r] = Append(@, "issued")]
  /\ wk' = [wk EXCEPT ![r].pc = "asked"]
  /\ admitting' = r
  /\ UNCHANGED <<ownerSide, installed, cancels, wire, breaks, halts>>

(* A variant that keeps the guard with the invocation.                     *)
ConnectedKeepsGate(r) ==
  /\ task[r].pc = "opening"
  /\ task' = [task EXCEPT ![r].pc = "active"]
  /\ cancels' = [s \in DOMAIN cancels \cup {r} |-> IF s = r THEN FALSE ELSE cancels[s]]
  /\ UNCHANGED <<ownerSide, admitting, installed, wk, wire, entries, breaks, halts>>

Connected(r) ==
  /\ task[r].pc = "opening"
  /\ task' = [task EXCEPT ![r].pc = "active"]
  /\ cancels' = [s \in DOMAIN cancels \cup {r} |-> IF s = r THEN FALSE ELSE cancels[s]]
  /\ admitting' = Nil
  /\ UNCHANGED <<ownerSide, installed, wk, wire, entries, breaks, halts>>

(* The worker is not reached within ten seconds; it may yet serve.         *)
ConnectFails(r) ==
  /\ task[r].pc = "opening"
  /\ task' = [task EXCEPT ![r].pc = "done", ![r].result = "failed"]
  /\ admitting' = Nil
  /\ UNCHANGED <<ownerSide, installed, cancels, wk, wire, entries, breaks, halts>>

-----------------------------------------------------------------------------
(* The worker's side.                                                      *)

Frame(kind, receipt, out, usage) ==
  [kind |-> kind, receipt |-> receipt, out |-> out, usage |-> usage]
Write(r, f) == wire' = [wire EXCEPT ![r] = Append(@, f)]

(* A variant that trusts the lease for what is installed.                  *)
ModelAssumed(r) == ~task[r].expired
(* is_active_at, verify_local_ollama_model; the nonce is this session's.   *)
ModelVerified(r) == ~task[r].expired /\ installed[task[r].node] = task[r].digest

ServeModelConnection(r) ==
  /\ wk[r].pc = "asked"
  /\ IF ModelVerified(r)
     THEN wk' = [wk EXCEPT ![r].pc = "running"] /\ UNCHANGED wire
     ELSE wk' = [wk EXCEPT ![r].pc = "ended"] /\ Write(r, Frame("error", FALSE, 0, FALSE))
  /\ UNCHANGED <<ownerSide, admitting, installed, task, cancels, entries, breaks, halts>>

ProcessOllamaLine(r) ==
  /\ wk[r].pc = "running" /\ wk[r].out < MaxDeltas
  /\ wk' = [wk EXCEPT ![r].out = @ + 1]
  /\ Write(r, Frame("delta", FALSE, 0, FALSE))
  /\ UNCHANGED <<ownerSide, admitting, installed, task, cancels, entries, breaks, halts>>

(* Success needs the runtime's terminal line and some output; the receipt  *)
(* carries token counts only when the runtime reports both.                *)
OllamaEnds(r) ==
  /\ wk[r].pc = "running"
  /\ wk' = [wk EXCEPT ![r].pc = "ended"]
  /\ \/ wk[r].out > 0
        /\ \E usage \in BOOLEAN : Write(r, Frame("complete", TRUE, wk[r].out, usage))
     \/ Write(r, Frame("error", TRUE, wk[r].out, FALSE))
  /\ UNCHANGED <<ownerSide, admitting, installed, task, cancels, entries, breaks, halts>>

(* The connection or the worker dies.                                      *)
ConnectionBreaks(r) ==
  /\ wk[r].pc \in {"asked", "running"} /\ breaks < MaxBreaks /\ breaks' = breaks + 1
  /\ wk' = [wk EXCEPT ![r].pc = "ended"] /\ Write(r, Frame("broken", FALSE, 0, FALSE))
  /\ UNCHANGED <<ownerSide, admitting, installed, task, cancels, entries, halts>>

-----------------------------------------------------------------------------
(* The controller's task, in consume_model_invocation.                     *)

EndsSession(r, result) == [task[r] EXCEPT !.pc = "finishing", !.result = result]

(* A variant that does not wait for room.                                  *)
RelaysAtOnce(r) ==
  LET t == [task[r] EXCEPT !.got = @ + 1] IN
  IF t.stream THEN [t EXCEPT !.chan = @ + 1] ELSE t

(* A delta is collected and, for a streaming client, put in its channel.   *)
Relayed(r) ==
  LET t == [task[r] EXCEPT !.got = @ + 1] IN
  IF ~t.stream THEN t
  ELSE IF t.left THEN [t EXCEPT !.pc = "finishing", !.result = "disconnected"]
  ELSE IF t.chan < Channel THEN [t EXCEPT !.chan = @ + 1]
  ELSE [t EXCEPT !.pc = "blocked"]

(* verify_terminal_model_receipt: an enrolled signer and this transcript.  *)
VerifiedReceipt(r, f) == f.receipt /\ task[r].node \in enrolled /\ f.out = task[r].got

(* What the client is told of a frame that ends the session.               *)
Outcome(f, good) == IF good /\ f.kind = "complete" THEN "ok" ELSE "failed"

TakeFrame(r) ==
  LET f == Head(wire[r])
      good == f.kind \in {"complete", "error"} /\ VerifiedReceipt(r, f)
  IN /\ task[r].pc = "active" /\ wire[r] # <<>> /\ ~task[r].expired
     /\ wire' = [wire EXCEPT ![r] = Tail(@)]
     /\ task' = [task EXCEPT ![r] =
                   IF f.kind = "delta" THEN Relayed(r)
                   ELSE [EndsSession(r, Outcome(f, good)) EXCEPT !.usage = f.usage]]
     /\ entries' = IF good THEN [entries EXCEPT ![r] = Append(@, "receipted")] ELSE entries
     /\ UNCHANGED <<ownerSide, admitting, installed, cancels, wk, breaks, halts>>

(* The channel has room again: the loop goes on, or the client is gone.    *)
SendReturns(r) ==
  /\ task[r].pc = "blocked" /\ (task[r].left \/ task[r].chan < Channel)
  /\ task' = [task EXCEPT ![r] = IF task[r].left THEN EndsSession(r, "disconnected")
                                 ELSE [task[r] EXCEPT !.pc = "active", !.chan = @ + 1]]
  /\ UNCHANGED <<ownerSide, admitting, installed, cancels, wk, wire, entries, breaks, halts>>

SeesCancellation(r) ==
  /\ task[r].pc = "active" /\ cancels[r]
  /\ task' = [task EXCEPT ![r] = EndsSession(r, "cancelled")]
  /\ UNCHANGED <<ownerSide, admitting, installed, cancels, wk, wire, entries, breaks, halts>>

SeesLeaseEnd(r) ==
  /\ task[r].pc = "active" /\ task[r].expired
  /\ task' = [task EXCEPT ![r] = EndsSession(r, "timeout")]
  /\ UNCHANGED <<ownerSide, admitting, installed, cancels, wk, wire, entries, breaks, halts>>

DropEntry(r) == cancels' = [s \in DOMAIN cancels \ {r} |-> cancels[s]]

FinishesOpenAi(r) ==
  /\ task[r].pc = "finishing" /\ task[r].api = "openai"
  /\ task' = [task EXCEPT ![r].pc = "done"] /\ DropEntry(r)
  /\ UNCHANGED <<ownerSide, admitting, installed, wk, wire, entries, breaks, halts>>

(* An Anthropic message must state its usage: without it the client is     *)
(* told of an error although the receipt is in the ledger.                 *)
FinishesAnthropic(r) ==
  /\ task[r].pc = "finishing" /\ task[r].api = "anthropic"
  /\ task' = [task EXCEPT ![r].pc = "done",
                ![r].result = IF @ = "ok" /\ ~task[r].usage THEN "no usage" ELSE @]
  /\ DropEntry(r)
  /\ UNCHANGED <<ownerSide, admitting, installed, wk, wire, entries, breaks, halts>>

-----------------------------------------------------------------------------
(* Clients, time and the owner.                                            *)

ClientReads(r) ==
  /\ task[r].chan > 0 /\ ~task[r].left
  /\ task' = [task EXCEPT ![r].chan = @ - 1]
  /\ UNCHANGED <<ownerSide, admitting, installed, cancels, wk, wire, entries, breaks, halts>>

(* The server drops the handler of a client that hangs up.  A streaming    *)
(* session is a task of its own and only sees its channel closed; any      *)
(* other is abandoned where it waits, past its own cleanup.                *)
ClientLeaves(r) ==
  /\ task[r].pc \in {"opening", "active", "blocked"} /\ ~task[r].left
  /\ breaks < MaxBreaks /\ breaks' = breaks + 1
  /\ IF task[r].stream /\ task[r].pc # "opening"
     THEN task' = [task EXCEPT ![r].left = TRUE] /\ UNCHANGED admitting
     ELSE /\ task' = [task EXCEPT ![r].pc = "abandoned"]
          /\ admitting' = IF admitting = r THEN Nil ELSE admitting
  /\ UNCHANGED <<ownerSide, installed, cancels, wk, wire, entries, halts>>

LeaseEnds(r) ==
  /\ task[r].pc # "idle" /\ ~task[r].expired
  /\ task' = [task EXCEPT ![r].expired = TRUE]
  /\ UNCHANGED <<ownerSide, admitting, installed, cancels, wk, wire, entries, breaks, halts>>

CancelModelSession(r) ==
  /\ r \in DOMAIN cancels /\ halts < MaxHalts /\ halts' = halts + 1
  /\ cancels' = [cancels EXCEPT ![r] = TRUE]
  /\ entries' = [entries EXCEPT ![r] = Append(@, "cancel")]
  /\ UNCHANGED <<ownerSide, admitting, installed, task, wk, wire, breaks>>

(* A variant that raises the latch and the epoch only.                     *)
LeaveSessions == cancels' = cancels
CancelAll == cancels' = [s \in DOMAIN cancels |-> TRUE]

LocalStopCancels ==
  /\ admitting = Nil /\ ~killed /\ halts < MaxHalts /\ halts' = halts + 1
  /\ killed' = TRUE /\ fencing' = fencing + 1 /\ CancelAll
  /\ UNCHANGED <<enrolled, offered, admitting, installed, task, wk, wire, entries, breaks>>

LocalResumeModels ==
  /\ admitting = Nil /\ killed /\ killed' = FALSE
  /\ UNCHANGED <<fencing, enrolled, offered, admitting, installed, task, cancels, wk, wire,
                 entries, breaks, halts>>

RevokeNodeCancels(n) ==
  /\ admitting = Nil /\ n \in enrolled /\ halts < MaxHalts /\ halts' = halts + 1
  /\ enrolled' = enrolled \ {n} /\ offered' = [offered EXCEPT ![n] = Nil] /\ CancelAll
  /\ UNCHANGED <<killed, fencing, admitting, installed, task, wk, wire, entries, breaks>>

(* A worker pulls another version, which its next offer will advertise.    *)
ModelPulled(n, d) ==
  /\ installed[n] # d /\ breaks < MaxBreaks /\ breaks' = breaks + 1
  /\ installed' = [installed EXCEPT ![n] = d]
  /\ UNCHANGED <<ownerSide, admitting, task, cancels, wk, wire, entries, halts>>

RegisterModelOffer(n) ==
  /\ n \in enrolled /\ admitting = Nil /\ offered[n] # installed[n]
  /\ offered' = [offered EXCEPT ![n] = installed[n]]
  /\ UNCHANGED <<killed, fencing, enrolled, admitting, installed, task, cancels, wk, wire,
                 entries, breaks, halts>>

-----------------------------------------------------------------------------
TaskStep(r) == Connected(r) \/ ConnectFails(r) \/ TakeFrame(r) \/ SeesLeaseEnd(r)
               \/ SendReturns(r) \/ FinishesOpenAi(r) \/ FinishesAnthropic(r)

GatewayNext ==
  \/ \E r \in Invocations :
       \/ \E n \in Hosts, stream \in BOOLEAN, api \in {"openai", "anthropic"} :
            StartModelInvocation(r, n, stream, api)
       \/ TaskStep(r) \/ SeesCancellation(r)
       \/ ServeModelConnection(r) \/ ProcessOllamaLine(r) \/ OllamaEnds(r)
       \/ ConnectionBreaks(r) \/ ClientReads(r) \/ ClientLeaves(r) \/ LeaseEnds(r)
       \/ CancelModelSession(r)
  \/ LocalStopCancels \/ LocalResumeModels
  \/ \E n \in Hosts : \/ RevokeNodeCancels(n) \/ RegisterModelOffer(n)
                      \/ \E d \in Versions : ModelPulled(n, d)

GatewaySpec == GatewayInit /\ [][GatewayNext]_gatewayVars

(* The runtime polls every ready task and select polls every ready branch; *)
(* nothing is assumed of workers, clients or the end of a lease.           *)
GatewayFairness ==
  \A r \in Invocations : WF_gatewayVars(TaskStep(r)) /\ WF_gatewayVars(SeesCancellation(r))
GatewayFairSpec == GatewaySpec /\ GatewayFairness

-----------------------------------------------------------------------------
(* Every variable has its type; the channel of a client is bounded.        *)
GatewayTypeOK ==
  /\ killed \in BOOLEAN /\ fencing \in 1..(MaxHalts + 1)
  /\ admitting \in Invocations \cup {Nil} /\ DOMAIN cancels \subseteq Invocations
  /\ \A r \in Invocations :
       /\ task[r].got \in 0..MaxDeltas /\ task[r].chan \in 0..Channel
       /\ wk[r].out \in 0..MaxDeltas

(* terminal_success_requires_signed_receipt: a client is told a completion *)
(* only after the ledger has the worker's receipt for it, and then it has  *)
(* every chunk the worker produced under the lease.                        *)
CompletionIsReceipted ==
  \A r \in Invocations : task[r].result = "ok" =>
    /\ \E i \in DOMAIN entries[r] : entries[r][i] = "receipted"
    /\ task[r].got = wk[r].out /\ wk[r].pc = "ended"

RunsLeased == \A r \in Invocations :
  wk[r].pc = "asked" /\ wk'[r].pc = "running" => installed[task[r].node] = task[r].digest

Agreed == \A r \in Invocations :
  task[r].pc = "idle" /\ task'[r].pc = "opening"
    => \A n \in Hosts : offered[n] \in {Nil, task'[r].digest}

(* What a client is answered with is right: it is told of a completion only *)
(* when the ledger has the receipt and it has the whole output; a session  *)
(* is leased only when the live offers of its model agree on one artifact; *)
(* and a worker runs it only on the artifact its lease names, however old  *)
(* the offer is (consume_model_invocation, live_model_catalog,             *)
(* serve_model_connection).                                                *)
AnswersAreSound ==
  []CompletionIsReceipted /\ [][Agreed /\ RunsLeased]_gatewayVars

(* STOP waits for the admission gate, so it finds no session half opened:  *)
(* each one that runs is registered and is cancelled (local_stop,          *)
(* start_model_invocation).                                                *)
StopFindsAll ==
  LocalStopCancels =>
    \A r \in Invocations : task[r].pc \in {"opening", "active", "blocked"} =>
      r \in DOMAIN cancels' /\ cancels'[r]

(* A registered session that has no task any more was abandoned by its     *)
(* client; no other path leaves an entry behind.                           *)
EntriesHaveTasks ==
  \A r \in DOMAIN cancels : task[r].pc \in {"active", "blocked", "finishing", "abandoned"}

(* STOP ends every session it finds, unless the session's task is waiting  *)
(* for a client that does not read: local_stop, cancel and select together. *)
StopEndsRead ==
  \A r \in Invocations : killed /\ task[r].pc = "active" ~> task[r].pc # "active"

(* Opening a session never keeps the admission gate for good               *)
(* (start_model_invocation).                                               *)
SessionFreesGate == admitting # Nil ~> admitting = Nil

(* MODEL_FABRIC.md: owner STOP also cancels all active controller sessions. *)
StopEndsSessions ==
  \A r \in Invocations : killed /\ task[r].pc \in {"active", "blocked"}
                           ~> task[r].pc \notin {"active", "blocked"}
=============================================================================
