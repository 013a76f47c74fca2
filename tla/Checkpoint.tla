----------------------------- MODULE Checkpoint -----------------------------
(***************************************************************************)
(* The controller's start: the evidence ledger is verified after a signed  *)
(* checkpoint, or from the beginning when there is no usable one, and a    *)
(* new checkpoint replaces the old file by write, remove and rename.  The  *)
(* process may stop, or the host lose power, between any two of these.     *)
(* An event is [id, hash, sound]: the event first appended, the hash       *)
(* stored in its row, and whether the row still hashes to it.              *)
(***************************************************************************)
EXTENDS Integers, Sequences

CONSTANTS
  MaxEvents,    \* bound on the events ever appended
  MaxMishaps    \* bound on crashes, decayed rows, spoilt files, old copies

ASSUME CheckpointAssumption == MaxEvents \in Nat /\ MaxMishaps \in Nat

VARIABLES
  chain,        \* the rows of ledger_events, by sequence
  appended,     \* how many events were ever appended
  checkpoint,   \* ledger-checkpoint.json
  before,       \* the file a power loss may bring back
  pc,           \* where the process is
  seen,         \* ids of the events some start found sound
  mishaps
checkpointVars == <<chain, appended, checkpoint, before, pc, seen, mishaps>>

NoCheckpoint == [kind |-> "missing", sequence |-> 0, hash |-> 0]
Spoilt == [kind |-> "spoilt", sequence |-> 0, hash |-> 0]
Signed(n, h) == [kind |-> "signed", sequence |-> n, hash |-> h]

Genesis == 0        \* the hash before the first event
Decayed == -1       \* a hash no event has

CheckpointTypeOK ==
  /\ appended \in 0..MaxEvents
  /\ chain \in Seq([id : 1..MaxEvents, hash : -1..MaxEvents, sound : BOOLEAN])
  /\ {checkpoint, before} \subseteq {NoCheckpoint, Spoilt}
       \cup {Signed(n, h) : n \in 0..MaxEvents, h \in 0..MaxEvents}
  /\ pc \in {"down", "read", "write", "remove", "rename", "sync", "up", "refused"}
  /\ seen \subseteq 1..MaxEvents
  /\ mishaps \in 0..MaxMishaps

CheckpointInit ==
  /\ chain = <<>>
  /\ appended = 0
  /\ checkpoint = NoCheckpoint
  /\ before = NoCheckpoint
  /\ pc = "down"
  /\ seen = {}
  /\ mishaps = 0

-----------------------------------------------------------------------------
(* The start *)

StartController ==
  /\ pc = "down"
  /\ pc' = "read"
  /\ UNCHANGED <<chain, appended, checkpoint, before, seen, mishaps>>

\* read_ledger_checkpoint: the file parses, its signature verifies, and the
\* ledger still has the event it names, with that hash.
Usable ==
  /\ checkpoint.kind = "signed"
  /\ IF checkpoint.sequence = 0 THEN checkpoint.hash = Genesis
     ELSE checkpoint.sequence <= Len(chain) /\ chain[checkpoint.sequence].hash = checkpoint.hash

\* A variant: the tail starts one event late.
VerifyAfterNext(n) == \A i \in DOMAIN chain : i > n + 1 => chain[i].sound

\* verify_after: every event past the checkpoint hashes to its stored hash.
\* The links hold with the hashes, as each hash covers its predecessor's.
VerifyAfter(n) == \A i \in DOMAIN chain : i > n => chain[i].sound

VerifyLedgerWithCheckpoint ==
  /\ pc = "read"
  /\ LET from == IF Usable THEN checkpoint.sequence ELSE 0
     IN  IF VerifyAfter(from)
         THEN /\ pc' = "write"
              /\ seen' = seen \cup {chain[i].id : i \in {j \in DOMAIN chain : j > from}}
         ELSE /\ pc' = "refused"
              /\ UNCHANGED seen
  /\ UNCHANGED <<chain, appended, checkpoint, before, mishaps>>

\* write_new_durable_file, to a temporary of its own.
WriteTemporary ==
  /\ pc = "write"
  /\ pc' = IF checkpoint.kind = "missing" THEN "rename" ELSE "remove"
  /\ before' = checkpoint
  /\ UNCHANGED <<chain, appended, checkpoint, seen, mishaps>>

RemoveOld ==
  /\ pc = "remove"
  /\ pc' = "rename"
  /\ checkpoint' = NoCheckpoint
  /\ UNCHANGED <<chain, appended, before, seen, mishaps>>

Latest == IF chain = <<>> THEN Signed(0, Genesis)
          ELSE Signed(Len(chain), chain[Len(chain)].hash)

RenameTemporary ==
  /\ pc = "rename"
  /\ pc' = "sync"
  /\ checkpoint' = Latest
  /\ UNCHANGED <<chain, appended, before, seen, mishaps>>

SyncParent ==
  /\ pc = "sync"
  /\ pc' = "up"
  /\ before' = checkpoint
  /\ UNCHANGED <<chain, appended, checkpoint, seen, mishaps>>

\* A step of the checkpoint fails: a warning, and the controller starts.
PersistFails ==
  /\ pc \in {"write", "remove", "rename", "sync"}
  /\ mishaps < MaxMishaps
  /\ mishaps' = mishaps + 1
  /\ pc' = "up"
  /\ UNCHANGED <<chain, appended, checkpoint, before, seen>>

-----------------------------------------------------------------------------
(* Service, and what may happen to the files *)

AppendLedger ==
  /\ pc = "up"
  /\ appended < MaxEvents
  /\ appended' = appended + 1
  /\ chain' = Append(chain, [id |-> appended + 1, hash |-> appended + 1, sound |-> TRUE])
  /\ UNCHANGED <<checkpoint, before, pc, seen, mishaps>>

ExitController ==
  /\ pc # "down"
  /\ pc' = "down"
  /\ UNCHANGED <<chain, appended, checkpoint, before, seen, mishaps>>

\* The removal and the rename may not have reached the disk.
PowerLoss ==
  /\ pc # "down"
  /\ mishaps < MaxMishaps
  /\ mishaps' = mishaps + 1
  /\ pc' = "down"
  /\ checkpoint' \in IF before = checkpoint THEN {checkpoint} ELSE {before, NoCheckpoint, checkpoint}
  /\ before' = checkpoint'
  /\ UNCHANGED <<chain, appended, seen>>

\* A row decays, in its payload or in its hash; or the file does; or the
\* owner puts an older copy of the database back.
DecayOrRestore ==
  /\ pc = "down"
  /\ mishaps < MaxMishaps
  /\ mishaps' = mishaps + 1
  /\ \/ /\ \E i \in DOMAIN chain : \E h \in {chain[i].hash, Decayed} :
             chain' = [chain EXCEPT ![i].sound = FALSE, ![i].hash = h]
        /\ UNCHANGED checkpoint
     \/ /\ checkpoint' = Spoilt
        /\ UNCHANGED chain
     \/ /\ \E n \in 0..Len(chain) : chain' = SubSeq(chain, 1, n)
        /\ UNCHANGED checkpoint
  /\ before' = checkpoint'
  /\ UNCHANGED <<appended, pc, seen>>

CheckpointNext ==
  \/ StartController \/ VerifyLedgerWithCheckpoint
  \/ WriteTemporary \/ RemoveOld \/ RenameTemporary \/ SyncParent \/ PersistFails
  \/ AppendLedger \/ ExitController \/ PowerLoss \/ DecayOrRestore

CheckpointSpec == CheckpointInit /\ [][CheckpointNext]_checkpointVars

-----------------------------------------------------------------------------
(* Properties *)

\* "A missing, malformed, wrongly signed, or ledger-mismatched checkpoint ...
\* cannot turn a corrupted ledger into an accepted one" (RELEASE_NOTES_0.3.1):
\* a start accepts no event that never passed a verification, whatever was
\* lost or put back; a row found damaged now was sound at some earlier start.
Accepts ==
  pc = "read" /\ pc' = "write" =>
    \A i \in DOMAIN chain : ~ chain[i].sound => chain[i].id \in seen

\* A stop or a power loss at any point of the replacement of the checkpoint
\* never keeps the controller from starting: only a damaged row does.
Refuses ==
  pc = "read" /\ pc' = "refused" => \E i \in DOMAIN chain : ~ chain[i].sound

StartsSoundly == [][Accepts /\ Refuses]_checkpointVars

\* A checkpoint the ledger agrees with vouches only for events that some
\* start verified, however the ledger and the file came to meet.
CheckpointVouches ==
  Usable => \A i \in 1..checkpoint.sequence : chain[i].id \in seen
=============================================================================
