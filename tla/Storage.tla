------------------------------ MODULE Storage ------------------------------
(***************************************************************************)
(* The encrypted content-addressed store of a worker (CasStore): resumable *)
(* uploads, local puts, the quota, and the nonce and epoch fence under     *)
(* which the Governor's storage leases are accepted.                       *)
(*                                                                         *)
(* Everything is durable, part of it in the SQLite index and part of it in *)
(* files.  The mutations and index locks serialise the operations below,   *)
(* so what concurrency leaves is the prefix of an operation that a crash   *)
(* or an I/O error cuts short between a file and the index: each such      *)
(* prefix is an action of its own.  The size of an artifact is one unit of *)
(* the quota.  A lease is renewed under a new nonce, and two uploads may   *)
(* carry the same content.                                                 *)
(***************************************************************************)
EXTENDS Integers, FiniteSets

CONSTANTS
    Digests,      \* content addresses
    Sessions,     \* upload sessions
    DigestOf,     \* the digest a session is bound to
    Chunks,       \* the chunk indexes of an artifact
    Leases,       \* the signed PUT and GET leases that may arrive
    Perishable,   \* the leases that may expire
    Limit,        \* quota of the storage class
    MaxFaults     \* bound: interruptions and disk faults

ASSUME StorageAssumption ==
    /\ DigestOf \in [Sessions -> Digests]
    /\ Leases \subseteq [op : {"put", "get"}, session : Sessions, epoch : Nat, nonce : Nat]
    /\ Limit \in Nat /\ MaxFaults \in Nat

VARIABLES
    \* the index
    fence,      \* authority_fences: the highest epoch seen, 0 before the first
    nonces,     \* consumed_authority_nonces, named by their lease
    state,      \* resumable_put_sessions.state, "none" without a row
    holder,     \* the lease a session is bound to, as a set of at most one
    rows,       \* resumable_put_chunks of a session
    indexed,    \* artifacts
    \* the files
    file,       \* a chunk file: "absent", "match" or "other" than its row says
    manifest,   \* of a transfer directory: "none", "torn", "same" or "other"
    object,     \* an object directory: "absent", "good" or "damaged"
    \* the rest of the world
    expired,    \* leases whose expires_at has passed
    faults,     \* number of interruptions and disk faults so far
    hurt,       \* history: digests whose object was damaged on disk
    orphaned    \* history: digests of puts cut short before they were indexed

authority == <<fence, nonces>>
uploads == <<state, holder, rows, file, manifest>>
world == <<expired, faults, hurt, orphaned>>
vars == <<authority, uploads, indexed, object, world>>

Init ==
    /\ fence = 0 /\ nonces = {} /\ indexed = {}
    /\ state = [s \in Sessions |-> "none"] /\ holder = [s \in Sessions |-> {}]
    /\ rows = [s \in Sessions |-> {}]
    /\ file = [s \in Sessions |-> [i \in Chunks |-> "absent"]]
    /\ manifest = [s \in Sessions |-> "none"]
    /\ object = [d \in Digests |-> "absent"]
    /\ expired = {} /\ faults = 0 /\ hurt = {} /\ orphaned = {}

Fault == faults < MaxFaults /\ faults' = faults + 1

-----------------------------------------------------------------------------
(***************************************************************************)
(* Authority and quota.                                                    *)
(***************************************************************************)
\* accept_authority_in_transaction: the epoch is not below the fence, expired
\* nonces are purged, the nonce is new, the fence follows the epoch.
Accept(l) ==
    /\ l \notin expired
    /\ l.epoch >= fence
    /\ l \notin nonces
    /\ nonces' = (nonces \ expired) \cup {l}
    /\ fence' = l.epoch

\* The lease a session is bound to still carries authority.
Bound(s) == \E l \in holder[s] : l \notin expired /\ l.epoch >= fence

Active == {s \in Sessions : state[s] = "active"}

\* Mutant of Capacity: active uploads reserve nothing.
CapacityUnreserved(d) ==
    Cardinality(indexed \ {d}) + (IF d \in indexed THEN 0 ELSE 1) <= Limit

\* ensure_storage_capacity: content that is already indexed asks for nothing.
Capacity(d) ==
    Cardinality(indexed \ {d}) + Cardinality(Active)
        + (IF d \in indexed THEN 0 ELSE 1) <= Limit

\* GetChunk and Head of the gateway consume a nonce and read.
AcceptRead(l) ==
    /\ l.op = "get"
    /\ Accept(l)
    /\ UNCHANGED <<uploads, indexed, object, world>>

-----------------------------------------------------------------------------
(***************************************************************************)
(* Resumable uploads.                                                      *)
(***************************************************************************)
\* begin_resumable_put of a new session.
Begin(l) ==
    LET s == l.session
    IN  /\ l.op = "put"
        /\ state[s] = "none"
        /\ Capacity(DigestOf[s])
        /\ Accept(l)
        /\ state' = [state EXCEPT ![s] = "active"]
        /\ holder' = [holder EXCEPT ![s] = {l}]
        /\ UNCHANGED <<rows, file, manifest, indexed, object, world>>

\* begin_resumable_put of an active session under another lease.  The same
\* lease, and any lease for a complete session, only asks for the status.
Renew(l) ==
    LET s == l.session
    IN  /\ l.op = "put"
        /\ state[s] = "active"
        /\ l \notin holder[s]
        /\ Accept(l)
        /\ holder' = [holder EXCEPT ![s] = {l}]
        /\ UNCHANGED <<state, rows, file, manifest, indexed, object, world>>

\* Mutant of Writes: the chunk file is taken for granted once it has a row.
WritesOnce(s, i) == state[s] = "active" /\ Bound(s) /\ i \notin rows[s]

\* put_resumable_chunk writes: no row yet, or a file that is not what its row says.
Writes(s, i) ==
    /\ state[s] = "active"
    /\ Bound(s)
    /\ ~(i \in rows[s] /\ file[s][i] = "match")

\* Under a fresh encryption nonce, so that a manifest written earlier is outdated.
PutChunk(s, i) ==
    /\ Writes(s, i)
    /\ rows' = [rows EXCEPT ![s] = @ \cup {i}]
    /\ file' = [file EXCEPT ![s][i] = "match"]
    /\ manifest' = [manifest EXCEPT ![s] = IF @ = "same" THEN "other" ELSE @]
    /\ UNCHANGED <<authority, state, holder, indexed, object, world>>

\* Cut short: the old file is gone and the new one not there, or the new file is
\* there and its row is not.
PutChunkInterrupted(s, i) ==
    /\ Fault
    /\ Writes(s, i)
    /\ \E left \in {"absent", "other"} : file' = [file EXCEPT ![s][i] = left]
    /\ UNCHANGED <<authority, state, holder, rows, manifest, indexed, object, expired,
                   hurt, orphaned>>

\* resumable_put_status: a chunk counts as received when its file exists.
Missing(s) == {i \in Chunks : ~(i \in rows[s] /\ file[s][i] # "absent")}

\* commit_resumable_put passes every check up to the rename.
Ready(s) ==
    /\ state[s] = "active"
    /\ Bound(s)
    /\ rows[s] = Chunks
    /\ \A i \in Chunks : file[s][i] = "match"
    /\ manifest[s] \in {"none", "same"}

\* The object is there and verifies: index it, the session is complete.
CommitExisting(s) ==
    /\ state[s] # "none"
    /\ object[DigestOf[s]] = "good"
    /\ indexed' = indexed \cup {DigestOf[s]}
    /\ state' = [state EXCEPT ![s] = "complete"]
    /\ UNCHANGED <<authority, holder, rows, file, manifest, object, world>>

\* The transfer directory becomes the object directory, whole or not.
Promote(s) ==
    /\ object' = [object EXCEPT ![DigestOf[s]] =
                    IF \A i \in Chunks : file[s][i] = "match" THEN "good" ELSE "damaged"]
    /\ file' = [file EXCEPT ![s] = [i \in Chunks |-> "absent"]]
    /\ manifest' = [manifest EXCEPT ![s] = "none"]

\* A damaged object is moved to quarantine first.
CommitPromotes(s) ==
    /\ object[DigestOf[s]] # "good"
    /\ Ready(s)
    /\ Promote(s)
    /\ indexed' = indexed \cup {DigestOf[s]}
    /\ state' = [state EXCEPT ![s] = "complete"]
    /\ UNCHANGED <<authority, holder, rows, world>>

Quarantined(d) == [object EXCEPT ![d] = "absent"]

\* A refused commit has moved a damaged object away all the same.
CommitRefused(s) ==
    /\ state[s] # "none"
    /\ object[DigestOf[s]] = "damaged"
    /\ ~Ready(s)
    /\ object' = Quarantined(DigestOf[s])
    /\ UNCHANGED <<authority, uploads, indexed, world>>

\* Mutant of CommitInterrupted: the index is written before the rename.
CommitInterruptedIndexFirst(s) ==
    /\ Fault
    /\ object[DigestOf[s]] # "good"
    /\ Ready(s)
    /\ indexed' = indexed \cup {DigestOf[s]}
    /\ state' = [state EXCEPT ![s] = "complete"]
    /\ UNCHANGED <<authority, holder, rows, file, manifest, object, expired, hurt, orphaned>>

\* Cut short: after the quarantine, while or after the manifest is written, or
\* after the rename and before the index is.
CommitInterrupted(s) ==
    /\ Fault
    /\ object[DigestOf[s]] # "good"
    /\ Ready(s)
    /\ \/ /\ object' = Quarantined(DigestOf[s])
          /\ \E left \in IF manifest[s] = "none" THEN {"none", "torn", "same"} ELSE {"same"} :
                manifest' = [manifest EXCEPT ![s] = left]
          /\ UNCHANGED file
       \/ Promote(s)
    /\ UNCHANGED <<authority, state, holder, rows, indexed, expired, hurt, orphaned>>

-----------------------------------------------------------------------------
(***************************************************************************)
(* Local puts, the disk and the passing of time.                           *)
(***************************************************************************)
\* put: an object that verifies is indexed whatever the quota; anything else
\* asks for room and is written anew.
Put(d) ==
    /\ object[d] = "good" \/ Capacity(d)
    /\ object' = [object EXCEPT ![d] = "good"]
    /\ indexed' = indexed \cup {d}
    /\ UNCHANGED <<authority, uploads, world>>

\* No room, and a damaged object has been moved away.
PutRefused(d) ==
    /\ object[d] = "damaged"
    /\ ~Capacity(d)
    /\ object' = Quarantined(d)
    /\ UNCHANGED <<authority, uploads, indexed, world>>

\* Cut short after the quarantine, or after the rename and before the index.
PutInterrupted(d) ==
    /\ Fault
    /\ object[d] # "good"
    /\ Capacity(d)
    /\ \/ object' = Quarantined(d) /\ UNCHANGED orphaned
       \/ object' = [object EXCEPT ![d] = "good"] /\ orphaned' = orphaned \cup {d}
    /\ UNCHANGED <<authority, uploads, indexed, expired, hurt>>

ObjectDecays(d) ==
    /\ Fault
    /\ object[d] = "good"
    /\ object' = [object EXCEPT ![d] = "damaged"]
    /\ hurt' = hurt \cup {d}
    /\ UNCHANGED <<authority, uploads, indexed, expired, orphaned>>

ChunkDecays(s, i) ==
    /\ Fault
    /\ i \in rows[s] /\ file[s][i] = "match"
    /\ file' = [file EXCEPT ![s][i] = "other"]
    /\ UNCHANGED <<authority, state, holder, rows, manifest, indexed, object, expired,
                   hurt, orphaned>>

LeaseExpires(l) ==
    /\ l \in Perishable \ expired
    /\ expired' = expired \cup {l}
    /\ UNCHANGED <<authority, uploads, indexed, object, faults, hurt, orphaned>>

-----------------------------------------------------------------------------
Next ==
    \/ \E l \in Leases : Begin(l) \/ Renew(l) \/ AcceptRead(l) \/ LeaseExpires(l)
    \/ \E s \in Sessions, i \in Chunks :
        PutChunk(s, i) \/ PutChunkInterrupted(s, i) \/ ChunkDecays(s, i)
    \/ \E s \in Sessions :
        CommitExisting(s) \/ CommitPromotes(s) \/ CommitRefused(s) \/ CommitInterrupted(s)
    \/ \E d \in Digests : Put(d) \/ PutRefused(d) \/ PutInterrupted(d) \/ ObjectDecays(d)

Spec == Init /\ [][Next]_vars

\* The controller keeps coming back to an upload: it renews the lease, sends the
\* chunks the status calls missing, and commits (replicate_to_offer, the repair
\* loop).  Nothing makes it send a chunk the status calls received.
Client ==
    \A s \in Sessions :
        /\ WF_vars(\E l \in Leases : l.session = s /\ Renew(l))
        /\ WF_vars(\E i \in Missing(s) : PutChunk(s, i))
        /\ WF_vars(CommitExisting(s) \/ CommitPromotes(s))

FairSpec == Spec /\ Client

-----------------------------------------------------------------------------
\* Type invariant.
TypeOK ==
    /\ fence \in Nat /\ nonces \subseteq Leases
    /\ state \in [Sessions -> {"none", "active", "complete"}]
    /\ holder \in [Sessions -> SUBSET Leases]
    /\ rows \in [Sessions -> SUBSET Chunks]
    /\ file \in [Sessions -> [Chunks -> {"absent", "match", "other"}]]
    /\ manifest \in [Sessions -> {"none", "torn", "same", "other"}]
    /\ object \in [Digests -> {"absent", "good", "damaged"}]
    /\ indexed \subseteq Digests
    /\ expired \subseteq Leases /\ faults \in Nat
    /\ hurt \subseteq Digests /\ orphaned \subseteq Digests

\* Whatever is indexed, and whatever a session was completed with, is in the
\* store whole unless the disk damaged it afterwards: no interruption between a
\* file and the index loses content or promotes half of it
\* (commit_resumable_put, put).
NothingLost ==
    /\ \A d \in indexed : object[d] = "good" \/ d \in hurt
    /\ \A s \in Sessions : state[s] = "complete" => DigestOf[s] \in indexed

\* Committed and reserved content stays within the owner's contribution, but for
\* content whose put was cut short before it was indexed: that is adopted later
\* without asking for room (ensure_storage_capacity, put).
QuotaHeld ==
    Cardinality((indexed \cup {DigestOf[s] : s \in Active}) \ orphaned) <= Limit

\* The states an upload does not leave by resuming: a torn manifest, a manifest
\* older than a rewritten chunk, a file that is not what its row says.
Wedged(s) ==
    \/ manifest[s] \in {"torn", "other"}
    \/ \E i \in rows[s] : file[s][i] = "other"

\* An upload that was begun is completed by a client that resumes it from the
\* missing chunks, whatever was cut short on the way, unless it is wedged
\* (begin_resumable_put, put_resumable_chunk, commit_resumable_put).
UploadCompletes ==
    \A s \in Sessions : state[s] = "active" ~> (state[s] = "complete" \/ Wedged(s))

\* docs/RESUMABLE_STORAGE.md: a damaged object is quarantined and rebuilt "from
\* verified plaintext or a complete authenticated transfer".
TransferRebuilds ==
    \A s \in Sessions :
        (state[s] = "complete" /\ object[DigestOf[s]] = "damaged")
        ~> object[DigestOf[s]] = "good"
=============================================================================
