--------------------------- MODULE ServiceProofs ---------------------------
(***************************************************************************)
(* Proofs for five services around the scheduler: the owner relay, the     *)
(* verification of the ledger at the controller's start, the store, the    *)
(* controller's self-scan, and the recording of benchmark dividends.       *)
(***************************************************************************)
EXTENDS Checkpoint, Diagnostics, Storage, Relay, Dividends, FiniteFacts, TLAPS

-----------------------------------------------------------------------------
(***************************************************************************)
(* Proofs for the owner relay: for any number of endpoints and connections *)
(* and any limits and durations, the counters are the open connections,    *)
(* and a revoked endpoint is turned away within a fetch and a cache age.   *)
(* The invariant says how old a manifest can be: the one in flight was     *)
(* issued after its request, the cached one within a timeout of its        *)
(* arrival, and each lists only endpoints that were enrolled when issued.  *)
(***************************************************************************)
Open == {c \in Conns : conn[c] = "open"}

\* No endpoint on the list was revoked before the list was made.
ListedWhenIssued(m) == \A e \in m.allowed : revoked[e] = -1 \/ m.issued <= revoked[e]

Timing ==
  /\ \A e \in Endpoints : revoked[e] <= now
  /\ cache # NoManifest =>
       /\ ListedWhenIssued(cache.manifest)
       /\ cache.manifest.issued <= cache.at /\ cache.at <= now
       /\ cache.at <= cache.manifest.issued + FetchTimeout
  /\ fetch # NoManifest =>
       /\ fetch.since <= now /\ now <= fetch.since + FetchTimeout
       /\ conn[fetch.by] = "waiting"
       /\ fetch.answer # NoManifest =>
            /\ fetch.since <= fetch.answer.issued /\ fetch.answer.issued <= now
            /\ ListedWhenIssued(fetch.answer)

RelayInv == RelayTypeOK /\ CountsAreConnections /\ Timing /\ RevocationBites

\* The open connections are finitely many.
LEMMA OpenFinite ==
  ASSUME FiniteFacts, RelayTypeOK
  PROVE  /\ IsFiniteSet(Open) /\ Cardinality(Open) \in Nat
         /\ \A e \in Endpoints : IsFiniteSet(OpenOf(e)) /\ Cardinality(OpenOf(e)) \in Nat
  <1>1. Open \subseteq Conns /\ \A e \in Endpoints : OpenOf(e) \subseteq Conns
    BY Zenon DEF Open, OpenOf
  <1>2. IsFiniteSet(Open) /\ \A e \in Endpoints : IsFiniteSet(OpenOf(e))
    BY <1>1, RelayAssumption, Zenon DEF FiniteFacts, SubsetFact
  <1> QED
    BY <1>2 DEF FiniteFacts, CountFact

\* The type invariant and the counts hold at the start.
LEMMA RelayStarts ==
  ASSUME FiniteFacts, RelayInit
  PROVE  RelayInv
  <1> USE RelayAssumption DEF RelayInit
  <1>1. RelayTypeOK
    BY DEF RelayTypeOK, Manifests
  <1>2. Open = {} /\ \A e \in Endpoints : OpenOf(e) = {}
    BY Zenon DEF Open, OpenOf
  <1>3. CountsAreConnections
    <2>1. Cardinality(Open) = 0 /\ \A e \in Endpoints : Cardinality(OpenOf(e)) = 0
      BY <1>2, Zenon DEF FiniteFacts, EmptyFact
    <2>2. active.total = 0 /\ \A e \in Endpoints : active.by[e] = 0
      BY Zenon
    <2> QED
      BY <2>1, <2>2 DEF CountsAreConnections, Open
  <1>4. Timing
    BY DEF Timing, ListedWhenIssued
  <1>5. RevocationBites
    BY DEF RevocationBites
  <1> QED
    BY <1>1, <1>3, <1>4, <1>5, Zenon DEF RelayInv

\* Decide admits a waiting connection within the limits, counts it, and by
\* the age of the manifest not too late.
LEMMA DecideKeeps ==
  ASSUME FiniteFacts, RelayInv, NEW c \in Conns, conn[c] = "waiting",
         NEW m \in Manifests, ListedWhenIssued(m),
         now < m.issued + FetchTimeout + CacheFor,
         Decide(c, m)
  PROVE  /\ conn' \in [Conns -> {"new", "waiting", "open", "denied", "gone", "closed"}]
         /\ active' \in [total : 0..MaxTotal, by : [Endpoints -> 0..MaxPerEndpoint]]
         /\ lag' \in [Conns -> 0..MaxClock]
         /\ CountsAreConnections'
         /\ RevocationBites'
         /\ \A d \in Conns \ {c} : conn'[d] = conn[d]
  <1> USE RelayAssumption
  <1> DEFINE e == Owner(c)
             ok == e \in m.allowed /\ HasRoom(e)
  <1>0. /\ RelayTypeOK /\ CountsAreConnections /\ Timing /\ RevocationBites
        /\ e \in Endpoints
    BY Zenon DEF RelayInv
  <1>1. /\ conn' = [conn EXCEPT ![c] = IF ok THEN "open" ELSE "denied"]
        /\ active' = IF ok THEN [total |-> active.total + 1,
                                 by |-> [active.by EXCEPT ![e] = @ + 1]]
                     ELSE active
        /\ lag' = IF ok /\ revoked[e] # -1 THEN [lag EXCEPT ![c] = now - revoked[e]] ELSE lag
    BY Zenon DEF Decide
  <1>2. conn' \in [Conns -> {"new", "waiting", "open", "denied", "gone", "closed"}]
    BY <1>0, <1>1, Zenon DEF RelayTypeOK
  <1>3. \A d \in Conns \ {c} : conn'[d] = conn[d]
    BY <1>0, <1>1, Zenon DEF RelayTypeOK
  <1>4. active' \in [total : 0..MaxTotal, by : [Endpoints -> 0..MaxPerEndpoint]]
    BY <1>0, <1>1 DEF RelayTypeOK, HasRoom
  <1>5. lag' \in [Conns -> 0..MaxClock] /\ RevocationBites'
    <2>1. CASE ok /\ revoked[e] # -1
      <3>1. m.issued <= revoked[e] /\ revoked[e] \in 0..MaxClock /\ revoked[e] <= now
        BY <2>1, <1>0 DEF ListedWhenIssued, RelayTypeOK, Timing
      <3>2. now \in 0..MaxClock /\ m.issued \in 0..MaxClock
        BY <1>0, Zenon DEF RelayTypeOK, Manifests
      <3>3. now - revoked[e] \in 0..MaxClock /\ now - revoked[e] < CacheFor + FetchTimeout
        BY <3>1, <3>2
      <3>4. lag' = [lag EXCEPT ![c] = now - revoked[e]]
        BY <1>1, <2>1, Zenon
      <3> QED
        BY <3>3, <3>4, <1>0, Zenon DEF RelayTypeOK, RevocationBites
    <2>2. CASE ~ (ok /\ revoked[e] # -1)
      BY <2>2, <1>0, <1>1, Zenon DEF RelayTypeOK, RevocationBites
    <2> QED
      BY <2>1, <2>2, Zenon
  <1>6. CountsAreConnections'
    <2>1. CASE ok
      <3>1. Open' = Open \cup {c} /\ c \notin Open
        BY <2>1, <1>0, <1>1 DEF RelayTypeOK, Open
      <3>2. OpenOf(e)' = OpenOf(e) \cup {c} /\ c \notin OpenOf(e)
        BY <2>1, <1>0, <1>1 DEF RelayTypeOK, OpenOf
      <3>3. \A f \in Endpoints \ {e} : OpenOf(f)' = OpenOf(f)
        BY <2>1, <1>0, <1>1, Zenon DEF RelayTypeOK, OpenOf
      <3>4. /\ Cardinality(Open') = Cardinality(Open) + 1
            /\ Cardinality(OpenOf(e)') = Cardinality(OpenOf(e)) + 1
        BY <3>1, <3>2, <1>0, OpenFinite, Zenon DEF FiniteFacts, AddFact
      <3>5. /\ active.total = Cardinality(Open)
            /\ \A f \in Endpoints : active.by[f] = Cardinality(OpenOf(f))
        BY <1>0, Zenon DEF CountsAreConnections, Open
      <3>6. /\ active'.total = active.total + 1
            /\ active'.by[e] = active.by[e] + 1
            /\ \A f \in Endpoints \ {e} : active'.by[f] = active.by[f]
        BY <2>1, <1>0, <1>1, Zenon DEF RelayTypeOK
      <3>7. /\ active'.total = Cardinality(Open')
            /\ \A f \in Endpoints : active'.by[f] = Cardinality(OpenOf(f)')
        BY <3>3, <3>4, <3>5, <3>6, Zenon
      <3> QED
        BY <3>7, <1>4 DEF CountsAreConnections, Open, OpenOf
    <2>2. CASE ~ ok
      <3>1. Open' = Open /\ \A f \in Endpoints : OpenOf(f)' = OpenOf(f)
        BY <2>2, <1>0, <1>1, Zenon DEF RelayTypeOK, Open, OpenOf
      <3> QED
        BY <3>1, <2>2, <1>0, <1>1, Zenon DEF CountsAreConnections, Open, OpenOf
    <2> QED
      BY <2>1, <2>2, Zenon
  <1> QED
    BY <1>2, <1>3, <1>4, <1>5, <1>6, Zenon

\* The invariant is inductive: one step per action.
LEMMA RelayInductive ==
  ASSUME FiniteFacts, RelayInv, [RelayNext]_relayVars
  PROVE  RelayInv'
  <1> USE RelayAssumption
  <1>0. RelayTypeOK /\ CountsAreConnections /\ Timing /\ RevocationBites
    BY Zenon DEF RelayInv
  <1>1. ASSUME NEW e \in Endpoints, RevokeEndpoint(e) PROVE RelayInv'
    <2>1. RelayTypeOK'
      BY <1>0, <1>1 DEF RevokeEndpoint, RelayTypeOK
    <2>2. CountsAreConnections' /\ RevocationBites'
      BY <1>0, <1>1, Zenon DEF RevokeEndpoint, CountsAreConnections, OpenOf, RevocationBites
    <2>3. \A f \in Endpoints : revoked'[f] = revoked[f] \/ (revoked[f] = -1 /\ revoked'[f] = now)
      BY <1>0, <1>1, Zenon DEF RevokeEndpoint, RelayTypeOK
    <2>5. UNCHANGED <<now, cache, fetch, conn>>
      BY <1>1, Zenon DEF RevokeEndpoint
    <2>6. \A f \in Endpoints : revoked'[f] <= now'
      BY <1>0, <2>3, <2>5 DEF Timing, RelayTypeOK
    <2>7. cache # NoManifest => ListedWhenIssued(cache.manifest)'
      <3> SUFFICES ASSUME cache # NoManifest PROVE ListedWhenIssued(cache.manifest)'
        BY Zenon
      <3>1. cache.manifest \in Manifests /\ cache.manifest.issued <= now
        BY <1>0 DEF Timing, RelayTypeOK, Manifests
      <3> QED
        BY <1>0, <2>3, <2>5, <3>1, Zenon DEF Timing, ListedWhenIssued, Manifests
    <2>8. fetch # NoManifest /\ fetch.answer # NoManifest => ListedWhenIssued(fetch.answer)'
      <3> SUFFICES ASSUME fetch # NoManifest, fetch.answer # NoManifest
                   PROVE  ListedWhenIssued(fetch.answer)'
        BY Zenon
      <3>1. fetch.answer \in Manifests /\ fetch.answer.issued <= now
        BY <1>0, Zenon DEF Timing, RelayTypeOK
      <3> QED
        BY <1>0, <2>3, <2>5, <3>1, Zenon DEF Timing, ListedWhenIssued, Manifests
    <2>9. Timing'
      BY <1>0, <2>5, <2>6, <2>7, <2>8, Zenon DEF Timing
    <2> QED
      BY <2>1, <2>2, <2>9, Zenon DEF RelayInv
  <1>2. CASE RelayAccessManifest
    <2>1. RelayTypeOK'
      BY <1>0, <1>2, Zenon DEF RelayAccessManifest, RelayTypeOK, Manifests, AllowedEndpoints
    <2>2. CountsAreConnections' /\ RevocationBites'
      BY <1>0, <1>2, Zenon DEF RelayAccessManifest, CountsAreConnections, OpenOf, RevocationBites
    <2>3. Timing'
      BY <1>0, <1>2 DEF RelayAccessManifest, Timing, RelayTypeOK, Manifests,
                        AllowedEndpoints, ListedWhenIssued
    <2> QED
      BY <2>1, <2>2, <2>3, Zenon DEF RelayInv
  <1>3. CASE RelayTick
    <2>1. RelayTypeOK'
      BY <1>0, <1>3 DEF RelayTick, RelayTypeOK
    <2>2. CountsAreConnections' /\ RevocationBites'
      BY <1>0, <1>3, Zenon DEF RelayTick, CountsAreConnections, OpenOf, RevocationBites
    <2>3. Timing'
      BY <1>0, <1>3 DEF RelayTick, Timing, RelayTypeOK, Manifests, ListedWhenIssued
    <2> QED
      BY <2>1, <2>2, <2>3 DEF RelayInv
  <1>4. ASSUME NEW c \in Conns, OnConnect(c) PROVE RelayInv'
    <2>1. RelayTypeOK'
      BY <1>0, <1>4, Zenon DEF OnConnect, RelayTypeOK
    <2>2. Open' = Open /\ \A e \in Endpoints : OpenOf(e)' = OpenOf(e)
      BY <1>0, <1>4, Zenon DEF OnConnect, RelayTypeOK, Open, OpenOf
    <2>3. CountsAreConnections' /\ RevocationBites'
      BY <1>0, <1>4, <2>2, Zenon DEF OnConnect, CountsAreConnections, Open, RevocationBites
    <2>4. Timing'
      BY <1>0, <1>4, Zenon DEF OnConnect, Timing, RelayTypeOK, ListedWhenIssued
    <2> QED
      BY <2>1, <2>3, <2>4, Zenon DEF RelayInv
  <1>5. ASSUME NEW c \in Conns, AdmitFromCache(c) PROVE RelayInv'
    <2>1. /\ conn[c] = "waiting" /\ cache # NoManifest /\ fetch = NoManifest
          /\ cache.manifest \in Manifests /\ cache.at \in 0..MaxClock
          /\ now - cache.at < CacheFor /\ Decide(c, cache.manifest)
          /\ UNCHANGED <<now, revoked, cache, fetch>>
      BY <1>0, <1>5, Zenon DEF AdmitFromCache, CacheIsFresh, RelayTypeOK
    <2>2. ListedWhenIssued(cache.manifest) /\ now < cache.manifest.issued + FetchTimeout + CacheFor
      BY <1>0, <2>1 DEF Timing, RelayTypeOK, Manifests
    <2>3. /\ conn' \in [Conns -> {"new", "waiting", "open", "denied", "gone", "closed"}]
          /\ active' \in [total : 0..MaxTotal, by : [Endpoints -> 0..MaxPerEndpoint]]
          /\ lag' \in [Conns -> 0..MaxClock]
          /\ CountsAreConnections' /\ RevocationBites'
      BY <2>1, <2>2, DecideKeeps, Zenon
    <2>4. RelayTypeOK'
      BY <1>0, <2>1, <2>3, Zenon DEF RelayTypeOK
    <2>5. Timing'
      BY <1>0, <2>1, Zenon DEF Timing, ListedWhenIssued
    <2> QED
      BY <2>3, <2>4, <2>5, Zenon DEF RelayInv
  <1>6. ASSUME NEW c \in Conns, StartFetch(c) PROVE RelayInv'
    <2>1. RelayTypeOK'
      BY <1>0, <1>6, Zenon DEF StartFetch, RelayTypeOK
    <2>2. CountsAreConnections' /\ RevocationBites'
      BY <1>0, <1>6, Zenon DEF StartFetch, CountsAreConnections, OpenOf, RevocationBites
    <2>3. Timing'
      BY <1>0, <1>6 DEF StartFetch, Timing, RelayTypeOK, ListedWhenIssued
    <2> QED
      BY <2>1, <2>2, <2>3, Zenon DEF RelayInv
  <1>7. CASE FinishFetch
    <2> DEFINE c == fetch.by
               m == fetch.answer
    <2>1. /\ fetch # NoManifest /\ c \in Conns /\ m \in Manifests /\ conn[c] = "waiting"
          /\ fetch.since \in 0..MaxClock
          /\ Decide(c, m) /\ cache' = [manifest |-> m, at |-> now] /\ fetch' = NoManifest
          /\ UNCHANGED <<now, revoked>>
      BY <1>0, <1>7, Zenon DEF FinishFetch, RelayTypeOK, Timing
    <2>2. /\ ListedWhenIssued(m) /\ m.issued <= now
          /\ now <= m.issued + FetchTimeout
          /\ now < m.issued + FetchTimeout + CacheFor
      BY <1>0, <1>7, <2>1 DEF FinishFetch, Timing, RelayTypeOK, Manifests
    <2>3. /\ conn' \in [Conns -> {"new", "waiting", "open", "denied", "gone", "closed"}]
          /\ active' \in [total : 0..MaxTotal, by : [Endpoints -> 0..MaxPerEndpoint]]
          /\ lag' \in [Conns -> 0..MaxClock]
          /\ CountsAreConnections' /\ RevocationBites'
      BY <2>1, <2>2, DecideKeeps, Zenon
    <2>4. RelayTypeOK'
      BY <1>0, <2>1, <2>3, Zenon DEF RelayTypeOK
    <2>5. Timing'
      BY <1>0, <2>1, <2>2 DEF Timing, ListedWhenIssued, RelayTypeOK
    <2> QED
      BY <2>3, <2>4, <2>5, Zenon DEF RelayInv
  <1>8. CASE FailFetch
    <2>1. fetch.by \in Conns /\ conn[fetch.by] = "waiting"
      BY <1>0, <1>8, Zenon DEF FailFetch, RelayTypeOK, Timing
    <2>2. RelayTypeOK'
      BY <1>0, <1>8, Zenon DEF FailFetch, RelayTypeOK
    <2>3. Open' = Open /\ \A e \in Endpoints : OpenOf(e)' = OpenOf(e)
      BY <1>0, <1>8, <2>1, Zenon DEF FailFetch, RelayTypeOK, Open, OpenOf
    <2>4. CountsAreConnections' /\ RevocationBites'
      BY <1>0, <1>8, <2>3, Zenon DEF FailFetch, CountsAreConnections, Open, RevocationBites
    <2>5. Timing'
      BY <1>0, <1>8, Zenon DEF FailFetch, Timing, ListedWhenIssued
    <2> QED
      BY <2>2, <2>4, <2>5 DEF RelayInv
  <1>9. ASSUME NEW c \in Conns, AbandonConnect(c) PROVE RelayInv'
    <2>1. RelayTypeOK'
      BY <1>0, <1>9, Zenon DEF AbandonConnect, RelayTypeOK
    <2>2. Open' = Open /\ \A e \in Endpoints : OpenOf(e)' = OpenOf(e)
      BY <1>0, <1>9, Zenon DEF AbandonConnect, RelayTypeOK, Open, OpenOf
    <2>3. CountsAreConnections' /\ RevocationBites'
      BY <1>0, <1>9, <2>2, Zenon DEF AbandonConnect, CountsAreConnections, Open, RevocationBites
    <2>4. Timing'
      BY <1>0, <1>9, Zenon DEF AbandonConnect, Timing, RelayTypeOK, ListedWhenIssued
    <2> QED
      BY <2>1, <2>3, <2>4 DEF RelayInv
  <1>10. ASSUME NEW c \in Conns, OnDisconnect(c) PROVE RelayInv'
    <2> DEFINE e == Owner(c)
    <2>1. /\ conn[c] = "open" /\ conn' = [conn EXCEPT ![c] = "closed"]
          /\ e \in Endpoints
          /\ UNCHANGED <<now, revoked, cache, fetch, lag>>
      BY <1>10, Zenon DEF OnDisconnect
    <2>2. Open' = Open \ {c} /\ c \in Open
      BY <1>0, <2>1, Zenon DEF RelayTypeOK, Open
    <2>3. OpenOf(e)' = OpenOf(e) \ {c} /\ c \in OpenOf(e)
      BY <1>0, <2>1, Zenon DEF RelayTypeOK, OpenOf
    <2>4. \A f \in Endpoints \ {e} : OpenOf(f)' = OpenOf(f)
      BY <1>0, <2>1, Zenon DEF RelayTypeOK, OpenOf
    <2>5. /\ Cardinality(Open') = Cardinality(Open) - 1
          /\ Cardinality(OpenOf(e)') = Cardinality(OpenOf(e)) - 1
      <3>1. IsFiniteSet(Open) /\ IsFiniteSet(OpenOf(e))
        BY <1>0, <2>1, OpenFinite, Zenon
      <3>2. RemoveFact
        BY Zenon DEF FiniteFacts
      <3>3. Cardinality(Open') = Cardinality(Open) - 1
        BY <2>2, <3>1, <3>2, ZenonT(30) DEF RemoveFact
      <3>4. Cardinality(OpenOf(e)') = Cardinality(OpenOf(e)) - 1
        BY <2>3, <3>1, <3>2, ZenonT(30) DEF RemoveFact
      <3> QED
        BY <3>3, <3>4, Zenon
    <2>6. Cardinality(Open) > 0 /\ Cardinality(OpenOf(e)) > 0
      <3>1. Open # {} /\ OpenOf(e) # {}
        BY <2>2, <2>3, Zenon
      <3>2. /\ IsFiniteSet(Open) /\ Cardinality(Open) \in Nat
            /\ IsFiniteSet(OpenOf(e)) /\ Cardinality(OpenOf(e)) \in Nat
        BY <1>0, <2>1, OpenFinite, Zenon
      <3>3. Cardinality(Open) # 0 /\ Cardinality(OpenOf(e)) # 0
        BY <3>1, <3>2, Zenon DEF FiniteFacts, EmptyFact
      <3> HIDE DEF e
      <3> QED
        BY <3>2, <3>3
    <2>7. /\ active.total = Cardinality(Open)
          /\ \A f \in Endpoints : active.by[f] = Cardinality(OpenOf(f))
      BY <1>0, Zenon DEF CountsAreConnections, Open
    <2>8. active' = [total |-> active.total - 1, by |-> [active.by EXCEPT ![e] = @ - 1]]
      BY <1>10, <2>1, <2>6, <2>7 DEF OnDisconnect
    <2>9. active.total \in 1..MaxTotal /\ active.by \in [Endpoints -> 0..MaxPerEndpoint]
          /\ active.by[e] \in 1..MaxPerEndpoint
      BY SMTT(30), <1>0, <2>1, <2>6, <2>7 DEF RelayTypeOK
    <2>10. /\ active'.total = Cardinality(Open')
           /\ \A f \in Endpoints : active'.by[f] = Cardinality(OpenOf(f)')
           /\ active' \in [total : 0..MaxTotal, by : [Endpoints -> 0..MaxPerEndpoint]]
      BY <2>4, <2>5, <2>7, <2>8, <2>9, SMTT(30)
    <2>11. CountsAreConnections'
      BY <2>10 DEF CountsAreConnections, Open, OpenOf
    <2>12. RelayTypeOK'
      BY <1>0, <2>1, <2>10, Zenon DEF RelayTypeOK
    <2>13. Timing' /\ RevocationBites'
      BY <1>0, <2>1, Zenon DEF Timing, ListedWhenIssued, RelayTypeOK, RevocationBites
    <2> QED
      BY <2>11, <2>12, <2>13, Zenon DEF RelayInv
  <1>11. CASE UNCHANGED relayVars
    <2>1. UNCHANGED <<now, revoked, cache, fetch, conn, active, lag>>
      BY <1>11, Zenon DEF relayVars
    <2>2. RelayTypeOK'
      BY <1>0, <2>1, Zenon DEF RelayTypeOK
    <2>3. CountsAreConnections'
      BY <1>0, <2>1, Zenon DEF CountsAreConnections, OpenOf
    <2>4. Timing'
      BY <1>0, <2>1, Zenon DEF Timing, ListedWhenIssued
    <2>5. RevocationBites'
      BY <1>0, <2>1, Zenon DEF RevocationBites
    <2> QED
      BY <2>2, <2>3, <2>4, <2>5, Zenon DEF RelayInv
  <1> QED
    BY <1>1, <1>2, <1>3, <1>4, <1>5, <1>6, <1>7, <1>8, <1>9, <1>10, <1>11, Zenon DEF RelayNext

-----------------------------------------------------------------------------
(***************************************************************************)
(* Proofs for the start of the controller: for any number of events and    *)
(* faults, a start accepts only events that some start verified, refuses   *)
(* only a damaged ledger, and leaves a checkpoint that vouches for what    *)
(* was verified.  The invariant follows a checkpoint file, and the one a   *)
(* power loss may bring back: if the ledger agrees with it, then the whole *)
(* prefix it names has been seen; a ledger that grew anew after an older   *)
(* copy was put back cannot agree, as its hashes are new.                  *)
(***************************************************************************)
Row == [id : 1..MaxEvents, hash : -1..MaxEvents, sound : BOOLEAN]

States == {"down", "read", "write", "remove", "rename", "sync", "up", "refused"}

Files == {NoCheckpoint, Spoilt} \cup {Signed(n, h) : n \in 0..MaxEvents, h \in 0..MaxEvents}

\* A row's hash is its event's, or decayed; a sound row's is its event's.
Rows ==
  \A i \in DOMAIN chain :
    /\ chain[i].id <= appended
    /\ chain[i].hash = chain[i].id \/ chain[i].hash = Decayed
    /\ chain[i].sound => chain[i].hash = chain[i].id

Agrees(f) == f.sequence \in DOMAIN chain /\ chain[f.sequence].hash = f.hash

\* What a checkpoint file is worth.
Honest(f) ==
  f.kind = "signed" /\ f.sequence > 0 =>
    /\ f.hash >= 1 /\ f.hash <= appended
    /\ Agrees(f) => \A i \in 1..f.sequence : chain[i].id \in seen

\* Between verification and rename the whole chain has been seen.
Verified ==
  pc \in {"write", "remove", "rename"} =>
    /\ \A i \in DOMAIN chain : chain[i].id \in seen
    /\ chain # <<>> => chain[Len(chain)].hash # Decayed

Bounded ==
  /\ appended \in 0..MaxEvents
  /\ chain \in Seq(Row)
  /\ Len(chain) <= appended
  /\ checkpoint \in Files /\ before \in Files
  /\ pc \in States

CheckpointInv == Bounded /\ Rows /\ Honest(checkpoint) /\ Honest(before) /\ Verified

\* The invariant holds at the start.
LEMMA CheckpointStarts == CheckpointInit => CheckpointInv
  <1> SUFFICES ASSUME CheckpointInit PROVE CheckpointInv
    BY Zenon
  <1>1. chain = << >> /\ appended = 0 /\ checkpoint = NoCheckpoint /\ before = NoCheckpoint /\ pc \in States
        /\ pc \notin {"write", "remove", "rename"}
    BY Zenon DEF CheckpointInit, States
  <1>2. Bounded
    BY <1>1, CheckpointAssumption DEF Bounded, Files
  <1>3. Rows /\ Verified
    BY <1>1 DEF Rows, Verified
  <1>4. ~(NoCheckpoint.kind = "signed")
    BY Zenon DEF NoCheckpoint
  <1> QED
    BY <1>1, <1>2, <1>3, <1>4, Zenon DEF CheckpointInv, Honest

\* What verify_ledger_with_checkpoint has seen when it accepts.
LEMMA VerifiedPrefix ==
  ASSUME CheckpointInv, Usable, checkpoint.sequence > 0
  PROVE  /\ checkpoint.sequence \in DOMAIN chain
         /\ chain[checkpoint.sequence].hash # Decayed
         /\ \A i \in 1..checkpoint.sequence : chain[i].id \in seen
  BY CheckpointAssumption DEF CheckpointInv, Bounded, Honest, Agrees, Usable, Files, Signed,
       NoCheckpoint, Spoilt, Decayed

\* A start accepts only what was verified, and refuses only damage.
LEMMA StartsWell == CheckpointInv /\ [CheckpointNext]_checkpointVars => Accepts /\ Refuses
  <1> SUFFICES ASSUME CheckpointInv, [CheckpointNext]_checkpointVars,
                      pc = "read", pc' \in {"write", "refused"}
               PROVE  Accepts /\ Refuses
    BY Zenon DEF Accepts, Refuses
  <1>1. VerifyLedgerWithCheckpoint
    BY Zenon DEF CheckpointNext, StartController, WriteTemporary, RemoveOld, RenameTemporary,
           SyncParent, PersistFails, AppendLedger, ExitController, PowerLoss, DecayOrRestore,
           checkpointVars
  <1> DEFINE from == IF Usable THEN checkpoint.sequence ELSE 0
  <1>2. VerifyAfter(from) \/ pc' = "refused"
    BY <1>1, Zenon DEF VerifyLedgerWithCheckpoint
  <1>3. ~ VerifyAfter(from) \/ pc' = "write"
    BY <1>1, Zenon DEF VerifyLedgerWithCheckpoint
  <1>4. Accepts
    <2> SUFFICES ASSUME pc' = "write", NEW i \in DOMAIN chain, ~ chain[i].sound
                 PROVE  chain[i].id \in seen
      BY Zenon DEF Accepts
    <2>1. VerifyAfter(from)
      BY <1>2, Zenon
    <2>2. from \in Nat /\ i \in Nat \ {0} /\ ~ i > from
      BY <2>1, CheckpointAssumption
         DEF VerifyAfter, CheckpointInv, Bounded, Files, Signed, NoCheckpoint, Spoilt
    <2>3. Usable /\ checkpoint.sequence > 0 /\ i \in 1..checkpoint.sequence
      BY <2>2
    <2> QED
      BY <2>3, VerifiedPrefix, Zenon
  <1>5. Refuses
    BY <1>3, Zenon DEF Refuses, VerifyAfter
  <1> QED
    BY <1>4, <1>5, Zenon

\* The invariant is inductive.
LEMMA CheckpointInductive ==
  CheckpointInv /\ [CheckpointNext]_checkpointVars => CheckpointInv'
  <1> SUFFICES ASSUME CheckpointInv, [CheckpointNext]_checkpointVars
               PROVE  CheckpointInv'
    BY Zenon
  <1>0. Bounded /\ Rows /\ Honest(checkpoint) /\ Honest(before) /\ Verified
    BY Zenon DEF CheckpointInv
  <1>a. DOMAIN chain = 1..Len(chain) /\ Len(chain) \in Nat
    BY <1>0 DEF Bounded
  <1>b. NoCheckpoint \in Files /\ Spoilt \in Files /\ Honest(NoCheckpoint)' /\ Honest(Spoilt)'
    BY DEF Files, NoCheckpoint, Spoilt, Honest
  <1>1. CASE StartController
    BY <1>0, <1>1, Zenon DEF StartController, CheckpointInv, Bounded, Rows, Honest, Agrees, Verified, States
  <1>2. CASE VerifyLedgerWithCheckpoint
    <2> DEFINE from == IF Usable THEN checkpoint.sequence ELSE 0
    <2>1. UNCHANGED <<chain, appended, checkpoint, before>> /\ seen \subseteq seen'
      BY <1>2, Zenon DEF VerifyLedgerWithCheckpoint
    <2>2. Bounded' /\ Rows' /\ Honest(checkpoint)' /\ Honest(before)'
      BY <1>0, <1>2, <2>1, Zenon DEF VerifyLedgerWithCheckpoint, Bounded, Rows, Honest, Agrees, States
    <2>3. ASSUME VerifyAfter(from) PROVE Verified'
      <3>1. seen' = seen \cup {chain[i].id : i \in {j \in DOMAIN chain : j > from}}
        BY <1>2, <2>3, Zenon DEF VerifyLedgerWithCheckpoint
      <3>2. from \in Nat
        BY <1>0, CheckpointAssumption DEF Bounded, Files, Signed, NoCheckpoint, Spoilt
      <3>3. ASSUME NEW i \in DOMAIN chain PROVE chain[i].id \in seen'
        <4>1. CASE i > from
          BY <3>1, <4>1, Zenon
        <4>2. CASE ~ i > from
          <5>1. Usable /\ checkpoint.sequence > 0 /\ i \in 1..checkpoint.sequence
            BY <1>a, <3>2, <4>2
          <5> QED
            BY <5>1, <2>1, VerifiedPrefix, Zenon
        <4> QED
          BY <4>1, <4>2, Zenon
      <3>4. ASSUME chain # <<>> PROVE chain[Len(chain)].hash # Decayed
        <4>1. Len(chain) \in DOMAIN chain
          BY <1>0, <1>a, <3>4 DEF Bounded
        <4>2. CASE Len(chain) > from
          <5>1. chain[Len(chain)].sound
            BY <2>3, <4>1, <4>2, Zenon DEF VerifyAfter
          <5>2. chain[Len(chain)].hash = chain[Len(chain)].id
            BY <1>0, <4>1, <5>1, Zenon DEF Rows
          <5>3. chain[Len(chain)] \in Row
            BY <1>0, <4>1 DEF Bounded
          <5> QED
            BY <5>2, <5>3, CheckpointAssumption DEF Row, Decayed
        <4>3. CASE ~ Len(chain) > from
          <5>1. Usable /\ checkpoint.sequence > 0 /\ ~ Len(chain) > checkpoint.sequence
            BY <1>a, <3>2, <4>1, <4>3
          <5>2. checkpoint.sequence = Len(chain)
            BY <1>a, <3>2, <5>1, VerifiedPrefix
          <5> QED
            BY <5>1, <5>2, VerifiedPrefix, Zenon
        <4> QED
          BY <4>2, <4>3, Zenon
      <3> QED
        BY <2>1, <3>3, <3>4, Zenon DEF Verified
    <2>4. ASSUME ~ VerifyAfter(from) PROVE Verified'
      BY <1>2, <2>4, Zenon DEF VerifyLedgerWithCheckpoint, Verified
    <2> QED
      BY <2>2, <2>3, <2>4, Zenon DEF CheckpointInv
  <1>3. CASE WriteTemporary
    BY <1>0, <1>3, Zenon DEF WriteTemporary, CheckpointInv, Bounded, Rows, Honest, Agrees, Verified, States
  <1>4. CASE RemoveOld
    BY <1>0, <1>b, <1>4, Zenon DEF RemoveOld, CheckpointInv, Bounded, Rows, Honest, Agrees, Verified, States
  <1>5. CASE RenameTemporary
    <2>1. Latest \in Files /\ Honest(Latest)
      <3>1. CASE chain = <<>>
        BY SMTT(30), <3>1, CheckpointAssumption DEF Latest, Signed, Genesis, Files, Honest
      <3>2. CASE chain # <<>>
        <4>1. Len(chain) \in 1..MaxEvents /\ Len(chain) \in DOMAIN chain
          BY <1>0, <1>a, <3>2, CheckpointAssumption DEF Bounded
        <4>2. chain[Len(chain)].hash = chain[Len(chain)].id /\ chain[Len(chain)] \in Row
          BY <1>0, <1>5, <3>2, <4>1 DEF Rows, Verified, RenameTemporary, Bounded
        <4>3. chain[Len(chain)].hash \in 1..MaxEvents /\ chain[Len(chain)].hash <= appended
          BY <1>0, <4>1, <4>2, Zenon DEF Rows, Row
        <4>4. \A i \in DOMAIN chain : chain[i].id \in seen
          BY <1>0, <1>5 DEF Verified, RenameTemporary
        <4> QED
          BY <1>a, <3>2, <4>1, <4>3, <4>4, CheckpointAssumption DEF Latest, Signed, Files, Honest
      <3> QED
        BY <3>1, <3>2, Zenon
    <2> QED
      BY <1>0, <1>5, <2>1, Zenon DEF RenameTemporary, CheckpointInv, Bounded, Rows, Honest, Agrees, Verified, States
  <1>6. CASE SyncParent
    BY <1>0, <1>6, Zenon DEF SyncParent, CheckpointInv, Bounded, Rows, Honest, Agrees, Verified, States
  <1>7. CASE PersistFails
    BY <1>0, <1>7, Zenon DEF PersistFails, CheckpointInv, Bounded, Rows, Honest, Agrees, Verified, States
  <1>8. CASE AppendLedger
    <2> DEFINE row == [id |-> appended + 1, hash |-> appended + 1, sound |-> TRUE]
    <2>1. row \in Row /\ appended' \in 0..MaxEvents /\ appended' = appended + 1
      BY <1>0, <1>8, CheckpointAssumption DEF AppendLedger, Bounded, Row
    <2>2. /\ chain' \in Seq(Row) /\ Len(chain') = Len(chain) + 1
          /\ DOMAIN chain' = 1..(Len(chain) + 1)
          /\ \A i \in 1..Len(chain) : chain'[i] = chain[i]
          /\ chain'[Len(chain) + 1] = row
      <3>1. chain' = Append(chain, row)
        BY <1>8, Zenon DEF AppendLedger
      <3>2. chain \in Seq(Row)
        BY <1>0, Zenon DEF Bounded
      <3> HIDE DEF row
      <3> QED
        BY <2>1, <3>1, <3>2
    <2>3. Bounded'
      <3>1. UNCHANGED <<checkpoint, before, pc>>
        BY <1>8, Zenon DEF AppendLedger
      <3>2. appended \in Nat /\ Len(chain) \in Nat /\ Len(chain) <= appended
        BY <1>0, <1>a DEF Bounded
      <3>3. Len(chain') <= appended'
        BY SMTT(30), <2>1, <2>2, <3>2
      <3> QED
        BY <1>0, <2>1, <2>2, <3>1, <3>3, Zenon DEF Bounded
    <2>4. Rows'
      <3> SUFFICES ASSUME NEW i \in 1..(Len(chain) + 1)
                   PROVE  /\ chain'[i].id <= appended'
                          /\ chain'[i].hash = chain'[i].id \/ chain'[i].hash = Decayed
                          /\ chain'[i].sound => chain'[i].hash = chain'[i].id
        BY <2>2, Zenon DEF Rows
      <3>1. CASE i = Len(chain) + 1
        BY <2>1, <2>2, <3>1
      <3>2. CASE i \in 1..Len(chain)
        <4>1. chain'[i] = chain[i] /\ i \in DOMAIN chain /\ chain[i] \in Row
          BY <1>0, <1>a, <2>2, <3>2 DEF Bounded
        <4>2. chain[i].id \in Nat
          BY <4>1, CheckpointAssumption DEF Row
        <4>3. chain[i].id <= appended
          BY <1>0, <4>1, Zenon DEF Rows
        <4> QED
          <5>1. appended \in Nat
            BY <1>0 DEF Bounded
          <5>2. /\ chain[i].hash = chain[i].id \/ chain[i].hash = Decayed
                /\ chain[i].sound => chain[i].hash = chain[i].id
            BY <1>0, <4>1, Zenon DEF Rows
          <5>3. chain[i].id <= appended'
            BY SMTT(30), <2>1, <4>2, <4>3, <5>1
          <5> QED
            BY <4>1, <5>2, <5>3, Zenon
      <3> QED
        BY <1>a, <3>1, <3>2
    <2>5. ASSUME NEW f \in Files, Honest(f),
                 f.kind = "signed", f.sequence > 0
          PROVE  /\ f.hash >= 1 /\ f.hash <= appended'
                 /\ f.sequence \in DOMAIN chain' /\ chain'[f.sequence].hash = f.hash =>
                      \A i \in 1..f.sequence : chain'[i].id \in seen'
      <3>1. f.hash \in Nat /\ f.sequence \in Nat /\ f.hash >= 1 /\ f.hash <= appended
        <4>1. f.hash >= 1 /\ f.hash <= appended
          BY <2>5, Zenon DEF Honest
        <4>2. f.hash \in Nat /\ f.sequence \in Nat
          BY <2>5, CheckpointAssumption DEF Files, Signed, NoCheckpoint, Spoilt
        <4> QED
          BY <4>1, <4>2, Zenon
      <3>2. f.hash <= appended'
        BY SMTT(30), <1>0, <2>1, <3>1 DEF Bounded
      <3>3. ASSUME f.sequence \in DOMAIN chain', chain'[f.sequence].hash = f.hash
            PROVE  f.sequence \in 1..Len(chain) /\ chain[f.sequence].hash = f.hash
        BY SMTT(30), <1>0, <1>a, <2>2, <3>1, <3>3 DEF Bounded
      <3>4. seen' = seen
        BY <1>8, Zenon DEF AppendLedger
      <3> QED
        <4>1. ASSUME f.sequence \in DOMAIN chain', chain'[f.sequence].hash = f.hash,
                     NEW i \in 1..f.sequence
              PROVE  chain'[i].id \in seen'
          <5>1. f.sequence \in 1..Len(chain) /\ Agrees(f)
            BY <1>a, <3>3, <4>1, Zenon DEF Agrees
          <5>2. chain[i].id \in seen
            BY <2>5, <4>1, <5>1, Zenon DEF Honest
          <5>3. Len(chain) \in Nat
            BY <1>a, Zenon
          <5>4. i \in 1..Len(chain)
            BY <3>1, <4>1, <5>1, <5>3
          <5> QED
            BY <2>2, <3>4, <5>2, <5>4, Zenon
        <4> QED
          BY <3>1, <3>2, <4>1, Zenon
    <2>6. Honest(checkpoint)' /\ Honest(before)'
      BY <1>0, <1>8, <2>5, Zenon DEF Honest, Agrees, AppendLedger, Bounded
    <2>7. Verified'
      BY <1>8, Zenon DEF AppendLedger, Verified
    <2> QED
      BY <2>3, <2>4, <2>6, <2>7, Zenon DEF CheckpointInv
  <1>9. CASE ExitController
    BY <1>0, <1>9, Zenon DEF ExitController, CheckpointInv, Bounded, Rows, Honest, Agrees, Verified, States
  <1>10. CASE PowerLoss
    <2>1. checkpoint' \in {checkpoint, before, NoCheckpoint} /\ before' = checkpoint' /\ pc' = "down"
          /\ UNCHANGED <<chain, appended, seen>>
      BY <1>10, Zenon DEF PowerLoss
    <2>2. CASE checkpoint' = NoCheckpoint
      BY <1>0, <1>b, <2>1, <2>2, Zenon DEF CheckpointInv, Bounded, Rows, Verified, States
    <2>3. CASE checkpoint' = checkpoint
      BY <1>0, <2>1, <2>3, Zenon DEF CheckpointInv, Bounded, Rows, Verified, States, Honest, Agrees
    <2>4. CASE checkpoint' = before
      BY <1>0, <2>1, <2>4, Zenon DEF CheckpointInv, Bounded, Rows, Verified, States, Honest, Agrees
    <2> QED
      BY <2>1, <2>2, <2>3, <2>4, Zenon
  <1>11. CASE DecayOrRestore
    <2>0. before' = checkpoint' /\ UNCHANGED <<appended, pc, seen>> /\ pc = "down"
      BY <1>11, Zenon DEF DecayOrRestore
    <2>1. CASE checkpoint' = Spoilt /\ chain' = chain
      BY <1>0, <1>b, <2>0, <2>1, Zenon DEF CheckpointInv, Bounded, Rows, Verified
    <2>2. ASSUME checkpoint' = checkpoint, NEW i \in DOMAIN chain, NEW h \in {chain[i].hash, Decayed},
                 chain' = [chain EXCEPT ![i].sound = FALSE, ![i].hash = h]
          PROVE  CheckpointInv'
      <3>1. /\ Len(chain') = Len(chain) /\ DOMAIN chain' = DOMAIN chain
            /\ chain' \in Seq(Row)
        <4>0. chain[i] \in Row
          BY <1>0, <2>2 DEF Bounded
        <4>1. chain[i] \in Row /\ h \in -1..MaxEvents
          BY <2>2, <4>0, CheckpointAssumption DEF Row, Decayed
        <4> DEFINE r == [chain[i] EXCEPT !.sound = FALSE, !.hash = h]
        <4>2. r \in Row
          BY <4>1, Zenon DEF Row
        <4>3. chain' = [chain EXCEPT ![i] = r]
          BY <1>0, <1>a, <2>2, Zenon DEF Bounded, Row
        <4> HIDE DEF r
        <4> QED
          BY <1>0, <1>a, <4>2, <4>3 DEF Bounded
      <3>2. \A j \in DOMAIN chain :
              /\ chain'[j].id = chain[j].id
              /\ chain'[j].hash = chain[j].hash \/ chain'[j].hash = Decayed
              /\ chain'[j].sound => chain[j].sound /\ chain'[j].hash = chain[j].hash
        BY SMTT(60), <1>0, <1>a, <2>2 DEF Bounded, Row
      <3>3. Bounded' /\ Rows' /\ Verified'
        BY <1>0, <2>0, <2>2, <3>1, <3>2 DEF Bounded, Rows, Verified
      <3>4. Honest(checkpoint)'
        BY <1>0, <1>a, <2>0, <2>2, <3>1, <3>2, CheckpointAssumption
           DEF Bounded, Honest, Agrees, Files, Signed, NoCheckpoint, Spoilt, Decayed
      <3> QED
        BY <2>0, <3>3, <3>4, Zenon DEF CheckpointInv, Honest, Agrees
    <2>3. ASSUME checkpoint' = checkpoint, NEW n \in 0..Len(chain), chain' = SubSeq(chain, 1, n)
          PROVE  CheckpointInv'
      <3>1. /\ Len(chain') = n /\ DOMAIN chain' = 1..n /\ chain' \in Seq(Row)
            /\ \A j \in 1..n : chain'[j] = chain[j]
        BY <1>0, <1>a, <2>3 DEF Bounded
      <3>a. 1..n \subseteq DOMAIN chain
        BY <1>a, <2>3
      <3>2. Bounded' /\ Rows' /\ Verified'
        <4>1. Bounded'
          <5>1. n <= appended
            BY <1>0, <1>a, <2>3 DEF Bounded
          <5> QED
            BY <1>0, <2>0, <2>3, <3>1, <5>1, Zenon DEF Bounded
        <4>2. Rows'
          BY <1>0, <2>0, <3>1, <3>a, Zenon DEF Rows
        <4>3. Verified'
          BY <1>0, <2>0, <2>3, <3>1, <3>a, ZenonT(30) DEF Verified
        <4> QED
          BY <4>1, <4>2, <4>3, Zenon
      <3>3. Honest(checkpoint)'
        <4> SUFFICES ASSUME checkpoint.kind = "signed", checkpoint.sequence > 0
                     PROVE  /\ checkpoint.hash >= 1 /\ checkpoint.hash <= appended
                            /\ checkpoint.sequence \in 1..n /\ chain'[checkpoint.sequence].hash = checkpoint.hash
                                 => \A i \in 1..checkpoint.sequence : chain'[i].id \in seen
          BY <2>0, <2>3, <3>1, Zenon DEF Honest, Agrees
        <4>1. checkpoint.hash >= 1 /\ checkpoint.hash <= appended
          BY <1>0, Zenon DEF Honest
        <4>2. ASSUME checkpoint.sequence \in 1..n, chain'[checkpoint.sequence].hash = checkpoint.hash,
                     NEW i \in 1..checkpoint.sequence
              PROVE  chain'[i].id \in seen
          <5>1. Agrees(checkpoint)
            BY <3>1, <3>a, <4>2, Zenon DEF Agrees
          <5>2. chain[i].id \in seen
            BY <1>0, <5>1, <4>2, Zenon DEF Honest
          <5>3. i \in 1..n
            BY <1>a, <2>3, <4>2
          <5> QED
            BY <3>1, <5>2, <5>3, Zenon
        <4> QED
          BY <4>1, <4>2, Zenon
      <3> QED
        BY <2>0, <3>2, <3>3, Zenon DEF CheckpointInv, Honest, Agrees
    <2> QED
      BY <1>11, <2>1, <2>2, <2>3, Zenon DEF DecayOrRestore
  <1>12. CASE UNCHANGED checkpointVars
    BY <1>0, <1>12, Zenon DEF checkpointVars, CheckpointInv, Bounded, Rows, Honest, Agrees, Verified
  <1> QED
    BY <1>1, <1>2, <1>3, <1>4, <1>5, <1>6, <1>7, <1>8, <1>9, <1>10, <1>11, <1>12, Zenon DEF CheckpointNext

\* The invariant holds throughout.
LEMMA CheckpointAlways == CheckpointSpec => []CheckpointInv
  BY CheckpointStarts, CheckpointInductive, PTL DEF CheckpointSpec

\* A checkpoint the ledger agrees with names only verified events, for any
\* number of events, stops, power losses and restored copies.
THEOREM CheckpointIsEarned == CheckpointSpec => []CheckpointVouches
  <1>1. CheckpointInv => CheckpointVouches
    <2> SUFFICES ASSUME CheckpointInv, Usable, NEW i \in 1..checkpoint.sequence
                 PROVE  chain[i].id \in seen
      BY Zenon DEF CheckpointVouches
    <2>1. checkpoint.sequence > 0
      BY CheckpointAssumption DEF CheckpointInv, Bounded, Files, Signed, NoCheckpoint, Spoilt
    <2> QED
      BY <2>1, VerifiedPrefix
  <1> QED
    BY <1>1, CheckpointAlways, PTL

\* Every start accepts only verified events and refuses only damage, for any
\* number of events and faults.
THEOREM StartIsSound == CheckpointSpec => StartsSoundly
  <1>1. CheckpointInv /\ [CheckpointNext]_checkpointVars => [Accepts /\ Refuses]_checkpointVars
    BY StartsWell, Zenon
  <1> QED
    BY <1>1, CheckpointAlways, PTL DEF CheckpointSpec, StartsSoundly

-----------------------------------------------------------------------------
(***************************************************************************)
(* What the store keeps: NothingLost and QuotaHeld, for every set of       *)
(* sessions, digests, chunks and leases and every bound.                   *)
(*                                                                         *)
(* Neither is inductive.  Content may be indexed without asking for room   *)
(* (CommitExisting, Put of an object that verifies), so the quota rests on *)
(* an invariant that relates files to the index: an object that is whole   *)
(* is indexed, or reserved by an upload under way, or was left behind by a *)
(* put that was cut short.                                                 *)
(***************************************************************************)
\* The content the quota is about.
Reserved == {DigestOf[s] : s \in Active}
Held == (indexed \cup Reserved) \ orphaned

\* Every whole object has an owner (put, commit_resumable_put).
Accounted ==
    \A d \in Digests : object[d] = "good" => d \in indexed \cup Reserved \cup orphaned

StoreInv ==
    /\ TypeOK /\ NothingLost /\ Accounted
    /\ IsFiniteSet(indexed) /\ IsFiniteSet(Active)
    /\ QuotaHeld

-----------------------------------------------------------------------------
\* Every operation of the store keeps the types.
LEMMA TypeStep ==
    ASSUME TypeOK, Next
    PROVE  TypeOK'
<1>1. ASSUME NEW l \in Leases, Begin(l) \/ Renew(l)
      PROVE  TypeOK'
    <2>1. l.session \in Sessions /\ l.epoch \in Nat
        BY StorageAssumption, Zenon
    <2>2. fence' \in Nat /\ nonces' \subseteq Leases
        BY <1>1, <2>1, Zenon DEF TypeOK, Begin, Renew, Accept
    <2>3. state' \in [Sessions -> {"none", "active", "complete"}]
        <3>1. state' = state \/ state' = [state EXCEPT ![l.session] = "active"]
            BY <1>1, Zenon DEF Begin, Renew
        <3>2. "active" \in {"none", "active", "complete"}
            BY Zenon
        <3>3. QED
            BY <3>1, <3>2, Zenon DEF TypeOK
    <2>4. holder' \in [Sessions -> SUBSET Leases]
        <3>1. {l} \in SUBSET Leases
            BY Zenon
        <3>2. holder' = [holder EXCEPT ![l.session] = {l}]
            BY <1>1, Zenon DEF Begin, Renew
        <3>3. QED
            BY <3>1, <3>2, Zenon DEF TypeOK
    <2>5. UNCHANGED <<rows, file, manifest, indexed, object, world>>
        BY <1>1, Zenon DEF Begin, Renew
    <2>6. QED
        BY <2>2, <2>3, <2>4, <2>5, Zenon DEF TypeOK, world
<1>2. ASSUME NEW l \in Leases, AcceptRead(l) \/ LeaseExpires(l)
      PROVE  TypeOK'
    BY <1>2, StorageAssumption DEF TypeOK, AcceptRead, LeaseExpires, Accept, world, uploads,
        authority
<1>3. ASSUME NEW s \in Sessions, NEW i \in Chunks,
             PutChunk(s, i) \/ PutChunkInterrupted(s, i) \/ ChunkDecays(s, i)
      PROVE  TypeOK'
    <2>1. CASE PutChunk(s, i)
        BY <2>1, Zenon DEF TypeOK, PutChunk, authority, world
    <2>2. CASE PutChunkInterrupted(s, i)
        BY <2>2 DEF TypeOK, PutChunkInterrupted, Fault, authority
    <2>3. CASE ChunkDecays(s, i)
        BY <2>3 DEF TypeOK, ChunkDecays, Fault, authority
    <2>4. QED
        BY <1>3, <2>1, <2>2, <2>3, Zenon
<1>4. ASSUME NEW s \in Sessions,
             \/ CommitExisting(s) \/ CommitPromotes(s)
             \/ CommitRefused(s) \/ CommitInterrupted(s)
      PROVE  TypeOK'
    <2>1. CASE CommitExisting(s)
        <3>1. DigestOf[s] \in Digests
            BY StorageAssumption, Zenon
        <3>2. state' \in [Sessions -> {"none", "active", "complete"}]
            BY <2>1, Zenon DEF TypeOK, CommitExisting
        <3>3. QED
            BY <2>1, <3>1, <3>2 DEF TypeOK, CommitExisting, authority, world
    <2>2. CASE CommitPromotes(s)
        BY <2>2, StorageAssumption, ZenonT(60) DEF TypeOK, CommitPromotes, Promote, authority, world
    <2>3. CASE CommitRefused(s)
        BY <2>3, StorageAssumption, Zenon
        DEF TypeOK, CommitRefused, Quarantined, authority, uploads, world
    <2>4. CASE CommitInterrupted(s)
        <3>1. object' \in [Digests -> {"absent", "good", "damaged"}]
            BY <2>4, Zenon DEF TypeOK, CommitInterrupted, Promote, Quarantined
        <3>2. file' \in [Sessions -> [Chunks -> {"absent", "match", "other"}]]
            <4>1. file' = file \/ file' = [file EXCEPT ![s] = [i \in Chunks |-> "absent"]]
                BY <2>4, Zenon DEF CommitInterrupted, Promote
            <4>2. file \in [Sessions -> [Chunks -> {"absent", "match", "other"}]]
                BY Zenon DEF TypeOK
            <4>3. QED
                BY <4>1, <4>2
        <3>3. manifest' \in [Sessions -> {"none", "torn", "same", "other"}]
            BY <2>4, ZenonT(30) DEF TypeOK, CommitInterrupted, Promote
        <3>4. UNCHANGED <<authority, state, holder, rows, indexed, expired, hurt, orphaned>>
            BY <2>4, Zenon DEF CommitInterrupted
        <3>5. faults' \in Nat
            <4>1. Fault /\ faults \in Nat
                BY <2>4, Zenon DEF TypeOK, CommitInterrupted
            <4>2. QED
                BY <4>1 DEF Fault
        <3>6. QED
            BY <3>1, <3>2, <3>3, <3>4, <3>5, Zenon DEF TypeOK, authority
    <2>5. QED
        BY <1>4, <2>1, <2>2, <2>3, <2>4, Zenon
<1>5. ASSUME NEW d \in Digests,
             Put(d) \/ PutRefused(d) \/ PutInterrupted(d) \/ ObjectDecays(d)
      PROVE  TypeOK'
    <2>1. CASE Put(d) \/ PutRefused(d)
        BY <2>1, ZenonT(30) DEF TypeOK, Put, PutRefused, Quarantined, authority, uploads, world
    <2>2. ASSUME Fault PROVE faults' \in Nat
        <3>1. faults \in Nat
            BY Zenon DEF TypeOK
        <3>2. QED
            BY <2>2, <3>1 DEF Fault
    <2>3. CASE PutInterrupted(d)
        BY <2>2, <2>3, ZenonT(30) DEF TypeOK, PutInterrupted, Quarantined, authority, uploads
    <2>4. CASE ObjectDecays(d)
        BY <2>2, <2>4, ZenonT(30) DEF TypeOK, ObjectDecays, authority, uploads
    <2>5. QED
        BY <1>5, <2>1, <2>3, <2>4, Zenon
<1>6. QED
    BY <1>1, <1>2, <1>3, <1>4, <1>5, Zenon DEF Next

-----------------------------------------------------------------------------
(***************************************************************************)
(* What an operation does to the index: an upload reserves room (Opens),   *)
(* content is indexed and its upload, if any, ends (Settles), or neither.  *)
(***************************************************************************)
Opens(s) ==
    /\ Capacity(DigestOf[s])
    /\ state' = [state EXCEPT ![s] = "active"]
    /\ UNCHANGED <<indexed, object, hurt, orphaned>>

Settles(d) ==
    /\ object[d] = "good" \/ Capacity(d) \/ d \in Reserved
    /\ object' = [object EXCEPT ![d] = "good"]
    /\ indexed' = indexed \cup {d}
    /\ \/ UNCHANGED state
       \/ \E s \in Sessions : DigestOf[s] = d /\ state' = [state EXCEPT ![s] = "complete"]
    /\ UNCHANGED <<hurt, orphaned>>

\* An object may go bad only on the disk, and a new whole one is reserved or orphaned.
Rests ==
    /\ UNCHANGED <<state, indexed>>
    /\ hurt \subseteq hurt' /\ orphaned \subseteq orphaned'
    /\ \A d \in Digests :
        /\ object[d] = "good" => object'[d] = "good" \/ d \in hurt'
        /\ object'[d] = "good" => object[d] = "good" \/ d \in Reserved \cup orphaned'

\* Every operation of the store is of one of these kinds.
LEMMA StoreKinds ==
    ASSUME TypeOK, Next
    PROVE  \/ \E s \in Sessions : Opens(s)
           \/ \E d \in Digests : Settles(d)
           \/ Rests
<1>1. ASSUME NEW l \in Leases, Begin(l)
      PROVE  \E s \in Sessions : Opens(s)
    <2>1. l.session \in Sessions
        BY StorageAssumption, Zenon
    <2>2. Opens(l.session)
        BY <1>1, Zenon DEF Begin, Opens, world
    <2>3. QED
        BY <2>1, <2>2, Zenon
<1>2. ASSUME NEW l \in Leases, Renew(l) \/ AcceptRead(l) \/ LeaseExpires(l)
      PROVE  Rests
    BY <1>2, Zenon DEF Renew, AcceptRead, LeaseExpires, Rests, uploads, world
<1>3. ASSUME NEW s \in Sessions, NEW i \in Chunks,
             PutChunk(s, i) \/ PutChunkInterrupted(s, i) \/ ChunkDecays(s, i)
      PROVE  Rests
    BY <1>3, Zenon DEF PutChunk, PutChunkInterrupted, ChunkDecays, Rests, world
<1>4. ASSUME NEW s \in Sessions, CommitExisting(s) \/ CommitPromotes(s)
      PROVE  \E d \in Digests : Settles(d)
    <2>1. DigestOf[s] \in Digests
        BY StorageAssumption
    <2>2. CASE CommitExisting(s)
        <3>1. object = [object EXCEPT ![DigestOf[s]] = "good"]
            BY <2>1, <2>2, Zenon DEF CommitExisting, TypeOK
        <3>2. Settles(DigestOf[s])
            BY <2>2, <3>1, Zenon DEF CommitExisting, Settles, world
        <3>3. QED
            BY <2>1, <3>2, Zenon
    <2>3. CASE CommitPromotes(s)
        <3>1. state[s] = "active" /\ \A i \in Chunks : file[s][i] = "match"
            BY <2>3, Zenon DEF CommitPromotes, Ready
        <3>2. DigestOf[s] \in Reserved
            BY <3>1, Zenon DEF Reserved, Active
        <3>3. object' = [object EXCEPT ![DigestOf[s]] = "good"]
            BY <2>3, <3>1, Zenon DEF CommitPromotes, Promote
        <3>4. Settles(DigestOf[s])
            BY <2>3, <3>2, <3>3, Zenon DEF CommitPromotes, Settles, world
        <3>5. QED
            BY <2>1, <3>4
    <2>4. QED
        BY <1>4, <2>2, <2>3, Zenon
<1>5. ASSUME NEW s \in Sessions, CommitRefused(s)
      PROVE  Rests
    BY <1>5, StorageAssumption, Zenon DEF CommitRefused, Quarantined, Rests, uploads, world, TypeOK
<1>6. ASSUME NEW s \in Sessions, CommitInterrupted(s)
      PROVE  Rests
    <2>1. state[s] = "active" /\ object[DigestOf[s]] # "good"
        BY <1>6, Zenon DEF CommitInterrupted, Ready
    <2>2. DigestOf[s] \in Reserved
        BY <2>1, Zenon DEF Reserved, Active
    <2>3. \E v \in {"absent", "good", "damaged"} :
            object' = [object EXCEPT ![DigestOf[s]] = v]
        BY <1>6, Zenon DEF CommitInterrupted, Promote, Quarantined
    <2>4. UNCHANGED <<state, indexed, hurt, orphaned>>
        BY <1>6, Zenon DEF CommitInterrupted
    <2>5. QED
        BY <2>1, <2>2, <2>3, <2>4, Zenon DEF Rests, TypeOK
<1>7. ASSUME NEW d \in Digests, Put(d)
      PROVE  Settles(d)
    BY <1>7, Zenon DEF Put, Settles, uploads, world
<1>8. ASSUME NEW d \in Digests, PutRefused(d) \/ PutInterrupted(d) \/ ObjectDecays(d)
      PROVE  Rests
    <2>1. CASE PutRefused(d)
        BY <2>1 DEF PutRefused, Quarantined, Rests, uploads, world, TypeOK
    <2>2. CASE PutInterrupted(d)
        BY <2>2, Zenon DEF PutInterrupted, Quarantined, Rests, uploads, TypeOK
    <2>3. CASE ObjectDecays(d)
        BY <2>3, Zenon DEF ObjectDecays, Rests, uploads, TypeOK
    <2>4. QED
        BY <1>8, <2>1, <2>2, <2>3, Zenon
<1>9. QED
    BY <1>1, <1>2, <1>3, <1>4, <1>5, <1>6, <1>7, <1>8, Zenon DEF Next

-----------------------------------------------------------------------------
\* Uploads under way reserve no more digests than there are uploads.
LEMMA ReservedCard ==
    ASSUME FiniteFacts, TypeOK, IsFiniteSet(Active)
    PROVE  IsFiniteSet(Reserved) /\ Cardinality(Reserved) <= Cardinality(Active)
<1> DEFINE f == [s \in Active |-> DigestOf[s]]
<1>1. f \in [Active -> Reserved] /\ \A d \in Reserved : \E s \in Active : f[s] = d
    BY Zenon DEF Reserved
<1>2. QED
    BY <1>1, Zenon DEF FiniteFacts, OntoFact

\* ensure_storage_capacity makes room for one more digest: either it is indexed
\* already, or the index and the uploads leave a unit free.
LEMMA CapacityMakesRoom ==
    ASSUME FiniteFacts, StoreInv, NEW d \in Digests, Capacity(d)
    PROVE  Cardinality((indexed \cup Reserved \cup {d}) \ orphaned) <= Limit
<1> DEFINE more == indexed \cup Reserved \cup {d}
<1>1. CASE d \in indexed
    <2>1. more \ orphaned = (indexed \cup Reserved) \ orphaned
        BY <1>1, Zenon
    <2>2. QED
        BY <2>1, Zenon DEF StoreInv, QuotaHeld, Reserved
<1>2. CASE d \notin indexed
    <2>1. indexed \ {d} = indexed
        BY <1>2, Zenon
    <2>2. Cardinality(indexed) + Cardinality(Active) + 1 <= Limit
        BY <1>2, <2>1, Zenon DEF Capacity
    <2>3. IsFiniteSet(Reserved) /\ Cardinality(Reserved) <= Cardinality(Active)
        BY ReservedCard, Zenon DEF StoreInv
    <2>4. IsFiniteSet(indexed) /\ IsFiniteSet(Active)
        BY Zenon DEF StoreInv
    <2>5. /\ Cardinality(indexed) \in Nat /\ Cardinality(Active) \in Nat
          /\ Cardinality(Reserved) \in Nat
        BY <2>3, <2>4, Zenon DEF FiniteFacts, CountFact
    <2>6. /\ IsFiniteSet(indexed \cup Reserved)
          /\ Cardinality(indexed \cup Reserved) <= Cardinality(indexed) + Cardinality(Reserved)
        <3>1. IsFiniteSet(indexed \cap Reserved)
            BY <2>4, Zenon DEF FiniteFacts, SubsetFact
        <3>2. Cardinality(indexed \cap Reserved) \in Nat
            BY <3>1, Zenon DEF FiniteFacts, CountFact
        <3>3. /\ IsFiniteSet(indexed \cup Reserved)
              /\ Cardinality(indexed \cup Reserved) =
                    Cardinality(indexed) + Cardinality(Reserved)
                        - Cardinality(indexed \cap Reserved)
            BY <2>3, <2>4, Zenon DEF FiniteFacts, UnionFact
        <3>4. QED
            BY <2>5, <3>2, <3>3
    <2>7. IsFiniteSet(more) /\ Cardinality(more) <= Cardinality(indexed \cup Reserved) + 1
        <3>1. Cardinality(indexed \cup Reserved) \in Nat
            BY <2>6, Zenon DEF FiniteFacts, CountFact
        <3>2. /\ IsFiniteSet((indexed \cup Reserved) \cup {d})
              /\ Cardinality((indexed \cup Reserved) \cup {d}) =
                    IF d \in indexed \cup Reserved THEN Cardinality(indexed \cup Reserved)
                    ELSE Cardinality(indexed \cup Reserved) + 1
            BY <2>6, Zenon DEF FiniteFacts, AddFact
        <3>3. QED
            BY <3>1, <3>2
    <2>8. Cardinality(more \ orphaned) <= Cardinality(more)
        BY <2>7, Zenon DEF FiniteFacts, SubsetFact
    <2>9. /\ Cardinality(more \ orphaned) \in Nat /\ Cardinality(more) \in Nat
          /\ Cardinality(indexed \cup Reserved) \in Nat
        BY <2>6, <2>7, Zenon DEF FiniteFacts, SubsetFact, CountFact
    <2>10. QED
        BY <2>2, <2>3, <2>5, <2>6, <2>7, <2>8, <2>9, StorageAssumption
<1>3. QED
    BY <1>1, <1>2, Zenon

\* Content that takes no more than what was held stays within the quota.
LEMMA NoMoreHeld ==
    ASSUME FiniteFacts, StoreInv, NEW S, S \subseteq Held
    PROVE  Cardinality(S) <= Limit
<1>1. IsFiniteSet(Reserved)
    BY ReservedCard, Zenon DEF StoreInv
<1>2. IsFiniteSet(Held)
    BY <1>1, Zenon DEF FiniteFacts, UnionFact, SubsetFact, StoreInv, Held
<1>3. Cardinality(S) <= Cardinality(Held) /\ IsFiniteSet(S)
    BY <1>2, Zenon DEF FiniteFacts, SubsetFact
<1>4. Cardinality(Held) <= Limit
    BY Zenon DEF StoreInv, QuotaHeld, Held, Reserved
<1>5. Cardinality(S) \in Nat /\ Cardinality(Held) \in Nat
    BY <1>2, <1>3, Zenon DEF FiniteFacts, CountFact
<1>6. QED
    BY <1>3, <1>4, <1>5, StorageAssumption

-----------------------------------------------------------------------------
\* An upload that reserves room keeps the invariant.
LEMMA OpensStep ==
    ASSUME FiniteFacts, StoreInv, TypeOK', NEW s \in Sessions, Opens(s)
    PROVE  StoreInv'
<1>0. state' = [state EXCEPT ![s] = "active"] /\ DOMAIN state = Sessions
    BY Zenon DEF StoreInv, TypeOK, Opens
<1>1. Active' = Active \cup {s}
    BY <1>0 DEF Active
<1>2. Reserved' = Reserved \cup {DigestOf[s]}
    BY <1>1, Zenon DEF Reserved
<1>3. NothingLost'
    BY DEF StoreInv, NothingLost, Opens, TypeOK
<1>4. Accounted'
    BY <1>2, Zenon DEF StoreInv, Accounted, Opens
<1>5. IsFiniteSet(Active') /\ IsFiniteSet(indexed')
    BY <1>1, Zenon DEF FiniteFacts, AddFact, StoreInv, Opens
<1>6. QuotaHeld'
    <2>1. DigestOf[s] \in Digests
        BY StorageAssumption, Zenon
    <2>2. Cardinality((indexed \cup Reserved \cup {DigestOf[s]}) \ orphaned) <= Limit
        BY <2>1, CapacityMakesRoom, Zenon DEF Opens
    <2>3. (indexed' \cup Reserved') \ orphaned' =
            (indexed \cup Reserved \cup {DigestOf[s]}) \ orphaned
        <3>1. indexed' = indexed /\ orphaned' = orphaned
            BY Zenon DEF Opens
        <3>2. QED
            BY <1>2, <3>1, Zenon
    <2>4. QED
        BY <2>2, <2>3, Zenon DEF QuotaHeld, Reserved
<1>7. QED
    BY <1>3, <1>4, <1>5, <1>6, Zenon DEF StoreInv

\* So does content that is indexed: it was held before, or there is room for it.
LEMMA SettlesStep ==
    ASSUME FiniteFacts, StoreInv, TypeOK', NEW d \in Digests, Settles(d)
    PROVE  StoreInv'
<1>0. /\ DOMAIN state = Sessions /\ indexed' = indexed \cup {d}
      /\ object' = [object EXCEPT ![d] = "good"]
      /\ \/ state' = state
         \/ \E s \in Sessions : DigestOf[s] = d /\ state' = [state EXCEPT ![s] = "complete"]
    BY Zenon DEF StoreInv, TypeOK, Settles
<1>1. Active' \subseteq Active /\ \A s \in Active \ Active' : DigestOf[s] = d
    BY <1>0 DEF Active
<1>2. Reserved' \subseteq Reserved /\ Reserved \subseteq Reserved' \cup {d}
    BY <1>1, Zenon DEF Reserved
<1>3. NothingLost'
    <2>1. \A e \in indexed' : object'[e] = "good" \/ e \in hurt'
        BY SMTT(30) DEF StoreInv, TypeOK, NothingLost, Settles
    <2>2. \A s \in Sessions : state'[s] = "complete" => DigestOf[s] \in indexed'
        BY SMTT(30) DEF StoreInv, TypeOK, NothingLost, Settles
    <2>3. QED
        BY <2>1, <2>2, Zenon DEF NothingLost
<1>4. Accounted'
    <2>1. \A e \in Digests : object[e] = "good" => e \in indexed \cup Reserved \cup orphaned
        BY Zenon DEF StoreInv, Accounted
    <2>2. orphaned' = orphaned /\ \A e \in Digests \ {d} : object'[e] = object[e]
        <3>1. DOMAIN object = Digests /\ orphaned' = orphaned
            BY Zenon DEF Settles, StoreInv, TypeOK
        <3>2. QED
            BY <1>0, <3>1, Zenon
    <2>3. QED
        BY <1>0, <1>2, <2>1, <2>2, Zenon DEF Accounted
<1>5. IsFiniteSet(Active') /\ IsFiniteSet(indexed')
    BY <1>1, Zenon DEF FiniteFacts, AddFact, SubsetFact, StoreInv, Settles
<1>6. QuotaHeld'
    <2> DEFINE kept == (indexed' \cup Reserved') \ orphaned'
               more == (indexed \cup Reserved \cup {d}) \ orphaned
    <2>1. kept \subseteq more
        BY <1>2, Zenon DEF Settles
    <2>2. Cardinality(kept) <= Limit
        <3>1. CASE Capacity(d)
            <4>1. Cardinality(more) <= Limit
                BY <3>1, CapacityMakesRoom, Zenon
            <4>2. IsFiniteSet(more)
                <5>1. IsFiniteSet(Reserved) /\ IsFiniteSet(indexed)
                    BY ReservedCard, Zenon DEF StoreInv
                <5>2. IsFiniteSet(indexed \cup Reserved)
                    BY <5>1, Zenon DEF FiniteFacts, UnionFact
                <5>3. IsFiniteSet(indexed \cup Reserved \cup {d})
                    BY <5>2, Zenon DEF FiniteFacts, AddFact
                <5>4. QED
                    BY <5>3, Zenon DEF FiniteFacts, SubsetFact
            <4>3. /\ Cardinality(kept) <= Cardinality(more)
                  /\ Cardinality(kept) \in Nat /\ Cardinality(more) \in Nat
                BY <2>1, <4>2, Zenon DEF FiniteFacts, SubsetFact, CountFact
            <4>4. QED
                BY <4>1, <4>3, StorageAssumption
        <3>2. CASE d \in indexed \cup Reserved \cup orphaned
            <4>1. kept \subseteq Held
                BY <2>1, <3>2, Zenon DEF Held
            <4>2. QED
                BY <4>1, NoMoreHeld, Zenon
        <3>3. QED
            BY <3>1, <3>2, Zenon DEF Settles, StoreInv, Accounted
    <2>3. QED
        BY <2>2, Zenon DEF QuotaHeld, Reserved
<1>7. QED
    BY <1>3, <1>4, <1>5, <1>6, Zenon DEF StoreInv

\* And so does everything else.
LEMMA RestsStep ==
    ASSUME FiniteFacts, StoreInv, TypeOK', Rests
    PROVE  StoreInv'
<1>1. Active' = Active /\ Reserved' = Reserved
    BY Zenon DEF Rests, Active, Reserved
<1>2. NothingLost'
    BY Zenon DEF StoreInv, TypeOK, NothingLost, Rests
<1>3. Accounted'
    BY <1>1, Zenon DEF StoreInv, Accounted, Rests
<1>4. QuotaHeld'
    <2>1. (indexed' \cup Reserved') \ orphaned' \subseteq Held
        BY <1>1, Zenon DEF Rests, Held
    <2>2. QED
        BY <2>1, NoMoreHeld, Zenon DEF QuotaHeld, Reserved
<1>5. indexed' = indexed
    BY Zenon DEF Rests
<1>6. QED
    BY <1>1, <1>2, <1>3, <1>4, <1>5, Zenon DEF StoreInv

-----------------------------------------------------------------------------
\* The invariant holds when the store is opened for the first time.
LEMMA StoreInit ==
    ASSUME FiniteFacts, Init
    PROVE  StoreInv
<1>1. Active = {} /\ Reserved = {}
    BY Zenon DEF Init, Active, Reserved
<1>2. IsFiniteSet({}) /\ Cardinality({}) = 0
    BY Zenon DEF FiniteFacts, EmptyFact
<1>3. QuotaHeld
    <2>1. (indexed \cup Reserved) \ orphaned = {}
        BY <1>1, Zenon DEF Init
    <2>2. QED
        BY <1>2, <2>1, StorageAssumption DEF QuotaHeld, Reserved
<1>4. TypeOK
    <2>1. file \in [Sessions -> [Chunks -> {"absent", "match", "other"}]]
        BY Zenon DEF Init
    <2>2. holder \in [Sessions -> SUBSET Leases] /\ rows \in [Sessions -> SUBSET Chunks]
        BY Zenon DEF Init
    <2>3. QED
        BY <2>1, <2>2, Zenon DEF Init, TypeOK
<1>5. NothingLost /\ Accounted
    BY Zenon DEF Init, NothingLost, Accounted
<1>6. QED
    BY <1>1, <1>2, <1>3, <1>4, <1>5, Zenon DEF StoreInv, Init

-----------------------------------------------------------------------------
(***************************************************************************)
(* Proof that placement never obeys a constraint without evidence, for any *)
(* number of scans side by side, nodes, conditions and failures.  Nothing  *)
(* serialises the scans: what carries the proof is that a scan about to    *)
(* publish has its event in the ledger, and that the ledger only grows.    *)
(***************************************************************************)
\* Every scan is a place in refresh_diagnostics and a report.
ScansAreRecords == scan = [s \in Scans |-> [pc |-> scan[s].pc, report |-> scan[s].report]]

\* Between the event and the assignment the event is already there.
PublishersLedgered ==
  \A s \in Scans : scan[s].pc = "publish" => Derive(scan[s].report) \in applied

DiagnosticsInv == ScansAreRecords /\ PublishersLedgered /\ AppliedIsLedgered

\* What moving one scan on does to all of them.
LEMMA Moves ==
  ASSUME ScansAreRecords, NEW s \in Scans, NEW p, To(s, p)
  PROVE  /\ ScansAreRecords'
         /\ scan'[s].pc = p /\ scan'[s].report = scan[s].report
         /\ \A t \in Scans \ {s} : scan'[t] = scan[t]
  <1> DEFINE f == [t \in Scans |-> [pc |-> scan[t].pc, report |-> scan[t].report]]
  <1>1. scan = f
    BY Zenon DEF ScansAreRecords
  <1>2. scan' = [f EXCEPT ![s] = [f[s] EXCEPT !.pc = p]]
    BY <1>1, Zenon DEF To
  <1>3. f[s] = [pc |-> scan[s].pc, report |-> scan[s].report]
    BY Zenon
  <1>4. [f[s] EXCEPT !.pc = p] = [pc |-> p, report |-> scan[s].report]
    BY <1>3
  <1>5. scan' = [t \in Scans |-> IF t = s THEN [pc |-> p, report |-> scan[s].report] ELSE f[t]]
    BY <1>2, <1>4, Zenon
  <1> QED
    BY <1>1, <1>5, Zenon DEF ScansAreRecords

\* A scan that moves on without an event, to anywhere but the assignment,
\* keeps every claim of the invariant.
LEMMA MovesQuietly ==
  ASSUME ScansAreRecords, PublishersLedgered, constraints \in applied,
         NEW s \in Scans, NEW p, To(s, p), p # "publish",
         applied' = applied, constraints' = constraints
  PROVE  DiagnosticsInv'
  <1>1. /\ ScansAreRecords' /\ scan'[s].pc = p
        /\ \A t \in Scans \ {s} : scan'[t] = scan[t]
    BY Moves, Zenon
  <1>2. PublishersLedgered'
    BY <1>1, Zenon DEF PublishersLedgered
  <1> QED
    BY <1>1, <1>2, Zenon DEF DiagnosticsInv, AppliedIsLedgered

\* What beginning or ending one scan does to all of them.
LEMMA Replaced ==
  ASSUME ScansAreRecords, NEW s \in Scans, NEW p, NEW r,
         scan' = [scan EXCEPT ![s] = [pc |-> p, report |-> r]]
  PROVE  /\ ScansAreRecords'
         /\ scan'[s].pc = p /\ scan'[s].report = r
         /\ \A t \in Scans \ {s} : scan'[t] = scan[t]
  <1> DEFINE f == [t \in Scans |-> [pc |-> scan[t].pc, report |-> scan[t].report]]
  <1>1. scan = f
    BY Zenon DEF ScansAreRecords
  <1>2. scan' = [t \in Scans |-> IF t = s THEN [pc |-> p, report |-> r] ELSE f[t]]
    BY <1>1, Zenon
  <1> QED
    BY <1>1, <1>2 DEF ScansAreRecords

\* The invariant holds when the controller has first scanned.
LEMMA DiagnosticsStarts == ScanInit => DiagnosticsInv
  <1> SUFFICES ASSUME ScanInit PROVE DiagnosticsInv
    BY Zenon
  <1>1. scan = [s \in Scans |-> [pc |-> "idle", report |-> None]]
    BY Zenon DEF ScanInit, NoScan
  <1>2. AppliedIsLedgered
    BY Zenon DEF ScanInit, AppliedIsLedgered
  <1>3. \A s \in Scans : scan[s].pc = "idle" /\ scan[s].report = None
    BY <1>1
  <1>4. ScansAreRecords
    BY <1>1, <1>3, Zenon DEF ScansAreRecords
  <1>5. PublishersLedgered
    BY <1>3, Zenon DEF PublishersLedgered
  <1> QED
    BY <1>2, <1>4, <1>5, Zenon DEF DiagnosticsInv

\* Every step keeps it.
LEMMA DiagnosticsInductive == DiagnosticsInv /\ [ScanNext]_scanVars => DiagnosticsInv'
  <1> SUFFICES ASSUME DiagnosticsInv, [ScanNext]_scanVars PROVE DiagnosticsInv'
    OBVIOUS
  <1>0. ScansAreRecords /\ PublishersLedgered /\ constraints \in applied
    BY Zenon DEF DiagnosticsInv, AppliedIsLedgered
  <1>1. CASE FactsChange \/ Tick \/ UNCHANGED scanVars
    BY <1>0, <1>1, Zenon DEF FactsChange, Tick, scanVars, DiagnosticsInv, ScansAreRecords, PublishersLedgered,
                      AppliedIsLedgered
  <1>2. CASE StartScans
    <2>1. scan' = [s \in Scans |-> [pc |-> "idle", report |-> None]] /\ AppliedIsLedgered'
      BY <1>2, Zenon DEF StartScans, AppliedIsLedgered, NoScan
    <2>2. ScansAreRecords' /\ \A s \in Scans : scan'[s].pc # "publish"
      BY <2>1, Zenon DEF ScansAreRecords
    <2> QED
      BY <2>1, <2>2, Zenon DEF DiagnosticsInv, PublishersLedgered
  <1>3. ASSUME NEW s \in Scans, Snapshot(s) PROVE DiagnosticsInv'
    <2>1. scan' = [scan EXCEPT ![s] = [pc |-> "compare", report |-> BuildReport(facts)]]
      BY <1>3, Zenon DEF Snapshot
    <2>2. /\ ScansAreRecords' /\ scan'[s].pc = "compare"
          /\ \A t \in Scans \ {s} : scan'[t] = scan[t]
      BY <1>0, <2>1, Replaced, Zenon
    <2>3. applied' = applied /\ constraints' = constraints
      BY <1>3, Zenon DEF Snapshot
    <2> QED
      BY <1>0, <2>2, <2>3, Zenon DEF DiagnosticsInv, PublishersLedgered, AppliedIsLedgered
  <1>4. ASSUME NEW s \in Scans, CompareConstraints(s) PROVE DiagnosticsInv'
    <2>1. PICK p \in {"digest", "apply"} : To(s, p)
      BY <1>4, Zenon DEF CompareConstraints
    <2>2. applied' = applied /\ constraints' = constraints
      BY <1>4, Zenon DEF CompareConstraints
    <2>3. p # "publish"
      BY Zenon
    <2> QED
      BY <1>0, <2>1, <2>2, <2>3, MovesQuietly, Zenon
  <1>5. ASSUME NEW s \in Scans, AppendApplied(s) PROVE DiagnosticsInv'
    <2>1. CASE applied' = applied \cup {Derive(scan[s].report)} /\ To(s, "publish")
      BY <1>0, <1>5, <2>1, Moves, Zenon DEF AppendApplied, DiagnosticsInv, PublishersLedgered, AppliedIsLedgered
    <2>2. CASE scan' = [scan EXCEPT ![s] = NoScan] /\ UNCHANGED applied
      <3>1. scan' = [scan EXCEPT ![s] = [pc |-> "idle", report |-> None]]
        BY <1>5, <2>2 DEF AppendApplied, NoScan
      <3>2. /\ ScansAreRecords' /\ scan'[s].pc = "idle"
            /\ \A t \in Scans \ {s} : scan'[t] = scan[t]
        BY <1>0, <3>1, Replaced, Zenon
      <3>3. applied' = applied /\ constraints' = constraints
        BY <1>5, <2>2, Zenon DEF AppendApplied
      <3> QED
        BY <1>0, <3>2, <3>3, Zenon DEF DiagnosticsInv, PublishersLedgered, AppliedIsLedgered
    <2> QED
      BY <1>5, <2>1, <2>2, Zenon DEF AppendApplied
  <1>6. ASSUME NEW s \in Scans, PublishConstraints(s) PROVE DiagnosticsInv'
    <2>1. scan[s].pc = "publish" /\ To(s, "digest")
          /\ constraints' = Derive(scan[s].report) /\ applied' = applied
      BY <1>6, Zenon DEF PublishConstraints
    <2>2. /\ ScansAreRecords' /\ scan'[s].pc = "digest"
          /\ \A t \in Scans \ {s} : scan'[t] = scan[t]
      BY <1>0, <2>1, Moves, Zenon DEF DiagnosticsInv
    <2>3. PublishersLedgered'
      BY <1>0, <2>1, <2>2, Zenon DEF DiagnosticsInv, PublishersLedgered
    <2>4. AppliedIsLedgered'
      BY <1>0, <2>1, Zenon DEF DiagnosticsInv, PublishersLedgered, AppliedIsLedgered
    <2> QED
      BY <2>2, <2>3, <2>4, Zenon DEF DiagnosticsInv
  <1>7. ASSUME NEW s \in Scans, CompareDigest(s) PROVE DiagnosticsInv'
    <2>1. PICK p \in {"report", "complete"} : To(s, p)
      BY <1>7, Zenon DEF CompareDigest
    <2>2. applied' = applied /\ constraints' = constraints
      BY <1>7, Zenon DEF CompareDigest
    <2>3. p # "publish"
      OBVIOUS
    <2> QED
      BY <1>0, <2>1, <2>2, <2>3, MovesQuietly, Zenon
  <1>8. ASSUME NEW s \in Scans, AppendCompleted(s) PROVE DiagnosticsInv'
    <2>1. CASE To(s, "note")
      <3>1. applied' = applied /\ constraints' = constraints
        BY <1>8, Zenon DEF AppendCompleted
      <3> QED
        BY <1>0, <2>1, <3>1, MovesQuietly, Zenon
    <2>2. CASE scan' = [scan EXCEPT ![s] = NoScan]
      <3>1. scan' = [scan EXCEPT ![s] = [pc |-> "idle", report |-> None]]
        BY <1>8, <2>2, Zenon DEF AppendCompleted, NoScan
      <3>2. /\ ScansAreRecords' /\ scan'[s].pc = "idle"
            /\ \A t \in Scans \ {s} : scan'[t] = scan[t]
        BY <1>0, <3>1, Replaced, Zenon
      <3>3. applied' = applied /\ constraints' = constraints
        BY <1>8, <2>2, Zenon DEF AppendCompleted
      <3> QED
        BY <1>0, <3>2, <3>3, Zenon DEF DiagnosticsInv, PublishersLedgered, AppliedIsLedgered
    <2> QED
      BY <1>8, <2>1, <2>2, Zenon DEF AppendCompleted
  <1>9. ASSUME NEW s \in Scans, NoteDigest(s) PROVE DiagnosticsInv'
    <2>1. To(s, "report") /\ applied' = applied /\ constraints' = constraints
      BY <1>9, Zenon DEF NoteDigest
    <2> QED
      BY <1>0, <2>1, MovesQuietly, Zenon
  <1>10. ASSUME NEW s \in Scans, PublishReport(s) PROVE DiagnosticsInv'
    <2>1. scan' = [scan EXCEPT ![s] = [pc |-> "idle", report |-> None]]
      BY <1>10, Zenon DEF PublishReport, NoScan
    <2>2. /\ ScansAreRecords' /\ scan'[s].pc = "idle"
          /\ \A t \in Scans \ {s} : scan'[t] = scan[t]
      BY <1>0, <2>1, Replaced, Zenon
    <2>3. applied' = applied /\ constraints' = constraints
      BY <1>10, Zenon DEF PublishReport
    <2> QED
      BY <1>0, <2>2, <2>3, Zenon DEF DiagnosticsInv, PublishersLedgered, AppliedIsLedgered
  <1> QED
    BY <1>1, <1>2, <1>3, <1>4, <1>5, <1>6, <1>7, <1>8, <1>9, <1>10, Zenon DEF ScanNext, ScanStep

\* The constraints placement reads are always in the ledger, however many
\* scans, failing appends and restarts interleave.
THEOREM ConstraintsLedgered == ScanSpec => []AppliedIsLedgered
  <1>1. DiagnosticsInv => AppliedIsLedgered
    BY DEF DiagnosticsInv
  <1> QED
    BY <1>1, DiagnosticsStarts, DiagnosticsInductive, PTL DEF ScanSpec

-----------------------------------------------------------------------------
(***************************************************************************)
(* Proofs for record_dividend: for any requests, sets and receipts, what   *)
(* is recorded or answered as recorded is backed by signed receipts.  The  *)
(* handler holds no lock between its check and its append; the argument is *)
(* that a check, once it has passed, stays true, since receipts are never  *)
(* withdrawn.                                                              *)
(***************************************************************************)
Results == {Result(r) : r \in Requests}

DividendsInv ==
  /\ ledger \in Seq(Results)
  /\ req \in [Requests -> {"new", "checked", "accepted", "ok", "conflict", "error"}]
  /\ \A r \in Requests : req[r] = "checked" => Backed(Result(r))
  /\ DividendIsBacked

\* The record the handler's loop over the set's events stops at is a record.
LEMMA FirstIsRecorded ==
  ASSUME FiniteFacts, ledger \in Seq(Results), NEW s, Earlier(s) # {}
  PROVE  First(s) \in Recorded
  <1>1. Earlier(s) \subseteq DOMAIN ledger /\ DOMAIN ledger \subseteq Nat
    BY DEF Earlier
  <1>2. \E i \in Earlier(s) : \A k \in Earlier(s) : i <= k
    BY <1>1, Zenon DEF FiniteFacts, LeastFact
  <1>3. (CHOOSE i \in Earlier(s) : \A k \in Earlier(s) : i <= k) \in DOMAIN ledger
    BY <1>1, <1>2
  <1> QED
    BY <1>3, Zenon DEF First, Recorded

\* No handler withdraws a receipt, so evidence that was enough stays enough.
LEMMA BackingLasts ==
  ASSUME NEW d, Backed(d), receipted \subseteq receipted'
  PROVE  Backed(d)'
  BY Zenon DEF Backed

\* Nothing is recorded before the first request of record_dividend.
LEMMA DividendsStart == DividendsInit => DividendsInv
  BY DEF DividendsInit, DividendsInv, DividendIsBacked, Recorded

\* The check, the look-up and the append each keep what is recorded backed.
LEMMA DividendsStep ==
  ASSUME FiniteFacts, DividendsInv, [DividendsNext]_dividendVars
  PROVE  DividendsInv'
  <1>1. CASE UNCHANGED dividendVars
    <2>1. \A d : Backed(d)' <=> Backed(d)
      BY <1>1, Zenon DEF Backed, dividendVars
    <2>2. UNCHANGED <<ledger, req, receipted>>
      BY <1>1, Zenon DEF dividendVars
    <2> QED
      BY <2>1, <2>2, Zenon DEF DividendsInv, DividendIsBacked, Recorded
  <1>2. ASSUME NEW j \in Jobs, Complete(j) PROVE DividendsInv'
    <2>1. receipted \subseteq receipted' /\ ledger' = ledger /\ req' = req
      BY <1>2 DEF Complete
    <2>2. Recorded' = Recorded
      BY <2>1, Zenon DEF Recorded
    <2> QED
      BY <2>1, <2>2, BackingLasts, Zenon DEF DividendsInv, DividendIsBacked
  <1>3. ASSUME NEW r \in Requests, LookUp(r) PROVE DividendsInv'
    <2> DEFINE result == Result(r)
    <2>1. receipted' = receipted /\ ledger' = ledger
      BY <1>3, Zenon DEF LookUp
    <2>2. Recorded' = Recorded /\ \A d : Backed(d) => Backed(d)'
      BY <2>1, Zenon DEF Recorded, Backed
    <2>3. PICK a \in {"ok", "conflict", "checked"} :
            /\ req' = [req EXCEPT ![r] = a]
            /\ a = "ok" => Earlier(result.set) # {} /\ First(result.set) = result
            /\ a = "checked" => Backed(result)
      BY <1>3, Zenon DEF LookUp
    <2>4. a = "ok" => result \in Recorded
      BY <2>3, FirstIsRecorded, Zenon DEF DividendsInv
    <2> QED
      BY <2>1, <2>2, <2>3, <2>4, Zenon DEF DividendsInv, DividendIsBacked
  <1>4. ASSUME NEW r \in Requests, RecordDividend(r) PROVE DividendsInv'
    <2>1. receipted' = receipted /\ req[r] = "checked"
      BY <1>4, Zenon DEF RecordDividend
    <2>2. \A d : Backed(d) => Backed(d)'
      BY <2>1, Zenon DEF Backed
    <2>3. CASE /\ ledger' = Append(ledger, Result(r))
               /\ req' = [req EXCEPT ![r] = "accepted"]
      <3>0. Result(r) \in Results /\ ledger \in Seq(Results)
        BY Zenon DEF DividendsInv, Results
      <3>1. Recorded' = Recorded \cup {Result(r)} /\ ledger' \in Seq(Results)
        <4>1. /\ ledger' \in Seq(Results) /\ DOMAIN ledger' = DOMAIN ledger \cup {Len(ledger) + 1}
              /\ ledger'[Len(ledger) + 1] = Result(r)
              /\ \A i \in DOMAIN ledger : ledger'[i] = ledger[i]
          BY <2>3, <3>0
        <4> QED
          BY <4>1, Zenon DEF Recorded
      <3> QED
        BY <2>1, <2>2, <2>3, <3>1, Zenon DEF DividendsInv, DividendIsBacked
    <2>4. CASE ledger' = ledger /\ req' = [req EXCEPT ![r] = "error"]
      <3>1. Recorded' = Recorded
        BY <2>4, Zenon DEF Recorded
      <3> QED
        BY <2>2, <2>4, <3>1, Zenon DEF DividendsInv, DividendIsBacked
    <2> QED
      BY <1>4, <2>3, <2>4, Zenon DEF RecordDividend
  <1> QED
    BY <1>1, <1>2, <1>3, <1>4, Zenon DEF DividendsNext

\* Two records of one set, which the unlocked handler admits, claim the same
\* node and the same figures for each of its jobs.
TwinsAgree ==
  \A d, e \in Recorded : d.set = e.set =>
    \A j \in Shards(d.set) : /\ d.nodes[j].node = e.nodes[j].node
                             /\ d.nodes[j].figures = e.nodes[j].figures

\* Both were checked against the receipts, and a job has one receipt.
LEMMA TwinsFollow == DividendsInv => TwinsAgree
  <1> SUFFICES ASSUME DividendsInv, NEW d \in Recorded, NEW e \in Recorded, d.set = e.set,
                      NEW j \in Shards(d.set)
               PROVE  /\ d.nodes[j].node = e.nodes[j].node
                      /\ d.nodes[j].figures = e.nodes[j].figures
    BY Zenon DEF TwinsAgree
  <1>1. Backed(d) /\ Backed(e)
    BY Zenon DEF DividendsInv, DividendIsBacked
  <1> QED
    BY <1>1, Zenon DEF Backed

-----------------------------------------------------------------------------
(***************************************************************************)
(* The facts about finite sets, from the library.                          *)
(***************************************************************************)
Library == INSTANCE FiniteSetTheorems

\* The library's finite sets are those of the modules above.
LEMMA SameFinite == \A S : IsFiniteSet(S) <=> Library!IsFiniteSet(S)
  BY Zenon DEF IsFiniteSet, Library!IsFiniteSet

\* It counts them the same way.
LEMMA SameCount == \A S : Cardinality(S) = Library!Cardinality(S)
  BY Zenon DEF Cardinality, Library!Cardinality

\* The order on the naturals is well founded.
LEMMA NaturalsHaveLeast == LeastFact
<1> SUFFICES ASSUME NEW S \in SUBSET Nat, S # {} PROVE \E x \in S : \A y \in S : x <= y
  BY DEF LeastFact
<1> DEFINE R == Library!OpToRel(<, Nat)
<1>1. Library!IsWellFoundedOn(R, Nat)
  BY Library!NatLessThanWellFounded, Zenon
<1>2. \A x, y \in Nat : <<y, x>> \in R <=> y < x
  BY Zenon DEF Library!OpToRel
<1> HIDE DEF R
<1>3. PICK x \in S : \A y \in S : ~ (<<y, x>> \in R)
  BY <1>1, Library!WFMin, Zenon
<1>4. ASSUME NEW y \in S PROVE x <= y
  <2>1. x \in Nat /\ y \in Nat /\ ~ (<<y, x>> \in R)
    BY <1>3, Zenon
  <2> QED BY <1>2, <2>1
<1> QED BY <1>4, Zenon

\* What the lemmas assume about finite sets holds.
LEMMA FiniteFactsHold == FiniteFacts
<1>1. CountFact
  BY SameFinite, SameCount, Library!FS_CardinalityType, Zenon DEF CountFact
<1>2. EmptyFact
  BY SameFinite, SameCount, Library!FS_EmptySet, Zenon DEF EmptyFact
<1>3. SingletonFact
  BY SameFinite, SameCount, Library!FS_Singleton, Zenon DEF SingletonFact
<1>4. IntervalFact
  BY SameFinite, SameCount, Library!FS_Interval, Zenon DEF IntervalFact
<1>5. SubsetFact
  BY SameFinite, SameCount, Library!FS_Subset, Zenon DEF SubsetFact
<1>6. AddFact
  BY SameFinite, SameCount, Library!FS_AddElement, Zenon DEF AddFact
<1>7. RemoveFact
  BY SameFinite, SameCount, Library!FS_RemoveElement, Zenon DEF RemoveFact
<1>8. UnionFact
  BY SameFinite, SameCount, Library!FS_Union, Zenon DEF UnionFact
<1>9. ProductFact
  BY SameFinite, SameCount, Library!FS_Product, Zenon DEF ProductFact
<1>10. OntoFact
  <2> SUFFICES ASSUME NEW S, NEW T, IsFiniteSet(S), NEW f \in [S -> T],
                      \A t \in T : \E s \in S : f[s] = t
               PROVE  IsFiniteSet(T) /\ Cardinality(T) <= Cardinality(S)
    BY Zenon DEF OntoFact
  <2>1. f \in Library!Surjection(S, T)
    BY Zenon DEF Library!Surjection
  <2> QED BY <2>1, SameFinite, SameCount, Library!FS_Surjection, Zenon
<1>11. IntoFact
  <2> SUFFICES ASSUME NEW S, NEW T, IsFiniteSet(T), NEW f \in [S -> T],
                      \A s, t \in S : f[s] = f[t] => s = t
               PROVE  /\ IsFiniteSet(S) /\ Cardinality(S) <= Cardinality(T)
                      /\ Cardinality(S) = Cardinality(T) => \A t \in T : \E s \in S : f[s] = t
    BY Zenon DEF IntoFact
  <2>1. f \in Library!Injection(S, T)
    BY Zenon DEF Library!Injection, Library!IsInjective
  <2>2. /\ IsFiniteSet(S) /\ Cardinality(S) <= Cardinality(T)
        /\ Cardinality(S) = Cardinality(T) => f \in Library!Surjection(S, T)
    BY <2>1, SameFinite, SameCount, Library!FS_Injection, Zenon
  <2> QED BY <2>2, Zenon DEF Library!Surjection
<1> QED
  BY <1>1, <1>2, <1>3, <1>4, <1>5, <1>6, <1>7, <1>8, <1>9, <1>10, <1>11, NaturalsHaveLeast, Zenon
     DEF FiniteFacts

-----------------------------------------------------------------------------
(***************************************************************************)
(* The theorems for the store, the relay and record_dividend.              *)
(***************************************************************************)
\* StoreInv is inductive.
LEMMA StoreIsInvariant == Spec => []StoreInv
<1>1. Init => StoreInv
    BY StoreInit, FiniteFactsHold, Zenon
<1>2. StoreInv /\ [Next]_vars => StoreInv'
    <2>1. ASSUME StoreInv, Next
          PROVE  StoreInv'
        BY <2>1, FiniteFactsHold, TypeStep, StoreKinds, OpensStep, SettlesStep, RestsStep, Zenon DEF StoreInv
    <2>2. ASSUME StoreInv, UNCHANGED vars
          PROVE  StoreInv'
        BY <2>2, Zenon DEF StoreInv, TypeOK, NothingLost, Accounted, QuotaHeld, Reserved, Active,
            vars, authority, uploads, world
    <2>3. QED
        BY <2>1, <2>2, Zenon
<1>3. QED
    BY <1>1, <1>2, PTL DEF Spec

\* Content that is indexed, or that completed an upload, stays whole unless the
\* disk damages it, however puts and commits are cut short (NothingLost).
THEOREM ContentIsKept == Spec => []NothingLost
<1>1. StoreInv => NothingLost
    BY Zenon DEF StoreInv
<1>2. QED
    BY <1>1, StoreIsInvariant, PTL

\* What is indexed and reserved stays within the contribution, but for the
\* content of puts that were cut short (QuotaHeld).
THEOREM QuotaIsHeld == Spec => []QuotaHeld
<1>1. StoreInv => QuotaHeld
    BY Zenon DEF StoreInv
<1>2. QED
    BY <1>1, StoreIsInvariant, PTL

\* The relay's invariant holds throughout.
LEMMA RelayAlways == RelaySpec => []RelayInv
  <1>1. RelayInit => RelayInv
    BY RelayStarts, FiniteFactsHold
  <1>2. RelayInv /\ [RelayNext]_relayVars => RelayInv'
    BY RelayInductive, FiniteFactsHold, Zenon
  <1> QED
    BY <1>1, <1>2, PTL DEF RelaySpec

\* The counters of admit and release are the open connections and stay
\* within the limits, whatever the limits and the number of connections.
THEOREM RelayCounts == RelaySpec => []CountsAreConnections
  <1>1. RelayInv => CountsAreConnections
    BY Zenon DEF RelayInv
  <1> QED
    BY <1>1, RelayAlways, PTL

\* A revoked endpoint is turned away within CacheFor + FetchTimeout of its
\* revocation, whatever these durations and however requests interleave.
THEOREM RelayTurnsAway == RelaySpec => []RevocationBites
  <1>1. RelayInv => RevocationBites
    BY DEF RelayInv
  <1> QED
    BY <1>1, RelayAlways, PTL

\* So does what a check, a record and an answer say of a result.
LEMMA DividendsAlways == DividendsSpec => []DividendsInv
  <1>1. DividendsInv /\ [DividendsNext]_dividendVars => DividendsInv'
    BY DividendsStep, FiniteFactsHold
  <1> QED
    BY <1>1, DividendsStart, PTL DEF DividendsSpec

\* record_dividend records, and answers as recorded, only results that the
\* signed receipts of all jobs of the set bear out, however receipts and
\* requests interleave with its two halves.
THEOREM DividendsAreBacked == DividendsSpec => []DividendIsBacked
  <1>1. DividendsInv => DividendIsBacked
    BY Zenon DEF DividendsInv
  <1> QED
    BY <1>1, DividendsAlways, PTL

\* Requests that race for one set may both be recorded by record_dividend, but
\* never with different measurements.
THEOREM RacingDividendsAgree == DividendsSpec => []TwinsAgree
  BY TwinsFollow, DividendsAlways, PTL
=============================================================================
