------------------------------- MODULE Relay -------------------------------
(***************************************************************************)
(* Admission at the owner relay.  A connection is admitted when its        *)
(* endpoint is in the signed access manifest, which the relay caches for a *)
(* few seconds and otherwise fetches from the controller with the cache    *)
(* lock held; connections are counted per endpoint and in all.  The        *)
(* controller lists the endpoints that are enrolled when it answers.  Time *)
(* is counted in ticks; relay and controller run on one host.              *)
(***************************************************************************)
EXTENDS Integers, FiniteSets

CONSTANTS
  Endpoints, Conns,      \* enrolled workers, and connections they attempt
  Owner(_),              \* the endpoint that attempts a connection
  CacheFor,              \* snapshot_cache_seconds
  FetchTimeout,          \* the client's request timeout
  Validity,              \* the lifetime the controller signs
  MaxPerEndpoint, MaxTotal,
  MaxClock,              \* bound on time
  NoManifest

ASSUME RelayAssumption ==
  /\ IsFiniteSet(Conns)
  /\ \A c \in Conns : Owner(c) \in Endpoints
  /\ {FetchTimeout, Validity, MaxPerEndpoint, MaxTotal, MaxClock} \subseteq Nat
  /\ CacheFor \in Nat \ {0}

VARIABLES
  now,
  revoked,     \* revoked[e]: when e was revoked, or -1 while it is enrolled
  cache,       \* the cached manifest and when it was received, or NoManifest
  fetch,       \* the request in flight: [by, since, answer], or NoManifest
  conn,        \* conn[c]: "new", "waiting", "open", "denied", "gone", "closed"
  active,      \* the counters [total, by]
  lag          \* lag[c]: how long its endpoint had been revoked at admission
relayVars == <<now, revoked, cache, fetch, conn, active, lag>>

Manifests == [allowed : SUBSET Endpoints, issued : 0..MaxClock]

RelayTypeOK ==
  /\ now \in 0..MaxClock
  /\ revoked \in [Endpoints -> -1..MaxClock]
  /\ cache = NoManifest \/ cache \in [manifest : Manifests, at : 0..MaxClock]
  /\ \/ fetch = NoManifest
     \/ fetch \in [by : Conns, since : 0..MaxClock, answer : Manifests \cup {NoManifest}]
  /\ conn \in [Conns -> {"new", "waiting", "open", "denied", "gone", "closed"}]
  /\ active \in [total : 0..MaxTotal, by : [Endpoints -> 0..MaxPerEndpoint]]
  /\ lag \in [Conns -> 0..MaxClock]

\* The relay starts only once check_access has loaded a manifest.
RelayInit ==
  /\ now = 0
  /\ revoked = [e \in Endpoints |-> -1]
  /\ cache = [manifest |-> [allowed |-> Endpoints, issued |-> 0], at |-> 0]
  /\ fetch = NoManifest
  /\ conn = [c \in Conns |-> "new"]
  /\ active = [total |-> 0, by |-> [e \in Endpoints |-> 0]]
  /\ lag = [c \in Conns |-> 0]

-----------------------------------------------------------------------------
(* The controller, and time *)

AllowedEndpoints == {e \in Endpoints : revoked[e] = -1}

RevokeEndpoint(e) ==
  /\ revoked[e] = -1
  /\ revoked' = [revoked EXCEPT ![e] = now]
  /\ UNCHANGED <<now, cache, fetch, conn, active, lag>>

\* relay_access_manifest: the endpoints enrolled at the time of the answer.
RelayAccessManifest ==
  /\ fetch # NoManifest
  /\ fetch.answer = NoManifest
  /\ fetch' = [fetch EXCEPT !.answer = [allowed |-> AllowedEndpoints, issued |-> now]]
  /\ UNCHANGED <<now, revoked, cache, conn, active, lag>>

\* The client gives a request up before it outlives its timeout.
RelayTick ==
  /\ now < MaxClock
  /\ fetch # NoManifest => now < fetch.since + FetchTimeout
  /\ now' = now + 1
  /\ UNCHANGED <<revoked, cache, fetch, conn, active, lag>>

-----------------------------------------------------------------------------
(* The relay *)

IsValidAt(m, t) == m.issued <= t /\ t < m.issued + Validity

CacheIsFresh ==
  /\ cache # NoManifest
  /\ now - cache.at < CacheFor
  /\ IsValidAt(cache.manifest, now)

\* The counters are read and written under one lock.
HasRoom(e) == active.total < MaxTotal /\ active.by[e] < MaxPerEndpoint

\* The rest of admit, once the manifest is there.
Decide(c, m) ==
  LET e == Owner(c)
      ok == e \in m.allowed /\ HasRoom(e)
  IN  /\ conn' = [conn EXCEPT ![c] = IF ok THEN "open" ELSE "denied"]
      /\ active' = IF ok THEN [total |-> active.total + 1,
                               by |-> [active.by EXCEPT ![e] = @ + 1]]
                   ELSE active
      /\ lag' = IF ok /\ revoked[e] # -1 THEN [lag EXCEPT ![c] = now - revoked[e]] ELSE lag

\* on_connect: the task waits for the cache lock.
OnConnect(c) ==
  /\ conn[c] = "new"
  /\ conn' = [conn EXCEPT ![c] = "waiting"]
  /\ UNCHANGED <<now, revoked, cache, fetch, active, lag>>

\* A variant: a hit renews the age of the cached manifest.
AdmitAndRenew(c) ==
  /\ conn[c] = "waiting"
  /\ fetch = NoManifest
  /\ CacheIsFresh
  /\ cache' = [cache EXCEPT !.at = now]
  /\ Decide(c, cache.manifest)
  /\ UNCHANGED <<now, revoked, fetch>>

\* load_manifest finds the lock free and the cached manifest fresh.
AdmitFromCache(c) ==
  /\ conn[c] = "waiting"
  /\ fetch = NoManifest
  /\ CacheIsFresh
  /\ Decide(c, cache.manifest)
  /\ UNCHANGED <<now, revoked, cache, fetch>>

\* load_manifest finds the lock free and no fresh manifest: it asks.
StartFetch(c) ==
  /\ conn[c] = "waiting"
  /\ fetch = NoManifest
  /\ ~ CacheIsFresh
  /\ fetch' = [by |-> c, since |-> now, answer |-> NoManifest]
  /\ UNCHANGED <<now, revoked, cache, conn, active, lag>>

\* The answer arrives, is verified, cached and used.
FinishFetch ==
  /\ fetch # NoManifest
  /\ fetch.answer # NoManifest
  /\ IsValidAt(fetch.answer, now)
  /\ cache' = [manifest |-> fetch.answer, at |-> now]
  /\ fetch' = NoManifest
  /\ Decide(fetch.by, fetch.answer)
  /\ UNCHANGED <<now, revoked>>

\* Refused, lost or late: the connection is denied, the old cache is kept.
FailFetch ==
  /\ fetch # NoManifest
  /\ conn' = [conn EXCEPT ![fetch.by] = "denied"]
  /\ fetch' = NoManifest
  /\ UNCHANGED <<now, revoked, cache, active, lag>>

\* The client leaves while its admission is pending: the task is dropped,
\* and with it the lock and the request.
AbandonConnect(c) ==
  /\ conn[c] = "waiting"
  /\ conn' = [conn EXCEPT ![c] = "gone"]
  /\ fetch' = IF fetch # NoManifest /\ fetch.by = c THEN NoManifest ELSE fetch
  /\ UNCHANGED <<now, revoked, cache, active, lag>>

\* A variant: release forgets the total.
OnDisconnectUntotalled(c) ==
  /\ conn[c] = "open"
  /\ conn' = [conn EXCEPT ![c] = "closed"]
  /\ active' = [active EXCEPT !.by[Owner(c)] = @ - 1]
  /\ UNCHANGED <<now, revoked, cache, fetch, lag>>

\* on_disconnect: release.
OnDisconnect(c) ==
  /\ conn[c] = "open"
  /\ conn' = [conn EXCEPT ![c] = "closed"]
  /\ LET e == Owner(c)
     IN  active' = IF active.by[e] = 0 THEN active
                   ELSE [total |-> active.total - 1, by |-> [active.by EXCEPT ![e] = @ - 1]]
  /\ UNCHANGED <<now, revoked, cache, fetch, lag>>

RelayNext ==
  \/ \E e \in Endpoints : RevokeEndpoint(e)
  \/ RelayAccessManifest \/ RelayTick \/ FinishFetch \/ FailFetch
  \/ \E c \in Conns : \/ OnConnect(c) \/ AdmitFromCache(c) \/ StartFetch(c)
                      \/ AbandonConnect(c) \/ OnDisconnect(c)

RelaySpec == RelayInit /\ [][RelayNext]_relayVars

-----------------------------------------------------------------------------
(* Properties *)

OpenOf(e) == {c \in Conns : conn[c] = "open" /\ Owner(c) = e}

\* The counters of admit and release are the connections that are open, so
\* neither limit is ever exceeded or eaten up by connections long gone.
CountsAreConnections ==
  /\ \A e \in Endpoints : active.by[e] = Cardinality(OpenOf(e))
  /\ active.total = Cardinality({c \in Conns : conn[c] = "open"})
  /\ active.total <= MaxTotal
  /\ \A e \in Endpoints : active.by[e] <= MaxPerEndpoint

\* A revoked endpoint is turned away soon: nobody is admitted longer after
\* the revocation than a fetch may take plus the time the cache is used.
RevocationBites == \A c \in Conns : lag[c] < CacheFor + FetchTimeout
=============================================================================
