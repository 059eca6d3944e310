------------------------------ MODULE JsonCache ------------------------------
(***************************************************************************)
(* cached_json (router.rs) and the requests that read through it: the      *)
(* discovery document of an issuer, which names a URL for its keys, and    *)
(* the key sets.  The lock is held to look an entry up and to insert one,  *)
(* not during the fetch between the two: any number of requests may miss   *)
(* at once, and their answers may be inserted in any order, each as fresh  *)
(* as the moment of its insertion.                                         *)
(*                                                                         *)
(* What a URL serves is a version, a number that grows by one whenever the *)
(* issuer changes it.  The clock is the Instant of the process.            *)
(***************************************************************************)
EXTENDS Naturals, FiniteSets

CONSTANTS Discovery,    \* the URL of the discovery document
          KeyUrls,      \* URLs of key sets
          UriOf,        \* UriOf[v]: the jwks_uri in version v of the document, or None
          KeysOf,       \* KeysOf[u][v]: the keys in version v of what u serves
          None,         \* no URL, no version, no `kid`
          DiscoveryTTL, JwksTTL,
          Handlers,     \* requests that can be in progress at once
          Needs,        \* what requests come for: <<goal, url>> pairs
          MaxChanges,   \* bound: how often the issuer changes what a URL serves
          MaxTime       \* bound: how long the clock runs

Urls == KeyUrls \cup {Discovery}
Versions == UNION {0..MaxChanges[u] : u \in Urls}

ASSUME JsonCacheAssumption ==
    /\ Discovery \notin KeyUrls /\ None \notin KeyUrls /\ None \notin Nat
    /\ \A v \in Versions : UriOf[v] \in KeyUrls \cup {None}
    /\ DiscoveryTTL \in Nat \ {0} /\ JwksTTL \in Nat \ {0}
    /\ Needs \subseteq ({"endpoints"} \X {Discovery}) \cup ({"keys"} \X Urls)
    /\ MaxChanges \in [Urls -> Nat] /\ MaxTime \in Nat

VARIABLES clock,
          served,    \* the version each URL serves
          since,     \* history: since[u][v], when u began to serve v
          cache,     \* the entry of each URL: a set, empty or of one CachedJson
          requests,  \* requests in progress, by handler: empty or one Request
          longest    \* history: the longest a call of cached_json has taken

vars == <<clock, served, since, cache, requests, longest>>

-----------------------------------------------------------------------------
CachedJson == [version: Versions, fetched: Nat]

\* A request that needs the issuer's endpoints or its keys, by the await of its
\* present call of cached_json, for url, begun at called.  It holds the version
\* it was answered with, and has the one it got at time got.  doc records the
\* version of the discovery document in which it found url.
Request == [at: {"lookup", "fetch", "insert", "done"},
            goal: {"endpoints", "keys"}, url: Urls, called: Nat,
            version: Versions, got: Nat, doc: Versions \cup {None}]

TTL(u) == IF u = Discovery THEN DiscoveryTTL ELSE JwksTTL
Longer(d) == IF d > longest THEN d ELSE longest

TypeOK ==
    /\ clock \in 0..MaxTime
    /\ served \in [Urls -> Nat] /\ \A u \in Urls : served[u] <= MaxChanges[u]
    /\ since \in [Urls -> [Versions -> Nat]]
    /\ cache \in [Urls -> SUBSET CachedJson]
    /\ \A u \in Urls : \A e \in cache[u] :
         /\ cache[u] = {e}
         /\ e.version <= served[u] /\ e.fetched <= clock
    /\ requests \in [Handlers -> SUBSET Request]
    /\ \A h \in Handlers : \A r \in requests[h] :
         /\ requests[h] = {r}
         /\ r.called <= clock /\ r.got <= clock /\ r.version <= served[r.url]
    /\ longest \in Nat

Init ==
    /\ clock = 0
    /\ served = [u \in Urls |-> 0]
    /\ since = [u \in Urls |-> [v \in Versions |-> 0]]
    /\ cache = [u \in Urls |-> {}]
    /\ requests = [h \in Handlers |-> {}]
    /\ longest = 0

-----------------------------------------------------------------------------
Tick ==
    /\ clock < MaxTime
    /\ clock' = clock + 1
    /\ UNCHANGED <<served, since, cache, requests, longest>>

\* The issuer publishes something else under u.
Change(u) ==
    /\ served[u] < MaxChanges[u]
    /\ served' = [served EXCEPT ![u] = @ + 1]
    /\ since' = [since EXCEPT ![u][served[u] + 1] = clock]
    /\ UNCHANGED <<clock, cache, requests, longest>>

Call(goal, u, doc) ==
    [at |-> "lookup", goal |-> goal, url |-> u, called |-> clock,
     version |-> 0, got |-> 0, doc |-> doc]

\* A request comes: resolve_endpoints and discovery read the document,
\* resolve_jwks_uri reads it on the way to the keys.  Where jwks_uri is in the
\* configuration, and for the keys of a client (verify_private_key_jwt), the
\* URL is known.
Start(h, goal, u) ==
    /\ requests[h] = {}
    /\ requests' = [requests EXCEPT ![h] = {Call(goal, u, None)}]
    /\ UNCHANGED <<clock, served, since, cache, longest>>

\* What a request does with the version that cached_json returns: it goes on to
\* the keys, gives up if the document names no URL, or is done.
Return(h, r, version) ==
    /\ requests' = [requests EXCEPT ![h] =
         IF r.goal = "keys" /\ r.url = Discovery
         THEN IF UriOf[version] = None THEN {}
              ELSE {Call("keys", UriOf[version], version)}
         ELSE {[r EXCEPT !.at = "done", !.version = version, !.got = clock]}]
    /\ longest' = Longer(clock - r.called)

\* Mutant: an entry is good for its TTL and the moment after.
HitInclusive(h) ==
    \E r \in requests[h] : \E e \in cache[r.url] :
        /\ r.at = "lookup"
        /\ clock - e.fetched <= TTL(r.url)
        /\ Return(h, r, e.version)
        /\ UNCHANGED <<clock, served, since, cache>>

\* The first critical section of cached_json, when the entry is fresh.
Hit(h) ==
    \E r \in requests[h] : \E e \in cache[r.url] :
        /\ r.at = "lookup"
        /\ clock - e.fetched < TTL(r.url)
        /\ Return(h, r, e.version)
        /\ UNCHANGED <<clock, served, since, cache>>

\* Mutant: if the server cannot be reached, what expired will do.
MissServesStale(h) ==
    \E r \in requests[h] :
        /\ r.at = "lookup"
        /\ \A e \in cache[r.url] : clock - e.fetched >= TTL(r.url)
        /\ \/ /\ requests' = [requests EXCEPT ![h] = {[r EXCEPT !.at = "fetch"]}]
              /\ UNCHANGED longest
           \/ \E e \in cache[r.url] : Return(h, r, e.version)
        /\ UNCHANGED <<clock, served, since, cache>>

\* The first critical section, when it is not: the request goes out.
Miss(h) ==
    \E r \in requests[h] :
        /\ r.at = "lookup"
        /\ \A e \in cache[r.url] : clock - e.fetched >= TTL(r.url)
        /\ requests' = [requests EXCEPT ![h] = {[r EXCEPT !.at = "fetch"]}]
        /\ UNCHANGED <<clock, served, since, cache, longest>>

\* The server of the URL answers with what it serves at that moment.
Answer(h) ==
    \E r \in requests[h] :
        /\ r.at = "fetch"
        /\ requests' = [requests EXCEPT ![h] =
                          {[r EXCEPT !.at = "insert", !.version = served[r.url]]}]
        /\ UNCHANGED <<clock, served, since, cache, longest>>

\* Mutant: the entry holds when it expires, not when it was fetched.
InsertExpiry(h) ==
    \E r \in requests[h] :
        /\ r.at = "insert"
        /\ cache' = [cache EXCEPT ![r.url] =
                       {[version |-> r.version, fetched |-> clock + TTL(r.url)]}]
        /\ Return(h, r, r.version)
        /\ UNCHANGED <<clock, served, since>>

\* The second critical section.
Insert(h) ==
    \E r \in requests[h] :
        /\ r.at = "insert"
        /\ cache' = [cache EXCEPT ![r.url] =
                       {[version |-> r.version, fetched |-> clock]}]
        /\ Return(h, r, r.version)
        /\ UNCHANGED <<clock, served, since>>

\* The fetch fails, the answer is not a success or not JSON, or the client of
\* the request hangs up; or the request has what it came for.
Leave(h) ==
    \E r \in requests[h] :
        /\ requests' = [requests EXCEPT ![h] = {}]
        /\ UNCHANGED <<clock, served, since, cache, longest>>

\* The cache is in memory: a new process begins with none.
Restart ==
    /\ cache' = [u \in Urls |-> {}]
    /\ requests' = [h \in Handlers |-> {}]
    /\ UNCHANGED <<clock, served, since, longest>>

\* A request that is done does not touch the cache again: it leaves before
\* anything else happens.
Next ==
    \/ /\ \A h \in Handlers : \A r \in requests[h] : r.at # "done"
       /\ \/ Tick
          \/ \E u \in Urls : Change(u)
          \/ \E h \in Handlers :
               \/ \E need \in Needs : Start(h, need[1], need[2])
               \/ Hit(h) \/ Miss(h) \/ Answer(h) \/ Insert(h)
          \/ Restart
    \/ \E h \in Handlers : Leave(h)

Spec == Init /\ [][Next]_vars

-----------------------------------------------------------------------------
\* Version v of u was current at some moment of the d before t.
CurrentWithin(u, v, t, d) == v < served[u] => t < since[u][v + 1] + d

Done(goal) == {r \in UNION {requests[h] : h \in Handlers} : r.at = "done" /\ r.goal = goal}

\* However calls overlap and in whichever order their answers are inserted, a
\* request works with nothing that was replaced a TTL and the longest call ago.
\* The URL of the keys comes from a document that may have been replaced while
\* the keys were fetched: by one more call, no longer.
StaleAtMost ==
    \A goal \in {"endpoints", "keys"} : \A r \in Done(goal) :
        /\ CurrentWithin(r.url, r.version, r.got, TTL(r.url) + longest)
        /\ goal = "keys" /\ r.doc # None =>
             CurrentWithin(Discovery, r.doc, r.got, DiscoveryTTL + 2 * longest)

-----------------------------------------------------------------------------
\* The choice of a key for a token in validate_required_id_token_claims and
\* verify_private_key_jwt: by its `kid`, or the only one there is.
Selects(keys, token) ==
    IF token.kid # None THEN token.kid = token.key /\ token.key \in keys
                        ELSE keys = {token.key}

Tokens == LET Keys == UNION {UNION {KeysOf[u][v] : v \in Versions} : u \in KeyUrls}
          IN  [key: Keys, kid: {None}] \cup {[key |-> k, kid |-> k] : k \in Keys}

\* The versions of u that were current at some moment of the d before t.
Recent(u, t, d) == {v \in 0..served[u] : since[u][v] <= t /\ CurrentWithin(u, v, t, d)}

\* Rollover of keys: a token that every key set of the last TTL (and longest
\* call) verifies is not rejected, which would consume its code; one that none of
\* them verifies is not accepted.  Announcing a key, or withdrawing one, that long
\* ahead is enough.
RolloverSafe ==
    \A r \in Done("keys") : \A token \in Tokens :
        r.url # Discovery =>
            LET published == {KeysOf[r.url][v] : v \in Recent(r.url, r.got, JwksTTL + longest)}
            IN  /\ (\A keys \in published : Selects(keys, token)) =>
                      Selects(KeysOf[r.url][r.version], token)
                /\ Selects(KeysOf[r.url][r.version], token) =>
                      \E keys \in published : Selects(keys, token)
=============================================================================
