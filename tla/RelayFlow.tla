------------------------------ MODULE RelayFlow -----------------------------
(***************************************************************************)
(* One authorization through oauthrelay: authorize, the upstream's consent *)
(* page, callback and token (router.rs), while the registry of relays and  *)
(* upstreams is replaced under them (resolver.rs).                         *)
(*                                                                         *)
(* The relay keeps nothing between the three endpoints.  What authorize    *)
(* decided travels as a FlowEnvelope sealed with the upstream's key as     *)
(* associated data, what callback obtained as a CodeEnvelope sealed with   *)
(* the relay's key; user agents hold them and may deliver any of them to   *)
(* any endpoint, late or more than once.  Each handler resolves its relay  *)
(* and its upstream by two reads of the registry and goes on with what it  *)
(* read after awaiting the network, however often the registry changes.    *)
(*                                                                         *)
(* A step is a handler's code from one await to the next.  Freshness is    *)
(* left out (an expired envelope makes a handler stop; it may stop at any  *)
(* step here) and so is the replay cache, which may only make a token      *)
(* request stop: module Redemption is about both.                          *)
(***************************************************************************)
EXTENDS Naturals, Sequences

CONSTANTS Relays, Upstreams,  \* resource keys
          Issuers,            \* authorization servers outside
          Uris,               \* redirect URIs of applications
          Verifiers,          \* PKCE verifiers; a verifier also names its S256 challenge
          Secrets,            \* client secrets
          None,               \* an absent challenge, verifier, secret or session
          Snapshots,          \* the resource graphs the providers may deliver
          FlowIds,            \* identities of flows (FlowEnvelope.nonce)
          CodeIds,            \* identities of codes (CodeEnvelope.envelope_id)
          Handlers,           \* requests that can be in progress at once
          MaxReplacements     \* bound: how often the registry is replaced

\* A Relay: its upstream, its client authentication, its redirect policy and
\* whether it requires ID token claims.  A credential in the relay's own
\* configuration is a ClientSecret here, PrivateKeyJwt's keys included.
RelayConfig == [upstream: Upstreams,
                auth: {"Public", "UpstreamClient", "ClientSecret"}, secret: Secrets,
                redirects: SUBSET Uris, claims: BOOLEAN]

\* An Upstream: the authorization server behind it and the client secret there.
UpstreamConfig == [issuer: Issuers, secret: Secrets]

\* ProviderSnapshot::validate: no relay refers to an upstream that is absent.
Closed(s) == \A r \in DOMAIN s.relays : s.relays[r].upstream \in DOMAIN s.upstreams

ASSUME RelayFlowAssumption ==
    /\ None \notin Verifiers \cup Secrets \cup FlowIds
    /\ MaxReplacements \in Nat
    /\ \A s \in Snapshots :
         /\ DOMAIN s.relays \subseteq Relays
         /\ DOMAIN s.upstreams \subseteq Upstreams
         /\ \A r \in DOMAIN s.relays : s.relays[r] \in RelayConfig
         /\ \A u \in DOMAIN s.upstreams : s.upstreams[u] \in UpstreamConfig
         /\ Closed(s)

VARIABLES log,        \* the registry's contents: the last one is in force
          inflight,   \* requests in progress, each at one of its awaits
          flows,      \* state parameters sealed by authorize
          consents,   \* upstream authorization codes
          notices,    \* redirects that carry an upstream's error, not a code
          codes,      \* relay authorization codes sealed by callback
          releases    \* token responses handed to applications

vars == <<log, inflight, flows, consents, notices, codes, releases>>

-----------------------------------------------------------------------------
\* Registry::resolve_relay and resolve_upstream read what is in force; what
\* they return (an Arc) stays what it was then, so a handler's `relayAt` and
\* `upstreamAt` say which contents it read.
Present == Len(log)
RelayIn(k, r) == log[k].relays[r]
UpstreamIn(k, u) == log[k].upstreams[u]

Challenges == Verifiers \cup {None}
Moments == 1..(MaxReplacements + 1)

\* A FlowEnvelope and the associated data it is sealed with.  Its verifier
\* towards the upstream is named by its id.  issuer, relayAt and upstreamAt
\* are not in the envelope: they record what authorize had read.
Flow == [id: FlowIds, upstream: Upstreams, relay: Relays, uri: Uris,
         challenge: Challenges, issuer: Issuers, relayAt: Moments, upstreamAt: Moments]

\* An authorization code of an issuer, bound to the S256 challenge it was sent,
\* and whether the user's ID token will satisfy the claims a relay requires.
Consent == [issuer: Issuers, flow: FlowIds, claims: BOOLEAN]

\* A StoredResponse: tokens of a flow's user, or (flow = None) an error.
StoredResponse == [issuer: Issuers, flow: FlowIds \cup {None}, claims: BOOLEAN]

\* A CodeEnvelope; flow, relayAt and upstreamAt record where it came from.
CodeEnvelope == [id: CodeIds, relay: Relays, uri: Uris, challenge: Challenges,
                 response: StoredResponse,
                 flow: FlowIds, relayAt: Moments, upstreamAt: Moments]

Release == [code: CodeEnvelope, relay: Relays, uri: Uris, verifier: Challenges,
            relayAt: Moments, upstreamAt: Moments]

Notice == [relay: Relays, uri: Uris, flow: FlowIds, relayAt: Moments]

\* Requests, by the await they are at.
Authorizing == [handler: Handlers, at: {"authorize"}, relay: Relays, uri: Uris,
                challenge: Challenges, relayAt: Moments]
Forwarding == [handler: Handlers, at: {"forward"}, relay: Relays, uri: Uris,
               challenge: Challenges, relayAt: Moments, upstreamAt: Moments]
Returning == [handler: Handlers, at: {"callback"}, upstream: Upstreams, state: Flow,
              code: Consent \cup {None}, upstreamAt: Moments]
Exchanging == [handler: Handlers, at: {"exchange"}, upstream: Upstreams, state: Flow,
               code: Consent, upstreamAt: Moments, relayAt: Moments]
Asking == [handler: Handlers, at: {"token"}, relay: Relays, code: CodeEnvelope,
           uri: Uris, verifier: Challenges, secret: Secrets \cup {None}, relayAt: Moments]
Validating == [handler: Handlers, at: {"validate"}, relay: Relays, code: CodeEnvelope,
               uri: Uris, verifier: Challenges, relayAt: Moments, upstreamAt: Moments]

TypeOK ==
    /\ log \in Seq(Snapshots) /\ Len(log) \in Moments
    /\ inflight \subseteq Authorizing \cup Forwarding \cup Returning
                            \cup Exchanging \cup Asking \cup Validating
    /\ flows \subseteq Flow
    /\ consents \subseteq Consent
    /\ notices \subseteq Notice
    /\ codes \subseteq CodeEnvelope
    /\ releases \subseteq Release

Init ==
    /\ log \in {<<s>> : s \in Snapshots}
    /\ inflight = {} /\ flows = {} /\ consents = {} /\ notices = {}
    /\ codes = {} /\ releases = {}

-----------------------------------------------------------------------------
At(stage) == {q \in inflight : q.at = stage}
Idle(h) == \A q \in inflight : q.handler # h
Arrive(q) == inflight' = inflight \cup {q}
Proceed(q, next) == inflight' = (inflight \ {q}) \cup {next}
Finish(q) == inflight' = inflight \ {q}

\* Registry::replace; putting in what is there already changes nothing.
Replace(s) ==
    /\ Len(log) <= MaxReplacements
    /\ s # log[Present]
    /\ log' = Append(log, s)
    /\ UNCHANGED <<inflight, flows, consents, notices, codes, releases>>

\* dispatch, for authorize: the relay is resolved.
AuthorizeArrives(h, r, uri, challenge) ==
    /\ Idle(h)
    /\ r \in DOMAIN log[Present].relays
    /\ Arrive([handler |-> h, at |-> "authorize", relay |-> r, uri |-> uri,
               challenge |-> challenge, relayAt |-> Present])
    /\ UNCHANGED <<log, flows, consents, notices, codes, releases>>

\* dispatch resolves the upstream the relay names, then authorize checks the
\* request against the relay, up to the await in resolve_endpoints.
AuthorizeChecks(q) ==
    LET relay == RelayIn(q.relayAt, q.relay)
    IN  /\ relay.upstream \in DOMAIN log[Present].upstreams
        /\ q.uri \in relay.redirects
        /\ relay.auth = "Public" => q.challenge # None
        /\ Proceed(q, [handler |-> q.handler, at |-> "forward", relay |-> q.relay,
                       uri |-> q.uri, challenge |-> q.challenge,
                       relayAt |-> q.relayAt, upstreamAt |-> Present])
        /\ UNCHANGED <<log, flows, consents, notices, codes, releases>>

\* The state sealed with the relay's key, as the code is.
AuthorizeForwardsUnderRelay(q, id) ==
    /\ \A f \in flows : f.id # id
    /\ flows' = flows \cup
         {[id |-> id, upstream |-> q.relay, relay |-> q.relay, uri |-> q.uri,
           challenge |-> q.challenge,
           issuer |-> UpstreamIn(q.upstreamAt, RelayIn(q.relayAt, q.relay).upstream).issuer,
           relayAt |-> q.relayAt, upstreamAt |-> q.upstreamAt]}
    /\ Finish(q)
    /\ UNCHANGED <<log, consents, notices, codes, releases>>

\* authorize seals the flow and sends the browser to the upstream.
AuthorizeForwards(q, id) ==
    LET u == RelayIn(q.relayAt, q.relay).upstream
    IN  /\ \A f \in flows : f.id # id
        /\ flows' = flows \cup
             {[id |-> id, upstream |-> u, relay |-> q.relay, uri |-> q.uri,
               challenge |-> q.challenge, issuer |-> UpstreamIn(q.upstreamAt, u).issuer,
               relayAt |-> q.relayAt, upstreamAt |-> q.upstreamAt]}
        /\ Finish(q)
        /\ UNCHANGED <<log, consents, notices, codes, releases>>

\* Outside: the user signs in at the issuer the browser was sent to, and the
\* issuer binds its code to the S256 challenge of that request.
UserConsents(f, claims) ==
    /\ \A c \in consents : c.flow # f.id
    /\ consents' = consents \cup {[issuer |-> f.issuer, flow |-> f.id, claims |-> claims]}
    /\ UNCHANGED <<log, inflight, flows, notices, codes, releases>>

\* dispatch, for callback: any state with any upstream code (or with an error,
\* code = None) at any upstream's path.
CallbackArrives(h, u, f, code) ==
    /\ Idle(h)
    /\ u \in DOMAIN log[Present].upstreams
    /\ Arrive([handler |-> h, at |-> "callback", upstream |-> u, state |-> f,
               code |-> code, upstreamAt |-> Present])
    /\ UNCHANGED <<log, flows, consents, notices, codes, releases>>

\* A callback that trusts the state's redirect URI, and one that trusts its relay.
CallbackAcceptsSealedUri(q) ==
    /\ q.state.upstream = q.upstream
    /\ q.state.relay \in DOMAIN log[Present].relays
    /\ RelayIn(Present, q.state.relay).upstream = q.upstream
CallbackAcceptsSealedRelay(q) ==
    /\ q.state.upstream = q.upstream
    /\ q.state.relay \in DOMAIN log[Present].relays
    /\ q.state.uri \in RelayIn(Present, q.state.relay).redirects

\* callback unseals the state, resolves its relay and checks both again.
CallbackAccepts(q) ==
    LET f == q.state
    IN  /\ f.upstream = q.upstream
        /\ f.relay \in DOMAIN log[Present].relays
        /\ RelayIn(Present, f.relay).upstream = q.upstream
        /\ f.uri \in RelayIn(Present, f.relay).redirects

\* An upstream's error is passed on to the application.
CallbackNotifies(q) ==
    /\ CallbackAccepts(q)
    /\ q.code = None
    /\ notices' = notices \cup {[relay |-> q.state.relay, uri |-> q.state.uri,
                                 flow |-> q.state.id, relayAt |-> Present]}
    /\ Finish(q)
    /\ UNCHANGED <<log, flows, consents, codes, releases>>

\* Otherwise the code is posted to the token endpoint of the upstream that was
\* resolved on arrival, with the flow's verifier.
CallbackPosts(q) ==
    /\ CallbackAccepts(q)
    /\ q.code # None
    /\ Proceed(q, [handler |-> q.handler, at |-> "exchange", upstream |-> q.upstream,
                   state |-> q.state, code |-> q.code,
                   upstreamAt |-> q.upstreamAt, relayAt |-> Present])
    /\ UNCHANGED <<log, flows, consents, notices, codes, releases>>

\* Outside: what issuer i answers to a code and a verifier.  It may refuse any
\* request; it grants tokens only for its own code and the right verifier.
Answers(i, code, flow) ==
    {[issuer |-> i, flow |-> None, claims |-> FALSE]}
      \cup (IF code.issuer = i /\ code.flow = flow
            THEN {[issuer |-> i, flow |-> flow, claims |-> code.claims]} ELSE {})

\* callback seals the upstream's answer, whatever its status, into a code and
\* redirects the browser to the application.
CallbackSeals(q, id, response) ==
    /\ response \in Answers(UpstreamIn(q.upstreamAt, q.upstream).issuer, q.code, q.state.id)
    /\ \A c \in codes : c.id # id
    /\ codes' = codes \cup
         {[id |-> id, relay |-> q.state.relay, uri |-> q.state.uri,
           challenge |-> q.state.challenge, response |-> response,
           flow |-> q.state.id, relayAt |-> q.relayAt, upstreamAt |-> q.upstreamAt]}
    /\ Finish(q)
    /\ UNCHANGED <<log, flows, consents, notices, releases>>

\* dispatch, for token: any code at any relay's path.
TokenArrives(h, r, code, uri, verifier, secret) ==
    /\ Idle(h)
    /\ r \in DOMAIN log[Present].relays
    /\ Arrive([handler |-> h, at |-> "token", relay |-> r, code |-> code, uri |-> uri,
               verifier |-> verifier, secret |-> secret, relayAt |-> Present])
    /\ UNCHANGED <<log, flows, consents, notices, codes, releases>>

\* authenticate
Authenticated(relay, upstream, secret) ==
    CASE relay.auth = "Public"         -> secret = None
      [] relay.auth = "UpstreamClient" -> secret = upstream.secret
      [] relay.auth = "ClientSecret"   -> secret = relay.secret

\* PKCE guards that only look at what is there: a challenge with no relay to
\* insist on it, and a verifier only if one is sent.
BoundIfChallenged(relay, code, uri, verifier) ==
    /\ uri = code.uri
    /\ code.challenge # None => verifier = code.challenge
BoundIfVerified(relay, code, uri, verifier) ==
    /\ uri = code.uri
    /\ verifier # None => verifier = code.challenge
    /\ code.challenge = None => relay.auth # "Public"

\* The redirect_uri and PKCE guards of exchange_sealed_code.
Bound(relay, code, uri, verifier) ==
    /\ uri = code.uri
    /\ IF code.challenge # None THEN verifier = code.challenge
       ELSE relay.auth # "Public"

\* dispatch resolves the upstream, the client is authenticated, the code is
\* unsealed and its bindings are checked, up to the validation of claims.
TokenChecks(q) ==
    LET relay == RelayIn(q.relayAt, q.relay)
    IN  /\ relay.upstream \in DOMAIN log[Present].upstreams
        /\ Authenticated(relay, UpstreamIn(Present, relay.upstream), q.secret)
        /\ q.code.relay = q.relay
        /\ Bound(relay, q.code, q.uri, q.verifier)
        /\ Proceed(q, [handler |-> q.handler, at |-> "validate", relay |-> q.relay,
                       code |-> q.code, uri |-> q.uri, verifier |-> q.verifier,
                       relayAt |-> q.relayAt, upstreamAt |-> Present])
        /\ UNCHANGED <<log, flows, consents, notices, codes, releases>>

\* A validation with the keys and claims of whichever issuer signed.
ClaimsHoldOfAnyIssuer(q) ==
    RelayIn(q.relayAt, q.relay).claims /\ q.code.response.flow # None
      => q.code.response.claims

\* validate_required_id_token_claims gives Ok.
ClaimsHold(q) ==
    LET relay == RelayIn(q.relayAt, q.relay)
        upstream == UpstreamIn(q.upstreamAt, relay.upstream)
    IN  \/ ~relay.claims
        \/ q.code.response.flow = None
        \/ q.code.response.issuer = upstream.issuer /\ q.code.response.claims

\* The stored response is released.  (A Rejected validation answers an error
\* instead; that it consumes the code, and an Unavailable one does not, is in
\* module Redemption, like the replay cache that may refuse this request.)
TokenReleases(q) ==
    /\ ClaimsHold(q)
    /\ releases' = releases \cup
         {[code |-> q.code, relay |-> q.relay, uri |-> q.uri, verifier |-> q.verifier,
           relayAt |-> q.relayAt, upstreamAt |-> q.upstreamAt]}
    /\ Finish(q)
    /\ UNCHANGED <<log, flows, consents, notices, codes>>

\* A request ends with an error answer (a check above that fails, an envelope
\* that has expired, a network failure) or because its client hangs up.
Stops(q) ==
    /\ Finish(q)
    /\ UNCHANGED <<log, flows, consents, notices, codes, releases>>

Next ==
    \/ \E s \in Snapshots : Replace(s)
    \/ \E h \in Handlers, r \in Relays, uri \in Uris, challenge \in Challenges :
          AuthorizeArrives(h, r, uri, challenge)
    \/ \E q \in At("authorize") : AuthorizeChecks(q)
    \/ \E q \in At("forward"), id \in FlowIds : AuthorizeForwards(q, id)
    \/ \E f \in flows, claims \in BOOLEAN : UserConsents(f, claims)
    \/ \E h \in Handlers, u \in Upstreams, f \in flows, code \in consents \cup {None} :
          CallbackArrives(h, u, f, code)
    \/ \E q \in At("callback") : CallbackNotifies(q)
    \/ \E q \in At("callback") : CallbackPosts(q)
    \/ \E q \in At("exchange"), id \in CodeIds :
          \E response \in Answers(UpstreamIn(q.upstreamAt, q.upstream).issuer,
                                  q.code, q.state.id) :
             CallbackSeals(q, id, response)
    \/ \E h \in Handlers, r \in Relays, code \in codes, uri \in Uris,
          verifier \in Challenges, secret \in Secrets \cup {None} :
          TokenArrives(h, r, code, uri, verifier, secret)
    \/ \E q \in At("token") : TokenChecks(q)
    \/ \E q \in At("validate") : TokenReleases(q)
    \/ \E q \in inflight : Stops(q)

Spec == Init /\ [][Next]_vars

-----------------------------------------------------------------------------
\* A redirect to an application, with a code or with an error, goes to a URI
\* that the relay's policy permitted when the flow began and permitted again
\* at some moment after the callback arrived: a URI withdrawn while the user
\* was signing in gets nothing.
RedirectsPermitted ==
    /\ \A c \in codes :
         /\ c.uri \in RelayIn(c.relayAt, c.relay).redirects
         /\ c.upstreamAt <= c.relayAt
         /\ \E f \in flows : f.id = c.flow /\ f.uri = c.uri
                            /\ f.uri \in RelayIn(f.relayAt, c.relay).redirects
    /\ \A n \in notices :
         /\ n.uri \in RelayIn(n.relayAt, n.relay).redirects
         /\ \E f \in flows : f.id = n.flow /\ f.uri = n.uri
                            /\ f.uri \in RelayIn(f.relayAt, n.relay).redirects

\* No mix-up of upstreams: the relay of a code was bound to one and the same
\* upstream when its flow began and when its callback was handled, the answer
\* in the code is from the issuer that upstream stood for as the callback
\* arrived, and if it holds tokens they are those of the sign-in that this
\* very flow began, at the issuer it sent the user to.
UpstreamsAgree ==
    \A c \in codes : \E f \in flows :
        /\ f.id = c.flow
        /\ RelayIn(f.relayAt, f.relay).upstream = f.upstream
        /\ RelayIn(c.relayAt, c.relay).upstream = f.upstream
        /\ c.response.issuer = UpstreamIn(c.upstreamAt, f.upstream).issuer
        /\ c.response.flow # None =>
             /\ c.response.flow = f.id
             /\ c.response.issuer = f.issuer

\* A relay that is Public when a code is redeemed releases nothing without the
\* verifier of the challenge the flow began with, even if the relay was
\* confidential then and no challenge was required.
PublicNeedsVerifier ==
    \A r \in releases :
        RelayIn(r.relayAt, r.relay).auth = "Public" =>
            \E f \in flows : /\ f.id = r.code.flow
                             /\ f.challenge # None
                             /\ r.verifier = f.challenge

\* A relay that requires claims when a code is redeemed releases tokens only of
\* a user who has them, signed by the issuer its upstream stands for at the
\* time of the redemption, whichever upstream the code was obtained from.
ClaimsOfBoundUpstream ==
    \A r \in releases :
        LET relay == RelayIn(r.relayAt, r.relay)
        IN  relay.claims /\ r.code.response.flow # None =>
              \E c \in consents :
                 /\ c.flow = r.code.flow
                 /\ c.claims
                 /\ c.issuer = UpstreamIn(r.upstreamAt, relay.upstream).issuer

-----------------------------------------------------------------------------
\* The table an authorization server would have kept, read off the envelopes.
Table == INSTANCE CodeGrant
    WITH Sessions <- FlowIds, Codes <- CodeIds, NoVerifier <- None, Refused <- None,
         asked    <- {[session |-> f.id, relay |-> f.relay, uri |-> f.uri,
                       challenge |-> f.challenge] : f \in flows},
         granted  <- {[code |-> c.id, session |-> c.flow, tokens |-> c.response.flow]
                        : c \in codes},
         released <- {[code |-> r.code.id, relay |-> r.relay, uri |-> r.uri,
                       verifier |-> r.verifier] : r \in releases}

\* With nothing but sealed envelopes the relay does what a server with a table
\* would: a code is only for a session that was asked for, carries only its
\* tokens, and is redeemed only at the relay, with the redirect URI and with
\* the answer to the challenge of the session's own authorize request.
ImplementsCodeGrant == Table!Spec
=============================================================================
