----------------------------- MODULE Parameters -----------------------------
(***************************************************************************)
(* The parameters of a flow, from the application through the relay to the *)
(* upstream and back: parse_authorize_request and authorize, the upstream, *)
(* parse_callback_request and callback; and of a refresh through           *)
(* parse_token_request, authenticate and refresh (router.rs).  The relay   *)
(* owns some parameters of each hop, takes some for itself and forwards    *)
(* the rest as they are.  With them the URLs a flow goes through: those    *)
(* discovery publishes and the callback authorize gives the upstream       *)
(* (Routes).                                                               *)
(*                                                                         *)
(* A query or a form is a sequence of <<name, value>> pairs.  The URI a    *)
(* query is sent to may have one of its own, in the configuration, in the  *)
(* discovery document or in the request: that is kept as it is, and what   *)
(* the relay sends comes after it.  Everything about one flow that is not  *)
(* its parameters (other flows, configuration that changes, time) is in    *)
(* RelayFlow and Redemption.                                               *)
(***************************************************************************)
EXTENDS Routes

CONSTANTS Relays,          \* relay configurations
          Upstream,        \* [id, secret] of the client the relay is at the upstream
          QueryOf,         \* QueryOf[uri]: the query a redirect URI has of its own
          Queries,         \* queries applications send to authorize
          Answers,         \* what an upstream adds to the state it returns
          Forms,           \* forms applications post to the token endpoint that are
                           \* not of the authorization_code grant
          Documents,       \* discovery documents of the upstream
          Paths,           \* paths below the public one that requests are made for
          ValidChallenges, \* values of the length and alphabet of an S256 challenge
          ValidTokens,     \* scope tokens within RFC 6749
          GoodAssertion,   \* a client assertion that verifies
          SealedState, OwnChallenge, SealedCode, \* the values the relay makes
          None,            \* an absent value
          Refusal          \* the request was answered with an error

IsSequence(q) == q \in Seq({q[i] : i \in DOMAIN q})

\* A relay: client_auth, the redirect URIs its policy accepts, its scopes and
\* allowed_scopes (None if unrestricted); where it is published, its key and its
\* upstream's, the upstream's configured endpoints and issuer, and the query the
\* authorization endpoint has of its own, wherever it is found.  A scope is a
\* sequence of tokens, the string split at its spaces.
ASSUME ParametersAssumption ==
    \A r \in Relays :
        /\ r.auth \in {"UpstreamClient", "Public", "ClientSecret", "PrivateKeyJwt"}
        /\ r.scopes \in Seq(ValidTokens)
        /\ IsSequence(r.endpointQuery)
        /\ \A uri \in r.redirects : IsSequence(QueryOf[uri])
        /\ r.allowed # None => \A i \in DOMAIN r.scopes : r.scopes[i] \in r.allowed
        /\ r.strategy \in {"SingleSegment", "TwoSegment"}
        /\ \A key \in {r.key, r.upstream} :
               IsSequence(key) /\ ValidKey(key) /\ Len(key) = KeyLength(r.strategy)
        /\ DOMAIN r.configured = {"authorization_endpoint", "token_endpoint", "jwks_uri"}
        /\ IsSequence(r.public) /\ ~Dotted(r.public)

VARIABLES relay,   \* the relay in use
          flow,    \* the FlowEnvelope of the last authorization, or None
          last     \* the last request: its endpoint, what came in, the query that the
                   \* URI it is answered with had before, and what was appended to it

vars == <<relay, flow, last>>

-----------------------------------------------------------------------------
Given(q, name) == \E i \in DOMAIN q : q[i][1] = name
Value(q, name) ==
    IF Given(q, name) THEN q[CHOOSE i \in DOMAIN q : q[i][1] = name][2] ELSE None

NoneTwice(q, names) ==
    \A i, j \in DOMAIN q : q[i][1] = q[j][1] /\ q[i][1] \in names => i = j

\* Those of other names, in their order.
Without(q, names) ==
    LET kept[n \in 0..Len(q)] ==
          IF n = 0 THEN << >>
          ELSE IF q[n][1] \in names THEN kept[n - 1] ELSE Append(kept[n - 1], q[n])
    IN  kept[Len(q)]

\* parse_authorize_request.
\* Mutant: parameters that are forwarded may be repeated.
AuthorizeSingletonsOwn ==
    {"redirect_uri", "state", "client_id", "response_type", "response_mode",
     "code_challenge", "code_challenge_method", "scope", "request", "request_uri"}

AuthorizeSingletons ==
    {"redirect_uri", "state", "client_id", "response_type", "response_mode",
     "code_challenge", "code_challenge_method", "scope", "nonce", "prompt", "login_hint",
     "request", "request_uri"}

AuthorizeParses(q) ==
    /\ NoneTwice(q, AuthorizeSingletons)
    /\ Value(q, "response_type") \in {"code", None}
    /\ Value(q, "response_mode") \in {"query", None}
    /\ ~Given(q, "request") /\ ~Given(q, "request_uri")

\* Mutant: the application's client_id goes along.
ForwardedWithClientId(q) ==
    Without(q, {"redirect_uri", "state", "response_type", "code_challenge",
                "code_challenge_method", "scope"})

\* Mutant: the nonce is taken into the envelope but not forwarded.
ForwardedWithoutNonce(q) ==
    Without(q, {"redirect_uri", "state", "client_id", "response_type", "code_challenge",
                "code_challenge_method", "scope", "nonce"})

ForwardedToUpstream(q) ==
    Without(q, {"redirect_uri", "state", "client_id", "response_type", "code_challenge",
                "code_challenge_method", "scope"})

ScopeAllowed(r, scope) ==
    \A i \in DOMAIN scope : /\ scope[i] \in ValidTokens
                            /\ r.allowed # None => scope[i] \in r.allowed

\* What authorize makes of the scope: the one asked for, or the relay's.
EffectiveScope(r, q) ==
    IF Given(q, "scope") THEN Value(q, "scope")
    ELSE IF r.scopes = <<>> THEN None ELSE r.scopes

\* Mutant: the form of the challenge is not checked.
AuthorizeAcceptsAnyChallenge(r, q) ==
    /\ AuthorizeParses(q)
    /\ Value(q, "redirect_uri") \in r.redirects
    /\ Value(q, "code_challenge_method") \in {"S256", None}
    /\ Given(q, "code_challenge_method") => Given(q, "code_challenge")
    /\ r.auth = "Public" => Given(q, "code_challenge")
    /\ Given(q, "scope") => ScopeAllowed(r, Value(q, "scope"))

AuthorizeAccepts(r, q) ==
    /\ AuthorizeParses(q)
    /\ Value(q, "redirect_uri") \in r.redirects
    /\ Value(q, "code_challenge_method") \in {"S256", None}
    /\ Given(q, "code_challenge_method") => Given(q, "code_challenge")
    /\ r.auth = "Public" => Given(q, "code_challenge")
    /\ Given(q, "code_challenge") => Value(q, "code_challenge") \in ValidChallenges
    /\ Given(q, "scope") => ScopeAllowed(r, Value(q, "scope"))

Optional(name, value) == IF value = None THEN <<>> ELSE << <<name, value>> >>

\* What authorize appends to the query of the authorization endpoint.
AuthorizationRequest(r, q) ==
    << <<"response_type", "code">>, <<"client_id", Upstream.id>>,
       <<"redirect_uri", CallbackUrl(r.public, r.upstream)>>, <<"state", SealedState>>,
       <<"code_challenge", OwnChallenge>>, <<"code_challenge_method", "S256">> >>
    \o Optional("scope", EffectiveScope(r, q))
    \o ForwardedToUpstream(q)

\* parse_callback_request.
CallbackParses(q) ==
    /\ NoneTwice(q, {"code", "state", "error"})
    /\ Given(q, "code") # Given(q, "error")
    /\ Given(q, "state")

\* Mutant: what came with the code goes along, the sealed state included.
ForwardedWithState(q) == Without(q, {"code"})

ForwardedToApplication(q) == Without(q, {"code", "state"})

\* What callback appends to the query of the application's redirect URI.
ApplicationResult(f, q) ==
    (IF Given(q, "error") THEN <<>> ELSE << <<"code", SealedCode>> >>)
    \o ForwardedToApplication(q)
    \o Optional("state", f.appState)

\* parse_token_request.
TokenParses(q) ==
    /\ NoneTwice(q, {"grant_type", "code", "refresh_token", "redirect_uri", "client_id",
                     "client_secret", "code_verifier", "scope", "client_assertion_type",
                     "client_assertion"})
    /\ Given(q, "grant_type")

Authenticated(r, q) ==
    CASE r.auth = "UpstreamClient" -> /\ Value(q, "client_id") = Upstream.id
                                      /\ Value(q, "client_secret") = Upstream.secret
      [] r.auth = "Public" -> /\ ~Given(q, "client_secret")
                              /\ ~Given(q, "client_assertion_type")
                              /\ ~Given(q, "client_assertion")
      [] r.auth = "ClientSecret" -> /\ Value(q, "client_id") = r.id
                                    /\ Value(q, "client_secret") = r.secret
      [] r.auth = "PrivateKeyJwt" -> /\ Value(q, "client_assertion_type") = "jwt-bearer"
                                     /\ Value(q, "client_id") = r.id
                                     /\ Value(q, "client_assertion") = GoodAssertion

\* Mutant: the scope of a refresh is left to the upstream.
RefreshAcceptsAnyScope(r, q) ==
    /\ TokenParses(q) /\ Authenticated(r, q)
    /\ Value(q, "grant_type") = "refresh_token"
    /\ Given(q, "refresh_token")

RefreshAccepts(r, q) ==
    /\ TokenParses(q) /\ Authenticated(r, q)
    /\ Value(q, "grant_type") = "refresh_token"
    /\ Given(q, "refresh_token")
    /\ Given(q, "scope") => ScopeAllowed(r, Value(q, "scope"))

DownstreamCredentials ==
    {"client_id", "client_secret", "client_assertion_type", "client_assertion"}

RefreshForm(q) ==
    Without(q, DownstreamCredentials)
    \o << <<"client_id", Upstream.id>>, <<"client_secret", Upstream.secret>> >>

-----------------------------------------------------------------------------
\* What is sent for the relay alone: an application's own state and challenge, where
\* it wants its code, and how it authenticates; the upstream's code and the state
\* that was sealed for it.
ForTheRelay(endpoint) ==
    CASE endpoint = "authorize" -> {"redirect_uri", "state", "client_id", "code_challenge"}
      [] endpoint = "callback"  -> {"code", "state"}
      [] endpoint = "refresh"   -> DownstreamCredentials

\* Values tell what they are: one that is sent for the relay alone is sent under no
\* other name, and is none of those that the relay adds to what it sends on.
Telling(q, names, added) ==
    \A i \in DOMAIN q :
        q[i][1] \in names =>
            /\ \A value \in added : value # q[i][2]
            /\ \A j \in DOMAIN q : q[j][2] = q[i][2] => q[j][1] \in names

ASSUME ValuesAssumption ==
    /\ \A q \in Queries \cup Answers \cup Forms :
         IsSequence(q) /\ \A i \in DOMAIN q : q[i][2] # None
    /\ \A path \in Paths : IsSequence(path)
    /\ \A q \in Queries :
         /\ Telling(q, ForTheRelay("authorize"), {"code", "S256", SealedState, OwnChallenge})
         /\ Telling(q, ForTheRelay("authorize"), {r.scopes : r \in Relays})
         /\ Telling(q, ForTheRelay("authorize"),
                    {CallbackUrl(r.public, r.upstream) : r \in Relays})
    /\ \A q \in Forms : Telling(q, ForTheRelay("refresh"), {})
    /\ \A answer \in Answers :
         Telling(<< <<"state", SealedState>> >> \o answer, ForTheRelay("callback"),
                 {SealedCode} \cup {Value(q, "state") : q \in Queries})
    /\ None \notin {"code", "S256", SealedState, OwnChallenge, SealedCode}
    /\ None \notin {CallbackUrl(r.public, r.upstream) : r \in Relays}

-----------------------------------------------------------------------------
Init ==
    /\ relay \in Relays
    /\ flow = None
    /\ last = [at |-> "start", in |-> <<>>, own |-> <<>>, out |-> Refusal]

\* The answer is `out`, after the query `own` of the URI it goes to.
HandleAt(endpoint, in, own, out) ==
    last' = [at |-> endpoint, in |-> in, own |-> own, out |-> out]
Handle(endpoint, in, out) == HandleAt(endpoint, in, <<>>, out)

Authorize(q) ==
    /\ AuthorizeAccepts(relay, q)
    /\ HandleAt("authorize", q, relay.endpointQuery, AuthorizationRequest(relay, q))
    /\ flow' = [uri |-> Value(q, "redirect_uri"), appState |-> Value(q, "state"),
                challenge |-> Value(q, "code_challenge"), nonce |-> Value(q, "nonce")]
    /\ UNCHANGED relay

\* The user agent comes from the upstream with what the upstream added, where the
\* relay told the upstream to send it.
Return(answer) ==
    LET q == << <<"state", SealedState>> >> \o answer
        url == Value(last.out, "redirect_uri")
    IN
    /\ Dispatched(relay.public, url, relay.strategy)
         = [key |-> relay.upstream, endpoint |-> "callback"]
    /\ CallbackParses(q)
    /\ HandleAt("callback", q, QueryOf[flow.uri], ApplicationResult(flow, q))
    /\ UNCHANGED <<relay, flow>>

Refresh(q) ==
    /\ RefreshAccepts(relay, q)
    /\ Handle("refresh", q, RefreshForm(q))
    /\ UNCHANGED <<relay, flow>>

\* discovery.  The document is read if it is needed; one that is not an object
\* leaves the handler unwinding.
Discover(document) ==
    LET doc == IF NeedsDiscovery(relay.configured) THEN document ELSE << >> IN
    /\ Handle("discovery", doc,
              IF EndpointsKnown(relay.configured, doc) /\ doc # NoDocument
              THEN RelayMetadata(relay.public, relay.key, relay.configured,
                                 relay.issuer, doc)
              ELSE Refusal)
    /\ UNCHANGED <<relay, flow>>

Refuse(endpoint, q) ==
    /\ \/ endpoint = "authorize" /\ ~AuthorizeAccepts(relay, q)
       \/ endpoint = "refresh" /\ ~RefreshAccepts(relay, q)
    /\ Handle(endpoint, q, Refusal)
    /\ UNCHANGED <<relay, flow>>

Next ==
    \/ /\ last.at = "start"
       /\ \/ \E q \in Queries : Authorize(q) \/ Refuse("authorize", q)
          \/ \E q \in Forms : Refresh(q) \/ Refuse("refresh", q)
          \/ \E document \in Documents : Discover(document)
    \/ /\ last.at = "authorize" /\ flow # None
       /\ \E answer \in Answers : Return(answer)

Spec == Init /\ [][Next]_vars

-----------------------------------------------------------------------------
Sent(endpoint) == last.at = endpoint /\ last.out # Refusal
Forwarded == Sent("authorize") \/ Sent("callback") \/ Sent("refresh")
Values(q) == {q[i][2] : i \in DOMAIN q}
NamesIn(q) == {q[i][1] : i \in DOMAIN q}

\* All that the receiver is sent.
Message == last.own \o last.out

TypeOK ==
    /\ relay \in Relays
    /\ last.at \in {"start", "authorize", "callback", "refresh", "discovery"}
    /\ flow # None =>
         /\ flow.uri \in relay.redirects
         /\ flow.challenge \in ValidChallenges \cup {None}
         /\ relay.auth = "Public" => flow.challenge # None

\* The two halves of a flow do not mix.  Nothing an application sends for the
\* relay alone is passed on to the upstream, under any name, unless the relay asks
\* it for the upstream's own credentials; nor is the upstream's code or the state
\* sealed for it passed on to the application.  Whatever upstreams answer, what the
\* application's URI gets appended is either a code of the relay's or an error, and
\* the state the application gave to authorize, if it gave one.
HalvesStayApart ==
    /\ Sent("authorize") \/ Sent("refresh") =>
         {Value(last.in, name) : name \in ForTheRelay(last.at)} \cap Values(last.out)
             \subseteq {Upstream.id, Upstream.secret}
    /\ Sent("authorize") => flow.appState = Value(last.in, "state")
    /\ Sent("callback") =>
         /\ {Value(last.in, name) : name \in ForTheRelay(last.at)} \cap Values(last.out)
              \subseteq {None}
         /\ Given(last.out, "code") # Given(last.out, "error")
         /\ Value(last.out, "code") \in {SealedCode, None}
         /\ Value(last.out, "state") = flow.appState

\* The parameters that OAuth and OpenID Connect allow once, and the relay sends or
\* looks at, in an authorization request, its answer and a token request.
Singletons(endpoint) ==
    CASE endpoint = "authorize" ->
           {"response_type", "client_id", "redirect_uri", "state", "scope",
            "code_challenge", "code_challenge_method", "nonce", "prompt", "login_hint",
            "response_mode"}
      [] endpoint = "callback" -> {"code", "state", "error"}
      [] endpoint = "refresh" ->
           {"grant_type", "refresh_token", "scope", "code", "redirect_uri",
            "code_verifier"} \cup DownstreamCredentials

\* What the relay adds never collides with what it forwards: a message leaves the
\* receiver a choice between two values only for a parameter that the URI it is
\* sent to had before, and then not between two of the relay's.
Unambiguous ==
    Forwarded => /\ NoneTwice(last.out, Singletons(last.at))
                 /\ NoneTwice(Message, Singletons(last.at) \ NamesIn(last.own))

\* Extensions pass through every hop, repeated ones included and in their order,
\* after those the URI had before, and the nonce with them, on which the ID token
\* will be checked; but no scope outside allowed_scopes, asked for, by default or on
\* refresh, is passed on to the upstream by a relay that has them.
ExtensionsPreserved ==
    LET Extensions(q) == Without(q, Singletons(last.at) \ {"nonce", "prompt"}) IN
    /\ Forwarded => Extensions(Message) = Extensions(last.own) \o Extensions(last.in)
    /\ Sent("authorize") => Value(last.out, "nonce") = flow.nonce
    /\ Sent("authorize") \/ Sent("refresh") =>
         \A i \in DOMAIN last.out :
             last.out[i][1] = "scope" /\ relay.allowed # None =>
                 \A j \in DOMAIN last.out[i][2] : last.out[i][2][j] \in relay.allowed

\* What a request for a URL is about.
About(url) == Dispatched(relay.public, url, relay.strategy)

\* A URL given out leads to the endpoint it was given out for; only where a name
\* is made of dots may it lead elsewhere, and then nowhere.
LeadsTo(url, key, endpoint) ==
    About(url) \in {[key |-> key, endpoint |-> endpoint]}
                     \cup (IF Dotted(key) THEN {NoValue} ELSE {})

\* Names and URLs correspond, whatever resources are called and wherever the
\* relay is published: the callback given to upstreams and the endpoints given to
\* applications lead back to the resources they were made for, and no path but an
\* endpoint's own (and its spellings with more slashes at the ends) leads there.
LinksLeadBack ==
    /\ Sent("authorize") =>
         LeadsTo(Value(last.out, "redirect_uri"), relay.upstream, "callback")
    /\ Sent("discovery") =>
         /\ LeadsTo(last.out["authorization_endpoint"], relay.key, "authorize")
         /\ LeadsTo(last.out["token_endpoint"], relay.key, "token")
    /\ last.at = "start" =>
         \A path \in Paths :
             LET found == ParsePath(path, relay.strategy) IN
             found # NoValue =>
                 WithoutEmptyEnds(path) =
                     (IF found.endpoint = "callback" THEN <<"upstream">> ELSE <<"relay">>)
                     \o found.key
                     \o (IF found.endpoint = "discovery" THEN DiscoveryTail
                         ELSE <<found.endpoint>>)
=============================================================================
