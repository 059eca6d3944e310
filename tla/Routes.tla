------------------------------- MODULE Routes -------------------------------
(***************************************************************************)
(* Names of resources, the paths of the endpoints and the URLs that the    *)
(* relay gives out for them (router.rs parse_path, relay_base_url,         *)
(* callback_url; model.rs ResourceKey), and what it makes of an upstream's *)
(* discovery document.                                                     *)
(*                                                                         *)
(* A path is a sequence of segments; a leading or trailing slash is an     *)
(* empty segment.  A document is a function from the names of its fields.  *)
(***************************************************************************)
EXTENDS Naturals, Sequences, FiniteSetsExt

CONSTANTS BadSegments,  \* segments with a byte that ResourceKey does not allow
          NoValue,      \* no such field, no such endpoint, nothing that was meant
          NoDocument    \* JSON that is not an object

\* ResourceKey::new.
ValidKey(key) == key # << >> /\ \A i \in DOMAIN key : key[i] \notin BadSegments \cup {""}

\* trim_matches('/').
Filled(path) == {i \in DOMAIN path : path[i] # ""}
WithoutEmptyEnds(path) ==
    IF Filled(path) = {} THEN << >>
    ELSE SubSeq(path, Min(Filled(path)), Max(Filled(path)))

\* KeyStrategy: how many segments a key has.
KeyLength(strategy) == IF strategy = "SingleSegment" THEN 1 ELSE 2

DiscoveryTail == <<".well-known", "openid-configuration">>
RelayEndpoints == {"authorize", "token", "jwks"}

EndsInDiscovery(segments) ==
    Len(segments) > 2 /\ SubSeq(segments, Len(segments) - 1, Len(segments)) = DiscoveryTail

\* The key before a tail of n segments, and the endpoint, unless it is no key.
Route(segments, n, endpoint, strategy) ==
    LET key == SubSeq(segments, 2, Len(segments) - n)
    IN  IF Len(key) = KeyLength(strategy) /\ ValidKey(key)
        THEN [key |-> key, endpoint |-> endpoint] ELSE NoValue

\* parse_path of what follows the public path.
ParsePath(path, strategy) ==
    LET segments == WithoutEmptyEnds(path)
        tail == IF segments = << >> THEN "" ELSE segments[Len(segments)]
        OfUpstream == Len(segments) > 1 /\ segments[1] = "upstream"
        OfRelay == Len(segments) > 1 /\ segments[1] = "relay"
    IN  CASE OfUpstream /\ tail = "callback" -> Route(segments, 1, "callback", strategy)
          [] OfRelay /\ EndsInDiscovery(segments) ->
               Route(segments, 2, "discovery", strategy)
          [] OfRelay /\ tail \in RelayEndpoints -> Route(segments, 1, tail, strategy)
          [] OTHER -> NoValue

\* Url::set_path, external: dot segments are resolved, at most back to the root.
Reached(done, segment) ==
    CASE segment = "."  -> done
      [] segment = ".." -> IF done = << >> THEN done ELSE SubSeq(done, 1, Len(done) - 1)
      [] OTHER          -> Append(done, segment)
WithoutDots(path) ==
    LET reached[n \in 0..Len(path)] ==
          IF n = 0 THEN << >> ELSE Reached(reached[n - 1], path[n])
    IN  reached[Len(path)]
Dotted(key) == \E i \in DOMAIN key : key[i] \in {".", ".."}

\* relay_base_url, with an endpoint joined to it (token_url, and in discovery).
RelayUrl(public, key, endpoint) == Append(WithoutDots(public \o <<"relay">> \o key), endpoint)

\* A base without the path the relay is published under.
CallbackUrlAtRoot(public, key) == WithoutDots(<<"upstream">> \o key \o <<"callback">>)

\* callback_url.
CallbackUrl(public, key) == WithoutDots(public \o <<"upstream">> \o key \o <<"callback">>)

\* router, with public_route_pattern: what a request for a URL is about, if anything.
Dispatched(public, url, strategy) ==
    IF Len(public) <= Len(url) /\ SubSeq(url, 1, Len(public)) = public
    THEN ParsePath(SubSeq(url, Len(public) + 1, Len(url)), strategy)
    ELSE NoValue

-----------------------------------------------------------------------------
\* url_field: a field that holds a URL.
Field(document, name) ==
    IF document # NoDocument /\ name \in DOMAIN document THEN document[name] ELSE NoValue

\* An upstream's endpoint: what is configured, or what its document says.
Resolved(configured, document, name) ==
    IF configured[name] # NoValue THEN configured[name] ELSE Field(document, name)

\* needs_endpoint_discovery.
NeedsDiscovery(configured) == \E name \in DOMAIN configured : configured[name] = NoValue

\* resolve_jwks_uri: where the relay takes the keys of ID tokens, and of its jwks
\* endpoint.
KeysUrl(configured, document) == Resolved(configured, document, "jwks_uri")

\* resolve_endpoints_from_doc: both endpoints are known.
EndpointsKnown(configured, document) ==
    \A name \in {"authorization_endpoint", "token_endpoint"} :
        Resolved(configured, document, name) # NoValue

\* discovery: the document as it is given out for a relay, with the relay's own
\* endpoints and the upstream's keys.
RelayMetadata(public, key, configured, issuer, document) ==
    LET own == [authorization_endpoint |-> RelayUrl(public, key, "authorize"),
                token_endpoint         |-> RelayUrl(public, key, "token"),
                issuer |-> IF Field(document, "issuer") = NoValue THEN issuer
                           ELSE document["issuer"],
                jwks_uri |-> KeysUrl(configured, document)]
        names == (DOMAIN document \cup DOMAIN own)
                   \ {name \in {"jwks_uri"} : own.jwks_uri = NoValue}
    IN  [name \in names |-> IF name \in DOMAIN own THEN own[name] ELSE document[name]]
=============================================================================
