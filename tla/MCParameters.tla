---------------------------- MODULE MCParameters ----------------------------
(***************************************************************************)
(* Parameters for a relay of each client authentication, with queries,     *)
(* answers and forms of every combination of a few parameters, repeated    *)
(* ones and those the parsers refuse included, and with names, paths and   *)
(* discovery documents of every shape.  Redirect URIs and authorization    *)
(* endpoints have queries of their own, some with parameters of the flow.  *)
(***************************************************************************)
EXTENDS Parameters, TLC

CONSTANTS none

AtMost(n, pairs) == UNION {[1..k -> pairs] : k \in 0..n}

\* Redirect URIs and the queries they have of their own.
MCQueryOf ==
    ("app" :> <<>>) @@ ("app?code&state" :> <<<<"code", "x">>, <<"state", "y">>>>)
    @@ ("app?resource" :> <<<<"resource", "r2">>, <<"resource", "r1">>>>)

\* A relay of a key strategy, published under a path, and its upstream, whose
\* authorization endpoint has a query.
OneRelay(auth, scopes, allowed, public, strategy, key, upstream, configured, query) ==
    [auth |-> auth, redirects |-> DOMAIN MCQueryOf, scopes |-> scopes, allowed |-> allowed,
     endpointQuery |-> query, id |-> "relay-client", secret |-> "relay-secret",
     public |-> public, strategy |-> strategy, key |-> key, upstream |-> upstream,
     configured |-> configured, issuer |-> <<"op">>]

MCUpstream == [id |-> "upstream-client", secret |-> "upstream-secret"]

\* How much of the upstream's endpoints is configured.
Endpoints(names) ==
    [name \in {"authorization_endpoint", "token_endpoint", "jwks_uri"} |->
        IF name \in names THEN <<"op", name>> ELSE none]
Everything == Endpoints({"authorization_endpoint", "token_endpoint", "jwks_uri"})
ButKeys == Endpoints({"authorization_endpoint", "token_endpoint"})
KeysAlone == Endpoints({"jwks_uri"})

\* Names that are also words of the paths, and names that a URL loses.
MCRelays ==
    {OneRelay("UpstreamClient", <<>>, none, <<>>, "SingleSegment",
              <<"token">>, <<"callback">>, Endpoints({}), <<>>),
     OneRelay("Public", <<"openid">>, none, <<"auth">>, "SingleSegment",
              <<"relay">>, <<"upstream">>, ButKeys, <<<<"resource", "r1">>>>),
     OneRelay("ClientSecret", <<"openid">>, {"openid"}, <<"auth", "relay">>, "TwoSegment",
              <<"a", ".well-known">>, <<"upstream", "callback">>, KeysAlone,
              <<<<"state", "fixed">>, <<"nonce", "m">>>>),
     OneRelay("PrivateKeyJwt", <<>>, {"openid", "email"}, <<"relay">>, "TwoSegment",
              <<"..", "relay">>, <<"..", "upstream">>, Everything,
              <<<<"scope", <<"openid">>>>, <<"scope", <<"email">>>>>>),
     OneRelay("Public", <<>>, {"openid"}, <<"upstream">>, "SingleSegment",
              <<".">>, <<"..">>, ButKeys, <<>>)}

MCDocuments ==
    LET names == {"authorization_endpoint", "token_endpoint", "jwks_uri", "issuer",
                  "scopes_supported"}
    IN  {NoDocument} \cup
        UNION {[given -> {<<"op", "published">>, none}] : given \in SUBSET names}

MCPaths ==
    AtMost(5, {"", "relay", "upstream", "callback", "token", ".well-known",
               "openid-configuration", "a", "a b", ".."})

MCQueries ==
    LET P == {<<"redirect_uri", "elsewhere">>, <<"state", "app-state">>,
              <<"client_id", "relay-client">>,
              <<"response_type", "code">>, <<"response_type", "token">>,
              <<"response_mode", "query">>, <<"response_mode", "fragment">>,
              <<"code_challenge", "short">>, <<"code_challenge_method", "S256">>,
              <<"code_challenge_method", "plain">>,
              <<"scope", <<"openid">>>>, <<"scope", <<"openid", "email">>>>,
              <<"scope", <<"">>>>,
              <<"nonce", "n">>, <<"prompt", "login">>, <<"request", "jwt">>,
              <<"client_secret", "relay-secret">>,
              <<"resource", "r1">>, <<"resource", "r2">>}
        To == <<"redirect_uri", "app">>
        Challenge == <<"code_challenge", "challenge">>
    IN  {<<To>> \o q : q \in AtMost(3, P)} \cup {<<Challenge, To>> \o q : q \in AtMost(2, P)}
        \cup {<<Challenge, <<"redirect_uri", uri>>>> \o q :
                 uri \in DOMAIN MCQueryOf, q \in AtMost(1, P)}
        \cup {q \o <<To>> : q \in AtMost(1, P)} \cup AtMost(1, P)

MCAnswers ==
    AtMost(3, {<<"code", "upstream-code">>, <<"error", "access_denied">>,
               <<"state", "other">>, <<"iss", "issuer">>, <<"resource", "r1">>,
               <<"resource", "r2">>})

MCForms ==
    LET P == {<<"scope", <<"openid">>>>, <<"scope", <<"openid", "email">>>>,
              <<"client_id", "relay-client">>, <<"client_id", "upstream-client">>,
              <<"client_secret", "relay-secret">>, <<"client_secret", "upstream-secret">>,
              <<"client_assertion_type", "jwt-bearer">>,
              <<"client_assertion", "good">>, <<"client_assertion", "bad">>,
              <<"state", "app-state">>,
              <<"resource", "r1">>, <<"resource", "r2">>}
        Grant == <<"grant_type", "refresh_token">>
        Held == <<"refresh_token", "rt">>
        Signed == <<<<"client_id", "relay-client">>, <<"client_assertion", "good">>,
                    <<"client_assertion_type", "jwt-bearer">>>>
    IN  {<<Grant, Held>> \o q : q \in AtMost(3, P)} \cup {<<Held>>, <<Grant>>}
        \cup {<<Grant, Held>> \o Signed \o q : q \in AtMost(2, P)}
        \cup {<<<<"grant_type", "password">>, Held>>}
=============================================================================
