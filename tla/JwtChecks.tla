------------------------------ MODULE JwtChecks ------------------------------
(***************************************************************************)
(* The two places where the relay believes a JSON web token: the ID token  *)
(* in an upstream's answer, whose claims a relay may require               *)
(* (validate_required_id_token_claims), and the assertion by which a       *)
(* client authenticates (verify_private_key_jwt).                          *)
(*                                                                         *)
(* Either is verified long after it was signed, against a key set that was *)
(* read earlier still: an ID token waits in a sealed code for as long as   *)
(* the code may, a key set in the cache for its TTL.  Meanwhile the signer *)
(* publishes new keys and withdraws old ones.                              *)
(*                                                                         *)
(* A token is a record of what is true of it - who signed it, at whose     *)
(* request, when - and of how its signer writes that down.  The claims are *)
(* derived from the record, the checks see nothing but claims, and the     *)
(* properties compare what the checks decide with what is true.            *)
(*                                                                         *)
(* Signatures are perfect: a key verifies what was signed with it.  The    *)
(* jsonwebtoken crate is external; it compares exp and nbf with the time,  *)
(* give or take Leeway, iss with the one issuer it is told, and wants one  *)
(* of the audiences to be the one it is told.  Reading the key set is one  *)
(* step here; JsonCache is about calls that overlap.                       *)
(***************************************************************************)
EXTENDS Integers, FiniteSets, FiniteSetsExt

CONSTANTS Keys,       \* signing keys
          FirstKey,   \* the one that has been in use for long
          Setups,     \* the relays that are tried, see Setup
          Lives,      \* for how long a token may be valid
          Aheads,     \* how far ahead its signer's clock may be
          CodeTtl,    \* CODE_TTL
          JwksTtl,    \* JWKS_TTL
          IatSkew,    \* ID_TOKEN_CLOCK_SKEW
          Leeway,     \* the leeway of jsonwebtoken's Validation
          MaxClock,   \* bound: the last tick
          None,       \* no such claim
          Unread,     \* an answer that is not a success, or of which no claim is required
          Unusable    \* an answer without an ID token that could be decoded

Us == "us"            \* the client: the upstream's, that is the relay, or the relay's own
Clients == {Us, "other client"}

\* A relay, and what it has to do with: which of the two tokens it is about; the
\* path of the issuer's identifier, which the operator copies into issuerUrl;
\* whether the application sent a nonce; whether claims are required.
Setup == [use: {"id_token", "assertion"}, path: {"", "/", "/t", "/t/"},
          nonce: BOOLEAN, required: BOOLEAN]

ASSUME JwtAssumption ==
    /\ FirstKey \in Keys
    /\ Setups \subseteq Setup
    /\ Aheads \subseteq Nat /\ 0 \in Aheads
    /\ Lives \subseteq Nat \ {0}
    /\ \E longest \in Lives : \A life \in Lives : life <= longest
    /\ CodeTtl \in Nat /\ JwksTtl \in Nat \ {0} /\ IatSkew \in Nat /\ Leeway \in Nat
    /\ MaxClock \in Nat

VARIABLES setup,     \* the relay
          clock,     \* the present, in ticks
          since,     \* since when each key that is published has been
          gone,      \* when each key that was withdrawn was
          signing,   \* the key in use
          cache,     \* the key set in the relay's cache: what it is, when it was fetched
          jwt,       \* the token
          at,        \* where it is
          sealed,    \* when callback sealed the code it is in
          opened,    \* when the request that presents it came
          answer     \* what the relay said of it

signer == <<since, gone, signing>>
vars == <<setup, clock, signer, cache, jwt, at, sealed, opened, answer>>

-----------------------------------------------------------------------------
Long == -JwksTtl        \* a time that is long past
Published == DOMAIN since

\* An ID token.  `access` is the grant that the access token beside it belongs to;
\* kid, azp and at_hash say whether the issuer writes these claims at all.
IdToken == [tenant: {"ours", "another"}, client: Clients, grant: {"ours", "another"},
            member: BOOLEAN, access: {"ours", "another"},
            aud: (SUBSET Clients) \ {{}}, azp: BOOLEAN, at_hash: BOOLEAN,
            at: Nat, ahead: Aheads, life: Lives, key: Keys, kid: BOOLEAN]

\* A client assertion: who made it, for the token endpoints of which relays.
Assertion == [client: Clients, aud: SUBSET {"this relay", "another"},
              at: Nat, ahead: Aheads, life: Lives, key: Keys, kid: BOOLEAN]

\* What is not there is told from what is.
ASSUME AbsentAssumption ==
    /\ Unread # Unusable
    /\ None \notin {"ok", "rejected", "ours", "another"} \cup Clients
    /\ \A absent \in {None, Unread, Unusable} : absent \notin IdToken \cup Assertion

\* What the checks can see of it.
Iat(t) == t.at + t.ahead
Exp(t) == Iat(t) + t.life
Azp(t) == IF t.azp THEN t.client ELSE None
AtHash(t) == IF t.at_hash THEN t.grant ELSE None

\* The nonce of a grant is the one that was sent with its flow, if any.
Nonce(t) == IF t.grant = "ours" /\ ~setup.nonce THEN None ELSE t.grant
ExpectedNonce == IF setup.nonce THEN "ours" ELSE None

\* Url::parse, external: a URL has a path, if only "/".
ParsedPath(path) == IF path = "" THEN "/" ELSE path

\* The configured URL as it is printed.
IdentifierAsParsed(path) == ParsedPath(path)

\* issuer_identifier of the configured URL.
IssuerIdentifier(path) == IF ParsedPath(path) = "/" THEN "" ELSE ParsedPath(path)
Iss(t) == <<t.tenant, setup.path>>

TypeOK ==
    /\ setup \in Setups /\ clock \in 0..MaxClock
    /\ Published \subseteq Keys /\ DOMAIN gone \subseteq Keys /\ signing \in Published
    /\ \A k \in Published : since[k] \in Long..clock
    /\ \A k \in DOMAIN gone : gone[k] \in 0..clock
    /\ cache = None \/ cache \in [keys: SUBSET Keys, fetched: 0..clock]
    /\ jwt \in {None, Unread, Unusable}
         \/ jwt \in IF setup.use = "id_token" THEN IdToken ELSE Assertion
    /\ at \in {"nowhere", "answer", "held", "request", "judged"}
    /\ sealed \in 0..clock /\ opened \in 0..clock
    /\ answer \in {None, "ok", "rejected"}

Init ==
    /\ setup \in Setups
    /\ clock = 0
    /\ since = [k \in {FirstKey} |-> Long] /\ gone = << >> /\ signing = FirstKey
    /\ cache = None
    /\ jwt = None /\ at = "nowhere"
    /\ sealed = 0 /\ opened = 0
    /\ answer = None

-----------------------------------------------------------------------------
\* A behaviour is followed until its token is judged.
Going == at # "judged"

\* The signer, which is an issuer or a client's key server.

Publish(k) ==
    /\ Going
    /\ k \notin Published \cup DOMAIN gone
    /\ since' = [x \in Published \cup {k} |-> IF x = k THEN clock ELSE since[x]]
    /\ UNCHANGED <<setup, clock, gone, signing, cache, jwt, at, sealed, opened, answer>>

SwitchTo(k) ==
    /\ Going
    /\ k \in Published /\ since[k] > since[signing]
    /\ signing' = k
    /\ UNCHANGED <<setup, clock, since, gone, cache, jwt, at, sealed, opened, answer>>

Withdraw(k) ==
    /\ Going
    /\ k \in Published \ {signing}
    /\ since' = [x \in Published \ {k} |-> since[x]]
    /\ gone' = [x \in DOMAIN gone \cup {k} |-> IF x = k THEN clock ELSE gone[x]]
    /\ UNCHANGED <<setup, clock, signing, cache, jwt, at, sealed, opened, answer>>

\* Whether the signer says whom it signed for: an issuer leaves azp out if the
\* client that asked is the only audience, or if it knows no azp and more are.
Customary(client, aud, azp) == azp \/ aud = {client} \/ Cardinality(aud) > 1

Issue(token) ==
    /\ jwt' = token
    /\ UNCHANGED <<setup, clock, signer, cache, sealed, opened, answer>>

\* The upstream answers with what was asked for.
AnswerRight ==
    /\ at = "nowhere" /\ setup.use = "id_token" /\ setup.required
    /\ \E aud \in {{Us}, Clients}, azp, kid \in BOOLEAN, ahead \in Aheads, life \in Lives :
         /\ Customary(Us, aud, azp)
         /\ Issue([tenant |-> "ours", client |-> Us, grant |-> "ours", member |-> TRUE,
                   access |-> "ours", aud |-> aud, azp |-> azp, at_hash |-> TRUE,
                   at |-> clock, ahead |-> ahead, life |-> life,
                   key |-> signing, kid |-> kid])
    /\ at' = "answer"

\* It answers with something else: the ID token of another tenant that signs with the
\* same keys, of another client, of another flow with its access token or without, or
\* without the claims required.  The token is as good as it can be in time.
AnswerMixedUp ==
    /\ at = "nowhere" /\ setup.use = "id_token" /\ setup.required
    /\ \E wrong \in {"tenant", "client", "grant", "id token", "access token", "claims"},
          aud \in (SUBSET Clients) \ {{}}, azp, at_hash \in BOOLEAN :
         LET client == IF wrong = "client" THEN "other client" ELSE Us
             Whose(parts) == IF wrong \in parts THEN "another" ELSE "ours"
         IN  /\ Customary(client, aud, azp)
             /\ Issue([tenant |-> Whose({"tenant"}), client |-> client,
                       grant  |-> Whose({"grant", "id token"}),
                       access |-> Whose({"grant", "access token"}),
                       member |-> wrong # "claims",
                       aud |-> aud, azp |-> azp, at_hash |-> at_hash,
                       at |-> clock, ahead |-> 0, life |-> Max(Lives),
                       key |-> signing, kid |-> TRUE])
    /\ at' = "answer"

\* It refuses, or the relay requires nothing of its answer.
AnswerUnread ==
    /\ at = "nowhere" /\ setup.use = "id_token"
    /\ Issue(Unread)
    /\ at' = "answer"

\* It answers with something else than JSON, without an ID token, or with one whose
\* header does not decode or names an algorithm that is not allowed.
AnswerUnusable ==
    /\ at = "nowhere" /\ setup.use = "id_token" /\ setup.required
    /\ Issue(Unusable)
    /\ at' = "answer"

\* A client, ours or another one with which it shares its key set, makes an
\* assertion.
Assert ==
    /\ at = "nowhere" /\ setup.use = "assertion"
    /\ \E client \in Clients, aud \in SUBSET {"this relay", "another"}, kid \in BOOLEAN,
          ahead \in Aheads, life \in Lives :
         Issue([client |-> client, aud |-> aud, at |-> clock, ahead |-> ahead, life |-> life,
                key |-> signing, kid |-> kid])
    /\ at' = "held"

-----------------------------------------------------------------------------
\* The relay.

\* callback seals the answer into a code, when it has arrived.
Seal ==
    /\ at = "answer" /\ at' = "held"
    /\ sealed' = clock
    /\ UNCHANGED <<setup, clock, signer, cache, jwt, opened, answer>>

\* A token request with the code or the assertion, perhaps not the first one.  A
\* code must be fresh.
Present ==
    /\ at = "held" /\ at' = "request"
    /\ setup.use = "id_token" => clock - sealed <= CodeTtl
    /\ opened' = clock
    /\ UNCHANGED <<setup, clock, signer, cache, jwt, sealed, answer>>

\* cached_json: what is in the cache, as long as it is fresh.
Hit == cache # None /\ clock - cache.fetched < JwksTtl
KeySet == IF Hit THEN cache.keys ELSE Published

\* A cache that dates what it holds by when it expires.
FetchedUntil == [keys |-> Published, fetched |-> clock + JwksTtl]
Fetched == [keys |-> Published, fetched |-> clock]

\* A request of someone else reads the key set.
ReadByAnother ==
    /\ Going
    /\ ~Hit
    /\ cache' = Fetched
    /\ UNCHANGED <<setup, clock, signer, jwt, at, sealed, opened, answer>>

Undecided == at = "request" /\ jwt \notin {Unread, Unusable}

\* The key set cannot be had, or cannot be parsed, for it has a key of a kind that is
\* not known.  The code is not consumed; an assertion is refused, but is as good as
\* before.
KeysUnavailable ==
    /\ Undecided /\ at' = "held"
    /\ opened' = 0
    /\ UNCHANGED <<setup, clock, signer, cache, jwt, sealed, answer>>

\* A key of the set is chosen by the kid, or because it is the only one, and
\* verifies the signature.
Verifies(keys, t) == IF t.kid THEN t.key \in keys ELSE keys = {t.key}

NotExpired(t) == Exp(t) >= clock - Leeway
NotEarly(t) == Iat(t) <= clock + Leeway      \* nbf, which is taken to be iat

\* Whoever the token was asked for by: that we are among its audiences is enough.
AnyAuthorizedParty(t) == Azp(t) = None \/ Azp(t) \in Clients

valid_authorized_party(t) ==
    IF Azp(t) # None THEN Azp(t) = Us ELSE Cardinality(t.aud) <= 1

valid_access_token_hash(t) == AtHash(t) # None => AtHash(t) = t.access

\* validate_required_id_token_claims, after the signature.
IdTokenAccepted(t) ==
    /\ Iss(t) = <<"ours", IssuerIdentifier(setup.path)>>
    /\ Us \in t.aud
    /\ NotExpired(t) /\ NotEarly(t)
    /\ Iat(t) <= clock + IatSkew
    /\ ExpectedNonce # None => Nonce(t) = ExpectedNonce
    /\ valid_authorized_party(t)
    /\ valid_access_token_hash(t)
    /\ t.member

\* An assertion that is good at every relay.
AssertionAcceptedAnywhere(t) == NotExpired(t) /\ t.client = Us

\* verify_private_key_jwt, after the signature.
AssertionAccepted(t) ==
    /\ NotExpired(t)
    /\ t.client = Us
    /\ "this relay" \in t.aud

Accepted(t) ==
    IF setup.use = "id_token" THEN IdTokenAccepted(t) ELSE AssertionAccepted(t)

\* The key set is there and the token is judged.
Judge ==
    /\ Undecided /\ at' = "judged"
    /\ cache' = IF Hit THEN cache ELSE Fetched
    /\ answer' = IF Verifies(KeySet, jwt) /\ Accepted(jwt) THEN "ok" ELSE "rejected"
    /\ UNCHANGED <<setup, clock, signer, jwt, sealed, opened>>

\* There is nothing to ask a key set about.
JudgeAtOnce ==
    /\ at = "request" /\ jwt \in {Unread, Unusable} /\ at' = "judged"
    /\ answer' = IF jwt = Unread THEN "ok" ELSE "rejected"
    /\ UNCHANGED <<setup, clock, signer, cache, jwt, sealed, opened>>

Tick ==
    /\ Going
    /\ clock < MaxClock /\ clock' = clock + 1
    /\ UNCHANGED <<setup, signer, cache, jwt, at, sealed, opened, answer>>

Next ==
    \/ \E k \in Keys : Publish(k) \/ SwitchTo(k) \/ Withdraw(k)
    \/ AnswerRight
    \/ AnswerMixedUp
    \/ AnswerUnread
    \/ AnswerUnusable
    \/ Assert
    \/ Seal
    \/ Present
    \/ ReadByAnother
    \/ KeysUnavailable
    \/ Judge
    \/ JudgeAtOnce
    \/ Tick

Spec == Init /\ [][Next]_vars

-----------------------------------------------------------------------------
\* An ID token that was granted to us, in this flow, with the claims that are
\* required, beside its own access token.
Ours(t) ==
    /\ t.tenant = "ours" /\ t.client = Us /\ t.grant = "ours" /\ t.member
    /\ t.access = "ours"

\* What a signer must do so that its tokens are accepted as long as a code lives: a
\* key is published a TTL before it is used and until the codes with its tokens are
\* gone, and named if there are several ...
KeyLongEnough(t) ==
    /\ t.key \in Published /\ t.at - since[t.key] >= JwksTtl
    /\ t.kid

\* ... and the token is valid as long as a code, besides the time the answer took to
\* the relay, and the validation.
ValidLongEnough(t) ==
    t.ahead + t.life + Leeway >= (sealed - t.at) + CodeTtl + (clock - opened)

\* A sign-in is refused for good only for a reason that someone could name: the
\* issuer changes keys too fast, its tokens are too short-lived for a code, its clock
\* is ahead of ours by more than the skew allowed, it writes its identifier with a
\* slash that a URL cannot be without, or it names audiences but no azp.  A key set
\* that is old, or that could not be had for a while, is no reason.
RefusedForCause ==
    (setup.use = "id_token" /\ answer = "rejected" /\ jwt # Unusable /\ Ours(jwt)) =>
        \/ ~KeyLongEnough(jwt)
        \/ ~ValidLongEnough(jwt)
        \/ jwt.ahead > IatSkew \/ jwt.ahead > Leeway
        \/ setup.path = "/"
        \/ Cardinality(jwt.aud) > 1 /\ ~jwt.azp

\* Whatever the upstream mixes up, the token that is accepted was granted to us by
\* our issuer, with the claims required; in this flow if it had a nonce; and with the
\* access token beside it if it has a hash of one.  Its key was published within the
\* last TTL.
AcceptedIsOurs ==
    (setup.use = "id_token" /\ answer = "ok" /\ jwt # Unread) =>
        /\ jwt.tenant = "ours" /\ jwt.client = Us /\ jwt.member
        /\ setup.nonce => jwt.grant = "ours"
        /\ jwt.at_hash => jwt.access = jwt.grant
        /\ jwt.key \in Published \/ clock - gone[jwt.key] < JwksTtl

\* Whoever shares keys or a client with this relay's: what authenticates a client
\* here was made by it and for here, is not older than it says, and is of no use when
\* its key has been withdrawn for a TTL.  How often it is used is not limited.
AssertionForThisRelay ==
    (setup.use = "assertion" /\ answer = "ok") =>
        /\ jwt.client = Us /\ "this relay" \in jwt.aud
        /\ clock <= Exp(jwt) + Leeway
        /\ jwt.key \in Published \/ clock - gone[jwt.key] < JwksTtl
=============================================================================
