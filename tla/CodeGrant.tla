----------------------------- MODULE CodeGrant ------------------------------
(***************************************************************************)
(* The authorization code flow an application expects of a relay, as if    *)
(* the relay were an authorization server that keeps a table of what it    *)
(* was asked for and what it granted.  oauthrelay keeps no such table: the *)
(* rows travel through browsers inside sealed envelopes (module RelayFlow).*)
(***************************************************************************)
EXTENDS Naturals

CONSTANTS Sessions,   \* one for every authorization an application asked for
          Codes,      \* relay authorization codes
          Relays, Uris, Verifiers,
          NoVerifier, \* no PKCE challenge, or no verifier
          Refused     \* the upstream's answer when it grants no tokens

VARIABLES asked,      \* what applications asked for
          granted,    \* codes handed out, each for one session
          released    \* token responses handed out

\* A session is asked for: where its code may go, and the challenge that
\* whoever redeems the code must answer.
Ask(s, relay, uri, challenge) ==
    /\ \A a \in asked : a.session # s
    /\ asked' = asked \cup
         {[session |-> s, relay |-> relay, uri |-> uri, challenge |-> challenge]}
    /\ UNCHANGED <<granted, released>>

\* A code is granted for a session that was asked for, and carries tokens of
\* that session or a refusal.
Grant(code, s, tokens) ==
    /\ \A g \in granted : g.code # code
    /\ \E a \in asked : a.session = s
    /\ tokens \in {s, Refused}
    /\ granted' = granted \cup {[code |-> code, session |-> s, tokens |-> tokens]}
    /\ UNCHANGED <<asked, released>>

\* Tokens are released at the relay that was asked, against the redirect URI
\* that was asked for and the answer to its challenge.
Release(code, relay, uri, verifier) ==
    /\ \E g \in granted, a \in asked :
         /\ g.code = code
         /\ a.session = g.session
         /\ a.relay = relay
         /\ a.uri = uri
         /\ a.challenge # NoVerifier => verifier = a.challenge
    /\ released' = released \cup
         {[code |-> code, relay |-> relay, uri |-> uri, verifier |-> verifier]}
    /\ UNCHANGED <<asked, granted>>

Init == asked = {} /\ granted = {} /\ released = {}

Next ==
    \/ \E s \in Sessions, relay \in Relays, uri \in Uris,
          challenge \in Verifiers \cup {NoVerifier} : Ask(s, relay, uri, challenge)
    \/ \E code \in Codes, s \in Sessions, tokens \in Sessions \cup {Refused} :
          Grant(code, s, tokens)
    \/ \E code \in Codes, relay \in Relays, uri \in Uris,
          verifier \in Verifiers \cup {NoVerifier} : Release(code, relay, uri, verifier)

Spec == Init /\ [][Next]_<<asked, granted, released>>
=============================================================================
