---------------------------- MODULE MCJwtChecks -----------------------------
(***************************************************************************)
(* An instance of JwtChecks for TLC.                                       *)
(***************************************************************************)
EXTENDS JwtChecks

RelayFor(path, nonce) ==
    [use |-> "id_token", path |-> path, nonce |-> nonce, required |-> TRUE]

\* A tenant's issuer, with and without a nonce; issuers that are a host, with and
\* without the slash; a relay that requires nothing; one whose client signs.
Relays == {RelayFor("/t", TRUE), RelayFor("", FALSE), RelayFor("/", TRUE),
           [use |-> "id_token", path |-> "/t", nonce |-> TRUE, required |-> FALSE],
           [use |-> "assertion", path |-> "/t", nonce |-> FALSE, required |-> FALSE]}
=============================================================================
