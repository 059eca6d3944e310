----------------------------- MODULE MCRelayFlow ----------------------------
(***************************************************************************)
(* Instances of RelayFlow for TLC.                                         *)
(***************************************************************************)
EXTENDS RelayFlow, TLC

CONSTANTS r1, r2, u1, u2, i1, i2, a1, a2, s1, s2

Relay(u, auth, secret, redirects, claims) ==
    [upstream |-> u, auth |-> auth, secret |-> secret, redirects |-> redirects,
     claims |-> claims]
At1(s) == [issuer |-> i1, secret |-> s]
At2(s) == [issuer |-> i2, secret |-> s]

\* Two relays of one upstream.
Start == [relays    |-> r1 :> Relay(u1, "ClientSecret", s1, {a1}, FALSE)
                     @@ r2 :> Relay(u1, "Public", s1, {a1, a2}, FALSE),
          upstreams |-> u1 :> At1(s1) @@ u2 :> At2(s2)]

\* r1 becomes public and requires claims; u1 now stands for the other issuer.
Moved == [relays    |-> r1 :> Relay(u1, "Public", s1, {a1, a2}, TRUE)
                     @@ r2 :> Relay(u2, "UpstreamClient", s1, {a2}, FALSE),
          upstreams |-> u1 :> At2(s2) @@ u2 :> At2(s2)]

\* r1 is bound to another upstream, r2 is gone, and so is u1.
Gone == [relays    |-> r1 :> Relay(u2, "UpstreamClient", s1, {a1}, TRUE),
         upstreams |-> u2 :> At1(s2)]

JustStart == {Start}
All == {Start, Moved, Gone}

Interchangeable == Permutations(FlowIds) \cup Permutations(CodeIds)
                     \cup Permutations(Handlers)
=============================================================================
