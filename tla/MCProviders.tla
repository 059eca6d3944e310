---------------------------- MODULE MCProviders -----------------------------
(***************************************************************************)
(* Instances of Providers for TLC.                                         *)
(***************************************************************************)
EXTENDS Providers, TLC

CONSTANTS u1, u2, r1, r2

\* A snapshot of provider p: upstream u is defined as <<p, u>>, so that the
\* provider it comes from can be told.
Config(p, ups, relays) == [upstreams |-> [u \in ups |-> <<p, u>>], relays |-> relays]

\* The file drops an upstream, is broken for a while (r1 refers to what is not
\* there), then comes back with a relay bound to another upstream; SSM defines
\* the same names and is broken when the server starts.
TwoProviders ==
    << << Config(1, {u1, u2}, r1 :> u1),
          Config(1, {u2}, r1 :> u1),
          Config(1, {u2}, r1 :> u2) >>,
       << Config(2, {u1}, r1 :> u2),
          Config(2, {u1, u2}, r1 :> u2 @@ r2 :> u1),
          Config(2, {u1}, r2 :> u1) >> >>
=============================================================================
