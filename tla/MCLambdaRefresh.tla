-------------------------- MODULE MCLambdaRefresh ---------------------------
(***************************************************************************)
(* An instance of LambdaRefresh for TLC.                                   *)
(***************************************************************************)
EXTENDS LambdaRefresh, TLC

CONSTANTS u, r

\* A snapshot of provider p that defines upstream u, and relay r or not.
Config(p, v, relays) == [upstreams |-> u :> <<p, v>>, relays |-> relays]

\* The file comes to bind r to an upstream it does not define; SSM defines the
\* same upstream, and comes to define r.
FileAndSsm == << << Config(1, 1, << >>), Config(1, 2, r :> r) >>,
                 << Config(2, 1, << >>), Config(2, 2, r :> u) >> >>

\* The clock is put back by one tick, or forth by one.
BackAndForth == {-1, 1}
=============================================================================
