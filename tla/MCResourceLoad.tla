----------------------------- MODULE MCResourceLoad ---------------------------
(***************************************************************************)
(* An instance of ResourceLoad for TLC.                                    *)
(***************************************************************************)
EXTENDS ResourceLoad

CONSTANTS s1, v1

\* At first, an upstream and a relay that share a secret, and a public relay.
SharedSecret ==
    [x \in Parameters |->
        CASE x = <<"upstreams", 1>> -> [secret |-> s1]
          [] x = <<"relays", 1>>    -> [upstream |-> 1, secret |-> s1]
          [] x = <<"relays", 2>>    -> [upstream |-> 1, secret |-> NoSecret]
          [] OTHER                  -> Absent]

FirstSecret == [s \in Sources |-> v1]
=============================================================================
