---------------------------- MODULE MCRedemption ----------------------------
(***************************************************************************)
(* Instances of Redemption for TLC.                                        *)
(***************************************************************************)
EXTENDS Redemption, TLC

CONSTANTS p1, p2

\* One process, its clock half a second off a whole second.
SkewOne == p1 :> 1

\* p2's clock is ahead of p1's by two ticks: more than the allowance.
SkewTwo == p1 :> 0 @@ p2 :> 2

\* p1 has a replay cache, p2 may be embedded without one.
OnlyFirst == {p1}

Interchangeable == Permutations(Handlers) \cup Permutations(Ids)
=============================================================================
