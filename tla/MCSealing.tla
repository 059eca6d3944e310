----------------------------- MODULE MCSealing ------------------------------
(***************************************************************************)
(* Sealing for two instances, one of which has a clock that is ahead, and  *)
(* enough time for two rotations.                                          *)
(***************************************************************************)
EXTENDS Sealing, TLC

CONSTANTS p1, p2, k1, k2, k3

MCTTL == ("flow" :> 2 @@ "code" :> 1)
MCSkew == (p1 :> 0 @@ p2 :> 1)
Symmetry == Permutations(Keys)
=============================================================================
