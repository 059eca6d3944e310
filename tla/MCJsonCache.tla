---------------------------- MODULE MCJsonCache -----------------------------
(***************************************************************************)
(* JsonCache for an issuer that adds a signing key and whose document      *)
(* ceases to name a URL for its keys.                                      *)
(***************************************************************************)
EXTENDS JsonCache, TLC

CONSTANTS disc, keys1, none, h1, h2

MCKeyUrls == {keys1}
MCUriOf == (0 :> keys1 @@ 1 :> none)

\* The issuer adds a key to its set.
MCKeysOf == [u \in {keys1} |-> (0 :> {"old"} @@ 1 :> {"old", "new"})]

NeedAll == {<<"keys", disc>>, <<"endpoints", disc>>, <<"keys", keys1>>}

BothChange == (disc :> 1 @@ keys1 :> 1)

Symmetry == Permutations({h1, h2})
=============================================================================
