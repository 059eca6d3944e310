------------------------- MODULE ConfigPublication --------------------------
(***************************************************************************)
(* What an operator is promised of configuration: the graph in force is    *)
(* at every moment the ordered merge of one version of each source, each   *)
(* of them one that was written and is valid, and none of them older than  *)
(* the one it replaces.                                                    *)
(***************************************************************************)
EXTENDS Naturals

CONSTANTS N,        \* how many sources; a lower number has precedence
          Contents, \* Contents[p][v]: version v of source p
          Good      \* Good[p]: the versions of p that are valid

VARIABLES written,  \* the latest version of each source
          inforce,  \* the versions in force; 0 before the first publication
          config    \* the graph in force

Parts == {"upstreams", "relays"}

Nothing == [part \in Parts |-> << >>]

\* Among the chosen versions, the sources that define key k, and the one of
\* them that has precedence.
Definers(chosen, part, k) == {p \in 1..N : k \in DOMAIN Contents[p][chosen[p]][part]}
Owner(chosen, part, k) ==
    CHOOSE p \in Definers(chosen, part, k) : \A q \in Definers(chosen, part, k) : p <= q

Merge(chosen) ==
    [part \in Parts |->
        [k \in UNION {DOMAIN Contents[p][chosen[p]][part] : p \in 1..N} |->
            LET p == Owner(chosen, part, k) IN Contents[p][chosen[p]][part][k]]]

Init ==
    /\ written = [p \in 1..N |-> 1]
    /\ inforce = [p \in 1..N |-> 0]
    /\ config = Nothing

Write(p) ==
    /\ written' = [written EXCEPT ![p] = @ + 1]
    /\ UNCHANGED <<inforce, config>>

Publish(chosen) ==
    /\ \A p \in 1..N : /\ inforce[p] <= chosen[p]
                       /\ chosen[p] <= written[p]
    /\ inforce' = chosen
    /\ config' = Merge(chosen)
    /\ UNCHANGED written

Next ==
    \/ \E p \in 1..N : Write(p)
    \/ \E chosen \in {c \in [1..N -> UNION {Good[p] : p \in 1..N}] :
                        \A p \in 1..N : c[p] \in Good[p]} : Publish(chosen)

Spec == Init /\ [][Next]_<<written, inforce, config>>
=============================================================================
