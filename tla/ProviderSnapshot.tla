-------------------------- MODULE ProviderSnapshot --------------------------
(***************************************************************************)
(* Snapshots of resources: what the sources of the providers hold, version *)
(* after version, which versions are valid, and how snapshots are merged.  *)
(* A snapshot maps names of upstreams to upstreams, and names of relays to *)
(* the upstreams they are bound to.                                        *)
(***************************************************************************)
EXTENDS Integers, Sequences

CONSTANTS N,        \* how many providers; the file provider comes before SSM
          Contents  \* Contents[p]: what p's source holds, write after write

ASSUME SnapshotAssumption ==
    /\ N \in Nat \ {0}
    /\ DOMAIN Contents = 1..N
    /\ \A p \in 1..N : Len(Contents[p]) \in Nat \ {0}

\* ProviderSnapshot::validate, the last check of a load: each relay's upstream
\* is in the same snapshot.
Closed(s) == \A r \in DOMAIN s.relays : s.relays[r] \in DOMAIN s.upstreams

Versions(p) == 1..Len(Contents[p])
Valid(p) == {v \in Versions(p) : Closed(Contents[p][v])}

Empty == [upstreams |-> << >>, relays |-> << >>]

\* Version v of p's snapshots, of which 0 is the default one.
Held(p, v) == IF v = 0 THEN Empty ELSE Contents[p][v]

\* What is there already is kept, what is not is added.
KeepFirst(f, g) ==
    [k \in DOMAIN f \cup DOMAIN g |-> IF k \in DOMAIN f THEN f[k] ELSE g[k]]

\* A merge in which the later provider wins.
MergeLaterWins(s, next) == [upstreams |-> KeepFirst(next.upstreams, s.upstreams),
                            relays    |-> KeepFirst(next.relays, s.relays)]

\* One turn of merge_ordered's loop.
MergeNext(s, next) == [upstreams |-> KeepFirst(s.upstreams, next.upstreams),
                       relays    |-> KeepFirst(s.relays, next.relays)]

\* The whole loop, over the chosen versions.
MergeOrdered(chosen) ==
    LET merged[n \in 0..N] ==
          IF n = 0 THEN Empty ELSE MergeNext(merged[n - 1], Held(n, chosen[n]))
    IN  merged[N]
=============================================================================
