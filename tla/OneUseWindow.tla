---------------------------- MODULE OneUseWindow ----------------------------
(***************************************************************************)
(* What a replay cache promises its caller, without saying how: within one *)
(* life of one process, a code is spent again only when a whole Window has *)
(* passed since the moment recorded for every earlier spending of it.      *)
(* The moment recorded may lie in the past of the spending itself: a       *)
(* caller reads its clock before it is its turn to be served.              *)
(***************************************************************************)
EXTENDS Naturals, Sequences

CONSTANTS Lives,    \* one element for every life (start to exit) of every process
          Ids,      \* the identifiers a code may carry
          Window,   \* how long a spending is remembered, in ticks
          Guarded   \* the lives that have a replay cache at all, among Lives

VARIABLES time,     \* the present, in ticks
          spent     \* every spending so far, in order

Init == /\ time = 0
        /\ spent = << >>

\* The present moves on.
Pass == /\ time' = time + 1
        /\ UNCHANGED spent

\* A code is spent: never twice in one Window of one guarded life.
Spend(life, id, at) ==
    /\ at \in 0..time
    /\ life \in Guarded =>
         \A i \in DOMAIN spent :
            spent[i].life = life /\ spent[i].id = id => spent[i].at + Window <= time
    /\ spent' = Append(spent, [life |-> life, id |-> id, at |-> at])
    /\ UNCHANGED time

Next == \/ Pass
        \/ /\ spent' # spent
           /\ \E life \in Lives, id \in Ids, at \in 0..time : Spend(life, id, at)

Spec == Init /\ [][Next]_<<time, spent>>
=============================================================================
