---------------------------- MODULE RegularLoad -----------------------------
(***************************************************************************)
(* What a load of many things that change meanwhile promises when it is    *)
(* not a transaction: it fails and changes nothing, or it takes for each   *)
(* thing one value which that thing had at some moment of the load, and    *)
(* only if these values together are acceptable.  So a load during which   *)
(* nothing changes takes exactly what there is.                            *)
(***************************************************************************)
CONSTANTS Items, Values,
          Acceptable(_),  \* of a choice of a value for each item
          Compiled(_),    \* what is made of the choice
          Nothing         \* the result before the first load

VARIABLES current,  \* the present value of each item
          seen,     \* the values each has had since the present load began
          loading,  \* there is a load in progress
          result    \* of the last load that succeeded

vars == <<current, seen, loading, result>>

Unseen == [i \in Items |-> {}]

Init == current \in [Items -> Values] /\ seen = Unseen /\ ~loading /\ result = Nothing

Change(i, v) ==
    /\ current' = [current EXCEPT ![i] = v]
    /\ seen' = IF loading THEN [seen EXCEPT ![i] = @ \cup {v}] ELSE seen
    /\ UNCHANGED <<loading, result>>

Begin ==
    /\ ~loading /\ loading'
    /\ seen' = [i \in Items |-> {current[i]}]
    /\ UNCHANGED <<current, result>>

Fail ==
    /\ loading /\ ~loading'
    /\ seen' = Unseen
    /\ UNCHANGED <<current, result>>

Succeed(choice) ==
    /\ loading /\ ~loading'
    /\ \A i \in Items : choice[i] \in seen[i]
    /\ Acceptable(choice)
    /\ result' = Compiled(choice)
    /\ seen' = Unseen
    /\ UNCHANGED current

Next ==
    \/ current' # current /\ \E i \in Items, v \in Values : Change(i, v)
    \/ Begin
    \/ Fail
    \/ /\ result' # result
       /\ \E choice \in {c \in [Items -> UNION {seen[i] : i \in Items}] :
                          \A i \in Items : c[i] \in seen[i]} : Succeed(choice)

Spec == Init /\ [][Next]_vars
=============================================================================
