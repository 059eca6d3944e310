------------------------ MODULE LambdaRefreshProofs -------------------------
(***************************************************************************)
(* Proofs about module LambdaRefresh, for any number of providers, any     *)
(* contents of their sources, any TTL and any steps of the wall clock.     *)
(***************************************************************************)
EXTENDS LambdaRefresh, WellFoundedInduction, TLAPS

\* Type correctness: in particular only versions that passed validation become
\* a provider's last good snapshot.
THEOREM TypeCorrect == Spec => []TypeOK
<1>0. N \in Nat /\ N > 0
  BY SnapshotAssumption
<1>1. Init => TypeOK
  BY <1>0 DEF Init, TypeOK, Unread
<1>2. TypeOK /\ [Next]_vars => TypeOK'
  <2> SUFFICES ASSUME TypeOK, [Next]_vars PROVE TypeOK'
    OBVIOUS
  <2>1. ASSUME NEW p \in 1..N, Write(p) PROVE TypeOK'
    <3>1. writes' \in [1..N -> Seq(Nat)]
      BY <2>1 DEF Write, TypeOK
    <3> QED BY <2>1, <3>1 DEF Write, TypeOK
  <2>2. ASSUME NEW p \in 1..N, InitialLoad(p) PROVE TypeOK'
    BY <2>2 DEF InitialLoad, TypeOK, Valid, Versions
  <2>3. ASSUME NEW p \in 1..N, LoadSucceeds(p) PROVE TypeOK'
    <3>1. service' \in [at: {"start", "replaced", "idle", "load", "serve"}, next: 1..(N + 1)]
      <4>1. p + 1 \in 1..(N + 1)
        BY <1>0
      <4> QED BY <2>3, <4>1 DEF LoadSucceeds, TypeOK
    <3>2. snapshots' \in [1..N -> Nat] /\ \A q \in 1..N : snapshots'[q] \in Valid(q) \cup {0}
      BY <2>3 DEF LoadSucceeds, TypeOK, Valid, Versions
    <3> QED BY <2>3, <3>1, <3>2 DEF LoadSucceeds, TypeOK
  <2>4. ASSUME NEW p \in 1..N, LoadFails(p) PROVE TypeOK'
    <3>1. service' \in [at: {"start", "replaced", "idle", "load", "serve"}, next: 1..(N + 1)]
      <4>1. p + 1 \in 1..(N + 1)
        BY <1>0
      <4> QED BY <2>4, <4>1 DEF LoadFails, TypeOK
    <3> QED BY <2>4, <3>1 DEF LoadFails, TypeOK
  <2>5. ASSUME Tick PROVE TypeOK'
    BY <2>5 DEF Tick, TypeOK
  <2>6. ASSUME NEW d \in Steps, PutClock(d) PROVE TypeOK'
    <3>1. d \in Int
      BY RefreshAssumption
    <3> QED BY <2>6, <3>1 DEF PutClock, TypeOK
  <2>7. ASSUME FirstInstall PROVE TypeOK'
    BY <1>0, <2>7 DEF FirstInstall, TypeOK, At
  <2>8. ASSUME NewRefresher PROVE TypeOK'
    BY <1>0, <2>8 DEF NewRefresher, TypeOK, At
  <2>9. ASSUME InvokedFresh PROVE TypeOK'
    BY <1>0, <2>9 DEF InvokedFresh, TypeOK, At
  <2>10. ASSUME InvokedStale PROVE TypeOK'
    BY <1>0, <2>10 DEF InvokedStale, TypeOK, At
  <2>11. ASSUME Install PROVE TypeOK'
    BY <1>0, <2>11 DEF Install, TypeOK, At
  <2>12. ASSUME Respond PROVE TypeOK'
    BY <1>0, <2>12 DEF Respond, TypeOK, At
  <2>13. CASE UNCHANGED vars
    BY <2>13 DEF vars, TypeOK
  <2> QED BY <2>1, <2>2, <2>3, <2>4, <2>5, <2>6, <2>7, <2>8, <2>9, <2>10, <2>11, <2>12, <2>13
          DEF Next
<1> QED BY <1>1, <1>2, PTL DEF Spec
-----------------------------------------------------------------------------
\* Clocks: writes lie in the past, and what the wall clock shows since the last
\* attempt and what it was put back are together not negative.
Clocks ==
    /\ arrived <= now
    /\ \A p \in 1..N : \A v \in 1..Source(p) : writes[p][v] <= now
    /\ service.at \in {"idle", "load", "serve"} => wall - lastAttempt + slack >= 0

\* What p had when version `have' was read is missing only what was written
\* since the last attempt.
Recent(p, have) ==
    \A v \in (have + 1)..Source(p) : now - writes[p][v] <= wall - lastAttempt + slack

\* Between invocations and while serving, whatever is not in force is that
\* recent; during a refresh, whatever a loaded provider lacks was written since
\* the invocation came; at the end of a start everything is recent.
Current(p) ==
    p \notin failed =>
        /\ service.at \in {"idle", "serve"} => Recent(p, installed[p])
        /\ service.at = "load" /\ p < service.next =>
             /\ Recent(p, snapshots[p])
             /\ \A v \in (snapshots[p] + 1)..Source(p) : arrived <= writes[p][v]
        /\ service.at = "serve" =>
             \A v \in (installed[p] + 1)..Source(p) : arrived - writes[p][v] < TTL + slack

AllCurrent == \A p \in 1..N : Current(p)

\* Clocks are kept by every step.
LEMMA ClocksStep == TypeOK /\ Clocks /\ [Next]_vars => Clocks'
<1> SUFFICES ASSUME TypeOK, Clocks, [Next]_vars PROVE Clocks'
  OBVIOUS
<1>1. /\ writes \in [1..N -> Seq(Nat)] /\ now \in Nat /\ wall \in Int
      /\ lastAttempt \in Int /\ arrived \in Nat /\ slack \in Nat
      /\ \A p \in 1..N : \A v \in 1..Source(p) : writes[p][v] \in Nat
  BY DEF TypeOK, Source
<1>2. ASSUME NEW p \in 1..N, Write(p) PROVE Clocks'
  <2>1. UNCHANGED <<now, wall, service, lastAttempt, arrived, slack>>
    BY <1>2 DEF Write
  <2>2. \A q \in 1..N : \A v \in 1..Source(q)' : writes'[q][v] <= now
    BY <1>1, <1>2 DEF Write, Source, Clocks
  <2> QED BY <2>1, <2>2 DEF Clocks
<1>3. ASSUME Tick PROVE Clocks'
  BY <1>1, <1>3 DEF Tick, Clocks, Source
<1>4. ASSUME NEW d \in Steps, PutClock(d) PROVE Clocks'
  <2>1. d \in Int
    BY RefreshAssumption
  <2> QED BY <1>1, <1>4, <2>1 DEF PutClock, Clocks, Source
<1>5. ASSUME NewRefresher PROVE Clocks'
  BY <1>1, <1>5 DEF NewRefresher, Clocks, Source
<1>6. ASSUME InvokedFresh \/ InvokedStale PROVE Clocks'
  <2>1. /\ arrived' = now /\ service.at = "idle" /\ UNCHANGED <<writes, now, wall>>
        /\ \/ UNCHANGED <<lastAttempt, slack>>
           \/ lastAttempt' = wall /\ slack' = 0
    BY <1>6 DEF InvokedFresh, InvokedStale
  <2> QED BY <1>1, <2>1 DEF Clocks, Source
<1>7. ASSUME FirstInstall PROVE Clocks'
  BY <1>1, <1>7 DEF FirstInstall, Clocks, Source, At
<1>8. ASSUME NEW p \in 1..N, InitialLoad(p) PROVE Clocks'
  BY <1>1, <1>8 DEF InitialLoad, Clocks, Source
<1>9. ASSUME NEW p \in 1..N, LoadSucceeds(p) \/ LoadFails(p) PROVE Clocks'
  <2>1. service'.at = service.at
        /\ UNCHANGED <<writes, now, wall, lastAttempt, arrived, slack>>
    BY <1>9 DEF LoadSucceeds, LoadFails, TypeOK
  <2> QED BY <2>1 DEF Clocks, Source
<1>10. ASSUME Install PROVE Clocks'
  BY <1>1, <1>10 DEF Install, Clocks, Source, At
<1>11. ASSUME Respond PROVE Clocks'
  BY <1>1, <1>11 DEF Respond, Clocks, Source, At
<1>12. CASE UNCHANGED vars
  BY <1>12 DEF vars, Clocks, Source
<1> QED BY <1>2, <1>3, <1>4, <1>5, <1>6, <1>7, <1>8, <1>9, <1>10, <1>11, <1>12 DEF Next

\* Steps of the clocks and of the operators keep everything current.
LEMMA EnvironmentKeepsCurrent ==
    ASSUME TypeOK, Clocks, NEW p \in 1..N, Current(p),
           \/ \E q \in 1..N : Write(q)
           \/ Tick
           \/ \E d \in Steps : PutClock(d)
    PROVE  Current(p)'
<1>1. /\ writes \in [1..N -> Seq(Nat)] /\ now \in Nat /\ wall \in Int
      /\ lastAttempt \in Int /\ arrived \in Nat /\ slack \in Nat
      /\ Source(p) \in Nat /\ snapshots[p] \in Nat /\ installed[p] \in Nat
      /\ \A v \in 1..Source(p) : writes[p][v] \in Nat
      /\ TTL \in Nat /\ TTL > 0
  BY RefreshAssumption DEF TypeOK, Source
<1>2. UNCHANGED <<service, lastAttempt, snapshots, installed, failed, arrived>>
  BY DEF Write, Tick, PutClock
<1>3. ASSUME NEW q \in 1..N, Write(q) PROVE Current(p)'
  <2>1. UNCHANGED <<now, wall, slack>>
    BY <1>3 DEF Write
  <2>2. CASE q # p
    <3>1. writes'[p] = writes[p]
      BY <1>3, <2>2 DEF Write, TypeOK
    <3> QED BY <1>2, <2>1, <3>1 DEF Current, Recent, Source
  <2>3. CASE q = p
    <3>1. /\ Source(p)' = Source(p) + 1
          /\ writes'[p][Source(p) + 1] = now
          /\ \A v \in 1..Source(p) : writes'[p][v] = writes[p][v]
      BY <1>1, <1>3, <2>3 DEF Write, Source
    <3>2. ASSUME NEW have \in Nat
          PROVE  \A v \in (have + 1)..Source(p)' :
                   \/ v \in (have + 1)..Source(p) /\ writes'[p][v] = writes[p][v]
                   \/ writes'[p][v] = now
      BY <1>1, <3>1
    <3>3. service.at \in {"idle", "load", "serve"} => now - now <= wall - lastAttempt + slack
      BY <1>1 DEF Clocks
    <3>4. arrived <= now /\ arrived - now < TTL + slack
      BY <1>1 DEF Clocks
    <3>5. p \notin failed /\ service.at \in {"idle", "serve"} => Recent(p, installed[p])'
      BY <1>1, <1>2, <2>1, <3>2, <3>3 DEF Current, Recent
    <3>6. p \notin failed /\ service.at = "load" /\ p < service.next =>
            /\ Recent(p, snapshots[p])'
            /\ \A v \in (snapshots[p] + 1)..Source(p)' : arrived <= writes'[p][v]
      BY <1>1, <1>2, <2>1, <3>2, <3>3, <3>4 DEF Current, Recent
    <3>7. p \notin failed /\ service.at = "serve" =>
            \A v \in (installed[p] + 1)..Source(p)' : arrived - writes'[p][v] < TTL + slack
      BY <1>1, <3>2, <3>4 DEF Current
    <3> QED BY <1>2, <2>1, <3>5, <3>6, <3>7 DEF Current
  <2> QED BY <2>2, <2>3
<1>4. ASSUME Tick PROVE Current(p)'
  <2>1. now' = now + 1 /\ wall' = wall + 1 /\ UNCHANGED <<writes, slack>>
    BY <1>4 DEF Tick
  <2>2. ASSUME NEW have \in Nat, Recent(p, have) PROVE Recent(p, have)'
    <3> SUFFICES ASSUME NEW v \in (have + 1)..Source(p)
                 PROVE  now' - writes[p][v] <= wall' - lastAttempt + slack
      BY <1>2, <2>1 DEF Recent, Source
    <3>1. writes[p][v] \in Nat
      BY <1>1
    <3>2. now - writes[p][v] <= wall - lastAttempt + slack
      BY <2>2 DEF Recent
    <3> QED BY <1>1, <2>1, <3>1, <3>2
  <2>3. /\ Recent(p, installed[p]) => Recent(p, installed[p])'
        /\ Recent(p, snapshots[p]) => Recent(p, snapshots[p])'
    BY <1>1, <1>2, <2>2 DEF Recent
  <2> QED BY <1>2, <2>1, <2>3 DEF Current, Source
<1>5. ASSUME NEW d \in Steps, PutClock(d) PROVE Current(p)'
  <2>1. d \in Int
    BY RefreshAssumption
  <2>2. /\ slack' \in Nat /\ slack <= slack'
        /\ wall - lastAttempt + slack <= wall' - lastAttempt + slack'
        /\ wall' \in Int /\ UNCHANGED <<writes, now>>
    BY <1>1, <1>5, <2>1 DEF PutClock
  <2>3. ASSUME NEW have \in Nat, Recent(p, have) PROVE Recent(p, have)'
    <3> SUFFICES ASSUME NEW v \in (have + 1)..Source(p)
                 PROVE  now - writes[p][v] <= wall' - lastAttempt + slack'
      BY <1>2, <2>2 DEF Recent, Source
    <3>1. writes[p][v] \in Nat
      BY <1>1
    <3>2. now - writes[p][v] <= wall - lastAttempt + slack
      BY <2>3 DEF Recent
    <3>3. /\ now \in Int /\ wall \in Int /\ lastAttempt \in Int /\ slack \in Int
          /\ wall' \in Int /\ slack' \in Int
      BY <1>1, <2>2
    <3>4. wall - lastAttempt + slack <= wall' - lastAttempt + slack'
      BY <2>2
    <3>5. /\ now - writes[p][v] \in Int
          /\ wall - lastAttempt + slack \in Int /\ wall' - lastAttempt + slack' \in Int
      BY <3>1, <3>3
    <3>6. \A x, y, z \in Int : x <= y /\ y <= z => x <= z
      OBVIOUS
    <3> QED BY <3>2, <3>4, <3>5, <3>6, Zenon
  <2>4. /\ Recent(p, installed[p]) => Recent(p, installed[p])'
        /\ Recent(p, snapshots[p]) => Recent(p, snapshots[p])'
    BY <1>1, <1>2, <2>3 DEF Recent
  <2>5. ASSUME NEW v \in (installed[p] + 1)..Source(p), arrived - writes[p][v] < TTL + slack
        PROVE  arrived - writes[p][v] < TTL + slack'
    <3>1. writes[p][v] \in Nat
      BY <1>1
    <3> QED BY <1>1, <2>2, <2>5, <3>1
  <2> QED BY <1>2, <2>2, <2>4, <2>5 DEF Current, Source
<1> QED BY <1>3, <1>4, <1>5

\* Every step keeps everything current.
LEMMA AllCurrentStep == TypeOK /\ Clocks /\ AllCurrent /\ [Next]_vars => AllCurrent'
<1> SUFFICES ASSUME TypeOK, Clocks, AllCurrent, [Next]_vars, NEW p \in 1..N
             PROVE  Current(p)'
  BY DEF AllCurrent
<1>1. /\ writes \in [1..N -> Seq(Nat)] /\ now \in Nat /\ wall \in Int
      /\ lastAttempt \in Int /\ arrived \in Nat /\ slack \in Nat
      /\ Source(p) \in Nat /\ snapshots[p] \in Nat /\ installed[p] \in Nat
      /\ \A v \in 1..Source(p) : writes[p][v] \in Nat
      /\ TTL \in Nat /\ TTL > 0
      /\ N \in Nat /\ service.next \in 1..(N + 1)
  <2>1. N \in Nat /\ TTL \in Nat /\ TTL > 0
    BY SnapshotAssumption, RefreshAssumption
  <2>2. /\ writes \in [1..N -> Seq(Nat)] /\ now \in Nat /\ wall \in Int
        /\ lastAttempt \in Int /\ arrived \in Nat /\ slack \in Nat
        /\ snapshots[p] \in Nat /\ installed[p] \in Nat
        /\ service.next \in 1..(N + 1)
    BY DEF TypeOK
  <2>3. writes[p] \in Seq(Nat)
    BY <2>2
  <2>4. Source(p) \in Nat /\ \A v \in 1..Source(p) : writes[p][v] \in Nat
    BY <2>3 DEF Source
  <2> QED BY <2>1, <2>2, <2>4
<1>2. Current(p)
  BY DEF AllCurrent
<1>3. CASE \/ \E q \in 1..N : Write(q)
           \/ Tick
           \/ \E d \in Steps : PutClock(d)
  BY <1>2, <1>3, EnvironmentKeepsCurrent
<1>4. ASSUME NEW q \in 1..N, InitialLoad(q) PROVE Current(p)'
  BY <1>4 DEF InitialLoad, Current
<1>5. ASSUME FirstInstall PROVE Current(p)'
  BY <1>5 DEF FirstInstall, Current, At
<1>6. ASSUME NewRefresher PROVE Current(p)'
  <2>1. /\ service'.at = "idle" /\ lastAttempt' = wall /\ wall' = wall /\ slack' = now
        /\ UNCHANGED <<writes, now, installed>>
    BY <1>6 DEF NewRefresher, At
  <2>2. Recent(p, installed[p])'
    BY <1>1, <2>1 DEF Recent, Source
  <2> QED BY <2>1, <2>2 DEF Current
<1>7. ASSUME InvokedFresh PROVE Current(p)'
  <2>1. /\ service.at = "idle" /\ service'.at = "serve" /\ arrived' = now
        /\ wall - lastAttempt < TTL
        /\ UNCHANGED <<writes, now, wall, lastAttempt, installed, failed, slack>>
    BY <1>7 DEF InvokedFresh, IsFresh, At
  <2>2. p \notin failed => Recent(p, installed[p])
    BY <1>2, <2>1 DEF Current
  <2>3. p \notin failed =>
          \A v \in (installed[p] + 1)..Source(p) : now - writes[p][v] < TTL + slack
    <3> SUFFICES ASSUME p \notin failed, NEW v \in (installed[p] + 1)..Source(p)
                 PROVE  now - writes[p][v] < TTL + slack
      OBVIOUS
    <3>1. writes[p][v] \in Nat
      BY <1>1
    <3>2. now - writes[p][v] <= wall - lastAttempt + slack
      BY <2>2 DEF Recent
    <3>3. now \in Int /\ wall \in Int /\ lastAttempt \in Int /\ slack \in Int /\ TTL \in Int
      BY <1>1
    <3> QED BY <2>1, <3>1, <3>2, <3>3
  <2> QED BY <2>1, <2>2, <2>3 DEF Current, Recent, Source
<1>8. ASSUME InvokedStale PROVE Current(p)'
  BY <1>1, <1>8 DEF InvokedStale, Current, At
<1>9. ASSUME NEW q \in 1..N, LoadSucceeds(q) PROVE Current(p)'
  <2>1. /\ service.at = "load" /\ service'.at = "load" /\ service.next = q
        /\ service'.next = q + 1
        /\ UNCHANGED <<writes, now, wall, lastAttempt, installed, failed, arrived, slack>>
    BY <1>9 DEF LoadSucceeds, TypeOK
  <2>2. CASE p = q
    <3>1. snapshots'[p] = Source(p)
      BY <1>9, <2>2 DEF LoadSucceeds, TypeOK
    <3>2. (Source(p) + 1)..Source(p) = {}
      BY <1>1
    <3> QED BY <2>1, <3>1, <3>2 DEF Current, Recent, Source
  <2>3. CASE p # q
    <3>1. snapshots'[p] = snapshots[p]
      BY <1>9, <2>3 DEF LoadSucceeds, TypeOK
    <3>2. p < q + 1 => p < q
      BY <2>3
    <3> QED BY <1>2, <2>1, <3>1, <3>2 DEF Current, Recent, Source
  <2> QED BY <2>2, <2>3
<1>10. ASSUME NEW q \in 1..N, LoadFails(q) PROVE Current(p)'
  <2>1. /\ service.at = "load" /\ service'.at = "load" /\ service.next = q
        /\ service'.next = q + 1 /\ failed' = failed \cup {q}
        /\ UNCHANGED <<writes, now, wall, lastAttempt, snapshots, installed, arrived, slack>>
    BY <1>10 DEF LoadFails, TypeOK
  <2>2. p \notin failed' => p # q /\ p \notin failed
    BY <2>1
  <2>3. p # q => (p < q + 1 => p < q)
    OBVIOUS
  <2> QED BY <1>2, <2>1, <2>2, <2>3 DEF Current, Recent, Source
<1>11. ASSUME Install PROVE Current(p)'
  <2>1. /\ service.at = "load" /\ service.next = N + 1 /\ service'.at = "serve"
        /\ installed' = snapshots
        /\ UNCHANGED <<writes, now, wall, lastAttempt, snapshots, failed, arrived, slack>>
    BY <1>11 DEF Install, At
  <2>2. p < service.next
    BY <1>1, <2>1
  <2>3. p \notin failed =>
          /\ Recent(p, snapshots[p])
          /\ \A v \in (snapshots[p] + 1)..Source(p) : arrived <= writes[p][v]
    BY <1>2, <2>1, <2>2 DEF Current
  <2>4. p \notin failed =>
          \A v \in (snapshots[p] + 1)..Source(p) : arrived - writes[p][v] < TTL + slack
    <3> SUFFICES ASSUME p \notin failed, NEW v \in (snapshots[p] + 1)..Source(p)
                 PROVE  arrived - writes[p][v] < TTL + slack
      OBVIOUS
    <3>1. writes[p][v] \in Nat
      BY <1>1
    <3> QED BY <1>1, <2>3, <3>1
  <2> QED BY <2>1, <2>3, <2>4 DEF Current, Recent, Source
<1>12. ASSUME Respond PROVE Current(p)'
  <2>1. /\ service.at = "serve" /\ service'.at = "idle"
        /\ UNCHANGED <<writes, now, wall, lastAttempt, installed, failed, slack>>
    BY <1>12 DEF Respond, At
  <2> QED BY <1>2, <2>1 DEF Current, Recent, Source
<1>13. CASE UNCHANGED vars
  BY <1>2, <1>13 DEF vars, Current, Recent, Source
<1> QED BY <1>3, <1>4, <1>5, <1>6, <1>7, <1>8, <1>9, <1>10, <1>11, <1>12, <1>13 DEF Next

\* An invocation is served with what was current less than a TTL before it came,
\* but for failed loads, the length of the start and a clock put back.
THEOREM BoundedStalenessHolds == Spec => []BoundedStaleness
<1>1. Init => Clocks /\ AllCurrent
  BY DEF Init, Clocks, AllCurrent, Current, Source
<1>2. TypeOK /\ Clocks /\ AllCurrent /\ [Next]_vars => (Clocks /\ AllCurrent)'
  BY ClocksStep, AllCurrentStep
<1>3. AllCurrent => BoundedStaleness
  BY DEF AllCurrent, Current, BoundedStaleness
<1> QED BY <1>1, <1>2, <1>3, TypeCorrect, PTL DEF Spec
-----------------------------------------------------------------------------
\* The merges of the first n providers that a run of the loop goes through.
IsRun(chosen, n, f) ==
    f = [i \in 0..n |-> IF i = 0 THEN Empty ELSE MergeNext(f[i - 1], Held(i, chosen[i]))]

\* Of a set of numbers that is not empty, one is the least.
LEMMA LeastNumber ==
    ASSUME NEW T, T \subseteq Nat, T # {}
    PROVE  \E n \in T : \A m \in T : ~(m < n)
<1>1. PICK n \in T : \A m \in T : ~(<<m, n>> \in OpToRel(<, Nat))
  BY WFMin, NatLessThanWellFounded
<1> QED
  BY <1>1 DEF OpToRel

\* The recursive function of MergeOrdered exists: the least number of providers for
\* which it did not would be one more than one for which it does.
LEMMA RunExists == ASSUME NEW chosen, NEW n \in Nat PROVE \E f : IsRun(chosen, n, f)
<1> SUFFICES ASSUME ~ \E f : IsRun(chosen, n, f) PROVE FALSE
  OBVIOUS
<1> DEFINE T == {m \in Nat : ~ \E f : IsRun(chosen, m, f)}
<1>1. PICK m \in T : \A l \in T : ~(l < m)
  BY LeastNumber
<1>2. m # 0
  <2>1. IsRun(chosen, 0, [i \in 0..0 |-> Empty])
    BY DEF IsRun
  <2> QED
    BY <2>1
<1>3. m - 1 \in Nat /\ m - 1 < m
  BY <1>2
<1>4. PICK f : IsRun(chosen, m - 1, f)
  BY <1>1, <1>3
<1> DEFINE g == [i \in 0..m |->
                    IF i = 0 THEN Empty ELSE MergeNext(f[i - 1], Held(i, chosen[i]))]
<1>5. IsRun(chosen, m, g)
  <2>1. \A i \in 0..(m - 1) : g[i] = f[i]
    BY <1>3, <1>4 DEF IsRun
  <2>2. \A i \in 0..m : i # 0 => i - 1 \in 0..(m - 1)
    BY <1>3
  <2>3. \A i \in 0..m : g[i] = IF i = 0 THEN Empty ELSE MergeNext(g[i - 1], Held(i, chosen[i]))
    BY <2>1, <2>2
  <2> HIDE DEF g
  <2> QED
    BY <2>3 DEF IsRun, g
<1> QED
  BY <1>5

\* MergeOrdered returns what such a run ends with.
LEMMA MergeOrderedRuns ==
    ASSUME NEW chosen
    PROVE  \E f : IsRun(chosen, N, f) /\ MergeOrdered(chosen) = f[N]
<1> DEFINE merged == CHOOSE f : IsRun(chosen, N, f)
<1>1. IsRun(chosen, N, merged)
  BY RunExists, SnapshotAssumption
<1>2. MergeOrdered(chosen) = merged[N]
  BY DEF MergeOrdered, IsRun
<1> QED
  BY <1>1, <1>2

\* What the loop has after its first n providers, of one part: the keys are those
\* of all of them, and a key is what the first one that has it says.
FirstWins(chosen, part, n, m) ==
    \A k : /\ k \in DOMAIN m <=> \E p \in 1..n : k \in DOMAIN Contents[p][chosen[p]][part]
           /\ \A p \in 1..n :
                /\ k \in DOMAIN Contents[p][chosen[p]][part]
                /\ \A q \in 1..(p - 1) : k \notin DOMAIN Contents[q][chosen[q]][part]
                => m[k] = Contents[p][chosen[p]][part][k]

\* One turn of the loop keeps it so, for one provider more.
LEMMA NextKeepsFirst ==
    ASSUME NEW chosen, NEW part, NEW n \in Nat, n # 0, NEW m,
           FirstWins(chosen, part, n - 1, m)
    PROVE  FirstWins(chosen, part, n, KeepFirst(m, Contents[n][chosen[n]][part]))
<1> DEFINE s == Contents[n][chosen[n]][part]
           w == KeepFirst(m, s)
<1>1. /\ DOMAIN w = DOMAIN m \cup DOMAIN s
      /\ \A k \in DOMAIN m : w[k] = m[k]
      /\ \A k \in DOMAIN s : k \notin DOMAIN m => w[k] = s[k]
  BY DEF KeepFirst
<1>2. \A p : p \in 1..n <=> p = n \/ p \in 1..(n - 1)
  OBVIOUS
<1> SUFFICES ASSUME NEW k
             PROVE  /\ k \in DOMAIN w <=> \E p \in 1..n : k \in DOMAIN Contents[p][chosen[p]][part]
                    /\ \A p \in 1..n :
                         /\ k \in DOMAIN Contents[p][chosen[p]][part]
                         /\ \A q \in 1..(p - 1) : k \notin DOMAIN Contents[q][chosen[q]][part]
                         => w[k] = Contents[p][chosen[p]][part][k]
  BY DEF FirstWins
<1>3. k \in DOMAIN m <=> \E p \in 1..(n - 1) : k \in DOMAIN Contents[p][chosen[p]][part]
  BY DEF FirstWins
<1>4. k \in DOMAIN w <=> \E p \in 1..n : k \in DOMAIN Contents[p][chosen[p]][part]
  BY <1>1, <1>2, <1>3
<1>5. ASSUME NEW p \in 1..n, k \in DOMAIN Contents[p][chosen[p]][part],
             \A q \in 1..(p - 1) : k \notin DOMAIN Contents[q][chosen[q]][part]
      PROVE  w[k] = Contents[p][chosen[p]][part][k]
  <2>1. CASE p \in 1..(n - 1)
    <3>1. m[k] = Contents[p][chosen[p]][part][k]
      BY <1>5, <2>1 DEF FirstWins
    <3> QED
      BY <1>1, <1>3, <1>5, <2>1, <3>1
  <2>2. CASE p = n
    BY <1>1, <1>3, <1>5, <2>2
  <2> QED
    BY <1>2, <2>1, <2>2
<1> QED
  BY <1>4, <1>5

\* At the end of a run the first one wins, in each part: the least number of
\* providers after which it did not would follow one after which it did.
LEMMA RunKeepsFirst ==
    ASSUME NEW chosen, \A p \in 1..N : chosen[p] # 0, NEW f, IsRun(chosen, N, f),
           NEW part \in {"upstreams", "relays"}
    PROVE  FirstWins(chosen, part, N, f[N][part])
<1>0. N \in Nat
  BY SnapshotAssumption
<1> SUFFICES ASSUME ~FirstWins(chosen, part, N, f[N][part]) PROVE FALSE
  OBVIOUS
<1> DEFINE T == {n \in 0..N : ~FirstWins(chosen, part, n, f[n][part])}
<1>1. N \in T /\ T \subseteq Nat
  BY <1>0
<1>2. PICK n \in T : \A l \in T : ~(l < n)
  <2> HIDE DEF T
  <2> QED
    BY <1>1, LeastNumber
<1>3. n # 0
  <2>1. f[0] = Empty /\ DOMAIN Empty[part] = {}
    BY <1>0 DEF IsRun, Empty
  <2>2. FirstWins(chosen, part, 0, f[0][part])
    BY <2>1 DEF FirstWins
  <2> QED
    BY <1>2, <2>2
<1>4. n \in Nat /\ n \in 1..N /\ n - 1 \in 0..N /\ n - 1 < n
  BY <1>0, <1>3
<1>5. FirstWins(chosen, part, n - 1, f[n - 1][part])
  BY <1>2, <1>4
<1>6. f[n] = MergeNext(f[n - 1], Contents[n][chosen[n]])
  BY <1>3, <1>4 DEF IsRun, Held
<1>7. f[n][part] = KeepFirst(f[n - 1][part], Contents[n][chosen[n]][part])
  BY <1>6 DEF MergeNext
<1>8. FirstWins(chosen, part, n, f[n][part])
  BY <1>3, <1>4, <1>5, <1>7, NextKeepsFirst
<1> QED
  BY <1>2, <1>8

\* The loop computes the merge that ConfigPublication promises.
LEMMA MergeOrderedIsMerge ==
    ASSUME NEW chosen, \A p \in 1..N : chosen[p] # 0
    PROVE  MergeOrdered(chosen) = Publication!Merge(chosen)
<1>0. N \in Nat /\ N # 0
  BY SnapshotAssumption
<1>1. PICK f : IsRun(chosen, N, f) /\ MergeOrdered(chosen) = f[N]
  BY MergeOrderedRuns
<1> DEFINE s == f[N - 1]
           t == Held(N, chosen[N])
<1>2. f[N] = [upstreams |-> KeepFirst(s.upstreams, t.upstreams),
              relays    |-> KeepFirst(s.relays, t.relays)]
  <2>1. N \in 0..N
    BY <1>0
  <2>2. f[N] = IF N = 0 THEN Empty ELSE MergeNext(s, t)
    BY <1>1, <2>1 DEF IsRun
  <2> QED
    BY <1>0, <2>2 DEF MergeNext
<1> HIDE DEF s, t
<1>3. ASSUME NEW part \in {"upstreams", "relays"}
      PROVE  f[N][part] = Publication!Merge(chosen)[part]
  <2> DEFINE D == UNION {DOMAIN Contents[p][chosen[p]][part] : p \in 1..N}
  <2>1. FirstWins(chosen, part, N, f[N][part])
    BY <1>1, RunKeepsFirst
  <2>2. DOMAIN f[N][part] = D
    BY <2>1 DEF FirstWins
  <2>3. f[N][part] = [k \in DOMAIN f[N][part] |-> f[N][part][k]]
    <3>1. f[N][part] = KeepFirst(s[part], t[part])
      BY <1>2
    <3> QED
      BY <3>1 DEF KeepFirst
  <2>4. ASSUME NEW k \in D
        PROVE  f[N][part][k] = LET p == Publication!Owner(chosen, part, k)
                               IN  Contents[p][chosen[p]][part][k]
    <3> DEFINE definers == Publication!Definers(chosen, part, k)
               owner == Publication!Owner(chosen, part, k)
    <3>1. definers \subseteq 1..N /\ definers \subseteq Nat /\ definers # {}
      BY <1>0, <2>4 DEF Publication!Definers
    <3>2. PICK p \in definers : \A q \in definers : p <= q
      <4> HIDE DEF definers
      <4>1. PICK p \in definers : \A q \in definers : ~(q < p)
        BY <3>1, LeastNumber
      <4> QED
        BY <3>1, <4>1
    <3>3. owner \in definers /\ \A q \in definers : owner <= q
      BY <3>2 DEF Publication!Owner
    <3>4. /\ owner \in 1..N /\ k \in DOMAIN Contents[owner][chosen[owner]][part]
          /\ \A q \in 1..(owner - 1) : k \notin DOMAIN Contents[q][chosen[q]][part]
      <4>1. owner \in 1..N /\ k \in DOMAIN Contents[owner][chosen[owner]][part]
        BY <3>3 DEF Publication!Definers
      <4>2. ASSUME NEW q \in 1..(owner - 1), k \in DOMAIN Contents[q][chosen[q]][part]
            PROVE  FALSE
        <5>1. q \in 1..N /\ ~(owner <= q)
          BY <1>0, <4>1
        <5>2. q \in definers
          BY <4>2, <5>1 DEF Publication!Definers
        <5> QED
          BY <3>3, <5>1, <5>2
      <4> QED
        BY <4>1, <4>2
    <3> QED
      BY <2>1, <3>4 DEF FirstWins
  <2> QED
    BY <2>2, <2>3, <2>4 DEF Publication!Merge, Publication!Parts
<1>4. f[N] = [part \in Publication!Parts |-> f[N][part]]
  BY <1>2 DEF Publication!Parts
<1>5. Publication!Merge(chosen) = [part \in Publication!Parts |-> Publication!Merge(chosen)[part]]
  BY DEF Publication!Merge
<1> QED
  BY <1>1, <1>3, <1>4, <1>5 DEF Publication!Parts

\* No snapshot is older than the one in force or newer than its source, and once
\* the start is over every provider has one.
NeverOlder ==
    \A p \in 1..N : /\ installed[p] <= snapshots[p] /\ snapshots[p] <= Source(p)
                    /\ service.at # "start" => snapshots[p] # 0

\* Every step keeps it so.
LEMMA NeverOlderStep == TypeOK /\ NeverOlder /\ [Next]_vars => NeverOlder'
<1> SUFFICES ASSUME TypeOK, NeverOlder, [Next]_vars, NEW p \in 1..N
             PROVE  /\ installed'[p] <= snapshots'[p] /\ snapshots'[p] <= Source(p)'
                    /\ service'.at # "start" => snapshots'[p] # 0
  BY DEF NeverOlder
<1>1. /\ installed[p] \in Nat /\ snapshots[p] \in Nat /\ Source(p) \in Nat
      /\ installed[p] <= snapshots[p] /\ snapshots[p] <= Source(p)
      /\ service.at # "start" => snapshots[p] # 0
  BY DEF TypeOK, NeverOlder, Source
<1>2. ASSUME NEW q \in 1..N, Write(q) PROVE Source(p) <= Source(p)'
  <2>1. writes' = [writes EXCEPT ![q] = Append(@, now)] /\ writes[q] \in Seq(Nat) /\ now \in Nat
        /\ writes \in [1..N -> Seq(Nat)]
    BY <1>2 DEF Write, TypeOK
  <2>2. writes'[p] = writes[p] \/ (p = q /\ writes'[p] = Append(writes[p], now))
    BY <2>1
  <2> QED
    BY <1>1, <2>1, <2>2 DEF Source
<1>3. ASSUME NEW q \in 1..N, Write(q)
      PROVE  UNCHANGED <<installed, snapshots, service>> /\ Source(p)' \in Nat
  BY <1>3 DEF Write, Source, TypeOK
<1>4. ASSUME NEW q \in 1..N, InitialLoad(q) \/ LoadSucceeds(q)
      PROVE  /\ UNCHANGED <<installed, writes>> /\ service'.at = service.at
             /\ snapshots'[p] = IF p = q THEN Source(q) ELSE snapshots[p]
             /\ p = q => Source(q) # 0
  <2>1. Source(q) \in Valid(q) /\ snapshots' = [snapshots EXCEPT ![q] = Source(q)]
        /\ UNCHANGED <<installed, writes>>
    BY <1>4 DEF InitialLoad, LoadSucceeds
  <2>2. service'.at = service.at
    BY <1>4 DEF InitialLoad, LoadSucceeds, TypeOK
  <2>3. Source(q) # 0
    BY <2>1 DEF Valid, Versions
  <2> QED
    BY <2>1, <2>2, <2>3 DEF TypeOK
<1>5. ASSUME NEW q \in 1..N, LoadFails(q)
      PROVE  UNCHANGED <<installed, writes, snapshots>> /\ service'.at = service.at
  BY <1>5 DEF LoadFails, TypeOK
<1>6. CASE FirstInstall \/ Install
  BY <1>1, <1>6 DEF FirstInstall, Install, At, Source
<1>7. CASE NewRefresher \/ InvokedFresh \/ InvokedStale \/ Respond
  BY <1>1, <1>7 DEF NewRefresher, InvokedFresh, InvokedStale, Respond, Source
<1>8. CASE Tick \/ (\E d \in Steps : PutClock(d)) \/ UNCHANGED vars
  BY <1>1, <1>8 DEF Tick, PutClock, vars, Source
<1> QED
  BY <1>1, <1>2, <1>3, <1>4, <1>5, <1>6, <1>7, <1>8 DEF Next, Source

\* On Lambda too, what is in force is always the merge of valid versions of all
\* providers, and none is ever replaced by an older one, whichever loads fail.
THEOREM Refinement == Spec => ImplementsConfigPublication
<1> DEFINE written == [p \in 1..N |-> Source(p)]
<1>1. Init => Publication!Init /\ NeverOlder
  <2> SUFFICES ASSUME Init PROVE Publication!Init /\ NeverOlder
    OBVIOUS
  <2>1. \A p \in 1..N : Source(p) = 1
    BY DEF Init, Source
  <2>2. Empty = [part \in {"upstreams", "relays"} |-> << >>]
    BY DEF Empty
  <2>3. Publication!Init
    BY <2>1, <2>2 DEF Init, Unread, Publication!Init, Publication!Nothing, Publication!Parts
  <2>4. NeverOlder
    BY <2>1 DEF Init, Unread, NeverOlder
  <2> QED
    BY <2>3, <2>4
<1>2. TypeOK /\ NeverOlder /\ [Next]_vars
        => [Publication!Next]_<<written, installed, registry>>
  <2> SUFFICES ASSUME TypeOK, NeverOlder, [Next]_vars
               PROVE  Publication!Next \/ UNCHANGED <<written, installed, registry>>
    OBVIOUS
  <2>1. ASSUME NEW p \in 1..N, Write(p) PROVE Publication!Next
    <3>1. writes' = [writes EXCEPT ![p] = Append(@, now)] /\ now \in Nat
          /\ writes \in [1..N -> Seq(Nat)]
      BY <2>1 DEF Write, TypeOK
    <3>2. \A q \in 1..N : Len(writes'[q]) = IF q = p THEN Len(writes[q]) + 1 ELSE Len(writes[q])
      BY <3>1
    <3>3. written' = [written EXCEPT ![p] = @ + 1]
      BY <3>2 DEF Source
    <3>4. Publication!Write(p)
      BY <2>1, <3>3 DEF Write, Publication!Write
    <3> QED
      BY <3>4 DEF Publication!Next
  <2>2. CASE FirstInstall \/ Install
    <3>1. /\ registry' = MergeOrdered(snapshots) /\ installed' = snapshots
          /\ UNCHANGED writes
      BY <2>2 DEF FirstInstall, Install
    <3>2. \A p \in 1..N : snapshots[p] # 0
      BY <2>2 DEF FirstInstall, Install, NeverOlder
    <3>3. \A p \in 1..N : snapshots[p] \in Valid(p)
      BY <3>2 DEF TypeOK
    <3>4. registry' = Publication!Merge(snapshots)
      BY <3>1, <3>2, MergeOrderedIsMerge
    <3>5. \A p \in 1..N : installed[p] <= snapshots[p] /\ snapshots[p] <= written[p]
      BY DEF NeverOlder
    <3>6. UNCHANGED written
      BY <3>1 DEF Source
    <3>7. Publication!Publish(snapshots)
      BY <3>1, <3>4, <3>5, <3>6 DEF Publication!Publish
    <3>8. snapshots \in [1..N -> UNION {Valid(p) : p \in 1..N}]
      BY <3>3 DEF TypeOK
    <3> QED
      BY <3>3, <3>7, <3>8 DEF Publication!Next
  <2>3. ASSUME NEW p \in 1..N, InitialLoad(p) \/ LoadSucceeds(p) \/ LoadFails(p)
        PROVE  UNCHANGED <<written, installed, registry>>
    BY <2>3 DEF InitialLoad, LoadSucceeds, LoadFails, Source
  <2>4. CASE \/ Tick \/ NewRefresher \/ InvokedFresh \/ InvokedStale \/ Respond
             \/ UNCHANGED vars
    BY <2>4 DEF Tick, NewRefresher, InvokedFresh, InvokedStale, Respond, vars, Source
  <2>5. ASSUME NEW d \in Steps, PutClock(d)
        PROVE  UNCHANGED <<written, installed, registry>>
    BY <2>5 DEF PutClock, Source
  <2> QED
    BY <2>1, <2>2, <2>3, <2>4, <2>5 DEF Next
<1> QED
  BY <1>1, <1>2, NeverOlderStep, TypeCorrect, PTL
     DEF Spec, ImplementsConfigPublication, Publication!Spec
=============================================================================
