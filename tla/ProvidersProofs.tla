-------------------------- MODULE ProvidersProofs ---------------------------
(***************************************************************************)
(* Proofs about module Providers, for any number of providers and any      *)
(* contents of their sources.                                              *)
(***************************************************************************)
EXTENDS Providers, TLAPS

\* Where the main task can be.
MainAt == [at: {"await", "start", "poll", "collect", "exited"}, next: 1..(N + 1),
           changed: BOOLEAN]

\* The main task is where it can be.
LEMMA MainTyped == TypeOK => main \in MainAt
BY DEF TypeOK, MainAt

\* Type correctness: in particular only versions that passed validation are
\* ever loaded or sent.
THEOREM TypeCorrect == Spec => []TypeOK
<1>1. Init => TypeOK
  BY SnapshotAssumption DEF Init, TypeOK, Unread
<1>2. TypeOK /\ [Next]_vars => TypeOK'
  <2> SUFFICES ASSUME TypeOK, [Next]_vars PROVE TypeOK'
    OBVIOUS
  <2>0. N \in Nat /\ N > 0
    BY SnapshotAssumption
  <2>1. ASSUME NEW p \in 1..N, Write(p) PROVE TypeOK'
    <3>1. source' \in [1..N -> Nat]
      BY <2>1 DEF Write, TypeOK
    <3> QED BY <2>1, <3>1 DEF Write, TypeOK
  <2>2. ASSUME NEW p \in 1..N, Load(p) PROVE TypeOK'
    BY <2>2 DEF Load, TypeOK, Valid, Versions
  <2>3. ASSUME NEW p \in 1..N, LoadFails(p) PROVE TypeOK'
    BY <2>3 DEF LoadFails, TypeOK
  <2>4. ASSUME NEW p \in 1..N, Send(p) PROVE TypeOK'
    BY <2>4 DEF Send, TypeOK
  <2>5. ASSUME NEW p \in 1..N, AwaitInitial(p) PROVE TypeOK'
    <3>1. main' \in MainAt
      BY <2>0, <2>5, MainTyped DEF AwaitInitial, MainAt, Begin
    <3>2. channel' \in [1..N -> [value: Nat, unseen: BOOLEAN]]
          /\ \A q \in 1..N : channel'[q].value = channel[q].value
      BY <2>5 DEF AwaitInitial, TypeOK
    <3> QED BY <2>5, <3>1, <3>2 DEF AwaitInitial, TypeOK, MainAt
  <2>6. ASSUME NEW p \in 1..N, AwaitFails(p) PROVE TypeOK'
    BY <2>6 DEF AwaitFails, TypeOK
  <2>7. ASSUME NEW p \in 1..N, Collect(p) PROVE TypeOK'
    <3>1. main' \in MainAt
      BY <2>0, <2>7, MainTyped DEF Collect, MainAt
    <3> QED BY <2>7, <3>1 DEF Collect, TypeOK, MainAt
  <2>8. ASSUME NEW p \in 1..N, Poll(p) PROVE TypeOK'
    <3>1. PICK b \in BOOLEAN : main' = [main EXCEPT !.next = p + 1, !.changed = b]
      <4>1. (main.changed \/ channel[p].unseen) \in BOOLEAN
        OBVIOUS
      <4> QED BY <2>8, <4>1, Zenon DEF Poll
    <3>2. main' \in MainAt
      <4>1. p + 1 \in 1..(N + 1)
        BY <2>0
      <4> QED BY <3>1, <4>1, MainTyped DEF MainAt
    <3>3. channel' = [channel EXCEPT ![p].unseen = FALSE]
      BY <2>8 DEF Poll
    <3>4. channel' \in [1..N -> [value: Nat, unseen: BOOLEAN]]
          /\ \A q \in 1..N : channel'[q].value = channel[q].value
      <4>1. channel \in [1..N -> [value: Nat, unseen: BOOLEAN]]
        BY DEF TypeOK
      <4> QED BY <3>3, <4>1
    <3>5. UNCHANGED <<source, task, got, installed>>
      BY <2>8 DEF Poll
    <3> QED BY <3>2, <3>4, <3>5 DEF TypeOK, MainAt
  <2>9. ASSUME Install PROVE TypeOK'
    <3>1. main' \in MainAt
      BY <2>0, <2>9, MainTyped DEF Install, MainAt, Begin
    <3>2. got' \in [1..N -> Nat]
      BY <2>9 DEF Install, Unread
    <3> QED BY <2>9, <3>1, <3>2 DEF Install, TypeOK, MainAt
  <2>10. ASSUME Polled PROVE TypeOK'
    <3>1. main' \in MainAt
      BY <2>0, <2>10, MainTyped DEF Polled, MainAt, Begin
    <3> QED BY <2>10, <3>1 DEF Polled, TypeOK, MainAt
  <2>11. ASSUME UNCHANGED vars PROVE TypeOK'
    BY <2>11 DEF vars, TypeOK
  <2> QED BY <2>1, <2>2, <2>3, <2>4, <2>5, <2>6, <2>7, <2>8, <2>9, <2>10, <2>11
          DEF Next, Provide, Main
<1> QED BY <1>1, <1>2, PTL DEF Spec
-----------------------------------------------------------------------------
\* A version only moves forward on its way from the source over the task and
\* the channel into a merge, and it is a valid one that arrives there.
Ordered(p) ==
    /\ source[p] \in Versions(p)
    /\ channel[p].value <= source[p]
    /\ task[p].at = "send" => /\ task[p].version \in Valid(p)
                              /\ channel[p].value <= task[p].version
                              /\ task[p].version <= source[p]
    /\ installed[p] <= channel[p].value

\* What a provider has sent is not the default; from the end of start-up on,
\* every provider has sent.
HasSent(p) ==
    /\ channel[p].unseen => channel[p].value # 0
    /\ main.at \in {"start", "poll", "collect"} => channel[p].value # 0
    /\ main.at = "await" /\ p < main.next => channel[p].value # 0

\* What the merge under construction is made of: what lay in the channel when
\* it was read, and if that has changed since it is marked as unseen.
Noted(p) ==
    main.at \in {"start", "collect"} /\ p < main.next =>
        /\ got[p] \in Valid(p)
        /\ installed[p] <= got[p]
        /\ got[p] <= channel[p].value
        /\ got[p] = channel[p].value \/ channel[p].unseen

InOrder == \A p \in 1..N : Ordered(p) /\ HasSent(p) /\ Noted(p)

\* The order of versions holds at the start.
LEMMA InOrderInit == Init => InOrder
<1> SUFFICES ASSUME Init, NEW p \in 1..N PROVE Ordered(p) /\ HasSent(p) /\ Noted(p)
  BY DEF InOrder
<1>1. 1 \in Versions(p)
  BY SnapshotAssumption DEF Versions
<1> QED BY <1>1 DEF Init, Ordered, HasSent, Noted, Unread

\* Versions are natural numbers.
LEMMA VersionsAreNat == \A p \in 1..N : Valid(p) \subseteq Versions(p) /\ Versions(p) \subseteq Nat \ {0}
BY DEF Valid, Versions

\* Every step keeps versions in order.
LEMMA InOrderStep == TypeOK /\ InOrder /\ [Next]_vars => InOrder'
<1> SUFFICES ASSUME TypeOK, InOrder, [Next]_vars, NEW q \in 1..N
             PROVE  Ordered(q)' /\ HasSent(q)' /\ Noted(q)'
  BY DEF InOrder
<1>1. Ordered(q) /\ HasSent(q) /\ Noted(q)
  BY DEF InOrder
<1>2. /\ source[q] \in Nat /\ task[q].version \in Nat /\ channel[q].value \in Nat
      /\ got[q] \in Nat /\ installed[q] \in Nat
      /\ main.next \in 1..(N + 1)
      /\ N \in Nat
  BY SnapshotAssumption DEF TypeOK
<1>3. Valid(q) \subseteq Versions(q) /\ Versions(q) \subseteq Nat \ {0}
  BY VersionsAreNat
<1>4. ASSUME NEW p \in 1..N, Write(p) PROVE Ordered(q)' /\ HasSent(q)' /\ Noted(q)'
  <2>1. \/ source'[q] = source[q]
        \/ source'[q] = source[q] + 1 /\ source[q] < Len(Contents[q])
    <3>1. source \in [1..N -> Nat]
      BY DEF TypeOK
    <3> QED BY <1>4, <3>1 DEF Write
  <2>2. source'[q] \in Versions(q) /\ source'[q] >= source[q]
    BY <1>1, <1>2, <2>1, SnapshotAssumption DEF Ordered, Versions
  <2>3. source'[q] \in Nat
    BY <1>3, <2>2
  <2>4. UNCHANGED <<task, channel, main, merged, got, registry, installed>>
    BY <1>4 DEF Write
  <2> QED BY <1>1, <1>2, <2>2, <2>3, <2>4 DEF Ordered, HasSent, Noted
<1>5. ASSUME NEW p \in 1..N, Load(p) PROVE Ordered(q)' /\ HasSent(q)' /\ Noted(q)'
  <2>1. UNCHANGED <<source, channel, main, merged, got, registry, installed>>
    BY <1>5 DEF Load
  <2>2. \/ task'[q] = task[q]
        \/ /\ task'[q].at = "send" /\ task'[q].version = source[q]
           /\ source[q] \in Valid(q)
    BY <1>5 DEF Load, TypeOK
  <2> QED BY <1>1, <1>2, <2>1, <2>2 DEF Ordered, HasSent, Noted
<1>6. ASSUME NEW p \in 1..N, LoadFails(p) PROVE Ordered(q)' /\ HasSent(q)' /\ Noted(q)'
  <2>1. UNCHANGED <<source, channel, main, merged, got, registry, installed>>
    BY <1>6 DEF LoadFails
  <2>2. task'[q] = task[q] \/ task'[q].at = "stopped"
    BY <1>6 DEF LoadFails, TypeOK
  <2> QED BY <1>1, <1>2, <2>1, <2>2 DEF Ordered, HasSent, Noted
<1>7. ASSUME NEW p \in 1..N, Send(p) PROVE Ordered(q)' /\ HasSent(q)' /\ Noted(q)'
  <2>1. UNCHANGED <<source, main, merged, got, registry, installed>>
    BY <1>7 DEF Send
  <2>2. CASE q = p
    <3>1. /\ task[q].at = "send"
          /\ task'[q].at = "load"
          /\ channel'[q] = [value |-> task[q].version, unseen |-> TRUE]
      BY <1>7, <2>2 DEF Send, TypeOK
    <3>2. task[q].version # 0
      BY <1>1, <1>3, <3>1 DEF Ordered
    <3> QED BY <1>1, <1>2, <2>1, <3>1, <3>2 DEF Ordered, HasSent, Noted
  <2>3. CASE q # p
    <3>1. task'[q] = task[q] /\ channel'[q] = channel[q]
      BY <1>7, <2>3 DEF Send, TypeOK
    <3> QED BY <1>1, <2>1, <3>1 DEF Ordered, HasSent, Noted
  <2> QED BY <2>2, <2>3
<1>8. ASSUME NEW p \in 1..N, AwaitInitial(p) PROVE Ordered(q)' /\ HasSent(q)' /\ Noted(q)'
  <2>1. UNCHANGED <<source, task, merged, got, registry, installed>>
    BY <1>8 DEF AwaitInitial
  <2>2. /\ channel'[q].value = channel[q].value
        /\ channel'[q].unseen => channel[q].unseen
    BY <1>8 DEF AwaitInitial, TypeOK
  <2>3. /\ main.at = "await" /\ p = main.next
        /\ \/ p < N /\ main'.at = "await" /\ main'.next = p + 1
           \/ p = N /\ main'.at = "start" /\ main'.next = 1
    BY <1>8, <1>2 DEF AwaitInitial, Begin, TypeOK
  <2>4. q = p => channel[q].value # 0
    BY <1>8, <1>1 DEF AwaitInitial, HasSent
  <2>5. channel[q].value # 0 \/ q > p
    BY <1>1, <1>2, <2>3, <2>4 DEF HasSent
  <2>6. Ordered(q)'
    BY <1>1, <2>1, <2>2 DEF Ordered
  <2>7. HasSent(q)'
    BY <1>1, <1>2, <2>2, <2>3, <2>5 DEF HasSent
  <2>8. Noted(q)'
    BY <1>2, <2>3 DEF Noted
  <2> QED BY <2>6, <2>7, <2>8
<1>9. ASSUME NEW p \in 1..N, AwaitFails(p) PROVE Ordered(q)' /\ HasSent(q)' /\ Noted(q)'
  <2>1. UNCHANGED <<source, task, channel, merged, got, registry, installed>>
    BY <1>9 DEF AwaitFails
  <2>2. main'.at = "exited"
    BY <1>9 DEF AwaitFails, TypeOK
  <2> QED BY <1>1, <2>1, <2>2 DEF Ordered, HasSent, Noted
<1>10. ASSUME NEW p \in 1..N, Collect(p) PROVE Ordered(q)' /\ HasSent(q)' /\ Noted(q)'
  <2>1. UNCHANGED <<source, task, channel, registry, installed>>
    BY <1>10 DEF Collect
  <2>2. /\ main.at \in {"start", "collect"} /\ p = main.next
        /\ main'.at = main.at /\ main'.next = p + 1
    BY <1>10 DEF Collect, TypeOK
  <2>3. got'[q] = IF q = p THEN channel[q].value ELSE got[q]
    BY <1>10 DEF Collect, TypeOK
  <2>4. channel[q].value \in Valid(q)
    BY <1>1, <2>2 DEF HasSent, TypeOK
  <2>5. Noted(q)'
    BY <1>1, <1>2, <2>1, <2>2, <2>3, <2>4 DEF Noted, Ordered
  <2> QED BY <1>1, <2>1, <2>2, <2>5 DEF Ordered, HasSent
<1>11. ASSUME Install PROVE Ordered(q)' /\ HasSent(q)' /\ Noted(q)'
  <2>1. UNCHANGED <<source, task, channel>> /\ installed' = got
    BY <1>11 DEF Install
  <2>2. /\ main.at \in {"start", "collect"} /\ main.next = N + 1
        /\ main'.at = "poll"
    BY <1>11 DEF Install, Begin
  <2>3. installed'[q] <= channel[q].value
    BY <1>1, <1>2, <2>1, <2>2 DEF Noted
  <2> QED BY <1>1, <2>1, <2>2, <2>3 DEF Ordered, HasSent, Noted
<1>12. ASSUME NEW p \in 1..N, Poll(p) PROVE Ordered(q)' /\ HasSent(q)' /\ Noted(q)'
  <2>1. UNCHANGED <<source, task, merged, got, registry, installed>>
    BY <1>12 DEF Poll
  <2>2. channel' = [channel EXCEPT ![p].unseen = FALSE]
    BY <1>12 DEF Poll
  <2>3. /\ channel'[q].value = channel[q].value
        /\ channel'[q].unseen => channel[q].unseen
    BY <2>2 DEF TypeOK
  <2>4. main.at = "poll" /\ main'.at = "poll"
    BY <1>12 DEF Poll, TypeOK
  <2> QED BY <1>1, <2>1, <2>3, <2>4 DEF Ordered, HasSent, Noted
<1>13. ASSUME Polled PROVE Ordered(q)' /\ HasSent(q)' /\ Noted(q)'
  <2>1. UNCHANGED <<source, task, channel, merged, got, registry, installed>>
    BY <1>13 DEF Polled
  <2>2. /\ main.at = "poll"
        /\ main'.at \in {"poll", "collect"} /\ main'.next = 1
    BY <1>13 DEF Polled, Begin
  <2> QED BY <1>1, <1>2, <2>1, <2>2 DEF Ordered, HasSent, Noted
<1>14. ASSUME UNCHANGED vars PROVE Ordered(q)' /\ HasSent(q)' /\ Noted(q)'
  BY <1>1, <1>14 DEF vars, Ordered, HasSent, Noted
<1> QED BY <1>4, <1>5, <1>6, <1>7, <1>8, <1>9, <1>10, <1>11, <1>12, <1>13, <1>14
        DEF Next, Provide, Main

\* Every step keeps sight of what was sent and is not installed.
LEMMA NoLostUpdateStep ==
    TypeOK /\ InOrder /\ NoLostUpdate /\ [Next]_vars => NoLostUpdate'
<1> DEFINE Pending(q) ==
        Serving /\ installed[q] # channel[q].value =>
            \/ channel[q].unseen
            \/ main.at = "poll" /\ main.changed
            \/ main.at = "collect" /\ (q >= main.next \/ got[q] = channel[q].value)
<1> SUFFICES ASSUME TypeOK, InOrder, NoLostUpdate, [Next]_vars, NEW q \in 1..N
             PROVE  Pending(q)'
  BY DEF NoLostUpdate
<1>1. Pending(q) /\ Noted(q)
  BY DEF NoLostUpdate, InOrder
<1>2. /\ main.next \in 1..(N + 1) /\ N \in Nat
      /\ main.changed \in BOOLEAN /\ channel[q].unseen \in BOOLEAN
  BY SnapshotAssumption DEF TypeOK
<1>3. ASSUME UNCHANGED <<channel, main, got, installed>> PROVE Pending(q)'
  BY <1>1, <1>3 DEF Serving
<1>4. ASSUME NEW p \in 1..N, Send(p) PROVE Pending(q)'
  <2>1. UNCHANGED <<main, got, installed>>
    BY <1>4 DEF Send
  <2>2. channel'[q] = channel[q] \/ channel'[q].unseen
    BY <1>4 DEF Send, TypeOK
  <2> QED BY <1>1, <2>1, <2>2 DEF Serving
<1>5. ASSUME NEW p \in 1..N, AwaitInitial(p) \/ AwaitFails(p) PROVE Pending(q)'
  <2>1. main'.at \notin {"poll", "collect"}
    BY <1>5 DEF AwaitInitial, AwaitFails, Begin, TypeOK
  <2> QED BY <2>1 DEF Serving
<1>6. ASSUME NEW p \in 1..N, Collect(p) PROVE Pending(q)'
  <2>1. UNCHANGED <<channel, installed>>
    BY <1>6 DEF Collect
  <2>2. /\ main.at \in {"start", "collect"} /\ p = main.next
        /\ main'.at = main.at /\ main'.next = p + 1
    BY <1>6 DEF Collect, TypeOK
  <2>3. got'[q] = IF q = p THEN channel[q].value ELSE got[q]
    BY <1>6 DEF Collect, TypeOK
  <2>4. q >= main.next /\ q # p => q >= main'.next
    BY <1>2, <2>2
  <2> QED BY <1>1, <2>1, <2>2, <2>3, <2>4 DEF Serving
<1>7. ASSUME Install PROVE Pending(q)'
  <2>1. UNCHANGED channel /\ installed' = got
    BY <1>7 DEF Install
  <2>2. main.at \in {"start", "collect"} /\ q < main.next
    BY <1>2, <1>7 DEF Install
  <2>3. got[q] = channel[q].value \/ channel[q].unseen
    BY <1>1, <2>2 DEF Noted
  <2> QED BY <2>1, <2>3
<1>8. ASSUME NEW p \in 1..N, Poll(p) PROVE Pending(q)'
  <2>1. UNCHANGED <<got, installed>>
    BY <1>8 DEF Poll
  <2>2. channel' = [channel EXCEPT ![p].unseen = FALSE]
    BY <1>8 DEF Poll
  <2>3. /\ channel'[q].value = channel[q].value
        /\ q # p => channel'[q] = channel[q]
    BY <2>2 DEF TypeOK
  <2>4. main.at = "poll" /\ main'.at = "poll"
    BY <1>8 DEF Poll, TypeOK
  <2>5. main'.changed = (main.changed \/ channel[p].unseen)
    BY <1>8 DEF Poll, TypeOK
  <2> QED BY <1>1, <2>1, <2>3, <2>4, <2>5 DEF Serving
<1>9. ASSUME Polled PROVE Pending(q)'
  <2>1. UNCHANGED <<channel, installed>>
    BY <1>9 DEF Polled
  <2>2. /\ main.at = "poll" /\ main'.next = 1
        /\ main'.at = IF main.changed THEN "collect" ELSE "poll"
    BY <1>9 DEF Polled, Begin
  <2> QED BY <1>1, <1>2, <2>1, <2>2 DEF Serving
<1> QED BY <1>3, <1>4, <1>5, <1>6, <1>7, <1>8, <1>9
        DEF Next, Provide, Main, Write, Load, LoadFails, vars

\* The updater loses nothing: what was sent and is not in force is still going
\* to be noticed or installed, wherever the updater is and whatever is sent
\* while it marks, reads and merges.
THEOREM NoLostUpdateHolds == Spec => []NoLostUpdate
<1>1. Init => NoLostUpdate
  BY DEF Init, NoLostUpdate, Serving
<1>2. Init => InOrder
  BY InOrderInit
<1>3. TypeOK /\ InOrder /\ NoLostUpdate /\ [Next]_vars => (InOrder /\ NoLostUpdate)'
  BY InOrderStep, NoLostUpdateStep
<1> QED BY <1>1, <1>2, <1>3, TypeCorrect, PTL DEF Spec
-----------------------------------------------------------------------------
\* Kinds of resources.
Kinds == {"upstreams", "relays"}

\* Of the versions chosen, provider p's is the first that defines key k.
First(chosen, kind, p, k) ==
    /\ k \in DOMAIN Contents[p][chosen[p]][kind]
    /\ \A q \in 1..N : q < p => k \notin DOMAIN Contents[q][chosen[q]][kind]

\* m is the merge of what the first n providers have chosen: each key of theirs
\* is there, defined as the first of them defines it.
IsMerge(m, chosen, n) ==
    /\ m = [upstreams |-> m.upstreams, relays |-> m.relays]
    /\ \A kind \in Kinds :
         /\ m[kind] = [k \in DOMAIN m[kind] |-> m[kind][k]]
         /\ \A p \in 1..N : p <= n => DOMAIN Contents[p][chosen[p]][kind] \subseteq DOMAIN m[kind]
         /\ \A k \in DOMAIN m[kind] :
              \E p \in 1..N : /\ p <= n
                              /\ First(chosen, kind, p, k)
                              /\ m[kind][k] = Contents[p][chosen[p]][kind][k]

\* Nothing is the merge of no providers.
LEMMA EmptyIsMerge == ASSUME NEW chosen PROVE IsMerge(Empty, chosen, 0)
<1>1. ASSUME NEW kind \in Kinds PROVE Empty[kind] = << >>
  BY DEF Empty, Kinds
<1>2. << >> = [k \in DOMAIN << >> |-> << >>[k]] /\ DOMAIN << >> = {}
  OBVIOUS
<1> QED BY <1>1, <1>2 DEF IsMerge, Empty

\* One turn of the loop adds one provider to a merge.
LEMMA MergeNextIsMerge ==
    ASSUME NEW m, NEW chosen, NEW chosen2, NEW p \in 1..N,
           IsMerge(m, chosen, p - 1),
           \A q \in 1..N : q # p => chosen2[q] = chosen[q]
    PROVE  IsMerge(MergeNext(m, Contents[p][chosen2[p]]), chosen2, p)
<1> DEFINE s == Contents[p][chosen2[p]]
           w == MergeNext(m, s)
<1>0. N \in Nat
  BY SnapshotAssumption
<1>1. w = [upstreams |-> w.upstreams, relays |-> w.relays]
  BY DEF MergeNext
<1>2. ASSUME NEW kind \in Kinds
      PROVE  /\ w[kind] = [k \in DOMAIN w[kind] |-> w[kind][k]]
             /\ \A q \in 1..N : q <= p => DOMAIN Contents[q][chosen2[q]][kind] \subseteq DOMAIN w[kind]
             /\ \A k \in DOMAIN w[kind] :
                  \E q \in 1..N : /\ q <= p
                                  /\ First(chosen2, kind, q, k)
                                  /\ w[kind][k] = Contents[q][chosen2[q]][kind][k]
  <2>1. w[kind] = KeepFirst(m[kind], s[kind])
    BY <1>2 DEF MergeNext, Kinds
  <2>2. /\ DOMAIN w[kind] = DOMAIN m[kind] \cup DOMAIN s[kind]
        /\ \A k \in DOMAIN w[kind] :
             w[kind][k] = IF k \in DOMAIN m[kind] THEN m[kind][k] ELSE s[kind][k]
        /\ w[kind] = [k \in DOMAIN w[kind] |-> w[kind][k]]
    <3> HIDE DEF w, s
    <3> DEFINE f == m[kind]
               g == s[kind]
    <3>1. w[kind] = KeepFirst(f, g)
      BY <2>1
    <3> HIDE DEF f, g
    <3>2. /\ DOMAIN KeepFirst(f, g) = DOMAIN f \cup DOMAIN g
          /\ \A k \in DOMAIN f \cup DOMAIN g :
               KeepFirst(f, g)[k] = IF k \in DOMAIN f THEN f[k] ELSE g[k]
          /\ KeepFirst(f, g) = [k \in DOMAIN KeepFirst(f, g) |-> KeepFirst(f, g)[k]]
      BY DEF KeepFirst
    <3>3. /\ DOMAIN w[kind] = DOMAIN f \cup DOMAIN g
          /\ \A k \in DOMAIN w[kind] : w[kind][k] = IF k \in DOMAIN f THEN f[k] ELSE g[k]
          /\ w[kind] = [k \in DOMAIN w[kind] |-> w[kind][k]]
      BY <3>1, <3>2
    <3> QED BY <3>3 DEF f, g
  <2>3. \A q \in 1..N : q <= p - 1 => DOMAIN Contents[q][chosen[q]][kind] \subseteq DOMAIN m[kind]
    BY <1>2 DEF IsMerge
  <2>4. ASSUME NEW q \in 1..N, q <= p
        PROVE  DOMAIN Contents[q][chosen2[q]][kind] \subseteq DOMAIN w[kind]
    <3>1. CASE q = p
      BY <2>2, <3>1
    <3>2. CASE q # p
      <4>1. q <= p - 1
        BY <2>4, <3>2
      <4> QED BY <2>2, <2>3, <3>2, <4>1
    <3> QED BY <3>1, <3>2
  <2>5. ASSUME NEW k \in DOMAIN w[kind]
        PROVE  \E q \in 1..N : /\ q <= p
                               /\ First(chosen2, kind, q, k)
                               /\ w[kind][k] = Contents[q][chosen2[q]][kind][k]
    <3>1. CASE k \in DOMAIN m[kind]
      <4>1. PICK q \in 1..N : /\ q <= p - 1
                              /\ First(chosen, kind, q, k)
                              /\ m[kind][k] = Contents[q][chosen[q]][kind][k]
        BY <1>2, <3>1 DEF IsMerge
      <4>2. q < p
        BY <4>1
      <4>3. \A r \in 1..N : r <= q => chosen2[r] = chosen[r]
        BY <4>2
      <4>4. q \in 1..N /\ q <= q /\ \A r \in 1..N : r < q => r <= q
        OBVIOUS
      <4>5. First(chosen2, kind, q, k)
        BY <4>1, <4>3, <4>4 DEF First
      <4>6. w[kind][k] = Contents[q][chosen2[q]][kind][k]
        BY <2>2, <3>1, <4>1, <4>3, <4>4
      <4> QED BY <4>2, <4>5, <4>6
    <3>2. CASE k \notin DOMAIN m[kind]
      <4>1. k \in DOMAIN s[kind] /\ w[kind][k] = s[kind][k]
        BY <2>2, <2>5, <3>2
      <4>2. ASSUME NEW q \in 1..N, q < p PROVE k \notin DOMAIN Contents[q][chosen2[q]][kind]
        <5>1. q <= p - 1 /\ q # p
          BY <4>2
        <5> QED BY <2>3, <3>2, <5>1
      <4>3. First(chosen2, kind, p, k)
        BY <4>1, <4>2 DEF First
      <4> QED BY <4>1, <4>3
    <3> QED BY <3>1, <3>2
  <2> QED BY <2>2, <2>4, <2>5
<1> QED BY <1>1, <1>2 DEF IsMerge

\* The merge under construction is that of the providers read so far.
MergedSoFar ==
    IF main.at \in {"start", "collect"} THEN IsMerge(merged, got, main.next - 1)
    ELSE merged = Empty

\* The registry holds the merge of valid versions of all providers.
RegistryMerged ==
    IF Serving THEN /\ IsMerge(registry, installed, N)
                    /\ \A p \in 1..N : installed[p] \in Valid(p)
    ELSE registry = Empty /\ installed = Unread

\* The merge under construction stays a merge.
LEMMA MergedSoFarStep == TypeOK /\ InOrder /\ MergedSoFar /\ [Next]_vars => MergedSoFar'
<1> SUFFICES ASSUME TypeOK, InOrder, MergedSoFar, [Next]_vars PROVE MergedSoFar'
  OBVIOUS
<1>0. N \in Nat /\ N > 0 /\ main.next \in 1..(N + 1)
  BY SnapshotAssumption DEF TypeOK
<1>1. CASE UNCHANGED <<main, merged, got>>
  BY <1>1 DEF MergedSoFar, IsMerge, First
<1>2. ASSUME NEW p \in 1..N, AwaitInitial(p) PROVE MergedSoFar'
  <2>1. merged' = Empty /\ main.at = "await"
    BY <1>2 DEF AwaitInitial, MergedSoFar
  <2>2. CASE p < N
    <3>1. main'.at = "await"
      BY <1>2, <2>2 DEF AwaitInitial, TypeOK
    <3> QED BY <2>1, <3>1 DEF MergedSoFar
  <2>3. CASE ~(p < N)
    <3>1. main'.at = "start" /\ main'.next - 1 = 0
      BY <1>2, <2>3 DEF AwaitInitial, Begin
    <3>2. IsMerge(Empty, got', 0)
      BY EmptyIsMerge
    <3> QED BY <2>1, <3>1, <3>2 DEF MergedSoFar
  <2> QED BY <2>2, <2>3
<1>3. ASSUME NEW p \in 1..N, AwaitFails(p) PROVE MergedSoFar'
  BY <1>3 DEF AwaitFails, MergedSoFar, TypeOK
<1>4. ASSUME NEW p \in 1..N, Collect(p) PROVE MergedSoFar'
  <2>1. /\ main.at \in {"start", "collect"} /\ main.next = p
        /\ main'.at = main.at /\ main'.next = p + 1
    BY <1>4 DEF Collect, TypeOK
  <2>2. channel[p].value # 0
    BY <2>1 DEF InOrder, HasSent
  <2>3. merged' = MergeNext(merged, Contents[p][got'[p]])
    BY <1>4, <2>2 DEF Collect, Snapshot, Held, TypeOK
  <2>4. \A q \in 1..N : q # p => got'[q] = got[q]
    BY <1>4 DEF Collect, TypeOK
  <2>5. IsMerge(merged, got, p - 1)
    BY <2>1 DEF MergedSoFar
  <2>6. IsMerge(MergeNext(merged, Contents[p][got'[p]]), got', p)
    BY <2>4, <2>5, MergeNextIsMerge
  <2>7. main'.next - 1 = p
    BY <2>1
  <2> QED BY <2>1, <2>3, <2>6, <2>7 DEF MergedSoFar
<1>5. ASSUME Install PROVE MergedSoFar'
  BY <1>5 DEF Install, MergedSoFar, Begin
<1>6. ASSUME NEW p \in 1..N, Poll(p) PROVE MergedSoFar'
  <2>1. main.at = "poll" /\ main'.at = "poll" /\ UNCHANGED merged
    BY <1>6 DEF Poll, TypeOK
  <2> QED BY <2>1 DEF MergedSoFar
<1>7. ASSUME Polled PROVE MergedSoFar'
  <2>1. merged' = Empty /\ main'.next = 1 /\ main'.at \in {"poll", "collect"}
    BY <1>7 DEF Polled, MergedSoFar, Begin
  <2>2. IsMerge(Empty, got', 0) /\ main'.next - 1 = 0
    BY <2>1, EmptyIsMerge
  <2> QED BY <2>1, <2>2 DEF MergedSoFar
<1> QED BY <1>1, <1>2, <1>3, <1>4, <1>5, <1>6, <1>7
        DEF Next, Provide, Main, Write, Load, LoadFails, Send, vars

\* The registry stays a merge.
LEMMA RegistryMergedStep ==
    TypeOK /\ InOrder /\ MergedSoFar /\ RegistryMerged /\ [Next]_vars => RegistryMerged'
<1> SUFFICES ASSUME TypeOK, InOrder, MergedSoFar, RegistryMerged, [Next]_vars
             PROVE  RegistryMerged'
  OBVIOUS
<1>0. N \in Nat /\ N > 0
  BY SnapshotAssumption
<1>1. CASE UNCHANGED <<registry, installed>> /\ Serving' = Serving
  BY <1>1 DEF RegistryMerged, IsMerge, First
<1>2. ASSUME NEW p \in 1..N, AwaitInitial(p) PROVE Serving' = Serving
  BY <1>2 DEF AwaitInitial, Serving, Begin, TypeOK
<1>3. ASSUME NEW p \in 1..N, AwaitFails(p) PROVE Serving' = Serving
  BY <1>3 DEF AwaitFails, Serving, TypeOK
<1>4. ASSUME NEW p \in 1..N, Collect(p) PROVE Serving' = Serving
  BY <1>4 DEF Collect, Serving, TypeOK
<1>5. ASSUME Install PROVE RegistryMerged'
  <2>1. /\ registry' = merged /\ installed' = got /\ main'.at = "poll"
        /\ main.at \in {"start", "collect"} /\ main.next - 1 = N /\ main.next = N + 1
    BY <1>0, <1>5 DEF Install, Begin
  <2>2. IsMerge(merged, got, N)
    BY <2>1 DEF MergedSoFar
  <2>3. \A p \in 1..N : got[p] \in Valid(p)
    <3>1. \A p \in 1..N : p < N + 1
      BY <1>0
    <3> QED BY <2>1, <3>1 DEF InOrder, Noted
  <2> QED BY <2>1, <2>2, <2>3 DEF RegistryMerged, Serving, Valid, Versions
<1>6. ASSUME NEW p \in 1..N, Poll(p) PROVE Serving' = Serving
  BY <1>6 DEF Poll, Serving, TypeOK
<1>7. ASSUME Polled PROVE Serving' = Serving
  BY <1>7 DEF Polled, Serving, Begin
<1> QED BY <1>1, <1>2, <1>3, <1>4, <1>5, <1>6, <1>7
        DEF Next, Provide, Main, Write, Load, LoadFails, Send, AwaitInitial, AwaitFails,
            Collect, Poll, Polled, Serving, vars

\* The invariant from which the rest follows.
IInv == TypeOK /\ InOrder /\ MergedSoFar /\ RegistryMerged

\* The invariant holds.
LEMMA Inductive == Spec => []IInv
<1>1. Init => InOrder /\ MergedSoFar /\ RegistryMerged
  BY InOrderInit DEF Init, MergedSoFar, RegistryMerged, Serving
<1>2. TypeOK /\ InOrder /\ MergedSoFar /\ RegistryMerged /\ [Next]_vars
        => (InOrder /\ MergedSoFar /\ RegistryMerged)'
  BY InOrderStep, MergedSoFarStep, RegistryMergedStep
<1> QED BY <1>1, <1>2, TypeCorrect, PTL DEF Spec, IInv

\* A relay in force came with an upstream of that name, and a merge never drops
\* a name: no relay in force lacks its upstream.
THEOREM RelaysClosedHolds == Spec => []RelaysClosed
<1>1. IInv => RelaysClosed
  <2> SUFFICES ASSUME IInv, NEW r \in DOMAIN registry.relays
               PROVE  registry.relays[r] \in DOMAIN registry.upstreams
    BY DEF RelaysClosed, Closed
  <2>1. Serving
    BY DEF IInv, RegistryMerged, Empty
  <2>2. IsMerge(registry, installed, N) /\ \A p \in 1..N : installed[p] \in Valid(p)
    BY <2>1 DEF IInv, RegistryMerged
  <2>3. PICK p \in 1..N : /\ r \in DOMAIN Contents[p][installed[p]].relays
                          /\ registry.relays[r] = Contents[p][installed[p]].relays[r]
    BY <2>2 DEF IsMerge, First, Kinds
  <2>4. Contents[p][installed[p]].relays[r] \in DOMAIN Contents[p][installed[p]].upstreams
    BY <2>2, <2>3 DEF Valid, Closed
  <2>5. DOMAIN Contents[p][installed[p]].upstreams \subseteq DOMAIN registry.upstreams
    <3>1. p <= N
      BY SnapshotAssumption
    <3> QED BY <2>2, <3>1 DEF IsMerge, Kinds
  <2> QED BY <2>3, <2>4, <2>5
<1> QED BY <1>1, Inductive, PTL

\* Only a provider with precedence can redefine the upstream a relay came with.
THEOREM NoLaterUpstreamHolds == Spec => []NoLaterUpstream
<1>1. IInv => NoLaterUpstream
  <2> SUFFICES ASSUME IInv, NEW r \in DOMAIN registry.relays
               PROVE  \E p \in 1..N :
                        /\ r \in DOMAIN Contents[p][installed[p]].relays
                        /\ \A q \in 1..(p - 1) :
                             r \notin DOMAIN Contents[q][installed[q]].relays
                        /\ \E q \in 1..p :
                             /\ registry.relays[r] \in DOMAIN Contents[q][installed[q]].upstreams
                             /\ registry.upstreams[registry.relays[r]]
                                = Contents[q][installed[q]].upstreams[registry.relays[r]]
    BY DEF NoLaterUpstream
  <2>0. N \in Nat
    BY SnapshotAssumption
  <2>1. Serving
    BY DEF IInv, RegistryMerged, Empty
  <2>2. IsMerge(registry, installed, N) /\ \A p \in 1..N : installed[p] \in Valid(p)
    BY <2>1 DEF IInv, RegistryMerged
  <2>3. PICK p \in 1..N : /\ First(installed, "relays", p, r)
                          /\ registry.relays[r] = Contents[p][installed[p]].relays[r]
    BY <2>2 DEF IsMerge, Kinds
  <2> DEFINE u == registry.relays[r]
  <2>4. u \in DOMAIN Contents[p][installed[p]].upstreams
    BY <2>2, <2>3 DEF Valid, Closed, First
  <2>5. u \in DOMAIN registry.upstreams
    <3>1. p <= N
      BY <2>0
    <3> QED BY <2>2, <2>4, <3>1 DEF IsMerge, Kinds
  <2>6. PICK q \in 1..N : /\ First(installed, "upstreams", q, u)
                          /\ registry.upstreams[u] = Contents[q][installed[q]].upstreams[u]
    BY <2>2, <2>5 DEF IsMerge, Kinds
  <2>7. q \in 1..p
    <3>1. ~(p < q)
      BY <2>4, <2>6 DEF First
    <3> QED BY <2>0, <3>1
  <2>8. \A o \in 1..(p - 1) : o \in 1..N /\ o < p
    BY <2>0
  <2> QED BY <2>3, <2>6, <2>7, <2>8 DEF First
<1> QED BY <1>1, Inductive, PTL
-----------------------------------------------------------------------------
\* There is only one merge of what all providers have chosen: the one that is
\* promised.
LEMMA MergeIsUnique ==
    ASSUME NEW m, NEW chosen, IsMerge(m, chosen, N)
    PROVE  m = Publication!Merge(chosen)
<1>0. \A p \in 1..N : p <= N /\ p \in Nat
  BY SnapshotAssumption
<1>1. ASSUME NEW kind \in Kinds
      PROVE  m[kind] = [k \in UNION {DOMAIN Contents[p][chosen[p]][kind] : p \in 1..N} |->
                          LET p == Publication!Owner(chosen, kind, k)
                          IN  Contents[p][chosen[p]][kind][k]]
  <2>1. \A k \in DOMAIN m[kind] :
          \E p \in 1..N : /\ First(chosen, kind, p, k)
                          /\ m[kind][k] = Contents[p][chosen[p]][kind][k]
    BY <1>1 DEF IsMerge
  <2>2. \A p \in 1..N : DOMAIN Contents[p][chosen[p]][kind] \subseteq DOMAIN m[kind]
    BY <1>0, <1>1 DEF IsMerge
  <2>3. m[kind] = [k \in DOMAIN m[kind] |-> m[kind][k]]
    BY <1>1 DEF IsMerge
  <2>4. DOMAIN m[kind] = UNION {DOMAIN Contents[p][chosen[p]][kind] : p \in 1..N}
    BY <2>1, <2>2 DEF First
  <2>5. ASSUME NEW k \in DOMAIN m[kind]
        PROVE  m[kind][k] = LET p == Publication!Owner(chosen, kind, k)
                            IN  Contents[p][chosen[p]][kind][k]
    <3>1. PICK p \in 1..N : /\ First(chosen, kind, p, k)
                            /\ m[kind][k] = Contents[p][chosen[p]][kind][k]
      BY <2>1
    <3>2. p \in Publication!Definers(chosen, kind, k)
      BY <3>1 DEF First, Publication!Definers
    <3>3. \A q \in Publication!Definers(chosen, kind, k) : p <= q
      BY <1>0, <3>1 DEF First, Publication!Definers
    <3>4. Publication!Definers(chosen, kind, k) \subseteq Nat
      BY <1>0 DEF Publication!Definers
    <3>5. Publication!Owner(chosen, kind, k) = p
      <4>1. ASSUME NEW q \in Publication!Definers(chosen, kind, k),
                   \A o \in Publication!Definers(chosen, kind, k) : q <= o
            PROVE  q = p
        <5>1. q <= p /\ p <= q /\ p \in Nat /\ q \in Nat
          BY <3>2, <3>3, <3>4, <4>1
        <5> QED BY <5>1
      <4> QED BY <3>2, <3>3, <4>1 DEF Publication!Owner
    <3> QED BY <3>1, <3>5
  <2> QED BY <2>3, <2>4, <2>5
<1>2. m = [upstreams |-> m.upstreams, relays |-> m.relays]
  BY DEF IsMerge
<1>3. m = [part \in Publication!Parts |-> m[part]]
  BY <1>2 DEF Publication!Parts
<1>4. Publication!Parts = Kinds
  BY DEF Publication!Parts, Kinds
<1> QED BY <1>1, <1>3, <1>4 DEF Publication!Merge

\* Torn reads notwithstanding, the server implements the promise: every change
\* of the registry publishes a merge of valid versions none of which is older
\* than the one it replaces.
THEOREM Refinement == Spec => ImplementsConfigPublication
<1>1. Init => Publication!Init
  <2>1. Empty = [part \in {"upstreams", "relays"} |-> << >>]
    BY DEF Empty
  <2> QED BY <2>1 DEF Init, Unread, Publication!Init, Publication!Nothing, Publication!Parts
<1>2. IInv /\ [Next]_vars => [Publication!Next]_<<source, installed, registry>>
  <2> SUFFICES ASSUME IInv, [Next]_vars
               PROVE  Publication!Next \/ UNCHANGED <<source, installed, registry>>
    BY DEF IInv
  <2>1. ASSUME NEW p \in 1..N, Write(p) PROVE Publication!Next
    <3>1. Publication!Write(p)
      BY <2>1 DEF Write, Publication!Write
    <3> QED BY <3>1 DEF Publication!Next
  <2>2. ASSUME Install PROVE Publication!Next
    <3>0. N \in Nat
      BY SnapshotAssumption
    <3>1. /\ registry' = merged /\ installed' = got /\ UNCHANGED source
          /\ main.at \in {"start", "collect"} /\ main.next = N + 1
      BY <2>2 DEF Install
    <3>2. main.next - 1 = N /\ \A p \in 1..N : p < N + 1
      BY <3>0, <3>1
    <3>3. registry' = Publication!Merge(got)
      <4>1. IsMerge(merged, got, N)
        BY <3>1, <3>2 DEF IInv, MergedSoFar
      <4> QED BY <3>1, <4>1, MergeIsUnique
    <3>4. \A p \in 1..N : installed[p] <= got[p] /\ got[p] <= source[p]
      <4> SUFFICES ASSUME NEW p \in 1..N
                   PROVE  installed[p] <= got[p] /\ got[p] <= source[p]
        OBVIOUS
      <4>1. Noted(p) /\ Ordered(p)
        BY DEF IInv, InOrder
      <4>2. /\ installed[p] <= got[p] /\ got[p] <= channel[p].value
            /\ channel[p].value <= source[p]
        BY <3>1, <3>2, <4>1 DEF Noted, Ordered
      <4>3. got[p] \in Nat /\ channel[p].value \in Nat /\ source[p] \in Nat
        BY DEF IInv, TypeOK
      <4> QED BY <4>2, <4>3
    <3>5. Publication!Publish(got)
      BY <3>1, <3>3, <3>4 DEF Publication!Publish
    <3>6. \A p \in 1..N : got[p] \in Valid(p)
      BY <3>1, <3>2 DEF IInv, InOrder, Noted
    <3>7. got \in [1..N -> UNION {Valid(p) : p \in 1..N}]
      BY <3>6 DEF IInv, TypeOK
    <3> QED BY <3>5, <3>6, <3>7 DEF Publication!Next
  <2>3. ASSUME NEW p \in 1..N,
               Provide(p) \/ AwaitInitial(p) \/ AwaitFails(p) \/ Collect(p) \/ Poll(p)
        PROVE  UNCHANGED <<source, installed, registry>>
    BY <2>3 DEF Provide, Load, LoadFails, Send, AwaitInitial, AwaitFails, Collect, Poll
  <2>4. CASE Polled
    BY <2>4 DEF Polled
  <2>5. CASE UNCHANGED vars
    BY <2>5 DEF vars
  <2> QED BY <2>1, <2>2, <2>3, <2>4, <2>5 DEF Next, Main
<1> QED BY <1>1, <1>2, Inductive, PTL DEF Spec, ImplementsConfigPublication, Publication!Spec
=============================================================================
