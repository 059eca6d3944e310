-------------------------- MODULE RedemptionProofs --------------------------
(***************************************************************************)
(* Proofs about module Redemption, for any number of processes, codes and  *)
(* handlers, any clock skew, any TTL and any bound.                        *)
(*                                                                         *)
(* ReuseGap is not inductive: that a second yes comes late follows from    *)
(* what the cache still holds, which Remembered says.  The two properties  *)
(* about freshness follow from what every request and every use carries    *)
(* from the moment it was checked, which Timely says.                      *)
(***************************************************************************)
EXTENDS Redemption, TLAPS

\* Every instant a request or a use carries lies where the code that made it
\* says, and its code was fresh when it was checked.
CodesTimely == \A c \in sealed : /\ c.minted <= clock
                                 /\ c.issued_at = UnixSeconds(c.by, c.minted)

CheckedTimely(r) == /\ r.code \in sealed
                    /\ r.checked <= clock
                    /\ Fresh(r.proc, r.checked, r.code.issued_at)

ValidatingTimely == \A v \in validating : CheckedTimely(v)

LockingTimely == \A l \in locking : /\ CheckedTimely(l)
                                    /\ l.checked <= l.now
                                    /\ l.now <= clock

UseTimely(u) == /\ CheckedTimely(u)
                /\ u.checked <= u.now
                /\ u.now <= u.locked
                /\ u.locked <= clock
                /\ u.life <= restarts[u.proc]

UsesTimely == \A i \in DOMAIN uses : UseTimely(uses[i])

Timely == CodesTimely /\ ValidatingTimely /\ LockingTimely /\ UsesTimely

\* An envelope_id names one code.
UniqueIds == \A c, d \in sealed : c.id = d.id => c = d

\* A use in the present life of a process with a cache is still in that cache
\* until CODE_TTL after the instant it read.
StillHeld(u) == \/ u.now + CodeWindow <= clock
                \/ \E e \in cache[u.proc] : /\ e.id = u.code.id
                                            /\ e.expires >= u.now + CodeWindow

Remembered == \A i \in DOMAIN uses :
                 uses[i].proc \in Cached /\ uses[i].life = restarts[uses[i].proc]
                   => StillHeld(uses[i])

IInv == TypeOK /\ Timely /\ UniqueIds /\ Remembered /\ ReuseGap /\ BurntMeansUsed
-----------------------------------------------------------------------------
\* The wall clock in seconds is a natural number.
LEMMA SecondsAreNat ==
    ASSUME NEW p \in Procs, NEW t \in Nat
    PROVE  UnixSeconds(p, t) \in Nat
<1>1. TicksPerSec \in Nat /\ TicksPerSec > 0 /\ t + Skew[p] \in Nat
  BY RedemptionAssumption
<1>2. \A a, b \in Nat : b > 0 => a \div b \in Nat
  OBVIOUS
<1> QED BY <1>1, <1>2 DEF UnixSeconds

\* CODE_TTL in ticks is a natural number.
LEMMA WindowIsNat == CodeWindow \in Nat
BY RedemptionAssumption DEF CodeWindow

\* What Append does to a history.
LEMMA AppendFacts ==
    ASSUME NEW S, NEW s \in Seq(S), NEW x \in S
    PROVE  /\ Append(s, x) \in Seq(S)
           /\ DOMAIN Append(s, x) = DOMAIN s \cup {Len(s) + 1}
           /\ \A i \in DOMAIN s : Append(s, x)[i] = s[i] /\ i < Len(s) + 1
           /\ Append(s, x)[Len(s) + 1] = x
           /\ DOMAIN s \subseteq Nat
           /\ Len(s) + 1 \notin DOMAIN s
OBVIOUS

\* What is recorded of a request is a Use.
LEMMA UseOfValidating ==
    ASSUME TypeOK, NEW v \in validating
    PROVE  UseOf(v, clock) \in Use
<1>1. v.proc \in Procs /\ v.code \in Code /\ v.checked \in Nat /\ clock \in Nat
  BY DEF TypeOK, Validating
<1>2. restarts[v.proc] \in Nat
  BY <1>1, RedemptionAssumption DEF TypeOK
<1> QED BY <1>1, <1>2 DEF UseOf, Use

\* The same of a request that is about to take the mutex.
LEMMA UseOfLocking ==
    ASSUME TypeOK, NEW l \in locking
    PROVE  UseOf(l, l.now) \in Use
<1>1. /\ l.proc \in Procs /\ l.code \in Code /\ l.checked \in Nat /\ l.now \in Nat
      /\ clock \in Nat
  BY DEF TypeOK, Locking
<1>2. restarts[l.proc] \in Nat
  BY <1>1, RedemptionAssumption DEF TypeOK
<1> QED BY <1>1, <1>2 DEF UseOf, Use

\* Type correctness: every request, entry and use keeps the shape the code
\* gives it; in particular every expiry is an instant.
THEOREM TypeCorrect == Spec => []TypeOK
<1>1. Init => TypeOK
  BY RedemptionAssumption DEF Init, TypeOK
<1>2. TypeOK /\ [Next]_vars => TypeOK'
  <2> SUFFICES ASSUME TypeOK, [Next]_vars PROVE TypeOK'
    OBVIOUS
  <2> USE RedemptionAssumption, WindowIsNat
  <2>1. ASSUME NEW p \in Procs, NEW id \in Ids, Mint(p, id) PROVE TypeOK'
    <3>1. UnixSeconds(p, clock) \in Nat
      BY SecondsAreNat DEF TypeOK
    <3>2. sealed' \subseteq Code
      BY <2>1, <3>1 DEF TypeOK, Mint, Code
    <3> QED BY <2>1, <3>2 DEF TypeOK, Mint
  <2>2. ASSUME NEW h \in Handlers, NEW p \in Procs, NEW c \in sealed, OpenCode(h, p, c)
        PROVE TypeOK'
    <3>1. validating' \subseteq Validating
      BY <2>2 DEF TypeOK, OpenCode, Validating
    <3> QED BY <2>2, <3>1 DEF TypeOK, OpenCode
  <2>3. ASSUME NEW v \in validating, ValidationUnavailable(v) PROVE TypeOK'
    BY <2>3 DEF TypeOK, ValidationUnavailable
  <2>4. ASSUME NEW v \in validating, ValidationDecided(v) PROVE TypeOK'
    <3>1. locking' \subseteq Locking
      BY <2>4 DEF TypeOK, ValidationDecided, Validating, Locking
    <3> QED BY <2>4, <3>1 DEF TypeOK, ValidationDecided
  <2>4a. ASSUME NEW v \in validating, ValidationDecidedUncached(v) PROVE TypeOK'
    <3>1. UseOf(v, clock) \in Use
      BY UseOfValidating
    <3>2. uses' \in Seq(Use)
      BY <2>4a, <3>1, AppendFacts DEF TypeOK, ValidationDecidedUncached
    <3> QED BY <2>4a, <3>2 DEF TypeOK, ValidationDecidedUncached
  <2>5. ASSUME NEW l \in locking, FirstUseNo(l) PROVE TypeOK'
    BY <2>5 DEF TypeOK, FirstUseNo, Retained, Locking
  <2>6. ASSUME NEW l \in locking, FirstUseYes(l) PROVE TypeOK'
    <3>0. l \in Locking
      BY DEF TypeOK
    <3>1. [id |-> l.code.id, expires |-> Expiry(l.now)] \in Entry
      BY <3>0 DEF Locking, Code, Entry, Expiry
    <3>2. cache' \in [Procs -> SUBSET Entry]
      BY <2>6, <3>0, <3>1 DEF TypeOK, FirstUseYes, Retained, Locking
    <3>3. UseOf(l, l.now) \in Use
      BY UseOfLocking
    <3>4. uses' \in Seq(Use)
      BY <2>6, <3>3, AppendFacts DEF TypeOK, FirstUseYes
    <3> QED BY <2>6, <3>2, <3>4 DEF TypeOK, FirstUseYes
  <2>7. ASSUME NEW h \in Handlers, HangUp(h) PROVE TypeOK'
    BY <2>7 DEF TypeOK, HangUp
  <2>8. ASSUME NEW p \in Procs, Restart(p) PROVE TypeOK'
    BY <2>8 DEF TypeOK, Restart
  <2>9. CASE Tick
    BY <2>9 DEF TypeOK, Tick
  <2>10. CASE UNCHANGED vars
    BY <2>10 DEF TypeOK, vars
  <2> QED BY <2>1, <2>2, <2>3, <2>4, <2>4a, <2>5, <2>6, <2>7, <2>8, <2>9, <2>10 DEF Next
<1> QED BY <1>1, <1>2, PTL DEF Spec
-----------------------------------------------------------------------------
\* Each entry of the history is a Use.
LEMMA UsesTyped ==
    ASSUME TypeOK, NEW i \in DOMAIN uses
    PROVE  uses[i] \in Use
BY DEF TypeOK

\* What a step can do to time, to the codes and to the lives of processes.
LEMMA Grows ==
    ASSUME TypeOK, [Next]_vars
    PROVE  /\ clock' \in Nat /\ clock <= clock'
           /\ sealed \subseteq sealed'
           /\ \A p \in Procs : restarts[p] <= restarts'[p]
<1> USE DEF TypeOK
<1>1. ASSUME NEW p \in Procs, NEW id \in Ids, Mint(p, id)
      PROVE  UNCHANGED <<clock, restarts>> /\ sealed \subseteq sealed'
  BY <1>1 DEF Mint
<1>2. ASSUME NEW p \in Procs, Restart(p)
      PROVE  /\ UNCHANGED <<clock, sealed>>
             /\ \A q \in Procs : restarts[q] <= restarts'[q]
  BY <1>2, RedemptionAssumption DEF Restart
<1>3. CASE Tick
  BY <1>3 DEF Tick
<1>4. ASSUME ~ Tick, ~ (\E p \in Procs, id \in Ids : Mint(p, id)),
             ~ (\E p \in Procs : Restart(p))
      PROVE  UNCHANGED <<clock, sealed, restarts>>
  BY <1>4 DEF Next, vars, OpenCode, ValidationUnavailable, ValidationDecided,
              ValidationDecidedUncached, FirstUseNo, FirstUseYes, HangUp
<1> QED BY <1>1, <1>2, <1>3, <1>4

\* No step takes a restart of a process back.
LEMMA LivesGrow ==
    ASSUME TypeOK, TypeOK', [Next]_vars, NEW p \in Procs
    PROVE  /\ restarts[p] \in Nat /\ restarts'[p] \in Nat
           /\ restarts[p] <= restarts'[p]
BY Grows, RedemptionAssumption DEF TypeOK

\* The two ways a step can add to the history of uses.
LEMMA UsesGrow ==
    ASSUME [Next]_vars
    PROVE  \/ UNCHANGED uses
           \/ \E v \in validating : ValidationDecidedUncached(v)
           \/ \E l \in locking : FirstUseYes(l)
BY DEF Next, vars, Mint, OpenCode, ValidationUnavailable, ValidationDecided,
       FirstUseNo, HangUp, Restart, Tick

\* A check made in time stays one.
LEMMA CheckedStays ==
    ASSUME TypeOK, [Next]_vars, NEW r, r.checked \in Nat, CheckedTimely(r)
    PROVE  CheckedTimely(r)'
<1>1. clock \in Nat /\ clock' \in Nat /\ clock <= clock' /\ sealed \subseteq sealed'
  BY Grows DEF TypeOK
<1> QED BY <1>1 DEF CheckedTimely, Fresh, UnixSeconds

\* So does a use that is in order.
LEMMA UseStays ==
    ASSUME TypeOK, TypeOK', [Next]_vars, NEW u \in Use, UseTimely(u)
    PROVE  UseTimely(u)'
<1>1. CheckedTimely(u)'
  BY CheckedStays DEF UseTimely, Use
<1>2. clock \in Nat /\ clock' \in Nat /\ clock <= clock' /\ u.locked \in Nat
  BY Grows DEF TypeOK, Use
<1>3. u.locked <= clock'
  BY <1>2 DEF UseTimely
<1>4. /\ restarts[u.proc] \in Nat /\ restarts'[u.proc] \in Nat
      /\ restarts[u.proc] <= restarts'[u.proc] /\ u.life \in Nat
  BY LivesGrow DEF Use
<1>5. u.life <= restarts'[u.proc]
  BY <1>4 DEF UseTimely
<1> QED BY <1>1, <1>3, <1>5 DEF UseTimely

\* Every step keeps the instants in their order.
LEMMA TimelyStep ==
    ASSUME TypeOK, TypeOK', Timely, [Next]_vars
    PROVE  Timely'
<1> USE DEF TypeOK
<1>1. /\ clock \in Nat /\ clock' \in Nat /\ clock <= clock' /\ sealed \subseteq sealed'
      /\ \A p \in Procs : restarts[p] <= restarts'[p]
  BY Grows
<1>2. CodesTimely'
  <2>1. ASSUME NEW p \in Procs, NEW id \in Ids, Mint(p, id) PROVE CodesTimely'
    BY <2>1 DEF Mint, Timely, CodesTimely, UnixSeconds
  <2>2. CASE UNCHANGED sealed
    BY <1>1, <2>2 DEF Timely, CodesTimely, UnixSeconds, Code
  <2> QED BY <2>1, <2>2 DEF Next, vars, OpenCode, ValidationUnavailable,
          ValidationDecided, ValidationDecidedUncached, FirstUseNo, FirstUseYes,
          HangUp, Restart, Tick
<1>3. ValidatingTimely'
  <2> SUFFICES ASSUME NEW v \in validating' PROVE CheckedTimely(v)'
    BY DEF ValidatingTimely
  <2>1. CASE v \in validating
    BY <2>1, CheckedStays DEF Timely, ValidatingTimely, Validating
  <2>2. ASSUME NEW h \in Handlers, NEW p \in Procs, NEW c \in sealed,
               OpenCode(h, p, c), v \notin validating
        PROVE  CheckedTimely(v)'
    BY <2>2 DEF OpenCode, CheckedTimely, Fresh, UnixSeconds
  <2> QED BY <2>1, <2>2 DEF Next, vars, Mint, ValidationUnavailable,
          ValidationDecided, ValidationDecidedUncached, FirstUseNo, FirstUseYes,
          HangUp, Restart, Tick
<1>4. LockingTimely'
  <2> SUFFICES ASSUME NEW l \in locking'
               PROVE  CheckedTimely(l)' /\ l.checked <= l.now /\ l.now <= clock'
    BY DEF LockingTimely
  <2>1. CASE l \in locking
    BY <1>1, <2>1, CheckedStays DEF Timely, LockingTimely, Locking
  <2>2. ASSUME NEW v \in validating, ValidationDecided(v), l \notin locking
        PROVE  CheckedTimely(l)' /\ l.checked <= l.now /\ l.now <= clock'
    <3>1. CheckedTimely(v) /\ v.checked \in Nat
      BY DEF Timely, ValidatingTimely, Validating
    <3>2. /\ l.proc = v.proc /\ l.code = v.code /\ l.checked = v.checked
          /\ l.now = clock /\ UNCHANGED <<clock, sealed>>
      BY <2>2 DEF ValidationDecided
    <3> QED BY <3>1, <3>2 DEF CheckedTimely, Fresh, UnixSeconds
  <2> QED BY <2>1, <2>2 DEF Next, vars, Mint, OpenCode, ValidationUnavailable,
          ValidationDecidedUncached, FirstUseNo, FirstUseYes, HangUp, Restart, Tick
<1>5. UsesTimely'
  <2>1. \A u \in Use : UseTimely(u) => UseTimely(u)'
    BY UseStays
  <2>2. CASE UNCHANGED uses
    BY <2>1, <2>2 DEF Timely, UsesTimely
  <2>3. ASSUME NEW r, NEW now \in Nat, uses' = Append(uses, UseOf(r, now)),
               UNCHANGED <<clock, sealed, restarts>>, UseOf(r, now) \in Use,
               CheckedTimely(r), r.checked <= now, now <= clock
        PROVE  UsesTimely'
    <3>1. UseTimely(UseOf(r, now))
      BY <2>3 DEF UseTimely, UseOf, CheckedTimely, Use
    <3>2. \A i \in DOMAIN uses' : uses'[i] \in Use /\ UseTimely(uses'[i])
      BY <2>3, <3>1, AppendFacts DEF Timely, UsesTimely
    <3> QED BY <2>1, <3>2 DEF UsesTimely
  <2>4. ASSUME NEW v \in validating, ValidationDecidedUncached(v) PROVE UsesTimely'
    <3>1. /\ uses' = Append(uses, UseOf(v, clock))
          /\ UNCHANGED <<clock, sealed, restarts>>
      BY <2>4 DEF ValidationDecidedUncached
    <3>2. CheckedTimely(v) /\ v.checked <= clock
      BY DEF Timely, ValidatingTimely, CheckedTimely
    <3>3. UseOf(v, clock) \in Use
      BY UseOfValidating
    <3> QED BY <2>3, <3>1, <3>2, <3>3
  <2>5. ASSUME NEW l \in locking, FirstUseYes(l) PROVE UsesTimely'
    <3>1. /\ uses' = Append(uses, UseOf(l, l.now))
          /\ UNCHANGED <<clock, sealed, restarts>>
      BY <2>5 DEF FirstUseYes
    <3>2. CheckedTimely(l) /\ l.checked <= l.now /\ l.now <= clock
      BY DEF Timely, LockingTimely
    <3>3. UseOf(l, l.now) \in Use /\ l.now \in Nat
      BY UseOfLocking DEF Locking
    <3> QED BY <2>3, <3>1, <3>2, <3>3
  <2> QED BY <2>2, <2>4, <2>5, UsesGrow
<1> QED BY <1>2, <1>3, <1>4, <1>5 DEF Timely
-----------------------------------------------------------------------------
\* Every step keeps envelope_ids unique: Mint draws a new one.
LEMMA UniqueIdsStep ==
    ASSUME UniqueIds, [Next]_vars
    PROVE  UniqueIds'
<1>1. ASSUME NEW p \in Procs, NEW id \in Ids, Mint(p, id) PROVE UniqueIds'
  BY <1>1 DEF Mint, UniqueIds
<1>2. CASE UNCHANGED sealed
  BY <1>2 DEF UniqueIds
<1> QED BY <1>1, <1>2 DEF Next, vars, OpenCode, ValidationUnavailable,
      ValidationDecided, ValidationDecidedUncached, FirstUseNo, FirstUseYes,
      HangUp, Restart, Tick

\* A purge forgets a use only once its window has passed: the purging request
\* read its clock no later than now.
LEMMA HeldStays ==
    ASSUME TypeOK, TypeOK', Timely, [Next]_vars, NEW u \in Use,
           restarts'[u.proc] = restarts[u.proc], StillHeld(u)
    PROVE  StillHeld(u)'
<1> DEFINE until == u.now + CodeWindow
<1>1. clock \in Nat /\ clock' \in Nat /\ clock <= clock' /\ until \in Nat
  BY Grows, WindowIsNat DEF TypeOK, Use
<1>2. CASE until <= clock
  BY <1>1, <1>2 DEF StillHeld
<1>3. ASSUME NEW e \in cache[u.proc], e.id = u.code.id, e.expires >= until
      PROVE  StillHeld(u)'
  <2>0. e.expires \in Nat
    BY DEF TypeOK, Use, Entry
  <2>1. CASE e \in cache'[u.proc]
    BY <1>3, <2>1 DEF StillHeld
  <2>2. ASSUME NEW l \in locking, FirstUseNo(l) \/ FirstUseYes(l), e \notin cache'[u.proc]
        PROVE  StillHeld(u)'
    <3>1. l.proc = u.proc /\ e \notin Retained(l.proc, l.now)
      BY <2>2 DEF FirstUseNo, FirstUseYes, TypeOK, Use, Locking
    <3>2. l.now \in Nat /\ l.now <= clock
      BY DEF TypeOK, Timely, LockingTimely, Locking
    <3>3. until <= clock
      BY <1>1, <1>3, <2>0, <3>1, <3>2 DEF Retained
    <3> QED BY <1>1, <3>3 DEF StillHeld
  <2>3. ASSUME NEW p \in Procs, Restart(p) PROVE e \in cache'[u.proc]
    <3>1. p # u.proc
      BY <2>3, RedemptionAssumption DEF Restart, TypeOK, Use
    <3> QED BY <2>3, <3>1 DEF Restart, TypeOK, Use
  <2>4. ASSUME UNCHANGED cache PROVE e \in cache'[u.proc]
    BY <2>4
  <2> QED BY <2>1, <2>2, <2>3, <2>4 DEF Next, vars, Mint, OpenCode,
          ValidationUnavailable, ValidationDecided, ValidationDecidedUncached,
          HangUp, Tick
<1> QED BY <1>2, <1>3 DEF StillHeld

\* Every step keeps the uses of the present life remembered by the cache.
LEMMA RememberedStep ==
    ASSUME TypeOK, TypeOK', Timely, Timely', Remembered, [Next]_vars
    PROVE  Remembered'
<1> DEFINE Held(u) == u.proc \in Cached /\ u.life = restarts[u.proc] => StillHeld(u)
<1>1. ASSUME NEW i \in DOMAIN uses PROVE Held(uses[i])'
         \/ uses'[i] # uses[i]
  <2>1. uses[i] \in Use /\ UseTimely(uses[i]) /\ Held(uses[i])
    BY DEF TypeOK, Timely, UsesTimely, Remembered
  <2>2. ASSUME NEW u \in Use, UseTimely(u), Held(u) PROVE Held(u)'
    <3>0. u.proc \in Procs /\ u.life \in Nat
      BY DEF Use
    <3>1. /\ restarts[u.proc] \in Nat /\ restarts'[u.proc] \in Nat
          /\ restarts[u.proc] <= restarts'[u.proc]
      BY <3>0, LivesGrow
    <3>2. u.life <= restarts[u.proc]
      BY <2>2 DEF UseTimely
    <3>3. u.life = restarts'[u.proc] => restarts'[u.proc] = restarts[u.proc]
      BY <3>0, <3>1, <3>2
    <3> QED BY <2>2, <3>3, HeldStays
  <2> QED BY <2>1, <2>2
<1>2. CASE UNCHANGED uses
  BY <1>1, <1>2 DEF Remembered
<1>3. ASSUME NEW v \in validating, ValidationDecidedUncached(v) PROVE Remembered'
  <2>1. /\ uses' = Append(uses, UseOf(v, clock)) /\ UseOf(v, clock) \in Use
        /\ v.proc \notin Cached
    BY <1>3 DEF ValidationDecidedUncached, TypeOK, Validating, UseOf, Use
  <2>2. UseOf(v, clock).proc \notin Cached
    BY <2>1 DEF UseOf
  <2>3. uses \in Seq(Use)
    BY DEF TypeOK
  <2> QED BY <1>1, <2>1, <2>2, <2>3, AppendFacts DEF Remembered
<1>4. ASSUME NEW l \in locking, FirstUseYes(l) PROVE Remembered'
  <2>1. uses' = Append(uses, UseOf(l, l.now)) /\ UseOf(l, l.now) \in Use
    BY <1>4 DEF FirstUseYes, TypeOK, Locking, UseOf, Use
  <2>2. [id |-> l.code.id, expires |-> Expiry(l.now)] \in cache'[l.proc]
    BY <1>4 DEF FirstUseYes, TypeOK, Locking
  <2> DEFINE new == UseOf(l, l.now)
  <2>3. new.proc = l.proc /\ new.code = l.code /\ new.now = l.now /\ l.now \in Nat
    BY DEF UseOf, TypeOK, Locking
  <2>4. \E e \in cache'[new.proc] : e.id = new.code.id /\ e.expires >= new.now + CodeWindow
    BY <2>2, <2>3, WindowIsNat DEF Expiry
  <2> HIDE DEF new
  <2>5. ASSUME NEW u, u = new PROVE StillHeld(u)'
    BY <2>4, <2>5 DEF StillHeld
  <2>6. uses \in Seq(Use) /\ uses' = Append(uses, new) /\ new \in Use
    BY <2>1 DEF TypeOK, new
  <2> QED BY <1>1, <2>5, <2>6, AppendFacts DEF Remembered
<1> QED BY <1>2, <1>3, <1>4, UsesGrow

\* A request that is told yes finds no entry for its code: every earlier use in
\* this life of the process must be a whole window old.
LEMMA ReuseGapStep ==
    ASSUME TypeOK, TypeOK', Timely, Remembered, ReuseGap, [Next]_vars
    PROVE  ReuseGap'
<1>1. CASE UNCHANGED uses
  BY <1>1 DEF ReuseGap, SameLife
<1>2. ASSUME NEW new \in Use, uses' = Append(uses, new),
             \A i \in DOMAIN uses :
                /\ uses[i].proc = new.proc
                /\ uses[i].proc \in Cached
                /\ uses[i].life = new.life
                /\ uses[i].code.id = new.code.id
                => new.locked >= uses[i].now + CodeWindow
      PROVE  ReuseGap'
  <2> SUFFICES ASSUME NEW i \in DOMAIN uses', NEW j \in DOMAIN uses', i < j, SameLife(i, j)'
               PROVE  uses'[j].locked >= uses'[i].now + CodeWindow
    BY DEF ReuseGap, CodeWindow
  <2>1. uses \in Seq(Use)
    BY DEF TypeOK
  <2>2. /\ i \in DOMAIN uses /\ uses'[i] = uses[i]
        /\ j \in DOMAIN uses \/ j = Len(uses) + 1
    BY <1>2, <2>1, AppendFacts
  <2>3. CASE j \in DOMAIN uses
    <3>1. uses'[j] = uses[j]
      BY <1>2, <2>1, <2>3, AppendFacts
    <3> QED BY <2>2, <2>3, <3>1 DEF ReuseGap, SameLife
  <2>4. CASE j = Len(uses) + 1
    <3>1. uses'[j] = new
      BY <1>2, <2>1, <2>4, AppendFacts
    <3> QED BY <1>2, <2>2, <3>1 DEF SameLife
  <2> QED BY <2>2, <2>3, <2>4
<1>3. ASSUME NEW v \in validating, ValidationDecidedUncached(v) PROVE ReuseGap'
  <2>1. /\ uses' = Append(uses, UseOf(v, clock)) /\ UseOf(v, clock) \in Use
        /\ UseOf(v, clock).proc \notin Cached
    BY <1>3 DEF ValidationDecidedUncached, TypeOK, Validating, UseOf, Use
  <2> QED BY <1>2, <2>1
<1>4. ASSUME NEW l \in locking, FirstUseYes(l) PROVE ReuseGap'
  <2> DEFINE new == UseOf(l, l.now)
  <2>1. uses' = Append(uses, new) /\ new \in Use
    BY <1>4 DEF FirstUseYes, TypeOK, Locking, UseOf, Use
  <2>2. ASSUME NEW i \in DOMAIN uses,
               uses[i].proc = new.proc, uses[i].proc \in Cached,
               uses[i].life = new.life, uses[i].code.id = new.code.id
        PROVE  new.locked >= uses[i].now + CodeWindow
    <3>1. uses[i] \in Use
      BY UsesTyped
    <3>2. uses[i].now + CodeWindow \in Nat
      BY <3>1, WindowIsNat DEF Use
    <3>2a. new.locked = clock /\ clock \in Nat
      BY DEF UseOf, TypeOK
    <3>3. StillHeld(uses[i])
      BY <2>2 DEF UseOf, Remembered
    <3>4. ASSUME NEW e \in cache[uses[i].proc], e.id = uses[i].code.id,
                 e.expires >= uses[i].now + CodeWindow
          PROVE  uses[i].now + CodeWindow <= clock
      <4>1. e \in cache[l.proc] /\ e.id = l.code.id
        BY <2>2, <3>4 DEF UseOf
      <4>2. ~ (e.expires > l.now)
        BY <1>4, <4>1 DEF FirstUseYes, Retained, Contains
      <4>3. e.expires \in Nat /\ l.now \in Nat
        BY <4>1 DEF TypeOK, Entry, Locking
      <4>4. l.now <= clock
        BY DEF Timely, LockingTimely
      <4> QED BY <3>2, <3>2a, <3>4, <4>2, <4>3, <4>4
    <3> QED BY <3>2, <3>2a, <3>3, <3>4 DEF StillHeld
  <2> QED BY <1>2, <2>1, <2>2
<1> QED BY <1>1, <1>3, <1>4, UsesGrow

\* Uses are only ever added.
LEMMA UsesKept ==
    ASSUME TypeOK, [Next]_vars, NEW i \in DOMAIN uses
    PROVE  i \in DOMAIN uses' /\ uses'[i] = uses[i]
<1>1. uses \in Seq(Use)
  BY DEF TypeOK
<1>2. ASSUME NEW u \in Use, uses' = Append(uses, u)
      PROVE  i \in DOMAIN uses' /\ uses'[i] = uses[i]
  BY <1>1, <1>2, AppendFacts
<1>3. ASSUME NEW v \in validating, ValidationDecidedUncached(v)
      PROVE  uses' = Append(uses, UseOf(v, clock)) /\ UseOf(v, clock) \in Use
  <2>1. UseOf(v, clock) \in Use
    BY UseOfValidating
  <2> QED BY <1>3, <2>1 DEF ValidationDecidedUncached
<1>4. ASSUME NEW l \in locking, FirstUseYes(l)
      PROVE  uses' = Append(uses, UseOf(l, l.now)) /\ UseOf(l, l.now) \in Use
  <2>1. UseOf(l, l.now) \in Use
    BY UseOfLocking
  <2> QED BY <1>4, <2>1 DEF FirstUseYes
<1> QED BY <1>2, <1>3, <1>4, UsesGrow

\* Every step keeps each entry of the cache tied to the use that made it.
LEMMA BurntStep ==
    ASSUME TypeOK, TypeOK', BurntMeansUsed, [Next]_vars
    PROVE  BurntMeansUsed'
<1> DEFINE Accounts(p, e, u, life) == /\ u.proc = p
                                      /\ u.life = life
                                      /\ u.code.id = e.id
                                      /\ e.expires = Expiry(u.now)
<1> SUFFICES ASSUME NEW p \in Procs, NEW e \in cache'[p]
             PROVE  \E i \in DOMAIN uses' : Accounts(p, e, uses'[i], restarts'[p])
  BY DEF BurntMeansUsed, Expiry, CodeWindow
<1>1. CASE e \in cache[p] /\ restarts'[p] = restarts[p]
  <2>1. PICK i \in DOMAIN uses : Accounts(p, e, uses[i], restarts[p])
    BY <1>1 DEF BurntMeansUsed
  <2> QED BY <1>1, <2>1, UsesKept
<1>2. ASSUME NEW l \in locking, FirstUseYes(l), e \notin cache[p]
      PROVE  \E i \in DOMAIN uses' : Accounts(p, e, uses'[i], restarts'[p])
  <2>1. /\ uses' = Append(uses, UseOf(l, l.now)) /\ UseOf(l, l.now) \in Use
        /\ UNCHANGED restarts
    BY <1>2 DEF FirstUseYes, TypeOK, Locking, UseOf, Use
  <2>2. l.proc = p /\ e = [id |-> l.code.id, expires |-> Expiry(l.now)]
    BY <1>2 DEF FirstUseYes, TypeOK, Locking, Retained
  <2>3. Accounts(p, e, UseOf(l, l.now), restarts'[p])
    BY <2>1, <2>2 DEF UseOf
  <2>4. Len(uses) + 1 \in DOMAIN uses' /\ uses'[Len(uses) + 1] = UseOf(l, l.now)
    BY <2>1, AppendFacts DEF TypeOK
  <2> QED BY <2>3, <2>4
<1>3. ASSUME NEW q \in Procs, Restart(q)
      PROVE  e \in cache[p] /\ restarts'[p] = restarts[p]
  BY <1>3, RedemptionAssumption DEF Restart, TypeOK
<1>4. ASSUME NEW l \in locking, FirstUseNo(l)
      PROVE  e \in cache[p] /\ restarts'[p] = restarts[p]
  BY <1>4 DEF FirstUseNo, TypeOK, Retained, Locking
<1>5. ASSUME NEW l \in locking, FirstUseYes(l), e \in cache[p]
      PROVE  restarts'[p] = restarts[p]
  BY <1>5 DEF FirstUseYes
<1>6. ASSUME UNCHANGED <<cache, restarts>>
      PROVE  e \in cache[p] /\ restarts'[p] = restarts[p]
  BY <1>6
<1> QED BY <1>1, <1>2, <1>3, <1>4, <1>5, <1>6 DEF Next, vars, Mint, OpenCode,
      ValidationUnavailable, ValidationDecided, ValidationDecidedUncached, HangUp, Tick

-----------------------------------------------------------------------------
\* The inductive invariant.
THEOREM Inductive == Spec => []IInv
<1>1. Init => IInv
  BY RedemptionAssumption DEF Init, IInv, TypeOK, Timely, CodesTimely, ValidatingTimely,
     LockingTimely, UsesTimely, UniqueIds, Remembered, ReuseGap, BurntMeansUsed
<1>2. IInv /\ TypeOK' /\ [Next]_vars => IInv'
  BY TimelyStep, UniqueIdsStep, RememberedStep, ReuseGapStep, BurntStep DEF IInv
<1> QED BY <1>1, <1>2, TypeCorrect, PTL DEF Spec

\* Two requests for one code that a process tells yes are at least CODE_TTL
\* apart, whatever the number of racing requests.
THEOREM ReuseGapHolds == Spec => []ReuseGap
BY Inductive, PTL DEF IInv

\* Only a code that was redeemed is ever refused as used.
THEOREM BurntMeansUsedHolds == Spec => []BurntMeansUsed
BY Inductive, PTL DEF IInv

\* Seconds and ticks: instants whose whole seconds are at most k apart are less
\* than k + 1 seconds apart.
LEMMA SecondsApart ==
    ASSUME NEW a \in Nat, NEW b \in Nat, NEW k \in Nat, NEW T \in Nat \ {0},
           a \div T <= (b \div T) + k
    PROVE  a - b < (k + 1) * T
<1> DEFINE x == a \div T
           y == b \div T
<1>1. x \in Nat /\ y \in Nat /\ a < (x + 1) * T /\ y * T <= b
  OBVIOUS
<1> HIDE DEF x, y
<1>2. x <= y + k
  BY DEF x, y
<1>3. (x + 1) * T <= (y + k + 1) * T
  BY <1>1, <1>2
<1>4. (y + k + 1) * T = y * T + (k + 1) * T
  BY <1>1
<1>5. /\ (x + 1) * T \in Nat /\ y * T \in Nat /\ (k + 1) * T \in Nat
      /\ (y + k + 1) * T \in Nat
  BY <1>1
<1> QED BY <1>1, <1>3, <1>4, <1>5

\* A code opened twice on one process was fresh both times, so its two checks
\* lie within its TTL, the allowance and one second of each other.
THEOREM BoundedAcceptanceHolds == Spec => []BoundedAcceptance
<1>1. IInv => BoundedAcceptance
  <2> SUFFICES ASSUME IInv, NEW i \in DOMAIN uses, NEW j \in DOMAIN uses,
                      uses[i].proc = uses[j].proc, uses[i].code.id = uses[j].code.id
               PROVE  uses[j].checked - uses[i].checked
                        < (CodeTtl + Allowance + 1) * TicksPerSec
    BY DEF BoundedAcceptance
  <2> DEFINE p == uses[i].proc
             ci == uses[i].checked
             cj == uses[j].checked
             issued == uses[i].code.issued_at
  <2>1. /\ uses[i] \in Use /\ uses[j] \in Use
        /\ UseTimely(uses[i]) /\ UseTimely(uses[j])
    BY UsesTyped DEF IInv, Timely, UsesTimely
  <2>2. uses[i].code = uses[j].code
    BY <2>1 DEF IInv, UniqueIds, UseTimely, CheckedTimely
  <2>3. Fresh(p, ci, issued) /\ Fresh(p, cj, issued)
    BY <2>1, <2>2 DEF UseTimely, CheckedTimely
  <2>4. p \in Procs /\ ci \in Nat /\ cj \in Nat /\ issued \in Nat
    BY <2>1 DEF Use, Code
  <2> HIDE DEF p, ci, cj, issued
  <2>5. UnixSeconds(p, ci) \in Nat /\ UnixSeconds(p, cj) \in Nat
    BY <2>4, SecondsAreNat
  <2>6. UnixSeconds(p, cj) <= UnixSeconds(p, ci) + (CodeTtl + Allowance)
    BY <2>3, <2>4, <2>5, RedemptionAssumption DEF Fresh, SaturatingSub
  <2>7. /\ cj + Skew[p] \in Nat /\ ci + Skew[p] \in Nat /\ Skew[p] \in Nat
        /\ CodeTtl + Allowance \in Nat /\ TicksPerSec \in Nat \ {0}
    BY <2>4, RedemptionAssumption
  <2>8. (cj + Skew[p]) - (ci + Skew[p]) < (CodeTtl + Allowance + 1) * TicksPerSec
    BY <2>6, <2>7, SecondsApart DEF UnixSeconds
  <2>9. cj - ci < (CodeTtl + Allowance + 1) * TicksPerSec
    BY <2>4, <2>7, <2>8
  <2> QED BY <2>9 DEF ci, cj
<1> QED BY <1>1, Inductive, PTL
\* A second use of a code in one life of a process with a cache needs its first
\* use to have come within a second of its issue, plus the second request's
\* way from its check to its entry, plus the lead of the issuer's clock.
THEOREM SecondUseOnlyOfEarlyFirstHolds == Spec => []SecondUseOnlyOfEarlyFirst
<1>1. IInv => SecondUseOnlyOfEarlyFirst
  <2> SUFFICES ASSUME IInv, NEW i \in DOMAIN uses, NEW j \in DOMAIN uses,
                      i < j, SameLife(i, j)
               PROVE  uses[i].now - uses[i].code.minted
                        < TicksPerSec + (uses[j].locked - uses[j].checked)
                          + (Skew[uses[i].code.by] - Skew[uses[i].proc])
    BY DEF SecondUseOnlyOfEarlyFirst
  <2> DEFINE p == uses[i].proc
             by == uses[i].code.by
             minted == uses[i].code.minted
             issued == uses[i].code.issued_at
             cj == uses[j].checked
             lj == uses[j].locked
             ni == uses[i].now
  <2>1. /\ uses[i] \in Use /\ uses[j] \in Use
        /\ UseTimely(uses[i]) /\ UseTimely(uses[j])
    BY UsesTyped DEF IInv, Timely, UsesTimely
  <2>2. uses[i].code = uses[j].code
    BY <2>1 DEF IInv, UniqueIds, UseTimely, CheckedTimely, SameLife
  <2>3. Fresh(p, cj, issued)
    BY <2>1, <2>2 DEF UseTimely, CheckedTimely, SameLife
  <2>4. issued = UnixSeconds(by, minted)
    BY <2>1 DEF IInv, Timely, CodesTimely, UseTimely, CheckedTimely
  <2>5. lj >= ni + CodeWindow
    BY DEF IInv, ReuseGap
  <2>6. p \in Procs /\ by \in Procs /\ cj \in Nat /\ minted \in Nat /\ lj \in Nat /\ ni \in Nat
    BY <2>1 DEF Use, Code
  <2> HIDE DEF p, by, minted, issued, cj, lj, ni
  <2>7. UnixSeconds(p, cj) \in Nat /\ UnixSeconds(by, minted) \in Nat
    BY <2>6, SecondsAreNat
  <2>8. UnixSeconds(p, cj) <= UnixSeconds(by, minted) + CodeTtl
    BY <2>3, <2>4, <2>7, RedemptionAssumption DEF Fresh, SaturatingSub
  <2>9. /\ cj + Skew[p] \in Nat /\ minted + Skew[by] \in Nat
        /\ Skew[p] \in Nat /\ Skew[by] \in Nat
        /\ CodeTtl \in Nat /\ TicksPerSec \in Nat \ {0}
    BY <2>6, RedemptionAssumption
  <2>10. (cj + Skew[p]) - (minted + Skew[by]) < (CodeTtl + 1) * TicksPerSec
    BY <2>8, <2>9, SecondsApart DEF UnixSeconds
  <2>11. (CodeTtl + 1) * TicksPerSec = CodeWindow + TicksPerSec /\ CodeWindow \in Nat
    BY <2>9, WindowIsNat DEF CodeWindow
  <2>12. ni - minted < TicksPerSec + (lj - cj) + (Skew[by] - Skew[p])
    BY <2>5, <2>6, <2>9, <2>10, <2>11
  <2> QED BY <2>12 DEF p, by, minted, cj, lj, ni
<1> QED BY <1>1, Inductive, PTL

-----------------------------------------------------------------------------
\* Appending to a history appends to what is seen of it.
LEMMA SeenAppend ==
    ASSUME NEW s \in Seq(Use), NEW u \in Use
    PROVE  [i \in 1..Len(Append(s, u)) |-> Seen(Append(s, u)[i])]
             = Append([i \in 1..Len(s) |-> Seen(s[i])], Seen(u))
OBVIOUS

\* The detailed steps implement the abstract ones: a use is a Spend, whose gap
\* is ReuseGap of the state it leads to, a tick is a Pass, and every other step
\* changes nothing that can be seen.
THEOREM Refinement == Spec => ImplementsOneUseWindow
<1> DEFINE Log == [i \in 1..Len(uses) |-> Seen(uses[i])]
<1>1. Init => Window!Init
  BY DEF Init, Window!Init
<1>2. ASSUME IInv, IInv', [Next]_vars
      PROVE  [Window!Next]_<<clock, Log>>
  <2>1. CASE UNCHANGED <<clock, uses>>
    BY <2>1
  <2>2. CASE Tick
    BY <2>2 DEF Tick, Window!Next, Window!Pass
  <2>3. ASSUME NEW u \in Use, uses' = Append(uses, u), clock' = clock
        PROVE  Window!Next
    <3> DEFINE life == <<u.proc, u.life>>
    <3>1. uses \in Seq(Use)
      BY <1>2 DEF IInv, TypeOK
    <3>0. PICK j : j = Len(uses) + 1
      OBVIOUS
    <3>2. j \in DOMAIN uses' /\ uses'[j] = u
      BY <2>3, <3>0, <3>1, AppendFacts
    <3>3. UseTimely(u)'
      BY <1>2, <3>2 DEF IInv, Timely, UsesTimely
    <3>4. /\ u.now \in Nat /\ u.locked \in Nat /\ u.life \in Nat /\ clock \in Nat
          /\ u.proc \in Procs /\ u.code.id \in Ids
      BY <1>2 DEF IInv, TypeOK, Use, Code
    <3>5. u.now \in 0..clock /\ u.locked <= clock
      BY <2>3, <3>3, <3>4 DEF UseTimely
    <3>6. restarts'[u.proc] \in 0..MaxRestarts /\ u.life <= restarts'[u.proc]
      BY <1>2, <3>3, <3>4 DEF IInv, TypeOK, UseTimely
    <3>7. life \in Procs \X (0..MaxRestarts)
      BY <3>4, <3>6, RedemptionAssumption
    <3>8. ASSUME NEW i \in DOMAIN uses, u.proc \in Cached,
                 Seen(uses[i]).life = life, uses[i].code.id = u.code.id
          PROVE  uses[i].now + CodeWindow <= clock
      <4>1. uses[i] \in Use
        BY <3>1
      <4>2. uses[i].proc = u.proc /\ uses[i].life = u.life
        BY <3>8 DEF Seen
      <4>3. i \in DOMAIN uses' /\ uses'[i] = uses[i] /\ i < j
        BY <2>3, <3>0, <3>1, AppendFacts
      <4>4. SameLife(i, j)'
        BY <3>2, <3>8, <4>2, <4>3 DEF SameLife
      <4>5. u.locked >= uses[i].now + CodeWindow
        BY <1>2, <3>2, <4>3, <4>4 DEF IInv, ReuseGap, CodeWindow
      <4>6. uses[i].now + CodeWindow \in Nat
        BY <4>1, WindowIsNat DEF Use
      <4> QED BY <3>4, <3>5, <4>5, <4>6
    <3>9. life \in Cached \X (0..MaxRestarts) =>
            \A i \in DOMAIN Log : Log[i].life = life /\ Log[i].id = u.code.id
               => Log[i].at + CodeWindow <= clock
      <4> SUFFICES ASSUME u.proc \in Cached, NEW i \in DOMAIN Log,
                          Log[i].life = life, Log[i].id = u.code.id
                   PROVE  Log[i].at + CodeWindow <= clock
        OBVIOUS
      <4>1. i \in DOMAIN uses /\ Log[i] = Seen(uses[i])
        BY <3>1
      <4> QED BY <3>8, <4>1 DEF Seen
    <3>10. Log' = Append(Log, [life |-> life, id |-> u.code.id, at |-> u.now])
      BY <2>3, <3>1, SeenAppend DEF Seen
    <3>11. Window!Spend(life, u.code.id, u.now)
      BY <2>3, <3>5, <3>9, <3>10 DEF Window!Spend
    <3>12. Log' # Log
      BY <3>1, <3>10
    <3> QED BY <3>4, <3>5, <3>7, <3>11, <3>12 DEF Window!Next
  <2>4. ASSUME NEW v \in validating, ValidationDecidedUncached(v) PROVE Window!Next
    <3>1. UseOf(v, clock) \in Use
      BY <1>2, UseOfValidating DEF IInv
    <3> QED BY <2>3, <2>4, <3>1 DEF ValidationDecidedUncached
  <2>5. ASSUME NEW l \in locking, FirstUseYes(l) PROVE Window!Next
    <3>1. UseOf(l, l.now) \in Use
      BY <1>2, UseOfLocking DEF IInv
    <3> QED BY <2>3, <2>5, <3>1 DEF FirstUseYes
  <2> QED BY <1>2, <2>1, <2>2, <2>4, <2>5 DEF Next, vars, Mint, OpenCode,
          ValidationUnavailable, ValidationDecided, FirstUseNo, HangUp, Restart
<1> QED BY <1>1, <1>2, Inductive, PTL DEF Spec, ImplementsOneUseWindow, Window!Spec
=============================================================================
