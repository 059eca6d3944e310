------------------------------ MODULE HopProofs ------------------------------
(***************************************************************************)
(* What the user agent carries from hop to hop.                            *)
(*                                                                         *)
(* The envelopes, for fleets of any size, any keys, clocks that differ by  *)
(* any amounts and any lifetimes: what a rotation costs.  The invariant    *)
(* follows each envelope: its key is one of those set now, or it expired   *)
(* everywhere; and its key is the one its sealer has now, or it is older   *)
(* than those.                                                             *)
(*                                                                         *)
(* The requests and answers, with queries, forms, documents and paths of   *)
(* any length and any relays: what is taken out of a list of parameters,   *)
(* put into it and passed on, and where a path leads.  The invariant says  *)
(* of the last answer which request it answers, and how.  The lists have   *)
(* no bound, so that what a recursive function makes of them is shown for  *)
(* each length with the set of lengths for which it holds (AllNumbers,     *)
(* AllSequences).                                                          *)
(***************************************************************************)
EXTENDS Sealing, Parameters, WellFoundedInduction, TLAPS

Gone(e) == \A p \in Instances : unix_time(p) - e.issued_at > TTL[e.kind]

\* What every process seals with is among the keys set now.
CurrentAccepted == \A p \in Instances : running[p].current \in Accepted(deployed)

Sealed(e) == e.key = running[e.by].current \/ e.at <= taken[e.by]
Covered(e) == e.key \in Accepted(deployed) \/ Gone(e)

\* Only the new current key is unknown to those that are not restarted.
PriorKnown ==
    \A p \in Instances :
        \/ running[p] = deployed
        \/ Accepted(deployed) \ {deployed.current} \subseteq Accepted(running[p])

\* If keys are announced, no process seals with a key that another does not have.
AllKnown ==
    /\ \A p \in Instances : deployed.current \in Accepted(running[p])
    /\ \A p, q \in Instances : running[q].current \in Accepted(running[p])
    /\ \A p \in Instances, e \in envelopes : e.key \in Accepted(running[p]) \/ Gone(e)

RotationInv ==
    /\ SealingTypeOK
    /\ CurrentAccepted
    /\ \A e \in envelopes : Sealed(e) /\ Covered(e)
    /\ ~staged => PriorKnown
    /\ staged => AllKnown

LEMMA CurrentIsAccepted ==
    ASSUME NEW s \in XChaChaSealer
    PROVE  s.current \in Keys /\ s.current \in Accepted(s)
BY SealingAssumption DEF XChaChaSealer, Accepted

LEMMA Typed ==
    ASSUME SealingTypeOK, NEW e \in envelopes
    PROVE  /\ e.key \in Keys /\ e.issued_at \in Nat /\ e.kind \in Kinds /\ e.by \in Instances
           /\ e.at \in Nat /\ e.at <= clock /\ e.issued_at = e.at + Skew[e.by]
           /\ TTL[e.kind] \in Nat /\ Skew[e.by] \in Nat /\ taken[e.by] \in Nat
<1>1. e \in Envelope /\ e.at <= clock /\ e.issued_at = e.at + Skew[e.by]
  BY DEF SealingTypeOK
<1>2. e.kind \in Kinds /\ e.by \in Instances
  BY <1>1 DEF Envelope
<1>3. TTL[e.kind] \in Nat /\ Skew[e.by] \in Nat
  BY <1>2, SealingAssumption
<1>4. taken[e.by] \in Nat
  BY <1>2 DEF SealingTypeOK
<1> QED
  BY <1>1, <1>2, <1>3, <1>4 DEF Envelope

\* What a process sealed before it took its keys has expired everywhere once it has
\* had them for longer than Keep.
LEMMA Outlived ==
    ASSUME SealingTypeOK, NEW e \in envelopes, e.at <= taken[e.by], clock > taken[e.by] + Keep
    PROVE  Gone(e)
<1> SUFFICES ASSUME NEW p \in Instances
             PROVE  unix_time(p) - e.issued_at > TTL[e.kind]
  BY DEF Gone
<1>1. /\ e.kind \in Kinds /\ e.by \in Instances /\ e.at \in Nat /\ TTL[e.kind] \in Nat
      /\ Skew[e.by] \in Nat /\ taken[e.by] \in Nat /\ e.issued_at = e.at + Skew[e.by]
  BY Typed
<1>2. /\ Skew[p] \in Nat /\ Keep \in Nat /\ clock \in Nat
      /\ TTL[e.kind] + Skew[e.by] <= Keep + Skew[p]
  BY <1>1, SealingAssumption DEF SealingTypeOK
<1> QED
  BY <1>1, <1>2 DEF unix_time

-----------------------------------------------------------------------------
LEMMA DeployOK ==
    ASSUME RotationInv, NEW sealer \in XChaChaSealer, Deploy(sealer),
           deployed.current \in Accepted(sealer),
           ~staged => Accepted(sealer) \ {sealer.current} \subseteq Accepted(deployed),
           staged => sealer.current \in Accepted(deployed)
    PROVE  RotationInv'
<1>1. /\ SealingTypeOK /\ deployed' = sealer /\ clock' = clock /\ running' = running
      /\ taken' = taken /\ envelopes' = envelopes /\ staged' = staged
      /\ \A p \in Instances : running[p] = deployed
  BY DEF RotationInv, Deploy
<1>2. SealingTypeOK'
  BY <1>1 DEF SealingTypeOK
<1>3. CurrentAccepted'
  BY <1>1 DEF CurrentAccepted, Accepted
<1>4. \A e \in envelopes : Gone(e)' <=> Gone(e)
  BY <1>1 DEF Gone, unix_time
<1>5. ASSUME NEW e \in envelopes PROVE Sealed(e)' /\ Covered(e)'
  <2>1. Sealed(e) /\ Covered(e)
    BY DEF RotationInv
  <2>2. Sealed(e)'
    BY <1>1, <2>1 DEF Sealed
  <2>3. CASE e.key \in Accepted(sealer) \/ Gone(e)
    BY <1>1, <1>4, <2>2, <2>3 DEF Covered, Accepted
  <2>4. CASE e.key \notin Accepted(sealer) /\ e.key \in Accepted(deployed)
    <3>1. \A p \in Instances : clock > taken[p] + Keep
      BY <2>4 DEF Deploy
    <3>2. e.by \in Instances
      BY <1>1, Typed
    <3>3. e.at <= taken[e.by]
      BY <1>1, <2>1, <2>4, <3>2 DEF Sealed
    <3>4. Gone(e)
      BY <1>1, <3>1, <3>2, <3>3, Outlived
    <3> QED
      BY <1>4, <2>2, <3>4 DEF Covered
  <2> QED
    BY <2>1, <2>3, <2>4 DEF Covered
<1>6. ASSUME ~staged PROVE PriorKnown'
  BY <1>1, <1>6 DEF PriorKnown, Accepted
<1>7. ASSUME staged PROVE AllKnown'
  <2>1. \A p \in Instances : sealer.current \in Accepted(running[p])
    BY <1>1, <1>7
  <2>2. AllKnown
    BY <1>7 DEF RotationInv
  <2> QED
    BY <1>1, <1>4, <2>1, <2>2 DEF AllKnown, Accepted
<1> QED
  BY <1>1, <1>2, <1>3, <1>5, <1>6, <1>7 DEF RotationInv

LEMMA OperatorOK == ASSUME RotationInv, Rotate \/ Announce \/ Switch \/ Retire PROVE RotationInv'
<1>1. /\ deployed \in XChaChaSealer /\ deployed.current \in Keys
      /\ deployed.previous \in Keys \cup {NoKey} /\ deployed.current # NoKey
      /\ deployed.current \in Accepted(deployed)
  <2>1. deployed \in XChaChaSealer
    BY DEF RotationInv, SealingTypeOK
  <2> QED
    BY <2>1, CurrentIsAccepted, SealingAssumption DEF XChaChaSealer
<1>2. CASE Rotate
  <2>1. PICK key \in Keys : Deploy([current |-> key, previous |-> deployed.current])
    BY <1>2 DEF Rotate
  <2>2. PICK sealer : sealer = [current |-> key, previous |-> deployed.current]
    OBVIOUS
  <2>3. /\ sealer \in XChaChaSealer /\ Deploy(sealer) /\ sealer.current = key
        /\ sealer.previous = deployed.current
    BY <1>1, <2>1, <2>2 DEF XChaChaSealer
  <2>4. /\ deployed.current \in Accepted(sealer)
        /\ Accepted(sealer) \ {sealer.current} \subseteq Accepted(deployed)
    BY <1>1, <2>3 DEF Accepted
  <2> QED
    BY <1>2, <2>3, <2>4, DeployOK DEF Rotate
<1>3. CASE Announce
  <2>1. PICK key \in Keys : Deploy([deployed EXCEPT !.previous = key])
    BY <1>3 DEF Announce
  <2>2. PICK sealer : sealer = [deployed EXCEPT !.previous = key]
    OBVIOUS
  <2>3. sealer \in XChaChaSealer /\ Deploy(sealer) /\ sealer.current = deployed.current
    BY <1>1, <2>1, <2>2 DEF XChaChaSealer
  <2>4. deployed.current \in Accepted(sealer)
    BY <1>1, <2>3 DEF Accepted
  <2> QED
    BY <1>1, <1>3, <2>3, <2>4, DeployOK DEF Announce
<1>4. CASE Switch
  <2>1. deployed.previous # NoKey /\ deployed.previous \in Keys
    BY <1>1, <1>4 DEF Switch
  <2>2. PICK sealer :
          sealer = [current |-> deployed.previous, previous |-> deployed.current]
    OBVIOUS
  <2>3. /\ sealer \in XChaChaSealer /\ Deploy(sealer)
        /\ sealer.current = deployed.previous /\ sealer.previous = deployed.current
    BY <1>1, <1>4, <2>1, <2>2 DEF XChaChaSealer, Switch
  <2>4. deployed.current \in Accepted(sealer) /\ sealer.current \in Accepted(deployed)
    BY <1>1, <2>1, <2>3 DEF Accepted
  <2> QED
    BY <1>4, <2>3, <2>4, DeployOK DEF Switch
<1>5. CASE Retire
  <2>1. PICK sealer : sealer = [deployed EXCEPT !.previous = NoKey]
    OBVIOUS
  <2>2. /\ sealer \in XChaChaSealer /\ Deploy(sealer)
        /\ sealer.current = deployed.current /\ sealer.previous = NoKey
    BY <1>1, <1>5, <2>1 DEF XChaChaSealer, Retire
  <2>3. /\ deployed.current \in Accepted(sealer)
        /\ Accepted(sealer) \ {sealer.current} \subseteq Accepted(deployed)
    BY <1>1, <2>2 DEF Accepted
  <2> QED
    BY <1>1, <2>2, <2>3, DeployOK
<1> QED
  BY <1>2, <1>3, <1>4, <1>5

LEMMA TickOK == ASSUME RotationInv, Tick PROVE RotationInv'
<1>1. /\ SealingTypeOK /\ clock < MaxTime /\ clock' = clock + 1 /\ deployed' = deployed
      /\ running' = running /\ taken' = taken /\ envelopes' = envelopes /\ staged' = staged
  BY DEF RotationInv, Tick
<1>2. clock \in Nat /\ clock' \in Nat /\ clock' \in 0..MaxTime /\ clock <= clock'
  BY <1>1, SealingAssumption DEF SealingTypeOK
<1>3. SealingTypeOK'
  <2>1. \A p \in Instances : taken[p] \in Nat /\ taken[p] <= clock
    BY <1>1 DEF SealingTypeOK
  <2>2. \A p \in Instances : taken[p] <= clock'
    BY <1>2, <2>1
  <2>3. \A e \in envelopes : e.at <= clock'
    <3>1. \A e \in envelopes : e.at \in Nat /\ e.at <= clock
      BY <1>1, Typed
    <3> QED
      BY <1>2, <3>1
  <2> QED
    BY <1>1, <1>2, <2>2, <2>3 DEF SealingTypeOK
<1>4. ASSUME NEW e \in envelopes, Gone(e) PROVE Gone(e)'
  <2> SUFFICES ASSUME NEW p \in Instances
               PROVE  unix_time(p)' - e.issued_at > TTL[e.kind]
    BY DEF Gone
  <2>1. unix_time(p) - e.issued_at > TTL[e.kind]
    BY <1>4 DEF Gone
  <2>2. Skew[p] \in Nat /\ e.issued_at \in Nat /\ TTL[e.kind] \in Nat
    BY <1>1, Typed, SealingAssumption
  <2> QED
    BY <1>1, <1>2, <2>1, <2>2 DEF unix_time
<1>5. CurrentAccepted' /\ \A e \in envelopes : Sealed(e)' /\ Covered(e)'
  BY <1>1, <1>4 DEF RotationInv, CurrentAccepted, Sealed, Covered, Accepted
<1>6. (~staged => PriorKnown') /\ (staged => AllKnown')
  BY <1>1, <1>4 DEF RotationInv, PriorKnown, AllKnown, Accepted
<1> QED
  BY <1>1, <1>3, <1>5, <1>6 DEF RotationInv

LEMMA RestartOK == ASSUME RotationInv, NEW p \in Instances, Restart(p) PROVE RotationInv'
<1>1. /\ SealingTypeOK /\ running' = [running EXCEPT ![p] = deployed] /\ clock' = clock
      /\ taken' = [taken EXCEPT ![p] = IF running[p] = deployed THEN @ ELSE clock]
      /\ deployed' = deployed /\ envelopes' = envelopes /\ staged' = staged
  BY DEF RotationInv, Restart
<1>2. /\ running \in [Instances -> XChaChaSealer] /\ taken \in [Instances -> Nat]
      /\ deployed \in XChaChaSealer /\ clock \in Nat
      /\ \A q \in Instances : taken[q] <= clock
  BY <1>1 DEF SealingTypeOK
<1>3. /\ running'[p] = deployed
      /\ \A q \in Instances : q # p => running'[q] = running[q] /\ taken'[q] = taken[q]
      /\ taken'[p] = IF running[p] = deployed THEN taken[p] ELSE clock
  BY <1>1, <1>2
<1>4. SealingTypeOK'
  <2>1. running' \in [Instances -> XChaChaSealer] /\ taken' \in [Instances -> Nat]
    BY <1>1, <1>2
  <2>2. \A q \in Instances : taken'[q] <= clock
    BY <1>2, <1>3
  <2> QED
    BY <1>1, <2>1, <2>2 DEF SealingTypeOK
<1>5. \A e \in envelopes : Gone(e)' <=> Gone(e)
  BY <1>1 DEF Gone, unix_time
<1>6. deployed.current \in Accepted(deployed)
  BY <1>2, CurrentIsAccepted
<1>7. CurrentAccepted'
  BY <1>1, <1>3, <1>6 DEF RotationInv, CurrentAccepted, Accepted
<1>8. ASSUME NEW e \in envelopes PROVE Sealed(e)' /\ Covered(e)'
  <2>1. Sealed(e) /\ Covered(e)
    BY DEF RotationInv
  <2>2. e.by \in Instances /\ e.at <= clock
    BY <1>1, Typed
  <2>3. Sealed(e)'
    BY <1>3, <2>1, <2>2 DEF Sealed
  <2> QED
    BY <1>1, <1>5, <2>1, <2>3 DEF Covered, Accepted
<1>9. ASSUME ~staged PROVE PriorKnown'
  BY <1>1, <1>3, <1>9 DEF RotationInv, PriorKnown, Accepted
<1>10. ASSUME staged PROVE AllKnown'
  <2>1. AllKnown /\ CurrentAccepted
    BY <1>10 DEF RotationInv
  <2>2. \A q \in Instances :
          Accepted(running'[q]) = Accepted(IF q = p THEN deployed ELSE running[q])
    BY <1>3
  <2>3. \A q \in Instances : deployed.current \in Accepted(running'[q])
    BY <1>3, <1>6, <2>1 DEF AllKnown
  <2>4. \A q, r \in Instances : running'[r].current \in Accepted(running'[q])
    BY <1>3, <1>6, <2>1, <2>3 DEF AllKnown, CurrentAccepted
  <2>5. \A q \in Instances, e \in envelopes : e.key \in Accepted(running'[q]) \/ Gone(e)
    BY <1>3, <2>1 DEF AllKnown, RotationInv, Covered
  <2> QED
    BY <1>1, <1>5, <2>3, <2>4, <2>5 DEF AllKnown, Accepted
<1> QED
  BY <1>1, <1>4, <1>7, <1>8, <1>9, <1>10 DEF RotationInv

LEMMA SealOK ==
    ASSUME RotationInv, NEW p \in Instances, NEW kind \in Kinds, Seal(p, kind) PROVE RotationInv'
<1>1. PICK n : n = [key |-> running[p].current, issued_at |-> unix_time(p),
                    kind |-> kind, by |-> p, at |-> clock]
  OBVIOUS
<1>2. /\ SealingTypeOK /\ envelopes' = envelopes \cup {n}
      /\ clock' = clock /\ deployed' = deployed
      /\ running' = running /\ taken' = taken /\ staged' = staged
  BY <1>1 DEF RotationInv, Seal, SealWith
<1>3. clock \in Nat /\ Skew[p] \in Nat /\ running[p] \in XChaChaSealer
  BY <1>2, SealingAssumption DEF SealingTypeOK
<1>4. /\ n.key = running[p].current /\ n.at = clock /\ n.by = p /\ n.issued_at = clock + Skew[p]
      /\ n.kind = kind
  BY <1>1 DEF unix_time
<1>5. n \in Envelope
  <2>1. running[p].current \in Keys /\ unix_time(p) \in Nat
    BY <1>3, CurrentIsAccepted DEF unix_time
  <2> QED
    BY <1>1, <1>3, <2>1 DEF Envelope
<1>6. SealingTypeOK'
  BY <1>2, <1>3, <1>4, <1>5 DEF SealingTypeOK
<1>7. \A e \in envelopes : Gone(e)' <=> Gone(e)
  BY <1>2 DEF Gone, unix_time
<1>8. CurrentAccepted'
  BY <1>2 DEF RotationInv, CurrentAccepted, Accepted
<1>9. \A e \in envelopes' : Sealed(e)' /\ Covered(e)'
  <2>1. \A e \in envelopes : Sealed(e)' /\ Covered(e)'
    BY <1>2, <1>7 DEF RotationInv, Sealed, Covered, Accepted
  <2>2. Sealed(n)' /\ Covered(n)'
    BY <1>2, <1>4 DEF RotationInv, CurrentAccepted, Sealed, Covered, Accepted
  <2> QED
    BY <1>2, <2>1, <2>2
<1>10. ASSUME ~staged PROVE PriorKnown'
  BY <1>2, <1>10 DEF RotationInv, PriorKnown, Accepted
<1>11. ASSUME staged PROVE AllKnown'
  <2>1. AllKnown
    BY <1>11 DEF RotationInv
  <2>2. \A q \in Instances : n.key \in Accepted(running[q])
    BY <1>4, <2>1 DEF AllKnown
  <2> QED
    BY <1>2, <1>7, <2>1, <2>2 DEF AllKnown, Accepted
<1> QED
  BY <1>2, <1>6, <1>8, <1>9, <1>10, <1>11 DEF RotationInv

-----------------------------------------------------------------------------
LEMMA SealingInitOK == SealingInit => RotationInv
<1> SUFFICES ASSUME SealingInit PROVE RotationInv
  OBVIOUS
<1>1. PICK k \in Keys : deployed = [current |-> k, previous |-> NoKey]
  BY DEF SealingInit
<1>2. /\ clock = 0 /\ running = [p \in Instances |-> deployed]
      /\ taken = [p \in Instances |-> 0] /\ envelopes = {} /\ staged \in BOOLEAN
  BY DEF SealingInit
<1>3. deployed \in XChaChaSealer
  BY <1>1 DEF XChaChaSealer
<1>4. deployed.current \in Accepted(deployed)
  BY <1>3, CurrentIsAccepted
<1>5. SealingTypeOK
  BY <1>2, <1>3, SealingAssumption DEF SealingTypeOK
<1> QED
  BY <1>2, <1>4, <1>5 DEF RotationInv, CurrentAccepted, PriorKnown, AllKnown

LEMMA SealingStepOK == RotationInv /\ [SealingNext]_sealingVars => RotationInv'
<1> SUFFICES ASSUME RotationInv, [SealingNext]_sealingVars PROVE RotationInv'
  OBVIOUS
<1>1. CASE UNCHANGED sealingVars
  BY <1>1 DEF sealingVars, RotationInv, SealingTypeOK, CurrentAccepted, Sealed, Covered,
              Gone, unix_time, PriorKnown, AllKnown, Accepted
<1>2. CASE Tick
  BY <1>2, TickOK
<1>3. ASSUME NEW p \in Instances, Restart(p) PROVE RotationInv'
  BY <1>3, RestartOK
<1>4. ASSUME NEW p \in Instances, NEW kind \in Kinds, Seal(p, kind) PROVE RotationInv'
  BY <1>4, SealOK
<1>5. CASE Rotate \/ Announce \/ Switch \/ Retire
  BY <1>5, OperatorOK
<1> QED
  BY <1>1, <1>2, <1>3, <1>4, <1>5 DEF SealingNext

LEMMA SealingInvariance == SealingSpec => []RotationInv
BY SealingInitOK, SealingStepOK, PTL DEF SealingSpec

\* Keys, envelopes and their dates are what they are declared to be.
THEOREM SealingTypeCorrect == SealingSpec => []SealingTypeOK
<1>1. RotationInv => SealingTypeOK
  BY DEF RotationInv
<1> QED
  BY SealingInvariance, <1>1, PTL

\* Where a rotation follows the documentation, only what the new key sealed is
\* refused, and only by instances that do not have it yet; nothing is, if every
\* instance has it before one of them uses it.
THEOREM RefusedOnlyBeforeRestartHolds == SealingSpec => []RefusedOnlyBeforeRestart
<1>1. RotationInv => RefusedOnlyBeforeRestart
  <2> SUFFICES ASSUME RotationInv, NEW p \in Instances, NEW e \in envelopes,
                      Fresh(p, e), ~Unseals(p, e)
               PROVE  ~staged /\ running[p] # deployed /\ e.key = deployed.current
    BY DEF RefusedOnlyBeforeRestart
  <2>1. ~Gone(e)
    <3>1. e.issued_at \in Nat /\ TTL[e.kind] \in Nat /\ unix_time(p) \in Nat
      <4>1. clock \in Nat /\ Skew[p] \in Nat
        BY SealingAssumption DEF RotationInv, SealingTypeOK
      <4> QED
        BY <4>1, Typed DEF RotationInv, unix_time
    <3> QED
      BY <3>1 DEF Gone, Fresh
  <2>2. e.key \in Accepted(deployed) /\ e.key \notin Accepted(running[p])
    BY <2>1 DEF RotationInv, Covered, Unseals
  <2>3. ~staged
    BY <2>1, <2>2, SealingAssumption DEF RotationInv, AllKnown
  <2> QED
    BY <2>2, <2>3 DEF RotationInv, PriorKnown
<1> QED
  BY SealingInvariance, <1>1, PTL

-----------------------------------------------------------------------------
\* Of a set of numbers that is not empty, one is the least.
LEMMA LeastNumber ==
    ASSUME NEW T, T \subseteq Nat, T # {}
    PROVE  \E n \in T : \A m \in T : ~(m < n)
<1>1. PICK n \in T : \A m \in T : ~(<<m, n>> \in OpToRel(<, Nat))
  BY WFMin, NatLessThanWellFounded
<1> QED
  BY <1>1 DEF OpToRel

\* A set with zero and the successor of each number in it has them all.
LEMMA AllNumbers ==
    ASSUME NEW T, 0 \in T, \A n \in Nat : n \in T => n + 1 \in T
    PROVE  Nat \subseteq T
<1> DEFINE Missing == {n \in Nat : n \notin T}
<1>1. SUFFICES ASSUME Missing # {} PROVE FALSE
  OBVIOUS
<1>2. PICK n \in Missing : \A m \in Missing : ~(m < n)
  BY <1>1, LeastNumber
<1>3. n \in Nat /\ n # 0
  BY <1>2
<1>4. n - 1 \in Nat /\ n - 1 < n /\ (n - 1) + 1 = n
  BY <1>3
<1>5. n - 1 \in T
  BY <1>2, <1>4
<1> QED
  BY <1>2, <1>4, <1>5

\* A set with the empty sequence and what any sequence in it is extended to has
\* them all.
LEMMA AllSequences ==
    ASSUME NEW S, NEW T, << >> \in T,
           \A q \in Seq(S) : \A p \in S : q \in T => Append(q, p) \in T
    PROVE  Seq(S) \subseteq T
<1> DEFINE L == {n \in Nat : \A q \in Seq(S) : Len(q) = n => q \in T}
<1>1. 0 \in L
  OBVIOUS
<1>2. ASSUME NEW n \in Nat, n \in L PROVE n + 1 \in L
  <2> SUFFICES ASSUME NEW q \in Seq(S), Len(q) = n + 1 PROVE q \in T
    OBVIOUS
  <2> DEFINE front == SubSeq(q, 1, n)
  <2>1. front \in Seq(S) /\ Len(front) = n /\ q[n + 1] \in S
    OBVIOUS
  <2>2. q = Append(front, q[n + 1])
    OBVIOUS
  <2> QED
    BY <1>2, <2>1, <2>2
<1>3. Nat \subseteq L
  BY <1>1, <1>2, AllNumbers
<1> QED
  BY <1>3

-----------------------------------------------------------------------------
\* What the recursive function of Without goes through on the first n pairs.
IsKept(q, names, n, f) ==
    f = [i \in 0..n |-> IF i = 0 THEN << >>
                        ELSE IF q[i][1] \in names THEN f[i - 1]
                        ELSE Append(f[i - 1], q[i])]

KeepsGoing(q, names, n, f) ==
    /\ f[0] = << >>
    /\ \A i \in 1..n :
         f[i] = IF q[i][1] \in names THEN f[i - 1] ELSE Append(f[i - 1], q[i])

LEMMA KeptAt ==
    ASSUME NEW q, NEW names, NEW n \in Nat, NEW f, IsKept(q, names, n, f)
    PROVE  KeepsGoing(q, names, n, f)
<1> DEFINE h == [j \in 0..n |-> IF j = 0 THEN << >>
                        ELSE IF q[j][1] \in names THEN f[j - 1]
                        ELSE Append(f[j - 1], q[j])]
<1>1. f = h
  BY DEF IsKept
<1>2. \A i \in 0..n : f[i] = h[i]
  <2> HIDE DEF h
  <2> QED BY <1>1
<1>3. 0 \in 0..n /\ \A i \in 1..n : i \in 0..n /\ i # 0
  OBVIOUS
<1>4. h[0] = << >>
  BY <1>3
<1>5. ASSUME NEW i \in 1..n
      PROVE  h[i] = IF q[i][1] \in names THEN f[i - 1] ELSE Append(f[i - 1], q[i])
  BY <1>3
<1> HIDE DEF h
<1> QED
  BY <1>2, <1>3, <1>4, <1>5 DEF KeepsGoing

\* There is one such function, and Without takes its last value.
LEMMA KeptExists ==
    ASSUME NEW q, NEW names, NEW n \in Nat PROVE \E f : IsKept(q, names, n, f)
<1> DEFINE T == {m \in Nat : \E f : IsKept(q, names, m, f)}
<1>1. 0 \in T
  <2>1. IsKept(q, names, 0, [i \in 0..0 |-> << >>])
    BY DEF IsKept
  <2> QED
    BY <2>1
<1>2. ASSUME NEW m \in Nat, m \in T PROVE m + 1 \in T
  <2>1. PICK f : IsKept(q, names, m, f)
    BY <1>2
  <2> DEFINE g == [i \in 0..(m + 1) |-> IF i = 0 THEN << >>
                        ELSE IF q[i][1] \in names THEN f[i - 1]
                        ELSE Append(f[i - 1], q[i])]
  <2>2. \A i \in 0..m : g[i] = f[i]
    <3>1. KeepsGoing(q, names, m, f)
      BY <2>1, KeptAt
    <3> QED BY <3>1 DEF KeepsGoing
  <2>3. \A i \in 0..(m + 1) : i # 0 => i - 1 \in 0..m
    OBVIOUS
  <2>4. \A i \in 0..(m + 1) : g[i] = IF i = 0 THEN << >>
                        ELSE IF q[i][1] \in names THEN g[i - 1]
                        ELSE Append(g[i - 1], q[i])
    BY <2>2, <2>3
  <2>5. IsKept(q, names, m + 1, g)
    <3> HIDE DEF g
    <3> QED BY <2>4 DEF IsKept, g
  <2> QED
    BY <2>5
<1>3. Nat \subseteq T
  <2> HIDE DEF T
  <2> QED BY <1>1, <1>2, AllNumbers
<1> QED
  BY <1>3

\* It depends on nothing but those pairs.
LEMMA KeptAgree ==
    ASSUME NEW q, NEW r, NEW names, NEW n \in Nat, NEW m \in Nat, NEW f, NEW g,
           KeepsGoing(q, names, n, f), KeepsGoing(r, names, m, g),
           NEW k \in Nat, k <= n, k <= m, \A i \in 1..k : q[i] = r[i]
    PROVE  f[k] = g[k]
<1> DEFINE T == {j \in Nat : j <= k => f[j] = g[j]}
<1>1. 0 \in T
  BY DEF KeepsGoing
<1>2. ASSUME NEW j \in Nat, j \in T PROVE j + 1 \in T
  <2> SUFFICES ASSUME j + 1 <= k PROVE f[j + 1] = g[j + 1]
    OBVIOUS
  <2>1. j + 1 \in 1..n /\ j + 1 \in 1..m /\ (j + 1) - 1 = j /\ j + 1 \in 1..k
    OBVIOUS
  <2>2. f[j] = g[j] /\ q[j + 1] = r[j + 1]
    BY <1>2
  <2>3. f[j + 1] = IF q[j + 1][1] \in names THEN f[j] ELSE Append(f[j], q[j + 1])
    BY <2>1 DEF KeepsGoing
  <2>4. g[j + 1] = IF r[j + 1][1] \in names THEN g[j] ELSE Append(g[j], r[j + 1])
    BY <2>1 DEF KeepsGoing
  <2> QED
    BY <2>2, <2>3, <2>4
<1>3. Nat \subseteq T
  <2> HIDE DEF T
  <2> QED BY <1>1, <1>2, AllNumbers
<1> QED
  BY <1>3

LEMMA WithoutRuns ==
    ASSUME NEW S, NEW q \in Seq(S), NEW names
    PROVE  \E f : KeepsGoing(q, names, Len(q), f) /\ Without(q, names) = f[Len(q)]
<1> DEFINE kept == CHOOSE f : IsKept(q, names, Len(q), f)
<1>1. IsKept(q, names, Len(q), kept)
  BY KeptExists
<1>2. Without(q, names) = kept[Len(q)]
  BY DEF Without, IsKept
<1>3. KeepsGoing(q, names, Len(q), kept)
  BY <1>1, KeptAt
<1> QED
  BY <1>2, <1>3

\* Without, pair by pair.
LEMMA WithoutNone == ASSUME NEW names PROVE Without(<< >>, names) = << >>
<1>1. << >> \in Seq({}) /\ Len(<< >>) = 0
  OBVIOUS
<1>2. PICK f : KeepsGoing(<< >>, names, 0, f) /\ Without(<< >>, names) = f[0]
  BY <1>1, WithoutRuns
<1> QED
  BY <1>2 DEF KeepsGoing

\* One more pair is kept at the end, or left out.
LEMMA WithoutLast ==
    ASSUME NEW S, NEW q \in Seq(S), NEW p \in S, NEW names
    PROVE  Without(Append(q, p), names) =
             IF p[1] \in names THEN Without(q, names) ELSE Append(Without(q, names), p)
<1> DEFINE r == Append(q, p)
           n == Len(q)
<1>1. r \in Seq(S) /\ Len(r) = n + 1 /\ r[n + 1] = p /\ n \in Nat
  OBVIOUS
<1>2. \A i \in 1..n : r[i] = q[i]
  OBVIOUS
<1>3. PICK f : KeepsGoing(q, names, n, f) /\ Without(q, names) = f[n]
  BY WithoutRuns
<1>4. PICK g : KeepsGoing(r, names, n + 1, g) /\ Without(r, names) = g[n + 1]
  BY <1>1, WithoutRuns
<1>5. g[n] = f[n]
  <2>1. n + 1 \in Nat /\ n <= n + 1 /\ n <= n
    BY <1>1
  <2> HIDE DEF r, n
  <2> QED BY <1>1, <1>2, <1>3, <1>4, <2>1, KeptAgree
<1>6. g[n + 1] = IF r[n + 1][1] \in names THEN g[n] ELSE Append(g[n], r[n + 1])
  <2>1. n + 1 \in 1..(n + 1) /\ (n + 1) - 1 = n /\ n + 1 \in Nat
    BY <1>1
  <2> HIDE DEF r, n
  <2> QED BY <1>4, <2>1 DEF KeepsGoing
<1> QED
  BY <1>1, <1>3, <1>4, <1>5, <1>6

-----------------------------------------------------------------------------
\* What is left is of other names.
LEMMA WithoutType ==
    ASSUME NEW S, NEW names, NEW q \in Seq(S)
    PROVE  Without(q, names) \in Seq({p \in S : p[1] \notin names})
<1> DEFINE Rest == {p \in S : p[1] \notin names}
           T == {r \in Seq(S) : Without(r, names) \in Seq(Rest)}
<1>1. << >> \in T
  <2>1. << >> \in Seq(S) /\ << >> \in Seq(Rest)
    OBVIOUS
  <2>2. Without(<< >>, names) = << >>
    BY WithoutNone
  <2> QED BY <2>1, <2>2
<1>2. ASSUME NEW r \in Seq(S), NEW p \in S, r \in T PROVE Append(r, p) \in T
  <2>1. Append(r, p) \in Seq(S)
    OBVIOUS
  <2>2. CASE p[1] \in names
    BY <1>2, <2>1, <2>2, WithoutLast
  <2>3. CASE p[1] \notin names
    <3>1. Without(Append(r, p), names) = Append(Without(r, names), p)
      BY <2>3, WithoutLast
    <3>2. p \in Rest
      BY <2>3
    <3> QED
      BY <1>2, <2>1, <3>1, <3>2
  <2> QED BY <2>2, <2>3
<1>3. Seq(S) \subseteq T
  <2> HIDE DEF T
  <2> QED BY <1>1, <1>2, AllSequences
<1> QED
  BY <1>3

LEMMA WithoutSeq ==
    ASSUME NEW S, NEW names, NEW q \in Seq(S) PROVE Without(q, names) \in Seq(S)
<1> DEFINE Rest == {p \in S : p[1] \notin names}
           w == Without(q, names)
<1>1. w \in Seq(Rest)
  BY WithoutType
<1>2. Rest \subseteq S
  OBVIOUS
<1> HIDE DEF w, Rest
<1>3. w \in Seq(S)
  BY <1>1, <1>2
<1> QED BY <1>3 DEF w

LEMMA AppendToConcat ==
    ASSUME NEW S, NEW q \in Seq(S), NEW r \in Seq(S), NEW p \in S
    PROVE  q \o Append(r, p) = Append(q \o r, p)
OBVIOUS

\* The pairs of a sequence, and of what is made of sequences.
Pairs(q) == {q[i] : i \in DOMAIN q}

LEMMA PairsOfAppend ==
    ASSUME NEW S, NEW q \in Seq(S), NEW p
    PROVE  Pairs(Append(q, p)) = Pairs(q) \cup {p}
<1> DEFINE r == Append(q, p)
<1>1. DOMAIN r = 1..(Len(q) + 1) /\ DOMAIN q = 1..Len(q)
  OBVIOUS
<1>2. r[Len(q) + 1] = p /\ \A i \in DOMAIN q : r[i] = q[i]
  OBVIOUS
<1>3. DOMAIN r = DOMAIN q \cup {Len(q) + 1}
  BY <1>1
<1> HIDE DEF r
<1> QED
  BY <1>2, <1>3 DEF Pairs, r

LEMMA PairsOfConcat ==
    ASSUME NEW S, NEW q \in Seq(S), NEW r \in Seq(S)
    PROVE  Pairs(q \o r) = Pairs(q) \cup Pairs(r)
<1> DEFINE w == q \o r
<1>1. /\ DOMAIN w = 1..(Len(q) + Len(r))
      /\ DOMAIN q = 1..Len(q) /\ DOMAIN r = 1..Len(r)
  OBVIOUS
<1>2. \A i \in DOMAIN q : i \in DOMAIN w /\ w[i] = q[i]
  BY <1>1
<1>3. \A i \in DOMAIN r : Len(q) + i \in DOMAIN w /\ w[Len(q) + i] = r[i]
  BY <1>1
<1>4. \A i \in DOMAIN w :
        i \in DOMAIN q \/ (i - Len(q) \in DOMAIN r /\ w[i] = r[i - Len(q)])
  BY <1>1
<1> HIDE DEF w
<1>5. \A p \in Pairs(w) : p \in Pairs(q) \cup Pairs(r)
  BY <1>2, <1>4 DEF Pairs
<1>6. \A p \in Pairs(q) \cup Pairs(r) : p \in Pairs(w)
  BY <1>2, <1>3 DEF Pairs
<1> QED
  BY <1>5, <1>6 DEF w

\* What a filter leaves.
LEMMA PairsOfWithout ==
    ASSUME NEW S, NEW names, NEW q \in Seq(S)
    PROVE  Pairs(Without(q, names)) = {p \in Pairs(q) : p[1] \notin names}
<1> DEFINE T == {r \in Seq(S) :
                    Pairs(Without(r, names)) = {p \in Pairs(r) : p[1] \notin names}}
<1>1. << >> \in T
  BY WithoutNone DEF Pairs
<1>2. ASSUME NEW r \in Seq(S), NEW p \in S, r \in T PROVE Append(r, p) \in T
  <2>1. Append(r, p) \in Seq(S) /\ Pairs(Append(r, p)) = Pairs(r) \cup {p}
    BY PairsOfAppend
  <2>2. CASE p[1] \in names
    BY <1>2, <2>1, <2>2, WithoutLast
  <2>3. CASE p[1] \notin names
    <3>1. Without(Append(r, p), names) = Append(Without(r, names), p)
      BY <2>3, WithoutLast
    <3>2. Pairs(Append(Without(r, names), p)) = Pairs(Without(r, names)) \cup {p}
      BY WithoutSeq, PairsOfAppend
    <3> QED
      BY <1>2, <2>1, <2>3, <3>1, <3>2
  <2> QED BY <2>2, <2>3
<1>3. Seq(S) \subseteq T
  <2> HIDE DEF T
  <2> QED BY <1>1, <1>2, AllSequences
<1> QED
  BY <1>3

\* Two messages, and one after the other.
LEMMA WithoutConcat ==
    ASSUME NEW S, NEW names, NEW q \in Seq(S), NEW r \in Seq(S)
    PROVE  Without(q \o r, names) = Without(q, names) \o Without(r, names)
<1> DEFINE T == {w \in Seq(S) :
                    Without(q \o w, names) = Without(q, names) \o Without(w, names)}
<1>0. Without(q, names) \in Seq(S)
  BY WithoutSeq
<1>1. << >> \in T
  BY <1>0, WithoutNone
<1>2. ASSUME NEW w \in Seq(S), NEW p \in S, w \in T PROVE Append(w, p) \in T
  <2>1. Append(w, p) \in Seq(S) /\ q \o w \in Seq(S) /\ q \o Append(w, p) = Append(q \o w, p)
    OBVIOUS
  <2>2. CASE p[1] \in names
    <3>1. /\ Without(q \o Append(w, p), names) = Without(q \o w, names)
          /\ Without(Append(w, p), names) = Without(w, names)
      BY <2>1, <2>2, WithoutLast
    <3> QED BY <1>2, <2>1, <3>1
  <2>3. CASE p[1] \notin names
    <3>1. Without(Append(q \o w, p), names) = Append(Without(q \o w, names), p)
      BY <2>1, <2>3, WithoutLast
    <3>2. Without(Append(w, p), names) = Append(Without(w, names), p)
      BY <2>3, WithoutLast
    <3>3. Without(w, names) \in Seq(S)
      BY WithoutSeq
    <3>4. Append(Without(q, names) \o Without(w, names), p)
            = Without(q, names) \o Append(Without(w, names), p)
      <4> DEFINE a == Without(q, names)
                 b == Without(w, names)
      <4>1. a \in Seq(S) /\ b \in Seq(S)
        BY <1>0, <3>3
      <4> HIDE DEF a, b
      <4>2. a \o Append(b, p) = Append(a \o b, p)
        BY <4>1, AppendToConcat
      <4> QED BY <4>2 DEF a, b
    <3>5. Without(q \o w, names) = Without(q, names) \o Without(w, names)
      BY <1>2
    <3>6. Without(q \o Append(w, p), names) = Without(q, names) \o Without(Append(w, p), names)
      BY <2>1, <3>1, <3>2, <3>4, <3>5, Zenon
    <3> QED BY <2>1, <3>6
  <2> QED BY <2>2, <2>3
<1>3. Seq(S) \subseteq T
  <2> HIDE DEF T
  <2> QED BY <1>1, <1>2, AllSequences
<1> QED
  BY <1>3

\* A filter after a weaker one is the former alone.
LEMMA WithoutTwice ==
    ASSUME NEW S, NEW A, NEW B, NEW q \in Seq(S), A \subseteq B
    PROVE  Without(Without(q, A), B) = Without(q, B)
<1> DEFINE T == {w \in Seq(S) : Without(Without(w, A), B) = Without(w, B)}
<1>1. << >> \in T
  BY WithoutNone
<1>2. ASSUME NEW w \in Seq(S), NEW p \in S, w \in T PROVE Append(w, p) \in T
  <2>0. Without(w, A) \in Seq(S)
    BY WithoutSeq
  <2>1. Append(w, p) \in Seq(S)
    OBVIOUS
  <2>2. Without(Append(w, p), A) = IF p[1] \in A THEN Without(w, A) ELSE Append(Without(w, A), p)
    BY WithoutLast
  <2>3. Without(Append(w, p), B) = IF p[1] \in B THEN Without(w, B) ELSE Append(Without(w, B), p)
    BY WithoutLast
  <2>4. Without(Append(Without(w, A), p), B)
          = IF p[1] \in B THEN Without(Without(w, A), B) ELSE Append(Without(Without(w, A), B), p)
    BY <2>0, WithoutLast
  <2> QED BY <1>2, <2>1, <2>2, <2>3, <2>4
<1>3. Seq(S) \subseteq T
  <2> HIDE DEF T
  <2> QED BY <1>1, <1>2, AllSequences
<1> QED
  BY <1>3

LEMMA WithoutAll ==
    ASSUME NEW S, NEW names, NEW q \in Seq(S), \A p \in Pairs(q) : p[1] \in names
    PROVE  Without(q, names) = << >>
<1>1. Without(q, names) \in Seq(S) /\ Pairs(Without(q, names)) = {}
  BY WithoutSeq, PairsOfWithout
<1>2. DOMAIN Without(q, names) = {}
  BY <1>1 DEF Pairs
<1> QED
  BY <1>1, <1>2

-----------------------------------------------------------------------------
\* Looking a parameter up.
LEMMA GivenPair ==
    ASSUME NEW q, NEW name
    PROVE  /\ Given(q, name) <=> \E p \in Pairs(q) : p[1] = name
           /\ Given(q, name) => \E p \in Pairs(q) : p[1] = name /\ Value(q, name) = p[2]
           /\ ~Given(q, name) => Value(q, name) = None
<1>1. Given(q, name) <=> \E p \in Pairs(q) : p[1] = name
  BY DEF Given, Pairs
<1>2. ASSUME Given(q, name)
      PROVE  \E p \in Pairs(q) : p[1] = name /\ Value(q, name) = p[2]
  <2> DEFINE i == CHOOSE i \in DOMAIN q : q[i][1] = name
  <2>1. i \in DOMAIN q /\ q[i][1] = name
    BY <1>2 DEF Given
  <2>2. Value(q, name) = q[i][2]
    BY <1>2 DEF Value
  <2> HIDE DEF i
  <2> QED BY <2>1, <2>2 DEF Pairs
<1>3. ~Given(q, name) => Value(q, name) = None
  BY DEF Value
<1> QED BY <1>1, <1>2, <1>3

\* A parameter that is not repeated has the value of any of its pairs.
LEMMA OnlyValue ==
    ASSUME NEW q, NEW names, NoneTwice(q, names), NEW p \in Pairs(q), p[1] \in names
    PROVE  Value(q, p[1]) = p[2]
<1>1. PICK i \in DOMAIN q : q[i] = p
  BY DEF Pairs
<1>2. Given(q, p[1])
  BY <1>1 DEF Given
<1> DEFINE j == CHOOSE j \in DOMAIN q : q[j][1] = p[1]
<1>3. j \in DOMAIN q /\ q[j][1] = p[1]
  BY <1>1
<1>4. Value(q, p[1]) = q[j][2]
  BY <1>2 DEF Value
<1> HIDE DEF j
<1>5. i = j
  BY <1>1, <1>3 DEF NoneTwice
<1> QED BY <1>1, <1>4, <1>5

\* None twice, pair by pair.
LEMMA NoneTwiceLast ==
    ASSUME NEW S, NEW q \in Seq(S), NEW p, NEW names
    PROVE  NoneTwice(Append(q, p), names) <=>
             NoneTwice(q, names) /\ (p[1] \in names => \A r \in Pairs(q) : r[1] # p[1])
<1> DEFINE w == Append(q, p)
           n == Len(q) + 1
<1>1. DOMAIN w = DOMAIN q \cup {n} /\ n \notin DOMAIN q
  OBVIOUS
<1>2. w[n] = p /\ \A i \in DOMAIN q : w[i] = q[i]
  OBVIOUS
<1> HIDE DEF w, n
<1>3. ASSUME NoneTwice(w, names)
      PROVE  NoneTwice(q, names) /\ (p[1] \in names => \A r \in Pairs(q) : r[1] # p[1])
  BY <1>1, <1>2, <1>3 DEF NoneTwice, Pairs
<1>4. ASSUME NoneTwice(q, names), p[1] \in names => \A r \in Pairs(q) : r[1] # p[1]
      PROVE  NoneTwice(w, names)
  <2> SUFFICES ASSUME NEW i \in DOMAIN w, NEW j \in DOMAIN w, w[i][1] = w[j][1], w[i][1] \in names
               PROVE  i = j
    BY DEF NoneTwice
  <2>1. CASE i \in DOMAIN q /\ j \in DOMAIN q
    BY <1>2, <1>4, <2>1 DEF NoneTwice
  <2>2. CASE i \in DOMAIN q /\ j = n
    BY <1>2, <1>4, <2>2 DEF Pairs
  <2>3. CASE i = n /\ j \in DOMAIN q
    BY <1>2, <1>4, <2>3 DEF Pairs
  <2>4. CASE i = n /\ j = n
    BY <2>4
  <2> QED BY <1>1, <2>1, <2>2, <2>3, <2>4
<1> QED BY <1>3, <1>4 DEF w

\* What is allowed once stays so, in what is left and in what is put together.
LEMMA NoneTwiceWithout ==
    ASSUME NEW S, NEW q \in Seq(S), NEW names, NEW A, NoneTwice(q, names)
    PROVE  NoneTwice(Without(q, A), names)
<1> DEFINE T == {w \in Seq(S) : NoneTwice(w, names) => NoneTwice(Without(w, A), names)}
<1>1. << >> \in T
  BY WithoutNone
<1>2. ASSUME NEW w \in Seq(S), NEW p \in S, w \in T PROVE Append(w, p) \in T
  <2>1. Append(w, p) \in Seq(S) /\ Without(w, A) \in Seq(S)
    BY WithoutSeq
  <2> SUFFICES ASSUME NoneTwice(Append(w, p), names)
               PROVE  NoneTwice(Without(Append(w, p), A), names)
    BY <2>1
  <2>2. NoneTwice(w, names) /\ (p[1] \in names => \A r \in Pairs(w) : r[1] # p[1])
    BY NoneTwiceLast
  <2>3. NoneTwice(Without(w, A), names)
    BY <1>2, <2>2
  <2>4. p[1] \in names => \A r \in Pairs(Without(w, A)) : r[1] # p[1]
    BY <2>2, PairsOfWithout
  <2>5. NoneTwice(Append(Without(w, A), p), names)
    BY <2>1, <2>3, <2>4, NoneTwiceLast
  <2>6. Without(Append(w, p), A) = IF p[1] \in A THEN Without(w, A) ELSE Append(Without(w, A), p)
    BY WithoutLast
  <2> QED BY <2>3, <2>5, <2>6
<1>3. Seq(S) \subseteq T
  <2> HIDE DEF T
  <2> QED BY <1>1, <1>2, AllSequences
<1> QED
  BY <1>3

LEMMA NoneTwiceConcat ==
    ASSUME NEW S, NEW q \in Seq(S), NEW r \in Seq(S), NEW names,
           NoneTwice(q, names), NoneTwice(r, names),
           \A p \in Pairs(q), s \in Pairs(r) : p[1] = s[1] => p[1] \notin names
    PROVE  NoneTwice(q \o r, names)
<1> DEFINE w == q \o r
<1>1. /\ DOMAIN w = 1..(Len(q) + Len(r))
      /\ DOMAIN q = 1..Len(q) /\ DOMAIN r = 1..Len(r)
      /\ Len(q) \in Nat /\ Len(r) \in Nat
  OBVIOUS
<1>2. \A i \in DOMAIN q : w[i] = q[i]
  BY <1>1
<1>3. \A i \in DOMAIN w :
        i \in DOMAIN q \/ (i - Len(q) \in DOMAIN r /\ w[i] = r[i - Len(q)])
  BY <1>1
<1> HIDE DEF w
<1> SUFFICES ASSUME NEW i \in DOMAIN w, NEW j \in DOMAIN w, w[i][1] = w[j][1], w[i][1] \in names
             PROVE  i = j
  BY DEF NoneTwice, w
<1>4. CASE i \in DOMAIN q /\ j \in DOMAIN q
  BY <1>2, <1>4 DEF NoneTwice
<1>5. CASE i \in DOMAIN q /\ j \notin DOMAIN q
  BY <1>2, <1>3, <1>5 DEF Pairs
<1>6. CASE i \notin DOMAIN q /\ j \in DOMAIN q
  BY <1>2, <1>3, <1>6 DEF Pairs
<1>7. CASE i \notin DOMAIN q /\ j \notin DOMAIN q
  <2>1. i - Len(q) = j - Len(q)
    BY <1>3, <1>7 DEF NoneTwice
  <2> QED BY <1>1, <2>1
<1> QED BY <1>4, <1>5, <1>6, <1>7

-----------------------------------------------------------------------------
\* The same for the recursive function of WithoutDots.
IsResolved(q, n, f) ==
    f = [i \in 0..n |-> IF i = 0 THEN << >> ELSE Reached(f[i - 1], q[i])]

Resolves(q, n, f) ==
    f[0] = << >> /\ \A i \in 1..n : f[i] = Reached(f[i - 1], q[i])

LEMMA ResolvedAt ==
    ASSUME NEW q, NEW n \in Nat, NEW f, IsResolved(q, n, f)
    PROVE  Resolves(q, n, f)
<1> DEFINE h == [j \in 0..n |-> IF j = 0 THEN << >> ELSE Reached(f[j - 1], q[j])]
<1>1. f = h
  BY DEF IsResolved
<1>2. \A i \in 0..n : f[i] = h[i]
  <2> HIDE DEF h
  <2> QED BY <1>1
<1>3. 0 \in 0..n /\ \A i \in 1..n : i \in 0..n /\ i # 0
  OBVIOUS
<1>4. h[0] = << >>
  BY <1>3
<1>5. ASSUME NEW i \in 1..n PROVE h[i] = Reached(f[i - 1], q[i])
  BY <1>3
<1> HIDE DEF h
<1> QED
  BY <1>2, <1>3, <1>4, <1>5 DEF Resolves

\* There is one such function, and WithoutDots takes its last value.
LEMMA ResolvedExists ==
    ASSUME NEW q, NEW n \in Nat PROVE \E f : IsResolved(q, n, f)
<1> DEFINE T == {m \in Nat : \E f : IsResolved(q, m, f)}
<1>1. 0 \in T
  <2>1. IsResolved(q, 0, [i \in 0..0 |-> << >>])
    BY DEF IsResolved
  <2> QED
    BY <2>1
<1>2. ASSUME NEW m \in Nat, m \in T PROVE m + 1 \in T
  <2>1. PICK f : IsResolved(q, m, f)
    BY <1>2
  <2> DEFINE g == [i \in 0..(m + 1) |->
                      IF i = 0 THEN << >> ELSE Reached(f[i - 1], q[i])]
  <2>2. \A i \in 0..m : g[i] = f[i]
    <3>1. Resolves(q, m, f)
      BY <2>1, ResolvedAt
    <3> QED BY <3>1 DEF Resolves
  <2>3. \A i \in 0..(m + 1) : i # 0 => i - 1 \in 0..m
    OBVIOUS
  <2>4. \A i \in 0..(m + 1) : g[i] = IF i = 0 THEN << >> ELSE Reached(g[i - 1], q[i])
    BY <2>2, <2>3
  <2>5. IsResolved(q, m + 1, g)
    <3> HIDE DEF g
    <3> QED BY <2>4 DEF IsResolved, g
  <2> QED
    BY <2>5
<1>3. Nat \subseteq T
  <2> HIDE DEF T
  <2> QED BY <1>1, <1>2, AllNumbers
<1> QED
  BY <1>3

LEMMA ResolvedAgree ==
    ASSUME NEW q, NEW r, NEW n \in Nat, NEW m \in Nat, NEW f, NEW g,
           Resolves(q, n, f), Resolves(r, m, g),
           NEW k \in Nat, k <= n, k <= m, \A i \in 1..k : q[i] = r[i]
    PROVE  f[k] = g[k]
<1> DEFINE T == {j \in Nat : j <= k => f[j] = g[j]}
<1>1. 0 \in T
  BY DEF Resolves
<1>2. ASSUME NEW j \in Nat, j \in T PROVE j + 1 \in T
  <2> SUFFICES ASSUME j + 1 <= k PROVE f[j + 1] = g[j + 1]
    OBVIOUS
  <2>1. j + 1 \in 1..n /\ j + 1 \in 1..m /\ (j + 1) - 1 = j /\ j + 1 \in 1..k
    OBVIOUS
  <2>2. f[j] = g[j] /\ q[j + 1] = r[j + 1]
    BY <1>2
  <2>3. f[j + 1] = Reached(f[j], q[j + 1]) /\ g[j + 1] = Reached(g[j], r[j + 1])
    BY <2>1 DEF Resolves
  <2> QED
    BY <2>2, <2>3
<1>3. Nat \subseteq T
  <2> HIDE DEF T
  <2> QED BY <1>1, <1>2, AllNumbers
<1> QED
  BY <1>3

LEMMA DotsRun ==
    ASSUME NEW S, NEW q \in Seq(S)
    PROVE  \E f : Resolves(q, Len(q), f) /\ WithoutDots(q) = f[Len(q)]
<1> DEFINE reached == CHOOSE f : IsResolved(q, Len(q), f)
<1>1. IsResolved(q, Len(q), reached)
  BY ResolvedExists
<1>2. WithoutDots(q) = reached[Len(q)]
  BY DEF WithoutDots, IsResolved
<1>3. Resolves(q, Len(q), reached)
  BY <1>1, ResolvedAt
<1> QED
  BY <1>2, <1>3

LEMMA DotsNone == WithoutDots(<< >>) = << >>
<1>1. << >> \in Seq({}) /\ Len(<< >>) = 0
  OBVIOUS
<1>2. PICK f : Resolves(<< >>, 0, f) /\ WithoutDots(<< >>) = f[0]
  BY <1>1, DotsRun
<1> QED
  BY <1>2 DEF Resolves

\* One more segment.
LEMMA DotsLast ==
    ASSUME NEW S, NEW q \in Seq(S), NEW s \in S
    PROVE  WithoutDots(Append(q, s)) = Reached(WithoutDots(q), s)
<1> DEFINE r == Append(q, s)
           n == Len(q)
<1>1. r \in Seq(S) /\ Len(r) = n + 1 /\ r[n + 1] = s /\ n \in Nat
  OBVIOUS
<1>2. \A i \in 1..n : r[i] = q[i]
  OBVIOUS
<1>3. PICK f : Resolves(q, n, f) /\ WithoutDots(q) = f[n]
  BY DotsRun
<1>4. PICK g : Resolves(r, n + 1, g) /\ WithoutDots(r) = g[n + 1]
  BY <1>1, DotsRun
<1>5. g[n] = f[n]
  <2>1. n + 1 \in Nat /\ n <= n + 1 /\ n <= n
    BY <1>1
  <2> HIDE DEF r, n
  <2> QED BY <1>1, <1>2, <1>3, <1>4, <2>1, ResolvedAgree
<1>6. g[n + 1] = Reached(g[n], r[n + 1])
  <2>1. n + 1 \in 1..(n + 1) /\ (n + 1) - 1 = n /\ n + 1 \in Nat
    BY <1>1
  <2> HIDE DEF r, n
  <2> QED BY <1>4, <2>1 DEF Resolves
<1> QED
  BY <1>1, <1>3, <1>4, <1>5, <1>6

\* A path without dots is what it is; one with dots gets shorter.
LEMMA DotsResolved ==
    ASSUME NEW S, NEW q \in Seq(S)
    PROVE  /\ WithoutDots(q) \in Seq(S)
           /\ ~Dotted(q) => WithoutDots(q) = q
           /\ Dotted(q) => Len(WithoutDots(q)) < Len(q)
<1> DEFINE Good(w) == /\ WithoutDots(w) \in Seq(S)
                      /\ ~Dotted(w) => WithoutDots(w) = w
                      /\ Dotted(w) => Len(WithoutDots(w)) < Len(w)
           T == {w \in Seq(S) : Good(w)}
<1>1. << >> \in T
  <2>1. << >> \in Seq(S) /\ ~Dotted(<< >>)
    BY DEF Dotted
  <2> QED BY <2>1, DotsNone
<1>2. ASSUME NEW w \in Seq(S), NEW s \in S, w \in T PROVE Append(w, s) \in T
  <2> DEFINE r == Append(w, s)
             d == WithoutDots(w)
  <2>1. r \in Seq(S) /\ Len(r) = Len(w) + 1
    OBVIOUS
  <2> SUFFICES Good(r)
    BY <2>1
  <2>2. WithoutDots(r) = Reached(d, s)
    BY DotsLast
  <2>3. d \in Seq(S) /\ Len(d) \in Nat /\ Len(w) \in Nat /\ Len(d) <= Len(w)
    BY <1>2
  <2>4. Dotted(r) <=> Dotted(w) \/ s \in {".", ".."}
    <3>1. Pairs(r) = Pairs(w) \cup {s}
      BY PairsOfAppend
    <3>2. \A x : Dotted(x) <=> Pairs(x) \cap {".", ".."} # {}
      BY DEF Dotted, Pairs
    <3> HIDE DEF r
    <3> QED BY <3>1, <3>2
  <2>5. CASE s = "."
    <3>1. WithoutDots(r) = d
      BY <2>2, <2>5 DEF Reached
    <3> HIDE DEF r, d
    <3> QED BY <2>1, <2>3, <2>4, <2>5, <3>1
  <2>6. CASE s = ".."
    <3>1. WithoutDots(r) = IF d = << >> THEN d ELSE SubSeq(d, 1, Len(d) - 1)
      BY <2>2, <2>6 DEF Reached
    <3> HIDE DEF d
    <3>2. WithoutDots(r) \in Seq(S) /\ Len(WithoutDots(r)) <= Len(d)
      BY <2>3, <3>1
    <3> HIDE DEF r
    <3>3. Dotted(r) /\ Len(WithoutDots(r)) < Len(r)
      BY <2>1, <2>3, <2>4, <2>6, <3>2
    <3> QED BY <2>1, <3>2, <3>3
  <2>7. CASE s \notin {".", ".."}
    <3>1. WithoutDots(r) = Append(d, s)
      BY <2>2, <2>7 DEF Reached
    <3>2. WithoutDots(r) \in Seq(S) /\ Len(WithoutDots(r)) = Len(d) + 1
      BY <2>3, <3>1
    <3>3. ASSUME ~Dotted(r) PROVE WithoutDots(r) = r
      BY <1>2, <2>4, <3>1, <3>3
    <3>4. ASSUME Dotted(r) PROVE Len(WithoutDots(r)) < Len(r)
      <4>1. Len(d) < Len(w)
        BY <1>2, <2>4, <2>7, <3>4
      <4> HIDE DEF r, d
      <4> QED BY <2>1, <2>3, <3>2, <4>1
    <3> HIDE DEF r, d
    <3> QED BY <2>1, <3>2, <3>3, <3>4
  <2> QED BY <2>5, <2>6, <2>7
<1>3. Seq(S) \subseteq T
  <2> HIDE DEF T
  <2> QED BY <1>1, <1>2, AllSequences
<1> QED
  BY <1>3

-----------------------------------------------------------------------------
\* What trim_matches leaves: the whole of a path with something at both ends, and
\* never more than the path.
LEMMA MinOf ==
    ASSUME NEW T, T \subseteq Nat, T # {}
    PROVE  Min(T) \in T /\ \A m \in T : Min(T) <= m
<1>1. PICK n \in T : \A m \in T : ~(m < n)
  BY LeastNumber
<1>2. \A m \in T : n <= m
  BY <1>1
<1> QED BY <1>1, <1>2 DEF Min

LEMMA MaxOf ==
    ASSUME NEW n \in Nat, NEW T, T \subseteq 1..n, T # {}
    PROVE  Max(T) \in T /\ \A m \in T : m <= Max(T)
<1> DEFINE U == {n - m : m \in T}
<1>0. \A m \in T : n - m \in Nat
  OBVIOUS
<1>1. U \subseteq Nat /\ U # {}
  BY <1>0
<1>2. PICK u \in U : \A v \in U : ~(v < u)
  BY <1>1, LeastNumber
<1>3. PICK m \in T : u = n - m
  BY <1>2
<1>4. \A k \in T : k <= m /\ m >= k
  <2> SUFFICES ASSUME NEW k \in T PROVE k <= m /\ m >= k
    OBVIOUS
  <2>1. ~(n - k < n - m)
    BY <1>2, <1>3
  <2>2. k \in Nat /\ m \in Nat
    OBVIOUS
  <2> QED BY <2>1, <2>2
<1> QED BY <1>3, <1>4 DEF Max

\* Without its empty ends a path is no longer than it was; one without such ends stays.
LEMMA EndsTrimmed ==
    ASSUME NEW S, NEW path \in Seq(S)
    PROVE  /\ WithoutEmptyEnds(path) \in Seq(S)
           /\ Len(WithoutEmptyEnds(path)) <= Len(path)
<1> DEFINE F == Filled(path)
<1>1. CASE F = {}
  <2>1. WithoutEmptyEnds(path) = << >>
    BY <1>1 DEF WithoutEmptyEnds
  <2> QED BY <2>1
<1>2. CASE F # {}
  <2>0. DOMAIN path = 1..Len(path) /\ Len(path) \in Nat /\ 1..Len(path) \subseteq Nat
    OBVIOUS
  <2>1. F \subseteq 1..Len(path) /\ F \subseteq Nat
    BY <2>0 DEF Filled
  <2>2. Min(F) \in 1..Len(path) /\ Max(F) \in 1..Len(path)
    <3> HIDE DEF F
    <3>1. Min(F) \in F
      BY <1>2, <2>1, MinOf
    <3>2. Max(F) \in F
      BY <1>2, <2>0, <2>1, MaxOf
    <3> QED BY <2>1, <3>1, <3>2
  <2>3. WithoutEmptyEnds(path) = SubSeq(path, Min(F), Max(F))
    BY <1>2 DEF WithoutEmptyEnds
  <2> DEFINE a == Min(F)
             b == Max(F)
  <2> HIDE DEF a, b
  <2>4. a \in 1..Len(path) /\ b \in 1..Len(path)
    BY <2>2 DEF a, b
  <2>5. SubSeq(path, a, b) \in Seq(S) /\ Len(SubSeq(path, a, b)) <= Len(path)
    BY <2>4
  <2> QED BY <2>3, <2>5 DEF a, b
<1> QED BY <1>1, <1>2

LEMMA EndsFilled ==
    ASSUME NEW S, NEW path \in Seq(S), NEW n \in Nat, n = Len(path), n > 0,
           1 \in Filled(path), n \in Filled(path)
    PROVE  WithoutEmptyEnds(path) = path
<1> DEFINE F == Filled(path)
<1>a. n \in Nat
  OBVIOUS
<1>0. DOMAIN path = 1..n /\ n \in Nat /\ 1..n \subseteq Nat /\ 1 \in 1..n /\ n \in 1..n
  <2>1. DOMAIN path = 1..n
    OBVIOUS
  <2> QED BY <1>a, <2>1
<1>1. F \subseteq 1..n /\ F \subseteq Nat /\ 1 \in F /\ n \in F
  BY <1>0 DEF Filled
<1> HIDE DEF F
<1>2. Min(F) \in F /\ Min(F) <= 1
  BY <1>1, MinOf
<1>3. Max(F) \in F /\ n <= Max(F)
  BY <1>0, <1>1, MaxOf
<1>4. Min(F) = 1 /\ Max(F) = n
  <2> DEFINE a == Min(F)
             b == Max(F)
  <2>1. a \in 1..n /\ b \in 1..n /\ a <= 1 /\ n <= b
    BY <1>1, <1>2, <1>3
  <2> HIDE DEF a, b
  <2>2. a = 1 /\ b = n
    BY <1>a, <2>1
  <2> QED BY <2>2 DEF a, b
<1>5. WithoutEmptyEnds(path) = SubSeq(path, 1, n)
  BY <1>1, <1>4 DEF WithoutEmptyEnds, F
<1>6. SubSeq(path, 1, n) = path
  BY <1>a
<1> QED BY <1>5, <1>6

\* The parts of a path that leads somewhere.
HeadOf(endpoint) == IF endpoint = "callback" THEN <<"upstream">> ELSE <<"relay">>
TailOf(endpoint) == IF endpoint = "discovery" THEN DiscoveryTail ELSE << endpoint >>
MadeOf(path, strategy, key, endpoint) ==
    /\ ParsePath(path, strategy) = [key |-> key, endpoint |-> endpoint]
    /\ WithoutEmptyEnds(path) = HeadOf(endpoint) \o key \o TailOf(endpoint)

\* What leads somewhere is an endpoint's own path, which has a minimal length.
LEMMA ParsedPath ==
    ASSUME NEW S, NEW path \in Seq(S), NEW strategy,
           ParsePath(path, strategy) # NoValue
    PROVE  /\ Len(path) >= KeyLength(strategy) + 2
           /\ \E key \in Seq(S) : \E endpoint :
                /\ ParsePath(path, strategy) = [key |-> key, endpoint |-> endpoint]
                /\ WithoutEmptyEnds(path) = HeadOf(endpoint) \o key \o TailOf(endpoint)
<1> DEFINE segments == WithoutEmptyEnds(path)
           n == Len(segments)
           last1 == segments[n]
           Made(key, endpoint) ==
             /\ ParsePath(path, strategy) = [key |-> key, endpoint |-> endpoint]
             /\ WithoutEmptyEnds(path) = HeadOf(endpoint) \o key \o TailOf(endpoint)
<1>1. segments \in Seq(S) /\ n \in Nat /\ Len(path) \in Nat /\ n <= Len(path)
  BY EndsTrimmed
<1>2. KeyLength(strategy) \in Nat /\ KeyLength(strategy) >= 1
  BY DEF KeyLength
<1>3. CASE n > 1 /\ segments[1] = "upstream" /\ last1 = "callback"
  <2>1. ParsePath(path, strategy) = Route(segments, 1, "callback", strategy)
    BY <1>1, <1>3 DEF ParsePath
  <2> DEFINE key == SubSeq(segments, 2, n - 1)
  <2>2. /\ ParsePath(path, strategy) = [key |-> key, endpoint |-> "callback"]
        /\ Len(key) = KeyLength(strategy)
    BY <2>1 DEF Route
  <2> HIDE DEF segments
  <2>3. Len(key) = n - 2 /\ n >= KeyLength(strategy) + 2 /\ key \in Seq(S)
    BY <1>1, <1>2, <1>3, <2>2
  <2>4. segments = <<"upstream">> \o key \o <<"callback">>
    BY <1>1, <1>3
  <2>5. HeadOf("callback") = <<"upstream">> /\ TailOf("callback") = <<"callback">>
    BY DEF HeadOf, TailOf
  <2> HIDE DEF key, n
  <2>6. Made(key, "callback")
    BY <2>2, <2>4, <2>5 DEF segments
  <2> HIDE DEF Made
  <2>7. Len(path) >= KeyLength(strategy) + 2
    BY <1>1, <1>2, <2>3
  <2> QED BY <2>3, <2>6, <2>7 DEF Made
<1>4. CASE n > 1 /\ segments[1] = "relay" /\ EndsInDiscovery(segments)
  <2>1. ParsePath(path, strategy) = Route(segments, 2, "discovery", strategy)
    <3>1. segments[1] # "upstream" /\ segments # << >>
      BY <1>1, <1>4
    <3>2. last1 \notin RelayEndpoints
      <4>1. n > 2 /\ SubSeq(segments, n - 1, n) = DiscoveryTail
        BY <1>4 DEF EndsInDiscovery
      <4> HIDE DEF segments
      <4>2. SubSeq(segments, n - 1, n)[2] = last1
        BY <1>1, <4>1
      <4>3. last1 = "openid-configuration"
        <5>1. DiscoveryTail[2] = "openid-configuration"
          BY DEF DiscoveryTail
        <5> HIDE DEF last1, n
        <5> QED BY <4>1, <4>2, <5>1
      <4> QED BY <4>3 DEF RelayEndpoints
    <3> HIDE DEF segments
    <3> QED BY <1>1, <1>4, <3>1, <3>2 DEF ParsePath, segments
  <2> DEFINE key == SubSeq(segments, 2, n - 2)
  <2>2. /\ ParsePath(path, strategy) = [key |-> key, endpoint |-> "discovery"]
        /\ Len(key) = KeyLength(strategy)
    BY <2>1 DEF Route
  <2> HIDE DEF segments
  <2>0. n > 2 /\ SubSeq(segments, n - 1, n) = DiscoveryTail
    BY <1>4 DEF EndsInDiscovery
  <2>3. Len(key) = n - 3 /\ n >= KeyLength(strategy) + 2 /\ key \in Seq(S)
    BY <1>1, <1>2, <2>0, <2>2
  <2>4. segments = <<"relay">> \o key \o DiscoveryTail
    <3>1. SubSeq(segments, n - 1, n) = << segments[n - 1], segments[n] >>
      <4>1. n - 1 \in Nat /\ n - 1 >= 1
        BY <1>1, <2>0
      <4> DEFINE w == SubSeq(segments, n - 1, n)
      <4>2. w \in Seq(S) /\ Len(w) = 2 /\ w[1] = segments[n - 1] /\ w[2] = segments[n]
        BY <1>1, <4>1
      <4> HIDE DEF w
      <4>3. w = << w[1], w[2] >>
        BY <4>2
      <4> QED BY <4>2, <4>3 DEF w
    <3>2. segments = <<"relay">> \o key \o << segments[n - 1], segments[n] >>
      BY <1>1, <1>4, <2>0
    <3> QED BY <2>0, <3>1, <3>2
  <2>5. HeadOf("discovery") = <<"relay">> /\ TailOf("discovery") = DiscoveryTail
    BY DEF HeadOf, TailOf
  <2> HIDE DEF key, n
  <2>6. Made(key, "discovery")
    BY <2>2, <2>4, <2>5 DEF segments
  <2> HIDE DEF Made
  <2>7. Len(path) >= KeyLength(strategy) + 2
    BY <1>1, <1>2, <2>3
  <2> QED BY <2>3, <2>6, <2>7 DEF Made
<1>5. CASE /\ n > 1 /\ segments[1] = "relay" /\ ~EndsInDiscovery(segments)
           /\ last1 \in RelayEndpoints
  <2>1. ParsePath(path, strategy) = Route(segments, 1, last1, strategy)
    <3>1. segments[1] # "upstream" /\ segments # << >>
      BY <1>1, <1>5
    <3> HIDE DEF segments
    <3> QED BY <1>1, <1>5, <3>1 DEF ParsePath, segments
  <2> DEFINE key == SubSeq(segments, 2, n - 1)
  <2>2. /\ ParsePath(path, strategy) = [key |-> key, endpoint |-> last1]
        /\ Len(key) = KeyLength(strategy)
    BY <2>1 DEF Route
  <2>0. last1 \notin {"callback", "discovery"}
    BY <1>5 DEF RelayEndpoints
  <2> HIDE DEF segments
  <2>3. Len(key) = n - 2 /\ n >= KeyLength(strategy) + 2 /\ key \in Seq(S)
    BY <1>1, <1>2, <1>5, <2>2
  <2>4. segments = <<"relay">> \o key \o << last1 >>
    BY <1>1, <1>5
  <2>5. HeadOf(last1) = <<"relay">> /\ TailOf(last1) = << last1 >>
    BY <2>0 DEF HeadOf, TailOf
  <2> HIDE DEF key, last1, n
  <2>6. Made(key, last1)
    BY <2>2, <2>4, <2>5 DEF segments
  <2> HIDE DEF Made
  <2>7. Len(path) >= KeyLength(strategy) + 2
    BY <1>1, <1>2, <2>3
  <2> QED BY <2>3, <2>6, <2>7 DEF Made
<1>6. CASE /\ ~(n > 1 /\ segments[1] = "upstream" /\ last1 = "callback")
           /\ ~(n > 1 /\ segments[1] = "relay" /\ EndsInDiscovery(segments))
           /\ ~(n > 1 /\ segments[1] = "relay" /\ last1 \in RelayEndpoints)
  <2>1. n > 1 => segments # << >>
    BY <1>1
  <2>2. ParsePath(path, strategy) = NoValue
    BY <1>1, <1>6, <2>1 DEF ParsePath
  <2> QED BY <2>2
<1> QED BY <1>3, <1>4, <1>5, <1>6

\* The path of an endpoint leads to it, a shorter URL nowhere.
IsEndpoint(word, endpoint) ==
    \/ word = "upstream" /\ endpoint = "callback"
    \/ word = "relay" /\ endpoint \in RelayEndpoints

\* An endpoint's own path leads to it, below the public path too; what is too short
\* leads nowhere.
LEMMA EndpointParsed ==
    ASSUME NEW S, NEW word \in S, NEW endpoint \in S, IsEndpoint(word, endpoint),
           NEW key \in Seq(S), NEW strategy, ValidKey(key), Len(key) = KeyLength(strategy)
    PROVE  ParsePath(<<word>> \o key \o <<endpoint>>, strategy)
             = [key |-> key, endpoint |-> endpoint]
<1> DEFINE path == <<word>> \o key \o <<endpoint>>
           n == Len(key) + 2
<1>1. path \in Seq(S) /\ n = Len(path) /\ n \in Nat /\ n > 1
  OBVIOUS
<1>2. path[1] = word /\ path[n] = endpoint /\ DOMAIN path = 1..n
  OBVIOUS
<1>3. SubSeq(path, 2, n - 1) = key
  OBVIOUS
<1> HIDE DEF path, n
<1>4. 1 \in DOMAIN path /\ n \in DOMAIN path
  BY <1>1, <1>2
<1>5. word # "" /\ endpoint # ""
  BY Zenon DEF IsEndpoint, RelayEndpoints
<1>6. 1 \in Filled(path) /\ n \in Filled(path)
  BY <1>2, <1>4, <1>5, Zenon DEF Filled
<1>7. WithoutEmptyEnds(path) = path
  <2>1. n > 0
    BY <1>1
  <2> QED BY <1>1, <1>6, <2>1, EndsFilled
<1>8. Route(path, 1, endpoint, strategy) = [key |-> key, endpoint |-> endpoint]
  BY <1>1, <1>3 DEF Route
<1>9. CASE word = "upstream" /\ endpoint = "callback"
  <2>1. ParsePath(path, strategy) = Route(path, 1, "callback", strategy)
    <3>1. path # << >>
      BY <1>1
    <3> QED BY <1>1, <1>2, <1>7, <1>9, <3>1 DEF ParsePath
  <2> QED BY <1>8, <1>9, <2>1 DEF path
<1>10. CASE word = "relay" /\ endpoint \in RelayEndpoints
  <2>1. path[1] # "upstream" /\ path # << >>
    BY <1>1, <1>2, <1>10
  <2>2. ~EndsInDiscovery(path)
    <3> SUFFICES ASSUME EndsInDiscovery(path) PROVE FALSE
      OBVIOUS
    <3>1. n > 2 /\ SubSeq(path, n - 1, n) = DiscoveryTail
      BY <1>1 DEF EndsInDiscovery
    <3>2. SubSeq(path, n - 1, n)[2] = endpoint
      BY <1>1, <1>2, <3>1
    <3>3. DiscoveryTail[2] = "openid-configuration"
      BY DEF DiscoveryTail
    <3>4. endpoint = "openid-configuration"
      BY <3>1, <3>2, <3>3
    <3> QED BY <1>10, <3>4 DEF RelayEndpoints
  <2>3. ParsePath(path, strategy) = Route(path, 1, endpoint, strategy)
    BY <1>1, <1>2, <1>7, <1>10, <2>1, <2>2 DEF ParsePath
  <2> QED BY <1>8, <2>3 DEF path
<1> QED BY <1>9, <1>10 DEF IsEndpoint

LEMMA EndpointDispatched ==
    ASSUME NEW S, NEW word \in S, NEW endpoint \in S, IsEndpoint(word, endpoint),
           NEW public \in Seq(S), NEW key \in Seq(S), NEW strategy, ValidKey(key),
           Len(key) = KeyLength(strategy)
    PROVE  Dispatched(public, public \o <<word>> \o key \o <<endpoint>>, strategy)
             = [key |-> key, endpoint |-> endpoint]
<1> DEFINE path == <<word>> \o key \o <<endpoint>>
           url == public \o path
<1>1. path \in Seq(S) /\ url \in Seq(S) /\ url = public \o <<word>> \o key \o <<endpoint>>
  OBVIOUS
<1>2. ParsePath(path, strategy) = [key |-> key, endpoint |-> endpoint]
  BY EndpointParsed
<1> HIDE DEF path
<1>3. /\ Len(public) <= Len(url) /\ SubSeq(url, 1, Len(public)) = public
      /\ SubSeq(url, Len(public) + 1, Len(url)) = path
  BY <1>1
<1> HIDE DEF url
<1>4. Dispatched(public, url, strategy) = ParsePath(path, strategy)
  BY <1>3 DEF Dispatched
<1> QED BY <1>1, <1>2, <1>4

LEMMA ShortDispatched ==
    ASSUME NEW S, NEW public \in Seq(S), NEW url \in Seq(S), NEW strategy,
           Len(url) < Len(public) + KeyLength(strategy) + 2
    PROVE  Dispatched(public, url, strategy) = NoValue
<1> SUFFICES ASSUME Dispatched(public, url, strategy) # NoValue PROVE FALSE
  OBVIOUS
<1> DEFINE path == SubSeq(url, Len(public) + 1, Len(url))
<1>1. ParsePath(path, strategy) # NoValue /\ Len(public) <= Len(url)
  BY DEF Dispatched
<1>2. path \in Seq(S) /\ Len(path) = Len(url) - Len(public)
  BY <1>1
<1>3. KeyLength(strategy) \in Nat
  BY DEF KeyLength
<1> HIDE DEF path
<1>4. Len(path) >= KeyLength(strategy) + 2
  BY <1>1, <1>2, ParsedPath
<1> QED BY <1>2, <1>3, <1>4

\* The relays' own paths and keys.
LEMMA DotsOf ==
    ASSUME NEW q PROVE Dotted(q) <=> Pairs(q) \cap {".", ".."} # {}
BY DEF Dotted, Pairs

LEMMA PathOf ==
    ASSUME NEW S, NEW p \in Seq(S), NEW k \in Seq(S), NEW w \in S
    PROVE  /\ p \o <<w>> \o k \in Seq(S)
           /\ Len(p \o <<w>> \o k) = Len(p) + Len(k) + 1
           /\ Pairs(p \o <<w>> \o k) = Pairs(p) \cup {w} \cup Pairs(k)
<1>1. p \o <<w>> = Append(p, w) /\ Append(p, w) \in Seq(S)
  OBVIOUS
<1>2. Pairs(Append(p, w)) = Pairs(p) \cup {w}
  BY PairsOfAppend
<1> DEFINE u == Append(p, w)
<1>3. u \in Seq(S) /\ Len(u) = Len(p) + 1
  BY <1>1
<1> HIDE DEF u
<1>4. Pairs(u \o k) = Pairs(u) \cup Pairs(k)
  BY <1>3, PairsOfConcat
<1>5. u \o k \in Seq(S) /\ Len(u \o k) = Len(p) + Len(k) + 1
  BY <1>3
<1> QED BY <1>1, <1>2, <1>4, <1>5 DEF u

\* A key of a relay and its public path, over the same segments as two more.
PathsOver(S, r, key, word, endpoint) ==
    /\ r.public \in Seq(S) /\ key \in Seq(S) /\ word \in S /\ endpoint \in S
    /\ ValidKey(key) /\ Len(key) = KeyLength(r.strategy)
    /\ Dotted(r.public \o <<word>> \o key) <=> Dotted(key)

LEMMA RelayPaths ==
    ASSUME NEW r \in Relays, NEW key, key \in {r.key, r.upstream}, NEW word, NEW endpoint,
           word \notin {".", ".."}
    PROVE  \E S : PathsOver(S, r, key, word, endpoint)
<1> DEFINE public == r.public
           S == Pairs(public) \cup Pairs(key) \cup {word, endpoint}
<1>1. /\ IsSequence(public) /\ ~Dotted(public)
      /\ IsSequence(key) /\ ValidKey(key) /\ Len(key) = KeyLength(r.strategy)
  BY ParametersAssumption
<1> HIDE DEF public
<1>2. public \in Seq(Pairs(public)) /\ key \in Seq(Pairs(key))
  BY <1>1 DEF IsSequence, Pairs
<1>3. public \in Seq(S) /\ key \in Seq(S) /\ word \in S /\ endpoint \in S
  <2>1. Pairs(public) \subseteq S /\ Pairs(key) \subseteq S
    OBVIOUS
  <2>2. word \in S /\ endpoint \in S
    OBVIOUS
  <2> HIDE DEF S
  <2> QED BY <1>2, <2>1, <2>2
<1> HIDE DEF S
<1>4. Pairs(public \o <<word>> \o key) = Pairs(public) \cup {word} \cup Pairs(key)
  <2>1. word \in S
    BY <1>3
  <2> QED BY <1>3, <2>1, PathOf
<1>5. Dotted(public \o <<word>> \o key) <=> Dotted(key)
  BY <1>1, <1>4, DotsOf
<1>6. PathsOver(S, r, key, word, endpoint)
  BY <1>1, <1>3, <1>5 DEF PathsOver, public
<1> QED BY <1>6

\* The callback that upstreams are given.
LEMMA CallbackLeads ==
    ASSUME NEW r \in Relays
    PROVE  Dispatched(r.public, CallbackUrl(r.public, r.upstream), r.strategy) \in
             {[key |-> r.upstream, endpoint |-> "callback"]}
               \cup (IF Dotted(r.upstream) THEN {NoValue} ELSE {})
<1> DEFINE public == r.public
           key == r.upstream
<1>0. PICK S : PathsOver(S, r, key, "upstream", "callback")
  <2>1. "upstream" \notin {".", ".."} /\ key \in {r.key, r.upstream}
    OBVIOUS
  <2> HIDE DEF key
  <2> QED BY <2>1, RelayPaths
<1>1. /\ public \in Seq(S) /\ key \in Seq(S) /\ "upstream" \in S /\ "callback" \in S
      /\ ValidKey(key) /\ Len(key) = KeyLength(r.strategy)
      /\ Dotted(public \o <<"upstream">> \o key) <=> Dotted(key)
  BY <1>0 DEF PathsOver
<1> HIDE DEF public, key
<1> DEFINE base == public \o <<"upstream">> \o key
           path == Append(base, "callback")
           url == CallbackUrl(public, key)
<1>2. /\ base \in Seq(S) /\ path \in Seq(S) /\ path = base \o <<"callback">>
      /\ Len(path) = Len(public) + Len(key) + 2
  <2>1. base \in Seq(S) /\ Len(base) = Len(public) + Len(key) + 1
    BY <1>1, PathOf
  <2> HIDE DEF base
  <2>2. /\ Append(base, "callback") \in Seq(S)
        /\ Append(base, "callback") = base \o <<"callback">>
        /\ Len(Append(base, "callback")) = Len(base) + 1
    BY <1>1, <2>1
  <2>3. Len(public) \in Nat /\ Len(key) \in Nat
    BY <1>1
  <2> QED BY <2>1, <2>2, <2>3
<1>3. url = WithoutDots(path)
  BY <1>2 DEF CallbackUrl
<1>4. Dotted(path) <=> Dotted(key)
  <2>1. Pairs(path) = Pairs(base) \cup {"callback"}
    BY <1>2, PairsOfAppend
  <2> QED BY <1>1, <2>1, DotsOf
<1>5. CASE ~Dotted(key)
  <2>1. url = path
    BY <1>2, <1>3, <1>4, <1>5, DotsResolved
  <2>2. IsEndpoint("upstream", "callback")
    BY DEF IsEndpoint
  <2>3. Dispatched(public, base \o <<"callback">>, r.strategy)
          = [key |-> key, endpoint |-> "callback"]
    BY <1>1, <2>2, EndpointDispatched
  <2> QED BY <1>2, <2>1, <2>3 DEF public, key
<1>6. CASE Dotted(key)
  <2>1. url \in Seq(S) /\ Len(url) < Len(path)
    BY <1>2, <1>3, <1>4, <1>6, DotsResolved
  <2>2. Dispatched(public, url, r.strategy) = NoValue
    <3>1. Len(url) < Len(public) + KeyLength(r.strategy) + 2
      BY <1>1, <1>2, <2>1
    <3> HIDE DEF url
    <3> QED BY <1>1, <2>1, <3>1, ShortDispatched
  <2> QED BY <1>6, <2>2 DEF public, key
<1> QED BY <1>5, <1>6

\* The endpoints that applications are given.
LEMMA EndpointLeads ==
    ASSUME NEW r \in Relays, NEW endpoint \in RelayEndpoints
    PROVE  Dispatched(r.public, RelayUrl(r.public, r.key, endpoint), r.strategy) \in
             {[key |-> r.key, endpoint |-> endpoint]}
               \cup (IF Dotted(r.key) THEN {NoValue} ELSE {})
<1> DEFINE public == r.public
           key == r.key
<1>0. PICK S : PathsOver(S, r, key, "relay", endpoint)
  <2>1. "relay" \notin {".", ".."} /\ key \in {r.key, r.upstream}
    OBVIOUS
  <2> HIDE DEF key
  <2> QED BY <2>1, RelayPaths
<1>1. /\ public \in Seq(S) /\ key \in Seq(S) /\ "relay" \in S /\ endpoint \in S
      /\ ValidKey(key) /\ Len(key) = KeyLength(r.strategy)
      /\ Dotted(public \o <<"relay">> \o key) <=> Dotted(key)
  BY <1>0 DEF PathsOver
<1> HIDE DEF public, key
<1> DEFINE base == public \o <<"relay">> \o key
           url == RelayUrl(public, key, endpoint)
<1>2. /\ base \in Seq(S) /\ Append(base, endpoint) = base \o <<endpoint>>
      /\ Len(base) = Len(public) + Len(key) + 1
  <2>1. base \in Seq(S) /\ Len(base) = Len(public) + Len(key) + 1
    BY <1>1, PathOf
  <2> HIDE DEF base
  <2>2. Append(base, endpoint) = base \o <<endpoint>>
    BY <1>1, <2>1
  <2> QED BY <2>1, <2>2
<1>3. url = Append(WithoutDots(base), endpoint)
  BY DEF RelayUrl
<1>4. WithoutDots(base) \in Seq(S)
  BY <1>2, DotsResolved
<1>5. CASE ~Dotted(key)
  <2>1. url = base \o <<endpoint>>
    BY <1>1, <1>2, <1>3, <1>5, DotsResolved
  <2>2. IsEndpoint("relay", endpoint)
    BY DEF IsEndpoint
  <2>3. Dispatched(public, base \o <<endpoint>>, r.strategy)
          = [key |-> key, endpoint |-> endpoint]
    BY <1>1, <2>2, EndpointDispatched
  <2> QED BY <2>1, <2>3 DEF public, key
<1>6. CASE Dotted(key)
  <2>1. Len(WithoutDots(base)) < Len(base)
    BY <1>1, <1>2, <1>6, DotsResolved
  <2>2. url \in Seq(S) /\ Len(url) = Len(WithoutDots(base)) + 1
    BY <1>1, <1>3, <1>4
  <2>3. Dispatched(public, url, r.strategy) = NoValue
    <3>1. Len(url) < Len(public) + KeyLength(r.strategy) + 2
      <4> HIDE DEF base, url
      <4>1. Len(WithoutDots(base)) \in Nat /\ Len(public) \in Nat /\ Len(key) \in Nat
        BY <1>1, <1>4
      <4> QED BY <1>1, <1>2, <2>1, <2>2, <4>1
    <3> HIDE DEF url
    <3> QED BY <1>1, <2>2, <3>1, ShortDispatched
  <2> QED BY <1>6, <2>3 DEF public, key
<1> QED BY <1>5, <1>6

-----------------------------------------------------------------------------
\* What a flow keeps of a query.
FlowOf(q) ==
    [uri |-> Value(q, "redirect_uri"), appState |-> Value(q, "state"),
     challenge |-> Value(q, "code_challenge"), nonce |-> Value(q, "nonce")]

\* What went out is what the handler makes of what came in, which it accepted; and
\* a flow is that of a query that authorize accepted.
Answered ==
    /\ flow # None => \E q \in Queries : AuthorizeAccepts(relay, q) /\ flow = FlowOf(q)
    /\ Sent("authorize") =>
         /\ last.in \in Queries /\ AuthorizeAccepts(relay, last.in)
         /\ last.out = AuthorizationRequest(relay, last.in)
         /\ flow = FlowOf(last.in)
    /\ Sent("callback") =>
         /\ \E answer \in Answers : last.in = << <<"state", SealedState>> >> \o answer
         /\ CallbackParses(last.in)
         /\ flow # None
         /\ last.out = ApplicationResult(flow, last.in)
    /\ Sent("refresh") =>
         /\ last.in \in Forms /\ RefreshAccepts(relay, last.in)
         /\ last.out = RefreshForm(last.in)
    /\ Sent("discovery") =>
         \E doc \in (Documents \cup {<< >>}) \ {NoDocument} :
             last.out = RelayMetadata(relay.public, relay.key, relay.configured,
                                      relay.issuer, doc)

\* What the URI of the answer had before is a list of parameters too.
OwnQuery == IsSequence(last.own)

IInv ==
    /\ relay \in Relays
    /\ last.at \in {"start", "authorize", "callback", "refresh", "discovery"}
    /\ Answered
    /\ OwnQuery

LEMMA EmptyQuery == IsSequence(<< >>)
BY DEF IsSequence

LEMMA Initially == Init => IInv
BY EmptyQuery DEF Init, IInv, Answered, Sent, OwnQuery

LEMMA Inductive == IInv /\ [Next]_vars => IInv'
<1> SUFFICES ASSUME IInv, [Next]_vars PROVE IInv'
  OBVIOUS
<1>1. ASSUME NEW q \in Queries, Authorize(q) PROVE IInv'
  <2> DEFINE out == AuthorizationRequest(relay, q)
             own == relay.endpointQuery
  <2>1. /\ last' = [at |-> "authorize", in |-> q, own |-> own, out |-> out]
        /\ flow' = FlowOf(q) /\ UNCHANGED relay /\ AuthorizeAccepts(relay, q)
    BY <1>1 DEF Authorize, HandleAt, FlowOf
  <2>2. relay \in Relays /\ IsSequence(own)
    BY ParametersAssumption DEF IInv
  <2> HIDE DEF own
  <2>3. out = AuthorizationRequest(relay, q)
    OBVIOUS
  <2> HIDE DEF out
  <2> QED BY <2>1, <2>2, <2>3 DEF IInv, Answered, Sent, OwnQuery
<1>2. ASSUME NEW q \in Forms, Refresh(q) PROVE IInv'
  BY <1>2, EmptyQuery DEF IInv, Answered, Sent, Refresh, Handle, HandleAt, OwnQuery
<1>3. ASSUME NEW document \in Documents, Discover(document) PROVE IInv'
  <2> DEFINE doc == IF NeedsDiscovery(relay.configured) THEN document ELSE << >>
             out == IF EndpointsKnown(relay.configured, doc) /\ doc # NoDocument
                    THEN RelayMetadata(relay.public, relay.key, relay.configured,
                                       relay.issuer, doc)
                    ELSE Refusal
  <2>1. doc \in Documents \cup {<< >>}
    OBVIOUS
  <2>2. /\ last' = [at |-> "discovery", in |-> doc, own |-> << >>, out |-> out]
        /\ UNCHANGED <<relay, flow>>
    BY <1>3 DEF Discover, Handle, HandleAt
  <2>3. out # Refusal =>
          /\ doc # NoDocument
          /\ out = RelayMetadata(relay.public, relay.key, relay.configured,
                                 relay.issuer, doc)
    OBVIOUS
  <2> HIDE DEF doc, out
  <2> QED BY <2>1, <2>2, <2>3, EmptyQuery DEF IInv, Answered, Sent, OwnQuery
<1>4. ASSUME NEW endpoint, NEW q, endpoint \in {"authorize", "refresh"}, Refuse(endpoint, q)
      PROVE  IInv'
  BY <1>4, EmptyQuery DEF IInv, Answered, Sent, Refuse, Handle, HandleAt, OwnQuery
<1>5. ASSUME flow # None, NEW answer \in Answers, Return(answer) PROVE IInv'
  <2> DEFINE q == << <<"state", SealedState>> >> \o answer
  <2>1. /\ last' = [at |-> "callback", in |-> q, own |-> QueryOf[flow.uri],
                    out |-> ApplicationResult(flow, q)]
        /\ CallbackParses(q) /\ UNCHANGED <<relay, flow>>
    BY <1>5 DEF Return, HandleAt
  <2>2. \E a \in Answers : q = << <<"state", SealedState>> >> \o a
    OBVIOUS
  <2>3. IsSequence(QueryOf[flow.uri])
    <3>1. PICK p \in Queries : AuthorizeAccepts(relay, p) /\ flow = FlowOf(p)
      BY <1>5 DEF IInv, Answered
    <3>2. flow.uri \in relay.redirects
      BY <3>1 DEF AuthorizeAccepts, FlowOf
    <3> QED BY <3>2, ParametersAssumption DEF IInv
  <2> HIDE DEF q
  <2> QED BY <1>5, <2>1, <2>2, <2>3 DEF IInv, Answered, Sent, OwnQuery
<1>6. CASE UNCHANGED vars
  BY <1>6 DEF IInv, Answered, Sent, OwnQuery, vars
<1> QED BY <1>1, <1>2, <1>3, <1>4, <1>5, <1>6 DEF Next

-----------------------------------------------------------------------------
\* Messages made of parts.
\* No name that matters is in both.
Apart(a, b, names) ==
    \A p \in Pairs(a), s \in Pairs(b) : p[1] = s[1] => p[1] \notin names

LEMMA TwoPartsOnce ==
    ASSUME NEW A, NEW B, NEW a \in Seq(A), NEW b \in Seq(B), NEW names,
           NoneTwice(a, names), NoneTwice(b, names), Apart(a, b, names)
    PROVE  NoneTwice(a \o b, names)
<1> DEFINE S == A \cup B
<1>1. A \subseteq S /\ B \subseteq S
  OBVIOUS
<1> HIDE DEF S
<1>2. a \in Seq(S) /\ b \in Seq(S)
  BY <1>1
<1> QED BY <1>2, NoneTwiceConcat DEF Apart

LEMMA ThreePartsPairs ==
    ASSUME NEW A, NEW B, NEW C, NEW a \in Seq(A), NEW b \in Seq(B), NEW c \in Seq(C)
    PROVE  Pairs(a \o b \o c) = Pairs(a) \cup Pairs(b) \cup Pairs(c)
<1> DEFINE d == a \o b
           S == A \cup B \cup C
<1>1. A \subseteq S /\ B \subseteq S /\ C \subseteq S
  OBVIOUS
<1> HIDE DEF S
<1>2. a \in Seq(S) /\ b \in Seq(S) /\ c \in Seq(S)
  BY <1>1
<1>3. d \in Seq(S)
  BY <1>2
<1>4. Pairs(d) = Pairs(a) \cup Pairs(b)
  BY <1>2, PairsOfConcat
<1> HIDE DEF d
<1>5. Pairs(d \o c) = Pairs(d) \cup Pairs(c)
  BY <1>2, <1>3, PairsOfConcat
<1> QED BY <1>4, <1>5 DEF d

PartByPart(a, b, c) ==
    \A names : Without(a \o b \o c, names)
                 = Without(a, names) \o Without(b, names) \o Without(c, names)

LEMMA ThreePartsWithout ==
    ASSUME NEW A, NEW B, NEW C, NEW a \in Seq(A), NEW b \in Seq(B), NEW c \in Seq(C)
    PROVE  PartByPart(a, b, c)
<1> SUFFICES ASSUME NEW names
             PROVE  Without(a \o b \o c, names)
                      = Without(a, names) \o Without(b, names) \o Without(c, names)
  BY DEF PartByPart
<1> DEFINE d == a \o b
           S == A \cup B \cup C
<1>1. A \subseteq S /\ B \subseteq S /\ C \subseteq S
  OBVIOUS
<1> HIDE DEF S
<1>2. a \in Seq(S) /\ b \in Seq(S) /\ c \in Seq(S)
  BY <1>1
<1>3. d \in Seq(S)
  BY <1>2
<1>4. Without(d, names) = Without(a, names) \o Without(b, names)
  BY <1>2, WithoutConcat
<1> HIDE DEF d
<1>5. Without(d \o c, names) = Without(d, names) \o Without(c, names)
  BY <1>2, <1>3, WithoutConcat
<1> QED BY <1>4, <1>5 DEF d

LEMMA ThreePartsList ==
    ASSUME NEW A, NEW B, NEW C, NEW a \in Seq(A), NEW b \in Seq(B), NEW c \in Seq(C)
    PROVE  IsSequence(a \o b \o c)
<1> DEFINE S == A \cup B \cup C
           d == a \o b \o c
<1>1. A \subseteq S /\ B \subseteq S /\ C \subseteq S
  OBVIOUS
<1> HIDE DEF S
<1>2. a \in Seq(S) /\ b \in Seq(S) /\ c \in Seq(S)
  BY <1>1
<1>3. d \in Seq(S)
  BY <1>2
<1> HIDE DEF d
<1>4. d \in Seq({d[i] : i \in DOMAIN d})
  BY <1>3
<1>5. IsSequence(d)
  BY <1>4 DEF IsSequence
<1> QED BY <1>5 DEF d

\* What comes after the query a URI has of its own.
LEMMA AppendedOnce ==
    ASSUME NEW own, NEW out, IsSequence(own), IsSequence(out), NEW names,
           NoneTwice(out, names)
    PROVE  NoneTwice(own \o out, names \ NamesIn(own))
<1> DEFINE others == names \ NamesIn(own)
<1>1. own \in Seq(Pairs(own)) /\ out \in Seq(Pairs(out))
  BY DEF IsSequence, Pairs
<1>2. \A p \in Pairs(own) : p[1] \notin others
  BY DEF Pairs, NamesIn
<1>3. NoneTwice(own, others)
  BY DEF NoneTwice, NamesIn
<1>4. NoneTwice(out, others)
  BY DEF NoneTwice
<1> HIDE DEF others
<1>5. Apart(own, out, others)
  BY <1>2 DEF Apart
<1>6. NoneTwice(own \o out, others)
  BY <1>1, <1>3, <1>4, <1>5, TwoPartsOnce
<1> QED BY <1>6 DEF others

LEMMA AppendedWithout ==
    ASSUME NEW own, NEW out, IsSequence(own), IsSequence(out), NEW names
    PROVE  Without(own \o out, names) = Without(own, names) \o Without(out, names)
<1> DEFINE S == Pairs(own) \cup Pairs(out)
<1>1. own \in Seq(Pairs(own)) /\ out \in Seq(Pairs(out))
  BY DEF IsSequence, Pairs
<1>2. Pairs(own) \subseteq S /\ Pairs(out) \subseteq S
  OBVIOUS
<1> HIDE DEF S
<1>3. own \in Seq(S) /\ out \in Seq(S)
  BY <1>1, <1>2
<1> QED BY <1>3, WithoutConcat

LEMMA ConcatPair ==
    ASSUME NEW S, NEW r \in Seq(S), NEW a, NEW b
    PROVE  r \o <<a, b>> = r \o <<a>> \o <<b>>
<1> DEFINE T == S \cup {a, b}
<1>1. S \subseteq T /\ a \in T /\ b \in T
  OBVIOUS
<1> HIDE DEF T
<1>2. r \in Seq(T) /\ <<a>> \in Seq(T) /\ <<b>> \in Seq(T)
  BY <1>1
<1>3. <<a, b>> = Append(<<a>>, b)
  OBVIOUS
<1>4. r \o Append(<<a>>, b) = Append(r \o <<a>>, b)
  BY <1>1, <1>2, AppendToConcat
<1>5. r \o <<a>> \in Seq(T)
  BY <1>2
<1> DEFINE u == r \o <<a>>
<1>6. Append(u, b) = u \o <<b>>
  <2>1. u \in Seq(T)
    BY <1>5
  <2> HIDE DEF u
  <2> QED BY <1>1, <2>1
<1> QED BY <1>3, <1>4, <1>6

LEMMA TwoPartsPairs ==
    ASSUME NEW A, NEW B, NEW a \in Seq(A), NEW b \in Seq(B)
    PROVE  Pairs(a \o b) = Pairs(a) \cup Pairs(b)
<1> DEFINE S == A \cup B
<1>1. A \subseteq S /\ B \subseteq S
  OBVIOUS
<1> HIDE DEF S
<1>2. a \in Seq(S) /\ b \in Seq(S)
  BY <1>1
<1> QED BY <1>2, PairsOfConcat

LEMMA ThreePartsOnce ==
    ASSUME NEW A, NEW B, NEW C, NEW a \in Seq(A), NEW b \in Seq(B), NEW c \in Seq(C), NEW names,
           NoneTwice(a, names), NoneTwice(b, names), NoneTwice(c, names),
           Apart(a, b, names), Apart(a, c, names), Apart(b, c, names)
    PROVE  NoneTwice(a \o b \o c, names)
<1> DEFINE d == a \o b
           S == A \cup B
<1>1. d \in Seq(S)
  <2>1. A \subseteq S /\ B \subseteq S
    OBVIOUS
  <2> HIDE DEF S
  <2>2. a \in Seq(S) /\ b \in Seq(S)
    BY <2>1
  <2> QED BY <2>2
<1>2. Pairs(d) = Pairs(a) \cup Pairs(b)
  BY TwoPartsPairs
<1>3. NoneTwice(d, names)
  BY TwoPartsOnce
<1> HIDE DEF d, S
<1>4. Apart(d, c, names)
  BY <1>2 DEF Apart
<1>5. NoneTwice(d \o c, names)
  BY <1>1, <1>3, <1>4, TwoPartsOnce
<1> QED BY <1>5 DEF d

LEMMA OnePair ==
    ASSUME NEW p, NEW names
    PROVE  << p >> \in Seq({p}) /\ Pairs(<< p >>) = {p} /\ NoneTwice(<< p >>, names)
BY DEF Pairs, NoneTwice

LEMMA NoPairs ==
    ASSUME NEW names
    PROVE  << >> \in Seq({}) /\ Pairs(<< >>) = {} /\ NoneTwice(<< >>, names)
BY DEF Pairs, NoneTwice

LEMMA OptionalPair ==
    ASSUME NEW name, NEW value, NEW names
    PROVE  /\ Optional(name, value) \in Seq({<<name, value>>})
           /\ Pairs(Optional(name, value)) = IF value = None THEN {} ELSE {<<name, value>>}
           /\ NoneTwice(Optional(name, value), names)
<1>1. CASE value = None
  <2>1. Optional(name, value) = << >>
    BY <1>1 DEF Optional
  <2> QED BY <1>1, <2>1, NoPairs
<1>2. CASE value # None
  <2>1. Optional(name, value) = << <<name, value>> >>
    BY <1>2 DEF Optional
  <2> QED BY <1>2, <2>1, OnePair
<1> QED BY <1>1, <1>2

\* What came in.
LEMMA Received ==
    ASSUME NEW q \in Queries \cup Answers \cup Forms
    PROVE  q \in Seq(Pairs(q)) /\ \A p \in Pairs(q) : p[2] # None
BY ValuesAssumption DEF IsSequence, Pairs

LEMMA ReceivedValue ==
    ASSUME NEW q \in Queries \cup Answers \cup Forms, NEW name
    PROVE  Given(q, name) <=> Value(q, name) # None
<1>1. Given(q, name) => Value(q, name) # None
  BY Received, GivenPair
<1>2. ~Given(q, name) => Value(q, name) = None
  BY GivenPair
<1> QED BY <1>1, <1>2

\* What goes out: to the upstream, ...
OwnParameters(r) ==
    << <<"response_type", "code">>, <<"client_id", Upstream.id>>,
       <<"redirect_uri", CallbackUrl(r.public, r.upstream)>>, <<"state", SealedState>>,
       <<"code_challenge", OwnChallenge>>, <<"code_challenge_method", "S256">> >>

LEMMA OwnPairs ==
    ASSUME NEW r, NEW names
    PROVE  /\ OwnParameters(r) \in Seq(Pairs(OwnParameters(r)))
           /\ Pairs(OwnParameters(r)) =
                {<<"response_type", "code">>, <<"client_id", Upstream.id>>,
                 <<"redirect_uri", CallbackUrl(r.public, r.upstream)>>, <<"state", SealedState>>,
                 <<"code_challenge", OwnChallenge>>, <<"code_challenge_method", "S256">>}
           /\ NoneTwice(OwnParameters(r), names)
<1> DEFINE url == CallbackUrl(r.public, r.upstream)
           id == Upstream.id
           own == << <<"response_type", "code">>, <<"client_id", id>>, <<"redirect_uri", url>>,
                     <<"state", SealedState>>, <<"code_challenge", OwnChallenge>>,
                     <<"code_challenge_method", "S256">> >>
<1> HIDE DEF url, id
<1>1. DOMAIN own = 1..6 /\ 1..6 = {1, 2, 3, 4, 5, 6}
  OBVIOUS
<1>2. /\ own[1] = <<"response_type", "code">> /\ own[2] = <<"client_id", id>>
      /\ own[3] = <<"redirect_uri", url>> /\ own[4] = <<"state", SealedState>>
      /\ own[5] = <<"code_challenge", OwnChallenge>>
      /\ own[6] = <<"code_challenge_method", "S256">>
  OBVIOUS
<1>3. OwnParameters(r) = own
  BY DEF OwnParameters, url, id
<1>4. own \in Seq({own[i] : i \in DOMAIN own})
  OBVIOUS
<1> HIDE DEF own
<1>5. Pairs(own) = {own[1], own[2], own[3], own[4], own[5], own[6]}
  BY <1>1 DEF Pairs
<1>6. NoneTwice(own, names)
  BY <1>1, <1>2 DEF NoneTwice
<1>7. own \in Seq(Pairs(own))
  BY <1>4 DEF Pairs
<1> QED BY <1>2, <1>3, <1>5, <1>6, <1>7 DEF url, id

Taken == {"redirect_uri", "state", "client_id", "response_type", "code_challenge",
          "code_challenge_method", "scope"}

\* None of these is forwarded.
LEMMA OwnTaken ==
    ASSUME NEW r PROVE \A p \in Pairs(OwnParameters(r)) : p[1] \in Taken \ {"scope"}
<1>1. Pairs(OwnParameters(r)) =
        {<<"response_type", "code">>, <<"client_id", Upstream.id>>,
         <<"redirect_uri", CallbackUrl(r.public, r.upstream)>>, <<"state", SealedState>>,
         <<"code_challenge", OwnChallenge>>, <<"code_challenge_method", "S256">>}
  BY OwnPairs
<1> SUFFICES ASSUME NEW p \in Pairs(OwnParameters(r)) PROVE p[1] \in Taken \ {"scope"}
  OBVIOUS
<1>2. p[1] \in {"response_type", "client_id", "redirect_uri", "state", "code_challenge",
                "code_challenge_method"}
  BY <1>1
<1> QED BY <1>2 DEF Taken

Passing(endpoint) == Singletons(endpoint) \ {"nonce", "prompt"}

LEMMA Requested ==
    ASSUME NEW r, NEW q \in Queries
    PROVE  LET scope == EffectiveScope(r, q)
               out == AuthorizationRequest(r, q)
           IN  /\ Pairs(out) = Pairs(OwnParameters(r))
                               \cup (IF scope = None THEN {} ELSE {<<"scope", scope>>})
                               \cup {p \in Pairs(q) : p[1] \notin Taken}
               /\ Without(out, Passing("authorize")) = Without(q, Passing("authorize"))
               /\ NoneTwice(q, AuthorizeSingletons) => NoneTwice(out, Singletons("authorize"))
               /\ IsSequence(out)
<1> DEFINE scope == EffectiveScope(r, q)
           own == OwnParameters(r)
           asked == Optional("scope", scope)
           rest == ForwardedToUpstream(q)
           X == Passing("authorize")
           N == Singletons("authorize")
<1>1. AuthorizationRequest(r, q) = own \o asked \o rest
  BY DEF AuthorizationRequest, OwnParameters
<1>2. q \in Seq(Pairs(q))
  BY Received
<1>3. rest = Without(q, Taken)
  BY DEF ForwardedToUpstream, Taken
<1>4. rest \in Seq(Pairs(q)) /\ Pairs(rest) = {p \in Pairs(q) : p[1] \notin Taken}
  BY <1>2, <1>3, WithoutSeq, PairsOfWithout
<1>5. asked \in Seq({<<"scope", scope>>})
      /\ Pairs(asked) = IF scope = None THEN {} ELSE {<<"scope", scope>>}
  BY OptionalPair
<1>6. own \in Seq(Pairs(own))
  BY OwnPairs
<1>7. /\ \A p \in Pairs(own) : p[1] \in Taken \ {"scope"}
      /\ \A p \in Pairs(asked) : p[1] = "scope"
      /\ \A p \in Pairs(rest) : p[1] \notin Taken
  <2>1. \A p \in Pairs(own) : p[1] \in Taken \ {"scope"}
    BY OwnTaken
  <2> QED BY <1>4, <1>5, <2>1
<1>8. "scope" \in Taken /\ Taken \subseteq X
  BY DEF Taken, Passing, Singletons
<1>9. Pairs(own \o asked \o rest) = Pairs(own) \cup Pairs(asked) \cup Pairs(rest)
  <2> HIDE DEF own, asked, rest
  <2> QED BY <1>4, <1>5, <1>6, ThreePartsPairs
<1>10. Without(own \o asked \o rest, X) = Without(q, X)
  <2>1. Without(own, X) = << >> /\ Without(asked, X) = << >>
    <3> HIDE DEF own, asked, X
    <3> QED BY <1>5, <1>6, <1>7, <1>8, WithoutAll
  <2>2. Without(rest, X) = Without(q, X)
    <3> HIDE DEF X, rest
    <3> QED BY <1>2, <1>3, <1>8, WithoutTwice
  <2>3. Without(q, X) \in Seq(Pairs(q))
    BY <1>2, WithoutSeq
  <2> HIDE DEF own, asked, rest, X
  <2>4. Without(own \o asked \o rest, X) = Without(own, X) \o Without(asked, X) \o Without(rest, X)
    <3>0. own \in Seq(Pairs(own)) /\ asked \in Seq({<<"scope", scope>>}) /\ rest \in Seq(Pairs(q))
      BY <1>4, <1>5, <1>6
    <3>1. PartByPart(own, asked, rest)
      BY <3>0, ThreePartsWithout
    <3> QED BY <3>1 DEF PartByPart
  <2> QED BY <2>1, <2>2, <2>3, <2>4
<1>11. ASSUME NoneTwice(q, AuthorizeSingletons) PROVE NoneTwice(own \o asked \o rest, N)
  <2>1. NoneTwice(own, N) /\ NoneTwice(asked, N)
    BY OwnPairs, OptionalPair
  <2>2. NoneTwice(q, N)
    <3>1. N \subseteq AuthorizeSingletons
      BY DEF Singletons, AuthorizeSingletons
    <3> HIDE DEF N
    <3> QED BY <1>11, <3>1 DEF NoneTwice
  <2>3. NoneTwice(rest, N)
    <3> HIDE DEF N, rest
    <3> QED BY <1>2, <1>3, <2>2, NoneTwiceWithout
  <2> HIDE DEF own, asked, rest, N
  <2>4. Apart(own, asked, N) /\ Apart(own, rest, N) /\ Apart(asked, rest, N)
    BY <1>7, <1>8 DEF Apart
  <2> QED BY <1>4, <1>5, <1>6, <2>1, <2>3, <2>4, ThreePartsOnce
<1> HIDE DEF own, asked, rest, X, N
<1>12. IsSequence(own \o asked \o rest)
  BY <1>4, <1>5, <1>6, ThreePartsList
<1> QED BY <1>1, <1>4, <1>5, <1>9, <1>10, <1>11, <1>12 DEF own, X, N

\* ... to the application, ...
LEMMA Resulted ==
    ASSUME NEW S, NEW q \in Seq(S), NEW f
    PROVE  LET out == ApplicationResult(f, q)
           IN  /\ Pairs(out) = (IF Given(q, "error") THEN {} ELSE {<<"code", SealedCode>>})
                               \cup {p \in Pairs(q) : p[1] \notin {"code", "state"}}
                               \cup (IF f.appState = None THEN {} ELSE {<<"state", f.appState>>})
               /\ Without(out, Passing("callback")) = Without(q, Passing("callback"))
               /\ NoneTwice(q, {"code", "state", "error"}) => NoneTwice(out, Singletons("callback"))
               /\ IsSequence(out)
<1> DEFINE code == IF Given(q, "error") THEN << >> ELSE << <<"code", SealedCode>> >>
           rest == ForwardedToApplication(q)
           state == Optional("state", f.appState)
           X == Passing("callback")
           N == Singletons("callback")
           A == {"code", "state"}
<1>1. ApplicationResult(f, q) = code \o rest \o state
  BY DEF ApplicationResult
<1>2. X = {"code", "state", "error"} /\ N = {"code", "state", "error"} /\ A \subseteq X
  BY DEF Passing, Singletons
<1>3. rest = Without(q, A)
  BY DEF ForwardedToApplication
<1>4. rest \in Seq(S) /\ Pairs(rest) = {p \in Pairs(q) : p[1] \notin A}
  <2> HIDE DEF A, rest
  <2> QED BY <1>3, WithoutSeq, PairsOfWithout
<1>5. /\ code \in Seq({<<"code", SealedCode>>}) /\ NoneTwice(code, N)
      /\ Pairs(code) = IF Given(q, "error") THEN {} ELSE {<<"code", SealedCode>>}
  <2>1. CASE Given(q, "error")
    <3>1. code = << >>
      BY <2>1
    <3> HIDE DEF code, N
    <3> QED BY <2>1, <3>1, NoPairs
  <2>2. CASE ~Given(q, "error")
    <3>1. code = << <<"code", SealedCode>> >>
      BY <2>2
    <3> HIDE DEF code, N
    <3> QED BY <2>2, <3>1, OnePair
  <2> QED BY <2>1, <2>2
<1>6. /\ state \in Seq({<<"state", f.appState>>}) /\ NoneTwice(state, N)
      /\ Pairs(state) = IF f.appState = None THEN {} ELSE {<<"state", f.appState>>}
  BY OptionalPair
<1>7. /\ \A p \in Pairs(code) : p[1] = "code"
      /\ \A p \in Pairs(rest) : p[1] \notin {"code", "state"}
      /\ \A p \in Pairs(state) : p[1] = "state"
  <2> HIDE DEF code, rest, state
  <2> QED BY <1>4, <1>5, <1>6
<1> HIDE DEF code, rest, state, X, N, A
<1>8. Pairs(code \o rest \o state) = Pairs(code) \cup Pairs(rest) \cup Pairs(state)
  BY <1>4, <1>5, <1>6, ThreePartsPairs
<1>9. Without(code \o rest \o state, X) = Without(q, X)
  <2>1. Without(code, X) = << >> /\ Without(state, X) = << >>
    BY <1>2, <1>5, <1>6, <1>7, WithoutAll
  <2>2. Without(rest, X) = Without(q, X)
    <3>1. A \subseteq X
      BY <1>2
    <3> QED BY <1>3, <3>1, WithoutTwice
  <2>3. Without(q, X) \in Seq(S)
    BY WithoutSeq
  <2>4. Without(code \o rest \o state, X) = Without(code, X) \o Without(rest, X) \o Without(state, X)
    <3>0. /\ code \in Seq({<<"code", SealedCode>>}) /\ rest \in Seq(S)
          /\ state \in Seq({<<"state", f.appState>>})
      BY <1>4, <1>5, <1>6
    <3>1. PartByPart(code, rest, state)
      BY <3>0, ThreePartsWithout
    <3> QED BY <3>1 DEF PartByPart
  <2> QED BY <2>1, <2>2, <2>3, <2>4
<1>10. ASSUME NoneTwice(q, {"code", "state", "error"}) PROVE NoneTwice(code \o rest \o state, N)
  <2>1. NoneTwice(rest, N)
    BY <1>2, <1>3, <1>10, NoneTwiceWithout
  <2>2. Apart(code, rest, N) /\ Apart(code, state, N) /\ Apart(rest, state, N)
    BY <1>7 DEF Apart
  <2> QED BY <1>4, <1>5, <1>6, <2>1, <2>2, ThreePartsOnce
<1>11. IsSequence(code \o rest \o state)
  BY <1>4, <1>5, <1>6, ThreePartsList
<1> QED BY <1>1, <1>4, <1>5, <1>6, <1>8, <1>9, <1>10, <1>11 DEF X, N, A

\* ... and in a refresh.
LEMMA Refreshed ==
    ASSUME NEW q \in Forms
    PROVE  LET out == RefreshForm(q)
           IN  /\ Pairs(out) = {p \in Pairs(q) : p[1] \notin DownstreamCredentials}
                               \cup {<<"client_id", Upstream.id>>, <<"client_secret", Upstream.secret>>}
               /\ Without(out, Passing("refresh")) = Without(q, Passing("refresh"))
               /\ TokenParses(q) => NoneTwice(out, Singletons("refresh"))
               /\ IsSequence(out)
<1> DEFINE rest == Without(q, DownstreamCredentials)
           id == << <<"client_id", Upstream.id>> >>
           secret == << <<"client_secret", Upstream.secret>> >>
           X == Passing("refresh")
           N == Singletons("refresh")
<1>1. q \in Seq(Pairs(q))
  BY Received
<1>2. /\ rest \in Seq(Pairs(q))
      /\ Pairs(rest) = {p \in Pairs(q) : p[1] \notin DownstreamCredentials}
  BY <1>1, WithoutSeq, PairsOfWithout
<1>3. RefreshForm(q) = rest \o id \o secret
  <2>1. RefreshForm(q) =
          rest \o << <<"client_id", Upstream.id>>, <<"client_secret", Upstream.secret>> >>
    BY DEF RefreshForm
  <2> DEFINE a == <<"client_id", Upstream.id>>
             b == <<"client_secret", Upstream.secret>>
  <2> HIDE DEF rest, a, b
  <2>2. rest \o <<a, b>> = rest \o <<a>> \o <<b>>
    BY <1>2, ConcatPair
  <2> QED BY <2>1, <2>2 DEF a, b
<1>4. /\ id \in Seq({<<"client_id", Upstream.id>>}) /\ NoneTwice(id, N)
      /\ Pairs(id) = {<<"client_id", Upstream.id>>}
  <2> HIDE DEF N
  <2> QED BY OnePair
<1>5. /\ secret \in Seq({<<"client_secret", Upstream.secret>>}) /\ NoneTwice(secret, N)
      /\ Pairs(secret) = {<<"client_secret", Upstream.secret>>}
  <2> HIDE DEF N
  <2> QED BY OnePair
<1>6. "client_id" \in DownstreamCredentials /\ "client_secret" \in DownstreamCredentials
  BY DEF DownstreamCredentials
<1>7. DownstreamCredentials \subseteq X
  BY DEF Passing, Singletons, DownstreamCredentials
<1>8. \A p \in Pairs(rest) : p[1] \notin DownstreamCredentials
  BY <1>2
<1> HIDE DEF rest, id, secret, X, N
<1>9. Pairs(rest \o id \o secret) = Pairs(rest) \cup Pairs(id) \cup Pairs(secret)
  BY <1>2, <1>4, <1>5, ThreePartsPairs
<1>10. Without(rest \o id \o secret, X) = Without(q, X)
  <2>1. Without(id, X) = << >> /\ Without(secret, X) = << >>
    BY <1>4, <1>5, <1>6, <1>7, WithoutAll
  <2>2. Without(rest, X) = Without(q, X)
    BY <1>1, <1>7, WithoutTwice DEF rest
  <2>3. Without(q, X) \in Seq(Pairs(q))
    BY <1>1, WithoutSeq
  <2>4. Without(rest \o id \o secret, X) = Without(rest, X) \o Without(id, X) \o Without(secret, X)
    <3>0. /\ rest \in Seq(Pairs(q)) /\ id \in Seq({<<"client_id", Upstream.id>>})
          /\ secret \in Seq({<<"client_secret", Upstream.secret>>})
      BY <1>2, <1>4, <1>5
    <3>1. PartByPart(rest, id, secret)
      BY <3>0, ThreePartsWithout
    <3> QED BY <3>1 DEF PartByPart
  <2> QED BY <2>1, <2>2, <2>3, <2>4
<1>11. ASSUME TokenParses(q) PROVE NoneTwice(rest \o id \o secret, N)
  <2>1. NoneTwice(q, N)
    <3> DEFINE once == {"grant_type", "code", "refresh_token", "redirect_uri", "client_id",
                        "client_secret", "code_verifier", "scope", "client_assertion_type",
                        "client_assertion"}
    <3>1. NoneTwice(q, once)
      BY <1>11 DEF TokenParses
    <3>2. N \subseteq once
      BY DEF N, Singletons, DownstreamCredentials
    <3> HIDE DEF once
    <3> QED BY <3>1, <3>2 DEF NoneTwice
  <2>2. NoneTwice(rest, N)
    BY <1>1, <2>1, NoneTwiceWithout DEF rest
  <2>3. Apart(rest, id, N) /\ Apart(rest, secret, N) /\ Apart(id, secret, N)
    BY <1>4, <1>5, <1>6, <1>8 DEF Apart
  <2> QED BY <1>2, <1>4, <1>5, <2>2, <2>3, ThreePartsOnce
<1>12. IsSequence(rest \o id \o secret)
  BY <1>2, <1>4, <1>5, ThreePartsList
<1> QED BY <1>2, <1>3, <1>4, <1>5, <1>9, <1>10, <1>11, <1>12 DEF X, N

-----------------------------------------------------------------------------
LEMMA Invariant == Spec => []IInv
BY Initially, Inductive, PTL DEF Spec

\* Type correctness: in particular the challenge a flow keeps is a valid one, and a
\* public client's flow has one.
THEOREM ParametersTypeCorrect == Spec => []TypeOK
<1>1. IInv => TypeOK
  <2> SUFFICES ASSUME IInv, flow # None
               PROVE  /\ flow.uri \in relay.redirects
                      /\ flow.challenge \in ValidChallenges \cup {None}
                      /\ relay.auth = "Public" => flow.challenge # None
    BY DEF TypeOK, IInv
  <2>1. PICK q \in Queries : AuthorizeAccepts(relay, q) /\ flow = FlowOf(q)
    BY DEF IInv, Answered
  <2>2. flow.uri = Value(q, "redirect_uri") /\ flow.challenge = Value(q, "code_challenge")
    BY <2>1 DEF FlowOf
  <2>3. /\ Value(q, "redirect_uri") \in relay.redirects
        /\ relay.auth = "Public" => Given(q, "code_challenge")
        /\ Given(q, "code_challenge") => Value(q, "code_challenge") \in ValidChallenges
    BY <2>1 DEF AuthorizeAccepts
  <2>4. Given(q, "code_challenge") <=> Value(q, "code_challenge") # None
    BY ReceivedValue
  <2> QED BY <2>2, <2>3, <2>4
<1> QED BY <1>1, Invariant, PTL

-----------------------------------------------------------------------------
\* What the messages are that were sent.
LEMMA AuthorizationSent ==
    ASSUME IInv, Sent("authorize")
    PROVE  /\ relay \in Relays /\ last.at = "authorize" /\ last.in \in Queries
           /\ AuthorizeAccepts(relay, last.in) /\ flow = FlowOf(last.in)
           /\ Pairs(last.out) =
                Pairs(OwnParameters(relay))
                \cup (IF EffectiveScope(relay, last.in) = None THEN {}
                      ELSE {<<"scope", EffectiveScope(relay, last.in)>>})
                \cup {p \in Pairs(last.in) : p[1] \notin Taken}
           /\ Without(last.out, Passing("authorize")) = Without(last.in, Passing("authorize"))
           /\ NoneTwice(last.in, AuthorizeSingletons)
           /\ NoneTwice(last.out, Singletons("authorize"))
           /\ IsSequence(last.out)
<1>1. /\ relay \in Relays /\ last.at = "authorize" /\ last.in \in Queries
      /\ AuthorizeAccepts(relay, last.in) /\ flow = FlowOf(last.in)
      /\ last.out = AuthorizationRequest(relay, last.in)
  BY DEF IInv, Answered, Sent
<1>2. NoneTwice(last.in, AuthorizeSingletons)
  BY <1>1 DEF AuthorizeAccepts, AuthorizeParses
<1> QED BY <1>1, <1>2, Requested

LEMMA ResultSent ==
    ASSUME IInv, Sent("callback")
    PROVE  /\ last.at = "callback" /\ CallbackParses(last.in)
           /\ \E answer \in Answers : last.in = << <<"state", SealedState>> >> \o answer
           /\ \E q \in Queries : flow = FlowOf(q)
           /\ Pairs(last.out) =
                (IF Given(last.in, "error") THEN {} ELSE {<<"code", SealedCode>>})
                \cup {p \in Pairs(last.in) : p[1] \notin {"code", "state"}}
                \cup (IF flow.appState = None THEN {} ELSE {<<"state", flow.appState>>})
           /\ Without(last.out, Passing("callback")) = Without(last.in, Passing("callback"))
           /\ NoneTwice(last.out, Singletons("callback"))
           /\ IsSequence(last.out)
<1>1. /\ last.at = "callback" /\ CallbackParses(last.in)
      /\ \E answer \in Answers : last.in = << <<"state", SealedState>> >> \o answer
      /\ \E q \in Queries : flow = FlowOf(q)
      /\ last.out = ApplicationResult(flow, last.in)
  BY DEF IInv, Answered, Sent
<1>2. NoneTwice(last.in, {"code", "state", "error"})
  BY <1>1 DEF CallbackParses
<1>3. \E S : last.in \in Seq(S)
  <2>1. PICK answer \in Answers : last.in = << <<"state", SealedState>> >> \o answer
    BY <1>1
  <2> DEFINE S == Pairs(answer) \cup {<<"state", SealedState>>}
  <2>2. answer \in Seq(Pairs(answer))
    BY Received
  <2>3. Pairs(answer) \subseteq S /\ <<"state", SealedState>> \in S
    OBVIOUS
  <2> HIDE DEF S
  <2>4. answer \in Seq(S) /\ << <<"state", SealedState>> >> \in Seq(S)
    BY <2>2, <2>3
  <2> QED BY <2>1, <2>4
<1> QED BY <1>1, <1>2, <1>3, Resulted

LEMMA RefreshSent ==
    ASSUME IInv, Sent("refresh")
    PROVE  /\ relay \in Relays /\ last.at = "refresh" /\ last.in \in Forms
           /\ RefreshAccepts(relay, last.in)
           /\ Pairs(last.out) =
                {p \in Pairs(last.in) : p[1] \notin DownstreamCredentials}
                \cup {<<"client_id", Upstream.id>>, <<"client_secret", Upstream.secret>>}
           /\ Without(last.out, Passing("refresh")) = Without(last.in, Passing("refresh"))
           /\ NoneTwice(last.out, Singletons("refresh"))
           /\ IsSequence(last.out)
<1>1. /\ relay \in Relays /\ last.at = "refresh" /\ last.in \in Forms
      /\ RefreshAccepts(relay, last.in)
      /\ last.out = RefreshForm(last.in)
  BY DEF IInv, Answered, Sent
<1>2. TokenParses(last.in)
  BY <1>1 DEF RefreshAccepts
<1> QED BY <1>1, <1>2, Refreshed

\* A choice between two values is left only by a parameter that the URI had before:
\* what the relay adds, it has taken out of what it forwards, and what it forwards
\* came once.
THEOREM NothingAmbiguous == Spec => []Unambiguous
<1>1. ASSUME IInv, Forwarded
      PROVE  /\ IsSequence(last.own) /\ IsSequence(last.out)
             /\ NoneTwice(last.out, Singletons(last.at))
  BY <1>1, AuthorizationSent, ResultSent, RefreshSent DEF Forwarded, IInv, OwnQuery
<1>2. IInv => Unambiguous
  BY <1>1, AppendedOnce DEF Unambiguous, Message
<1> QED BY <1>2, Invariant, PTL

\* The only pair of a name that comes once.
LEMMA TheValue ==
    ASSUME NEW q, NEW names, NoneTwice(q, names), NEW p \in Pairs(q), NEW name \in names,
           p[1] = name
    PROVE  Value(q, name) = p[2]
BY OnlyValue

\* Where a relay restricts scopes, an allowed one is within them.
LEMMA ScopeWithin ==
    ASSUME NEW r, NEW scope, ScopeAllowed(r, scope), r.allowed # None
    PROVE  \A j \in DOMAIN scope : scope[j] \in r.allowed
BY DEF ScopeAllowed

\* Extensions pass through every hop, as does the nonce, and no scope outside
\* allowed_scopes.
THEOREM ExtensionsPass == Spec => []ExtensionsPreserved
<1>1. ASSUME IInv, Forwarded
      PROVE  Without(Message, Singletons(last.at) \ {"nonce", "prompt"})
               = Without(last.own, Singletons(last.at) \ {"nonce", "prompt"})
                 \o Without(last.in, Singletons(last.at) \ {"nonce", "prompt"})
  <2>1. /\ Without(last.out, Passing(last.at)) = Without(last.in, Passing(last.at))
        /\ IsSequence(last.own) /\ IsSequence(last.out)
    BY <1>1, AuthorizationSent, ResultSent, RefreshSent DEF Forwarded, IInv, OwnQuery
  <2>2. Without(last.own \o last.out, Passing(last.at))
          = Without(last.own, Passing(last.at)) \o Without(last.out, Passing(last.at))
    BY <2>1, AppendedWithout
  <2> QED BY <2>1, <2>2 DEF Passing, Message
<1>2. ASSUME IInv, Sent("authorize") PROVE Value(last.out, "nonce") = flow.nonce
  <2> DEFINE q == last.in
             out == last.out
  <2>1. flow.nonce = Value(q, "nonce")
    BY <1>2, AuthorizationSent DEF FlowOf
  <2>2. NoneTwice(q, AuthorizeSingletons) /\ NoneTwice(out, Singletons("authorize"))
    BY <1>2, AuthorizationSent
  <2>3. \A p : p[1] = "nonce" => (p \in Pairs(out) <=> p \in Pairs(q))
    <3>1. Pairs(out) = Pairs(OwnParameters(relay))
                \cup (IF EffectiveScope(relay, q) = None THEN {}
                      ELSE {<<"scope", EffectiveScope(relay, q)>>})
                \cup {p \in Pairs(q) : p[1] \notin Taken}
      BY <1>2, AuthorizationSent
    <3>2. \A p \in Pairs(OwnParameters(relay)) : p[1] # "nonce"
      BY OwnTaken DEF Taken
    <3>3. "nonce" \notin Taken
      BY DEF Taken
    <3> HIDE DEF q, out
    <3> QED BY <3>1, <3>2, <3>3
  <2>4. "nonce" \in AuthorizeSingletons /\ "nonce" \in Singletons("authorize")
    BY DEF AuthorizeSingletons, Singletons
  <2> HIDE DEF q, out
  <2>5. CASE Given(q, "nonce")
    <3>1. PICK p \in Pairs(q) : p[1] = "nonce"
      BY <2>5, GivenPair
    <3>2. p \in Pairs(out)
      BY <2>3, <3>1
    <3>3. Value(q, "nonce") = p[2]
      BY <2>2, <2>4, <3>1, TheValue
    <3>4. Value(out, "nonce") = p[2]
      BY <2>2, <2>4, <3>1, <3>2, TheValue
    <3> QED BY <2>1, <3>3, <3>4 DEF out
  <2>6. CASE ~Given(q, "nonce")
    <3>1. Value(q, "nonce") = None
      BY <2>6, GivenPair
    <3>2. ~Given(out, "nonce")
      BY <2>3, <2>6, GivenPair
    <3>3. Value(out, "nonce") = None
      BY <3>2, GivenPair
    <3> QED BY <2>1, <3>1, <3>3 DEF out
  <2> QED BY <2>5, <2>6
<1>3. ASSUME IInv, Sent("authorize"), NEW p \in Pairs(last.out), p[1] = "scope",
             relay.allowed # None
      PROVE  \A j \in DOMAIN p[2] : p[2][j] \in relay.allowed
  <2> DEFINE q == last.in
             scope == EffectiveScope(relay, q)
  <2>1. p[2] = scope /\ scope # None
    <3>1. Pairs(last.out) = Pairs(OwnParameters(relay))
                \cup (IF scope = None THEN {} ELSE {<<"scope", scope>>})
                \cup {s \in Pairs(q) : s[1] \notin Taken}
      BY <1>3, AuthorizationSent
    <3>2. \A s \in Pairs(OwnParameters(relay)) : s[1] # "scope"
      BY OwnTaken
    <3>3. "scope" \in Taken
      BY DEF Taken
    <3> HIDE DEF q, scope
    <3> QED BY <1>3, <3>1, <3>2, <3>3
  <2>2. AuthorizeAccepts(relay, q) /\ relay \in Relays
    BY <1>3, AuthorizationSent
  <2>3. CASE Given(q, "scope")
    <3>1. scope = Value(q, "scope")
      BY <2>3 DEF EffectiveScope
    <3>2. ScopeAllowed(relay, scope)
      BY <2>2, <2>3, <3>1 DEF AuthorizeAccepts
    <3> HIDE DEF scope
    <3> QED BY <1>3, <2>1, <3>2, ScopeWithin
  <2>4. CASE ~Given(q, "scope")
    <3>1. scope = relay.scopes
      BY <2>1, <2>4 DEF EffectiveScope
    <3>2. \A i \in DOMAIN relay.scopes : relay.scopes[i] \in relay.allowed
      BY <1>3, <2>2, ParametersAssumption
    <3> HIDE DEF scope
    <3> QED BY <2>1, <3>1, <3>2
  <2> QED BY <2>3, <2>4
<1>4. ASSUME IInv, Sent("refresh"), NEW p \in Pairs(last.out), p[1] = "scope",
             relay.allowed # None
      PROVE  \A j \in DOMAIN p[2] : p[2][j] \in relay.allowed
  <2> DEFINE q == last.in
  <2>1. p \in Pairs(q)
    <3>1. Pairs(last.out) =
            {s \in Pairs(q) : s[1] \notin DownstreamCredentials}
            \cup {<<"client_id", Upstream.id>>, <<"client_secret", Upstream.secret>>}
      BY <1>4, RefreshSent
    <3> HIDE DEF q
    <3> QED BY <1>4, <3>1
  <2>2. TokenParses(q) /\ (Given(q, "scope") => ScopeAllowed(relay, Value(q, "scope")))
    BY <1>4, RefreshSent DEF RefreshAccepts
  <2> HIDE DEF q
  <2> DEFINE once == {"grant_type", "code", "refresh_token", "redirect_uri", "client_id",
                      "client_secret", "code_verifier", "scope", "client_assertion_type",
                      "client_assertion"}
  <2>3. NoneTwice(q, once) /\ "scope" \in once
    BY <2>2 DEF TokenParses
  <2> HIDE DEF once
  <2>4. Value(q, "scope") = p[2]
    BY <1>4, <2>1, <2>3, TheValue
  <2>5. Given(q, "scope")
    BY <1>4, <2>1, GivenPair
  <2> QED BY <1>4, <2>2, <2>4, <2>5, ScopeWithin
<1>5. IInv => ExtensionsPreserved
  <2>1. \A i \in DOMAIN last.out : last.out[i] \in Pairs(last.out)
    BY DEF Pairs
  <2> QED BY <1>1, <1>2, <1>3, <1>4, <2>1 DEF ExtensionsPreserved
<1> QED BY <1>5, Invariant, PTL

-----------------------------------------------------------------------------
\* What is sent for the relay alone is known by its value.
LEMMA Tells ==
    ASSUME NEW q, NEW names, NEW added, Telling(q, names, added),
           NEW p \in Pairs(q), p[1] \in names
    PROVE  /\ \A value \in added : value # p[2]
           /\ \A s \in Pairs(q) : s[2] = p[2] => s[1] \in names
BY DEF Telling, Pairs

LEMMA ValuesOfPairs == ASSUME NEW q, NEW v \in Values(q) PROVE \E p \in Pairs(q) : p[2] = v
BY DEF Values, Pairs

\* What an application sends for the relay alone is not among what the upstream gets.
LEMMA UpstreamApart ==
    ASSUME IInv, Sent("authorize"), NEW name \in ForTheRelay("authorize"),
           NEW p \in Pairs(last.out), p[2] = Value(last.in, name)
    PROVE  p[2] = Upstream.id
<1> DEFINE q == last.in
           names == ForTheRelay("authorize")
           scope == EffectiveScope(relay, q)
           url == CallbackUrl(relay.public, relay.upstream)
<1>1. q \in Queries /\ relay \in Relays
  BY AuthorizationSent
<1>2. names \subseteq Taken /\ "scope" \notin names
  BY DEF ForTheRelay, Taken
<1>3. \/ p \in Pairs(OwnParameters(relay))
      \/ p = <<"scope", scope>> /\ scope # None
      \/ p \in Pairs(q) /\ p[1] \notin Taken
  <2>1. Pairs(last.out) = Pairs(OwnParameters(relay))
              \cup (IF scope = None THEN {} ELSE {<<"scope", scope>>})
              \cup {s \in Pairs(q) : s[1] \notin Taken}
    BY AuthorizationSent
  <2> HIDE DEF q, scope
  <2> QED BY <2>1
<1>4. p \in Pairs(OwnParameters(relay)) =>
        p[2] \in {"code", Upstream.id, SealedState, OwnChallenge, "S256"} \cup {url}
  <2>1. Pairs(OwnParameters(relay)) =
          {<<"response_type", "code">>, <<"client_id", Upstream.id>>,
           <<"redirect_uri", url>>, <<"state", SealedState>>,
           <<"code_challenge", OwnChallenge>>, <<"code_challenge_method", "S256">>}
    BY OwnPairs
  <2> HIDE DEF url
  <2> QED BY <2>1
<1>5. url \in {CallbackUrl(r.public, r.upstream) : r \in Relays}
  BY <1>1
<1>6. CASE ~Given(q, name)
  <2>1. p[2] = None
    BY <1>6, GivenPair
  <2>2. None \notin {"code", "S256", SealedState, OwnChallenge} /\ None # url
    BY <1>5, ValuesAssumption
  <2>3. p \notin Pairs(q)
    BY <1>1, <2>1, Received
  <2> HIDE DEF q, scope, url
  <2> QED BY <1>3, <1>4, <2>1, <2>2, <2>3
<1>7. CASE Given(q, name)
  <2>1. PICK s \in Pairs(q) : s[1] = name /\ s[2] = p[2]
    BY <1>7, GivenPair
  <2>2. /\ Telling(q, names, {"code", "S256", SealedState, OwnChallenge})
        /\ Telling(q, names, {r.scopes : r \in Relays})
        /\ Telling(q, names, {CallbackUrl(r.public, r.upstream) : r \in Relays})
    BY <1>1, ValuesAssumption
  <2> HIDE DEF q, names, scope, url
  <2>3. s[1] \in names
    BY <2>1 DEF names
  <2>4. p[2] \notin {"code", "S256", SealedState, OwnChallenge}
    BY <2>1, <2>2, <2>3, Tells
  <2>5. p[2] \notin {r.scopes : r \in Relays}
    BY <2>1, <2>2, <2>3, Tells
  <2>6. p[2] # url
    BY <1>5, <2>1, <2>2, <2>3, Tells
  <2>7. \A t \in Pairs(q) : t[2] = p[2] => t[1] \in names
    BY <2>1, <2>2, <2>3, Tells
  <2>8. ~(p \in Pairs(q) /\ p[1] \notin Taken)
    BY <1>2, <2>7
  <2>9. p # <<"scope", scope>> \/ scope = None
    <3> SUFFICES ASSUME p = <<"scope", scope>>, scope # None PROVE FALSE
      OBVIOUS
    <3>1. p[2] = scope
      OBVIOUS
    <3>2. CASE Given(q, "scope")
      <4>1. scope = Value(q, "scope")
        BY <3>2 DEF scope, EffectiveScope
      <4>2. PICK t \in Pairs(q) : t[1] = "scope" /\ t[2] = scope
        BY <3>2, <4>1, GivenPair
      <4> QED BY <1>2, <2>7, <3>1, <4>2
    <3>3. CASE ~Given(q, "scope")
      <4>1. scope = relay.scopes
        BY <3>3 DEF scope, EffectiveScope
      <4> QED BY <1>1, <2>5, <3>1, <4>1
    <3> QED BY <3>2, <3>3
  <2> QED BY <1>3, <1>4, <2>4, <2>6, <2>8, <2>9
<1> QED BY <1>6, <1>7

\* A refresh passes on none of an application's credentials but those of the upstream.
LEMMA RefreshApart ==
    ASSUME IInv, Sent("refresh"), NEW name \in ForTheRelay("refresh"),
           NEW p \in Pairs(last.out), p[2] = Value(last.in, name)
    PROVE  p[2] \in {Upstream.id, Upstream.secret}
<1> DEFINE q == last.in
<1>1. q \in Forms
  BY RefreshSent
<1>2. name \in DownstreamCredentials
  BY DEF ForTheRelay
<1>3. Pairs(last.out) = {s \in Pairs(q) : s[1] \notin DownstreamCredentials}
                         \cup {<<"client_id", Upstream.id>>, <<"client_secret", Upstream.secret>>}
  BY RefreshSent
<1>4. Telling(q, DownstreamCredentials, {})
  BY <1>1, ValuesAssumption DEF ForTheRelay
<1>5. ~(p \in Pairs(q) /\ p[1] \notin DownstreamCredentials)
  <2> SUFFICES ASSUME p \in Pairs(q), p[1] \notin DownstreamCredentials PROVE FALSE
    OBVIOUS
  <2>1. CASE Given(q, name)
    <3>1. PICK s \in Pairs(q) : s[1] = name /\ s[2] = p[2]
      BY <2>1, GivenPair
    <3> HIDE DEF q
    <3> QED BY <1>2, <1>4, <3>1, Tells
  <2>2. CASE ~Given(q, name)
    <3>1. p[2] = None
      BY <2>2, GivenPair
    <3> QED BY <1>1, <3>1, Received
  <2> QED BY <2>1, <2>2
<1> HIDE DEF q
<1> QED BY <1>3, <1>5

\* Neither the upstream's code nor the sealed state is among what the application gets.
LEMMA ApplicationApart ==
    ASSUME IInv, Sent("callback"), NEW name \in ForTheRelay("callback"),
           NEW p \in Pairs(last.out), p[2] = Value(last.in, name)
    PROVE  p[2] = None
<1> DEFINE q == last.in
           names == ForTheRelay("callback")
<1>1. names = {"code", "state"}
  BY DEF ForTheRelay
<1>2. \/ p[2] = SealedCode
      \/ p \in Pairs(q) /\ p[1] \notin names
      \/ p[2] = flow.appState
  <2>1. Pairs(last.out) = (IF Given(q, "error") THEN {} ELSE {<<"code", SealedCode>>})
                \cup {s \in Pairs(q) : s[1] \notin {"code", "state"}}
                \cup (IF flow.appState = None THEN {} ELSE {<<"state", flow.appState>>})
    BY ResultSent
  <2> HIDE DEF q, names
  <2> QED BY <1>1, <2>1
<1>3. flow.appState \in {Value(s, "state") : s \in Queries}
  <2>1. PICK s \in Queries : flow = FlowOf(s)
    BY ResultSent
  <2>2. flow.appState = Value(s, "state")
    BY <2>1 DEF FlowOf
  <2> QED BY <2>2
<1>4. Telling(q, names, {SealedCode} \cup {Value(s, "state") : s \in Queries})
  <2>1. PICK answer \in Answers : q = << <<"state", SealedState>> >> \o answer
    BY ResultSent
  <2>2. Telling(<< <<"state", SealedState>> >> \o answer, names,
                {SealedCode} \cup {Value(s, "state") : s \in Queries})
    BY ValuesAssumption
  <2> QED BY <2>1, <2>2
<1>5. CASE ~Given(q, name)
  BY <1>5, GivenPair
<1>6. CASE Given(q, name)
  <2>1. PICK s \in Pairs(q) : s[1] = name /\ s[2] = p[2]
    BY <1>6, GivenPair
  <2> HIDE DEF q, names
  <2>2. s[1] \in names
    BY <2>1 DEF names
  <2>3. p[2] # SealedCode /\ p[2] # flow.appState
    BY <1>3, <1>4, <2>1, <2>2, Tells
  <2>4. ~(p \in Pairs(q) /\ p[1] \notin names)
    BY <1>4, <2>1, <2>2, Tells
  <2> QED BY <1>2, <2>3, <2>4
<1> QED BY <1>5, <1>6

\* The application gets one of a code and an error, and the state it gave.
LEMMA ResultWellFormed ==
    ASSUME IInv, Sent("callback")
    PROVE  /\ Given(last.out, "code") # Given(last.out, "error")
           /\ Value(last.out, "code") \in {SealedCode, None}
           /\ Value(last.out, "state") = flow.appState
<1> DEFINE q == last.in
           out == last.out
<1>1. Pairs(out) = (IF Given(q, "error") THEN {} ELSE {<<"code", SealedCode>>})
              \cup {s \in Pairs(q) : s[1] \notin {"code", "state"}}
              \cup (IF flow.appState = None THEN {} ELSE {<<"state", flow.appState>>})
  BY ResultSent
<1>2. Given(q, "code") # Given(q, "error")
  BY ResultSent DEF CallbackParses
<1> HIDE DEF q, out
<1>3. Given(out, "code") <=> ~Given(q, "error")
  <2>1. ASSUME ~Given(q, "error") PROVE \E p \in Pairs(out) : p[1] = "code"
    <3>1. <<"code", SealedCode>> \in Pairs(out)
      BY <1>1, <2>1
    <3> QED BY <3>1
  <2>2. ASSUME Given(q, "error"), NEW p \in Pairs(out) PROVE p[1] # "code"
    BY <1>1, <2>2
  <2> QED BY <2>1, <2>2, GivenPair
<1>4. Given(out, "error") <=> Given(q, "error")
  <2>1. (\E p \in Pairs(out) : p[1] = "error") <=> (\E p \in Pairs(q) : p[1] = "error")
    BY <1>1
  <2> QED BY <2>1, GivenPair
<1>5. Given(out, "code") # Given(out, "error")
  BY <1>3, <1>4 DEF Given
<1>6. Value(out, "code") \in {SealedCode, None}
  <2>1. \A p \in Pairs(out) : p[1] = "code" => p[2] = SealedCode
    BY <1>1
  <2> QED BY <2>1, GivenPair
<1>7. Value(out, "state") = flow.appState
  <2>1. CASE flow.appState = None
    <3>1. \A p \in Pairs(out) : p[1] # "state"
      BY <1>1, <2>1
    <3> QED BY <2>1, <3>1, GivenPair
  <2>2. CASE flow.appState # None
    <3>1. /\ \A p \in Pairs(out) : p[1] = "state" => p[2] = flow.appState
          /\ <<"state", flow.appState>> \in Pairs(out)
      BY <1>1, <2>2
    <3>2. Given(out, "state")
      BY <3>1, GivenPair
    <3> QED BY <3>1, <3>2, GivenPair
  <2> QED BY <2>1, <2>2
<1> QED BY <1>5, <1>6, <1>7 DEF out

\* Nothing sent for the relay alone goes further, and the application receives a code
\* of the relay's or an error with the state it gave.
THEOREM HalvesApart == Spec => []HalvesStayApart
<1>1. IInv => HalvesStayApart
  <2> SUFFICES ASSUME IInv PROVE HalvesStayApart
    OBVIOUS
  <2>1. ASSUME Sent("authorize")
        PROVE  /\ {Value(last.in, name) : name \in ForTheRelay(last.at)} \cap Values(last.out)
                    \subseteq {Upstream.id, Upstream.secret}
               /\ flow.appState = Value(last.in, "state")
    <3>1. last.at = "authorize" /\ flow = FlowOf(last.in)
      BY <2>1, AuthorizationSent
    <3>2. ASSUME NEW name \in ForTheRelay(last.at), Value(last.in, name) \in Values(last.out)
          PROVE  Value(last.in, name) = Upstream.id
      <4>1. PICK p \in Pairs(last.out) : p[2] = Value(last.in, name)
        BY <3>2, ValuesOfPairs
      <4> QED BY <2>1, <3>1, <4>1, UpstreamApart
    <3> QED BY <3>1, <3>2 DEF FlowOf
  <2>2. ASSUME Sent("refresh")
        PROVE  {Value(last.in, name) : name \in ForTheRelay(last.at)} \cap Values(last.out)
                 \subseteq {Upstream.id, Upstream.secret}
    <3>1. last.at = "refresh"
      BY <2>2 DEF Sent
    <3>2. ASSUME NEW name \in ForTheRelay(last.at), Value(last.in, name) \in Values(last.out)
          PROVE  Value(last.in, name) \in {Upstream.id, Upstream.secret}
      <4>1. PICK p \in Pairs(last.out) : p[2] = Value(last.in, name)
        BY <3>2, ValuesOfPairs
      <4> QED BY <2>2, <3>1, <4>1, RefreshApart
    <3> QED BY <3>2
  <2>3. ASSUME Sent("callback")
        PROVE  {Value(last.in, name) : name \in ForTheRelay(last.at)} \cap Values(last.out)
                 \subseteq {None}
    <3>1. last.at = "callback"
      BY <2>3 DEF Sent
    <3>2. ASSUME NEW name \in ForTheRelay(last.at), Value(last.in, name) \in Values(last.out)
          PROVE  Value(last.in, name) = None
      <4>1. PICK p \in Pairs(last.out) : p[2] = Value(last.in, name)
        BY <3>2, ValuesOfPairs
      <4> QED BY <2>3, <3>1, <4>1, ApplicationApart
    <3> QED BY <3>2
  <2> QED BY <2>1, <2>2, <2>3, ResultWellFormed DEF HalvesStayApart
<1> QED BY <1>1, Invariant, PTL

-----------------------------------------------------------------------------
\* The URLs in what is sent out are those made for the resource.
LEMMA CallbackSent ==
    ASSUME IInv, Sent("authorize")
    PROVE  Value(last.out, "redirect_uri") = CallbackUrl(relay.public, relay.upstream)
<1> DEFINE out == last.out
           url == CallbackUrl(relay.public, relay.upstream)
<1>1. <<"redirect_uri", url>> \in Pairs(out)
  <2>1. <<"redirect_uri", url>> \in Pairs(OwnParameters(relay))
    BY OwnPairs
  <2>2. Pairs(OwnParameters(relay)) \subseteq Pairs(out)
    <3>1. Pairs(out) = Pairs(OwnParameters(relay))
                \cup (IF EffectiveScope(relay, last.in) = None THEN {}
                      ELSE {<<"scope", EffectiveScope(relay, last.in)>>})
                \cup {p \in Pairs(last.in) : p[1] \notin Taken}
      BY AuthorizationSent
    <3> HIDE DEF out
    <3> QED BY <3>1
  <2> QED BY <2>1, <2>2
<1>2. NoneTwice(out, Singletons("authorize"))
  BY AuthorizationSent
<1>3. "redirect_uri" \in Singletons("authorize")
  BY DEF Singletons
<1> HIDE DEF out, url
<1>4. Value(out, "redirect_uri") = url
  <2> DEFINE p == <<"redirect_uri", url>>
  <2>1. p[1] = "redirect_uri" /\ p[2] = url /\ p \in Pairs(out)
    BY <1>1
  <2> HIDE DEF p
  <2> QED BY <1>2, <1>3, <2>1, TheValue
<1> QED BY <1>4 DEF out, url

LEMMA EndpointsPublished ==
    ASSUME NEW public, NEW key, NEW configured, NEW issuer, NEW document
    PROVE  LET metadata == RelayMetadata(public, key, configured, issuer, document)
           IN  /\ metadata["authorization_endpoint"] = RelayUrl(public, key, "authorize")
               /\ metadata["token_endpoint"] = RelayUrl(public, key, "token")
<1> DEFINE own == [authorization_endpoint |-> RelayUrl(public, key, "authorize"),
                   token_endpoint         |-> RelayUrl(public, key, "token"),
                   issuer |-> IF Field(document, "issuer") = NoValue THEN issuer
                              ELSE document["issuer"],
                   jwks_uri |-> KeysUrl(configured, document)]
           names == (DOMAIN document \cup DOMAIN own)
                      \ {name \in {"jwks_uri"} : own.jwks_uri = NoValue}
           metadata == [name \in names |->
                           IF name \in DOMAIN own THEN own[name] ELSE document[name]]
<1>1. RelayMetadata(public, key, configured, issuer, document) = metadata
  BY DEF RelayMetadata
<1>2. /\ "authorization_endpoint" \in DOMAIN own /\ "token_endpoint" \in DOMAIN own
      /\ own["authorization_endpoint"] = RelayUrl(public, key, "authorize")
      /\ own["token_endpoint"] = RelayUrl(public, key, "token")
  OBVIOUS
<1> HIDE DEF own
<1>3. "authorization_endpoint" \in names /\ "token_endpoint" \in names
  BY <1>2
<1> HIDE DEF names
<1>4. /\ metadata["authorization_endpoint"] = own["authorization_endpoint"]
      /\ metadata["token_endpoint"] = own["token_endpoint"]
  BY <1>2, <1>3
<1> QED BY <1>1, <1>2, <1>4

\* Names and URLs correspond, whatever resources are called and wherever the relay is
\* published: a path without dots is what it is, and one with dots is too short for
\* an endpoint below the public path.
THEOREM LinksCorrespond == Spec => []LinksLeadBack
<1>1. ASSUME IInv, Sent("authorize")
      PROVE  LeadsTo(Value(last.out, "redirect_uri"), relay.upstream, "callback")
  <2>1. relay \in Relays
    BY <1>1 DEF IInv
  <2>2. Dispatched(relay.public, CallbackUrl(relay.public, relay.upstream), relay.strategy) \in
          {[key |-> relay.upstream, endpoint |-> "callback"]}
            \cup (IF Dotted(relay.upstream) THEN {NoValue} ELSE {})
    BY <2>1, CallbackLeads
  <2> QED BY <1>1, <2>2, CallbackSent DEF LeadsTo, About
<1>2. ASSUME IInv, Sent("discovery")
      PROVE  /\ LeadsTo(last.out["authorization_endpoint"], relay.key, "authorize")
             /\ LeadsTo(last.out["token_endpoint"], relay.key, "token")
  <2>1. relay \in Relays
    BY <1>2 DEF IInv
  <2>2. PICK doc : last.out = RelayMetadata(relay.public, relay.key, relay.configured,
                                            relay.issuer, doc)
    BY <1>2 DEF IInv, Answered
  <2>3. /\ last.out["authorization_endpoint"] = RelayUrl(relay.public, relay.key, "authorize")
        /\ last.out["token_endpoint"] = RelayUrl(relay.public, relay.key, "token")
    BY <2>2, EndpointsPublished
  <2>4. "authorize" \in RelayEndpoints /\ "token" \in RelayEndpoints
    BY DEF RelayEndpoints
  <2>5. \A e \in {"authorize", "token"} :
          Dispatched(relay.public, RelayUrl(relay.public, relay.key, e), relay.strategy) \in
            {[key |-> relay.key, endpoint |-> e]}
              \cup (IF Dotted(relay.key) THEN {NoValue} ELSE {})
    BY <2>1, <2>4, EndpointLeads
  <2> QED BY <2>3, <2>5 DEF LeadsTo, About
<1>3. ASSUME NEW path \in Paths, ParsePath(path, relay.strategy) # NoValue
      PROVE  WithoutEmptyEnds(path) =
               (IF ParsePath(path, relay.strategy).endpoint = "callback" THEN <<"upstream">>
                ELSE <<"relay">>)
               \o ParsePath(path, relay.strategy).key
               \o (IF ParsePath(path, relay.strategy).endpoint = "discovery" THEN DiscoveryTail
                   ELSE << ParsePath(path, relay.strategy).endpoint >>)
  <2>1. path \in Seq(Pairs(path))
    BY ValuesAssumption DEF IsSequence, Pairs
  <2>2. PICK key, endpoint : MadeOf(path, relay.strategy, key, endpoint)
    <3>1. \E key \in Seq(Pairs(path)) : \E endpoint :
            MadeOf(path, relay.strategy, key, endpoint)
      BY <1>3, <2>1, ParsedPath DEF MadeOf
    <3> QED BY <3>1
  <2>3. /\ ParsePath(path, relay.strategy).endpoint = endpoint
        /\ ParsePath(path, relay.strategy).key = key
    BY <2>2 DEF MadeOf
  <2>4. WithoutEmptyEnds(path) = HeadOf(endpoint) \o key \o TailOf(endpoint)
    BY <2>2 DEF MadeOf
  <2> QED BY <2>3, <2>4 DEF HeadOf, TailOf
<1>4. IInv => LinksLeadBack
  BY <1>1, <1>2, <1>3 DEF LinksLeadBack
<1> QED BY <1>4, Invariant, PTL
=============================================================================
