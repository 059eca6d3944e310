------------------------------- MODULE Sealing -------------------------------
(***************************************************************************)
(* The sealing keys of a fleet while they are rotated.  A process has the  *)
(* key it seals with and, at most, a previous one with which it still      *)
(* opens; it has them from its environment, so it takes new ones when it   *)
(* is restarted, and instances are restarted one after the other.  What    *)
(* one instance seals, the user agent brings to any other.                 *)
(*                                                                         *)
(* The operator rotates as the documentation says: the new key becomes the *)
(* current one and the prior key the previous one, which is removed after  *)
(* a while.  If staged, it is first given out as the previous key.         *)
(***************************************************************************)
EXTENDS Integers, FiniteSets

CONSTANTS Instances, Keys, NoKey,
          Kinds,        \* of envelopes: those of a flow, those of a code
          TTL,          \* TTL[kind]: FLOW_TTL and CODE_TTL
          Allowance,    \* how far ahead of a clock an envelope may be dated: 30
          Skew,         \* Skew[p]: the wall clock of p is ahead by that much
          Keep,         \* how long a previous key is kept: ten minutes, and what clocks
                        \* differ by
          MaxEnvelopes, \* bound: how many values are sealed
          MaxTime       \* bound: how long the clock runs

\* The previous key outlives every envelope, on the slowest clock.
ASSUME SealingAssumption ==
    /\ Instances # {} /\ NoKey \notin Keys /\ Keys # {}
    /\ TTL \in [Kinds -> Nat] /\ Allowance \in Nat /\ Skew \in [Instances -> Nat]
    /\ Keep \in Nat
    /\ \A p, q \in Instances, kind \in Kinds : TTL[kind] + Skew[q] <= Keep + Skew[p]
    /\ MaxEnvelopes \in Nat /\ MaxTime \in Nat

VARIABLES clock,
          deployed,   \* OAUTHRELAY_SEAL_KEY and its _PREVIOUS, as they are set now
          running,    \* running[p]: those p was started with
          taken,      \* history: when p was started with other ones than before
          envelopes,  \* what has been sealed
          staged      \* does the operator announce a new key before using it?

sealingVars == <<clock, deployed, running, taken, envelopes, staged>>

-----------------------------------------------------------------------------
XChaChaSealer == [current: Keys, previous: Keys \cup {NoKey}]

\* The key it is sealed with, issued_at, its kind; and, as history, by whom and
\* when.  The associated data and the plaintext are in RelayFlow.
Envelope == [key: Keys, issued_at: Nat, kind: Kinds, by: Instances, at: Nat]

SealingTypeOK ==
    /\ clock \in 0..MaxTime
    /\ deployed \in XChaChaSealer
    /\ running \in [Instances -> XChaChaSealer]
    /\ taken \in [Instances -> Nat] /\ \A p \in Instances : taken[p] <= clock
    /\ envelopes \subseteq Envelope /\ staged \in BOOLEAN
    /\ \A e \in envelopes : e.at <= clock /\ e.issued_at = e.at + Skew[e.by]

SealingInit ==
    /\ clock = 0
    /\ \E k \in Keys : deployed = [current |-> k, previous |-> NoKey]
    /\ running = [p \in Instances |-> deployed]
    /\ taken = [p \in Instances |-> 0]
    /\ envelopes = {}
    /\ staged \in BOOLEAN

-----------------------------------------------------------------------------
unix_time(p) == clock + Skew[p]

Fresh(p, e) ==
    /\ e.issued_at <= unix_time(p) + Allowance
    /\ unix_time(p) - e.issued_at <= TTL[e.kind]

Accepted(sealer) == {sealer.current, sealer.previous} \ {NoKey}

\* Mutant: the previous key is there for show.
UnsealsCurrent(p, e) == e.key = running[p].current

\* unseal: with the current key or else, if there is one, with the previous key.
Unseals(p, e) == e.key \in Accepted(running[p])

Tick ==
    /\ clock < MaxTime
    /\ clock' = clock + 1
    /\ UNCHANGED <<deployed, running, taken, envelopes, staged>>

\* Mutant: dated by the clock that all the other times are taken from.
SealWithInstant(p, kind, key) ==
    /\ Cardinality(envelopes) < MaxEnvelopes
    /\ envelopes' = envelopes \cup
         {[key |-> key, issued_at |-> clock, kind |-> kind, by |-> p, at |-> clock]}
    /\ UNCHANGED <<clock, deployed, running, taken, staged>>

SealWith(p, kind, key) ==
    /\ Cardinality(envelopes) < MaxEnvelopes
    /\ envelopes' = envelopes \cup
         {[key |-> key, issued_at |-> unix_time(p), kind |-> kind, by |-> p, at |-> clock]}
    /\ UNCHANGED <<clock, deployed, running, taken, staged>>

\* authorize seals a flow, callback a code.
Seal(p, kind) == SealWith(p, kind, running[p].current)

\* main, and the seal_key it calls: a process starts with what is set then.
Restart(p) ==
    /\ running' = [running EXCEPT ![p] = deployed]
    /\ taken' = [taken EXCEPT ![p] = IF running[p] = deployed THEN @ ELSE clock]
    /\ UNCHANGED <<clock, deployed, envelopes, staged>>

\* The operator sets other keys, not before every instance has the ones set now;
\* a key that goes has been the prior one everywhere for longer than Keep.
Deploy(sealer) ==
    /\ \A p \in Instances : running[p] = deployed
    /\ \/ Accepted(deployed) \subseteq Accepted(sealer)
       \/ \A p \in Instances : clock > taken[p] + Keep
    /\ deployed' = sealer
    /\ UNCHANGED <<clock, running, taken, envelopes, staged>>

Rotate ==
    /\ ~staged
    /\ \E key \in Keys \ Accepted(deployed) :
         Deploy([current |-> key, previous |-> deployed.current])

Announce ==
    /\ staged
    /\ \E key \in Keys \ Accepted(deployed) :
         Deploy([deployed EXCEPT !.previous = key])

Switch ==
    /\ staged
    /\ deployed.previous # NoKey
    /\ Deploy([current |-> deployed.previous, previous |-> deployed.current])

Retire ==
    /\ deployed.previous # NoKey
    /\ Deploy([deployed EXCEPT !.previous = NoKey])

SealingNext ==
    \/ Tick
    \/ \E p \in Instances : Restart(p) \/ \E kind \in Kinds : Seal(p, kind)
    \/ Rotate \/ Announce \/ Switch \/ Retire

SealingSpec == SealingInit /\ [][SealingNext]_sealingVars

-----------------------------------------------------------------------------
\* While a rotation is rolled out, what fails is what the new key sealed, at an
\* instance that is not restarted yet; an instance that is opens everything that
\* is still fresh, whoever sealed it.  A key that is announced before it is used
\* costs no sign-in at all.
RefusedOnlyBeforeRestart ==
    \A p \in Instances, e \in envelopes :
        Fresh(p, e) /\ ~Unseals(p, e) =>
            ~staged /\ running[p] # deployed /\ e.key = deployed.current
=============================================================================
