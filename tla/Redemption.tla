----------------------------- MODULE Redemption -----------------------------
(***************************************************************************)
(* Redeeming a relay authorization code at the token endpoint, in time.    *)
(*                                                                         *)
(* A code is a sealed CodeEnvelope: nothing about it is stored when it is  *)
(* issued.  What keeps it from being redeemed twice is the pair of         *)
(*   - a freshness check on the issue time it carries (router.rs fresh),   *)
(*     made on the wall clock in whole seconds, before the ID token is     *)
(*     validated (an await of unbounded length), and                       *)
(*   - an entry in MemoryReplayCache (resolver.rs), made on the monotonic  *)
(*     clock after that await, and kept for CODE_TTL from an instant that  *)
(*     is read before the cache's mutex is taken.                          *)
(* The module lets several handlers run through these steps in every order,*)
(* on several processes whose wall clocks differ, with restarts and        *)
(* clients that hang up.                                                   *)
(*                                                                         *)
(* Time is counted in ticks, TicksPerSec to a second: `clock` is true time *)
(* and the monotonic clock; process p's wall clock is ahead of it by       *)
(* Skew[p] ticks.  Wall clocks do not step here.                           *)
(*                                                                         *)
(* The redirect_uri and PKCE guards of exchange_sealed_code return before  *)
(* any of this state is touched, so a request that fails them is a step    *)
(* that changes nothing; module RelayFlow is about them.                   *)
(***************************************************************************)
EXTENDS Integers, Sequences

CONSTANTS Procs,        \* processes: native servers or warm Lambda environments
          Cached,       \* those with a replay cache (RelayConfig.replay_cache is Some)
          Ids,          \* the values of CodeEnvelope.envelope_id
          Handlers,     \* token requests that can be in progress at once
          TicksPerSec,  \* ticks of time to a second
          CodeTtl,      \* CODE_TTL, in seconds
          Allowance,    \* how far ahead an issue time may lie (30 in fresh), in seconds
          Skew,         \* how far each wall clock is ahead of true time, in ticks
          MaxClock,     \* bound: the last tick
          MaxRestarts,  \* bound: restarts of each process
          MaxUses       \* bound: redemptions recorded

ASSUME RedemptionAssumption ==
    /\ Cached \subseteq Procs
    /\ TicksPerSec \in Nat \ {0}
    /\ CodeTtl \in Nat
    /\ Allowance \in Nat
    /\ Skew \in [Procs -> Nat]
    /\ MaxClock \in Nat
    /\ MaxRestarts \in Nat
    /\ MaxUses \in Nat

VARIABLES clock,       \* the present, in ticks
          sealed,      \* the codes issued so far; they live with the clients
          validating,  \* token requests awaiting validate_required_id_token_claims
          locking,     \* token requests between Instant::now() and the cache's mutex
          cache,       \* MemoryReplayCache.entries of each process
          restarts,    \* how often each process has restarted
          uses         \* history: every time first_use said yes, in order

vars == <<clock, sealed, validating, locking, cache, restarts, uses>>

-----------------------------------------------------------------------------
\* A CodeEnvelope.  issued_at is in seconds on the wall clock of its issuer;
\* `by` and `minted` (true time, in ticks) are not in the envelope: they are
\* there for the properties.
Code == [id: Ids, issued_at: Nat, by: Procs, minted: Nat]

\* A request that has passed the checks on its code, at tick `checked`.
Validating == [handler: Handlers, proc: Procs, code: Code, checked: Nat]

\* A request inside first_use that has read the monotonic clock, at tick `now`.
Locking == [handler: Handlers, proc: Procs, code: Code, checked: Nat, now: Nat]

Entry == [id: Ids, expires: Nat]

\* A yes of first_use: `life` counts the restarts of the process before it,
\* `locked` is the tick at which the entry was made.
Use == [proc: Procs, life: Nat, code: Code, checked: Nat, now: Nat, locked: Nat]

CodeWindow == CodeTtl * TicksPerSec

\* unix_now() at tick t on process p: whole seconds.
UnixSeconds(p, t) == (t + Skew[p]) \div TicksPerSec

\* u64::saturating_sub
SaturatingSub(a, b) == IF a > b THEN a - b ELSE 0

\* Two ways fresh could be wrong: a second too long, or blind to the future.
FreshSecondLonger(p, t, issued_at) ==
    /\ issued_at <= UnixSeconds(p, t) + Allowance
    /\ SaturatingSub(UnixSeconds(p, t), issued_at) <= CodeTtl + 1
FreshFutureUnchecked(p, t, issued_at) ==
    SaturatingSub(UnixSeconds(p, t), issued_at) <= CodeTtl

\* fresh(issued_at, CODE_TTL) at tick t on process p.
Fresh(p, t, issued_at) ==
    /\ issued_at <= UnixSeconds(p, t) + Allowance
    /\ SaturatingSub(UnixSeconds(p, t), issued_at) <= CodeTtl

Busy == {v.handler : v \in validating} \cup {l.handler : l \in locking}

\* The entries left by `entries.retain(|_, expires| *expires > now)`.
Retained(p, now) == {e \in cache[p] : e.expires > now}

\* An expiry computed backwards.
ExpiryReversed(now) == now - CodeWindow

\* The instant `now + ttl` an entry is kept until.
Expiry(now) == now + CodeWindow

\* What the history records when the code of request r is taken as unused.
UseOf(r, now) == [proc |-> r.proc, life |-> restarts[r.proc], code |-> r.code,
                  checked |-> r.checked, now |-> now, locked |-> clock]

Contains(entries, id) == \E e \in entries : e.id = id

-----------------------------------------------------------------------------
TypeOK ==
    /\ clock \in Nat
    /\ sealed \subseteq Code
    /\ validating \subseteq Validating
    /\ locking \subseteq Locking
    /\ cache \in [Procs -> SUBSET Entry]
    /\ restarts \in [Procs -> 0..MaxRestarts]
    /\ uses \in Seq(Use)

Init ==
    /\ clock = 0
    /\ sealed = {}
    /\ validating = {}
    /\ locking = {}
    /\ cache = [p \in Procs |-> {}]
    /\ restarts = [p \in Procs |-> 0]
    /\ uses = << >>

\* The end of callback: a code is sealed, its envelope_id drawn at random.
Mint(p, id) ==
    /\ \A c \in sealed : c.id # id
    /\ sealed' = sealed \cup
         {[id |-> id, issued_at |-> UnixSeconds(p, clock), by |-> p, minted |-> clock]}
    /\ UNCHANGED <<clock, validating, locking, cache, restarts, uses>>

\* exchange_sealed_code up to its first await: the code unseals, is fresh, and
\* its redirect_uri and PKCE challenge match.
OpenCode(h, p, c) ==
    /\ h \notin Busy
    /\ Fresh(p, clock, c.issued_at)
    /\ validating' = validating \cup
         {[handler |-> h, proc |-> p, code |-> c, checked |-> clock]}
    /\ UNCHANGED <<clock, sealed, locking, cache, restarts, uses>>

\* Validation ends Unavailable: 502, and first_use is not called.
ValidationUnavailable(v) ==
    /\ validating' = validating \ {v}
    /\ UNCHANGED <<clock, sealed, locking, cache, restarts, uses>>

\* Validation ends Ok or Rejected: either way the code is now to be consumed
\* (the verdict only selects the answer that follows), and first_use begins
\* by reading the clock.
ValidationDecided(v) ==
    /\ v.proc \in Cached
    /\ validating' = validating \ {v}
    /\ locking' = locking \cup
         {[handler |-> v.handler, proc |-> v.proc, code |-> v.code,
           checked |-> v.checked, now |-> clock]}
    /\ UNCHANGED <<clock, sealed, cache, restarts, uses>>

\* The same without a replay cache: the code passes, used before or not.
ValidationDecidedUncached(v) ==
    /\ v.proc \notin Cached
    /\ Len(uses) < MaxUses
    /\ validating' = validating \ {v}
    /\ uses' = Append(uses, UseOf(v, clock))
    /\ UNCHANGED <<clock, sealed, locking, cache, restarts>>

\* A first_use that inserts first and looks at what was there: a second attempt
\* prolongs the entry.
FirstUseNoProlonged(l) ==
    LET kept == Retained(l.proc, l.now)
    IN  /\ Contains(kept, l.code.id)
        /\ locking' = locking \ {l}
        /\ cache' = [cache EXCEPT ![l.proc] =
                       {e \in kept : e.id # l.code.id}
                         \cup {[id |-> l.code.id, expires |-> Expiry(l.now)]}]
        /\ UNCHANGED <<clock, sealed, validating, restarts, uses>>

\* first_use under the mutex, for a code that is already there: the expired
\* entries are dropped and the request is told "code was already used".
FirstUseNo(l) ==
    LET kept == Retained(l.proc, l.now)
    IN  /\ Contains(kept, l.code.id)
        /\ locking' = locking \ {l}
        /\ cache' = [cache EXCEPT ![l.proc] = kept]
        /\ UNCHANGED <<clock, sealed, validating, restarts, uses>>

\* A first_use that looked before it took the mutex, and not again.
FirstUseYesUnguarded(l) ==
    /\ Len(uses) < MaxUses
    /\ locking' = locking \ {l}
    /\ cache' = [cache EXCEPT ![l.proc] = Retained(l.proc, l.now)
                   \cup {[id |-> l.code.id, expires |-> Expiry(l.now)]}]
    /\ uses' = Append(uses, UseOf(l, l.now))
    /\ UNCHANGED <<clock, sealed, validating, restarts>>

\* first_use under the mutex, for a code that is not there: the code is
\* consumed.  An Ok request is answered with the stored response, a Rejected
\* one with required_claims_error.
FirstUseYes(l) ==
    LET kept == Retained(l.proc, l.now)
    IN  /\ ~Contains(kept, l.code.id)
        /\ Len(uses) < MaxUses
        /\ locking' = locking \ {l}
        /\ cache' = [cache EXCEPT ![l.proc] =
                       kept \cup {[id |-> l.code.id, expires |-> Expiry(l.now)]}]
        /\ uses' = Append(uses, UseOf(l, l.now))
        /\ UNCHANGED <<clock, sealed, validating, restarts>>

\* The client hangs up: the server drops the handler at the await it is in.
HangUp(h) ==
    /\ h \in Busy
    /\ validating' = {v \in validating : v.handler # h}
    /\ locking' = {l \in locking : l.handler # h}
    /\ UNCHANGED <<clock, sealed, cache, restarts, uses>>

\* A process exits and starts again: its requests and its replay cache, which
\* is memory only, are gone; the codes are not, nor are its sealing keys.
Restart(p) ==
    /\ restarts[p] < MaxRestarts
    /\ restarts' = [restarts EXCEPT ![p] = @ + 1]
    /\ cache' = [cache EXCEPT ![p] = {}]
    /\ validating' = {v \in validating : v.proc # p}
    /\ locking' = {l \in locking : l.proc # p}
    /\ UNCHANGED <<clock, sealed, uses>>

Tick ==
    /\ clock < MaxClock
    /\ clock' = clock + 1
    /\ UNCHANGED <<sealed, validating, locking, cache, restarts, uses>>

Next ==
    \/ \E p \in Procs, id \in Ids : Mint(p, id)
    \/ \E h \in Handlers, p \in Procs, c \in sealed : OpenCode(h, p, c)
    \/ \E v \in validating : ValidationUnavailable(v)
    \/ \E v \in validating : ValidationDecided(v)
    \/ \E v \in validating : ValidationDecidedUncached(v)
    \/ \E l \in locking : FirstUseNo(l)
    \/ \E l \in locking : FirstUseYes(l)
    \/ \E h \in Handlers : HangUp(h)
    \/ \E p \in Procs : Restart(p)
    \/ Tick

Spec == Init /\ [][Next]_vars

-----------------------------------------------------------------------------
\* Uses i and j are of one code, on one life of one process that has a cache.
SameLife(i, j) ==
    /\ uses[i].proc = uses[j].proc
    /\ uses[i].proc \in Cached
    /\ uses[i].life = uses[j].life
    /\ uses[i].code.id = uses[j].code.id

\* Requests that race for one code cannot both win: a second yes of first_use
\* comes at least CODE_TTL after the instant the first one read, however the
\* readings of the clock and the turns at the mutex interleave, and whatever
\* other codes' requests purge from the cache meanwhile.
ReuseGap ==
    \A i, j \in DOMAIN uses :
        i < j /\ SameLife(i, j) => uses[j].locked >= uses[i].now + CodeWindow

\* How a code can be redeemed twice at all: only when its first redemption
\* came within a second of its issue, plus the time the second request spent
\* between its freshness check and its entry, plus what the issuer's clock is
\* ahead of the redeeming one.
SecondUseOnlyOfEarlyFirst ==
    \A i, j \in DOMAIN uses :
        i < j /\ SameLife(i, j) =>
            uses[i].now - uses[i].code.minted
              < TicksPerSec + (uses[j].locked - uses[j].checked)
                + (Skew[uses[i].code.by] - Skew[uses[i].proc])

\* Whatever the clock of the issuer, one process accepts one code for less
\* than CODE_TTL, the allowance for clocks that run ahead, and one second.
BoundedAcceptance ==
    \A i, j \in DOMAIN uses :
        uses[i].proc = uses[j].proc /\ uses[i].code.id = uses[j].code.id =>
            uses[j].checked - uses[i].checked < (CodeTtl + Allowance + 1) * TicksPerSec

\* An entry of the cache, the only thing that makes a later request fail with
\* "code was already used", stands for a redemption in this life of the
\* process: a refused, unavailable or abandoned request burns nothing.
BurntMeansUsed ==
    \A p \in Procs : \A e \in cache[p] :
        \E i \in DOMAIN uses :
            /\ uses[i].proc = p
            /\ uses[i].life = restarts[p]
            /\ uses[i].code.id = e.id
            /\ e.expires = Expiry(uses[i].now)

\* What the documentation says of one process: a code is redeemed once.
SingleUse ==
    \A i, j \in DOMAIN uses : i < j => ~SameLife(i, j)

-----------------------------------------------------------------------------
\* The history as the replay cache's callers see it.
Seen(u) == [life |-> <<u.proc, u.life>>, id |-> u.code.id, at |-> u.now]

Window == INSTANCE OneUseWindow
    WITH Lives   <- Procs \X (0..MaxRestarts),
         Ids     <- Ids,
         Window  <- CodeWindow,
         Guarded <- Cached \X (0..MaxRestarts),
         time    <- clock,
         spent   <- [i \in 1..Len(uses) |-> Seen(uses[i])]

\* The token endpoint's steps implement the promise of OneUseWindow: hidden
\* behind the history of spendings, the captured instants, the purges and the
\* freshness checks are only a matter of who is served when.
ImplementsOneUseWindow == Window!Spec
=============================================================================
