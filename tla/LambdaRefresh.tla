--------------------------- MODULE LambdaRefresh ----------------------------
(***************************************************************************)
(* Configuration on Lambda.  The process is frozen between invocations, so *)
(* nothing polls: once started, each invocation first compares the wall    *)
(* clock with the last attempt to refresh, and loads all providers, one    *)
(* after the other, if that was a TTL ago.  lambda_http::run hands over    *)
(* one invocation at a time, so the mutex around the refresh has no second *)
(* taker.                                                                  *)
(*                                                                         *)
(* The wall clock may be put back and forth, also while the process is     *)
(* frozen; a load may fail, and takes as long as it likes.                 *)
(***************************************************************************)
EXTENDS ProviderSnapshot

CONSTANTS TTL,      \* OAUTHRELAY_LAMBDA_CONFIG_TTL, in ticks
          Steps,    \* by how much the wall clock may be put forth or back at a time
          Horizon,  \* bound: how long time passes
          MaxSlack  \* bound: how far the clock is put back between two refreshes

ASSUME RefreshAssumption ==
    /\ TTL \in Nat \ {0}
    /\ Steps \subseteq Int
    /\ Horizon \in Nat /\ MaxSlack \in Nat

VARIABLES writes,      \* history: when each version of each source was written
          now,         \* real time since the process started
          wall,        \* SystemTime::now()
          service,     \* what the process is doing, and which provider is loaded next
          lastAttempt, \* LambdaRefreshState.last_attempt
          snapshots,   \* the version of each LambdaProvider.snapshot; 0 before the first
          registry,    \* Registry.resources
          installed,   \* history: the versions the registry was merged from
          failed,      \* history: the providers whose load failed in the last attempt
          arrived,     \* history: when the present invocation, if any, came
          slack        \* history: how long the start took if there was no refresh yet,
                       \* and how far the clock was put back since the last attempt

vars == <<writes, now, wall, service, lastAttempt, snapshots, registry, installed,
          failed, arrived, slack>>

-----------------------------------------------------------------------------
Source(p) == Len(writes[p])

Unread == [p \in 1..N |-> 0]

TypeOK ==
    /\ writes \in [1..N -> Seq(Nat)]
    /\ now \in Nat /\ wall \in Int /\ lastAttempt \in Int
    /\ service \in [at: {"start", "replaced", "idle", "load", "serve"}, next: 1..(N + 1)]
    /\ snapshots \in [1..N -> Nat] /\ installed \in [1..N -> Nat]
    /\ \A p \in 1..N : snapshots[p] \in Valid(p) \cup {0}
    /\ failed \subseteq 1..N
    /\ arrived \in Nat /\ slack \in Nat

Init ==
    /\ writes = [p \in 1..N |-> <<0>>]
    /\ now = 0 /\ wall = 0 /\ lastAttempt = 0
    /\ service = [at |-> "start", next |-> 1]
    /\ snapshots = Unread /\ installed = Unread
    /\ registry = Empty
    /\ failed = {}
    /\ arrived = 0 /\ slack = 0

At(place) == [at |-> place, next |-> 1]

-----------------------------------------------------------------------------
\* An operator writes the next version of p's source.
Write(p) ==
    /\ Source(p) < Len(Contents[p])
    /\ writes' = [writes EXCEPT ![p] = Append(@, now)]
    /\ UNCHANGED <<now, wall, service, lastAttempt, snapshots, registry, installed,
                   failed, arrived, slack>>

\* Time passes, for the wall clock too.
Tick ==
    /\ now < Horizon
    /\ now' = now + 1 /\ wall' = wall + 1
    /\ UNCHANGED <<writes, service, lastAttempt, snapshots, registry, installed,
                   failed, arrived, slack>>

\* The wall clock is put forth or back.
PutClock(d) ==
    /\ d \in Steps /\ wall + d \in 0..Horizon
    /\ wall' = wall + d
    /\ slack' = IF d < 0 THEN slack - d ELSE slack
    /\ slack' <= MaxSlack
    /\ UNCHANGED <<writes, now, service, lastAttempt, snapshots, registry, installed,
                   failed, arrived>>

-----------------------------------------------------------------------------
\* Cold start: the providers run as tasks until the refresher aborts them, and
\* may send more than once.  A provider whose first load fails ends the process.
InitialLoad(p) ==
    /\ service.at \in {"start", "replaced"}
    /\ Source(p) \in Valid(p)
    /\ snapshots' = [snapshots EXCEPT ![p] = Source(p)]
    /\ UNCHANGED <<writes, now, wall, service, lastAttempt, registry, installed,
                   failed, arrived, slack>>

\* await_initial_snapshots has returned; replace_registry, in one step here (in
\* Providers it reads one channel after the other).
FirstInstall ==
    /\ service.at = "start"
    /\ \A p \in 1..N : snapshots[p] # 0
    /\ registry' = MergeOrdered(snapshots) /\ installed' = snapshots
    /\ service' = At("replaced")
    /\ UNCHANGED <<writes, now, wall, lastAttempt, snapshots, failed, arrived, slack>>

\* LambdaConfigRefresher::new: what lies in the channels now need not be what
\* was installed, and the first attempt counts from here.
NewRefresher ==
    /\ service.at = "replaced"
    /\ lastAttempt' = wall /\ slack' = now
    /\ service' = At("idle")
    /\ UNCHANGED <<writes, now, wall, snapshots, registry, installed, failed, arrived>>

-----------------------------------------------------------------------------
\* Freshness off by one.
IsFreshForLonger == lastAttempt <= wall /\ wall - lastAttempt <= TTL

\* A last attempt that appears to be in the future is no reason to wait for it.
IsFresh == lastAttempt <= wall /\ wall - lastAttempt < TTL

\* An invocation that finds the configuration fresh goes on to its handler.
InvokedFresh ==
    /\ service.at = "idle" /\ IsFresh
    /\ arrived' = now
    /\ service' = At("serve")
    /\ UNCHANGED <<writes, now, wall, lastAttempt, snapshots, registry, installed,
                   failed, slack>>

\* An invocation that finds it stale notes the attempt before it loads anything.
InvokedStale ==
    /\ service.at = "idle" /\ ~IsFresh
    /\ arrived' = now
    /\ lastAttempt' = wall /\ slack' = 0 /\ failed' = {}
    /\ service' = At("load")
    /\ UNCHANGED <<writes, now, wall, snapshots, registry, installed>>

\* A load that does not validate what it read.
LoadUnchecked(p) ==
    /\ service.at = "load" /\ p = service.next
    /\ snapshots' = [snapshots EXCEPT ![p] = Source(p)]
    /\ service' = [service EXCEPT !.next = p + 1]
    /\ UNCHANGED <<writes, now, wall, lastAttempt, registry, installed, failed,
                   arrived, slack>>

\* A provider is loaded.
LoadSucceeds(p) ==
    /\ service.at = "load" /\ p = service.next
    /\ Source(p) \in Valid(p)
    /\ snapshots' = [snapshots EXCEPT ![p] = Source(p)]
    /\ service' = [service EXCEPT !.next = p + 1]
    /\ UNCHANGED <<writes, now, wall, lastAttempt, registry, installed, failed,
                   arrived, slack>>

\* A failed load that leaves nothing behind.
LoadFailsForgetting(p) ==
    /\ service.at = "load" /\ p = service.next
    /\ snapshots' = [snapshots EXCEPT ![p] = 0]
    /\ failed' = failed \cup {p}
    /\ service' = [service EXCEPT !.next = p + 1]
    /\ UNCHANGED <<writes, now, wall, lastAttempt, registry, installed, arrived, slack>>

\* A failed load that ends the refresh.
LoadFailsForAll(p) ==
    /\ service.at = "load" /\ p = service.next
    /\ failed' = failed \cup {p}
    /\ service' = [service EXCEPT !.next = N + 1]
    /\ UNCHANGED <<writes, now, wall, lastAttempt, snapshots, registry, installed,
                   arrived, slack>>

\* A load fails, for what the source holds or for an I/O error; the provider's
\* last good snapshot stays, and the next provider is loaded.
LoadFails(p) ==
    /\ service.at = "load" /\ p = service.next
    /\ failed' = failed \cup {p}
    /\ service' = [service EXCEPT !.next = p + 1]
    /\ UNCHANGED <<writes, now, wall, lastAttempt, snapshots, registry, installed,
                   arrived, slack>>

\* After the last load: merge_ordered and Registry::replace.
Install ==
    /\ service.at = "load" /\ service.next = N + 1
    /\ registry' = MergeOrdered(snapshots) /\ installed' = snapshots
    /\ service' = At("serve")
    /\ UNCHANGED <<writes, now, wall, lastAttempt, snapshots, failed, arrived, slack>>

\* The handler answers.
Respond ==
    /\ service.at = "serve"
    /\ service' = At("idle") /\ arrived' = 0
    /\ UNCHANGED <<writes, now, wall, lastAttempt, snapshots, registry, installed,
                   failed, slack>>

Next ==
    \/ \E p \in 1..N : Write(p) \/ InitialLoad(p) \/ LoadSucceeds(p) \/ LoadFails(p)
    \/ Tick
    \/ \E d \in Steps : PutClock(d)
    \/ FirstInstall \/ NewRefresher
    \/ InvokedFresh \/ InvokedStale \/ Install \/ Respond

Spec == Init /\ [][Next]_vars

-----------------------------------------------------------------------------
\* What an invocation is served with misses nothing, of any provider whose last
\* load did not fail, that had been written for a TTL when it came; except that
\* the first TTL runs from the end of the start, and that a clock put back
\* prolongs it by as much.  One provider's failure excuses no other provider.
BoundedStaleness ==
    service.at = "serve" =>
        \A p \in (1..N) \ failed : \A v \in (installed[p] + 1)..Source(p) :
            arrived - writes[p][v] < TTL + slack

Publication == INSTANCE ConfigPublication
    WITH written <- [p \in 1..N |-> Source(p)], inforce <- installed, config <- registry,
         Good <- [p \in 1..N |-> Valid(p)]

\* On Lambda too, what is in force is always the merge of valid versions of all
\* providers, and none is ever replaced by an older one, whichever loads fail.
ImplementsConfigPublication == Publication!Spec
=============================================================================
