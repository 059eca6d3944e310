----------------------------- MODULE Providers ------------------------------
(***************************************************************************)
(* Configuration of a native server: each provider (file, SSM) is a task   *)
(* that polls its source and sends whole snapshots into a watch channel;   *)
(* the main task waits for the first snapshot of each, puts their merge    *)
(* into the registry and starts to serve; from then on an updater looks at *)
(* the channels every 100 ms and installs a new merge if any was sent to.  *)
(*                                                                         *)
(* A watch channel keeps the latest value only, and whether this receiver  *)
(* has seen it.  Marking a value as seen and reading the values to merge   *)
(* are different operations on it, one provider after the other, and sends *)
(* may come between any two.                                               *)
(*                                                                         *)
(* A load is one step here; what it can mix up if its source changes while *)
(* it reads page after page and secret after secret is left out.           *)
(***************************************************************************)
EXTENDS ProviderSnapshot

VARIABLES source,    \* the present version of each source: an index of Contents[p]
          task,      \* each provider's task: where it is, and the version it has loaded
          channel,   \* each watch channel: latest version (0 is the default), unseen or not
          main,      \* the main task, then the updater: where it is, the next provider
                     \* of the loop it is in, and whether that loop found a change
          merged,    \* the merge under construction
          got,       \* history: the versions it is made of
          registry,  \* Registry.resources
          installed  \* history: the versions the registry was merged from

vars == <<source, task, channel, main, merged, got, registry, installed>>

-----------------------------------------------------------------------------
Unread == [p \in 1..N |-> 0]

\* What lies in p's channel.
Snapshot(p) == Held(p, channel[p].value)

Serving == main.at \in {"poll", "collect"}

TypeOK ==
    /\ source \in [1..N -> Nat]
    /\ task \in [1..N -> [at: {"load", "send", "stopped"}, version: Nat]]
    /\ \A p \in 1..N : task[p].version \in Valid(p) \cup {0}
    /\ channel \in [1..N -> [value: Nat, unseen: BOOLEAN]]
    /\ \A p \in 1..N : channel[p].value \in Valid(p) \cup {0}
    /\ main \in [at: {"await", "start", "poll", "collect", "exited"}, next: 1..(N + 1),
                 changed: BOOLEAN]
    /\ got \in [1..N -> Nat]
    /\ installed \in [1..N -> Nat]

Init ==
    /\ source = [p \in 1..N |-> 1]
    /\ task = [p \in 1..N |-> [at |-> "load", version |-> 0]]
    /\ channel = [p \in 1..N |-> [value |-> 0, unseen |-> FALSE]]
    /\ main = [at |-> "await", next |-> 1, changed |-> FALSE]
    /\ merged = Empty /\ got = Unread
    /\ registry = Empty /\ installed = Unread

-----------------------------------------------------------------------------
\* An operator writes the next version of p's source.
Write(p) ==
    /\ source[p] < Len(Contents[p])
    /\ source' = [source EXCEPT ![p] = @ + 1]
    /\ UNCHANGED <<task, channel, main, merged, got, registry, installed>>

\* A load that does not validate what it read.
LoadUnchecked(p) ==
    /\ task[p].at = "load"
    /\ task' = [task EXCEPT ![p] = [at |-> "send", version |-> source[p]]]
    /\ UNCHANGED <<source, channel, main, merged, got, registry, installed>>

\* A provider's load succeeds.
Load(p) ==
    /\ task[p].at = "load"
    /\ source[p] \in Valid(p)
    /\ task' = [task EXCEPT ![p] = [at |-> "send", version |-> source[p]]]
    /\ UNCHANGED <<source, channel, main, merged, got, registry, installed>>

\* A provider that gives up whenever a load fails.
LoadFailsAlways(p) ==
    /\ task[p].at = "load"
    /\ task' = [task EXCEPT ![p].at = "stopped"]
    /\ UNCHANGED <<source, channel, main, merged, got, registry, installed>>

\* A load fails, for what the source holds or for an I/O error: the first one
\* ends the task, any other leaves the last good snapshot where it is until
\* the next poll.
LoadFails(p) ==
    /\ task[p].at = "load"
    /\ task' = IF channel[p].value = 0 THEN [task EXCEPT ![p].at = "stopped"] ELSE task
    /\ UNCHANGED <<source, channel, main, merged, got, registry, installed>>

\* watch::Sender::send, after every successful load, whether or not anything
\* is different from the last one.
Send(p) ==
    /\ task[p].at = "send"
    /\ channel' = [channel EXCEPT ![p] = [value |-> task[p].version, unseen |-> TRUE]]
    /\ task' = [task EXCEPT ![p].at = "load"]
    /\ UNCHANGED <<source, main, merged, got, registry, installed>>

-----------------------------------------------------------------------------
\* The main task goes on to a loop over all providers.
Begin(loop) == [at |-> loop, next |-> 1, changed |-> FALSE]

\* await_initial_snapshots: rx.changed() returns once there is an unseen value,
\* and marks it as seen.
AwaitInitial(p) ==
    /\ main.at = "await" /\ p = main.next
    /\ channel[p].unseen
    /\ channel' = [channel EXCEPT ![p].unseen = FALSE]
    /\ main' = IF p < N THEN [main EXCEPT !.next = p + 1] ELSE Begin("start")
    /\ UNCHANGED <<source, task, merged, got, registry, installed>>

\* A wait that is not told of the end of the sender.
AwaitFailsUnnoticed(p) ==
    /\ main.at = "await" /\ p = main.next
    /\ ~channel[p].unseen /\ task[p].at = "stopped"
    /\ UNCHANGED vars

\* rx.changed() fails if the sender is gone and nothing is unseen.
AwaitFails(p) ==
    /\ main.at = "await" /\ p = main.next
    /\ ~channel[p].unseen /\ task[p].at = "stopped"
    /\ main' = [main EXCEPT !.at = "exited"]
    /\ UNCHANGED <<source, task, channel, merged, got, registry, installed>>

\* replace_registry reads the providers' values one by one, without marking
\* them, and merge_ordered merges them in that order.
Collect(p) ==
    /\ main.at \in {"start", "collect"} /\ p = main.next
    /\ merged' = MergeNext(merged, Snapshot(p))
    /\ got' = [got EXCEPT ![p] = channel[p].value]
    /\ main' = [main EXCEPT !.next = p + 1]
    /\ UNCHANGED <<source, task, channel, registry, installed>>

\* A replacement that marks everything as seen once it is done.
InstallMarksSeen ==
    /\ main.at \in {"start", "collect"} /\ main.next = N + 1
    /\ registry' = merged /\ installed' = got
    /\ merged' = Empty /\ got' = Unread
    /\ main' = Begin("poll")
    /\ channel' = [p \in 1..N |-> [channel[p] EXCEPT !.unseen = FALSE]]
    /\ UNCHANGED <<source, task>>

\* Registry::replace: the merge is stored.
Install ==
    /\ main.at \in {"start", "collect"} /\ main.next = N + 1
    /\ registry' = merged /\ installed' = got
    /\ merged' = Empty /\ got' = Unread
    /\ main' = Begin("poll")
    /\ UNCHANGED <<source, task, channel>>

\* The updater looks at one channel: has_changed, then borrow_and_update.
Poll(p) ==
    /\ main.at = "poll" /\ p = main.next
    /\ channel' = [channel EXCEPT ![p].unseen = FALSE]
    /\ main' = [main EXCEPT !.next = p + 1, !.changed = @ \/ channel[p].unseen]
    /\ UNCHANGED <<source, task, merged, got, registry, installed>>

\* The end of the updater's loop over the channels: a new merge if there was a
\* change, then 100 ms of sleep.
Polled ==
    /\ main.at = "poll" /\ main.next = N + 1
    /\ main' = Begin(IF main.changed THEN "collect" ELSE "poll")
    /\ UNCHANGED <<source, task, channel, merged, got, registry, installed>>

Provide(p) == Load(p) \/ LoadFails(p) \/ Send(p)

Main == \/ \E p \in 1..N : AwaitInitial(p) \/ AwaitFails(p) \/ Collect(p) \/ Poll(p)
        \/ Install
        \/ Polled

Next == \/ \E p \in 1..N : Write(p)
        \/ \E p \in 1..N : Provide(p)
        \/ Main

\* The runtime runs every task that is ready, the timers of the polls and of
\* the updater go off, and a source that stays valid is loaded at some poll: a
\* load that fails for another reason is tried again.  Operators need not write
\* anything.
Fairness == WF_vars(Main) /\ \A p \in 1..N : WF_vars(Provide(p))

Spec == Init /\ [][Next]_vars /\ Fairness

-----------------------------------------------------------------------------
\* Nothing sent is forgotten: what the registry lacks is still marked unseen,
\* or the updater has noticed a change and has not read this channel yet, or
\* it has read it and is about to install it.
NoLostUpdate ==
    \A p \in 1..N :
        Serving /\ installed[p] # channel[p].value =>
            \/ channel[p].unseen
            \/ main.at = "poll" /\ main.changed
            \/ main.at = "collect" /\ (p >= main.next \/ got[p] = channel[p].value)

\* Every relay in force has an upstream, although each snapshot was validated
\* on its own and another provider's resources hide some of it.
RelaysClosed == Closed(registry)

\* The upstream a relay is bound to in the registry is defined by the relay's
\* own provider or by one before it, never by one after it: a provider can
\* only be overruled by those with precedence over it.
NoLaterUpstream ==
    \A r \in DOMAIN registry.relays :
        \E p \in 1..N :
            /\ r \in DOMAIN Contents[p][installed[p]].relays
            /\ \A q \in 1..(p - 1) : r \notin DOMAIN Contents[q][installed[q]].relays
            /\ \E q \in 1..p :
                 LET u == registry.relays[r]
                     mine == Contents[q][installed[q]].upstreams
                 IN  u \in DOMAIN mine /\ registry.upstreams[u] = mine[u]

Publication == INSTANCE ConfigPublication
    WITH written <- source, inforce <- installed, config <- registry,
         Good <- [p \in 1..N |-> Valid(p)]

\* Torn reads of the channels notwithstanding, what is in force is always the
\* merge of valid versions of all providers, and none is ever replaced by an
\* older one.
ImplementsConfigPublication == Publication!Spec

\* A valid version that stays is in force eventually, even if invalid ones came
\* before it and other providers' sources stay broken.
CatchesUp ==
    \A p \in 1..N : \A v \in Valid(p) :
        Serving /\ source[p] = v ~> installed[p] = v \/ source[p] # v

\* Start-up ends: the server serves, or it gives up because a provider failed;
\* it does not wait for a provider that is gone.
StartsOrExits == <>(Serving \/ main.at = "exited")
=============================================================================
