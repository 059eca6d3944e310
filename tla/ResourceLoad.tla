---------------------------- MODULE ResourceLoad ----------------------------
(***************************************************************************)
(* A load by one of the two providers.  The SSM provider lists the         *)
(* parameters of the upstreams, then those of the relays, page after page; *)
(* the file provider reads one file that holds all documents.  Either then *)
(* compiles one document after the other, reading the secret each refers   *)
(* to, and validates the result.  Nothing of this is a transaction:        *)
(* operators put and delete parameters, rewrite the file in place and      *)
(* rotate secrets between any two steps.  A load that fails leaves the     *)
(* last snapshot in force and is followed by another, except the first:    *)
(* its failure ends the provider's run.                                    *)
(*                                                                         *)
(* A document is reduced to what makes documents depend on each other: the *)
(* upstream a relay refers to and the source of a client secret.  A file   *)
(* that is rewritten in place is a sequence of changes, one to a document: *)
(* what a read finds then is a file that ends early or is half the old one.*)
(***************************************************************************)
EXTENDS Integers, FiniteSets, FiniteSetsExt

CONSTANTS Names,        \* names of resources, numbers, in the order of lists and files
          Sources,      \* secret sources
          SecretValues, \* what a secret may be, but for the next two
          Empty,        \* the empty secret
          LineEnds,     \* a secret of nothing but line ends
          InitialStore, \* the documents when the process starts
          InitialSecrets, \* the secrets then
          PageSize,     \* how many parameters GetParametersByPath returns at most
          MaxChanges,   \* bound: how often operators change anything
          MaxErrors,    \* bound: how often a request or the reading of the file fails
          Absent,       \* there is no such document, or no secret to be had at the source
          Broken,       \* a parameter of the wrong type or path, or a document that is
                        \* not valid in itself, or is in the file twice
          NoSecret,     \* a document refers to no source: the secret is in it, or none
                        \* is needed
          NoSnapshot    \* no load has succeeded yet

Parameters == {"upstreams", "relays"} \X Names

\* Where a secret source says its secret is: in the environment, in a file by its
\* absolute or its relative path, in SSM or Secrets Manager.
Places == {"env", "file", "relative", "aws"}

\* What a parameter, or a document of the file, may hold.
UpstreamDocuments == [secret: Sources \cup {NoSecret}]
RelayDocuments == [upstream: Names, secret: Sources \cup {NoSecret}]
Documents(kind) == IF kind = "upstreams" THEN UpstreamDocuments ELSE RelayDocuments

ASSUME LoadAssumption ==
    /\ Empty \notin SecretValues /\ LineEnds \notin SecretValues
    /\ Names \subseteq Nat \ {0} /\ IsFiniteSet(Names)
    /\ PageSize \in Nat \ {0} /\ MaxChanges \in Nat /\ MaxErrors \in Nat
    /\ InitialSecrets \in [Sources -> SecretValues]
    /\ DOMAIN InitialStore = Parameters
    /\ \A x \in Parameters : InitialStore[x] \in Documents(x[1]) \cup {Absent, Broken}

\* What is not there, or is broken, is not a document or a secret; and no source is
\* a parameter of the list.
ASSUME ApartAssumption ==
    /\ Sources \cap Parameters = {} /\ NoSecret \notin Sources
    /\ \A kind \in {"upstreams", "relays"} : {Absent, Broken} \cap Documents(kind) = {}
    /\ Absent \notin SecretValues \cup {Empty, LineEnds} /\ Empty # LineEnds

VARIABLES provider,  \* which of the two it is
          place,     \* where each source is
          store,     \* the parameters in SSM, or the documents in the file
          secrets,   \* the secrets at their sources
          at,        \* what the load is doing, "idle" between two of them, or
                     \* "exited" when run has returned
          token,     \* next_token: the last name listed; 0 is None
          documents, \* those gathered, by parameter
          compiled,  \* the resources made of them so far
          cache,     \* secret_cache
          last,      \* the snapshot of the last load that succeeded
          changes, errors,
          seen       \* history: the values each item has had since the load began

setup == <<provider, place>>
load == <<at, token, documents, compiled, cache>>
vars == <<setup, store, secrets, load, last, changes, errors, seen>>

-----------------------------------------------------------------------------
\* What resolve_source returns where the secret is `raw`.  Line ends are trimmed
\* unless it comes from AWS; a relative path needs a directory, which only the file
\* provider has.
Obtained(s, raw) ==
    CASE place[s] = "relative" /\ provider = "ssm" -> Absent
      [] place[s] # "aws" /\ raw = LineEnds        -> Empty
      [] OTHER                                     -> raw

\* Validation that takes an empty credential for one.
UsableEvenIfEmpty(secret) == secret # Absent

\* There is a secret, and the upstream or relay that has it is valid.
Usable(secret) == secret \notin {Absent, Empty}

Items == Parameters \cup Sources
Current ==
    [i \in Items |-> IF i \in Parameters THEN store[i] ELSE Obtained(i, secrets[i])]

Unseen == [i \in Items |-> {}]
Loading == at \notin {"idle", "exited"}

\* f with more of g.
With(f, g) == [x \in DOMAIN f \cup DOMAIN g |-> IF x \in DOMAIN g THEN g[x] ELSE f[x]]

TypeOK ==
    /\ provider \in {"file", "ssm"} /\ place \in [Sources -> Places]
    /\ \A x \in Parameters : store[x] \in Documents(x[1]) \cup {Absent, Broken}
    /\ secrets \in [Sources -> SecretValues \cup {Empty, LineEnds, Absent}]
    /\ at \in {"idle", "file", "upstreams", "relays", "compile", "exited"}
    /\ token \in Names \cup {0}
    /\ DOMAIN documents \subseteq Parameters
    /\ \A x \in DOMAIN documents : documents[x] \in Documents(x[1])
    /\ DOMAIN compiled \subseteq DOMAIN documents
    /\ \A x \in DOMAIN compiled :
         compiled[x] \in [document: {documents[x]},
                         secret: SecretValues \cup {LineEnds, NoSecret}]
    /\ DOMAIN cache \subseteq Sources
    /\ \A s \in DOMAIN cache : cache[s] \in SecretValues \cup {LineEnds}

Init ==
    /\ provider \in {"file", "ssm"} /\ place \in [Sources -> Places]
    /\ store = InitialStore
    /\ secrets = InitialSecrets
    /\ at = "idle" /\ token = 0
    /\ documents = << >> /\ compiled = << >> /\ cache = << >>
    /\ last = NoSnapshot
    /\ changes = 0 /\ errors = 0
    /\ seen = Unseen

-----------------------------------------------------------------------------
\* An operator changes item i, which becomes v.
Changed(i, v) ==
    /\ changes < MaxChanges /\ changes' = changes + 1
    /\ seen' = IF Loading THEN [seen EXCEPT ![i] = @ \cup {v}] ELSE seen
    /\ UNCHANGED <<setup, load, last, errors>>

\* A parameter is put or deleted, or a document in the file written or removed.
Put(x, document) ==
    /\ document # store[x]
    /\ store' = [store EXCEPT ![x] = document]
    /\ Changed(x, document)
    /\ UNCHANGED secrets

\* A secret is rotated, deleted or, for a moment, emptied.  A process's environment
\* never changes.
Rotate(s, value) ==
    /\ value # secrets[s]
    /\ place[s] # "env"
    /\ secrets' = [secrets EXCEPT ![s] = value]
    /\ Changed(s, Obtained(s, value))
    /\ UNCHANGED store

\* The first load, or the next poll.
Begin ==
    /\ at = "idle"
    /\ at' = IF provider = "file" THEN "file" ELSE "upstreams"
    /\ token' = 0
    /\ documents' = << >> /\ compiled' = << >> /\ cache' = << >>
    /\ seen' = [i \in Items |-> {Current[i]}]
    /\ UNCHANGED <<setup, store, secrets, last, changes, errors>>

\* The load ends, and what it has gathered is dropped.
End(then) ==
    /\ at' = then /\ token' = 0
    /\ documents' = << >> /\ compiled' = << >> /\ cache' = << >>
    /\ seen' = Unseen
    /\ UNCHANGED <<setup, store, secrets, changes>>

\* Mutant: any failure is returned.
AfterAnyFailure == "exited"

\* run: an error of the first load is returned, one of a later load is logged.
AfterFailure == IF last = NoSnapshot THEN "exited" ELSE "idle"

Reject == End(AfterFailure) /\ UNCHANGED <<last, errors>>

-----------------------------------------------------------------------------
\* read_to_string and parse_documents: all documents as they are at this moment.  A
\* file without any, which is one that has just been truncated, is not valid YAML for
\* them.
Written == {x \in Parameters : store[x] # Absent}
FileParses == Written # {} /\ \A x \in Written : store[x] # Broken

ReadFile ==
    /\ at = "file" /\ FileParses
    /\ documents' = [x \in Written |-> store[x]]
    /\ at' = "compile"
    /\ UNCHANGED <<setup, store, secrets, token, compiled, cache, last, changes,
                   errors, seen>>

RejectFile ==
    /\ at = "file" /\ ~FileParses
    /\ Reject

\* GetParametersByPath: the parameters of a kind after the token, in order, as
\* they are at this moment.
Listed(kind) == {x \in Parameters : x[1] = kind /\ x[2] > token /\ store[x] # Absent}
Page(kind) ==
    {x \in Listed(kind) : Cardinality({y \in Listed(kind) : y[2] < x[2]}) < PageSize}

\* A loop over paths that keeps its token from one to the next.
AfterPageKeepingToken(kind, more) ==
    /\ token' = Max({x[2] : x \in Page(kind)} \cup {token})
    /\ at' = IF more THEN kind ELSE IF kind = "upstreams" THEN "relays" ELSE "compile"

\* Another page of the same path, or the next path, or the compilation.
AfterPage(kind, more) ==
    /\ token' = IF more THEN Max({x[2] : x \in Page(kind)}) ELSE 0
    /\ at' = IF more THEN kind ELSE IF kind = "upstreams" THEN "relays" ELSE "compile"

\* A page that is taken without looking at the types and paths in it.
ReadPageUnchecked(kind) ==
    /\ at = kind
    /\ documents' = With(documents, [x \in Page(kind) |-> store[x]])
    /\ \E more \in BOOLEAN :
         /\ Page(kind) # Listed(kind) => more
         /\ Page(kind) = {} => ~more
         /\ AfterPage(kind, more)
    /\ UNCHANGED <<setup, store, secrets, compiled, cache, last, changes, errors, seen>>

\* A page is read.  A token may come with the last parameters too.
ReadPage(kind) ==
    /\ at = kind
    /\ \A x \in Page(kind) : store[x] # Broken
    /\ documents' = With(documents, [x \in Page(kind) |-> store[x]])
    /\ \E more \in BOOLEAN :
         /\ Page(kind) # Listed(kind) => more
         /\ Page(kind) = {} => ~more
         /\ AfterPage(kind, more)
    /\ UNCHANGED <<setup, store, secrets, compiled, cache, last, changes, errors, seen>>

RejectPage(kind) ==
    /\ at = kind
    /\ \E x \in Page(kind) : store[x] = Broken
    /\ Reject

-----------------------------------------------------------------------------
\* compile_resources goes through the upstreams, then through the relays, in the
\* order in which they were listed.
Before(x, y) == \/ x[1] = "upstreams" /\ y[1] = "relays"
                \/ x[1] = y[1] /\ x[2] < y[2]
IsNext(x) ==
    /\ at = "compile"
    /\ x \in DOMAIN documents \ DOMAIN compiled
    /\ \A y \in DOMAIN documents \ DOMAIN compiled : x = y \/ Before(x, y)

\* A request to AWS fails, or the reading of the file, and with it the load.
RequestFails ==
    /\ \/ at \in {"file", "upstreams", "relays"}
       \/ \E x \in Parameters :
            /\ IsNext(x) /\ documents[x].secret \in Sources \ DOMAIN cache
            /\ place[documents[x].secret] = "aws"
    /\ errors < MaxErrors /\ errors' = errors + 1
    /\ End(AfterFailure)
    /\ UNCHANGED last

Compile(x, secret) ==
    /\ compiled' = With(compiled,
                        [y \in {x} |-> [document |-> documents[x], secret |-> secret]])
    /\ UNCHANGED <<setup, store, secrets, at, token, documents, last, changes, errors, seen>>

\* A document that refers to no source.
CompileWithoutSecret(x) ==
    /\ IsNext(x) /\ documents[x].secret = NoSecret
    /\ Compile(x, NoSecret)
    /\ UNCHANGED cache

\* resolve_secret finds the source in this load's cache.
CompileCached(x) ==
    LET s == documents[x].secret IN
    /\ IsNext(x) /\ s \in DOMAIN cache
    /\ Compile(x, cache[s])
    /\ UNCHANGED cache

\* resolve_secret that forgets what it was told.
CompileReadingUncached(x) ==
    LET s == documents[x].secret IN
    /\ IsNext(x) /\ s \in Sources \ DOMAIN cache
    /\ Usable(Current[s])
    /\ Compile(x, Current[s])
    /\ UNCHANGED cache

\* resolve_secret asks the source, and the resource is valid with what it says.
CompileReading(x) ==
    LET s == documents[x].secret IN
    /\ IsNext(x) /\ s \in Sources \ DOMAIN cache
    /\ Usable(Current[s])
    /\ Compile(x, Current[s])
    /\ cache' = With(cache, [t \in {s} |-> Current[t]])

\* There is no secret at the source, or an empty one, which validation refuses.
RejectSecret(x) ==
    LET s == documents[x].secret IN
    /\ IsNext(x) /\ s \in Sources \ DOMAIN cache
    /\ ~Usable(Current[s])
    /\ Reject

\* ProviderSnapshot::validate: each relay's upstream is there.
Closed(snapshot) ==
    \A x \in DOMAIN snapshot :
        x[1] = "relays" => <<"upstreams", snapshot[x].document.upstream>> \in DOMAIN snapshot

IsCompiled == at = "compile" /\ DOMAIN compiled = DOMAIN documents

\* The load returns its snapshot.
Succeed ==
    /\ IsCompiled /\ Closed(compiled)
    /\ last' = compiled
    /\ End("idle")
    /\ UNCHANGED errors

RejectGraph ==
    /\ IsCompiled /\ ~Closed(compiled)
    /\ Reject

-----------------------------------------------------------------------------
Operate ==
    \/ \E x \in Parameters : \E d \in Documents(x[1]) \cup {Absent, Broken} : Put(x, d)
    \/ \E s \in Sources, v \in SecretValues \cup {Empty, LineEnds, Absent} : Rotate(s, v)

Load ==
    \/ Begin
    \/ ReadFile
    \/ RejectFile
    \/ \E kind \in {"upstreams", "relays"} : ReadPage(kind) \/ RejectPage(kind)
    \/ \E x \in Parameters : \/ CompileWithoutSecret(x)
                             \/ CompileCached(x)
                             \/ CompileReading(x)
                             \/ RejectSecret(x)
    \/ Succeed
    \/ RejectGraph

\* run has returned: nothing loads any more.
Exited == at = "exited" /\ UNCHANGED vars

Next == Operate \/ Load \/ RequestFails \/ Exited

\* A run that goes on polls for ever, and its requests are answered sometime.
Spec == Init /\ [][Next]_vars /\ WF_vars(Load)

-----------------------------------------------------------------------------
\* What a choice of a value for each item makes, and whether it is acceptable.
Present(c) == {x \in Parameters : c[x] # Absent}
SnapshotOf(c) ==
    [x \in Present(c) |->
        [document |-> c[x],
         secret   |-> IF c[x].secret = NoSecret THEN NoSecret ELSE c[c[x].secret]]]
Acceptable(c) ==
    /\ \A x \in Present(c) : /\ c[x] # Broken
                             /\ c[x].secret = NoSecret \/ c[c[x].secret] \notin {Absent, Empty}
    /\ Closed(SnapshotOf(c))

Regular == INSTANCE RegularLoad
    WITH Values <- (UNION {Documents(kind) : kind \in {"upstreams", "relays"}})
                     \cup {Absent, Broken, Empty, LineEnds} \cup SecretValues,
         Compiled <- SnapshotOf, Nothing <- NoSnapshot,
         current <- Current, loading <- Loading, result <- last

\* A snapshot is made of values that were there while it was loaded, one for each
\* document and one for each secret however many resources share it; it skips
\* nothing that was there throughout; no secret in it is empty, as that of a file
\* that is being rewritten is for a moment; and its relays' upstreams exist.
ImplementsRegularLoad == Regular!Spec

\* Once a complete and valid graph stays, in a file that is not empty, it is loaded,
\* whatever mixtures were observed and whatever loads failed before, unless it came
\* too late for the first: a run that has had no snapshot ends when its load fails,
\* and one that has had one never ends.
AdoptsWhatStays ==
    LET Good == Acceptable(Current) /\ (provider = "file" => Written # {}) IN
    <>[]Good => \/ <>[](Good /\ last = SnapshotOf(Current))
                \/ [](last = NoSnapshot) /\ <>(at = "exited")
=============================================================================
