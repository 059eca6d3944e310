------------------------ MODULE ConfigurationProofs -------------------------
(***************************************************************************)
(* What configuration a provider arrives at, and what its redirect         *)
(* policies let happen; the state of ResourceLoad and that of              *)
(* RedirectPolicy have nothing in common.                                  *)
(*                                                                         *)
(* For every number of resources, every page size and however often        *)
(* operators change things, a load that succeeds has taken for each        *)
(* document and each secret one value which that had during the load.      *)
(*                                                                         *)
(* For every set of hosts, ports, spellings and entries, what validation   *)
(* admits into a policy is safe to redirect to, and redirects and CORS     *)
(* agree about it, but for the loopback entries that never match.  Each    *)
(* property is a statement about any valid policy, proved matcher by       *)
(* matcher, and a valid policy is always in force.                         *)
(***************************************************************************)
EXTENDS ResourceLoad, RedirectPolicy, FunctionTheorems, FiniteSetTheorems,
        WellFoundedInduction, TLAPS

Kinds == {"upstreams", "relays"}
Values == (UNION {Documents(kind) : kind \in Kinds})
            \cup {Absent, Broken, Empty, LineEnds} \cup SecretValues

\* The listing has come past x.
Passed(x) == \/ at = "compile"
             \/ at = "relays" /\ x[1] = "upstreams"
             \/ at = x[1] /\ x[2] <= token

\* What there is now has been seen by now.
Watched ==
    /\ DOMAIN store = Parameters
    /\ seen \in [Items -> SUBSET Values]
    /\ IF Loading THEN \A i \in Items : Current[i] \in seen[i] ELSE seen = Unseen

\* A document was there when it was read.
Gathered == \A x \in DOMAIN documents : documents[x] \in seen[x]

\* What the listing left out was not there at some moment.
NothingSkipped ==
    \A x \in Parameters : Passed(x) => x \in DOMAIN documents \/ Absent \in seen[x]

\* A secret was what the cache remembers.
SecretsRead == \A s \in DOMAIN cache : cache[s] \in seen[s]

\* A resource is made of its document and of the secret that all the resources
\* that refer to it get.
SecretFor(x) ==
    IF documents[x].secret = NoSecret THEN NoSecret ELSE cache[documents[x].secret]

CompiledSoFar ==
    /\ compiled = [x \in DOMAIN compiled |->
                        [document |-> documents[x], secret |-> SecretFor(x)]]
    /\ \A x \in DOMAIN compiled : documents[x].secret \in DOMAIN cache \cup {NoSecret}
    /\ at # "compile" => DOMAIN compiled = {}
    /\ ~Loading => DOMAIN documents = {} /\ DOMAIN cache = {}

IInv == TypeOK /\ Watched /\ Gathered /\ NothingSkipped /\ SecretsRead /\ CompiledSoFar

-----------------------------------------------------------------------------
LEMMA NamesArePositive == Names \subseteq Nat /\ 0 \notin Names
BY LoadAssumption

LEMMA Kind ==
    ASSUME NEW x \in Parameters
    PROVE  x[1] \in Kinds /\ x[2] \in Names /\ x[2] \in Nat /\ ~(x[2] <= 0)
<1>1. x[1] \in Kinds /\ x[2] \in Names
  BY DEF Parameters, Kinds
<1>2. \A n \in Nat : n # 0 => ~(n <= 0)
  OBVIOUS
<1> QED
  BY <1>1, <1>2, NamesArePositive

\* What a document refers to.
LEMMA DocumentShape ==
    ASSUME NEW kind \in Kinds, NEW d \in Documents(kind)
    PROVE  /\ d \notin {Absent, Broken} /\ d.secret \in Sources \cup {NoSecret}
           /\ d \in Values
<1>1. d \notin {Absent, Broken} /\ d \in Values
  BY ApartAssumption DEF Values, Kinds
<1>2. d.secret \in Sources \cup {NoSecret}
  BY DEF Documents, UpstreamDocuments, RelayDocuments
<1> QED
  BY <1>1, <1>2

\* What resolve_source returns is among what a secret may be.
LEMMA ObtainedIsSecret ==
    ASSUME NEW s, NEW raw \in SecretValues \cup {Empty, LineEnds, Absent}
    PROVE  Obtained(s, raw) \in SecretValues \cup {Empty, LineEnds, Absent}
BY DEF Obtained

LEMMA CurrentOf ==
    /\ \A x \in Parameters : Current[x] = store[x]
    /\ \A s \in Sources : Current[s] = Obtained(s, secrets[s])
    /\ Current = [i \in Items |-> Current[i]]
BY ApartAssumption DEF Current, Items

LEMMA CurrentType == TypeOK => Current \in [Items -> Values]
<1> SUFFICES ASSUME TypeOK, NEW i \in Items PROVE Current[i] \in Values
  BY CurrentOf
<1>1. CASE i \in Parameters
  <2>1. store[i] \in Documents(i[1]) \cup {Absent, Broken}
    BY <1>1 DEF TypeOK
  <2> QED
    BY <1>1, <2>1, CurrentOf, Kind, DocumentShape DEF Values
<1>2. CASE i \in Sources
  <2>1. secrets[i] \in SecretValues \cup {Empty, LineEnds, Absent}
    BY <1>2 DEF TypeOK
  <2> QED
    BY <1>2, <2>1, CurrentOf, ObtainedIsSecret DEF Values
<1> QED
  BY <1>1, <1>2 DEF Items

\* One item changes.
LEMMA CurrentTo ==
    ASSUME NEW i, NEW v,
           \A x \in Parameters : store'[x] = IF x = i THEN v ELSE store[x],
           \A s \in Sources :
               Obtained(s, secrets[s])' = IF s = i THEN v ELSE Obtained(s, secrets[s])
    PROVE  Current' = [Current EXCEPT ![i] = v]
<1>1. Current' = [j \in Items |-> IF j \in Parameters THEN store'[j]
                                                     ELSE Obtained(j, secrets[j])']
  BY DEF Current, Parameters, Items, Obtained
<1>2. \A j \in Items : Current'[j] = IF j = i THEN v ELSE Current[j]
  BY <1>1, CurrentOf DEF Items
<1> QED
  BY <1>1, <1>2, CurrentOf

LEMMA CurrentStays == UNCHANGED <<setup, store, secrets>> => UNCHANGED Current
BY DEF Current, Obtained, setup

LEMMA WithOf ==
    ASSUME NEW f, NEW g
    PROVE  /\ DOMAIN With(f, g) = DOMAIN f \cup DOMAIN g
           /\ \A x \in DOMAIN g : With(f, g)[x] = g[x]
           /\ \A x \in DOMAIN f \ DOMAIN g : With(f, g)[x] = f[x]
           /\ With(f, g) = [x \in DOMAIN f \cup DOMAIN g |-> With(f, g)[x]]
BY DEF With

LEMMA NothingInNothing == DOMAIN << >> = {}
OBVIOUS

-----------------------------------------------------------------------------
\* What an operator changes: item i becomes v.
LEMMA ChangedItem ==
    ASSUME IInv, NEW i \in Items, NEW v \in Values, Changed(i, v),
           Current' = [Current EXCEPT ![i] = v], DOMAIN store' = Parameters, TypeOK'
    PROVE  IInv'
<1>1. /\ Loading' = Loading /\ UNCHANGED load
  BY DEF Changed, load, Loading
<1>2. /\ seen' \in [Items -> SUBSET Values]
      /\ \A j \in Items : seen[j] \subseteq seen'[j]
      /\ ~Loading => seen' = seen
      /\ Loading => v \in seen'[i]
  BY DEF Changed, IInv, Watched
<1>3. Watched'
  <2>1. ASSUME Loading, NEW j \in Items PROVE Current'[j] \in seen'[j]
    <3>1. Current[j] \in seen[j]
      BY <2>1 DEF IInv, Watched
    <3> QED
      BY <3>1, <2>1, <1>2, CurrentOf
  <2> QED
    BY <2>1, <1>1, <1>2 DEF IInv, Watched, Unseen, Items, Parameters
<1>4. Gathered' /\ NothingSkipped' /\ SecretsRead'
  <2>1. DOMAIN documents \subseteq Items /\ DOMAIN cache \subseteq Items /\ Parameters \subseteq Items
    BY DEF IInv, TypeOK, Items
  <2> QED
    BY <1>1, <1>2, <2>1
       DEF IInv, Gathered, NothingSkipped, SecretsRead, Passed, load, Parameters
<1>5. CompiledSoFar'
  BY <1>1 DEF IInv, CompiledSoFar, SecretFor, load, Loading
<1> QED
  BY <1>3, <1>4, <1>5 DEF IInv

LEMMA PutOK ==
    ASSUME IInv, NEW x \in Parameters, NEW d \in Documents(x[1]) \cup {Absent, Broken},
           Put(x, d)
    PROVE  IInv' /\ x \in Items /\ d \in Values /\ Changed(x, d) /\ Current' = [Current EXCEPT ![x] = d]
<1>1. x \in Items /\ d \in Values
  BY Kind, DocumentShape DEF Items, Values
<1>2. Changed(x, d) /\ UNCHANGED <<setup, secrets>> /\ store' = [store EXCEPT ![x] = d]
  BY DEF Put, Changed
<1>3. DOMAIN store' = Parameters
  BY <1>2 DEF IInv, Watched
<1>4. Current' = [Current EXCEPT ![x] = d]
  <2>1. \A y \in Parameters : store'[y] = IF y = x THEN d ELSE store[y]
    BY <1>2 DEF IInv, Watched
  <2>2. \A s \in Sources : Obtained(s, secrets[s])' = Obtained(s, secrets[s])
    BY <1>2 DEF Obtained, setup
  <2>3. \A s \in Sources : s # x
    BY ApartAssumption
  <2>4. /\ \A y \in Parameters : store'[y] = IF y = x THEN d ELSE store[y]
        /\ \A s \in Sources :
             Obtained(s, secrets[s])' = IF s = x THEN d ELSE Obtained(s, secrets[s])
    BY <2>1, <2>2, <2>3
  <2> QED
    BY <2>4, CurrentTo
<1>5. TypeOK'
  BY <1>2, <1>3 DEF IInv, Watched, TypeOK, Changed, setup, load, Parameters, Documents,
                    UpstreamDocuments, RelayDocuments
<1> QED
  BY <1>1, <1>2, <1>3, <1>4, <1>5, ChangedItem

LEMMA RotateOK ==
    ASSUME IInv, NEW s \in Sources, NEW v \in SecretValues \cup {Empty, LineEnds, Absent},
           Rotate(s, v)
    PROVE  /\ IInv' /\ s \in Items /\ Obtained(s, v) \in Values
           /\ Changed(s, Obtained(s, v)) /\ Current' = [Current EXCEPT ![s] = Obtained(s, v)]
<1>1. s \in Items /\ Obtained(s, v) \in Values
  BY ObtainedIsSecret DEF Items, Values
<1>2. /\ Changed(s, Obtained(s, v)) /\ UNCHANGED <<setup, store>>
      /\ secrets' = [secrets EXCEPT ![s] = v]
  BY DEF Rotate, Changed
<1>3. DOMAIN store' = Parameters
  BY <1>2 DEF IInv, Watched
<1>4. Current' = [Current EXCEPT ![s] = Obtained(s, v)]
  <2>1. \A t \in Sources : secrets'[t] = IF t = s THEN v ELSE secrets[t]
    BY <1>2 DEF IInv, TypeOK
  <2>2. \A t \in Sources :
           Obtained(t, secrets[t])' = IF t = s THEN Obtained(s, v) ELSE Obtained(t, secrets[t])
    BY <1>2, <2>1 DEF Obtained, setup
  <2>3. \A x \in Parameters : store'[x] = IF x = s THEN Obtained(s, v) ELSE store[x]
    BY <1>2, ApartAssumption
  <2> QED
    BY <2>2, <2>3, CurrentTo
<1>5. TypeOK'
  BY <1>2, <1>3 DEF IInv, Watched, TypeOK, Changed, setup, load
<1> QED
  BY <1>1, <1>2, <1>3, <1>4, <1>5, ChangedItem

-----------------------------------------------------------------------------
\* Of a finite set of numbers that is not empty, one is the largest.
LEMMA Largest ==
    ASSUME NEW S \in SUBSET Nat, S # {}, IsFiniteSet(S)
    PROVE  Max(S) \in S /\ \A y \in S : y <= Max(S)
<1> DEFINE Above(x) == {y \in S : y > x}
<1>1. \A x \in S : IsFiniteSet(Above(x)) /\ Cardinality(Above(x)) \in Nat
  BY FS_Subset, FS_CardinalityType
<1> DEFINE T == {Cardinality(Above(x)) : x \in S}
<1>2. PICK n \in T : \A m \in T : ~(<<m, n>> \in OpToRel(<, Nat))
  <2> HIDE DEF Above
  <2>1. T \subseteq Nat /\ T # {}
    BY <1>1
  <2> HIDE DEF T
  <2> QED
    BY <2>1, WFMin, NatLessThanWellFounded
<1>3. PICK x \in S : n = Cardinality(Above(x))
  OBVIOUS
<1>4. \A y \in S : y <= x
  <2> SUFFICES ASSUME NEW y \in S, y > x PROVE FALSE
    OBVIOUS
  <2>1. Above(y) \subseteq Above(x) \ {y} /\ y \in Above(x)
    <3>1. x \in Nat /\ y \in Nat /\ \A z \in S : z \in Nat
      OBVIOUS
    <3>2. \A z \in S : z > y => z > x /\ z # y
      BY <3>1
    <3> QED
      BY <3>2
  <2>2. /\ IsFiniteSet(Above(x) \ {y})
        /\ Cardinality(Above(x) \ {y}) = Cardinality(Above(x)) - 1
    BY <1>1, <2>1, FS_RemoveElement
  <2>3. Cardinality(Above(y)) <= Cardinality(Above(x)) - 1
    BY <2>1, <2>2, FS_Subset
  <2>4. /\ Cardinality(Above(y)) \in Nat /\ Cardinality(Above(x)) \in Nat
        /\ Cardinality(Above(y)) \in T
    BY <1>1
  <2>5. <<Cardinality(Above(y)), n>> \in OpToRel(<, Nat)
    BY <2>3, <2>4, <1>3 DEF OpToRel
  <2> QED
    BY <1>2, <2>4, <2>5
<1> QED
  BY <1>4 DEF Max

LEMMA ListedIsFinite == ASSUME NEW kind PROVE IsFiniteSet(Listed(kind))
<1> DEFINE f == [x \in Listed(kind) |-> x[2]]
<1>1. f \in Injection(Listed(kind), Names)
  BY DEF Injection, IsInjective, Listed, Parameters
<1> QED
  BY <1>1, FS_Injection, LoadAssumption

\* A page is a beginning of what was to be listed: its last name is past the token,
\* and nothing up to that name is left out.
LEMMA PageIsBeginning ==
    ASSUME NEW kind, Page(kind) # {}, token \in Nat
    PROVE  LET reached == Max({x[2] : x \in Page(kind)}) IN
           /\ reached \in Names
           /\ \A x \in Listed(kind) : x[2] <= reached => x \in Page(kind)
<1> DEFINE S == {x[2] : x \in Page(kind)}
           Earlier(x) == {y \in Listed(kind) : y[2] < x[2]}
<1>1. \A x \in Listed(kind) : x[2] \in Names /\ x[2] \in Nat
  BY NamesArePositive DEF Listed, Parameters
<1>2. Page(kind) \subseteq Listed(kind)
  BY DEF Page
<1>3. S \in SUBSET Names /\ S # {} /\ S \in SUBSET Nat
  BY <1>1, <1>2
<1>4. IsFiniteSet(S)
  BY <1>3, FS_Subset, LoadAssumption
<1>5. Max(S) \in S
  BY <1>3, <1>4, Largest
<1>6. PICK z \in Page(kind) : Max(S) = z[2]
  BY <1>5
<1>7. ASSUME NEW x \in Listed(kind), x[2] <= z[2] PROVE x \in Page(kind)
  <2>1. Earlier(x) \subseteq Earlier(z)
    BY <1>1, <1>2, <1>7
  <2>2. /\ IsFiniteSet(Earlier(x)) /\ IsFiniteSet(Earlier(z))
    BY ListedIsFinite, FS_Subset
  <2>3. Cardinality(Earlier(x)) <= Cardinality(Earlier(z))
    BY <2>1, <2>2, FS_Subset
  <2>4. Cardinality(Earlier(x)) \in Nat /\ Cardinality(Earlier(z)) \in Nat
    BY <2>2, FS_CardinalityType
  <2>5. Cardinality(Earlier(z)) < PageSize
    BY DEF Page
  <2>6. Cardinality(Earlier(x)) < PageSize
    BY <2>3, <2>4, <2>5, LoadAssumption
  <2> QED
    BY <2>6 DEF Page
<1> QED
  BY <1>3, <1>5, <1>6, <1>7

-----------------------------------------------------------------------------
\* What is the same at the beginning and at the end of every load.
LEMMA Emptied ==
    ASSUME IInv, TypeOK', DOMAIN documents' = {}, DOMAIN compiled' = {}, DOMAIN cache' = {},
           compiled' = << >>, \A x \in Parameters : ~Passed(x)', at' # "compile"
    PROVE  Gathered' /\ NothingSkipped' /\ SecretsRead' /\ CompiledSoFar'
<1>1. CompiledSoFar'
  BY DEF CompiledSoFar
<1> QED
  BY <1>1 DEF Gathered, NothingSkipped, SecretsRead, Parameters

LEMMA NothingPassed ==
    ASSUME at \in {"idle", "file", "upstreams"}, token = 0, NEW x \in Parameters
    PROVE  ~Passed(x)
BY Kind, NamesArePositive DEF Passed, Kinds

LEMMA InitOK == Init => IInv
<1> SUFFICES ASSUME Init PROVE IInv
  OBVIOUS
<1>1. TypeOK
  BY NothingInNothing, LoadAssumption DEF Init, TypeOK, UpstreamDocuments, RelayDocuments
<1>2. Watched
  BY LoadAssumption DEF Init, Watched, Unseen, Loading
<1>3. Gathered /\ NothingSkipped /\ SecretsRead /\ CompiledSoFar
  <2>1. \A x \in Parameters : ~Passed(x)
    BY NothingPassed DEF Init
  <2> QED
    BY <2>1, NothingInNothing
       DEF Init, Gathered, NothingSkipped, SecretsRead, CompiledSoFar
<1> QED
  BY <1>1, <1>2, <1>3 DEF IInv

LEMMA BeginOK == ASSUME IInv, Begin PROVE IInv'
<1>1. TypeOK'
  BY NothingInNothing DEF Begin, IInv, TypeOK, setup, UpstreamDocuments, RelayDocuments
<1>2. Watched'
  <2>1. UNCHANGED Current
    BY CurrentStays DEF Begin
  <2>2. seen' \in [Items -> SUBSET Values] /\ \A i \in Items : Current'[i] \in seen'[i]
    BY <2>1, CurrentType DEF Begin, IInv
  <2> QED
    BY <2>2 DEF Begin, IInv, Watched, Loading, Items, Parameters
<1>3. \A x \in Parameters : ~Passed(x)'
  BY Kind, NamesArePositive DEF Begin, Passed, Kinds, Parameters
<1>4. Gathered' /\ NothingSkipped' /\ SecretsRead' /\ CompiledSoFar'
  BY <1>1, <1>3, NothingInNothing, Emptied DEF Begin, Loading
<1> QED
  BY <1>1, <1>2, <1>4 DEF IInv

LEMMA Ends == AfterFailure \in {"idle", "exited"}
BY DEF AfterFailure

LEMMA EndOK == ASSUME IInv, NEW then \in {"idle", "exited"}, End(then) PROVE IInv'
<1>1. TypeOK'
  BY NothingInNothing DEF End, IInv, TypeOK, setup, UpstreamDocuments, RelayDocuments
<1>2. Watched'
  BY DEF End, IInv, Watched, Loading, Unseen, Items, Parameters
<1>3. \A x \in Parameters : ~Passed(x)'
  BY Kind, NamesArePositive DEF End, Passed, Kinds, Parameters
<1>4. Gathered' /\ NothingSkipped' /\ SecretsRead' /\ CompiledSoFar'
  BY <1>1, <1>3, NothingInNothing, Emptied DEF End
<1> QED
  BY <1>1, <1>2, <1>4 DEF IInv

-----------------------------------------------------------------------------
\* In the middle of a load, its steps change nothing but what it has gathered.
LEMMA WatchedStays ==
    ASSUME IInv, Loading, Loading', UNCHANGED <<setup, store, secrets, seen>>
    PROVE  Watched'
<1>1. UNCHANGED Current
  BY CurrentStays
<1> QED
  BY <1>1 DEF IInv, Watched, Items, Parameters

\* A document that is read is a document, and was there.
LEMMA DocumentRead ==
    ASSUME IInv, Loading, NEW x \in Parameters
    PROVE  /\ store[x] \in seen[x]
           /\ store[x] \notin {Absent, Broken} => store[x] \in Documents(x[1])
BY CurrentOf DEF IInv, Watched, TypeOK, Items

LEMMA ReadFileOK == ASSUME IInv, ReadFile PROVE IInv'
<1>1. /\ at = "file" /\ at' = "compile" /\ Loading /\ Loading'
      /\ UNCHANGED <<setup, store, secrets, token, compiled, cache, seen>>
      /\ documents' = [x \in Written |-> store[x]]
  BY DEF ReadFile, Loading
<1>2. /\ Written \subseteq Parameters
      /\ \A x \in Written : store[x] \notin {Absent, Broken}
      /\ \A x \in Parameters \ Written : store[x] = Absent
  BY DEF ReadFile, Written, FileParses
<1>3. DOMAIN compiled = {}
  BY <1>1 DEF IInv, CompiledSoFar
<1>4. TypeOK'
  BY <1>1, <1>2, <1>3, DocumentRead
     DEF IInv, TypeOK, setup, Parameters, Documents, UpstreamDocuments, RelayDocuments
<1>5. Gathered' /\ NothingSkipped' /\ SecretsRead'
  BY <1>1, <1>2, DocumentRead
     DEF IInv, Gathered, NothingSkipped, SecretsRead, Parameters
<1>6. CompiledSoFar'
  BY <1>1, <1>3 DEF IInv, CompiledSoFar, Loading
<1> QED
  BY <1>1, <1>4, <1>5, <1>6, WatchedStays DEF IInv

LEMMA ReadPageOK == ASSUME IInv, NEW kind \in Kinds, ReadPage(kind) PROVE IInv'
<1> DEFINE page == [x \in Page(kind) |-> store[x]]
<1>1. /\ at = kind /\ at' \in Kinds \cup {"compile"} /\ Loading /\ Loading'
      /\ UNCHANGED <<setup, store, secrets, compiled, cache, seen>>
      /\ documents' = With(documents, page)
  BY DEF ReadPage, AfterPage, Loading, Kinds
<1>2. /\ Page(kind) \subseteq Listed(kind) /\ Listed(kind) \subseteq Parameters
      /\ \A x \in Page(kind) : store[x] \notin {Absent, Broken}
  BY DEF ReadPage, Page, Listed
<1>3. DOMAIN compiled = {}
  BY <1>1 DEF IInv, CompiledSoFar, Kinds
<1>a. DOMAIN page = Page(kind) /\ \A x \in Page(kind) : page[x] = store[x]
  OBVIOUS
<1> HIDE DEF page
<1>4. /\ DOMAIN documents' = DOMAIN documents \cup Page(kind)
      /\ \A x \in Page(kind) : documents'[x] = store[x]
      /\ \A x \in DOMAIN documents \ Page(kind) : documents'[x] = documents[x]
  BY <1>1, <1>a DEF With
<1>5. /\ token' \in Names \cup {0}
      /\ \A x \in Parameters :
           Passed(x)' => \/ Passed(x) \/ store[x] = Absent \/ x \in Page(kind)
  <2>1. token \in Nat
    BY NamesArePositive DEF IInv, TypeOK
  <2>2. PICK more \in BOOLEAN :
           /\ Page(kind) # Listed(kind) => more
           /\ Page(kind) = {} => ~more
           /\ AfterPage(kind, more)
    BY DEF ReadPage
  <2>3. CASE more
    <3> DEFINE reached == Max({x[2] : x \in Page(kind)})
    <3>1. token' = reached /\ at' = kind
      BY <2>2, <2>3 DEF AfterPage
    <3>2. reached \in Names /\ \A x \in Listed(kind) : x[2] <= reached => x \in Page(kind)
      BY <2>1, <2>2, <2>3, PageIsBeginning
    <3> HIDE DEF reached
    <3> QED
      BY <1>1, <2>1, <3>1, <3>2, Kind, NamesArePositive DEF Passed, Listed, Kinds, Parameters
  <2>4. CASE ~more
    <3>1. token' = 0 /\ Page(kind) = Listed(kind)
      BY <2>2, <2>4 DEF AfterPage
    <3>2. at' = IF kind = "upstreams" THEN "relays" ELSE "compile"
      BY <2>2, <2>4 DEF AfterPage
    <3> QED
      BY <1>1, <2>1, <3>1, <3>2, Kind, NamesArePositive DEF Passed, Listed, Kinds, Parameters
  <2> QED
    BY <2>3, <2>4
<1>6. TypeOK'
  BY <1>1, <1>2, <1>3, <1>4, <1>5, DocumentRead
     DEF IInv, TypeOK, setup, Parameters, Documents, UpstreamDocuments, RelayDocuments, Kinds
<1>7. Gathered' /\ SecretsRead'
  BY <1>1, <1>2, <1>4, DocumentRead DEF IInv, Gathered, SecretsRead
<1>8. NothingSkipped'
  BY <1>1, <1>4, <1>5, DocumentRead DEF IInv, NothingSkipped, Parameters
<1>9. CompiledSoFar'
  BY <1>1, <1>3 DEF IInv, CompiledSoFar, Loading, Kinds
<1> QED
  BY <1>1, <1>6, <1>7, <1>8, <1>9, WatchedStays DEF IInv

-----------------------------------------------------------------------------
\* What a resource is compiled with.
LEMMA NextIsDocument ==
    ASSUME IInv, NEW x \in Parameters, IsNext(x)
    PROVE  /\ at = "compile" /\ Loading /\ x \in DOMAIN documents \ DOMAIN compiled
           /\ documents[x].secret \in Sources \cup {NoSecret}
<1>1. at = "compile" /\ Loading /\ x \in DOMAIN documents \ DOMAIN compiled
  BY DEF IsNext, Loading
<1>2. documents[x] \in Documents(x[1])
  BY <1>1 DEF IInv, TypeOK
<1> QED
  BY <1>1, <1>2, Kind, DocumentShape

\* A resource is compiled with the secret that the cache, as it is now, has for it.
LEMMA CompileOK ==
    ASSUME IInv, NEW x \in Parameters, IsNext(x),
           NEW secret \in SecretValues \cup {LineEnds, NoSecret}, Compile(x, secret),
           \A s \in DOMAIN cache : s \in DOMAIN cache' /\ cache'[s] = cache[s],
           \A s \in DOMAIN cache' : /\ s \in Sources /\ cache'[s] \in SecretValues \cup {LineEnds}
                                    /\ cache'[s] \in seen[s],
           documents[x].secret \in DOMAIN cache' \cup {NoSecret},
           secret = SecretFor(x)'
    PROVE  IInv'
<1>1. /\ at = "compile" /\ at' = at /\ Loading /\ Loading'
      /\ UNCHANGED <<setup, store, secrets, token, documents, seen>>
      /\ x \in DOMAIN documents \ DOMAIN compiled
  BY NextIsDocument DEF Compile, Loading
<1>2. /\ DOMAIN compiled' = DOMAIN compiled \cup {x}
      /\ compiled'[x] = [document |-> documents[x], secret |-> secret]
      /\ \A y \in DOMAIN compiled : compiled'[y] = compiled[y]
      /\ compiled' = [y \in DOMAIN compiled' |-> compiled'[y]]
  BY <1>1 DEF Compile, With
<1>3. \A y \in DOMAIN compiled :
         /\ documents[y].secret \in DOMAIN cache \cup {NoSecret}
         /\ compiled[y] = [document |-> documents[y], secret |-> SecretFor(y)]
         /\ SecretFor(y)' = SecretFor(y)
  BY <1>1 DEF IInv, CompiledSoFar, SecretFor
<1>4. CompiledSoFar'
  <2>1. \A y \in DOMAIN compiled' :
           /\ compiled'[y] = [document |-> documents'[y], secret |-> SecretFor(y)']
           /\ documents'[y].secret \in DOMAIN cache' \cup {NoSecret}
    BY <1>1, <1>2, <1>3
  <2> QED
    BY <1>1, <1>2, <2>1 DEF CompiledSoFar, SecretFor
<1>5. TypeOK'
  BY <1>1, <1>2
     DEF IInv, TypeOK, setup, Parameters, Documents, UpstreamDocuments, RelayDocuments
<1>6. Gathered' /\ NothingSkipped' /\ SecretsRead'
  BY <1>1 DEF IInv, Gathered, NothingSkipped, SecretsRead, Passed, Parameters
<1> QED
  BY <1>1, <1>4, <1>5, <1>6, WatchedStays DEF IInv

LEMMA CompileWithoutSecretOK ==
    ASSUME IInv, NEW x \in Parameters, CompileWithoutSecret(x) PROVE IInv'
<1>1. IsNext(x) /\ Compile(x, NoSecret) /\ cache' = cache /\ documents' = documents
  BY DEF CompileWithoutSecret, Compile
<1>2. SecretFor(x)' = NoSecret /\ documents[x].secret = NoSecret
  BY <1>1 DEF CompileWithoutSecret, SecretFor
<1> QED
  BY <1>1, <1>2, CompileOK DEF IInv, TypeOK, SecretsRead

LEMMA CompileCachedOK ==
    ASSUME IInv, NEW x \in Parameters, CompileCached(x) PROVE IInv'
<1> DEFINE s == documents[x].secret
<1>1. IsNext(x) /\ s \in DOMAIN cache /\ Compile(x, cache[s])
      /\ cache' = cache /\ documents' = documents
  BY DEF CompileCached, Compile
<1>2. SecretFor(x)' = cache[s]
  BY <1>1, ApartAssumption DEF SecretFor, IInv, TypeOK
<1> QED
  BY <1>1, <1>2, CompileOK DEF IInv, TypeOK, SecretsRead

LEMMA CompileReadingOK ==
    ASSUME IInv, NEW x \in Parameters, CompileReading(x) PROVE IInv'
<1> DEFINE s == documents[x].secret
           v == Current[s]
<1>1. /\ IsNext(x) /\ s \in Sources \ DOMAIN cache /\ Usable(v) /\ Compile(x, v)
      /\ cache' = With(cache, [t \in {s} |-> Current[t]]) /\ documents' = documents
  BY DEF CompileReading, Compile
<1>2. v \in SecretValues \cup {LineEnds} /\ v \in seen[s]
  <2>1. v = Obtained(s, secrets[s])
    BY <1>1, CurrentOf
  <2>2. v \in SecretValues \cup {Empty, LineEnds, Absent}
    BY <1>1, <2>1, ObtainedIsSecret DEF IInv, TypeOK
  <2>3. v \in seen[s]
    BY <1>1, NextIsDocument DEF IInv, Watched, Items
  <2> QED
    BY <1>1, <2>2, <2>3 DEF Usable
<1>3. /\ DOMAIN cache' = DOMAIN cache \cup {s} /\ cache'[s] = v
      /\ \A t \in DOMAIN cache : cache'[t] = cache[t]
  BY <1>1 DEF With
<1>4. SecretFor(x)' = v
  BY <1>1, <1>3, ApartAssumption DEF SecretFor
<1>5. \A t \in DOMAIN cache' : /\ t \in Sources /\ cache'[t] \in SecretValues \cup {LineEnds}
                               /\ cache'[t] \in seen[t]
  BY <1>1, <1>2, <1>3 DEF IInv, TypeOK, SecretsRead
<1> QED
  BY <1>1, <1>2, <1>3, <1>4, <1>5, CompileOK

-----------------------------------------------------------------------------
\* What the load has taken is kept from one step to the next.
LEMMA StepOK == IInv /\ [Next]_vars => IInv'
<1> SUFFICES ASSUME IInv, [Next]_vars PROVE IInv'
  OBVIOUS
<1>1. CASE Operate
  BY <1>1, PutOK, RotateOK DEF Operate
<1>2. CASE Load
  <2>1. ASSUME NEW kind \in Kinds, ReadPage(kind) \/ RejectPage(kind) PROVE IInv'
    BY <2>1, ReadPageOK, EndOK, Ends DEF RejectPage, Reject
  <2>2. ASSUME NEW x \in Parameters,
               \/ CompileWithoutSecret(x) \/ CompileCached(x)
               \/ CompileReading(x) \/ RejectSecret(x)
        PROVE  IInv'
    BY <2>2, CompileWithoutSecretOK, CompileCachedOK, CompileReadingOK, EndOK, Ends
       DEF RejectSecret, Reject
  <2>3. CASE Begin \/ ReadFile \/ RejectFile \/ Succeed \/ RejectGraph
    BY <2>3, BeginOK, ReadFileOK, EndOK, Ends DEF RejectFile, Succeed, RejectGraph, Reject
  <2> QED
    BY <1>2, <2>1, <2>2, <2>3 DEF Load, Kinds
<1>3. CASE RequestFails
  BY <1>3, EndOK, Ends DEF RequestFails
<1>4. CASE Exited \/ UNCHANGED vars
  <2>1. /\ UNCHANGED <<provider, place, store, secrets, at, token, documents, compiled, cache, seen>>
        /\ UNCHANGED Current
    BY <1>4, CurrentStays DEF Exited, vars, setup, load
  <2>2. TypeOK'
    BY <2>1 DEF IInv, TypeOK, Parameters, Documents, UpstreamDocuments, RelayDocuments
  <2> QED
    BY <2>1, <2>2 DEF IInv, Watched, Gathered, NothingSkipped, SecretsRead, CompiledSoFar,
                      SecretFor, Passed, Loading, Unseen, Items, Parameters
<1> QED
  BY <1>1, <1>2, <1>3, <1>4 DEF Next

LEMMA Invariance == Spec => []IInv
BY InitOK, StepOK, PTL DEF Spec

\* The state of a load is of the right shape.
THEOREM TypeCorrect == Spec => []TypeOK
<1>1. IInv => TypeOK
  BY DEF IInv
<1> QED
  BY <1>1, Invariance, PTL

-----------------------------------------------------------------------------
\* The choice that a load which succeeds has made.
Choice ==
    [i \in Items |->
        IF i \in Parameters THEN IF i \in DOMAIN documents THEN documents[i] ELSE Absent
                            ELSE IF i \in DOMAIN cache THEN cache[i] ELSE Current[i]]

LEMMA ChoiceWasThere ==
    ASSUME IInv, IsCompiled
    PROVE  /\ \A i \in Items : Choice[i] \in seen[i]
           /\ Choice \in [Items -> UNION {seen[i] : i \in Items}]
           /\ Acceptable(Choice) <=> Closed(compiled)
           /\ SnapshotOf(Choice) = compiled
<1>1. at = "compile" /\ Loading /\ DOMAIN compiled = DOMAIN documents
  BY DEF IsCompiled, Loading
<1>2. ASSUME NEW i \in Items PROVE Choice[i] \in seen[i]
  <2>1. CASE i \in Parameters
    BY <1>1, <2>1 DEF Choice, IInv, Gathered, NothingSkipped, Passed
  <2>2. CASE i \in Sources
    BY <1>1, <2>2, ApartAssumption DEF Choice, Items, IInv, SecretsRead, Watched
  <2> QED
    BY <2>1, <2>2 DEF Items
<1>3. Choice \in [Items -> UNION {seen[i] : i \in Items}]
  <2>1. Choice = [i \in Items |-> Choice[i]]
    BY DEF Choice
  <2> QED
    BY <1>2, <2>1
<1>4. /\ DOMAIN documents \subseteq Parameters
      /\ \A x \in DOMAIN documents :
           /\ documents[x] \notin {Absent, Broken}
           /\ documents[x].secret \in DOMAIN cache \cup {NoSecret}
           /\ Choice[x] = documents[x]
      /\ \A x \in Parameters \ DOMAIN documents : Choice[x] = Absent
  <2>1. \A x \in DOMAIN documents : documents[x] \notin {Absent, Broken}
    BY Kind, DocumentShape DEF IInv, TypeOK
  <2>2. \A x \in Parameters : x \in Items
    BY DEF Items
  <2> QED
    BY <1>1, <2>1, <2>2 DEF Choice, IInv, TypeOK, CompiledSoFar
<1>5. \A s \in DOMAIN cache : /\ s # NoSecret /\ Choice[s] = cache[s]
                              /\ Choice[s] \notin {Absent, Empty}
  BY ApartAssumption, LoadAssumption DEF Choice, Items, IInv, TypeOK
<1>6. Present(Choice) = DOMAIN documents
  BY <1>4 DEF Present
<1>7. \A x \in DOMAIN documents :
         SecretFor(x) = IF Choice[x].secret = NoSecret THEN NoSecret ELSE Choice[Choice[x].secret]
  BY <1>4, <1>5 DEF SecretFor
<1>8. SnapshotOf(Choice) = compiled
  <2>1. compiled = [x \in DOMAIN documents |->
                        [document |-> documents[x], secret |-> SecretFor(x)]]
    BY <1>1 DEF IInv, CompiledSoFar
  <2> QED
    BY <2>1, <1>4, <1>6, <1>7 DEF SnapshotOf
<1>9. Acceptable(Choice) <=> Closed(compiled)
  BY <1>4, <1>5, <1>6, <1>8 DEF Acceptable
<1> QED
  BY <1>2, <1>3, <1>8, <1>9

-----------------------------------------------------------------------------
LEMMA InitRefines == Init => Regular!Init
<1>1. Init => TypeOK
  BY InitOK DEF IInv
<1> QED
  BY <1>1, CurrentType DEF Init, Regular!Init, Unseen, Regular!Unseen, Loading, Values, Kinds

\* What an operator changes and the load would not see is no change.
LEMMA ChangeRefines ==
    ASSUME IInv, NEW i \in Items, NEW v \in Values, Changed(i, v),
           Current' = [Current EXCEPT ![i] = v]
    PROVE  [Regular!Next]_(Regular!vars)
<1>1. Regular!Change(i, v)
  BY DEF Changed, Regular!Change, Loading, load
<1>2. CASE Current' # Current
  <2>1. v \in (UNION {Documents(kind) : kind \in {"upstreams", "relays"}})
                \cup {Absent, Broken, Empty, LineEnds} \cup SecretValues
    BY DEF Values, Kinds
  <2>2. Regular!Next
    BY <1>1, <1>2, <2>1 DEF Regular!Next
  <2> QED
    BY <2>2
<1>3. CASE Current' = Current
  <2>1. v = Current[i]
    BY <1>3, CurrentOf
  <2>2. seen' = seen
    <3>1. CASE Loading
      <4>1. v \in seen[i] /\ seen = [j \in Items |-> seen[j]]
        BY <2>1, <3>1 DEF IInv, Watched
      <4> QED
        BY <4>1, <3>1 DEF Changed
    <3> QED
      BY <3>1 DEF Changed
  <2>3. UNCHANGED <<Loading, last>>
    BY DEF Changed, Loading, load
  <2> QED
    BY <1>3, <2>2, <2>3 DEF Regular!vars
<1> QED
  BY <1>2, <1>3

LEMMA BeginRefines == ASSUME Begin PROVE Regular!Next
<1>1. UNCHANGED Current
  BY CurrentStays DEF Begin
<1>2. Regular!Begin
  BY <1>1 DEF Begin, Regular!Begin, Loading
<1> QED
  BY <1>2 DEF Regular!Next

LEMMA EndRefines ==
    ASSUME Loading, NEW then \in {"idle", "exited"}, End(then), UNCHANGED last
    PROVE  Regular!Next
<1>1. UNCHANGED Current
  BY CurrentStays DEF End
<1> QED
  BY <1>1 DEF End, Regular!Next, Regular!Fail, Loading, Unseen, Regular!Unseen

LEMMA SucceedRefines == ASSUME IInv, Succeed PROVE Regular!Next
<1>1. /\ IsCompiled /\ Closed(compiled) /\ last' = compiled /\ End("idle") /\ Loading
  BY DEF Succeed, IsCompiled, Loading
<1>2. CASE last' = last
  BY <1>1, <1>2, EndRefines
<1>3. CASE last' # last
  <2>1. UNCHANGED Current /\ ~Loading' /\ seen' = Regular!Unseen
    BY <1>1, CurrentStays DEF End, Loading, Unseen, Regular!Unseen
  <2>2. /\ \A i \in Items : Choice[i] \in seen[i]
        /\ Choice \in [Items -> UNION {seen[i] : i \in Items}]
        /\ Acceptable(Choice) /\ SnapshotOf(Choice) = last'
    BY <1>1, ChoiceWasThere
  <2>3. Regular!Succeed(Choice)
    BY <1>1, <2>1, <2>2 DEF Regular!Succeed
  <2> HIDE DEF Choice
  <2> QED
    BY <1>3, <2>2, <2>3 DEF Regular!Next
<1> QED
  BY <1>2, <1>3

\* The steps in the middle of a load are not seen from outside.
LEMMA InsideRefines ==
    ASSUME Loading, Loading', UNCHANGED <<setup, store, secrets, last, seen>>
    PROVE  UNCHANGED Regular!vars
BY CurrentStays DEF Regular!vars

\* A load that is not a transaction is a regular load.
THEOREM Refinement == Spec => ImplementsRegularLoad
<1> USE DEF Loading
<1>1. IInv /\ [Next]_vars => [Regular!Next]_(Regular!vars)
  <2> SUFFICES ASSUME IInv, [Next]_vars PROVE [Regular!Next]_(Regular!vars)
    OBVIOUS
  <2>1. CASE Operate
    <3>1. ASSUME NEW x \in Parameters, NEW d \in Documents(x[1]) \cup {Absent, Broken},
                 Put(x, d)
          PROVE  [Regular!Next]_(Regular!vars)
      BY <3>1, PutOK, ChangeRefines
    <3>2. ASSUME NEW s \in Sources, NEW v \in SecretValues \cup {Empty, LineEnds, Absent},
                 Rotate(s, v)
          PROVE  [Regular!Next]_(Regular!vars)
      BY <3>2, RotateOK, ChangeRefines
    <3> QED
      BY <2>1, <3>1, <3>2 DEF Operate
  <2>2. CASE Load
    <3>1. ASSUME NEW kind \in Kinds, ReadPage(kind) PROVE [Regular!Next]_(Regular!vars)
      <4>1. /\ Loading /\ Loading' /\ UNCHANGED <<setup, store, secrets, last, seen>>
        BY <3>1 DEF ReadPage, AfterPage, Kinds
      <4> QED
        BY <4>1, InsideRefines
    <3>2. ASSUME NEW x \in Parameters,
                 CompileWithoutSecret(x) \/ CompileCached(x) \/ CompileReading(x)
          PROVE  [Regular!Next]_(Regular!vars)
      <4>1. /\ Loading /\ Loading' /\ UNCHANGED <<setup, store, secrets, last, seen>>
        BY <3>2 DEF CompileWithoutSecret, CompileCached, CompileReading, Compile, IsNext
      <4> QED
        BY <4>1, InsideRefines
    <3>3. CASE ReadFile
      BY <3>3, InsideRefines DEF ReadFile
    <3>4. ASSUME \/ RejectFile \/ RejectGraph
                 \/ \E kind \in Kinds : RejectPage(kind)
                 \/ \E x \in Parameters : RejectSecret(x)
          PROVE  Regular!Next
      <4>1. Loading /\ Reject
        BY <3>4 DEF RejectFile, RejectGraph, RejectPage, RejectSecret, IsCompiled, IsNext, Kinds
      <4> QED
        BY <4>1, EndRefines, Ends DEF Reject
    <3> QED
      BY <2>2, <3>1, <3>2, <3>3, <3>4, BeginRefines, SucceedRefines DEF Load, Kinds
  <2>3. CASE RequestFails
    <3>1. Loading
      BY <2>3 DEF RequestFails, IsNext
    <3> QED
      BY <2>3, <3>1, EndRefines, Ends DEF RequestFails
  <2>4. CASE Exited \/ UNCHANGED vars
    BY <2>4, CurrentStays DEF Exited, vars, setup, load, Regular!vars
  <2> QED
    BY <2>1, <2>2, <2>3, <2>4 DEF Next
<1> QED
  BY <1>1, InitRefines, Invariance, PTL DEF Spec, ImplementsRegularLoad, Regular!Spec

-----------------------------------------------------------------------------
LEMMA PoliciesAreSequences == ASSUME NEW p \in Policies PROVE p \in Seq(Matchers)
<1>1. PICK n \in 0..MaxEntries : p \in [1..n -> Entries]
  BY DEF Policies
<1>2. n \in Nat /\ p \in [1..n -> Matchers]
  BY <1>1, RedirectAssumption
<1> QED
  BY <1>2

\* What is in force is a sequence of matchers that validation accepts.
THEOREM PolicyTypeCorrect == PolicySpec => []PolicyTypeOK
<1>1. PolicyInit => PolicyTypeOK
  BY PoliciesAreSequences DEF PolicyInit, PolicyTypeOK
<1>2. PolicyTypeOK /\ [PolicyNext]_policyVars => PolicyTypeOK'
  <2> SUFFICES ASSUME PolicyTypeOK, [PolicyNext]_policyVars PROVE PolicyTypeOK'
    OBVIOUS
  <2>1. ASSUME NEW p \in Policies, Deploy(p) PROVE PolicyTypeOK'
    BY <2>1, PoliciesAreSequences DEF Deploy, PolicyTypeOK, ValidPolicy, ValidMatcher, Identity
  <2>2. ASSUME NEW option \in BOOLEAN, Restart(option) PROVE PolicyTypeOK'
    BY <2>2 DEF Restart, PolicyTypeOK, ValidPolicy
  <2>3. CASE UNCHANGED policyVars
    BY <2>3 DEF policyVars, PolicyTypeOK, ValidPolicy
  <2> QED
    BY <2>1, <2>2, <2>3 DEF PolicyNext
<1> QED
  BY <1>1, <1>2, PTL DEF PolicySpec

-----------------------------------------------------------------------------
LEMMA KindOfMatcher ==
    ASSUME PolicyTypeOK, NEW i \in DOMAIN policy
    PROVE  /\ policy[i] \in Matchers /\ ValidMatcher(policy[i])
           /\ policy[i].value \in Uris
           /\ \/ policy[i].kind = "uri" /\ ValidExactUri(policy[i].value)
              \/ policy[i].kind = "origin" /\ ValidOrigin(policy[i].value)
              \/ policy[i].kind = "loopback" /\ ValidLoopbackUri(policy[i].value)
<1>1. policy[i] \in Matchers /\ ValidMatcher(policy[i])
  BY DEF PolicyTypeOK, ValidPolicy
<1>2. policy[i].value \in Uris /\ policy[i].kind \in {"uri", "origin", "loopback"}
  BY <1>1 DEF Matchers
<1> QED
  BY <1>1, <1>2 DEF ValidMatcher

\* The three ways in which a matcher accepts a redirect, without the CASE.
LEMMA RedirectCases ==
    ASSUME NEW m, NEW u, NEW l
    PROVE  /\ m.kind = "uri" =>
                (RedirectMatches(m, u, l) <=> ValidExactUri(m.value) /\ m.value = u)
           /\ m.kind = "origin" =>
                (RedirectMatches(m, u, l) <=> m.value.scheme = "https" /\ SameOrigin(m.value, u))
           /\ m.kind = "loopback" =>
                (RedirectMatches(m, u, l) <=>
                    /\ ValidLoopbackUri(m.value)
                    /\ u.scheme = "http" /\ LoopbackHostMatches(m.value, u, l)
                    /\ RawTail[m.value] # NoTail /\ RawTail[u] = RawTail[m.value])
BY DEF RedirectMatches

LEMMA CorsCases ==
    ASSUME NEW m, NEW o, NEW l
    PROVE  /\ m.kind = "uri" =>
                (CorsMatches(m, o, l) <=> ValidExactUri(m.value) /\ SameOrigin(m.value, o))
           /\ m.kind = "origin" =>
                (CorsMatches(m, o, l) <=> m.value.scheme = "https" /\ SameOrigin(m.value, o))
           /\ m.kind = "loopback" =>
                (CorsMatches(m, o, l) <=>
                    /\ ValidLoopbackUri(m.value)
                    /\ o.scheme = "http" /\ LoopbackHostMatches(m.value, o, l))
BY DEF CorsMatches

\* The scheme, the host and the port make the origin.
LEMMA SameOriginAs ==
    ASSUME NEW a, NEW b, a.scheme = b.scheme, a.host = b.host, a.port = b.port
    PROVE  SameOrigin(a, b)
BY DEF SameOrigin, Host, PortOrKnownDefault

-----------------------------------------------------------------------------
\* An accepted redirect leaves the machine only over https.
THEOREM NoCleartextAbroadHolds == PolicySpec => []NoCleartextAbroad
<1>1. PolicyTypeOK => NoCleartextAbroad
  <2> SUFFICES ASSUME PolicyTypeOK, NEW u \in Redirects
               PROVE  \/ u.scheme = "https" \/ IsIpLoopback(u)
                      \/ (allowLocalhost /\ Host(u) = Localhost)
    BY DEF NoCleartextAbroad
  <2>1. PICK i \in DOMAIN policy : RedirectMatches(policy[i], u, allowLocalhost)
    BY DEF Redirects, RedirectAllowed
  <2>2. CASE policy[i].kind = "uri"
    BY <2>1, <2>2, RedirectCases DEF ValidExactUri
  <2>3. CASE policy[i].kind = "origin"
    BY <2>1, <2>3, RedirectCases DEF SameOrigin
  <2>4. CASE policy[i].kind = "loopback"
    BY <2>1, <2>4, RedirectCases DEF ValidLoopbackUri, LoopbackHostMatches, IsIpLoopback
  <2> QED
    BY <2>2, <2>3, <2>4, KindOfMatcher
<1> QED
  BY <1>1, PolicyTypeCorrect, PTL

\* A page that may be sent a code may redeem it from where it is.
THEOREM RedirectsMayRedeemHolds == PolicySpec => []RedirectsMayRedeem
<1>1. PolicyTypeOK => RedirectsMayRedeem
  <2> SUFFICES ASSUME PolicyTypeOK, NEW u \in Redirects, NEW root \in RootTails
               PROVE  CorsOriginAllowed(policy, OriginHeader(u, root), allowLocalhost)
    BY DEF RedirectsMayRedeem
  <2> DEFINE o == OriginHeader(u, root)
  <2>1. PICK i \in DOMAIN policy : RedirectMatches(policy[i], u, allowLocalhost)
    BY DEF Redirects, RedirectAllowed
  <2>2. u \in Uris /\ Parses(u) /\ ValidRedirectUrl(u)
    BY DEF Redirects, RedirectAllowed
  <2>3. /\ o.scheme = u.scheme /\ o.host = u.host /\ o.port = u.port
        /\ o.userinfo = u.userinfo /\ o.fragment = u.fragment /\ o.tail = root
    BY <2>2 DEF OriginHeader, Uris
  <2>4. Parses(o) /\ ValidRedirectUrl(o) /\ o.tail \in RootTails
    BY <2>2, <2>3 DEF Parses, ValidRedirectUrl
  <2>5. CorsMatches(policy[i], o, allowLocalhost)
    <3>1. CASE policy[i].kind = "uri"
      <4>1. SameOrigin(policy[i].value, o)
        BY <2>1, <2>3, <3>1, RedirectCases, SameOriginAs
      <4> QED
        BY <2>1, <3>1, <4>1, RedirectCases, CorsCases
    <3>2. CASE policy[i].kind = "origin"
      <4>1. SameOrigin(policy[i].value, o)
        BY <2>1, <2>3, <3>2, RedirectCases DEF SameOrigin, Host, PortOrKnownDefault
      <4> QED
        BY <2>1, <3>2, <4>1, RedirectCases, CorsCases
    <3>3. CASE policy[i].kind = "loopback"
      <4>1. o.scheme = "http" /\ LoopbackHostMatches(policy[i].value, o, allowLocalhost)
        BY <2>1, <2>3, <3>3, RedirectCases DEF LoopbackHostMatches, Host
      <4> QED
        BY <2>1, <3>3, <4>1, RedirectCases, CorsCases
    <3> QED
      BY <3>1, <3>2, <3>3, KindOfMatcher
  <2> QED
    BY <2>4, <2>5 DEF CorsOriginAllowed
<1> QED
  BY <1>1, PolicyTypeCorrect, PTL

\* CORS serves an origin only for the sake of a page that may be sent a code, or of
\* dead entries.
THEOREM CorsOnlyForRedirectsHolds == PolicySpec => []CorsOnlyForRedirects
<1>1. PolicyTypeOK => CorsOnlyForRedirects
  <2> SUFFICES ASSUME PolicyTypeOK, NEW o \in Uris,
                      CorsOriginAllowed(policy, o, allowLocalhost)
               PROVE  \/ \E u \in Redirects : SameOrigin(u, o)
                      \/ \A i \in DOMAIN policy :
                            CorsMatches(policy[i], o, allowLocalhost) => Dead(policy[i])
    BY DEF CorsOnlyForRedirects
  <2> SUFFICES ASSUME NEW i \in DOMAIN policy,
                      CorsMatches(policy[i], o, allowLocalhost), ~Dead(policy[i])
               PROVE  \E u \in Redirects : SameOrigin(u, o)
    OBVIOUS
  <2>1. CorsMatches(policy[i], o, allowLocalhost)
    OBVIOUS
  <2>2. Parses(o) /\ ValidRedirectUrl(o)
    BY DEF CorsOriginAllowed
  <2> DEFINE v == policy[i].value
  <2>3. v \in Uris
    BY KindOfMatcher
  <2>4. CASE policy[i].kind = "uri"
    <3>1. ValidExactUri(v) /\ SameOrigin(v, o)
      BY <2>1, <2>4, CorsCases
    <3>2. RedirectMatches(policy[i], v, allowLocalhost)
      BY <3>1, <2>4, RedirectCases
    <3> QED
      BY <2>3, <3>1, <3>2 DEF Redirects, RedirectAllowed, ValidExactUri
  <2>5. CASE policy[i].kind = "origin"
    <3> DEFINE u == [o EXCEPT !.odd = FALSE]
    <3>1. /\ u \in Uris /\ ~u.odd
          /\ u.scheme = o.scheme /\ u.host = o.host /\ u.port = o.port
          /\ u.userinfo = o.userinfo /\ u.fragment = o.fragment
      BY DEF Uris
    <3>2. SameOrigin(v, u) /\ v.scheme = "https"
      BY <2>1, <2>5, <3>1, CorsCases DEF SameOrigin, Host, PortOrKnownDefault
    <3>3. RedirectMatches(policy[i], u, allowLocalhost)
      BY <3>2, <2>5, RedirectCases
    <3>4. u \in Redirects
      BY <2>2, <3>1, <3>3 DEF Redirects, RedirectAllowed, Parses, ValidRedirectUrl
    <3> QED
      BY <3>1, <3>4, SameOriginAs
  <2>6. CASE policy[i].kind = "loopback"
    <3> DEFINE t == RawTail[v]
               u == [o EXCEPT !.odd = FALSE, !.mark = "://", !.tail = t]
    <3>0. t # NoTail /\ t \in Tails
      BY <2>3, <2>6, RedirectAssumption DEF Dead
    <3>1. /\ u \in Uris /\ ~u.odd /\ u.mark = "://" /\ u.tail = t
          /\ u.scheme = o.scheme /\ u.host = o.host /\ u.port = o.port
          /\ u.userinfo = o.userinfo /\ u.fragment = o.fragment
      BY <3>0, RedirectAssumption DEF Uris
    <3>2. ValidLoopbackUri(v) /\ u.scheme = "http" /\ LoopbackHostMatches(v, u, allowLocalhost)
      BY <2>1, <2>6, <3>1, CorsCases DEF LoopbackHostMatches, Host
    <3> HIDE DEF u
    <3>3. RedirectMatches(policy[i], u, allowLocalhost)
      <4>1. RawTail[u] = t
        BY <3>1, RedirectAssumption
      <4> QED
        BY <3>0, <3>2, <4>1, <2>6, RedirectCases
    <3>4. u \in Redirects
      BY <2>2, <3>1, <3>3 DEF Redirects, RedirectAllowed, Parses, ValidRedirectUrl
    <3> QED
      BY <3>1, <3>4, SameOriginAs
  <2> QED
    BY <2>4, <2>5, <2>6, KindOfMatcher
<1> QED
  BY <1>1, PolicyTypeCorrect, PTL

\* Redirect and CORS decisions agree, whatever the policy, but for the origins of
\* dead entries.
THEOREM CorsAgreesWithRedirectsHolds == PolicySpec => []CorsAgreesWithRedirects
<1>1. RedirectsMayRedeem /\ CorsOnlyForRedirects => CorsAgreesWithRedirects
  BY DEF CorsAgreesWithRedirects
<1> QED
  BY <1>1, RedirectsMayRedeemHolds, CorsOnlyForRedirectsHolds, PTL

\* An entry that validation admits matches its own URI, unless it is dead, and then
\* it matches none.
THEOREM OnlyDeadNeverMatchHolds == PolicySpec => []OnlyDeadNeverMatch
<1>1. PolicyTypeOK => OnlyDeadNeverMatch
  <2> SUFFICES ASSUME PolicyTypeOK, NEW i \in DOMAIN policy
               PROVE  (\E u \in Redirects : RedirectMatches(policy[i], u, allowLocalhost))
                        <=> ~Dead(policy[i])
    BY DEF OnlyDeadNeverMatch
  <2>1. ASSUME Dead(policy[i]), NEW u \in Redirects
        PROVE  ~RedirectMatches(policy[i], u, allowLocalhost)
    BY <2>1, RedirectCases DEF Dead
  <2>2. ASSUME ~Dead(policy[i])
        PROVE  \E u \in Redirects : RedirectMatches(policy[i], u, allowLocalhost)
    <3> DEFINE v == policy[i].value
               u == [v EXCEPT !.odd = FALSE]
    <3>1. v \in Uris
      BY KindOfMatcher
    <3>2. /\ u \in Uris /\ ~u.odd
          /\ u.scheme = v.scheme /\ u.host = v.host /\ u.port = v.port
          /\ u.userinfo = v.userinfo /\ u.fragment = v.fragment
      BY <3>1 DEF Uris
    <3>3. ~v.odd => u = v
      BY <3>1 DEF Uris
    <3>4. RedirectMatches(policy[i], u, allowLocalhost) /\ Parses(u) /\ ValidRedirectUrl(u)
      <4>1. CASE policy[i].kind = "uri" /\ ValidExactUri(v)
        BY <3>3, <4>1, RedirectCases DEF ValidExactUri
      <4>2. CASE policy[i].kind = "origin" /\ ValidOrigin(v)
        <5>1. SameOrigin(v, u)
          BY <3>2, SameOriginAs
        <5> QED
          BY <3>2, <4>2, <5>1, RedirectCases DEF ValidOrigin, Parses, ValidRedirectUrl
      <4>3. CASE policy[i].kind = "loopback" /\ ValidLoopbackUri(v)
        <5>1. u = v /\ RawTail[v] # NoTail
          BY <2>2, <3>3, <4>3 DEF Dead, ValidLoopbackUri
        <5>2. LoopbackHostMatches(v, u, allowLocalhost)
          BY <5>1 DEF LoopbackHostMatches
        <5> QED
          BY <4>3, <5>1, <5>2, RedirectCases DEF ValidLoopbackUri, Parses, ValidRedirectUrl
      <4> QED
        BY <4>1, <4>2, <4>3, KindOfMatcher
    <3>5. u \in Redirects
      BY <3>2, <3>4 DEF Redirects, RedirectAllowed
    <3> HIDE DEF u
    <3> QED
      BY <3>4, <3>5
  <2> QED
    BY <2>1, <2>2
<1> QED
  BY <1>1, PolicyTypeCorrect, PTL
=============================================================================
