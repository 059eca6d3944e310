-------------------------- MODULE JsonCacheProofs ---------------------------
(***************************************************************************)
(* For any number of URLs, requests, changes and any TTLs: what a request  *)
(* reads through the cache is bounded in age.  The invariant dates every   *)
(* copy of a version that is on its way: an answer not yet inserted was    *)
(* current since its call began, an entry was current within the longest   *)
(* call before its insertion, and a URL found in a document carries the    *)
(* document's age with it to the key set it leads to.                      *)
(***************************************************************************)
EXTENDS JsonCache, TLAPS

EntryOK(u, e) ==
    /\ since[u][e.version] <= e.fetched
    /\ CurrentWithin(u, e.version, e.fetched, longest + 1)

DocumentOK(r) ==
    r.doc # None =>
        /\ r.doc <= served[Discovery]
        /\ CurrentWithin(Discovery, r.doc, r.called, DiscoveryTTL + longest)

AnswerOK(r) ==
    r.at = "insert" =>
        /\ since[r.url][r.version] <= clock
        /\ CurrentWithin(r.url, r.version, r.called, 1)

DoneOK(r) ==
    r.at = "done" =>
        /\ since[r.url][r.version] <= r.got
        /\ CurrentWithin(r.url, r.version, r.got, TTL(r.url) + longest)
        /\ r.doc # None => CurrentWithin(Discovery, r.doc, r.got, DiscoveryTTL + 2 * longest)

RequestOK(r) == DocumentOK(r) /\ AnswerOK(r) /\ DoneOK(r)

\* What an entry and a request in progress are, whoever makes them.
Fetched(u, e) ==
    /\ e \in CachedJson
    /\ e.version <= served[u] /\ e.fetched <= clock

Proper(r) ==
    /\ r \in Request
    /\ r.called <= clock /\ r.got <= clock /\ r.version <= served[r.url]

HistoryOK ==
    /\ clock \in 0..MaxTime
    /\ served \in [Urls -> Nat] /\ \A u \in Urls : served[u] <= MaxChanges[u]
    /\ since \in [Urls -> [Versions -> Nat]]
    /\ \A u \in Urls : since[u][served[u]] <= clock
    /\ longest \in Nat

CacheOK ==
    /\ cache \in [Urls -> SUBSET CachedJson]
    /\ \A u \in Urls : \A e \in cache[u] :
         cache[u] = {e} /\ Fetched(u, e) /\ EntryOK(u, e)

RequestsOK ==
    /\ requests \in [Handlers -> SUBSET Request]
    /\ \A h \in Handlers : \A r \in requests[h] :
         requests[h] = {r} /\ Proper(r) /\ RequestOK(r)

IInv == HistoryOK /\ CacheOK /\ RequestsOK

LEMMA IInvTypes == IInv => TypeOK
BY DEF IInv, HistoryOK, CacheOK, RequestsOK, Fetched, Proper, TypeOK

-----------------------------------------------------------------------------
LEMMA TwiceMonotone ==
    ASSUME NEW a \in Nat, NEW b \in Nat, NEW c \in Nat, b <= c
    PROVE  a + 2 * b \in Nat /\ a + 2 * c \in Nat /\ a + 2 * b <= a + 2 * c
OBVIOUS

LEMMA ConstantTypes ==
    /\ Discovery \in Urls /\ KeyUrls \subseteq Urls
    /\ Versions \subseteq Nat /\ 0 \in Versions
    /\ DiscoveryTTL \in Nat /\ DiscoveryTTL > 0
    /\ \A u \in Urls : TTL(u) \in Nat /\ TTL(u) > 0
    /\ \A u \in Urls : \A n \in Nat : n <= MaxChanges[u] => n \in Versions
<1>1. Discovery \in Urls /\ KeyUrls \subseteq Urls
  BY DEF Urls
<1>2. \A u \in Urls : MaxChanges[u] \in Nat
  BY JsonCacheAssumption
<1>3. \A u \in Urls : \A n \in Nat : n <= MaxChanges[u] => n \in Versions
  BY <1>2 DEF Versions
<1>4. Versions \subseteq Nat
  BY <1>2 DEF Versions
<1>5. 0 \in Versions
  BY <1>1, <1>2, <1>3
<1>6. DiscoveryTTL \in Nat /\ DiscoveryTTL > 0 /\ JwksTTL \in Nat /\ JwksTTL > 0
  BY JsonCacheAssumption
<1>7. \A u \in Urls : TTL(u) \in Nat /\ TTL(u) > 0
  BY <1>6 DEF TTL
<1> QED
  BY <1>1, <1>3, <1>4, <1>5, <1>6, <1>7

LEMMA RequestFields ==
    ASSUME NEW r \in Request
    PROVE  /\ r.at \in {"lookup", "fetch", "insert", "done"}
           /\ r.goal \in {"endpoints", "keys"} /\ r.url \in Urls
           /\ r.called \in Nat /\ r.got \in Nat /\ r.version \in Nat /\ r.version \in Versions
           /\ r.doc # None => r.doc \in Nat /\ r.doc \in Versions
BY ConstantTypes DEF Request

\* A version that was current within some time still was when more time is
\* allowed, and the issuer does not change anything.
LEMMA MoreTime ==
    ASSUME TypeOK, NEW u \in Urls, NEW v \in Versions, NEW t \in Nat, NEW d \in Nat,
           NEW e \in Nat, d <= e, CurrentWithin(u, v, t, d), v <= served[u]
    PROVE  CurrentWithin(u, v, t, e)
<1> SUFFICES ASSUME v < served[u] PROVE t < since[u][v + 1] + e
  BY DEF CurrentWithin
<1>1. t < since[u][v + 1] + d
  BY DEF CurrentWithin
<1>2. served[u] \in Nat /\ served[u] <= MaxChanges[u] /\ MaxChanges[u] \in Nat /\ v \in Nat
  BY ConstantTypes, JsonCacheAssumption DEF TypeOK
<1>3. v + 1 \in Versions
  BY <1>2, ConstantTypes
<1>4. since[u][v + 1] \in Nat
  BY <1>3 DEF TypeOK
<1> QED
  BY <1>1, <1>4

\* A change dates what was current until then: to now.
LEMMA ChangeKeepsDates ==
    ASSUME TypeOK, NEW u \in Urls, Change(u), NEW w \in Urls, NEW v \in Nat, NEW t \in Nat,
           NEW d \in Nat, v <= served[w], CurrentWithin(w, v, t, d), t < clock + d
    PROVE  /\ v < served'[w] => t < since'[w][v + 1] + d
           /\ since'[w][v] = since[w][v]
<1>0. served[w] \in Nat /\ served[u] \in Nat /\ served[u] < MaxChanges[u]
  BY DEF TypeOK, Change
<1>1. served[w] \in Nat /\ served[u] \in Nat /\ served[u] + 1 \in Versions
  <2>1. MaxChanges[u] \in Nat
    BY JsonCacheAssumption
  <2>2. served[u] + 1 \in Nat /\ served[u] + 1 <= MaxChanges[u]
    BY <1>0, <2>1
  <2> QED
    BY <1>0, <2>2, ConstantTypes
<1>2. served' = [served EXCEPT ![u] = @ + 1] /\ served \in [Urls -> Nat]
  BY DEF Change, TypeOK
<1>3. since' = [since EXCEPT ![u][served[u] + 1] = clock] /\ since \in [Urls -> [Versions -> Nat]]
  BY DEF Change, TypeOK
<1>4. CASE w # u
  BY <1>2, <1>3, <1>4 DEF CurrentWithin
<1>5. CASE w = u
  <2>1. served'[w] = served[w] + 1
    BY <1>2, <1>5
  <2>2. since'[w] = [since[w] EXCEPT ![served[w] + 1] = clock]
    BY <1>3, <1>5
  <2>3. since'[w][v] = since[w][v]
    BY <1>1, <2>2
  <2>4. CASE v < served[w]
    <3>1. since'[w][v + 1] = since[w][v + 1]
      BY <1>1, <2>2, <2>4
    <3> QED
      BY <2>3, <2>4, <3>1 DEF CurrentWithin
  <2>5. CASE v = served[w]
    <3>1. since[w] \in [Versions -> Nat] /\ served[w] + 1 \in Versions
      BY <1>1, <1>3, <1>5
    <3>2. since'[w][v + 1] = clock
      BY <2>2, <2>5, <3>1
    <3> QED
      BY <2>3, <3>2
  <2> QED
    BY <1>1, <2>4, <2>5
<1> QED
  BY <1>4, <1>5

-----------------------------------------------------------------------------
\* What holds of an entry or a request stays true while time passes and calls
\* become longer, as long as the issuer changes nothing.
LEMMA EntryAges ==
    ASSUME TypeOK, NEW u \in Urls, NEW e \in CachedJson, EntryOK(u, e),
           e.version <= served[u],
           served' = served, since' = since, longest' \in Nat, longest <= longest'
    PROVE  EntryOK(u, e)'
<1>1. e.version \in Versions /\ e.fetched \in Nat /\ longest \in Nat
  BY DEF CachedJson, TypeOK
<1>2. CurrentWithin(u, e.version, e.fetched, longest' + 1)
  BY <1>1, MoreTime DEF EntryOK
<1> QED
  BY <1>2 DEF EntryOK, CurrentWithin

LEMMA RequestAges ==
    ASSUME TypeOK, NEW r, Proper(r), RequestOK(r),
           served' = served, since' = since, clock' \in Nat, clock <= clock',
           longest' \in Nat, longest <= longest'
    PROVE  Proper(r)' /\ RequestOK(r)'
<1>1. /\ r \in Request /\ r.url \in Urls /\ r.version \in Versions /\ r.got \in Nat
      /\ r.called \in Nat /\ longest \in Nat /\ clock \in Nat
      /\ since[r.url][r.version] \in Nat
      /\ r.version <= served[r.url] /\ r.called <= clock /\ r.got <= clock
  BY RequestFields DEF Proper, TypeOK
<1>2. Proper(r)'
  BY <1>1 DEF Proper
<1>3. DocumentOK(r)'
  <2> SUFFICES ASSUME r.doc # None
               PROVE  /\ r.doc <= served[Discovery]
                      /\ CurrentWithin(Discovery, r.doc, r.called, DiscoveryTTL + longest')
    BY DEF DocumentOK, CurrentWithin
  <2>1. /\ r.doc <= served[Discovery]
        /\ CurrentWithin(Discovery, r.doc, r.called, DiscoveryTTL + longest)
    BY DEF RequestOK, DocumentOK
  <2> QED
    BY <1>1, <2>1, ConstantTypes, RequestFields, MoreTime
<1>4. AnswerOK(r)'
  BY <1>1 DEF RequestOK, AnswerOK, CurrentWithin
<1>5. DoneOK(r)'
  <2> SUFFICES ASSUME r.at = "done"
               PROVE  /\ since[r.url][r.version] <= r.got
                      /\ CurrentWithin(r.url, r.version, r.got, TTL(r.url) + longest')
                      /\ r.doc # None =>
                           CurrentWithin(Discovery, r.doc, r.got, DiscoveryTTL + 2 * longest')
    BY DEF DoneOK, CurrentWithin
  <2>1. /\ since[r.url][r.version] <= r.got
        /\ CurrentWithin(r.url, r.version, r.got, TTL(r.url) + longest)
        /\ r.doc # None =>
             /\ r.doc <= served[Discovery]
             /\ CurrentWithin(Discovery, r.doc, r.got, DiscoveryTTL + 2 * longest)
    BY DEF RequestOK, DoneOK, DocumentOK
  <2>2. TTL(r.url) \in Nat
    BY <1>1, ConstantTypes
  <2>3. CurrentWithin(r.url, r.version, r.got, TTL(r.url) + longest')
    BY <1>1, <2>1, <2>2, MoreTime
  <2>4. ASSUME r.doc # None
        PROVE  CurrentWithin(Discovery, r.doc, r.got, DiscoveryTTL + 2 * longest')
    <3>1. /\ DiscoveryTTL + 2 * longest \in Nat /\ DiscoveryTTL + 2 * longest' \in Nat
          /\ DiscoveryTTL + 2 * longest <= DiscoveryTTL + 2 * longest'
      <4>1. DiscoveryTTL \in Nat /\ longest \in Nat /\ longest' \in Nat /\ longest <= longest'
        BY <1>1, ConstantTypes
      <4> QED
        BY <4>1, TwiceMonotone
    <3>2. r.doc \in Versions /\ Discovery \in Urls /\ r.got \in Nat
      BY <1>1, <2>4, RequestFields, ConstantTypes
    <3>3. /\ r.doc <= served[Discovery]
          /\ CurrentWithin(Discovery, r.doc, r.got, DiscoveryTTL + 2 * longest)
      BY <2>1, <2>4
    <3> DEFINE d == DiscoveryTTL + 2 * longest
               e == DiscoveryTTL + 2 * longest'
    <3>4. d \in Nat /\ e \in Nat /\ d <= e /\ CurrentWithin(Discovery, r.doc, r.got, d)
      BY <3>1, <3>3
    <3> HIDE DEF d, e
    <3>5. CurrentWithin(Discovery, r.doc, r.got, e)
      BY <3>2, <3>3, <3>4, MoreTime
    <3> QED
      BY <3>5 DEF e
  <2> QED
    BY <2>1, <2>3, <2>4
<1> QED
  BY <1>2, <1>3, <1>4, <1>5 DEF RequestOK

\* They stay true when the issuer changes something: what was current before is
\* so until now.
LEMMA EntrySurvivesChange ==
    ASSUME TypeOK, NEW w \in Urls, Change(w), NEW u \in Urls, NEW e \in CachedJson,
           EntryOK(u, e), e.version <= served[u], e.fetched <= clock
    PROVE  EntryOK(u, e)'
<1>0. e.version \in Versions /\ e.fetched \in Nat
  BY DEF CachedJson
<1>1. /\ e.version \in Nat /\ e.fetched \in Nat /\ longest \in Nat /\ clock \in Nat
      /\ longest' = longest
  <2>1. e.version \in Nat
    BY <1>0, ConstantTypes
  <2>2. longest \in Nat /\ clock \in Nat
    BY DEF TypeOK
  <2> QED
    BY <1>0, <2>1, <2>2 DEF Change
<1>2. e.fetched < clock + (longest + 1)
  BY <1>1
<1>3. /\ e.version < served'[u] => e.fetched < since'[u][e.version + 1] + (longest + 1)
      /\ since'[u][e.version] = since[u][e.version]
  BY <1>1, <1>2, ChangeKeepsDates DEF EntryOK
<1> QED
  BY <1>1, <1>3 DEF EntryOK, CurrentWithin

LEMMA RequestSurvivesChange ==
    ASSUME TypeOK, NEW w \in Urls, Change(w), NEW r, Proper(r), RequestOK(r)
    PROVE  Proper(r)' /\ RequestOK(r)'
<1>1. /\ r \in Request /\ r.url \in Urls /\ r.version \in Nat /\ r.got \in Nat
      /\ r.called \in Nat /\ longest \in Nat /\ clock \in Nat
      /\ r.version <= served[r.url] /\ r.called <= clock /\ r.got <= clock
      /\ longest' = longest /\ clock' = clock
  BY RequestFields DEF Proper, TypeOK, Change
<1>2. \A u \in Urls : served[u] \in Nat /\ served'[u] \in Nat /\ served[u] <= served'[u]
  BY DEF Change, TypeOK
<1>3. Proper(r)'
  BY <1>1, <1>2 DEF Proper
<1>4. DocumentOK(r)'
  <2> SUFFICES ASSUME r.doc # None
               PROVE  /\ r.doc <= served'[Discovery]
                      /\ r.doc < served'[Discovery] =>
                           r.called < since'[Discovery][r.doc + 1] + (DiscoveryTTL + longest)
    BY <1>1 DEF DocumentOK, CurrentWithin
  <2>1. /\ r.doc \in Nat /\ r.doc <= served[Discovery]
        /\ CurrentWithin(Discovery, r.doc, r.called, DiscoveryTTL + longest)
    BY <1>1, RequestFields DEF RequestOK, DocumentOK
  <2>2. DiscoveryTTL + longest \in Nat /\ r.called < clock + (DiscoveryTTL + longest)
    BY <1>1, ConstantTypes
  <2>3. r.doc < served'[Discovery] =>
          r.called < since'[Discovery][r.doc + 1] + (DiscoveryTTL + longest)
    BY <1>1, <2>1, <2>2, ConstantTypes, ChangeKeepsDates
  <2> QED
    BY <1>2, <2>1, <2>3, ConstantTypes
<1>5. AnswerOK(r)'
  <2> SUFFICES ASSUME r.at = "insert"
               PROVE  /\ since'[r.url][r.version] <= clock
                      /\ r.version < served'[r.url] =>
                           r.called < since'[r.url][r.version + 1] + 1
    BY <1>1 DEF AnswerOK, CurrentWithin
  <2>1. since[r.url][r.version] <= clock /\ CurrentWithin(r.url, r.version, r.called, 1)
    BY DEF RequestOK, AnswerOK
  <2>2. r.called < clock + 1
    BY <1>1
  <2> QED
    BY <1>1, <2>1, <2>2, ChangeKeepsDates
<1>6. DoneOK(r)'
  <2> SUFFICES ASSUME r.at = "done"
               PROVE  /\ since'[r.url][r.version] <= r.got
                      /\ r.version < served'[r.url] =>
                           r.got < since'[r.url][r.version + 1] + (TTL(r.url) + longest)
                      /\ r.doc # None =>
                           (r.doc < served'[Discovery] =>
                              r.got < since'[Discovery][r.doc + 1]
                                          + (DiscoveryTTL + 2 * longest))
    BY <1>1 DEF DoneOK, CurrentWithin
  <2>1. /\ since[r.url][r.version] <= r.got
        /\ CurrentWithin(r.url, r.version, r.got, TTL(r.url) + longest)
        /\ r.doc # None =>
             /\ r.doc \in Nat /\ r.doc <= served[Discovery]
             /\ CurrentWithin(Discovery, r.doc, r.got, DiscoveryTTL + 2 * longest)
    BY <1>1, RequestFields DEF RequestOK, DoneOK, DocumentOK
  <2>2. /\ TTL(r.url) + longest \in Nat /\ r.got < clock + (TTL(r.url) + longest)
        /\ DiscoveryTTL + 2 * longest \in Nat
        /\ r.got < clock + (DiscoveryTTL + 2 * longest)
    <3>1. TTL(r.url) \in Nat /\ TTL(r.url) > 0 /\ DiscoveryTTL \in Nat /\ DiscoveryTTL > 0
      BY <1>1, ConstantTypes
    <3> QED
      BY <1>1, <3>1
  <2>3. /\ since'[r.url][r.version] = since[r.url][r.version]
        /\ r.version < served'[r.url] =>
             r.got < since'[r.url][r.version + 1] + (TTL(r.url) + longest)
    BY <1>1, <2>1, <2>2, ChangeKeepsDates
  <2>4. r.doc # None =>
          (r.doc < served'[Discovery] =>
             r.got < since'[Discovery][r.doc + 1] + (DiscoveryTTL + 2 * longest))
    BY <1>1, <2>1, <2>2, ConstantTypes, ChangeKeepsDates
  <2> QED
    BY <2>1, <2>3, <2>4
<1> QED
  BY <1>3, <1>4, <1>5, <1>6 DEF RequestOK

-----------------------------------------------------------------------------
\* The arithmetic of ages: an entry that is hit, an answer that is inserted, a
\* document that led to a key set.
LEMMA HitAge ==
    ASSUME NEW s \in Nat, NEW f \in Nat, NEW t \in Nat, NEW d \in Nat,
           NEW l \in Nat, NEW m \in Nat, f < s + (l + 1), t - f < d, l <= m
    PROVE  t < s + (d + m)
OBVIOUS

LEMMA InsertAge ==
    ASSUME NEW s \in Nat, NEW c \in Nat, NEW t \in Nat, NEW d \in Nat,
           NEW m \in Nat, c < s + 1, t - c <= m, d > 0
    PROVE  t < s + (m + 1) /\ t < s + (d + m)
OBVIOUS

LEMMA DocumentAge ==
    ASSUME NEW s \in Nat, NEW c \in Nat, NEW t \in Nat, NEW d \in Nat,
           NEW l \in Nat, NEW m \in Nat, c < s + (d + l), t - c <= m, l <= m
    PROVE  t < s + (d + 2 * m)
OBVIOUS

LEMMA SinceIsNat ==
    ASSUME TypeOK, NEW u \in Urls, NEW v \in Nat
    PROVE  /\ v <= served[u] => v \in Versions /\ since[u][v] \in Nat
           /\ v < served[u] => since[u][v + 1] \in Nat
<1>1. served[u] \in Nat /\ served[u] <= MaxChanges[u] /\ MaxChanges[u] \in Nat
  BY JsonCacheAssumption DEF TypeOK
<1>2. v <= served[u] => v \in Versions
  BY <1>1, ConstantTypes
<1>3. v < served[u] => v + 1 \in Versions
  BY <1>1, ConstantTypes
<1>4. \A w \in Versions : since[u][w] \in Nat
  BY DEF TypeOK
<1> QED
  BY <1>2, <1>3, <1>4

-----------------------------------------------------------------------------
\* A step in which only time passes, calls become longer and one handler goes on.
LEMMA HistoryKept ==
    ASSUME HistoryOK, served' = served, since' = since, clock' \in clock..MaxTime,
           longest' \in Nat
    PROVE  HistoryOK'
<1>1. clock \in 0..MaxTime /\ MaxTime \in Nat
  BY JsonCacheAssumption DEF HistoryOK
<1>2. clock' \in 0..MaxTime /\ clock <= clock'
  BY <1>1
<1>3. \A u \in Urls : since[u][served[u]] \in Nat /\ since[u][served[u]] <= clock
  <2>1. \A u \in Urls : served[u] \in Nat /\ MaxChanges[u] \in Nat
    BY JsonCacheAssumption DEF HistoryOK
  <2>2. \A u \in Urls : served[u] \in Versions
    BY <2>1, ConstantTypes DEF HistoryOK
  <2> QED
    BY <2>2 DEF HistoryOK
<1>4. \A u \in Urls : since[u][served[u]] <= clock'
  BY <1>1, <1>2, <1>3
<1> QED
  BY <1>2, <1>4 DEF HistoryOK

LEMMA CacheKept ==
    ASSUME IInv, cache' = cache, served' = served, since' = since, clock' \in Nat,
           clock <= clock', longest' \in Nat, longest <= longest'
    PROVE  CacheOK'
<1> SUFFICES ASSUME NEW u \in Urls, NEW e \in cache[u]
             PROVE  Fetched(u, e)' /\ EntryOK(u, e)'
  BY DEF IInv, CacheOK
<1>1. TypeOK /\ Fetched(u, e) /\ EntryOK(u, e)
  BY IInvTypes DEF IInv, CacheOK
<1>2. e.fetched \in Nat /\ clock \in Nat
  BY <1>1 DEF Fetched, CachedJson, TypeOK
<1>3. Fetched(u, e)'
  BY <1>1, <1>2 DEF Fetched
<1> QED
  BY <1>1, <1>3, EntryAges DEF Fetched

LEMMA OneRequest ==
    ASSUME IInv, NEW h \in Handlers, NEW R \in SUBSET Request,
           requests' = [requests EXCEPT ![h] = R],
           \A q \in R : R = {q} /\ Proper(q)' /\ RequestOK(q)',
           served' = served, since' = since, clock' \in Nat, clock <= clock',
           longest' \in Nat, longest <= longest'
    PROVE  RequestsOK'
<1>1. TypeOK /\ requests \in [Handlers -> SUBSET Request]
  BY IInvTypes DEF TypeOK
<1>2. requests' \in [Handlers -> SUBSET Request]
  BY <1>1
<1> SUFFICES ASSUME NEW k \in Handlers, NEW q \in requests'[k]
             PROVE  requests'[k] = {q} /\ Proper(q)' /\ RequestOK(q)'
  BY <1>2 DEF RequestsOK
<1>3. CASE k = h
  BY <1>1, <1>3
<1>4. CASE k # h
  <2>1. requests'[k] = requests[k]
    BY <1>1, <1>4
  <2>2. requests[k] = {q} /\ Proper(q) /\ RequestOK(q)
    BY <2>1 DEF IInv, RequestsOK
  <2>3. Proper(q)' /\ RequestOK(q)'
    BY <1>1, <2>2, RequestAges
  <2> QED
    BY <2>1, <2>2, <2>3
<1> QED
  BY <1>3, <1>4

LEMMA NoRequest ==
    ASSUME IInv, NEW h \in Handlers, requests' = [requests EXCEPT ![h] = {}],
           served' = served, since' = since, clock' \in Nat, clock <= clock',
           longest' \in Nat, longest <= longest'
    PROVE  RequestsOK'
<1> DEFINE R == {}
<1>1. R \in SUBSET Request /\ \A q \in R : R = {q} /\ Proper(q)' /\ RequestOK(q)'
  OBVIOUS
<1>2. requests' = [requests EXCEPT ![h] = R]
  OBVIOUS
<1> HIDE DEF R
<1> QED
  BY <1>1, <1>2, OneRequest

LEMMA NewRequest ==
    ASSUME IInv, NEW h \in Handlers, NEW q \in Request,
           requests' = [requests EXCEPT ![h] = {q}], Proper(q)', RequestOK(q)',
           served' = served, since' = since, clock' \in Nat, clock <= clock',
           longest' \in Nat, longest <= longest'
    PROVE  RequestsOK'
<1>1. PICK R \in SUBSET Request : R = {q}
  OBVIOUS
<1>2. requests' = [requests EXCEPT ![h] = R]
  BY <1>1
<1>3. \A p \in R : R = {p} /\ Proper(p)' /\ RequestOK(p)'
  BY <1>1
<1> QED
  BY <1>2, <1>3, OneRequest

-----------------------------------------------------------------------------
LEMMA ReturnLongest ==
    ASSUME TypeOK, NEW h \in Handlers, NEW r \in Request, NEW v \in Versions,
           r.called <= clock, Return(h, r, v)
    PROVE  longest' \in Nat /\ longest <= longest' /\ clock - r.called <= longest'
<1>1. longest \in Nat /\ clock \in Nat /\ r.called \in Nat
  BY RequestFields DEF TypeOK
<1>2. longest' = IF clock - r.called > longest THEN clock - r.called ELSE longest
  BY DEF Return, Longer
<1>3. clock - r.called \in Nat
  BY <1>1
<1> QED
  BY <1>1, <1>2, <1>3

\* A version that was current within TTL and longest call is passed on properly.
LEMMA ReturnOK ==
    ASSUME IInv, NEW h \in Handlers, NEW r \in requests[h], r.at # "done",
           NEW v \in Nat, v <= served[r.url], since[r.url][v] <= clock,
           Return(h, r, v), CurrentWithin(r.url, v, clock, TTL(r.url) + longest'),
           clock' = clock, served' = served, since' = since
    PROVE  RequestsOK'
<1>1. /\ TypeOK /\ r \in Request /\ Proper(r) /\ RequestOK(r)
      /\ clock \in Nat /\ longest \in Nat
  <2>1. TypeOK /\ r \in Request /\ Proper(r) /\ RequestOK(r)
    BY IInvTypes DEF IInv, RequestsOK, Proper
  <2> QED
    BY <2>1 DEF TypeOK
<1>2. v \in Versions
  <2>1. r.url \in Urls
    BY <1>1, RequestFields
  <2> QED
    BY <1>1, <2>1, SinceIsNat
<1>3. longest' \in Nat /\ longest <= longest' /\ clock - r.called <= longest'
  BY <1>1, <1>2, ReturnLongest DEF Proper
<1>0. clock' \in Nat /\ clock <= clock'
  BY <1>1
<1>4. CASE r.goal = "keys" /\ r.url = Discovery /\ UriOf[v] = None
  <2>1. requests' = [requests EXCEPT ![h] = {}]
    BY <1>4 DEF Return
  <2> QED
    BY <1>0, <1>3, <2>1, NoRequest
<1>5. CASE r.goal = "keys" /\ r.url = Discovery /\ UriOf[v] # None
  <2>0. PICK q : q = Call("keys", UriOf[v], v)
    OBVIOUS
  <2>1. requests' = [requests EXCEPT ![h] = {q}]
    BY <1>5, <2>0 DEF Return
  <2>2. UriOf[v] \in Urls
    BY <1>2, <1>5, JsonCacheAssumption, ConstantTypes
  <2>3. q \in Request
    BY <1>1, <1>2, <2>0, <2>2, ConstantTypes DEF Call, Request
  <2>4. Proper(q)'
    <3>1. served[UriOf[v]] \in Nat
      BY <1>1, <2>2 DEF TypeOK
    <3> QED
      BY <1>1, <2>0, <2>3, <3>1 DEF Call, Proper
  <2>5. RequestOK(q)'
    <3>1. /\ q.at = "lookup" /\ q.doc = v /\ q.called = clock
      BY <2>0 DEF Call
    <3>2. v <= served[Discovery] /\ CurrentWithin(Discovery, v, clock, DiscoveryTTL + longest')
      BY <1>5 DEF TTL
    <3> QED
      BY <3>1, <3>2 DEF RequestOK, DocumentOK, AnswerOK, DoneOK, CurrentWithin
  <2> QED
    BY <1>0, <1>3, <2>1, <2>3, <2>4, <2>5, NewRequest
<1>6. CASE ~(r.goal = "keys" /\ r.url = Discovery)
  <2>0. PICK q : q = [r EXCEPT !.at = "done", !.version = v, !.got = clock]
    OBVIOUS
  <2>1. requests' = [requests EXCEPT ![h] = {q}]
    BY <1>6, <2>0 DEF Return
  <2>2. q \in Request
    BY <1>1, <1>2, <2>0 DEF Request
  <2>3. /\ q.at = "done" /\ q.version = v /\ q.got = clock /\ q.doc = r.doc
        /\ q.url = r.url /\ q.called = r.called
    BY <1>1, <2>0 DEF Request
  <2>4. Proper(q)'
    BY <1>1, <2>2, <2>3 DEF Proper
  <2>5. DocumentOK(r)' /\ r.called \in Nat
    <3>1. RequestOK(r)'
      BY <1>1, <1>3, RequestAges
    <3> QED
      BY <1>1, <3>1, RequestFields DEF RequestOK
  <2>6. ASSUME r.doc # None
        PROVE  CurrentWithin(Discovery, r.doc, clock, DiscoveryTTL + 2 * longest')
    <3> SUFFICES ASSUME r.doc < served[Discovery]
                 PROVE  clock < since[Discovery][r.doc + 1] + (DiscoveryTTL + 2 * longest')
      BY DEF CurrentWithin
    <3>1. r.called < since[Discovery][r.doc + 1] + (DiscoveryTTL + longest)
      BY <1>1, <2>6 DEF RequestOK, DocumentOK, CurrentWithin
    <3>2. since[Discovery][r.doc + 1] \in Nat /\ DiscoveryTTL \in Nat
      BY <1>1, <2>6, RequestFields, ConstantTypes, SinceIsNat
    <3> QED
      BY <1>1, <1>3, <2>5, <3>1, <3>2, DocumentAge
  <2>7. RequestOK(q)'
    BY <2>3, <2>5, <2>6 DEF RequestOK, DocumentOK, AnswerOK, DoneOK, CurrentWithin
  <2> QED
    BY <1>0, <1>3, <2>1, <2>2, <2>4, <2>7, NewRequest
<1> QED
  BY <1>4, <1>5, <1>6

-----------------------------------------------------------------------------
LEMMA TickOK == IInv /\ Tick => IInv'
<1> SUFFICES ASSUME IInv, Tick PROVE IInv'
  OBVIOUS
<1>1. clock \in Nat /\ clock <= MaxTime /\ MaxTime \in Nat /\ longest \in Nat
  BY JsonCacheAssumption DEF IInv, HistoryOK
<1>2. /\ clock' = clock + 1 /\ clock < MaxTime /\ served' = served /\ since' = since
      /\ cache' = cache /\ requests' = requests /\ longest' = longest
  BY DEF Tick
<1>3. clock' \in clock..MaxTime /\ clock' \in Nat /\ clock <= clock'
  BY <1>1, <1>2
<1>4. HistoryOK'
  BY <1>1, <1>2, <1>3, HistoryKept DEF IInv
<1>5. CacheOK'
  BY <1>1, <1>2, <1>3, CacheKept
<1>6. RequestsOK'
  <2> SUFFICES ASSUME NEW h \in Handlers, NEW r \in requests[h]
               PROVE  Proper(r)' /\ RequestOK(r)'
    BY <1>2 DEF IInv, RequestsOK
  <2>1. TypeOK /\ Proper(r) /\ RequestOK(r)
    BY IInvTypes DEF IInv, RequestsOK
  <2> QED
    BY <1>1, <1>2, <1>3, <2>1, RequestAges
<1> QED
  BY <1>4, <1>5, <1>6 DEF IInv

LEMMA ChangeOK == ASSUME IInv, NEW u \in Urls, Change(u) PROVE IInv'
<1>1. TypeOK
  BY IInvTypes
<1>2. /\ served[u] < MaxChanges[u] /\ served' = [served EXCEPT ![u] = @ + 1]
      /\ since' = [since EXCEPT ![u][served[u] + 1] = clock]
      /\ clock' = clock /\ cache' = cache /\ requests' = requests /\ longest' = longest
  BY DEF Change
<1>3. /\ clock \in 0..MaxTime /\ clock \in Nat /\ longest \in Nat
      /\ served \in [Urls -> Nat] /\ since \in [Urls -> [Versions -> Nat]]
      /\ \A w \in Urls : served[w] <= MaxChanges[w] /\ since[w][served[w]] <= clock
  BY DEF IInv, HistoryOK
<1>4. served[u] + 1 \in Versions /\ served[u] + 1 <= MaxChanges[u]
  <2>1. MaxChanges[u] \in Nat /\ served[u] \in Nat
    BY <1>3, JsonCacheAssumption
  <2>2. served[u] + 1 \in Nat /\ served[u] + 1 <= MaxChanges[u]
    BY <1>2, <2>1
  <2> QED
    BY <2>2, ConstantTypes
<1>5. HistoryOK'
  <2>1. served' \in [Urls -> Nat] /\ since' \in [Urls -> [Versions -> Nat]]
    BY <1>2, <1>3, <1>4
  <2>2. ASSUME NEW w \in Urls
        PROVE  served'[w] <= MaxChanges[w] /\ since'[w][served'[w]] <= clock
    <3>1. CASE w = u
      <4>1. served'[w] = served[w] + 1 /\ since'[w] = [since[w] EXCEPT ![served[w] + 1] = clock]
        BY <1>2, <1>3, <3>1
      <4>2. since'[w][served'[w]] = clock
        BY <1>3, <1>4, <3>1, <4>1
      <4> QED
        BY <1>3, <1>4, <3>1, <4>1, <4>2
    <3>2. CASE w # u
      <4>1. served'[w] = served[w] /\ since'[w] = since[w]
        BY <1>2, <1>3, <3>2
      <4> QED
        BY <1>3, <4>1
    <3> QED
      BY <3>1, <3>2
  <2> QED
    BY <1>2, <1>3, <2>1, <2>2 DEF HistoryOK
<1>6. CacheOK'
  <2> SUFFICES ASSUME NEW w \in Urls, NEW e \in cache[w]
               PROVE  Fetched(w, e)' /\ EntryOK(w, e)'
    BY <1>2 DEF IInv, CacheOK
  <2>1. Fetched(w, e) /\ EntryOK(w, e) /\ e \in CachedJson
    BY DEF IInv, CacheOK, Fetched
  <2>2. EntryOK(w, e)'
    BY <1>1, <2>1, EntrySurvivesChange DEF Fetched
  <2>3. Fetched(w, e)'
    <3>1. e.version \in Nat
      BY <2>1, ConstantTypes DEF CachedJson
    <3>2. served[w] \in Nat /\ served'[w] \in Nat /\ served[w] <= served'[w]
      BY <1>2, <1>3
    <3> QED
      BY <1>2, <2>1, <3>1, <3>2 DEF Fetched
  <2> QED
    BY <2>2, <2>3
<1>7. RequestsOK'
  <2> SUFFICES ASSUME NEW h \in Handlers, NEW r \in requests[h]
               PROVE  Proper(r)' /\ RequestOK(r)'
    BY <1>2 DEF IInv, RequestsOK
  <2>1. Proper(r) /\ RequestOK(r)
    BY DEF IInv, RequestsOK
  <2> QED
    BY <1>1, <2>1, RequestSurvivesChange
<1> QED
  BY <1>5, <1>6, <1>7 DEF IInv

\* The actions in which a handler goes on without the answer of cached_json.
LEMMA HandlerOnlyOK ==
    ASSUME IInv, NEW h \in Handlers, UNCHANGED <<clock, served, since, cache, longest>>,
           \/ requests' = [requests EXCEPT ![h] = {}]
           \/ \E q \in Request : /\ requests' = [requests EXCEPT ![h] = {q}]
                                  /\ Proper(q) /\ RequestOK(q)
    PROVE  IInv'
<1>1. /\ clock \in Nat /\ clock <= MaxTime /\ MaxTime \in Nat /\ longest \in Nat
      /\ clock' = clock /\ served' = served /\ since' = since /\ cache' = cache
      /\ longest' = longest
  BY JsonCacheAssumption DEF IInv, HistoryOK
<1>2. /\ clock' \in clock..MaxTime /\ clock' \in Nat /\ clock <= clock'
      /\ longest' \in Nat /\ longest <= longest'
  BY <1>1
<1>3. HistoryOK'
  BY <1>1, <1>2, HistoryKept DEF IInv
<1>4. CacheOK'
  BY <1>1, <1>2, CacheKept
<1>5. RequestsOK'
  <2>1. CASE requests' = [requests EXCEPT ![h] = {}]
    BY <1>1, <1>2, <2>1, NoRequest
  <2>2. ASSUME NEW q \in Request, requests' = [requests EXCEPT ![h] = {q}],
               Proper(q), RequestOK(q)
        PROVE  RequestsOK'
    <3>1. Proper(q)' /\ RequestOK(q)'
      BY <1>1, <1>2, <2>2, IInvTypes, RequestAges
    <3> QED
      BY <1>1, <1>2, <2>2, <3>1, NewRequest
  <2> QED
    BY <2>1, <2>2
<1> QED
  BY <1>3, <1>4, <1>5 DEF IInv

LEMMA InProgress ==
    ASSUME IInv, NEW h \in Handlers, NEW r \in requests[h]
    PROVE  /\ TypeOK /\ Proper(r) /\ RequestOK(r) /\ r \in Request
           /\ r.url \in Urls /\ r.called \in Nat /\ r.version \in Nat
           /\ clock \in Nat /\ longest \in Nat /\ served[r.url] \in Nat
<1>1. TypeOK /\ Proper(r) /\ RequestOK(r) /\ r \in Request
  BY IInvTypes DEF IInv, RequestsOK, Proper
<1>2. r.url \in Urls /\ r.called \in Nat /\ r.version \in Nat
  BY <1>1, RequestFields
<1> QED
  BY <1>1, <1>2 DEF TypeOK

LEMMA StartOK ==
    ASSUME IInv, NEW h \in Handlers, NEW need \in Needs, Start(h, need[1], need[2])
    PROVE  IInv'
<1>1. need[1] \in {"endpoints", "keys"} /\ need[2] \in Urls
  BY JsonCacheAssumption, ConstantTypes
<1>2. PICK q : q = Call(need[1], need[2], None)
  OBVIOUS
<1>3. clock \in Nat /\ served[need[2]] \in Nat
  BY <1>1, IInvTypes DEF TypeOK
<1>4. q \in Request
  BY <1>1, <1>2, <1>3, ConstantTypes DEF Call, Request
<1>5. Proper(q)
  BY <1>1, <1>2, <1>3, <1>4 DEF Call, Proper
<1>6. RequestOK(q)
  BY <1>2 DEF Call, RequestOK, DocumentOK, AnswerOK, DoneOK
<1> QED
  BY <1>2, <1>4, <1>5, <1>6, HandlerOnlyOK DEF Start

LEMMA MissOK == ASSUME IInv, NEW h \in Handlers, Miss(h) PROVE IInv'
<1>1. PICK r \in requests[h] : requests' = [requests EXCEPT ![h] = {[r EXCEPT !.at = "fetch"]}]
  BY DEF Miss
<1>2. PICK q : q = [r EXCEPT !.at = "fetch"]
  OBVIOUS
<1>3. Proper(r) /\ RequestOK(r) /\ r \in Request
  BY InProgress
<1>4. q \in Request
  BY <1>2, <1>3 DEF Request
<1>5. /\ q.at = "fetch" /\ q.doc = r.doc /\ q.called = r.called /\ q.url = r.url
      /\ q.got = r.got /\ q.version = r.version
  BY <1>2, <1>3 DEF Request
<1>6. Proper(q)
  BY <1>3, <1>4, <1>5 DEF Proper
<1>7. RequestOK(q)
  BY <1>3, <1>5 DEF RequestOK, DocumentOK, AnswerOK, DoneOK
<1> QED
  BY <1>1, <1>2, <1>4, <1>6, <1>7, HandlerOnlyOK DEF Miss

LEMMA AnswerStepOK == ASSUME IInv, NEW h \in Handlers, Answer(h) PROVE IInv'
<1>1. PICK r \in requests[h] :
        requests' = [requests EXCEPT ![h] =
                       {[r EXCEPT !.at = "insert", !.version = served[r.url]]}]
  BY DEF Answer
<1>2. PICK q : q = [r EXCEPT !.at = "insert", !.version = served[r.url]]
  OBVIOUS
<1>3. /\ TypeOK /\ Proper(r) /\ RequestOK(r) /\ r \in Request /\ r.url \in Urls
      /\ served[r.url] \in Nat
  BY InProgress
<1>4. q \in Request
  <2>1. served[r.url] <= served[r.url]
    BY <1>3
  <2>2. served[r.url] \in Versions
    BY <1>3, <2>1, SinceIsNat
  <2> QED
    BY <1>2, <1>3, <2>2 DEF Request
<1>5. /\ q.at = "insert" /\ q.doc = r.doc /\ q.called = r.called /\ q.url = r.url
      /\ q.got = r.got /\ q.version = served[r.url]
  BY <1>2, <1>3 DEF Request
<1>6. Proper(q)
  BY <1>3, <1>4, <1>5 DEF Proper
<1>7. since[r.url][served[r.url]] <= clock
  BY <1>3 DEF IInv, HistoryOK
<1>8. RequestOK(q)
  BY <1>3, <1>5, <1>7 DEF RequestOK, DocumentOK, AnswerOK, DoneOK, CurrentWithin
<1> QED
  BY <1>1, <1>2, <1>4, <1>6, <1>8, HandlerOnlyOK DEF Answer

LEMMA HitOK == ASSUME IInv, NEW h \in Handlers, Hit(h) PROVE IInv'
<1>1. PICK r \in requests[h] : \E e \in cache[r.url] :
        /\ r.at = "lookup" /\ clock - e.fetched < TTL(r.url) /\ Return(h, r, e.version)
  BY DEF Hit
<1>2. PICK e \in cache[r.url] :
        /\ r.at = "lookup" /\ clock - e.fetched < TTL(r.url) /\ Return(h, r, e.version)
  BY <1>1
<1>3. /\ TypeOK /\ Proper(r) /\ r \in Request /\ r.url \in Urls
      /\ r.called <= clock /\ clock \in Nat /\ longest \in Nat
  BY InProgress DEF Proper
<1>4. Fetched(r.url, e) /\ EntryOK(r.url, e)
  BY <1>3 DEF IInv, CacheOK
<1>5. e.version \in Versions /\ e.fetched \in Nat
  BY <1>4 DEF Fetched, CachedJson
<1>6. e.version \in Nat /\ TTL(r.url) \in Nat
  BY <1>3, <1>5, ConstantTypes
<1>7. longest' \in Nat /\ longest <= longest'
  BY <1>2, <1>3, <1>5, ReturnLongest
<1>8. /\ clock' = clock /\ served' = served /\ since' = since /\ cache' = cache
  BY DEF Hit
<1>9. CurrentWithin(r.url, e.version, clock, TTL(r.url) + longest')
  <2> SUFFICES ASSUME e.version < served[r.url]
               PROVE  clock < since[r.url][e.version + 1] + (TTL(r.url) + longest')
    BY DEF CurrentWithin
  <2>1. e.fetched < since[r.url][e.version + 1] + (longest + 1)
    BY <1>4 DEF EntryOK, CurrentWithin
  <2>2. since[r.url][e.version + 1] \in Nat
    BY <1>3, <1>6, SinceIsNat
  <2> QED
    BY <1>2, <1>3, <1>5, <1>6, <1>7, <2>1, <2>2, HitAge
<1>10. e.version <= served[r.url] /\ since[r.url][e.version] <= clock
  <2>1. since[r.url][e.version] \in Nat /\ since[r.url][e.version] <= e.fetched
    BY <1>3, <1>4, <1>6, SinceIsNat DEF EntryOK, Fetched
  <2> QED
    BY <1>3, <1>4, <1>5, <2>1 DEF Fetched
<1>11. RequestsOK'
  BY <1>2, <1>6, <1>8, <1>9, <1>10, ReturnOK
<1>12. clock' \in Nat /\ clock <= clock' /\ clock' \in clock..MaxTime
  BY <1>3, <1>8, JsonCacheAssumption DEF IInv, HistoryOK
<1>13. HistoryOK'
  BY <1>7, <1>8, <1>12, HistoryKept DEF IInv
<1>14. CacheOK'
  BY <1>7, <1>8, <1>12, CacheKept
<1> QED
  BY <1>11, <1>13, <1>14 DEF IInv

LEMMA InsertOK == ASSUME IInv, NEW h \in Handlers, Insert(h) PROVE IInv'
<1>1. PICK r \in requests[h] :
        /\ r.at = "insert" /\ Return(h, r, r.version)
        /\ cache' = [cache EXCEPT ![r.url] = {[version |-> r.version, fetched |-> clock]}]
  BY DEF Insert
<1>2. /\ TypeOK /\ Proper(r) /\ RequestOK(r) /\ r \in Request /\ r.url \in Urls
      /\ r.version \in Nat /\ r.version <= served[r.url] /\ r.called \in Nat
      /\ r.called <= clock /\ clock \in Nat /\ longest \in Nat
  BY InProgress DEF Proper
<1>3. r.version \in Versions
  BY <1>2, SinceIsNat
<1>4. longest' \in Nat /\ longest <= longest' /\ clock - r.called <= longest'
  BY <1>1, <1>2, <1>3, ReturnLongest
<1>5. clock' = clock /\ served' = served /\ since' = since
  BY DEF Insert
<1>6. since[r.url][r.version] <= clock /\ CurrentWithin(r.url, r.version, r.called, 1)
  BY <1>1, <1>2 DEF RequestOK, AnswerOK
<1>7. /\ CurrentWithin(r.url, r.version, clock, longest' + 1)
      /\ CurrentWithin(r.url, r.version, clock, TTL(r.url) + longest')
  <2> SUFFICES ASSUME r.version < served[r.url]
               PROVE  /\ clock < since[r.url][r.version + 1] + (longest' + 1)
                      /\ clock < since[r.url][r.version + 1] + (TTL(r.url) + longest')
    BY DEF CurrentWithin
  <2>1. r.called < since[r.url][r.version + 1] + 1
    BY <1>6 DEF CurrentWithin
  <2>2. /\ since[r.url][r.version + 1] \in Nat
        /\ TTL(r.url) \in Nat /\ TTL(r.url) > 0
    BY <1>2, SinceIsNat, ConstantTypes
  <2> QED
    BY <1>2, <1>4, <2>1, <2>2, InsertAge
<1>8. RequestsOK'
  BY <1>1, <1>2, <1>5, <1>6, <1>7, ReturnOK
<1>9. clock' \in Nat /\ clock <= clock' /\ clock' \in clock..MaxTime
  BY <1>2, <1>5, JsonCacheAssumption DEF IInv, HistoryOK
<1>10. HistoryOK'
  BY <1>4, <1>5, <1>9, HistoryKept DEF IInv
<1>11. CacheOK'
  <2>1. PICK n : n = [version |-> r.version, fetched |-> clock]
    OBVIOUS
  <2>2. n \in CachedJson /\ n.version = r.version /\ n.fetched = clock
    BY <1>2, <1>3, <2>1 DEF CachedJson
  <2>3. cache \in [Urls -> SUBSET CachedJson] /\ cache' = [cache EXCEPT ![r.url] = {n}]
    BY <1>1, <1>2, <2>1 DEF TypeOK
  <2>4. cache' \in [Urls -> SUBSET CachedJson]
    BY <2>2, <2>3
  <2> SUFFICES ASSUME NEW u \in Urls, NEW e \in cache'[u]
               PROVE  cache'[u] = {e} /\ Fetched(u, e)' /\ EntryOK(u, e)'
    BY <2>4 DEF CacheOK
  <2>5. CASE u = r.url
    <3>1. e = n /\ cache'[u] = {n}
      BY <1>2, <2>3, <2>5
    <3>2. Fetched(u, n)'
      BY <1>2, <1>5, <2>2, <2>5 DEF Fetched
    <3>3. EntryOK(u, n)'
      BY <1>5, <1>6, <1>7, <2>2, <2>5 DEF EntryOK, CurrentWithin
    <3> QED
      BY <3>1, <3>2, <3>3
  <2>6. CASE u # r.url
    <3>1. cache'[u] = cache[u]
      BY <1>2, <2>3, <2>6
    <3>2. cache[u] = {e} /\ Fetched(u, e) /\ EntryOK(u, e)
      BY <3>1 DEF IInv, CacheOK
    <3>3. EntryOK(u, e)'
      BY <1>2, <1>4, <1>5, <3>2, EntryAges DEF Fetched
    <3> QED
      BY <1>5, <3>1, <3>2, <3>3 DEF Fetched
  <2> QED
    BY <2>5, <2>6
<1> QED
  BY <1>8, <1>10, <1>11 DEF IInv

LEMMA RestartOK == IInv /\ Restart => IInv'
<1> SUFFICES ASSUME IInv, Restart PROVE IInv'
  OBVIOUS
<1>1. /\ clock' = clock /\ served' = served /\ since' = since /\ longest' = longest
      /\ cache' = [u \in Urls |-> {}] /\ requests' = [h \in Handlers |-> {}]
  BY DEF Restart
<1>2. HistoryOK'
  BY <1>1 DEF IInv, HistoryOK
<1>3. CacheOK' /\ RequestsOK'
  BY <1>1 DEF CacheOK, RequestsOK
<1> QED
  BY <1>2, <1>3 DEF IInv

-----------------------------------------------------------------------------
LEMMA InitOK == Init => IInv
<1> SUFFICES ASSUME Init PROVE IInv
  OBVIOUS
<1>1. /\ clock = 0 /\ served = [u \in Urls |-> 0] /\ longest = 0
      /\ since = [u \in Urls |-> [v \in Versions |-> 0]]
      /\ cache = [u \in Urls |-> {}] /\ requests = [h \in Handlers |-> {}]
  BY DEF Init
<1>2. /\ 0 \in 0..MaxTime /\ 0 \in Versions /\ \A u \in Urls : 0 <= MaxChanges[u]
  BY JsonCacheAssumption, ConstantTypes
<1>3. HistoryOK
  <2>1. served \in [Urls -> Nat] /\ since \in [Urls -> [Versions -> Nat]]
    BY <1>1
  <2>2. \A u \in Urls : served[u] = 0 /\ since[u][served[u]] = 0
    BY <1>1, <1>2
  <2> QED
    BY <1>1, <1>2, <2>1, <2>2 DEF HistoryOK
<1>4. CacheOK /\ RequestsOK
  BY <1>1 DEF CacheOK, RequestsOK
<1> QED
  BY <1>3, <1>4 DEF IInv

LEMMA StepOK == IInv /\ [Next]_vars => IInv'
<1> SUFFICES ASSUME IInv, [Next]_vars PROVE IInv'
  OBVIOUS
<1>1. CASE Tick
  BY <1>1, TickOK
<1>2. CASE \E u \in Urls : Change(u)
  BY <1>2, ChangeOK
<1>3. ASSUME NEW h \in Handlers, \E need \in Needs : Start(h, need[1], need[2])
      PROVE  IInv'
  BY <1>3, StartOK
<1>4. ASSUME NEW h \in Handlers, Hit(h) PROVE IInv'
  BY <1>4, HitOK
<1>5. ASSUME NEW h \in Handlers, Miss(h) PROVE IInv'
  BY <1>5, MissOK
<1>6. ASSUME NEW h \in Handlers, Answer(h) PROVE IInv'
  BY <1>6, AnswerStepOK
<1>7. ASSUME NEW h \in Handlers, Insert(h) PROVE IInv'
  BY <1>7, InsertOK
<1>8. CASE Restart
  BY <1>8, RestartOK
<1>9. ASSUME NEW h \in Handlers, Leave(h) PROVE IInv'
  BY <1>9, HandlerOnlyOK DEF Leave
<1>10. CASE UNCHANGED vars
  BY <1>10 DEF vars, IInv, HistoryOK, CacheOK, RequestsOK, Fetched, EntryOK, Proper,
               RequestOK, DocumentOK, AnswerOK, DoneOK, CurrentWithin
<1> QED
  BY <1>1, <1>2, <1>3, <1>4, <1>5, <1>6, <1>7, <1>8, <1>9, <1>10 DEF Next

LEMMA Invariance == Spec => []IInv
BY InitOK, StepOK, PTL DEF Spec

\* Entries and requests are what they are declared to be, no answer is newer than
\* what the issuer serves, and none was stored in the future.
THEOREM TypeCorrect == Spec => []TypeOK
BY Invariance, IInvTypes, PTL

LEMMA DoneRequests ==
    ASSUME IInv, NEW goal, NEW r \in Done(goal)
    PROVE  /\ r.at = "done" /\ r.goal = goal /\ TypeOK /\ Proper(r) /\ RequestOK(r)
           /\ r.url \in Urls /\ r.version \in Nat
<1>1. PICK h \in Handlers : r \in requests[h]
  BY DEF Done
<1>2. r.at = "done" /\ r.goal = goal
  BY DEF Done
<1> QED
  BY <1>1, <1>2, InProgress

\* cached_json hands out nothing that was replaced more than a TTL and the longest
\* call ago, for any number of requests that overlap in any way; and the URL a key
\* set was read from comes from a document that was current within its TTL and two
\* calls.
THEOREM StaleAtMostHolds == Spec => []StaleAtMost
<1>1. IInv => StaleAtMost
  <2> SUFFICES ASSUME IInv, NEW goal \in {"endpoints", "keys"}, NEW r \in Done(goal)
               PROVE  /\ CurrentWithin(r.url, r.version, r.got, TTL(r.url) + longest)
                      /\ goal = "keys" /\ r.doc # None =>
                           CurrentWithin(Discovery, r.doc, r.got, DiscoveryTTL + 2 * longest)
    BY DEF StaleAtMost
  <2> QED
    BY DoneRequests DEF RequestOK, DoneOK
<1> QED
  BY Invariance, <1>1, PTL

\* A rollover in which every key set of the last TTL and call verifies a token does
\* not lose the token, and none is accepted that no such key set verifies.
THEOREM RolloverSafeHolds == Spec => []RolloverSafe
<1>1. IInv => RolloverSafe
  <2> SUFFICES ASSUME IInv, NEW r \in Done("keys"), NEW token \in Tokens, r.url # Discovery
               PROVE  \E v \in Recent(r.url, r.got, JwksTTL + longest) :
                         KeysOf[r.url][v] = KeysOf[r.url][r.version]
    BY DEF RolloverSafe
  <2>1. /\ r.at = "done" /\ TypeOK /\ Proper(r) /\ RequestOK(r)
        /\ r.url \in Urls /\ r.version \in Nat
    BY DoneRequests
  <2>2. r.version \in 0..served[r.url]
    <3>1. served[r.url] \in Nat /\ r.version <= served[r.url]
      BY <2>1 DEF TypeOK, Proper
    <3> QED
      BY <2>1, <3>1
  <2>3. /\ since[r.url][r.version] <= r.got
        /\ CurrentWithin(r.url, r.version, r.got, JwksTTL + longest)
    BY <2>1 DEF RequestOK, DoneOK, TTL
  <2> QED
    BY <2>2, <2>3 DEF Recent
<1> QED
  BY Invariance, <1>1, PTL
=============================================================================
