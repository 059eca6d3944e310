--------------------------- MODULE JwtChecksProofs ---------------------------
(***************************************************************************)
(* For any keys, clocks, lifetimes and TTLs, and however a signer changes  *)
(* its keys: what the relay's two token checks accept and refuse.  The     *)
(* invariant says what a key set in the cache still tells of the keys that *)
(* are published, and what a token is known to be when it is judged.       *)
(***************************************************************************)
EXTENDS JwtChecks, FiniteSetTheorems, TLAPS

\* A key in the cached set is published, or was when the set was fetched; and one that
\* had been published before is in it.
CacheTells ==
    cache # None =>
        /\ \A k \in cache.keys :
             k \in Published \/ (k \in DOMAIN gone /\ gone[k] >= cache.fetched)
        /\ \A k \in Published : since[k] < cache.fetched => k \in cache.keys

\* An ID token as an issuer makes it, that of our grant for us among others.
Issued(t) ==
    /\ t \in IdToken /\ t.at <= clock
    /\ Customary(t.client, t.aud, t.azp)
    /\ Ours(t) => Us \in t.aud

JwtIsIssued ==
    at # "nowhere" =>
        IF setup.use = "id_token" THEN jwt \in {Unread, Unusable} \/ Issued(jwt)
        ELSE jwt \in Assertion

\* A request is answered once, and a code is presented while it is fresh.
Unanswered == at # "judged" => answer = None
PresentedInTime == at = "request" /\ setup.use = "id_token" => opened - sealed <= CodeTtl

IInv == TypeOK /\ CacheTells /\ JwtIsIssued /\ Unanswered /\ PresentedInTime

-----------------------------------------------------------------------------
\* How many audiences there are is a number.
LEMMA AudienceCount == ASSUME NEW aud \in SUBSET Clients PROVE Cardinality(aud) \in Nat
<1>1. IsFiniteSet({}) /\ IsFiniteSet({} \cup {Us})
  BY FS_EmptySet, FS_AddElement
<1>2. IsFiniteSet(({} \cup {Us}) \cup {"other client"})
  BY <1>1, FS_AddElement
<1>3. Clients = ({} \cup {Us}) \cup {"other client"}
  BY DEF Clients
<1> QED
  BY <1>2, <1>3, FS_Subset, FS_CardinalityType

LEMMA LongestLife == Max(Lives) \in Lives
BY JwtAssumption DEF Max

\* What the checks compare are numbers.
LEMMA Times ==
    ASSUME TypeOK
    PROVE  /\ clock \in Nat /\ sealed \in Nat /\ opened \in Nat
           /\ CodeTtl \in Nat /\ JwksTtl \in Nat \ {0} /\ IatSkew \in Nat /\ Leeway \in Nat
           /\ \A k \in Published : k \in Keys /\ since[k] \in Int /\ since[k] <= clock
           /\ \A k \in DOMAIN gone : k \in Keys /\ gone[k] \in Nat /\ gone[k] <= clock
           /\ cache # None => /\ cache.keys \subseteq Keys
                             /\ cache.fetched \in Nat /\ cache.fetched <= clock
           /\ setup \in Setup
BY JwtAssumption DEF TypeOK, Long

\* Nothing happens to a token once it is judged.
LEMMA JudgedForGood ==
    ASSUME at = "judged", [Next]_vars
    PROVE  UNCHANGED vars
BY DEF Next, Publish, SwitchTo, Withdraw, Going, AnswerRight, AnswerMixedUp, AnswerUnread,
       AnswerUnusable, Assert, Seal, Present, ReadByAnother, KeysUnavailable, Undecided,
       Judge, JudgeAtOnce, Tick

-----------------------------------------------------------------------------
\* The signer, the clock and the cache: steps that leave the token alone.

LEMMA PublishOK ==
    ASSUME IInv, NEW k \in Keys, Publish(k)
    PROVE  IInv'
<1>1. /\ since' = [x \in Published \cup {k} |-> IF x = k THEN clock ELSE since[x]]
      /\ UNCHANGED <<setup, clock, gone, signing, cache, jwt, at, sealed, opened, answer>>
      /\ k \notin Published \cup DOMAIN gone
      /\ TypeOK
  BY DEF IInv, Publish
<1>2. Published' = Published \cup {k} /\ since'[k] = clock
  BY <1>1 DEF Published
<1>3. \A x \in Published : since'[x] = since[x]
  BY <1>1
<1>4. clock \in Nat /\ clock \in Long..clock
  BY <1>1, Times DEF Long
<1>5. TypeOK'
  BY <1>1, <1>2, <1>3, <1>4 DEF TypeOK
<1>6. CacheTells'
  BY <1>1, <1>2, <1>3, Times DEF IInv, CacheTells
<1> QED
  BY <1>1, <1>5, <1>6
     DEF IInv, JwtIsIssued, Issued, Ours, Unanswered, PresentedInTime

LEMMA SwitchToOK ==
    ASSUME IInv, NEW k \in Keys, SwitchTo(k)
    PROVE  IInv'
BY DEF IInv, SwitchTo, TypeOK, Published, CacheTells, JwtIsIssued, Issued, Ours, Unanswered,
       PresentedInTime

LEMMA WithdrawOK ==
    ASSUME IInv, NEW k \in Keys, Withdraw(k)
    PROVE  IInv'
<1>1. /\ since' = [x \in Published \ {k} |-> since[x]]
      /\ gone' = [x \in DOMAIN gone \cup {k} |-> IF x = k THEN clock ELSE gone[x]]
      /\ UNCHANGED <<setup, clock, signing, cache, jwt, at, sealed, opened, answer>>
      /\ k \in Published \ {signing}
      /\ TypeOK
  BY DEF IInv, Withdraw
<1>2. /\ Published' = Published \ {k} /\ \A x \in Published' : since'[x] = since[x]
  BY <1>1 DEF Published
<1>3. /\ DOMAIN gone' = DOMAIN gone \cup {k} /\ gone'[k] = clock
      /\ \A x \in DOMAIN gone : x # k => gone'[x] = gone[x]
  BY <1>1
<1>4. clock \in Nat /\ clock \in 0..clock
  BY <1>1, Times
<1>5. TypeOK'
  BY <1>1, <1>2, <1>3, <1>4 DEF TypeOK
<1>6. CacheTells'
  BY <1>1, <1>2, <1>3, Times DEF IInv, CacheTells
<1> QED
  BY <1>1, <1>5, <1>6
     DEF IInv, JwtIsIssued, Issued, Ours, Unanswered, PresentedInTime

LEMMA FetchedTells ==
    ASSUME TypeOK, cache' = Fetched, UNCHANGED <<clock, since, gone>>
    PROVE  CacheTells' /\ Fetched \in [keys : SUBSET Keys, fetched : 0..clock]
<1>1. Fetched.keys = Published /\ Fetched.fetched = clock
  BY DEF Fetched
<1>2. CacheTells'
  BY <1>1, Times DEF CacheTells, Published
<1> QED
  BY <1>2, Times DEF Fetched

LEMMA ReadByAnotherOK == ASSUME IInv, ReadByAnother PROVE IInv'
<1>1. /\ cache' = Fetched
      /\ UNCHANGED <<setup, clock, since, gone, signing, jwt, at, sealed, opened, answer>>
      /\ TypeOK
  BY DEF IInv, ReadByAnother, signer
<1>2. CacheTells' /\ Fetched \in [keys : SUBSET Keys, fetched : 0..clock]
  BY <1>1, FetchedTells
<1>3. TypeOK'
  BY <1>1, <1>2 DEF TypeOK, Published
<1> QED
  BY <1>1, <1>2, <1>3
     DEF IInv, JwtIsIssued, Issued, Ours, Unanswered, PresentedInTime

LEMMA TickOK == ASSUME IInv, Tick PROVE IInv'
<1>1. /\ clock' = clock + 1 /\ clock' \in 0..MaxClock
      /\ UNCHANGED <<setup, since, gone, signing, cache, jwt, at, sealed, opened, answer>>
      /\ TypeOK /\ clock \in Nat
  BY JwtAssumption, Times DEF IInv, Tick, signer, TypeOK
<1>2. /\ Long..clock \subseteq Long..clock' /\ 0..clock \subseteq 0..clock'
  BY <1>1, JwtAssumption DEF Long
<1>3. TypeOK'
  <2>1. cache = None \/ cache \in [keys : SUBSET Keys, fetched : 0..clock']
    BY <1>1, <1>2 DEF TypeOK
  <2> QED
    BY <1>1, <1>2, <2>1 DEF TypeOK, Published
<1>4. CacheTells'
  BY <1>1 DEF IInv, CacheTells, Published
<1>5. JwtIsIssued'
  <2>1. ASSUME Issued(jwt) PROVE Issued(jwt)'
    BY <1>1, <2>1 DEF Issued, Ours, IdToken
  <2> QED
    BY <1>1, <2>1 DEF IInv, JwtIsIssued
<1> QED
  BY <1>1, <1>3, <1>4, <1>5 DEF IInv, Unanswered, PresentedInTime

-----------------------------------------------------------------------------
\* The token, up to the request that presents it.

LEMMA IssueOK ==
    ASSUME IInv, at = "nowhere", NEW token, Issue(token), at' \in {"answer", "held"},
           IF setup.use = "id_token" THEN token \in {Unread, Unusable} \/ Issued(token)
           ELSE token \in Assertion
    PROVE  IInv'
<1>1. /\ jwt' = token
      /\ UNCHANGED <<setup, clock, since, gone, signing, cache, sealed, opened, answer>>
      /\ TypeOK
  BY DEF IInv, Issue, signer
<1>2. TypeOK'
  BY <1>1 DEF TypeOK, Published, Issued
<1>3. JwtIsIssued'
  BY <1>1 DEF JwtIsIssued, Issued, Ours
<1> QED
  BY <1>1, <1>2, <1>3 DEF IInv, CacheTells, Published, Unanswered, PresentedInTime

LEMMA SigningKey == ASSUME TypeOK PROVE signing \in Keys /\ clock \in Nat
BY Times DEF TypeOK

LEMMA Now == ASSUME TypeOK PROVE clock <= clock
BY SigningKey

LEMMA AnswerRightOK == ASSUME IInv, AnswerRight PROVE IInv'
<1>1. PICK aud \in {{Us}, Clients}, azp, kid \in BOOLEAN, ahead \in Aheads, life \in Lives :
        /\ Customary(Us, aud, azp)
        /\ Issue([tenant |-> "ours", client |-> Us, grant |-> "ours", member |-> TRUE,
                  access |-> "ours", aud |-> aud, azp |-> azp, at_hash |-> TRUE,
                  at |-> clock, ahead |-> ahead, life |-> life,
                  key |-> signing, kid |-> kid])
  BY DEF AnswerRight
<1> DEFINE token == [tenant |-> "ours", client |-> Us, grant |-> "ours", member |-> TRUE,
                     access |-> "ours", aud |-> aud, azp |-> azp, at_hash |-> TRUE,
                     at |-> clock, ahead |-> ahead, life |-> life,
                     key |-> signing, kid |-> kid]
<1>2. Us \in Clients /\ aud \in (SUBSET Clients) \ {{}} /\ Us \in aud
  BY DEF Clients
<1>3. token \in IdToken
  BY <1>2, SigningKey DEF IInv, IdToken
<1>4. Issued(token)
  BY <1>1, <1>2, <1>3, SigningKey DEF IInv, Issued
<1> HIDE DEF token
<1>5. Issue(token)
  BY <1>1 DEF token
<1> QED
  BY <1>4, <1>5, IssueOK DEF AnswerRight

LEMMA AnswerMixedUpOK == ASSUME IInv, AnswerMixedUp PROVE IInv'
<1> DEFINE Whose(wrong, parts) == IF wrong \in parts THEN "another" ELSE "ours"
           Client(wrong) == IF wrong = "client" THEN "other client" ELSE Us
           Token(wrong, aud, azp, at_hash) ==
             [tenant |-> Whose(wrong, {"tenant"}), client |-> Client(wrong),
              grant  |-> Whose(wrong, {"grant", "id token"}),
              access |-> Whose(wrong, {"grant", "access token"}),
              member |-> wrong # "claims",
              aud |-> aud, azp |-> azp, at_hash |-> at_hash,
              at |-> clock, ahead |-> 0, life |-> Max(Lives),
              key |-> signing, kid |-> TRUE]
<1>1. PICK wrong \in {"tenant", "client", "grant", "id token", "access token", "claims"},
           aud \in (SUBSET Clients) \ {{}}, azp \in BOOLEAN, at_hash \in BOOLEAN :
        Customary(Client(wrong), aud, azp) /\ Issue(Token(wrong, aud, azp, at_hash))
  BY DEF AnswerMixedUp
<1> DEFINE token == Token(wrong, aud, azp, at_hash)
<1>2. /\ Client(wrong) \in Clients
      /\ \A parts : Whose(wrong, parts) \in {"ours", "another"}
  BY DEF Clients
<1>3. token \in IdToken
  <2>1. Max(Lives) \in Lives /\ 0 \in Aheads /\ signing \in Keys /\ clock \in Nat
    BY LongestLife, SigningKey, JwtAssumption DEF IInv
  <2> HIDE DEF Whose, Client
  <2> QED
    BY <1>2, <2>1 DEF IdToken
<1>4. ~Ours(token)
  BY DEF Ours, Us
<1>5. /\ token.at = clock /\ token.client = Client(wrong)
      /\ token.aud = aud /\ token.azp = azp
  <2> HIDE DEF Whose, Client
  <2> QED
    OBVIOUS
<1> HIDE DEF token, Token, Client, Whose
<1>6. Customary(token.client, token.aud, token.azp) /\ token.at <= clock
  BY <1>1, <1>5, Now, Zenon DEF IInv
<1>7. Issued(token)
  BY <1>3, <1>4, <1>6 DEF Issued
<1>8. Issue(token)
  BY <1>1 DEF token
<1> QED
  BY <1>7, <1>8, IssueOK DEF AnswerMixedUp

LEMMA AssertOK == ASSUME IInv, Assert PROVE IInv'
<1>1. PICK client \in Clients, aud \in SUBSET {"this relay", "another"}, kid \in BOOLEAN,
           ahead \in Aheads, life \in Lives :
        Issue([client |-> client, aud |-> aud, at |-> clock, ahead |-> ahead,
               life |-> life, key |-> signing, kid |-> kid])
  BY DEF Assert
<1> DEFINE token == [client |-> client, aud |-> aud, at |-> clock, ahead |-> ahead,
                     life |-> life, key |-> signing, kid |-> kid]
<1>2. token \in Assertion
  BY SigningKey DEF IInv, Assertion
<1> HIDE DEF token
<1>3. Issue(token)
  BY <1>1 DEF token
<1> QED
  BY <1>2, <1>3, IssueOK DEF Assert

LEMMA UnusableAnswerOK == ASSUME IInv, AnswerUnread \/ AnswerUnusable PROVE IInv'
BY IssueOK DEF AnswerUnread, AnswerUnusable

LEMMA SealOK == ASSUME IInv, Seal PROVE IInv'
<1>1. /\ at = "answer" /\ at' = "held" /\ sealed' = clock
      /\ UNCHANGED <<setup, clock, since, gone, signing, cache, jwt, opened, answer>>
      /\ TypeOK
  BY DEF IInv, Seal, signer
<1>2. TypeOK'
  BY <1>1, Times DEF TypeOK, Published
<1> QED
  BY <1>1, <1>2
     DEF IInv, CacheTells, Published, JwtIsIssued, Issued, Ours, Unanswered, PresentedInTime

LEMMA PresentOK == ASSUME IInv, Present PROVE IInv'
<1>1. /\ at = "held" /\ at' = "request" /\ opened' = clock
      /\ setup.use = "id_token" => clock - sealed <= CodeTtl
      /\ UNCHANGED <<setup, clock, since, gone, signing, cache, jwt, sealed, answer>>
      /\ TypeOK
  BY DEF IInv, Present, signer
<1>2. TypeOK'
  BY <1>1, Times DEF TypeOK, Published
<1> QED
  BY <1>1, <1>2
     DEF IInv, CacheTells, Published, JwtIsIssued, Issued, Ours, Unanswered, PresentedInTime

LEMMA KeysUnavailableOK == ASSUME IInv, KeysUnavailable PROVE IInv'
<1>1. /\ at = "request" /\ at' = "held" /\ opened' = 0
      /\ UNCHANGED <<setup, clock, since, gone, signing, cache, jwt, sealed, answer>>
      /\ TypeOK
  BY DEF IInv, KeysUnavailable, Undecided, signer
<1>2. TypeOK'
  BY <1>1, Times DEF TypeOK, Published
<1> QED
  BY <1>1, <1>2
     DEF IInv, CacheTells, Published, JwtIsIssued, Issued, Ours, Unanswered, PresentedInTime

LEMMA JudgeOK == ASSUME IInv, Judge PROVE IInv'
<1>1. /\ at = "request" /\ at' = "judged" /\ cache' = IF Hit THEN cache ELSE Fetched
      /\ answer' \in {"ok", "rejected"}
      /\ UNCHANGED <<setup, clock, since, gone, signing, jwt, sealed, opened>>
      /\ TypeOK
  BY DEF IInv, Judge, Undecided, signer
<1>2. CacheTells' /\ (cache' = None \/ cache' \in [keys : SUBSET Keys, fetched : 0..clock])
  BY <1>1, FetchedTells DEF IInv, CacheTells, Published, TypeOK
<1>3. TypeOK'
  BY <1>1, <1>2 DEF TypeOK, Published
<1> QED
  BY <1>1, <1>2, <1>3
     DEF IInv, JwtIsIssued, Issued, Ours, Unanswered, PresentedInTime

LEMMA JudgeAtOnceOK == ASSUME IInv, JudgeAtOnce PROVE IInv'
<1>1. /\ at = "request" /\ at' = "judged" /\ answer' \in {"ok", "rejected"}
      /\ UNCHANGED <<setup, clock, since, gone, signing, cache, jwt, sealed, opened>>
      /\ TypeOK
  BY DEF IInv, JudgeAtOnce, signer
<1>2. TypeOK'
  BY <1>1 DEF TypeOK, Published
<1> QED
  BY <1>1, <1>2
     DEF IInv, CacheTells, Published, JwtIsIssued, Issued, Ours, Unanswered, PresentedInTime

LEMMA Invariance == Spec => []IInv
<1>1. Init => IInv
  <2> SUFFICES ASSUME Init PROVE IInv
    OBVIOUS
  <2>1. since = [k \in {FirstKey} |-> Long] /\ Published = {FirstKey} /\ DOMAIN gone = {}
    BY DEF Init, Published
  <2>2. 0 \in 0..MaxClock /\ 0 \in 0..0 /\ Long \in Long..0
    BY JwtAssumption DEF Long
  <2>3. TypeOK
    BY <2>1, <2>2, JwtAssumption DEF Init, TypeOK
  <2> QED
    BY <2>3 DEF Init, IInv, CacheTells, JwtIsIssued, Unanswered, PresentedInTime
<1>2. IInv /\ [Next]_vars => IInv'
  <2> SUFFICES ASSUME IInv, [Next]_vars PROVE IInv'
    OBVIOUS
  <2>1. CASE UNCHANGED vars
    BY <2>1 DEF vars, signer, IInv, TypeOK, Published, CacheTells, JwtIsIssued, Issued, Ours,
                Unanswered, PresentedInTime
  <2>2. CASE Next
    BY <2>2, PublishOK, SwitchToOK, WithdrawOK, AnswerRightOK, AnswerMixedUpOK,
       UnusableAnswerOK, AssertOK, SealOK, PresentOK, ReadByAnotherOK, KeysUnavailableOK,
       JudgeOK, JudgeAtOnceOK, TickOK DEF Next
  <2> QED
    BY <2>1, <2>2
<1> QED
  BY <1>1, <1>2, PTL DEF Spec

\* Keys, dates and tokens are what the signer and the relay make them.
THEOREM TypeCorrect == Spec => []TypeOK
BY Invariance, PTL DEF IInv

-----------------------------------------------------------------------------
\* What the properties are about is decided in one step.
LEMMA Decided ==
    ASSUME IInv, IInv', [Next]_vars, answer' # None
    PROVE  UNCHANGED vars \/ Judge \/ JudgeAtOnce
<1>1. at' = "judged"
  BY DEF IInv, Unanswered
<1>2. CASE at = "judged"
  BY <1>2, JudgedForGood
<1>3. CASE at # "judged" /\ Next
  BY <1>1, <1>3
     DEF Next, Publish, SwitchTo, Withdraw, AnswerRight, AnswerMixedUp, AnswerUnread,
         AnswerUnusable, Assert, Seal, Present, ReadByAnother, KeysUnavailable, Tick
<1>4. CASE at # "judged" /\ UNCHANGED vars
  BY <1>4
<1> QED
  BY <1>2, <1>3, <1>4

\* A key with which the relay verifies is published, or was within the last TTL.
LEMMA KeyIsRecent ==
    ASSUME IInv, NEW t, Verifies(KeySet, t)
    PROVE  t.key \in Published \/ clock - gone[t.key] < JwksTtl
<1>1. t.key \in KeySet
  BY DEF Verifies
<1>2. CASE ~Hit
  BY <1>1, <1>2 DEF KeySet
<1>3. CASE Hit
  <2>1. /\ cache # None /\ clock - cache.fetched < JwksTtl /\ t.key \in cache.keys
    BY <1>1, <1>3 DEF KeySet, Hit
  <2>2. t.key \in Published \/ (t.key \in DOMAIN gone /\ gone[t.key] >= cache.fetched)
    BY <2>1 DEF IInv, CacheTells
  <2> QED
    BY <2>1, <2>2, Times DEF IInv
<1> QED
  BY <1>2, <1>3

\* A key that was published a TTL before a token was signed with it, and still is, is
\* in whatever key set the relay has.
LEMMA LongPublishedVerifies ==
    ASSUME IInv, NEW t, KeyLongEnough(t), t.at \in Nat, t.at <= clock
    PROVE  Verifies(KeySet, t)
<1>1. t.key \in Published /\ t.at - since[t.key] >= JwksTtl /\ t.kid
  BY DEF KeyLongEnough
<1>2. CASE ~Hit
  BY <1>1, <1>2 DEF KeySet, Verifies
<1>3. CASE Hit
  <2>1. cache # None /\ clock - cache.fetched < JwksTtl /\ KeySet = cache.keys
    BY <1>3 DEF KeySet, Hit
  <2>2. since[t.key] < cache.fetched
    BY <1>1, <2>1, Times DEF IInv
  <2>3. t.key \in cache.keys
    BY <1>1, <2>1, <2>2 DEF IInv, CacheTells
  <2> QED
    BY <1>1, <2>1, <2>3 DEF Verifies
<1> QED
  BY <1>2, <1>3

\* What a token that is accepted was granted for.
LEMMA AcceptedIdToken ==
    ASSUME IInv, NEW t, Issued(t), IdTokenAccepted(t)
    PROVE  /\ t.tenant = "ours" /\ t.client = Us /\ t.member
           /\ setup.nonce => t.grant = "ours"
           /\ t.at_hash => t.access = t.grant
<1>1. /\ t.client \in Clients /\ t.grant \in {"ours", "another"}
      /\ t.aud \in SUBSET Clients
      /\ Customary(t.client, t.aud, t.azp) /\ Us \in t.aud /\ Cardinality(t.aud) \in Nat
  BY AudienceCount DEF Issued, IdToken, IdTokenAccepted
<1>2. t.client = Us
  <2>1. CASE t.azp
    BY <1>1, <2>1, AbsentAssumption DEF IdTokenAccepted, valid_authorized_party, Azp
  <2>2. CASE ~t.azp
    <3>1. Cardinality(t.aud) <= 1
      BY <2>2 DEF IdTokenAccepted, valid_authorized_party, Azp
    <3> QED
      BY <1>1, <2>2, <3>1 DEF Customary
  <2> QED
    BY <2>1, <2>2
<1>3. setup.nonce => t.grant = "ours"
  BY <1>1, AbsentAssumption DEF IdTokenAccepted, ExpectedNonce, Nonce
<1>4. t.at_hash => t.access = t.grant
  BY <1>1, AbsentAssumption DEF IdTokenAccepted, valid_access_token_hash, AtHash
<1> QED
  BY <1>2, <1>3, <1>4 DEF IdTokenAccepted, Iss

LEMMA AcceptedInTime ==
    ASSUME IInv, NEW t \in Assertion, AssertionAccepted(t)
    PROVE  clock <= Exp(t) + Leeway
<1>1. t.at \in Nat /\ t.ahead \in Nat /\ t.life \in Nat
  BY JwtAssumption DEF Assertion
<1>2. Exp(t) \in Int /\ clock \in Nat /\ Leeway \in Nat
  BY <1>1, Times DEF IInv, Exp, Iat
<1>3. Exp(t) >= clock - Leeway
  BY DEF AssertionAccepted, NotExpired
<1> QED
  BY <1>2, <1>3

\* Which tokens, of those that are ours, the relay has no reason to refuse.
LEMMA OursIsAccepted ==
    ASSUME IInv, at = "request", setup.use = "id_token", Issued(jwt), Ours(jwt),
           ValidLongEnough(jwt), jwt.ahead <= IatSkew, jwt.ahead <= Leeway,
           setup.path # "/", Cardinality(jwt.aud) > 1 => jwt.azp
    PROVE  IdTokenAccepted(jwt)
<1>1. /\ jwt.at \in Nat /\ jwt.at <= clock /\ jwt.ahead \in Nat /\ jwt.life \in Nat
      /\ jwt.aud \in SUBSET Clients /\ Us \in jwt.aud /\ Cardinality(jwt.aud) \in Nat
  BY AudienceCount, JwtAssumption DEF Issued, IdToken
<1>2. setup \in Setup /\ opened - sealed <= CodeTtl
  BY Times DEF IInv, PresentedInTime
<1>3. Iss(jwt) = <<"ours", IssuerIdentifier(setup.path)>>
  BY <1>2 DEF Iss, Ours, IssuerIdentifier, ParsedPath, Setup
<1>4. NotExpired(jwt) /\ NotEarly(jwt) /\ Iat(jwt) <= clock + IatSkew
  BY <1>1, <1>2, Times DEF IInv, NotExpired, NotEarly, Exp, Iat, ValidLongEnough
<1>5. ExpectedNonce # None => Nonce(jwt) = ExpectedNonce
  BY DEF ExpectedNonce, Nonce, Ours
<1>6. valid_authorized_party(jwt)
  <2>1. CASE jwt.azp
    BY <2>1, AbsentAssumption DEF valid_authorized_party, Azp, Ours, Clients
  <2>2. CASE ~jwt.azp
    <3>1. Cardinality(jwt.aud) <= 1 /\ Azp(jwt) = None
      BY <1>1, <2>2 DEF Azp
    <3> QED
      BY <3>1 DEF valid_authorized_party
  <2> QED
    BY <2>1, <2>2
<1>7. valid_access_token_hash(jwt)
  BY DEF valid_access_token_hash, AtHash, Ours
<1> QED
  BY <1>1, <1>3, <1>4, <1>5, <1>6, <1>7 DEF IdTokenAccepted, Ours

-----------------------------------------------------------------------------
\* Whatever upstreams mix up and however they change keys, an ID token that is
\* accepted was granted to us, and its key was published within the last TTL.
THEOREM AcceptedIsOursHolds == Spec => []AcceptedIsOurs
<1>1. Init => AcceptedIsOurs
  BY AbsentAssumption DEF Init, AcceptedIsOurs
<1>2. ASSUME IInv, IInv', AcceptedIsOurs, [Next]_vars PROVE AcceptedIsOurs'
  <2> SUFFICES ASSUME setup'.use = "id_token", answer' = "ok", jwt' # Unread
               PROVE  (/\ jwt.tenant = "ours" /\ jwt.client = Us /\ jwt.member
                       /\ setup.nonce => jwt.grant = "ours"
                       /\ jwt.at_hash => jwt.access = jwt.grant
                       /\ jwt.key \in Published \/ clock - gone[jwt.key] < JwksTtl)'
    BY DEF AcceptedIsOurs
  <2>1. UNCHANGED vars \/ Judge \/ JudgeAtOnce
    BY <1>2, Decided, AbsentAssumption
  <2>2. CASE UNCHANGED vars
    BY <1>2, <2>2 DEF AcceptedIsOurs, vars, signer, Published
  <2>3. CASE Judge
    <3>1. /\ UNCHANGED <<setup, clock, since, gone, jwt>>
          /\ setup.use = "id_token" /\ at = "request" /\ jwt \notin {Unread, Unusable}
          /\ Verifies(KeySet, jwt) /\ IdTokenAccepted(jwt)
      BY <2>3 DEF Judge, Undecided, Accepted, signer
    <3>2. Issued(jwt)
      BY <1>2, <3>1 DEF IInv, JwtIsIssued
    <3> QED
      BY <1>2, <3>1, <3>2, AcceptedIdToken, KeyIsRecent DEF Published
  <2>4. CASE JudgeAtOnce
    BY <2>4 DEF JudgeAtOnce
  <2> QED
    BY <2>1, <2>2, <2>3, <2>4
<1> QED
  BY <1>1, <1>2, Invariance, PTL DEF Spec

\* An assertion that authenticates a client was made by it, for this relay, in time,
\* and with a key that was published within the last TTL.
THEOREM AssertionForThisRelayHolds == Spec => []AssertionForThisRelay
<1>1. Init => AssertionForThisRelay
  BY AbsentAssumption DEF Init, AssertionForThisRelay
<1>2. ASSUME IInv, IInv', AssertionForThisRelay, [Next]_vars PROVE AssertionForThisRelay'
  <2> SUFFICES ASSUME setup'.use = "assertion", answer' = "ok"
               PROVE  (/\ jwt.client = Us /\ "this relay" \in jwt.aud
                       /\ clock <= Exp(jwt) + Leeway
                       /\ jwt.key \in Published \/ clock - gone[jwt.key] < JwksTtl)'
    BY DEF AssertionForThisRelay
  <2>1. UNCHANGED vars \/ Judge \/ JudgeAtOnce
    BY <1>2, Decided, AbsentAssumption
  <2>2. CASE UNCHANGED vars
    BY <1>2, <2>2 DEF AssertionForThisRelay, vars, signer, Published, Exp, Iat
  <2>3. CASE Judge
    <3>1. /\ UNCHANGED <<setup, clock, since, gone, jwt>>
          /\ setup.use = "assertion" /\ at = "request"
          /\ Verifies(KeySet, jwt) /\ AssertionAccepted(jwt)
      BY <2>3 DEF Judge, Undecided, Accepted, signer
    <3>2. jwt \in Assertion
      BY <1>2, <3>1 DEF IInv, JwtIsIssued
    <3>3. clock <= Exp(jwt) + Leeway
      BY <1>2, <3>1, <3>2, AcceptedInTime
    <3> QED
      BY <1>2, <3>1, <3>3, KeyIsRecent DEF Published, AssertionAccepted, Exp, Iat
  <2>4. CASE JudgeAtOnce
    <3>1. setup.use = "assertion" /\ at = "request" /\ jwt \in {Unread, Unusable}
      BY <2>4 DEF JudgeAtOnce
    <3> QED
      BY <1>2, <3>1, AbsentAssumption DEF IInv, JwtIsIssued
  <2> QED
    BY <2>1, <2>2, <2>3, <2>4
<1> QED
  BY <1>1, <1>2, Invariance, PTL DEF Spec

\* A sign-in that is refused for good has been refused for one of the causes named.
THEOREM RefusedForCauseHolds == Spec => []RefusedForCause
<1> DEFINE Cause ==
             \/ ~KeyLongEnough(jwt)
             \/ ~ValidLongEnough(jwt)
             \/ jwt.ahead > IatSkew \/ jwt.ahead > Leeway
             \/ setup.path = "/"
             \/ Cardinality(jwt.aud) > 1 /\ ~jwt.azp
<1>1. Init => RefusedForCause
  BY AbsentAssumption DEF Init, RefusedForCause
<1>2. ASSUME IInv, IInv', RefusedForCause, [Next]_vars PROVE RefusedForCause'
  <2> SUFFICES ASSUME setup'.use = "id_token", answer' = "rejected", jwt' # Unusable,
                      Ours(jwt)'
               PROVE  Cause'
    BY DEF RefusedForCause
  <2>1. UNCHANGED vars \/ Judge \/ JudgeAtOnce
    BY <1>2, Decided, AbsentAssumption
  <2>2. CASE UNCHANGED vars
    BY <1>2, <2>2 DEF RefusedForCause, vars, signer, Ours, KeyLongEnough, Published,
                      ValidLongEnough
  <2>3. CASE Judge
    <3>1. /\ UNCHANGED <<setup, clock, since, gone, jwt, sealed, opened>>
          /\ setup.use = "id_token" /\ at = "request" /\ jwt \notin {Unread, Unusable}
          /\ ~(Verifies(KeySet, jwt) /\ IdTokenAccepted(jwt))
      BY <2>3 DEF Judge, Undecided, Accepted, signer
    <3>2. Issued(jwt) /\ Ours(jwt)
      BY <1>2, <3>1 DEF IInv, JwtIsIssued, Ours
    <3>3. jwt.at \in Nat /\ jwt.at <= clock /\ jwt.ahead \in Nat
          /\ IatSkew \in Nat /\ Leeway \in Nat
      BY <3>2, JwtAssumption DEF Issued, IdToken
    <3>4. Cause
      BY <1>2, <3>1, <3>2, <3>3, LongPublishedVerifies, OursIsAccepted
    <3> QED
      BY <3>1, <3>4 DEF KeyLongEnough, Published, ValidLongEnough
  <2>4. CASE JudgeAtOnce
    BY <2>4, AbsentAssumption DEF JudgeAtOnce
  <2> QED
    BY <2>1, <2>2, <2>3, <2>4
<1> QED
  BY <1>1, <1>2, Invariance, PTL DEF Spec
=============================================================================
