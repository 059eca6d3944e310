--------------------------- MODULE RelayFlowProofs ---------------------------
(***************************************************************************)
(* For any relays and upstreams, any number of requests in progress, and   *)
(* registries that change in any way at any time: the four safety          *)
(* properties of RelayFlow, and that it implements CodeGrant.              *)
(*                                                                         *)
(* The relay keeps nothing, but envelopes say what was checked when they   *)
(* were sealed, and requests what has been checked since they came.  The   *)
(* invariant says this of every record: it Holds.  Nothing that a record   *)
(* refers to is ever forgotten - the registry's former contents, flows,    *)
(* consents and codes - so what holds keeps holding (the lemmas "Still"),  *)
(* and a step has to be looked at only for the one record it makes.        *)
(***************************************************************************)
EXTENDS RelayFlow, TLAPS

\* A relay, or an upstream, was in the registry at a moment that has come.
RelayKnown(k, r) == k \in 1..Present /\ r \in DOMAIN log[k].relays
UpstreamKnown(k, u) == k \in 1..Present /\ u \in DOMAIN log[k].upstreams

\* A relay to which a flow may return, for it permits the URI and is bound to the
\* upstream, at moment k.
Permits(k, r, u, uri) ==
    /\ RelayKnown(k, r)
    /\ RelayIn(k, r).upstream = u
    /\ uri \in RelayIn(k, r).redirects

FlowHolds(f) ==
    /\ Permits(f.relayAt, f.relay, f.upstream, f.uri)
    /\ UpstreamKnown(f.upstreamAt, f.upstream)
    /\ f.issuer = UpstreamIn(f.upstreamAt, f.upstream).issuer

ConsentHolds(c) == \E f \in flows : f.id = c.flow /\ f.issuer = c.issuer

\* What a notice and a code have in common: they are from flow f, which may return.
Returns(x, f) ==
    /\ x.flow = f.id /\ x.relay = f.relay /\ x.uri = f.uri
    /\ Permits(x.relayAt, f.relay, f.upstream, f.uri)

NoticeHolds(n) == \E f \in flows : Returns(n, f)

\* The tokens in an answer are those of a consent in the flow.
AnswerHolds(response, f) ==
    response.flow # None =>
        /\ response.flow = f.id /\ response.issuer = f.issuer
        /\ \E c \in consents : /\ c.flow = f.id /\ c.issuer = f.issuer
                               /\ c.claims = response.claims

CodeHolds(c) ==
    /\ c.upstreamAt <= c.relayAt
    /\ \E f \in flows :
         /\ Returns(c, f)
         /\ c.challenge = f.challenge
         /\ UpstreamKnown(c.upstreamAt, f.upstream)
         /\ c.response.issuer = UpstreamIn(c.upstreamAt, f.upstream).issuer
         /\ AnswerHolds(c.response, f)

\* A code that has been presented to a relay, with the right URI and verifier.
Presented(x) ==
    /\ x.code \in codes
    /\ RelayKnown(x.relayAt, x.relay)
    /\ x.code.relay = x.relay
    /\ Bound(RelayIn(x.relayAt, x.relay), x.code, x.uri, x.verifier)
    /\ UpstreamKnown(x.upstreamAt, RelayIn(x.relayAt, x.relay).upstream)

ReleaseHolds(r) == Presented(r) /\ ClaimsHold(r)

\* A request, by the await it is at.
RequestHolds(q) ==
    /\ q.at = "authorize" => RelayKnown(q.relayAt, q.relay)
    /\ q.at = "forward" =>
         /\ Permits(q.relayAt, q.relay, RelayIn(q.relayAt, q.relay).upstream, q.uri)
         /\ UpstreamKnown(q.upstreamAt, RelayIn(q.relayAt, q.relay).upstream)
    /\ q.at \in {"callback", "exchange"} =>
         /\ q.state \in flows
         /\ q.code \in consents \cup {None}
         /\ UpstreamKnown(q.upstreamAt, q.upstream)
    /\ q.at = "exchange" =>
         /\ q.code # None
         /\ q.state.upstream = q.upstream
         /\ Permits(q.relayAt, q.state.relay, q.upstream, q.state.uri)
         /\ q.upstreamAt <= q.relayAt
    /\ q.at = "token" => q.code \in codes /\ RelayKnown(q.relayAt, q.relay)
    /\ q.at = "validate" => Presented(q)

FlowsDiffer == \A f, g \in flows : f.id = g.id => f = g

IInv ==
    /\ TypeOK
    /\ FlowsDiffer
    /\ \A q \in inflight : RequestHolds(q)
    /\ \A f \in flows : FlowHolds(f)
    /\ \A c \in consents : ConsentHolds(c)
    /\ \A n \in notices : NoticeHolds(n)
    /\ \A c \in codes : CodeHolds(c)
    /\ \A r \in releases : ReleaseHolds(r)

-----------------------------------------------------------------------------
\* What is read of the registry at a moment that has come is well typed.
LEMMA ReadsTyped ==
    ASSUME TypeOK
    PROVE  /\ \A k, r : RelayKnown(k, r) => /\ k \in Moments /\ r \in Relays
                                          /\ RelayIn(k, r) \in RelayConfig
           /\ \A k, u : UpstreamKnown(k, u) => /\ k \in Moments /\ u \in Upstreams
                                             /\ UpstreamIn(k, u) \in UpstreamConfig
<1>1. ASSUME NEW k \in 1..Present PROVE k \in Moments /\ log[k] \in Snapshots
  BY <1>1, RelayFlowAssumption DEF TypeOK, Present, Moments
<1> QED
  BY <1>1, RelayFlowAssumption DEF RelayKnown, UpstreamKnown, RelayIn, UpstreamIn

\* A request is at one await, and has what a request has there.
LEMMA RequestTyped ==
    ASSUME TypeOK, NEW q \in inflight
    PROVE  /\ q.at \in {"authorize", "forward", "callback", "exchange", "token", "validate"}
           /\ q.at = "authorize" => q \in Authorizing
           /\ q.at = "forward" => q \in Forwarding
           /\ q.at = "callback" => q \in Returning
           /\ q.at = "exchange" => q \in Exchanging
           /\ q.at = "token" => q \in Asking
           /\ q.at = "validate" => q \in Validating
<1>1. q \in Authorizing \cup Forwarding \cup Returning \cup Exchanging \cup Asking
           \cup Validating
  BY DEF TypeOK
<1> QED
  BY <1>1 DEF Authorizing, Forwarding, Returning, Exchanging, Asking, Validating

-----------------------------------------------------------------------------
\* A step forgets nothing that records refer to.
Remembers ==
    /\ Present <= Present'
    /\ \A k \in 1..Present : log'[k] = log[k]
    /\ flows \subseteq flows' /\ consents \subseteq consents' /\ codes \subseteq codes'

LEMMA StepRemembers ==
    ASSUME TypeOK, [Next]_vars
    PROVE  Remembers /\ Present \in Nat /\ Present' \in Nat
<1>1. log \in Seq(Snapshots) /\ Present \in Nat
  BY DEF TypeOK, Present
<1>2. CASE UNCHANGED vars
  BY <1>1, <1>2 DEF vars, Remembers, Present
<1>3. ASSUME NEW s \in Snapshots, Replace(s) PROVE Remembers /\ Present' \in Nat
  BY <1>1, <1>3 DEF Replace, Remembers, Present
<1>4. ASSUME log' = log, flows \subseteq flows', consents \subseteq consents',
             codes \subseteq codes'
      PROVE  Remembers /\ Present' \in Nat
  BY <1>1, <1>4 DEF Remembers, Present
<1> QED
  BY <1>1, <1>2, <1>3, <1>4
     DEF Next, AuthorizeArrives, AuthorizeChecks, AuthorizeForwards, UserConsents,
         CallbackArrives, CallbackNotifies, CallbackPosts, CallbackSeals, TokenArrives,
         TokenChecks, TokenReleases, Stops

\* So what was read then can still be said to have been read ...
LEMMA StillKnown ==
    ASSUME Remembers, Present \in Nat, Present' \in Nat
    PROVE  /\ \A k, r : RelayKnown(k, r) => /\ RelayKnown(k, r)'
                                          /\ RelayIn(k, r)' = RelayIn(k, r)
           /\ \A k, u : UpstreamKnown(k, u) => /\ UpstreamKnown(k, u)'
                                             /\ UpstreamIn(k, u)' = UpstreamIn(k, u)
           /\ \A k, r, u, uri : Permits(k, r, u, uri) => Permits(k, r, u, uri)'
<1>1. \A k \in 1..Present : k \in 1..Present' /\ log'[k] = log[k]
  BY DEF Remembers
<1> QED
  BY <1>1 DEF RelayKnown, UpstreamKnown, RelayIn, UpstreamIn, Permits

LEMMA StillPresented ==
    ASSUME Remembers, Present \in Nat, Present' \in Nat, NEW x, Presented(x)
    PROVE  Presented(x)'
BY StillKnown DEF Remembers, Presented, Bound

\* ... and each kind of record goes on holding.
LEMMA StillHolds ==
    ASSUME Remembers, Present \in Nat, Present' \in Nat
    PROVE  /\ \A q : RequestHolds(q) => RequestHolds(q)'
           /\ \A f : FlowHolds(f) => FlowHolds(f)'
           /\ \A c : ConsentHolds(c) => ConsentHolds(c)'
           /\ \A n : NoticeHolds(n) => NoticeHolds(n)'
           /\ \A c : CodeHolds(c) => CodeHolds(c)'
           /\ \A r : ReleaseHolds(r) => ReleaseHolds(r)'
<1>1. ASSUME NEW q, RequestHolds(q) PROVE RequestHolds(q)'
  <2>1. ASSUME q.at = "forward"
        PROVE  LET u == RelayIn(q.relayAt, q.relay).upstream
               IN  (Permits(q.relayAt, q.relay, u, q.uri) /\ UpstreamKnown(q.upstreamAt, u))'
    <3>1. RelayKnown(q.relayAt, q.relay)
      BY <1>1, <2>1 DEF RequestHolds, Permits
    <3> QED
      BY <1>1, <2>1, <3>1, StillKnown DEF RequestHolds
  <2>2. ASSUME q.at = "validate" PROVE Presented(q)'
    BY <1>1, <2>2, StillPresented DEF RequestHolds
  <2>3. ASSUME q.at \in {"callback", "exchange"}
        PROVE  (/\ q.state \in flows
                /\ q.code \in consents \cup {None}
                /\ UpstreamKnown(q.upstreamAt, q.upstream))'
    BY <1>1, <2>3, StillKnown DEF RequestHolds, Remembers
  <2> QED
    BY <1>1, <2>1, <2>2, <2>3, StillKnown DEF RequestHolds, Remembers
<1>2. ASSUME NEW f, FlowHolds(f) PROVE FlowHolds(f)'
  BY <1>2, StillKnown DEF FlowHolds
<1>3. ASSUME NEW c, ConsentHolds(c) PROVE ConsentHolds(c)'
  BY <1>3 DEF ConsentHolds, Remembers
<1>4. ASSUME NEW x, NEW f, Returns(x, f) PROVE Returns(x, f)'
  BY <1>4, StillKnown DEF Returns
<1>5. ASSUME NEW n, NoticeHolds(n) PROVE NoticeHolds(n)'
  BY <1>4, <1>5 DEF NoticeHolds, Remembers
<1>6. ASSUME NEW c, CodeHolds(c) PROVE CodeHolds(c)'
  <2>1. PICK f \in flows :
          /\ Returns(c, f)
          /\ c.challenge = f.challenge
          /\ UpstreamKnown(c.upstreamAt, f.upstream)
          /\ c.response.issuer = UpstreamIn(c.upstreamAt, f.upstream).issuer
          /\ AnswerHolds(c.response, f)
    BY <1>6 DEF CodeHolds
  <2>2. AnswerHolds(c.response, f)'
    BY <2>1 DEF AnswerHolds, Remembers
  <2> QED
    BY <1>4, <1>6, <2>1, <2>2, StillKnown DEF CodeHolds, Remembers
<1>7. ASSUME NEW r, ReleaseHolds(r) PROVE ReleaseHolds(r)'
  <2>1. Presented(r) /\ Presented(r)' /\ ClaimsHold(r)
    BY <1>7, StillPresented DEF ReleaseHolds
  <2> QED
    BY <2>1, StillKnown DEF ReleaseHolds, ClaimsHold, Presented
<1> QED
  BY <1>1, <1>2, <1>3, <1>5, <1>6, <1>7

-----------------------------------------------------------------------------
\* What a step has to show, then: the records it makes are typed and hold by what
\* there was before it, and no two flows are mistaken for each other.
NewRecordsHold ==
    /\ TypeOK'
    /\ FlowsDiffer'
    /\ \A q \in inflight' \ inflight : RequestHolds(q)
    /\ \A f \in flows' \ flows : FlowHolds(f)
    /\ \A c \in consents' \ consents : ConsentHolds(c)
    /\ \A n \in notices' \ notices : NoticeHolds(n)
    /\ \A c \in codes' \ codes : CodeHolds(c)
    /\ \A r \in releases' \ releases : ReleaseHolds(r)

\* A step that only makes requests proceed.
LEMMA RequestsOnly ==
    ASSUME IInv, UNCHANGED <<log, flows, consents, notices, codes, releases>>,
           NEW new, inflight' \subseteq inflight \cup {new},
           new \in Authorizing \cup Forwarding \cup Returning \cup Exchanging
                    \cup Asking \cup Validating,
           RequestHolds(new)
    PROVE  NewRecordsHold
<1>1. TypeOK'
  BY DEF IInv, TypeOK
<1>2. FlowsDiffer'
  BY DEF IInv, FlowsDiffer
<1> QED
  BY <1>1, <1>2 DEF NewRecordsHold

LEMMA PresentIsMoment == ASSUME TypeOK PROVE Present \in Moments /\ Present \in 1..Present
BY RelayFlowAssumption DEF TypeOK, Present, Moments

\* The requests that arrive, and those that proceed.

LEMMA AuthorizeArrivesOK ==
    ASSUME IInv, NEW h \in Handlers, NEW r \in Relays, NEW uri \in Uris,
           NEW challenge \in Challenges, AuthorizeArrives(h, r, uri, challenge)
    PROVE  NewRecordsHold
<1> DEFINE new == [handler |-> h, at |-> "authorize", relay |-> r, uri |-> uri,
                   challenge |-> challenge, relayAt |-> Present]
<1>1. Present \in Moments /\ Present \in 1..Present
  BY PresentIsMoment DEF IInv
<1>2. new \in Authorizing
  BY <1>1 DEF Authorizing
<1>3. RequestHolds(new)
  BY <1>1 DEF AuthorizeArrives, RequestHolds, RelayKnown
<1>4. inflight' = inflight \cup {new}
  BY DEF AuthorizeArrives, Arrive
<1> HIDE DEF new
<1> QED
  BY <1>2, <1>3, <1>4, RequestsOnly DEF AuthorizeArrives

LEMMA AuthorizeChecksOK ==
    ASSUME IInv, NEW q \in At("authorize"), AuthorizeChecks(q)
    PROVE  NewRecordsHold
<1> DEFINE new == [handler |-> q.handler, at |-> "forward", relay |-> q.relay,
                   uri |-> q.uri, challenge |-> q.challenge,
                   relayAt |-> q.relayAt, upstreamAt |-> Present]
<1>1. Present \in Moments /\ Present \in 1..Present
  BY PresentIsMoment DEF IInv
<1>2. q \in inflight /\ q \in Authorizing /\ RelayKnown(q.relayAt, q.relay)
  BY RequestTyped DEF IInv, At, RequestHolds
<1>3. new \in Forwarding
  BY <1>1, <1>2 DEF Authorizing, Forwarding
<1>4. RequestHolds(new)
  BY <1>1, <1>2 DEF AuthorizeChecks, RequestHolds, Permits, UpstreamKnown
<1>5. inflight' = (inflight \ {q}) \cup {new}
  BY DEF AuthorizeChecks, Proceed
<1> HIDE DEF new
<1> QED
  BY <1>3, <1>4, <1>5, RequestsOnly DEF AuthorizeChecks

LEMMA CallbackArrivesOK ==
    ASSUME IInv, NEW h \in Handlers, NEW u \in Upstreams, NEW f \in flows,
           NEW code \in consents \cup {None}, CallbackArrives(h, u, f, code)
    PROVE  NewRecordsHold
<1> DEFINE new == [handler |-> h, at |-> "callback", upstream |-> u, state |-> f,
                   code |-> code, upstreamAt |-> Present]
<1>1. Present \in Moments /\ Present \in 1..Present
  BY PresentIsMoment DEF IInv
<1>2. new \in Returning
  BY <1>1 DEF Returning, IInv, TypeOK
<1>3. RequestHolds(new)
  BY <1>1 DEF CallbackArrives, RequestHolds, UpstreamKnown
<1>4. inflight' = inflight \cup {new}
  BY DEF CallbackArrives, Arrive
<1> HIDE DEF new
<1> QED
  BY <1>2, <1>3, <1>4, RequestsOnly DEF CallbackArrives

\* What callback accepts may return, at this moment.
LEMMA AcceptedReturns ==
    ASSUME IInv, NEW q \in At("callback"), CallbackAccepts(q)
    PROVE  /\ q \in inflight /\ q \in Returning
           /\ q.state \in flows /\ q.state \in Flow
           /\ q.code \in consents \cup {None}
           /\ q.state.upstream = q.upstream
           /\ UpstreamKnown(q.upstreamAt, q.upstream) /\ q.upstreamAt <= Present
           /\ Permits(Present, q.state.relay, q.upstream, q.state.uri)
<1>1. q \in inflight /\ q.at = "callback" /\ q \in Returning /\ RequestHolds(q)
  BY RequestTyped DEF IInv, At
<1>2. /\ q.state \in flows /\ q.code \in consents \cup {None}
      /\ UpstreamKnown(q.upstreamAt, q.upstream)
  BY <1>1 DEF RequestHolds
<1>3. q.upstreamAt <= Present
  BY <1>2 DEF UpstreamKnown
<1>4. Permits(Present, q.state.relay, q.upstream, q.state.uri)
  BY PresentIsMoment DEF IInv, CallbackAccepts, Permits, RelayKnown
<1> QED
  BY <1>1, <1>2, <1>3, <1>4 DEF CallbackAccepts, IInv, TypeOK

LEMMA CallbackPostsOK ==
    ASSUME IInv, NEW q \in At("callback"), CallbackPosts(q)
    PROVE  NewRecordsHold
<1> DEFINE new == [handler |-> q.handler, at |-> "exchange", upstream |-> q.upstream,
                   state |-> q.state, code |-> q.code,
                   upstreamAt |-> q.upstreamAt, relayAt |-> Present]
<1>1. Present \in Moments
  BY PresentIsMoment DEF IInv
<1>2. CallbackAccepts(q) /\ q.code # None
  BY DEF CallbackPosts
<1>3. new \in Exchanging
  BY <1>1, <1>2, AcceptedReturns DEF Returning, Exchanging
<1>4. RequestHolds(new)
  BY <1>2, AcceptedReturns DEF RequestHolds
<1>5. inflight' = (inflight \ {q}) \cup {new}
  BY DEF CallbackPosts, Proceed
<1> HIDE DEF new
<1> QED
  BY <1>3, <1>4, <1>5, RequestsOnly DEF CallbackPosts

LEMMA TokenArrivesOK ==
    ASSUME IInv, NEW h \in Handlers, NEW r \in Relays, NEW code \in codes,
           NEW uri \in Uris, NEW verifier \in Challenges,
           NEW secret \in Secrets \cup {None},
           TokenArrives(h, r, code, uri, verifier, secret)
    PROVE  NewRecordsHold
<1> DEFINE new == [handler |-> h, at |-> "token", relay |-> r, code |-> code, uri |-> uri,
                   verifier |-> verifier, secret |-> secret, relayAt |-> Present]
<1>1. Present \in Moments /\ Present \in 1..Present
  BY PresentIsMoment DEF IInv
<1>2. new \in Asking
  BY <1>1 DEF Asking, IInv, TypeOK
<1>3. RequestHolds(new)
  BY <1>1 DEF TokenArrives, RequestHolds, RelayKnown
<1>4. inflight' = inflight \cup {new}
  BY DEF TokenArrives, Arrive
<1> HIDE DEF new
<1> QED
  BY <1>2, <1>3, <1>4, RequestsOnly DEF TokenArrives

LEMMA TokenChecksOK ==
    ASSUME IInv, NEW q \in At("token"), TokenChecks(q)
    PROVE  NewRecordsHold
<1> DEFINE new == [handler |-> q.handler, at |-> "validate", relay |-> q.relay,
                   code |-> q.code, uri |-> q.uri, verifier |-> q.verifier,
                   relayAt |-> q.relayAt, upstreamAt |-> Present]
<1>1. Present \in Moments /\ Present \in 1..Present
  BY PresentIsMoment DEF IInv
<1>2. /\ q \in inflight /\ q \in Asking /\ q.code \in codes
      /\ RelayKnown(q.relayAt, q.relay)
  BY RequestTyped DEF IInv, At, RequestHolds
<1>3. new \in Validating
  BY <1>1, <1>2 DEF Asking, Validating
<1>4. Presented(new)
  BY <1>1, <1>2 DEF TokenChecks, Presented, UpstreamKnown
<1>5. RequestHolds(new)
  BY <1>4 DEF RequestHolds
<1>6. inflight' = (inflight \ {q}) \cup {new}
  BY DEF TokenChecks, Proceed
<1> HIDE DEF new
<1> QED
  BY <1>3, <1>5, <1>6, RequestsOnly DEF TokenChecks

\* The steps that make something else than a request.

LEMMA ReplaceOK ==
    ASSUME IInv, NEW s \in Snapshots, Replace(s)
    PROVE  NewRecordsHold
<1>1. log' \in Seq(Snapshots) /\ Len(log') \in Moments
  BY RelayFlowAssumption DEF IInv, TypeOK, Replace, Moments
<1> QED
  BY <1>1 DEF IInv, TypeOK, FlowsDiffer, Replace, NewRecordsHold

LEMMA AuthorizeForwardsOK ==
    ASSUME IInv, NEW q \in At("forward"), NEW id \in FlowIds, AuthorizeForwards(q, id)
    PROVE  NewRecordsHold
<1> DEFINE u == RelayIn(q.relayAt, q.relay).upstream
           new == [id |-> id, upstream |-> u, relay |-> q.relay, uri |-> q.uri,
                   challenge |-> q.challenge, issuer |-> UpstreamIn(q.upstreamAt, u).issuer,
                   relayAt |-> q.relayAt, upstreamAt |-> q.upstreamAt]
<1>1. /\ q \in Forwarding
      /\ Permits(q.relayAt, q.relay, u, q.uri) /\ UpstreamKnown(q.upstreamAt, u)
  BY RequestTyped DEF IInv, At, RequestHolds
<1>2. u \in Upstreams /\ UpstreamIn(q.upstreamAt, u) \in UpstreamConfig
  BY <1>1, ReadsTyped DEF IInv
<1>3. new \in Flow
  BY <1>1, <1>2 DEF Forwarding, Flow, UpstreamConfig
<1>4. FlowHolds(new)
  BY <1>1 DEF FlowHolds
<1>5. flows' = flows \cup {new} /\ \A f \in flows : f.id # new.id
  BY DEF AuthorizeForwards
<1>6. /\ inflight' \subseteq inflight
      /\ UNCHANGED <<log, consents, notices, codes, releases>>
  BY DEF AuthorizeForwards, Finish
<1> HIDE DEF new
<1>7. TypeOK'
  BY <1>3, <1>5, <1>6 DEF IInv, TypeOK
<1>8. FlowsDiffer'
  BY <1>5 DEF IInv, FlowsDiffer
<1> QED
  BY <1>4, <1>5, <1>6, <1>7, <1>8 DEF NewRecordsHold

LEMMA UserConsentsOK ==
    ASSUME IInv, NEW f \in flows, NEW claims \in BOOLEAN, UserConsents(f, claims)
    PROVE  NewRecordsHold
<1> DEFINE new == [issuer |-> f.issuer, flow |-> f.id, claims |-> claims]
<1>1. new \in Consent
  BY DEF IInv, TypeOK, Flow, Consent
<1>2. ConsentHolds(new)
  BY DEF ConsentHolds
<1>3. consents' = consents \cup {new}
  BY DEF UserConsents
<1> HIDE DEF new
<1> QED
  BY <1>1, <1>2, <1>3 DEF UserConsents, IInv, TypeOK, FlowsDiffer, NewRecordsHold

LEMMA CallbackNotifiesOK ==
    ASSUME IInv, NEW q \in At("callback"), CallbackNotifies(q)
    PROVE  NewRecordsHold
<1> DEFINE new == [relay |-> q.state.relay, uri |-> q.state.uri, flow |-> q.state.id,
                   relayAt |-> Present]
<1>1. CallbackAccepts(q)
  BY DEF CallbackNotifies
<1>2. new \in Notice
  BY <1>1, AcceptedReturns, PresentIsMoment DEF IInv, Flow, Notice
<1>3. NoticeHolds(new)
  BY <1>1, AcceptedReturns DEF NoticeHolds, Returns
<1>4. notices' = notices \cup {new} /\ inflight' \subseteq inflight
  BY DEF CallbackNotifies, Finish
<1> HIDE DEF new
<1> QED
  BY <1>2, <1>3, <1>4 DEF CallbackNotifies, IInv, TypeOK, FlowsDiffer, NewRecordsHold

\* An issuer's answer: tokens only for its own code and the flow's verifier, so only
\* those of the flow's own consent.
LEMMA AnswersHold ==
    ASSUME IInv, NEW i \in Issuers, NEW code \in consents, NEW f \in flows,
           NEW response \in Answers(i, code, f.id)
    PROVE  /\ response \in StoredResponse /\ response.issuer = i
           /\ AnswerHolds(response, f)
<1>1. code \in Consent /\ f.id \in FlowIds
  BY DEF IInv, TypeOK, Flow
<1>2. PICK g \in flows : g.id = code.flow /\ g.issuer = code.issuer
  BY DEF IInv, ConsentHolds
<1>3. CASE response = [issuer |-> i, flow |-> None, claims |-> FALSE]
  BY <1>3 DEF StoredResponse, AnswerHolds
<1>4. CASE /\ code.issuer = i /\ code.flow = f.id
           /\ response = [issuer |-> i, flow |-> f.id, claims |-> code.claims]
  <2>1. g = f
    BY <1>2, <1>4 DEF IInv, FlowsDiffer
  <2>2. response \in StoredResponse
    BY <1>1, <1>4 DEF StoredResponse, Consent
  <2> QED
    BY <1>2, <1>4, <2>1, <2>2 DEF AnswerHolds
<1> QED
  BY <1>3, <1>4 DEF Answers

LEMMA CallbackSealsOK ==
    ASSUME IInv, NEW q \in At("exchange"), NEW id \in CodeIds, NEW response,
           CallbackSeals(q, id, response)
    PROVE  NewRecordsHold
<1> DEFINE i == UpstreamIn(q.upstreamAt, q.upstream).issuer
           new == [id |-> id, relay |-> q.state.relay, uri |-> q.state.uri,
                   challenge |-> q.state.challenge, response |-> response,
                   flow |-> q.state.id, relayAt |-> q.relayAt, upstreamAt |-> q.upstreamAt]
<1>1. q \in inflight /\ q.at = "exchange" /\ q \in Exchanging /\ RequestHolds(q)
  BY RequestTyped DEF IInv, At
<1>2. /\ q.state \in flows /\ q.code \in consents
      /\ UpstreamKnown(q.upstreamAt, q.upstream)
      /\ q.state.upstream = q.upstream
      /\ Permits(q.relayAt, q.state.relay, q.upstream, q.state.uri)
      /\ q.upstreamAt <= q.relayAt
  BY <1>1 DEF RequestHolds
<1>3. i \in Issuers
  BY <1>2, ReadsTyped DEF IInv, UpstreamConfig
<1>4. /\ response \in StoredResponse /\ response.issuer = i
      /\ AnswerHolds(response, q.state)
  BY <1>2, <1>3, AnswersHold DEF CallbackSeals
<1>5. new \in CodeEnvelope
  BY <1>1, <1>4 DEF Exchanging, Flow, CodeEnvelope
<1>6. CodeHolds(new)
  BY <1>2, <1>4 DEF CodeHolds, Returns
<1>7. codes' = codes \cup {new} /\ inflight' \subseteq inflight
  BY DEF CallbackSeals, Finish
<1> HIDE DEF new
<1> QED
  BY <1>5, <1>6, <1>7 DEF CallbackSeals, IInv, TypeOK, FlowsDiffer, NewRecordsHold

LEMMA TokenReleasesOK ==
    ASSUME IInv, NEW q \in At("validate"), TokenReleases(q)
    PROVE  NewRecordsHold
<1> DEFINE new == [code |-> q.code, relay |-> q.relay, uri |-> q.uri,
                   verifier |-> q.verifier,
                   relayAt |-> q.relayAt, upstreamAt |-> q.upstreamAt]
<1>1. q \in inflight /\ q \in Validating /\ Presented(q)
  BY RequestTyped DEF IInv, At, RequestHolds
<1>2. new \in Release
  BY <1>1 DEF Validating, Release
<1>3. Presented(new)
  BY <1>1 DEF Presented
<1>4. ClaimsHold(new)
  BY DEF TokenReleases, ClaimsHold
<1>5. releases' = releases \cup {new} /\ inflight' \subseteq inflight
  BY DEF TokenReleases, Finish
<1> HIDE DEF new
<1> QED
  BY <1>2, <1>3, <1>4, <1>5
     DEF TokenReleases, ReleaseHolds, IInv, TypeOK, FlowsDiffer, NewRecordsHold

LEMMA StopsOK ==
    ASSUME IInv, NEW q \in inflight, Stops(q)
    PROVE  NewRecordsHold
BY DEF Stops, Finish, IInv, TypeOK, FlowsDiffer, NewRecordsHold

-----------------------------------------------------------------------------
LEMMA StepOK == ASSUME IInv, [Next]_vars PROVE NewRecordsHold
<1>1. CASE UNCHANGED vars
  BY <1>1 DEF vars, IInv, TypeOK, FlowsDiffer, NewRecordsHold
<1>2. CASE Next
  BY <1>2, ReplaceOK, AuthorizeArrivesOK, AuthorizeChecksOK, AuthorizeForwardsOK,
     UserConsentsOK, CallbackArrivesOK, CallbackNotifiesOK, CallbackPostsOK,
     CallbackSealsOK, TokenArrivesOK, TokenChecksOK, TokenReleasesOK, StopsOK DEF Next
<1> QED
  BY <1>1, <1>2

LEMMA Invariance == Spec => []IInv
<1>1. Init => IInv
  <2> SUFFICES ASSUME Init PROVE IInv
    OBVIOUS
  <2>1. PICK s \in Snapshots : log = <<s>>
    BY DEF Init
  <2>2. log \in Seq(Snapshots) /\ Len(log) = 1 /\ 1 \in Moments
    BY <2>1, RelayFlowAssumption DEF Moments
  <2> QED
    BY <2>2 DEF Init, IInv, TypeOK, FlowsDiffer
<1>2. IInv /\ [Next]_vars => IInv'
  <2> SUFFICES ASSUME IInv, [Next]_vars PROVE IInv'
    OBVIOUS
  <2>1. NewRecordsHold
    BY StepOK
  <2>2. Remembers /\ Present \in Nat /\ Present' \in Nat
    BY StepRemembers DEF IInv
  <2> QED
    BY <2>1, <2>2, StillHolds DEF IInv, NewRecordsHold
<1> QED
  BY <1>1, <1>2, PTL DEF Spec

\* Envelopes and requests are made of the parts the code makes them of, and what they
\* read of the registry had been there.
THEOREM TypeCorrect == Spec => []TypeOK
BY Invariance, PTL DEF IInv

\* Whatever becomes of a relay's policy and of when its requests are handled, a code or
\* an error goes to a URI that was permitted when the flow began and again after the
\* callback arrived.
THEOREM RedirectsPermittedHolds == Spec => []RedirectsPermitted
<1>1. IInv => RedirectsPermitted
  <2> SUFFICES ASSUME IInv PROVE RedirectsPermitted
    OBVIOUS
  <2>1. ASSUME NEW x, NEW f \in flows, Returns(x, f)
        PROVE  /\ x.uri \in RelayIn(x.relayAt, x.relay).redirects
               /\ f.id = x.flow /\ f.uri = x.uri
               /\ f.uri \in RelayIn(f.relayAt, x.relay).redirects
    BY <2>1 DEF IInv, FlowHolds, Returns, Permits
  <2>2. ASSUME NEW c \in codes
        PROVE  c.upstreamAt <= c.relayAt /\ \E f \in flows : Returns(c, f)
    BY DEF IInv, CodeHolds
  <2>3. ASSUME NEW n \in notices PROVE \E f \in flows : Returns(n, f)
    BY DEF IInv, NoticeHolds
  <2> QED
    BY <2>1, <2>2, <2>3 DEF RedirectsPermitted
<1> QED
  BY <1>1, Invariance, PTL

\* However flows, upstream codes and states are mixed, and whatever the upstreams'
\* names come to stand for, a code is the answer of the upstream its flow began with.
THEOREM UpstreamsAgreeHolds == Spec => []UpstreamsAgree
<1>1. IInv => UpstreamsAgree
  <2> SUFFICES ASSUME IInv, NEW c \in codes
               PROVE  \E f \in flows :
                        /\ f.id = c.flow
                        /\ RelayIn(f.relayAt, f.relay).upstream = f.upstream
                        /\ RelayIn(c.relayAt, c.relay).upstream = f.upstream
                        /\ c.response.issuer = UpstreamIn(c.upstreamAt, f.upstream).issuer
                        /\ c.response.flow # None =>
                             /\ c.response.flow = f.id
                             /\ c.response.issuer = f.issuer
    BY DEF UpstreamsAgree
  <2> QED
    BY DEF IInv, FlowHolds, CodeHolds, AnswerHolds, Returns, Permits
<1> QED
  BY <1>1, Invariance, PTL

\* A relay that is public when it releases tokens has had the verifier of the challenge
\* its flow began with, however it was configured then.
THEOREM PublicNeedsVerifierHolds == Spec => []PublicNeedsVerifier
<1>1. IInv => PublicNeedsVerifier
  <2> SUFFICES ASSUME IInv, NEW r \in releases,
                      RelayIn(r.relayAt, r.relay).auth = "Public"
               PROVE  \E f \in flows : /\ f.id = r.code.flow
                                       /\ f.challenge # None
                                       /\ r.verifier = f.challenge
    BY DEF PublicNeedsVerifier
  <2>1. r.code \in codes /\ Bound(RelayIn(r.relayAt, r.relay), r.code, r.uri, r.verifier)
    BY DEF IInv, ReleaseHolds, Presented
  <2>2. PICK f \in flows : f.id = r.code.flow /\ f.challenge = r.code.challenge
    BY <2>1 DEF IInv, CodeHolds, Returns
  <2> QED
    BY <2>1, <2>2 DEF Bound
<1> QED
  BY <1>1, Invariance, PTL

\* Claims that are required are those of a user of the flow, vouched for by the issuer
\* that the relay's upstream is at the time, and not by the one the code is from.
THEOREM ClaimsOfBoundUpstreamHolds == Spec => []ClaimsOfBoundUpstream
<1>1. IInv => ClaimsOfBoundUpstream
  <2> SUFFICES ASSUME IInv, NEW r \in releases,
                      RelayIn(r.relayAt, r.relay).claims, r.code.response.flow # None
               PROVE  \E c \in consents :
                        /\ c.flow = r.code.flow
                        /\ c.claims
                        /\ c.issuer = UpstreamIn(r.upstreamAt,
                                          RelayIn(r.relayAt, r.relay).upstream).issuer
    BY DEF ClaimsOfBoundUpstream
  <2>1. r.code \in codes /\ ClaimsHold(r)
    BY DEF IInv, ReleaseHolds, Presented
  <2>2. /\ r.code.response.claims
        /\ r.code.response.issuer = UpstreamIn(r.upstreamAt,
                                       RelayIn(r.relayAt, r.relay).upstream).issuer
    BY <2>1 DEF ClaimsHold
  <2>3. PICK f \in flows : Returns(r.code, f) /\ AnswerHolds(r.code.response, f)
    BY <2>1 DEF IInv, CodeHolds
  <2> QED
    BY <2>2, <2>3 DEF AnswerHolds, Returns
<1> QED
  BY <1>1, Invariance, PTL

-----------------------------------------------------------------------------
\* The table that CodeGrant's server would keep: three steps add a row to it, and the
\* others leave it as it is.
AskedRow(f) ==
    [session |-> f.id, relay |-> f.relay, uri |-> f.uri, challenge |-> f.challenge]
GrantedRow(c) == [code |-> c.id, session |-> c.flow, tokens |-> c.response.flow]
ReleasedRow(r) ==
    [code |-> r.code.id, relay |-> r.relay, uri |-> r.uri, verifier |-> r.verifier]

Asked == {AskedRow(f) : f \in flows}
Granted == {GrantedRow(c) : c \in codes}
Released == {ReleasedRow(r) : r \in releases}

\* Asked, Granted and Released are what RelayFlow's mapping puts for the table.
LEMMA MappedAsk ==
    ASSUME NEW s, NEW relay, NEW uri, NEW challenge,
           \A a \in Asked : a.session # s,
           Asked' = Asked \cup {[session |-> s, relay |-> relay, uri |-> uri,
                                challenge |-> challenge]},
           UNCHANGED <<Granted, Released>>
    PROVE  Table!Ask(s, relay, uri, challenge)
BY DEF Table!Ask, Asked, Granted, Released, AskedRow, GrantedRow, ReleasedRow

LEMMA MappedGrant ==
    ASSUME NEW code, NEW s, NEW tokens,
           \A g \in Granted : g.code # code,
           \E a \in Asked : a.session = s,
           tokens \in {s, None},
           Granted' = Granted \cup {[code |-> code, session |-> s, tokens |-> tokens]},
           UNCHANGED <<Asked, Released>>
    PROVE  Table!Grant(code, s, tokens)
BY DEF Table!Grant, Asked, Granted, Released, AskedRow, GrantedRow, ReleasedRow

LEMMA MappedRelease ==
    ASSUME NEW code, NEW relay, NEW uri, NEW verifier,
           NEW g \in Granted, NEW a \in Asked,
           g.code = code, a.session = g.session, a.relay = relay, a.uri = uri,
           a.challenge # None => verifier = a.challenge,
           Released' = Released \cup {[code |-> code, relay |-> relay, uri |-> uri,
                                      verifier |-> verifier]},
           UNCHANGED <<Asked, Granted>>
    PROVE  Table!Release(code, relay, uri, verifier)
BY DEF Table!Release, Asked, Granted, Released, AskedRow, GrantedRow, ReleasedRow

LEMMA ForwardingAsks ==
    ASSUME IInv, NEW q \in At("forward"), NEW id \in FlowIds, AuthorizeForwards(q, id)
    PROVE  Table!Next
<1>1. q \in Forwarding
  BY RequestTyped DEF IInv, At
<1> DEFINE u == RelayIn(q.relayAt, q.relay).upstream
           f == [id |-> id, upstream |-> u, relay |-> q.relay, uri |-> q.uri,
                 challenge |-> q.challenge, issuer |-> UpstreamIn(q.upstreamAt, u).issuer,
                 relayAt |-> q.relayAt, upstreamAt |-> q.upstreamAt]
<1>2. flows' = flows \cup {f}
  BY DEF AuthorizeForwards
<1>3. AskedRow(f) = [session |-> id, relay |-> q.relay, uri |-> q.uri,
                     challenge |-> q.challenge]
  BY DEF AskedRow
<1> HIDE DEF f
<1>4. Asked' = Asked \cup {AskedRow(f)}
  BY <1>2 DEF Asked
<1>5. \A a \in Asked : a.session # id
  BY DEF AuthorizeForwards, Asked, AskedRow
<1>6. UNCHANGED <<Granted, Released>>
  BY DEF AuthorizeForwards, Granted, Released
<1>7. Table!Ask(id, q.relay, q.uri, q.challenge)
  BY <1>3, <1>4, <1>5, <1>6, MappedAsk
<1> QED
  BY <1>1, <1>7 DEF Table!Next, Forwarding, Challenges

LEMMA SealingGrants ==
    ASSUME IInv, NEW q \in At("exchange"), NEW id \in CodeIds, NEW response,
           CallbackSeals(q, id, response)
    PROVE  Table!Next
<1>1. q.state \in flows
  BY DEF IInv, At, RequestHolds
<1>2. q.state.id \in FlowIds
  BY <1>1 DEF IInv, TypeOK, Flow
<1>3. response.flow \in {q.state.id, None}
  BY DEF CallbackSeals, Answers
<1> DEFINE c == [id |-> id, relay |-> q.state.relay, uri |-> q.state.uri,
                 challenge |-> q.state.challenge, response |-> response,
                 flow |-> q.state.id, relayAt |-> q.relayAt, upstreamAt |-> q.upstreamAt]
<1>4. codes' = codes \cup {c}
  BY DEF CallbackSeals
<1>5. GrantedRow(c) = [code |-> id, session |-> q.state.id, tokens |-> response.flow]
  BY DEF GrantedRow
<1> HIDE DEF c
<1>6. Granted' = Granted \cup {GrantedRow(c)}
  BY <1>4 DEF Granted
<1>7. \A g \in Granted : g.code # id
  BY DEF CallbackSeals, Granted, GrantedRow
<1>8. AskedRow(q.state) \in Asked /\ AskedRow(q.state).session = q.state.id
  BY <1>1 DEF Asked, AskedRow
<1>9. UNCHANGED <<Asked, Released>>
  BY DEF CallbackSeals, Asked, Released
<1>10. Table!Grant(id, q.state.id, response.flow)
  BY <1>3, <1>5, <1>6, <1>7, <1>8, <1>9, MappedGrant
<1> QED
  BY <1>2, <1>3, <1>10 DEF Table!Next

LEMMA ReleasingReleases ==
    ASSUME IInv, NEW q \in At("validate"), TokenReleases(q)
    PROVE  Table!Next
<1>1. q \in Validating /\ Presented(q)
  BY RequestTyped DEF IInv, At, RequestHolds
<1>2. q.code \in codes
  BY <1>1 DEF Presented
<1>3. PICK f \in flows : Returns(q.code, f) /\ q.code.challenge = f.challenge
  BY <1>2 DEF IInv, CodeHolds
<1>4. GrantedRow(q.code) \in Granted /\ AskedRow(f) \in Asked
  BY <1>2 DEF Granted, Asked
<1>5. /\ GrantedRow(q.code).code = q.code.id
      /\ AskedRow(f).session = GrantedRow(q.code).session
      /\ AskedRow(f).relay = q.relay /\ AskedRow(f).uri = q.uri
      /\ AskedRow(f).challenge # None => q.verifier = AskedRow(f).challenge
  BY <1>1, <1>3 DEF Presented, Bound, Returns, GrantedRow, AskedRow
<1> DEFINE r == [code |-> q.code, relay |-> q.relay, uri |-> q.uri,
                 verifier |-> q.verifier,
                 relayAt |-> q.relayAt, upstreamAt |-> q.upstreamAt]
<1>6. releases' = releases \cup {r}
  BY DEF TokenReleases
<1>7. ReleasedRow(r) = [code |-> q.code.id, relay |-> q.relay, uri |-> q.uri,
                        verifier |-> q.verifier]
  BY DEF ReleasedRow
<1> HIDE DEF r
<1>8. Released' = Released \cup {ReleasedRow(r)}
  BY <1>6 DEF Released
<1>9. UNCHANGED <<Asked, Granted>>
  BY DEF TokenReleases, Asked, Granted
<1>10. Table!Release(q.code.id, q.relay, q.uri, q.verifier)
  BY <1>4, <1>5, <1>7, <1>8, <1>9, MappedRelease
<1>11. q.code.id \in CodeIds
  BY <1>2 DEF IInv, TypeOK, CodeEnvelope
<1> QED
  BY <1>1, <1>10, <1>11 DEF Table!Next, Validating, Challenges

\* With nothing but sealed envelopes, the relay does what a server with a table does.
THEOREM Refinement == Spec => ImplementsCodeGrant
<1>1. Init => Table!Init
  BY DEF Init, Table!Init
<1>2. IInv /\ [Next]_vars => [Table!Next]_<<Asked, Granted, Released>>
  <2> SUFFICES ASSUME IInv, [Next]_vars
               PROVE  Table!Next \/ UNCHANGED <<Asked, Granted, Released>>
    OBVIOUS
  <2>1. CASE UNCHANGED <<flows, codes, releases>>
    BY <2>1 DEF Asked, Granted, Released
  <2> QED
    BY <2>1, ForwardingAsks, SealingGrants, ReleasingReleases
       DEF Next, vars, Replace, AuthorizeArrives, AuthorizeChecks, UserConsents,
           CallbackArrives, CallbackNotifies, CallbackPosts, TokenArrives, TokenChecks,
           Stops
<1> QED
  BY <1>1, <1>2, Invariance, PTL
     DEF ImplementsCodeGrant, Table!Spec, Spec, Asked, Granted, Released, AskedRow,
         GrantedRow, ReleasedRow
=============================================================================
