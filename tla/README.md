# A TLA+ model of oauthrelay

oauthrelay is an OAuth 2.0 / OpenID Connect relay. Applications talk to it as if it
were their authorization server; it talks to one upstream server per relay as one
registered client. It stores nothing between the requests of a sign-in: what it
decided at one endpoint travels to the next through browsers, inside sealed envelopes.
The modules here model what has to hold nevertheless: that a code is redeemed once,
where it belongs, by whoever began the sign-in, while requests interleave, clocks
differ, processes restart and the configuration is replaced under running requests.

Paths below are relative to `src/crates/oauthrelay-core/src/` unless they say more.

## Inventory

| Part | State it keeps | Operations | Hard behaviour | What makes it correct |
|---|---|---|---|---|
| Code redemption (`router.rs` exchange_sealed_code, fresh; `resolver.rs` MemoryReplayCache) | entries of the replay cache: envelope id, expiry on the monotonic clock; codes are with the clients | seal a code, check it, validate its ID token, `first_use`, answer | freshness in whole wall-clock seconds, the cache on the monotonic clock, an unbounded await between; clock read before the mutex; restarts; several instances with different clocks | one redemption of a code per window; only redeemed codes are burnt; acceptance is bounded |
| Authorization flow (`router.rs` dispatch, authorize, callback, token) | none of its own: FlowEnvelope and CodeEnvelope are held by user agents; the registry is shared | authorize, callback (code or error), token (authorization_code, refresh_token), discovery, jwks | any state with any code at any endpoint, late, repeated; relay and upstream read separately; policies that change between and during requests | what a server with a session table would do: binding to relay, redirect URI, challenge and upstream; claims of the right issuer |
| Registry (`resolver.rs`) | the snapshot in force (ArcSwap) | replace, resolve_relay, resolve_upstream, merge_ordered | readers keep what they read; two reads are not one | replacement is atomic; every relay's upstream exists; the earlier provider wins |
| Native updates (`../../oauthrelay/src/main.rs` start_providers, spawn_registry_updater; `../../oauthrelay-provider-file`) | a watch channel for each provider, its seen mark, the file | poll, send, mark seen, merge, replace | send races mark and merge; a bad file keeps the last good snapshot | no update is lost or undone; the registry catches up |
| Lambda refresh (`../../oauthrelay/src/main.rs` LambdaConfigRefresher) | last attempt (wall clock), last good snapshot of each provider | refresh before an invocation | loads that fail or take long, freezes, a clock that goes back | bounded age of what is served; last good kept; no mixtures, no step back |
| Loads and compilation (`../../oauthrelay-provider-file`, `../../oauthrelay-provider-ssm`, `../../oauthrelay-secret-resolver`, `config.rs` compile_resources) | documents gathered so far, secrets read so far | the file, or page after page; secret after secret; validate | the source changes during the load, files are rewritten in place | a snapshot is closed and valid; one secret source has one value in it, and no empty one |
| Token checks (`router.rs` validate_required_id_token_claims, verify_private_key_jwt) | none: a token travels in the code or the request, keys in the cache above | judge an ID token when its code is redeemed, a client assertion when it is presented | keys roll and tokens expire meanwhile, clocks differ, the key set is old or unavailable | nothing of another tenant, client or flow is accepted; a good token is refused only for a reason one can name |
| Paths and metadata (`router.rs` parse_path, relay_base_url, callback_url, discovery; `model.rs` ResourceKey) | none | find the resource of a path, make URLs, rewrite a discovery document | names that are words of the paths, names of dots, prefixes | every URL given out leads back to its resource |
| Discovery and JWKS cache (`router.rs` cached_json) | fetched documents with the time of their arrival | look up, fetch, store | concurrent misses, keys rotated at the upstream, late answers | bounded staleness; a stale key set is not taken for a bad token |
| Sealing (`seal.rs`, seal_postcard) | current and previous key of each process | seal, unseal, rotate by restart | instances restarted one after the other | an envelope stays readable for its TTL if the documented procedure is followed; kinds and keys are not confused |
| Resource model (`model.rs`) | the policies in force | validation, redirect_allowed, cors_origin_allowed | exact URIs, origins and loopback ports | redirect and CORS decisions agree with the policy |
| Request parsing, scopes, refresh (`router.rs` parse_*, scope_allowed, refresh) | none | parse, check, forward | duplicates, reserved names, scopes | nothing reserved is forwarded; scopes stay within the relay's |
| Configuration syntax, start-up, docs and scripts | none that changes | I/O and declarative types | - | not modelled |

How they meet: providers send snapshots over watch channels (native) or are loaded
before a request (Lambda); the merged result is put into the registry; every request
reads its relay and its upstream from there and keeps what it read (`Arc`) while it
awaits the network. authorize hands a sealed state to the browser, the upstream hands
it back to callback together with its own code, callback exchanges that code, seals the
answer into a relay code, and token opens it, validates, asks the replay cache and
releases the answer. `hazards` in PROJECT.json lists, at its line, each thing that is
hard to test here.

## Modules

| Module | What it is |
|---|---|
| `Redemption` | redeeming a code in time: clocks, freshness, validation, replay cache, restarts |
| `OneUseWindow` | abstract: a use of an identity excludes another one for a window of time |
| `RedemptionProofs` | theorems about `Redemption`, with proofs |
| `RelayFlow` | authorize, callback and token while the registry is replaced |
| `CodeGrant` | abstract: an authorization server with a table of sessions and codes |
| `RelayFlowProofs` | theorems about `RelayFlow`, with proofs |
| `ProviderSnapshot` | what sources hold, validity, and merge_ordered |
| `Providers` | providers, watch channels, start-up and the updater that merges and installs |
| `ConfigPublication` | abstract: what is in force is the merge of valid versions that never go back |
| `ProvidersProofs` | theorems about `Providers`, with proofs |
| `LambdaRefresh` | cold start and refresh before invocations; also refines `ConfigPublication` |
| `LambdaRefreshProofs` | theorems about `LambdaRefresh`, with proofs |
| `ResourceLoad` | a load of either provider: file or pages, secrets, compilation |
| `RegularLoad` | abstract: what a load that is not a transaction promises |
| `JsonCache` | cached_json and the requests that read discovery documents and key sets through it |
| `JsonCacheProofs` | theorems about `JsonCache`, with proofs |
| `Sealing` | the sealing keys of a fleet while they are rotated |
| `RedirectPolicy` | matchers of redirect URIs and browser origins, and their validation |
| `ConfigurationProofs` | theorems about `ResourceLoad` and `RedirectPolicy`, with proofs |
| `JwtChecks` | ID tokens and client assertions from their making to their verdict |
| `JwtChecksProofs` | theorems about `JwtChecks`, with proofs |
| `Routes` | names, paths, the URLs given out and the rewritten discovery document |
| `Parameters` | the parameters of a flow and of a refresh, hop by hop, and its URLs |
| `HopProofs` | theorems about what the user agent carries, `Sealing` and `Parameters`, with proofs |
| `MCRedemption`, `MCRelayFlow`, `MCProviders`, `MCLambdaRefresh`, `MCResourceLoad`, `MCJsonCache`, `MCJwtChecks`, `MCSealing`, `MCRedirectPolicy`, `MCParameters` | the instances TLC checks |

### Redemption

| State | In the code |
|---|---|
| `clock` | `Instant::now()`, in ticks; process p's `SystemTime` is `clock + Skew[p]`, read in whole seconds (`UnixSeconds`) |
| `sealed` | the CodeEnvelopes clients hold |
| `validating` | requests awaiting validate_required_id_token_claims |
| `locking` | requests in `first_use` that have read the clock and wait for the mutex |
| `cache` | `MemoryReplayCache.entries` of each process |
| `restarts`, `uses` | history for the properties: the lives of each process, and every yes of `first_use` |

A token request is `OpenCode` (all of exchange_sealed_code before its first await, so
freshness is a value of that moment), then `ValidationUnavailable` or
`ValidationDecided` (Ok and Rejected both go on to `first_use`; which one only selects
the answer), then `FirstUseYes` or `FirstUseNo` (the critical section: purge, look up,
insert). Without a cache, `ValidationDecidedUncached` passes the code. `HangUp` drops a
handler at an await; `Restart` drops a process's requests and cache; `Tick` passes time.
Wall clocks differ but do not step. The redirect_uri and PKCE guards return before any
of this state is touched; they are in `RelayFlow`. Random envelope ids are fresh ones.
`uses` has every yes, so `BurntMeansUsed` is about entries that outlive a restart or come from
elsewhere; that a code is not burnt where the keys are unavailable is the guard of
`ValidationUnavailable`, and no property would notice a change of it.

### RelayFlow

`log` is the history of the registry, the last entry in force; a request remembers at
which moment it read its relay (`relayAt`) and its upstream (`upstreamAt`), which is
what keeping an `Arc` means. Each handler is cut at its awaits:
`AuthorizeArrives`/`AuthorizeChecks`/`AuthorizeForwards`,
`CallbackArrives`/`CallbackNotifies` or `CallbackPosts`/`CallbackSeals`,
`TokenArrives`/`TokenChecks`/`TokenReleases`. `Replace` may come between any two, so
relay and upstream may be of different snapshots. User agents deliver every state and
code anywhere: the parameters of `CallbackArrives` and `TokenArrives` range over
everything ever sealed, and over upstream errors. `UserConsents` and `Answers` stand for
the upstream: it may refuse anything, and grants tokens only for its own code with the
right verifier. `Stops` is every error answer and every dropped connection; since a
request may stop at any step, expired envelopes, the replay cache, scopes and network
failures are covered as ways to stop. Envelopes are unforgeable records; the relay's or
upstream's key in them plays the associated data. `ClientSecret` also stands for
private_key_jwt: a credential in the relay's own configuration. An ID token is of an
issuer and good, or not; what makes it good is in `JwtChecks`.

What holds by intention and is not a property: a token response already sealed is
released with the rules of the relay as it is at redemption, so a relay that is bound to
another upstream and requires no claims releases the old upstream's answer; and a relay
and its upstream may come from different snapshots (`SPEC.md` lets a resolver
resolve them independently).

### Providers

`source` is the version each provider's source now holds, `Contents` what the versions
are; a version is `Valid` if its relays' upstreams exist, which stands for everything
`load` checks. `task` is a provider's run loop (`Load`, `LoadFails`, `Send`; the file
and the SSM provider loop alike), `channel` its watch channel: latest value and whether
the receiver has seen it. `main` is the main task and then the updater, in the loop it is in:
`AwaitInitial`/`AwaitFails` per provider, `Collect` per provider (replace_registry reads
a channel, merge_ordered merges it in), `Install` (Registry::replace), `Poll` per
provider (has_changed and borrow_and_update) and `Polled` (merge again if there was a
change, then sleep). Sends may come between any two of these. `got` and `installed`
remember the versions merged, for the properties. The graph `registry` is the sort of
`Snapshots` that `RelayFlow` takes as given: its assumption that every such graph is
`Closed` is `RelaysClosed` here, which is proved. `Closed`, `Valid` and the merge
are in `ProviderSnapshot`, which `LambdaRefresh` extends too.

### LambdaRefresh

The tasks of the providers run until `NewRefresher` (LambdaConfigRefresher::new) aborts
them: `InitialLoad`, possibly repeated, and `FirstInstall`; how start-up waits, reads the channels one by one, or
exits is in `Providers`. An invocation is `InvokedFresh` or `InvokedStale` (the check of
refresh_if_stale, which notes the attempt), then `LoadSucceeds` or `LoadFails` for each
provider in turn, `Install`, and `Respond`. One invocation runs at a time, as
lambda_http::run hands them over. `Tick` may happen anywhere, so loads take as long as
they like and the process may be frozen anywhere; `PutClock` moves the wall clock alone.
`writes` remembers when each version was written; `slack` is what the promise of
`BoundedStaleness` is short of: the length of the start, until the first refresh, and
what the clock was put back. That a provider's failed load is not tried again for a
TTL is what the code intends (it compares with the last *attempt*, `runtime.md:69`).

### ResourceLoad

`provider` says whether it is the file's or the SSM provider, which differ only until the
documents are gathered and in the secrets they can reach. `store` and `secrets` are what
AWS, the file and the secret files hold; `Put` and `Rotate` change them between any two
steps. A load is `Begin`, then `ReadFile`, or `ReadPage` for each page of upstreams and
then of relays, a `Compile...` step for each document, and `Succeed`; it ends early in
`RejectFile`, `RejectPage`, `RejectSecret`, `RejectGraph` (the checks) or `RequestFails`.
What comes of a failed load is `AfterFailure`: the first one, while nothing has been
sent, is returned by run, which has then `Exited` (what start-up makes of that is in
`Providers`), a later one is logged and the poll goes on with the last snapshot. A run also ends when the
receiver of its channel has gone, with the process; and Lambda's refresher, which calls
load() itself, is in `LambdaRefresh`.
`cache` is secret_cache. A document is its upstream and its secret source; `Broken` is
any that is refused for its type, path, identity, syntax or content, and a duplicate. A
file that is being rewritten in place passes through `Put`s, one for a document: what a
read finds then ends between two documents, is `Broken` where it ends within one, or is
empty. How AWS pages while parameters change is not documented in the code: a token is
taken to stand for the last name listed, so that no page repeats a parameter, and it may
be given although nothing is left.

`Obtained` is what resolve_source makes of a secret at its `place`: the environment does
not change, a relative path resolves for the file provider only, line ends are trimmed
unless the secret comes from AWS. A secret that cannot be had is `Absent`, and `Usable`
is what the validation of upstreams and relays says of it: a secret that is read empty is
refused, one that is read cut off is not, by the code neither. `ApartAssumption` says that
what stands for a missing or broken document or secret is none, and that an empty text
is not a line end. Each version of `Contents` in
`Providers` and `LambdaRefresh` stands for what such a load returned.

### JsonCache

`cache` is `RelayRouter`'s map of CachedJson, `served` what the issuers serve under each
URL, as versions. A request is one call of cached_json or two, one after the other:
`Start`, then `Hit` or `Miss` (the first critical section), `Answer` (the server, with
what it serves at that moment) and `Insert` (the second critical section, which dates
the entry). `Return` is what the caller does with the answer: a request for keys goes on
from the discovery document to the URL it names. `Leave` is every failure, every client
that hangs up and every request that is done; `Restart` empties the cache. Any number of
requests may be between the two critical sections. `longest` is history, the longest a
call has taken: no timeout bounds it, so the properties are relative to it. `clock` is
the process's `Instant`, which may stand still while Lambda freezes the process; the
bounds are in that clock. How the discovery response is rewritten for a relay
changes no state; it is in `Routes`. `Selects` is the choice of a key of a token, in which
a token without a `kid` needs a set of one key. `RolloverSafe` is about keys that are announced a
TTL and a call ahead; a token under a key that was not may be refused for good, with its code.

### JwtChecks

One token is followed: made by an issuer (`AnswerRight`, or `AnswerMixedUp` in one
respect) or by a client (`Assert`), sealed into a code by callback (`Seal`), presented
once or again (`Present`), and judged (`Judge`, `JudgeAtOnce`), unless the keys cannot be
had (`KeysUnavailable`), which leaves the code for a retry. The signer publishes, uses
and withdraws keys meanwhile; `since` and `gone` date that. A token records what is true
of it, who it was granted to, in which flow, for which tenant; `Azp`, `AtHash`, `Nonce`
and `Iss` are what the claims show of this, which is all that `IdTokenAccepted` and
`AssertionAccepted` may look at, and the properties compare the verdict with the truth.
`IssuerIdentifier` and `ParsedPath` keep what a URL does to an issuer's final slash. The
signature check, `exp` and `nbf` are jsonwebtoken's and external, with its leeway. Signers
whose clock is ahead are ahead by a number of ticks, one of the lives of tokens is the longest (`RefusedForCause` speaks
of it), and what stands for no token or no answer is neither (`AbsentAssumption`).

Left out: a read of the key set is one step here (`JsonCache` has its overlaps); a set
that cannot be fetched and one that cannot be parsed are one case; a client's inline key
set, which never changes while the relay runs; a token's `nbf` is its `iat`.
An assertion may be used until it expires, as often as one likes: no identifier of it is
remembered, and `AssertionForThisRelay` promises no more.

Issuers that are refused: an issuer whose identifier is a host with a final slash
(`https://tenant.example/`). issuer_identifier takes the slash for the one that every
URL has, and refuses its tokens, although `configuration.md:65` has issuerUrl "preserved as
the transparent trust authority". `RefusedForCause` names the case (`setup.path = "/"`).

### Sealing

`deployed` is what the operator has set in `OAUTHRELAY_SEAL_KEY` and its `_PREVIOUS`,
`running` what each process was started with (`Restart` reads it anew). `Seal` seals
with the current key and dates the envelope by the clock of the process; `Unseals` tries
the current key and then the previous one; `Fresh` is the freshness check of callback
and token. `Rotate` and `Retire` are the procedure of `runtime.md:80-88`. If `staged`,
`Announce` gives the new key out as the previous one and `Switch` swaps the two, which
the documentation does not ask for. The operator begins the next step when every
instance has the last, and takes a prior key away when the *last* instance has had it as
its previous key for longer than `Keep`. `Keep` has to cover the TTL and what clocks
differ by: the documented "at least ten minutes" counted from the first restart would be
short by the time the roll-out takes, and exactly ten minutes, the TTL of a flow, by what
clocks differ. An operator who goes back in the middle of a rotation is not modelled.
Associated data is in `RelayFlow`, where keys are taken for granted. The initial states,
steps and types are called `SealingInit`, `SealingNext`, `SealingSpec` and
`SealingTypeOK`, so that one module can extend this one and `Parameters`.

### RedirectPolicy

A URI is a record of how it is written; `Parsed` is what Url::parse makes of a host's
spelling, and `Port` that a scheme's default port is none. The url crate is external: it is
modelled by these two. `mark` is what is written between the scheme and the host: Url::parse
takes `:`, `:/` and `:///` of an http URI for `://`, but raw_path_and_query cuts the text at the
first `://`, finds nothing (`NoTail`) where there is none, and something else than the
path where the first one comes later or a slash follows it. `RawTail` is that function, of which only what it
returns for `://` is assumed. Loopback entries in which it finds nothing are `Dead`:
validation accepts `http:/127.0.0.1/cb`, redirect_allowed never matches it
(`OnlyDeadNeverMatch`), and cors_origin_allowed serves its origin
(`CorsOnlyForRedirects`). To which address a browser goes that is redirected to a URI without `://`
is not modelled. `RedirectMatches` and `CorsMatches` are the arms of
redirect_allowed and cors_origin_allowed, `ValidPolicy` is Relay::validate as far as the
policy goes, and `Deploy` and `Restart` put policies and the option for localhost into
force. What else Relay::validate and Upstream::validate look at is one field each, left
out here and abstracted to validity in the modules about configuration. The
initial states, steps and types are called `PolicyInit`, `PolicyNext`, `PolicySpec` and
`PolicyTypeOK`, so that one module can extend this one and `ResourceLoad`. Since `Port` of
`http://127.0.0.1:80/` is none, that is a valid loopback entry, although
`configuration.md:122` asks for one "without a configured port"; the ports of loopback
entries are never compared, so it means what it would mean without.

### Parameters

A query or form is a sequence of name and value pairs. `Authorize`, `Return` and
`Refresh` are whole handlers as far as parameters go: what is refused
(`AuthorizeAccepts`, `CallbackParses`, `RefreshAccepts`) and what goes out
(`AuthorizationRequest`, `ApplicationResult`, `RefreshForm`); `Refuse` is every refusal.
The authorization_code grant sends the upstream nothing (callback has exchanged the code),
so the token endpoint's only hop is the refresh. A redirect URI (`QueryOf`) and an
authorization endpoint (`endpointQuery`, wherever the endpoint comes from) may have a query of their own. The
code leaves it as it is and appends to it, so `last` has both, `own` and `out`, and
`Message` is what the receiver gets. An `origin` matcher accepts any query, one with a `code`
and a `state` too: the application then gets two of each, and an upstream gets two where
its authorization endpoint has, say, a `state`. `Unambiguous` says that this is the
only way to a choice between two values, and `HalvesStayApart` speaks of what the relay
passes on. The upstream here follows the relay's `redirect_uri` and `state`; if its endpoint has its
own, which one it takes is not for the relay to say. What is left out: percent-encoding and
everything that needs a second flow, which is in `RelayFlow`. `Given` and `Value` are the
fields that parsing sets, `NoneTwice` its `seen`, and `Without` what a filter leaves, in
its order.

`HalvesStayApart` speaks of values, under whatever name they go out, so the values have
to tell what they are. `ValuesAssumption` says so: what is sent for the relay alone is
sent under no other name and differs from what the relay adds. A code, a state, a
challenge or a secret is long and random; an application that sends its state as its
nonce too has published it itself. It also says that parameters have values, so that
none of them is `None`. What is meant for the relay alone differs between endpoints
(`ForTheRelay`), as does what may not be repeated (`Singletons`): authorize forwards a
`client_secret`, and refresh a `state`, as they forward every parameter they do not
know, repeated or not. One set of names for all endpoints would be a promise that
the code does not make, although no shorter query shows it; queries with a
`client_secret` and forms with a `state` are therefore among the instance's.

`Routes` has the operators for paths, as sequences of segments: `ParsePath`, the URLs
that relay_base_url and callback_url make, `WithoutDots` for what Url::set_path does to
dot segments, and `Dispatched`, what a request for a URL is about under the path the
relay is published at. `Return` happens only if the callback URL that was given to the
upstream leads to that upstream's callback. `Discover` is the handler of the metadata:
the document is needed if any endpoint is not configured, missing ones are an error, and
one that is no object leaves the handler unwinding (`null`, which serde_json turns into an
object, apart). A document's field that is no URL is one without a value. Relays here
have names like `relay`, `token`, `upstream` or `..`, and are published under paths that
end in such words, but not in dots, which Url::parse has resolved. A custom KeyStrategy is the embedding program's and not modelled.

## Runs

| Run | Instance | Properties | Shows |
|---|---|---|---|
| `redemption_requests` | two codes, two concurrent requests, two processes, the second's clock ahead by more than the allowance and without a cache, each may restart once; 2.4 million states | `TypeOK`, `BurntMeansUsed`, `SecondUseOnlyOfEarlyFirst`, `BoundedAcceptance`, `ImplementsOneUseWindow` | racing requests cannot both win, whatever other codes' requests purge; nothing but a redemption burns a code; the exact condition for a second redemption; acceptance by one process is bounded; refinement of the abstract window, in every life of every process |
| `redemption_single_use` | one process, one code | `SingleUse` (violated) | the finding below |
| `relay_mixups` | two flows of two relays at one upstream, one more upstream, a fixed registry, one request at a time | `ImplementsCodeGrant` | all combinations of states, upstream codes, relay codes, redirect URIs and verifiers at all endpoints |
| `relay_replaced` | one flow while the registry is replaced twice among three snapshots that change redirect policy, client authentication, claims, upstream and issuer | `TypeOK`, `RedirectsPermitted`, `UpstreamsAgree`, `PublicNeedsVerifier`, `ClaimsOfBoundUpstream` | which decisions survive a change of configuration in the middle of a flow |
| `providers_update` | two providers with three versions each that define the same names, one broken in between and one at the start | `TypeOK`, `NoLostUpdate`, `ImplementsConfigPublication`, `CatchesUp`, `StartsOrExits` | start-up ends; torn reads of the channels lose nothing and undo nothing; precedence; the registry catches up |
| `lambda_staleness` | two providers, one broken and one changed once, TTL 2, clock put by one either way | `TypeOK`, `BoundedStaleness`, `ImplementsConfigPublication` | what an invocation sees is bounded in age, whatever fails or is slow |
| `resource_load` | both providers and all places of a secret; two names of each kind, pages of one, a shared secret, any two changes, one failing request; 191 000 states | `TypeOK`, `ImplementsRegularLoad`, `AdoptsWhatStays` | what a torn load may return, one value for a secret and none that is empty, and that a graph that stays is loaded, or the first load failed and ended the provider |
| `jwt_tokens` | four ID token relays and one of client assertions; two keys, tokens of two lives, signers up to two ticks ahead; 10.2 million states | `TypeOK`, `RefusedForCause`, `AcceptedIsOurs`, `AssertionForThisRelay` | which tokens are refused, with all causes; that those accepted were meant for this client, flow and relay, by keys in use within a TTL |
| `jsoncache_overlap` | two requests at a time for endpoints or keys, by way of the discovery document or not; the document and the key set change once each; 2.7 million states | `TypeOK`, `StaleAtMost`, `RolloverSafe` | bounded age of what is used, however calls overlap, and, by one more call, of the URL that was followed; a key announced for a TTL and a call loses no token |
| `sealing_rotation` | two instances, clocks that differ, three keys, two envelopes, time for two rotations, as documented or with the new key announced first; 3.8 million states | `SealingTypeOK`, `RefusedOnlyBeforeRestart` | what a rotation as documented costs: envelopes of the new key, where the restart is still to come, and nothing else; that announcing the key costs nothing |
| `redirect_matching` | all valid policies of up to two of 27 entries, all URIs over eight spellings of hosts, with `://` or `:/` before them | `PolicyTypeOK`, `NoCleartextAbroad`, `CorsAgreesWithRedirects`, `OnlyDeadNeverMatch` | what validation admits stays off the open network; it can match, and gives the same answer for redirects and for CORS, but for loopback entries without `://` |
| `parameters_hops` | five relays, of each client authentication and key strategy; queries, answers and forms of up to three parameters besides the necessary ones, repeated, reserved and unknown; redirect URIs and authorization endpoints with queries of their own; all discovery documents over five fields; all paths of up to five of ten segments | `TypeOK`, `HalvesStayApart`, `Unambiguous`, `ExtensionsPreserved`, `LinksLeadBack` | what each side is sent is meant for it, complete, and unambiguous but for parameters the URI had before; every URL given out leads back, and paths are not confused |

Bounds. Two requests suffice for a race of two readings of the clock and two turns at
the mutex, and a second code supplies the purging stranger. A TTL of one second and a
horizon of three lets entries expire and codes outlive them. The allowance of
30 s is scaled to one second and skewed by two; rounding to whole seconds, which needs
ticks of half a second, is in `redemption_single_use` and, for every tick, in the proofs. In `relay_mixups`
a mix-up needs two flows, and one handler at a time is enough because with a fixed
registry handlers share no state; `relay_replaced` needs two replacements so that
a policy may change and change back or on. The binary knows two providers; their loops
repeat for ever without a bound, only the operators' writes are counted. In `lambda_staleness` a horizon
of two TTLs lets a snapshot be loaded, go stale and be reloaded with a slow load in
between; a tick either way is enough to bring the clock before the last attempt. In
`resource_load` pages of one put a change between any two reads, two changes can
turn one graph into a mixture with another, and names of both kinds collide. In
`jsoncache_overlap` one request may fetch before a change and insert after it while
another hits or misses; the TTLs are two ticks and one, and a call may take
all of the three ticks that the clock runs. In `sealing_rotation`
flows live for two seconds and codes for one, clocks differ by one, and `Keep` is three,
the least that `SealingAssumption` admits: with two, an envelope is refused. The entries
of `redirect_matching` are well-formed ones and near misses of each kind, among them `http:/127.0.0.1/cb`
and one whose only `://` is in its query; a URI with a mere `:` is read as one with `:/` is, and the proofs are about any mark; no decision
looks at more than one entry, and only the demand that entries differ at two. In
`parameters_hops` three more parameters are enough for one that is repeated and one that
depends on another; the own queries repeat a parameter, have one that is forwarded, or have
the relay's own ones, `code`, `state`, `nonce` and `scope`; and five segments for every endpoint with a key of two and one
segment too many. In `jwt_tokens` CODE_TTL is one tick, JWKS_TTL two, each skew one, and the
clock runs for four: a key can be published, cached, used, withdrawn and outlive its
withdrawal in the cache while a code waits. Each cause in `RefusedForCause` and each
bound there is necessary: without it TLC finds a refusal. Deadlock is
not checked where clock, identities or replacements are bounded and the system may idle,
nor in `parameters_hops` and `jwt_tokens`, where a flow ends and a token is judged;
it is in `resource_load`, where a provider polls for ever or has exited, which is a step of its own, and in those of
`JsonCache`, `Sealing` and `RedirectPolicy`, whose processes may always be restarted. Symmetry is only over
interchangeable identities and handlers, and only in runs of safety properties.

Fairness. All modules but `Providers` and `ResourceLoad` assume none: their properties are of safety, and the
HTTP client has no timeout (`main.rs:132`), so nothing obliges a handler at an await to
go on. `Providers` assumes weak fairness of the main task and of each provider's task:
tokio runs what is ready, the sleeps end, and a provider polls again after a failed load
that was not its first, so a source that stays valid is loaded sometime. Writes are not fair. `CatchesUp` and
`StartsOrExits` need no more than that. `ResourceLoad` assumes weak fairness of the load as a
whole (the poll comes round, requests are answered) and that requests and reads fail a bounded
number of times; a graph that stays valid could otherwise fail to load at every poll. Nothing
is fair about a run that has exited: `AdoptsWhatStays` promises that a graph that stays is loaded, or
that there never was a snapshot and the run is over.

## Finding

`docs/src/content/docs/reference/runtime.md:91` says codes "are single-use within one
native process or one warm Lambda execution environment". `redemption_single_use` finds
two redemptions in one life of one process: the replay entry is kept for `CODE_TTL` from
the first use, a code is fresh for up to one second longer than `CODE_TTL` from its
issue, and freshness is not looked at again after the validation. If the first use comes
in the second after the issue, or the second request's validation is slow, or the issuer's
clock was ahead, the entry has gone when the second request reaches it.
`SecondUseOnlyOfEarlyFirst` (checked and proved) says that there is no other way.

Three more differences between the documentation and the code are stated as the exceptions in
properties that hold, and have no run of their own:

- `docs/src/content/docs/configuration.md:131` has the token endpoint derive "CORS permission
  without broadening redirects". A loopback entry `http:/127.0.0.1/cb` passes
  validate_loopback_uri (`model.rs:354`), matches no redirect, as raw_path_and_query
  (`model.rs:412`) finds no `://` in it, and has its origin served (`model.rs:253`). It is
  the exception in `CorsOnlyForRedirects` and in `OnlyDeadNeverMatch`.
- `docs/src/content/docs/reference/http-endpoints.md:22` says that "oauthrelay owns and replaces"
  `client_id`, `redirect_uri`, `state`, the PKCE parameters and `response_type`. Those that the
  configured or discovered authorization endpoint has in its query stay there, and the relay's
  come after them (`router.rs:489-503`).
- `configuration.md:119` accepts "every path and query" at an `origin`, and
  `configuration.md:115` has generated results appended: an application that is sent to
  `...?code=x&state=y` receives two codes and two states (`router.rs:586-591`). Both
  are the exception in `Unambiguous`.

## Proofs

`RedemptionProofs` proves, for every number of processes, codes and handlers, any TTL,
tick, allowance, skew and bound that satisfy `RedemptionAssumption`:

- `TypeCorrect`: `Spec => []TypeOK`;
- `Inductive`: the invariant `IInv`, and from it `ReuseGapHolds`, `BurntMeansUsedHolds`,
  `BoundedAcceptanceHolds`, `SecondUseOnlyOfEarlyFirstHolds`;
- `Refinement`: `Spec => ImplementsOneUseWindow`.

`ReuseGap` is not inductive: that a second yes comes late depends on what the cache still
holds. (`ReuseGap` itself, like `RelaysClosed` and `NoLaterUpstream` of `Providers`, is not
checked by a run of its own: the refinements that are checked imply them.) The strengthening is `Remembered` (a use in the present life is in the cache until
its window has passed: a purge uses an instant that is not later than now, so it drops
nothing it should not), `Timely` (each request and use carries instants in order, and its
code was fresh when checked) and `UniqueIds`. A yes in a state where no entry exists then
comes a window after every earlier use. The two bounds about freshness follow from
`Timely` by arithmetic on whole seconds (`SecondsApart`), and `SecondUseOnlyOfEarlyFirst`
from that and `ReuseGap`. The refinement maps `uses` to the history of spendings; its only
non-trivial step is `FirstUseYes`, whose gap is `ReuseGap` of the next state.

`ProvidersProofs` proves, for every number of providers and every contents of their
sources that satisfy `ProvidersAssumption`:

- `TypeCorrect`, `NoLostUpdateHolds`, `RelaysClosedHolds`, `NoLaterUpstreamHolds`;
- `Refinement`: `Spec => ImplementsConfigPublication`.

The invariant `IInv` adds to the types: `InOrder`, that versions do not decrease on their way
from the source through task and channel into a merge, and that what the merge under
construction was made of is still in the channel or marked as unseen; `MergedSoFar`, that
this merge is the one of the providers read so far; `RegistryMerged`, that the registry is
a merge of valid versions. `IsMerge` says what a merge of the first n providers is
without saying how it is made, one turn of the loop extends it (`MergeNextIsMerge`),
and at the end of the loop it is the `Merge` of `ConfigPublication`
(`MergeIsUnique`). Closedness and precedence follow from it. `NoLostUpdate` is
inductive relative to `InOrder`: an updater that has read a channel may leave it
only because `InOrder` keeps the mark on what came later.

`LambdaRefreshProofs` proves, for all constants that satisfy `SnapshotAssumption` and
`RefreshAssumption`:

- `TypeCorrect` and `BoundedStalenessHolds`. The invariant is `Clocks` (writes lie in the
  past, and the apparent age and the slack are together not negative) and `AllCurrent`:
  whatever a provider lacks was written no longer ago than the apparent age and the slack
  allow, and, during a refresh, after the invocation came. That the attempt is noted
  before the loads is what keeps the last one inductive.
- `Refinement`: `Spec => ImplementsConfigPublication`. The invariant `NeverOlder` puts each
  provider's snapshot between the version in force and its source; a failed load leaves
  it there, which is why a refresh in which some loads fail installs nothing older. The
  other half is `MergeOrderedIsMerge`: the loop of merge_ordered, a recursive function
  here, computes the `Merge` of `ConfigPublication`. That such a function exists
  (`RunExists`) and that after n turns the first of n providers has won (`RunKeepsFirst`)
  are each shown by least counterexample, from the library's theorem about minimal
  elements (`WFMin`), since the theorems of induction take a predicate.

`JsonCacheProofs` proves, for any URLs, key sets, TTLs and number of requests that satisfy
`JsonCacheAssumption`, `TypeCorrect`, `StaleAtMostHolds` and
`RolloverSafeHolds`. The invariant is `HistoryOK` (versions were served in order),
`CacheOK` (an entry was current within the longest call before its insertion) and
`RequestsOK` (an answer was current since its call began, and a URL found in a document
carries the document's age with it). The age of an entry is counted from its insertion
and not from its answer, which is why the bound is a TTL *and* a call.
`RolloverSafe` follows: the version used is one of the recent ones.

`RelayFlowProofs` proves, for any relays, upstreams, issuers, URIs and configurations that
satisfy the assumptions of `RelayFlow`, any number of flows and of requests at a time
and any number of replacements:

- `TypeCorrect`, `RedirectsPermittedHolds`, `UpstreamsAgreeHolds`,
  `PublicNeedsVerifierHolds`, `ClaimsOfBoundUpstreamHolds`;
- `Refinement`: `Spec => ImplementsCodeGrant`.

None of the four is inductive: a redirect is permitted because of checks two requests
earlier, which the model, like the code, has only in what travels. `IInv` therefore says
of each kind of record what was checked for it, at the moments it names: `FlowHolds`,
`ConsentHolds`, `NoticeHolds`, `CodeHolds`, `ReleaseHolds`, and `RequestHolds` for
requests at each await. Two lemmas keep it. Nothing that such a predicate refers to is ever
forgotten or changed (`Remembers`: the log only grows, flows and codes stay), so what
holds keeps holding, in every step; and each action is looked at for the record it makes
and nothing else (`NewRecordsHold`). In the refinement a row of the
abstract tables stands for one flow, code or release; flows are identified by their
number (`FlowsDiffer`), which is what lets a code that was sealed for a flow be looked up in
the table.

`JwtChecksProofs` proves, for any keys, setups, lives, clocks and TTLs that satisfy
`JwtAssumption` and `AbsentAssumption`, `TypeCorrect`, `AcceptedIsOursHolds`,
`AssertionForThisRelayHolds` and `RefusedForCauseHolds`. The invariant says what a cached
key set still tells about the signer's keys now (`CacheTells`: a key that is in it
is published still or was withdrawn since it was fetched, and a published key that was
there before the fetch is in it), that the token at hand was issued as its record says (`JwtIsIssued`), that it is
judged once (`Unanswered`) and that a code was opened within its TTL
(`PresentedInTime`). The verdict is then compared with the truth by cases: for acceptance on what each claim shows, for
refusal on which check refused.

`HopProofs` proves about `Sealing`, for fleets of any size and any clocks and lifetimes
that satisfy `SealingAssumption`, `SealingTypeCorrect` and
`RefusedOnlyBeforeRestartHolds`. The invariant (`RotationInv`) says of each envelope that
its key is one of those set now or that it is stale on every clock (`Covered`), and of
each process that what it sealed with is its own key or one it had before (`Sealed`); of the rollout, that
an instance that is behind still has the key which the others now have as the prior one
and, if keys are announced, all the keys that are in use. That a key may go only
when it has been prior everywhere for longer than `Keep` makes every envelope of it stale, by
the inequality of `SealingAssumption`.

About `Parameters` it proves, for any relays, any documents and paths, and queries,
answers and forms of any length that satisfy `ParametersAssumption` and
`ValuesAssumption`:

- `ParametersTypeCorrect`;
- `NothingAmbiguous`: `Spec => []Unambiguous` (the only parameters of which a receiver may get
  two values are those that the URI had before);
- `ExtensionsPass`: `Spec => []ExtensionsPreserved`;
- `HalvesApart`: `Spec => []HalvesStayApart`;
- `LinksCorrespond`: `Spec => []LinksLeadBack`.

The invariant `IInv` is that what is in `last` and `flow` is what the handler it names
makes of an accepted request (`Answered`), that what the URI had before is a list of
parameters (`OwnQuery`), and that a flow is that of a query which authorize accepted. The rest is about the operators. What a filter leaves is one of the
given pairs and of another name (`PairsOfWithout`), a filter of a message is made of
filters of its parts (`WithoutConcat`), and a filter after one that takes
less is the former alone (`WithoutTwice`); each message is two or three parts, and each property
is shown part by part. Own queries come in at the end: what is appended to one repeats no more
than it did before, but for what it shares with that query (`AppendedOnce`), and is filtered apart from
it (`AppendedWithout`). What the recursive functions `Without` and `WithoutDots` return
is shown for every length although no theorem of induction can be used: the set of
lengths for which a fact holds contains zero and each successor, and such a set is all of
`Nat` (`AllNumbers`, from the library's theorem about minimal elements). Since only a *set*
is needed there, the fact must be one about sequences over a given set of pairs or
segments (`AllSequences`).

That URLs lead back is an argument about lengths. A path without dots is left as it is,
and a public path followed by an endpoint's own path is taken apart where it was put
together (`EndpointParsed`). Where a name has dots, the path gets shorter as it is
resolved (`DotsResolved`). What remains below the public path is then too short for a
namespace, a key and an endpoint, so that such a URL leads nowhere (`ShortDispatched`). No path but the
endpoint's own is accepted, by `ParsedPath`, since of a path only empty ends are taken
away.

`ConfigurationProofs` proves about `ResourceLoad`, for any finite set of names, any page
size, secrets, changes and errors that satisfy `LoadAssumption` and `ApartAssumption`,
`TypeCorrect` and `Refinement`: `Spec => ImplementsRegularLoad`. The abstract load chooses,
at its end, one value that each document and secret had meanwhile. The invariant says that
what is there now was seen (`Watched`), that what was gathered or read was seen (`Gathered`,
`SecretsRead`), that what is missing of the part listed so far was missing at some moment
of the load (`NothingSkipped`), and that what is compiled is what the gathered documents
give with the secrets read (`CompiledSoFar`). The choice that a successful load has made
(`Choice`) is what it gathered and read, and for anything else a value it had. That a page
continues where the last one ended, and that after the last page no name is left,
(`PageIsBeginning`) needs the greatest element of a finite set (`Largest`), again by
least counterexample.

About `RedirectPolicy` it proves, for any hosts, spellings, ports and entries and policies
of any length, `PolicyTypeCorrect`, `NoCleartextAbroadHolds`,
`CorsAgreesWithRedirectsHolds` (from one theorem for each direction) and
`OnlyDeadNeverMatchHolds`, the latter two for any function `RawTail` that agrees with
what is written after `://`. That the policy is valid is inductive; the others follow
from it by cases on the kind of the entry that matches. The witness of an entry that is not
dead is the URI it is written with.

TLC finds every one of these inductive invariants to hold on the instance of its component's run.

Every invariant and every refinement that a run finds to hold is proved. Only
model-checked: `CatchesUp` and `StartsOrExits` of `Providers` and `AdoptsWhatStays` of
`ResourceLoad`, which are liveness under fairness. That is out of the prover's reach and
stays with TLC.

## Not modelled

- Configuration syntax: serde types and the JSON schema are declarative; there is no state
  or order in them. The checks of one field each in Upstream::validate and Relay::validate
  are `Broken` or not `Valid` where they matter.
- Start-up around the modelled parts: environment variables, tracing, serving, `/healthz`
  and `/readyz`. `/readyz` answers only once the listener is bound, which is after the
  snapshots that `StartsOrExits` is about; the code never makes it unready again.
- Requests that never end: the HTTP client has no timeout, so a graceful shutdown may wait
  for ever and an invocation hang. No liveness of handlers is claimed.
- The bytes of envelopes, percent-encoding, the wording of errors, CORS headers beyond the
  decision, and the proxying of bodies.
- The documentation site, the deployment examples and the end-to-end script, which are not
  part of the running program.

## Plan

Every component that keeps state is modelled; all invariants and all refinements are
proved. What was modelled first is what would do the most damage if it were wrong: single
use and bindings, then the configuration they depend on, then caches and keys, then
functions of one request. What could follow, as the code grows: a custom `ReplayCache` or
`KeyStrategy` would each be an abstract specification here, what the embedding program has
to promise, and a timeout of the HTTP client would make liveness of handlers something to
state.
