# oidc4rs in TLA+

A TLA+ development of oidc4rs, an OpenID Connect relying-party library in Rust:
specifications of the parts whose behaviour depends on order, time or
concurrency, TLC runs that check them on small instances, and TLAPS proofs of
the properties that matter most. Paths such as `client.rs:333` are relative to
`src/src/`.

`PROJECT.json` lists the components, the runs, the mutants that show each property can
fail, the source lines each definition models, the hazards and the theorems.

## 1. The system

### 1.1 Components

| Component | Source | State it keeps | Operations | Modelled by |
|---|---|---|---|---|
| HTTP cache policy | `metadata/cache.rs` | none (pure) | `policy_from_headers`, `apply_minimum_cache_duration` | `CachePolicy`, `ResponseHeaders`, `CachePolicyGrowth` |
| Provider metadata refresh | `client.rs:1-421` | `ProviderState` under an `RwLock`, the async `metadata_refresh_lock` | `discover`, `from_parts`, `refresh_metadata_if_stale`, `refresh_metadata`, four setters | `MetadataRefresh*`, `SingleFlight` |
| Discovery request | `metadata/mod.rs`, `metadata/provider.rs`, `types/url.rs` | none | `discover_with_cache`, `ProviderMetadata::validate`, issuer and https URLs | `Discovery*` |
| Second-leg store | `transport/kv.rs` | `InMemoryKvStore::entries` under a `Mutex` | `put_if_absent`, `take` | `KvStore*`, `SingleUseStore` |
| Authorization request | `flow/authorize.rs` | the transaction: state, nonce, PKCE verifier, creation time | the builder, `build`, `to_pending`, `validate_created_at` | `AuthorizeRequest`, `AuthFlow` |
| Callback parsing | `flow/callback.rs` | none (pure) | `parse_authorization_response` | `Callback*` |
| Authorization completion | `client.rs:423-565, 685-800` | locals of a call across three awaits | `complete_authorization`, `complete_authorization_from_pending`, `post_token_request` | `AuthFlow*`, `OneLogin` |
| Token requests | `flow/token.rs` | none | `TokenAuthMethod::from_metadata`, code and refresh requests | `TokenRequest` |
| ID token verification | `token/verify.rs` | key set of the JWKS cache | `IdTokenVerifier::verify` and its checks | `KeyCache`, `TokenVerify`, `ProviderKeys*`, `IdTokenClaims*`, `IdTokenProofs` |
| UserInfo | `token/userinfo.rs`, `client.rs:568-627` | none | `fetch_userinfo`, response dispatch, `sub` binding | `UserInfo`, in `ProviderKeys` |
| Logout URL | `flow/logout.rs` | none | `EndSessionUrlBuilder::build` | `Logout` (proved, no run) |
| HTTP client | `transport/http.rs`, `transport/hyper_client.rs` | connection pool | `execute` | partly: `Discovery`, `ResponseHeaders` |
| Cryptography | FFI bindings | none | digests, randomness | partly: opaque values |
| Identifiers, URLs, claims, errors | `types/`, `error.rs`, `token/` accessors | none | constructors and accessors | partly: where a check depends on one |
| Examples and crate root | `lib.rs`, `examples/` | none | none | not modelled |

### 1.2 How they interact

One `Client` is shared by all tasks of a process. A task that begins a login builds an
authorization URL from the current snapshot and stores a `PendingAuthRequest` in an
`AsyncKvStore`. Later, possibly in another process, the callback takes it
from the store, refreshes the metadata if it is stale, validates the pending request
and exchanges the code. ID token verification reads keys from the JWKS cache that is
part of the provider snapshot. The refresh is the only writer of that snapshot besides
the setters. No background task exists: whatever must happen happens inside
some caller's future, and stops where that caller drops it.

### 1.3 What is hard here, and what correctness means

* **Refresh against refresh.** Two awaits lie between reading the snapshot and
  publishing its replacement. Correct: one request in flight, no regression to an older
  document, keys always of the published `jwks_uri`, nothing published by halves.
* **Refresh against setters.** Setters run at any time. Correct: a setting made during
  a refresh survives it, disabling wins, the three deadlines stay consistent with each other.
* **Outages.** Correct: masked while the stale window is open and only then, retries
  spaced, retry never after the end of the window, forced refreshes not masked.
* **Cancellation.** The guard is released at every await point, the snapshot untouched.
* **Freshness arithmetic.** Contradictory directives in any order and on any number of lines,
  ages above lifetimes, late evaluation, caller's floor. Correct: never fresh longer than the
  response says, except by the floor, and the floor never lifts a prohibition.
* **Single use.** Both store operations read the clock outside their mutex. Correct: a
  pending request reaches at most one callback, is not lost early, not delivered late.
* **Completion.** The pending request is consumed before two awaits that may fail
  or be dropped; it may expire meanwhile; callbacks arrive twice and at several instances,
  whose clocks differ, and bring any code beside any state, which the code never compares. Correct: each
  verifier is sent at most once and within the lifetime; verifier and nonce are those of the state, so that
  no login is completed with the tokens of another one; a transaction that failed stays closed; whether `iss` is required is judged
  by a document no older than the one the instance knew.
* **Verification.** A verifier and a key cache may be taken from two different snapshots, keys
  rotate, `auth_time` arithmetic may overflow. Correct: what is accepted was issued for this client
  and login, and a good token is refused only for a reason one can name.
* **Two legs, two documents.** Endpoint, challenge and stored verifier are fixed at the first leg; the
  authentication method is picked at the second. Correct: URL, pending request and token
  request agree.

`PROJECT.json` has each of these at its line under "hazards".

## 2. The modules

| Module | What it is |
|---|---|
| `CachePolicy` | the freshness rules as operators |
| `ResponseHeaders` | from header lines to what those rules read |
| `CachePolicyGrowth` | one response to which lines are added and which waits to be evaluated, with the properties of the two |
| `MetadataRefresh` | the provider state, its concurrent calls, the setters, clock and provider; extends `CachePolicy` |
| `MetadataRefreshProps` | its invariants, action properties, liveness, and refinement of `SingleFlight` |
| `SingleFlight` | abstract specification: one cached document, one request in flight, never an older answer |
| `MetadataRefreshHistory` | two history variables, for the properties about earlier steps |
| `Discovery` | what documents discovery and refresh accept, for which issuer, and what they request |
| `KvStore`, `KvStoreProps` | `InMemoryKvStore` under concurrent calls; its properties and refinement of `SingleUseStore` |
| `SingleUseStore` | abstract specification of the trait `AsyncKvStore` |
| `AuthFlow`, `AuthFlowProps` | the flow across instances, on a store that is an instance of `SingleUseStore`; its properties and refinement of `OneLogin` |
| `OneLogin` | abstract specification: a transaction is opened once, then exchanged at most once or closed for good |
| `Callback`, `CallbackGrowth` | the callback parser as operators; a query that grows field by field, with the rules it is compared with |
| `AuthorizeRequest` | the authorization URL builder and the pending request |
| `TokenRequest` | token requests made from it, their authentication and answers; extends `AuthorizeRequest` |
| `KeyCache` | a provider that rotates keys and moves its `jwks_uri`, the client's document and key handles, key lookup |
| `TokenVerify`, `UserInfo` | ID token verification and UserInfo calls over `KeyCache` |
| `ProviderKeys` | the composition of these three, with its properties |
| `IdTokenClaims`, `IdTokenClaimsProps` | the checks of claims and times |
| `Logout` | RP-initiated logout, by the client whose logins `AuthorizeRequest` describes; extends it |
| `*Proofs` | TLAPS proofs: `MetadataRefreshProofs` about the refresh and the cache policy, `RequestProofs` about `TokenRequest` and `Logout`, and one module for each of `KvStoreProps`, `AuthFlowProps`, `ProviderKeys`, `IdTokenClaimsProps`, `Discovery`, `CallbackGrowth` |
| `MC*` | values for TLC |

A definition named `X_Y` is the definition `X` with a plausible mistake in it (the mutants
of `PROJECT.json`). No specification uses one; each is there to show that some property
would notice.

### 2.1 CachePolicy

`ParseCacheControl` is the loop of `parse_cache_control` over the directives of one
`Cache-Control` header, with `AddDirective` for a turn; it goes on from what the headers before said. `PolicyFromDirectives` takes the
larger of `Age` and the time since `Date` and applies `ComputePolicy`, whose
order is that of the code: no-store, no-cache, max-age, Expires, default.
`ApplyMinimumCacheDuration` puts the caller's floor under the result. Abstracted: the text
of headers (commas, quoting, case, HTTP dates). A directive is a name with no argument, a
malformed one, or a number; `MaxDelta` is the cap 2^31 and `ParseMax` is `u128::MAX`. `ResponseHeaders` says where
the directives come from: `Received` is what the HTTP client makes of a line that is not
visible ASCII (an empty value), `AllDirectives` joins every `Cache-Control` line, `HeaderValue` takes
the first `Expires`, `Date` and `Age`. `CachePolicyGrowth` appends lines to a response, as a proxy might, lets
a cache raise `Age`, and lets time pass before the evaluation.

### 2.2 MetadataRefresh

A task runs without interference between two awaits, except for what it reads or writes
under the `RwLock`. Each stretch reads or writes the state once, so it is one action. The
stretches of the two refresh calls are:

| Action | Stretch | `pc` afterwards |
|---|---|---|
| `StaleCheck` | start of `refresh_metadata_if_stale` up to the lock, or the return of a fresh snapshot | `queued` or `idle` |
| `ForceRefresh` | start of `refresh_metadata` | `queued` |
| `FindsFresh` | lock acquired, second look finds nothing to do | `idle` |
| `SendDiscovery` | lock acquired, snapshot read, discovery sent | `discovering` |
| `DiscoverySameKeys` | answer with the same `jwks_uri`, publication | `idle` |
| `DiscoveryNewKeys` | answer with another `jwks_uri`, keys requested | `populating` |
| `KeysPopulated` | keys arrive, publication | `idle` |
| `RequestFails` | any error of either request, `metadata_after_refresh_error` for a stale check | `idle` |
| `Cancel` | the future is dropped at an await | `idle` |

`SetRefreshInterval`, `SetMinimumCacheDuration`, `SetRetainOnError` and `DisableRefresh`
are the setters; `Tick` and `ProviderUpdates` are the environment. Reductions:

* `Instant::now` is read once per action, and at the time of the write; `metadata_after_refresh_error`
  reads it just before it waits for the write lock (client.rs:355), which no one holds across an await.
  And `SystemTime::now` is on the same scale. The
  code subtracts instants of one clock only.
* The causes of a failed discovery (transport, status, JSON, validation, another issuer)
  lead to the same `Err` and are one action.
* A document is its version. Versions with the same `JwksUri` share keys. The answer to a
  request is any version that was current since the request was sent, so slow answers are included.
* Of the JWKS cache only its URL and whether it has been filled are kept.
* The futures mutex is not FIFO: any waiting call may get the lock.

### 2.3 KvStore

A call is one invocation; the value a put stores is the call itself, so values are
distinguishable. `StartPut` reads the clock and checks the lifetime; `FinishPut` is the
critical section (`retain`, then insert or refuse). `StartTake` is the critical
section of `take`; `FinishTake` reads the clock and filters. Neither operation awaits, so
neither can be cancelled half way. The lock cannot be poisoned: nothing panics under it.

### 2.4 Discovery

A host serves a body at each discovery URL; issuers are texts, which may differ in
spelling, in a last slash or in the scheme and still share a discovery URL (`WellKnown`). `StartDiscover` and
`StartRefresh` send the request, `DocumentArrives` applies the checks of a 200 response in
order (`Parses`: serde with the validated URL types; `Valid`: `validate`; `SameIssuer`: the comparison with
what was asked for) and either publishes, when the client has the keys of that `jwks_uri`, or requests the
keys; `KeysArrive` publishes; `Fails` is every error and every dropped future.
`FromParts` is the other constructor, whose cache fills at its first use. A request is one URL: that `execute` follows no redirect is
built in, and `RequestsStayHome` is about what documents name. `MetadataRefresh` has the
concurrency and time of these calls and takes documents as versions; `Discovery` has the
documents and takes the calls one at a time, as the lock that `SnapshotStaysCurrent` is about makes them.

### 2.5 AuthFlow

State: the wall clock of each instance as an offset from true time, the document each instance
knows, the pending requests, the variables of `SingleUseStore`, the codes issued, and for each
completion its program counter, instance, callback and locals. `Deliver` starts a completion with any callback:
any code, or an error, beside any state and any `iss`, for the first time or again. The library takes the code as it comes
(callback.rs:103, client.rs:450) and compares it with nothing. What keeps logins apart is that verifier and nonce
come from the pending request of the state: the provider refuses another verifier for a code whose transaction had a
challenge (`ChallengeMet`; without one, it checks nothing), and `check_nonce` refuses the ID token of
another login (`NonceMatches`). The mixed request itself is sent, in the model as by the code. The awaits of
`complete_authorization`, and the verification after it, separate the actions:

| Action | Code | `pc` afterwards |
|---|---|---|
| `Begin`, `Put` | `build` and `to_pending`; `put_if_absent` with `DEFAULT_TTL` | |
| `Deliver` | the callback parsed, `take` called | `taking` |
| `TakeRemoves` | the store removes the entry | `taking` |
| `TakeReturns`, `TakeFindsNothing`, `TakeFails` | its answer | `refreshing` or `done` |
| `RefreshFails` | `refresh_metadata_if_stale` returns an error | `done` |
| `Refuses` | state, age, `iss`, provider error, authentication method, in that order | `done` |
| `SendsRequest` | the token request is posted | `exchanging` |
| `Exchanged`, `ExchangeFails` | its answer, the tokens of the code or a failure | `verifying`, `done` |
| `Verifies`, `VerifyFails` | `verify_id_token`, which the application calls with the result | `done` |
| `Cancel`, `Restart` | one future is dropped; all of an instance are | `done` |

`lookup` is the key the pending request is taken by. It may differ from the state of the callback, since an
application may take the request itself and call `complete_authorization_from_pending`. Documents are reduced to whether the provider sends `iss`
and offers an authentication method that fits.

### 2.6 Callback

A query is a sequence of fields; a value is the set of kinds of byte that occur in it. The operators
follow the order of the checks in the parser. `IsSuccess` and `IsError` say the same rules without an order, over
the query as a set of fields. A response is compared with both.

### 2.7 AuthorizeRequest and TokenRequest

A builder is a record; `New`, `PkceS256`, `SetOption`, `SetMaxAge`, `AddExtra` and `Build` are its
methods, in any order and repeated. Random strings are the numbers of their draws, so freshness is a property
and not an assumption about names. `TokenRequest` continues with the second leg: `Complete` with the values of the pending
request, `ExchangeByHand` with whatever the application passes, `RefreshTokens`; `AuthMethod` picks
from the document of that moment; `Answered` is what is read of the response. Percent-encoding is left out.

### 2.8 KeyCache, TokenVerify, UserInfo, ProviderKeys

`KeyCache` has the provider (documents, keys served at each URI), the client (its document and
handle; every handle ever given out has a cache of its own) and the lookup of one call: `FindsKey`, `Misses`
(fetch again), `KeysArrive`, `FetchFails`. `TokenVerify` adds a
verification, which takes verifier and keys in two steps of its caller and checks the algorithm before it looks
a key up. Its list is one the crate makes, or any the caller names with `allow_alg` or `with_allowed_algs` (`Names`),
HMAC and none among them. Tokens are signed by the provider (`Signed`) or `Forged`: not signed by it, whatever their header
names. `UserInfo` adds `fetch_userinfo`: refresh, one read of document and handle, request, dispatch on
status and content type, for a JWT that can be parsed the same lookup, and the subject check on both branches. Signatures
hold exactly when the key is the one that signed. A handle is named by the version
it was made for.

### 2.9 IdTokenClaims

Time is in ticks, `Second` to a second; claims are whole seconds, `max_age` and leeway are ticks, and
`CheckedAdd` overflows at `MaxInstant`. The provider mints any token for any of its clients,
transactions and access tokens, with an audience list that may name a client twice, and now and then without a required
claim (`lacks`; `exp` in the run, the four of verify.rs:219 in the proof). The verification is `Verdict`, the errors of the checks
in the order of the code, with the context `verify_id_token` wires or one the application makes, which may name
another `client_id` for `azp` (verify.rs:254). A digest is named by
what it digests and the algorithm.

### 2.10 Logout

One builder for each logout: `NewLogout`, its setters, `BuildReturnsUrl` or `BuildFails` by the document of that
moment, `ComesBack` for the provider's redirect. States are numbers of draws; logins draw theirs, their nonces and
verifiers from the same source, and document and refresh are those of `AuthorizeRequest`.

## 3. The runs

| Run | Instance | What it shows |
|---|---|---|
| `cache_policy` | up to 3 lines added to a response, out of 13, unreadable ones among them; clock to 4 | the result depends on the set of directives, not on order or lines; freshness ends when the response says; the floor keeps prohibitions; an extra line never lengthens |
| `refresh` | 2 tasks of 2 calls, 3 documents, 2 URIs, under `LiveSpec` | the snapshot of the lock's holder stays current, keys match, `SingleFlight` is implemented, every call returns |
| `setters` | 2 tasks, 2 documents, setters with durations 0, 3 and unrepresentable | the deadlines stay consistent, settings survive refreshes, what a stale check returns is usable, outages are masked, stale checks are spaced, for the caller that waited too |
| `kv_store` | 4 calls, 2 keys, lifetimes 0, 1, 2, unrepresentable, clock to 3 | no early loss, no late delivery, refusals justified, `SingleUseStore` is implemented |
| `auth_deliveries` | 2 transactions, one without a challenge, 2 codes, 2 completions with any code beside any state, one instance | no login is completed with the tokens of another, no verifier is sent twice, errors are final, `OneLogin` is implemented |
| `auth_clocks` | 2 instances with skews of -1 to 1 that are adjusted, 2 documents, lifetime 2, clock to 5, under `LiveSpec` | what is sent is current, refusals for age are justified, a missing `iss` is judged by no older document, every completion returns |
| `keys` | one call, 3 documents on 2 URIs, 2 keys, a handle per document, callers that name HMAC and none or nothing, tokens signed and forged | see 1.3, Verification: forbidden algorithms, one snapshot, the subject, and reasons for every refusal |
| `id_token` | 2 clients, transactions and access tokens, audiences of one or two, a missing claim, a `client_id` override, 3 algorithms, 2 ticks per second, clocks apart by up to a tick | accepted tokens are ours, our tokens are accepted, authentication is fresh, times refuse only what is wrong |
| `requests` | a public and a confidential request, 3 documents, one setting each (`UrlsMatchPending` is for any number in any order) | URL, pending request and token request agree; the secret leaves once |
| `discovery` | 7 issuer texts on one host, 14 bodies | the issuer is the one asked for, no request strays, a client can verify |
| `callback` | queries of up to 5 fields out of 20 | the parser accepts what the rules allow, in every order |
| `shared_failure` | 2 tasks | **violation**: see 3.2 |

All runs set `CHECK_DEADLOCK FALSE`: each system stops when its bounded clock, calls or fields
are used up. Symmetry is over tasks, keys, codes, access tokens, and in `id_token` transactions, never
under a liveness property, and no constant operator singles out one of the permuted values.

### 3.1 Bounds, and why they are enough

* *Header lines.* The rules look at the minimum of max-age, at flags and at first occurrences. Every
  order effect is one between two lines; the third is the one that is added.
* *Tasks.* Races are between a refreshing call and one other writer; two tasks give a holder of
  the lock and one that waits for it and looks again, and two calls of each (`refresh`) a waiter that
  becomes the holder while the first comes again. The proofs of 4.1 hold for any number.
* *Documents.* Two with one URI and a third with another: both branches of the
  publication and a change between request and answer. In `keys` the third goes back to the first
  URI: a handle made before that is not the one given out after it.
* *Durations and instants.* Scaled: interval 2, minimum 1, retention 2, retry 1 (2 in `setters`, so that it can outlast
  the window), clock to 3, so that every deadline falls before, on and after other deadlines and the clock.
  `MaxInstant = 9` with duration 9 gives sums that an `Instant` cannot hold.
* *Responses.* No freshness of its own; strict and fresh until 3; not to be stored. These
  are the three ways `metadata_cache_deadlines` can go.
* *Store.* A race takes one put or take between the two steps of another, and a third
  call to observe; four calls allow a put, a racing pair and an observer.
* *Completions.* A replay or a mix takes two completions and two transactions. One is `Challenged` and the
  other is not, so that a code of each goes beside the state of the other. `Iss` is only the expected one there, since
  the clock run has all three. The clock run needs one
  completion, and an instance other than the one that began; its clock goes past the lifetime by
  twice the skew and further.
* *Token times.* Half seconds, `max_age` zero and above one second, leeway zero and larger than the
  lifetime, the last instant one tick after the clock ends: rounding and overflow both happen.
* *Lists and claims.* `Names` is one list of everything the library refuses by itself, or none; `MaxAud = 2` is the least that
  has two entries, alike or not; `Lacks` and `Overrides` have one member each, since the checks treat all alike.
* *Keys.* One call, since calls share nothing but the provider, the client and the caches of the handles, which
  other calls change by `RefreshClient` and `CacheExpires`. The proof holds for any number.
* *Fields.* No rule relates more than the six names it asks for, and a repetition needs two
  fields; five include each pair of faults in each order. The proof is for any length.
* *`MaxCalls`, `MaxTime`, `MaxVersion`, `MaxDraws`, `MaxSettings`, `MaxLines`, `MaxFields`.* Cap counters only.

### 3.2 The violation, and other differences between code and documents

* `shared_failure`: `client.rs:319` says "Concurrent stale checks share one refresh." When
  a refresh fails and the snapshot has no open stale window,
  `metadata_after_refresh_error` records no retry deadline, so every
  stale check that waited for the lock sends the failing request again, one after another.

The following were met while modelling and have no run of their own; the models do what the code does.

* `docs/SPEC.md:56` and `:162` say that `at_hash` is computed with SHA-256. `calculate_at_hash` takes the digest that belongs to the
  algorithm of the token, SHA-384 or SHA-512 for some and by the curve for EdDSA (`Digest`), as OpenID Connect Core 3.1.3.6 asks.
  `OwnTokenAccepted` is about a provider that does the same; by the words of the document it would be violated for those.
* A retention whose sum overflows `Instant` gives no stale window at all
  (`client.rs:78`), although `client.rs:287-291` says the setting is how long stale metadata
  remains usable and names only zero as disabling it.
* `flow/authorize.rs:214` says that a `max_age` of zero forces a new authentication. `check_auth_time` then compares
  a claim in whole seconds with a clock that has parts of one, so without leeway a token of that very
  authentication is refused unless clock and claim agree to the tick. `TimesRefuseOnlyWhatIsWrong` states what does hold: less than a second of `max_age` is lost.
* `flow/token.rs:10` says that the first listed authentication method is the default. `from_metadata` prefers
  `client_secret_basic`, then `client_secret_post`, in whatever order they are listed (`AuthMethod`).
* `transport/hyper_client.rs:28` says that a response is returned verbatim. A header value that is not visible
  ASCII becomes the empty string (`Received`).
* `client.rs:216` says that the key cache honors `Cache-Control`. `HttpJwksFetcher` passes the first such
  line on and drops the others, where the metadata cache reads all of them (`CacheExpires` may happen at any time,
  so no property depends on it).

### 3.3 Fairness

`MetadataRefresh!LiveSpec` assumes weak fairness of `Progress(c)` per task: a runnable task is polled, and a
request ends in `Ok` or `Err`, as the contract of `AsyncHttpClient` asks
(`transport/http.rs:77-85`). The crate sets no timeout of its own: with a transport that breaks this contract the lock stays taken,
and `CallsReturn` does not cover that. Nothing is assumed of starting calls, setters,
cancellation, the clock or the provider. `CallsReturn` also needs that each task makes
finitely many calls (`MaxCalls`): since the mutex is not FIFO, an endless supply of other
calls could overtake a waiting one forever.

`AuthFlow!LiveSpec` assumes the same of each completion: it is polled, and the store and the
transport answer, with a result or with an error, and the application goes on to verify the ID token it gets. Nothing is assumed of users, browsers, the provider,
clocks or restarts.

## 4. The proofs

The theorems hold for every value of the constants that satisfies the named assumptions
(`None` differs from the values it stands beside, durations are naturals, documents have the type of
documents, the clock ends before the last instant). No bound on tasks,
calls, documents, transactions or durations is used beyond its type.

### 4.1 MetadataRefreshProofs

`IInv == TypeOK /\ SnapshotStaysCurrent /\ AnswersAreNewer /\ KeysMatchMetadata /\ DeadlinesOK`.
`SnapshotStaysCurrent` alone is not inductive for "never goes back": the version about to be
published must be known to be at least as new as the one it replaces. `AnswersAreNewer`
says so: a request in flight was sent no earlier than the published document appeared, and
an answer that waits for its keys is no older than its request. There is one lemma per action,
with one step per conjunct that it can disturb; the deadline conjuncts are isolated in
lemmas about `CacheDeadlines`.

| Theorem | Property |
|---|---|
| `TypeCorrect` | `TypeOK`, with every deadline representable |
| `SnapshotsAreCurrent`, `KeysMatch` | `SnapshotStaysCurrent`, `KeysMatchMetadata` |
| `DeadlinesHold`; `DisableWins`, `StaleWindowIsDerived`, `RetryIsBounded` | `DeadlinesOK`; its three parts |
| `NeverGoesBackHolds`, `SettingsSurvive` | action properties, from `IInv` |
| `StaleChecksReturnUsable`, `OutagesAreMasked` | what a stale check may return |
| `DocumentsAreKeptAsStated`, `StaleUseNeedsPermission` | from the headers to the deadlines, below |
| `Refinement` | `Spec => Flight!Spec`: the holder of the lock and its snapshot are the request in flight; publication maps to `Land`, failure and cancellation of the holder to `Abort`, everything else stutters |

`KeptAsStated` and `StaleUseIsPermitted` join this component and the cache policy (4.10): whatever the settings became
and however long the keys took, a published document counts as fresh no longer than its own headers or the minimum allow, and
one that must be revalidated never gets a stale window, by no setter either ("Responses requiring revalidation remain
ineligible", client.rs:275). They are no property of a run; TLC finds them true of one caller with two calls and all setters, on the
values of `MCMetadataSetters`.

### 4.2 KvStoreProofs

`IInv == TypeOK /\ LocalsOK /\ ComesFromPut /\ InOnePlace /\ NothingLostEarly`. `InOnePlace`
needs `ComesFromPut`: two keys cannot hold the same value because each value
lives under the key its put named. `NothingLostEarly` needs that the deadline in the entry is that
of the put, and that the clock a put read is not ahead of the clock.

| Theorem | Property |
|---|---|
| `TypeCorrect` | `TypeOK` |
| `AtMostOnce`, `NoneLost` | `InOnePlace`, `NothingLostEarly` |
| `NeverLateHolds`, `RefusalsAreJustified` | `NeverLate`, `RefusedForUsable` |
| `Refinement` | `Spec => Store!Spec`: the critical section of a put maps to `Create` or `Purge`, those of a take to `Remove`, then `Receive` or `Discard` |

### 4.3 AuthFlowProofs

`IInv == TypeOK /\ LocalsOK /\ BornOK /\ InOnePlace`. `InOnePlace` is the heart: a transaction is
in the store, or with exactly one completion, for good. `LocalsOK` ties what was sent and returned
to what was received, and the tokens to the code that was sent: no assumption is made on which code comes beside which state; `BornOK` ties the stored wall-clock time to the true one within the skew, which turns
the age that is judged into bounds on the true age.

| Theorem | Property |
|---|---|
| `TypeCorrect`, `BoundAlways` | `TypeOK`, `BoundToTransaction`: from `LocalsOK` |
| `NoReplay`, `ErrorsAreFinal` | `ExchangedAtMostOnce`, `ErrorEndsTransaction`: from `InOnePlace` |
| `SentWhileCurrent`, `AgeRefusalsAreJustified` | `CurrentWhenSent`, `RefusalsAreJustified`: from `BornOK` |
| `IssuerIsRequired` | `MissingIssuerRefused` |
| `Refinement` | `Spec => Login!Spec`: `Put` opens, `SendsRequest` exchanges, `Verifies` logs in, every other step leaves each transaction or closes it |

### 4.4 ProviderKeysProofs

`IInv == TypeOK /\ HandleOK /\ \A c : CallOK(c)`. `HandleOK` says that the handle given out is one for the
`jwks_uri` of the client's document. `CallOK` says what a call knows at each place: which key
and algorithm its token can have, and where its document and handle come from. The steps are split by component: provider,
client, lookup, verification, UserInfo.

| Theorem | Property |
|---|---|
| `TypeCorrect`, `NothingUnsigned`, `SnapshotIsOne`, `SubjectIsRight` | `TypeOK`, `UnsignedNeverVerified`, `OneSnapshot`, `AnswerIsAboutTheSubject` |
| `RefusalsHaveReasons` | `RefusedForAReason` |

`UnsignedNeverVerified` has three parts, since `check_alg` takes what the caller names: none is never accepted, an HMAC algorithm
only where the caller named it, and what is verified was signed by a key of the provider.

### 4.5 IdTokenProofs

`IInv` says what the provider puts in a token (`Minted`) and that verdicts follow tokens, beside the two
properties themselves. One lemma per check says what follows when it passes and what when it fails;
`WholeSeconds` is the rounding of claims. Theorems: `AcceptedTokensAreOurs`, `OwnTokensAreAccepted`,
`AuthenticationIsFresh`, `RightTimesPass`, for the properties of `IdTokenClaimsProps` in this order.

### 4.6 DiscoveryProofs

`IInv == TypeOK /\ StagesOK /\ RequestsStayHome /\ CanVerify`. `StagesOK` carries what a document in use
has passed, and that nothing happens before an issuer is named. Theorems: `TypeCorrect`, `IssuerIsRight`, `NoRequestStrays`,
`ClientsCanVerify`.

### 4.7 CallbackProofs

The invariant is that the query is a sequence of fields. The proof of `ParserByTheRules` shows once that
counting distinct names is the duplicate check, that `Parameter` is the set of nonempty values under a name when none repeats, and
then goes through the branches of the parser.

### 4.8 RequestProofs

The invariant of the logins, `RequestsOK`, says that every random string of a builder or request is one of those drawn so far,
that no two transactions hold one in common, that a client without a secret has a verifier, and that each built URL
says, under every name the library writes, what the pending request says and nothing else (`UrlOK`). `TokenInv` adds the token
requests. Which positions of a URL carry a name is shown once, as lemmas about concatenation (`Has`, `HasConcatenated`),
and the properties are read off them. A parameter that the endpoint's own query or the application's extra
parameters also name (`OwnNames`) is excluded by the properties: the code appends and does not look for duplicates.

`LogoutInv == RequestsOK /\ LogoutTypeOK /\ StatesOK /\ BackOK`: no two logouts own the same state, in the builder or returned,
none owns a string of a login, and whoever came back brings the state that was returned for it.
`EchoIdentifiesLogout` alone is not inductive: a state may still sit in a builder when another logout ends.

| Theorem | Property |
|---|---|
| `UrlsMatchPending`, `ProvidersAccept`, `SecretsAreSentOnce` | `UrlMatchesPending`, `ProviderAccepts`, `SecretSentOnce` |
| `EchoIdentifies` | `EchoIdentifiesLogout`, for any number of logouts among any number of logins |

`Logout` has no run of its own: the proofs answer what one would ask.

### 4.9 The spacing of stale checks

`StaleChecksSpaced`, in `MetadataRefreshProofs`, is about two history variables (`MetadataRefreshHistory`): until when a stale check
should be quiet, and which calls were waiting when a request failed. The invariant beside `IInv` is `QuietIsKept`: as long as `quietUntil` lies
ahead, refreshing is disabled, or the snapshot is fresh until then, or a retry is deferred until then. Each publication and
each masked failure establishes it (`SuccessQuiet`, `FailureQuiet`), and no other step brings a deadline forward except the
setters, which end the quiet time. It needs `StatedFreshnessFits`, an assumption on the responses: a freshness that
overflows `Instant` gives no deadline at all (3.2).

### 4.10 The cache policy

Also in `MetadataRefreshProofs`, about `GrowthSpec`. The two nested loops over lines and directives are compared with a closed form,
`Meaning(S)`, of the set `S` of directives: the least of the ages, and a flag for each of the other three. The library's induction
rules cannot be used here (they take an operator), so equality of a loop and its closed form is shown by *least index*: `NatLeast` gives
a set of naturals a least element, from the well-foundedness of `<`; were the two different at some turn, they would be at a
first one, and `SameTurns` says that there they took the same turn from the same value. `AddOne` is that turn for the inner
loop, `LoopOfOneLine` for the outer one. `HeaderValue`, the first line of a name, is the least index likewise (`LineMore`).

The invariant is `GrowthInv`: the lines are such as a server writes, and `headers` is what is read of them. `PolicyIs` says
what the policy of given headers is bounded by; `StricterIsShorter` that more directives never give more.

| Theorem | Property |
|---|---|
| `OrderNeverMatters` | `OrderIndependent`, for lines of any length and number |
| `FreshnessEnds`, `FloorStaysStrict` | `FreshnessEndsWhenStated`, `FloorKeepsStrictness` |
| `ExtraLinesNeverLengthen` | `ExtraLineNeverLengthens` |

### 4.11 Model-checked only

Liveness (`CallsReturn`, `CompletionsReturn`): the prover does not reach fairness. Every other property of a
passing run is a theorem.

## 5. What could come next

A composition of `AuthFlow` with `MetadataRefresh` in place of the refresh outcomes it assumes, and with `KvStore` in place of
its abstraction; several tasks in `keys`; a run of `Logout`.

## 6. Not modelled

* TLS, connection pooling, HTTP bodies: I/O of hyper. What is kept of the client is that one request is sent, that no redirect is
  followed, and what becomes of header values; the contract of the trait is the fairness assumption.
* The native cryptography: digests and random strings are opaque values, comparison is equality, its timing has no
  counterpart here. JOSE parsing and `JwtConsumer` are modelled as external, by what the code asks of them.
* Text: percent-encoding, JSON and HTTP-date syntax, `Display`, `Debug` and the redaction of secrets in it, serialization of
  the pending request.
* The crate root and the examples: re-exports and usage.
* Memory effects of `Arc` and of the `RwLock` and `Mutex` types: the code has no unsafe access to
  this state, so reads and writes under a lock are atomic.
