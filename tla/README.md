# A formal model of the Supertab Connect Python SDK

TLA+ modules, TLC configurations and TLAPS proofs for `src/supertab_connect`.
Paths such as `merchant/jwks.py:87` are relative to that package; `README.md` and
`CHANGELOG.md` with a line number are those of the repository.

## 1. The system

The SDK has two sides that share no state.

- **Merchant side.** A site builds one `SupertabConnect` and passes each request to
  `handle_request`. The client decides: allow, signal (observe) or block. A request
  with a License token has the token verified against the platform's key set
  (JWKS); the outcome is posted to the platform's event endpoint, an analytics event
  is handed to a transport, and a status probe tells the platform whether the site
  reports events.
- **Customer side.** A crawler calls `obtain_license_token`. It fetches the origin's
  `license.xml`, matches a content block to the resource, and asks that block's
  server for a token. Documents and tokens are cached.

All of it runs in asyncio. Concurrency is *tasks of one event loop*, which interleave
only where an `await` suspends; the token cache is also shared between event loops.
Nothing is persisted, so there is no crash recovery: what a process loses it builds
again.

### Inventory

| component | state | operations | talks to |
|---|---|---|---|
| JWKS cache (`merchant/jwks.py`) | `_jwks_cache`, `_jwks_last_refresh`, `_jwks_refresh_locks`, `_http_client` | `fetch_platform_jwks`, `refresh_platform_jwks_on_miss`, `clear_jwks_cache`, `aclose_http_client` | the platform's JWKS endpoint |
| License verification (`merchant/license.py`) | none between calls | `verify_license_token`, `verify_and_record_event`, `build_*_result` | JWKS cache, event recording |
| Status challenge (`merchant/status.py`) | none between calls | `verify_status_challenge` | JWKS cache |
| Merchant client (`merchant/client.py`) | `_instance`, `_base_url`, `_analytics_base_url`, the configuration, `_analytics_transport`, `_analytics_enabled` | construction, `reset_instance`, `handle_request`, `verify`, `verify_and_record`, `set_base_url`, `aclose` | all of the above, the transport |
| Bot detection (`merchant/bots.py`) | none | `default_bot_detector` | — |
| Event building (`analytics/build_analytics_event.py`) | none | `build_analytics_event` | — |
| Event recording (`merchant/events.py`) | `_http_client` | `record_event`, `aclose_http_client` | the platform's event endpoint |
| Analytics transport (`analytics/transport.py`) | `_closed`, `_client`, `_tasks` | `emit`, `_send`, `_on_task_done`, `flush`, `aclose` | the analytics relay |
| License tokens (`customer/token.py`) | `_LICENSE_XML_CACHE`, `_LICENSE_TOKEN_CACHE`, the locks of each loop and key | `obtain_license_token` | origins, token servers |
| `license.xml` parsing (`customer/content_parser.py`) | none | `_parse_content_elements` | — |
| Content matching (`customer/content_matcher.py`, `url_pattern.py`) | none | `_find_best_matching_content`, `score_path_pattern` | — |
| Not modelled | — | `analytics/ip.py`, `merchant/headers.py`, `types.py`, `common.py`, `exceptions.py` | — |

### What is hard here, and what must hold

- **JWKS.** Plain fetches are not serialised: several may be in flight and be
  answered out of order, while the platform rotates keys. Forced refreshes are
  single-flight and throttled, through failures, cancellation and clears. A withdrawn key must stop
  verifying in bounded time; a good key must never stop verifying; a rotated key
  should start to.
- **Merchant client.** Two awaits separate a request from its decision, either may
  fail or be cancelled. One event per decision, and the event must tell the decision
  the caller got, and enough of the request to explain it. Recording and reporting
  must not change a decision. `aclose` empties module-wide slots that requests refill,
  and comes to the client's own transport last, while other clients go on. The
  platform's URL may be changed while a call awaits.
- **Transport.** Overlapping `aclose` calls, each with its own snapshot of the tasks;
  done callbacks that come later than the end of their task; a relay that never answers.
- **License tokens.** Two cache lookups around a lock; a lock holder that fails or is
  cancelled; tokens that are close to expiry; documents replaced while fetched; keys
  that must tell clients, servers and scopes apart.
- **Parsing and matching.** Namespaced elements hide plain ones, blank attributes count
  as missing, and only the first license of an element speaks. Precedence among host, exact and
  scored matches; four translations of a pattern into a regular expression; credentials that
  must not go to a third party.

`PROJECT.json` lists each hazard at its line with the properties that cover it, or
the reason why none does.

## 2. The modules

| module | models | role |
|---|---|---|
| `JwksVerification` | `jwks.py`, `license.py`, `status.py` | verifications as tasks of one loop, the platform, the clock |
| `JwksVerificationProofs` | — | six theorems about it |
| `MCJwksVerification`, `MCJwksClear` | — | requests for TLC; the history needed to talk about a clear |
| `FireAndForget` | — | abstract: what a transport promises its owner |
| `AnalyticsTransport` | `transport.py` | implements `FireAndForget` |
| `AnalyticsTransportProofs` | — | that it does, and its safety: five theorems |
| `ContentMatching` | `url_pattern.py`, `content_matcher.py`, `token.py:288-397` | operators: patterns, scores, the choice of block and endpoint |
| `LicenseXml` | `content_parser.py`, `conformance/run.py:77-95` | operators: the blocks of a document, and what it grants; extends `ContentMatching` |
| `BestMatchScan` | `content_matcher.py:10-64` | the matching loop, one step per block, on parsed documents |
| `ContentMatchingProofs` | — | lemmas about the operators of `ContentMatching` and `LicenseXml` |
| `BestMatchScanProofs` | — | six theorems: the loop, parsing, the choice of the endpoint, the pattern language |
| `LicenseTokenCache` | `token.py:28-156`, `239-281`, `405-503` | `obtain_license_token`; extends `LicenseXml` |
| `LicenseTokenCacheProofs` | — | six theorems about it |
| `RequestSignals` | `bots.py`, `build_analytics_event.py` | operators: the bot detector, the event of a request |
| `AccessPolicy` | — | abstract: how the client answers its callers |
| `MerchantClient` | `client.py`, `events.py`, the HTTP slots | instance, requests, `aclose`; implements `AccessPolicy` |
| `MerchantClientProofs` | — | five theorems about it |
| `MerchantPolicyProofs` | — | that it implements `AccessPolicy` |
| `MerchantSystem` | `client.py:109-144`, `transport.py` by its contract | `MerchantClient` with the platform's URL and one transport per client |
| `MerchantSystemProofs` | — | that it is a `MerchantClient`, and three theorems about what surrounds it |
| `MC…` | — | constants for TLC |

### How steps correspond to the code

*An action is the code of one task between two awaits that can suspend.* Where that
code has branches with different effects, they are disjuncts; where it runs
a loop or calls helpers that touch shared state, the helpers are operators with their
own name. A helper that touches no shared state is folded into its caller.

**`JwksVerification`** is finer: it has one action per piece of a helper
(`FetchCached`, `FindKey`, `AcquireLock`, `RefreshThrottled`, …), and the variable
`running` keeps the loop with one task until the task reaches its next await. Actions
of other tasks, `ClearCache` and `Tick` need `running = None`. Only the platform
(`ServeResponse`, `Rotate`) may act at any time, as it is another machine.

- `jwksCache`, `lastRefresh` are the dictionaries; `holder` and `waiters` an
  `asyncio.Lock`, which is taken at once only when it is free *and* nobody waits.
- A request has three points: sent (`FetchMiss`, `RefreshFetch`), answered at the
  platform (`ServeResponse`, which reads the key set published then) and received
  (`FetchDone`), or it fails (`FetchFail`) or is cancelled (`CancelFetch`). Answers may
  so overtake each other.
- A token is its key and at most one defect. `PreFetchReason` lists the checks of
  `verify_license_token` before the key set is needed, in the code's terms;
  `DecodeReason` the outcome of the decode. `raised` stands for the payloads whose
  exception leaves the function (a `kid` or an issuer that is no string).
  A challenge is the same verification, except that it fetches first, has no issuer, and
  finds out about an unusable header only afterwards.
- `withdrawn`, `throttled`, `offered`, `forcedAt` are history: nothing in `Next` reads
  them, except to update them.

**`AnalyticsTransport`.** `send[e]` is the state of the asyncio task of event `e`,
`tasks` the set `_tasks`, which a task leaves only in its done callback. `aclose` is
cut at its three awaits: flush, gather, closing the HTTP client. `flush` ends when
its snapshot is done, or by timeout at any time before that.

**`LicenseTokenCache`.** `lock[l, key]` is the queue of one lock, the holder first.
The code drops its reference to a lock when nobody uses it; an absent and a free lock
behave alike, so the model keeps them all. Actions are whole stretches: `Begin` runs
from the call to the first await that suspends, which may be the request for
`license.xml`, the lock, or the token request; a resource that is no absolute URL ends the call there. An
origin is a scheme and a host (`Origin`), as the keys of `_LICENSE_XML_CACHE` are. Token contents are what the request
body said, so that a property can ask for whom a cached token was minted.

**`MerchantClient`** leaves the outcome of a verification open: `VerificationReturns`
takes any verdict, or the exception that leaves `verify_license_token`. Two more exceptions reach
the caller: one of a merchant's `bot_detector`, and one of `record_event` that is no `httpx.HTTPError`.
Building an analytics event is taken to succeed. `verify`, a method of the class, is a call without a client
(`client[t] = None`); `verify_and_record` shares `VerificationReturns` with `handle_request` and
reports nothing. `slot[m]` is the module's `_http_client`; `lost[m]` counts clients
that were in a slot, are open and are no longer referenced.

**`RequestSignals`** reads a request as the set of its header names and the set of the markers its
user agent contains: the code only asks whether a value is empty and whether a substring occurs. The URL of
a request is taken to be absolute, so every event names a host.

**`AccessPolicy`** has a caller's question, fixed when it is asked (which call, whether it brings a token, the mode,
what the detector says), the ruling on its token, once it is out, and the answer. A call that needs no verdict is
answered by `Ask`. Any verdict may come out (`Rule`), as the client does not make it. From then on one answer
is left, the one `After` names (`Conclude`), or none at all: the call raises or is cancelled (`Unwind`; a probe
never raises, `status.py` catches every exception). The refinement maps a request and the client it came to
onto the question, `verdict` onto the ruling, and forgets instances, slots, events and transports.

**`MerchantSystem`** runs `MerchantClient` unchanged, and `Handle` and `Close` add to its steps what
happens around it: `Address` which platform a call asks and records at (the URL is read once,
when the call comes in), `Report` whether the client's transport took the event. `EndDrain` is the end of
a transport's `aclose`, `Settle` the end of a delivery. The transport's inside is `AnalyticsTransport`; here only what
`FireAndForget` promises is used, and `TransportsKeepContract` shows that the client
on its side lets that contract hold for each transport.

**`LicenseXml`** takes a document as its tree of `<content>` and `<license>` elements, each with its
namespace; a `<license>` is the set of its usage statements, and whether text other than white space follows
it. The parser stores the element as `ElementTree.tostring` writes it, with that text (`LicenseText`); what
`_license_permits_usage` then reads is no XML document, and permits nothing.

**`BestMatchScan`** is the `for` loop over `content_blocks` with the loop variables as
variables; `ContentMatching!BestMatches` defines the same result without a loop.

Operators named in a comment as *faulty variants* (`NobodyWaits`, `KeepLock`, …) are
not used by any specification. Each is a plausible bug, and replacing the
definition next to it makes the property named in `PROJECT.json` fail.

## 3. What is checked

| run | properties | result |
|---|---|---|
| `jwks_safety` | types, `SingleFlight`, `RefreshSpacing`, `RevokedKeyBound`, `StableKeyNeverRejected`, `OnlyThrottlingRejects` | hold |
| `jwks_liveness` | `EveryVerificationEnds` | holds |
| `jwks_rotation` | `RotationRecoversOnFirstMiss` | **violated** |
| `jwks_clear` | `ClearForcesFreshFetch` | **violated** |
| `transport` | types, `NothingAfterClose`, `NoClientLeak`, `CancelledOnlyAfterTimeout`, `CallersReturn`, `ImplementsFireAndForget` | hold |
| `matching` | types, `ScanFindsBestMatch`, `CredentialsStayHome`, `PatternLanguage`, `GrantedUsageIsFree`, `NamespaceNeutral` | hold |
| `token_cache` | types, `OneMintPerLoop`, `TokenFitsCall`, `NoRedundantMint` | hold |
| `token_liveness` | `ReplacedLicenseBound`, `EveryCallEnds` | hold |
| `token_collision` | `OriginsDoNotShareTokens` | **violated** |
| `merchant` | types, `OneEventPerDecision`, `BlockedForAReason`, `SilentUnlessReporting`, `EventsExplainDecisions`, `ImplementsAccessPolicy` | hold |
| `merchant_system` | `OnePlatformPerCall`, `ClosingLosesNoEvent`, `TransportsKeepContract` | hold |
| `merchant_client_slot` | `NoClientLost` | **violated** |

Run one with `tlc -workers 2 -config <cfg> <module>`; `PROJECT.json` pairs them.

### What the runs of the merchant client and of matching say

- `ImplementsAccessPolicy` is the README's "can never block, slow, or alter request
  handling" (`README.md:192-193`) as a refinement. Without a token the answer is a function of mode and
  detector. With one it is the answer the verdict leads to, in whatever state the transport, the instance or a
  closing is by then. Which verdict comes out is left open, and so is *whether* there is an
  answer: an exception of verifying or recording leaves the call, a cancellation ends it. What cannot happen is
  another answer than the verdict's, such as one that lets a request through because its recording failed.
- `EventsExplainDecisions` runs the default detector again on what an event carries. It holds because
  every header the detector looks at has a field in the event.
- `OnePlatformPerCall`: a token is never verified at one platform and recorded at another.
- `ClosingLosesNoEvent`: an event of the background transport is dropped only after an `aclose` of *its* client, and
  none is pending when that has returned.
- `GrantedUsageIsFree` states when `obtain_license_token` returns `None`, in terms of
  the document's elements: a license with text behind it, or one behind the license that is read, grants nothing; `NamespaceNeutral` that a plain document means the same as a namespaced one.

### What the violated runs show

- `jwks_rotation` — two rotations within the cooldown, a refresh that failed, or another
  caller's unknown key: the cooldown is spent, and a sound token signed by the new key is rejected
  until it is over. The comment at `merchant/jwks.py:17-18` and the changelog promise recovery on
  the first miss. `OnlyThrottlingRejects` is the part of the promise that is true.
- `jwks_clear` — a request in flight while `clear_jwks_cache` runs stores its old
  answer afterwards, so the next call does not fetch.
- `token_collision` — the scope of a path-only pattern does not name the origin, so
  two origins behind one server share a token, against the comment at `customer/token.py:448`.
- `merchant_client_slot` — `aclose_http_client` empties the slot after an await; a client
  that a request put there meanwhile is dropped open.

Met while modelling, and not given a run:

- `README.md:231-233` says that `obtain_license_token` raises when no content block matches, while
  `_select_token_endpoint` then mints on the Agreement lane of the API host
  (`customer/token.py:388-397`, `matched = FALSE` in `SelectTokenEndpoint`).
- A closed client stays the process's instance: its transport drops every event while its
  status probe goes on to answer `eventReporting: true` (`merchant/client.py:87-91`).
- A browser that sends no client hints passes the default detector before the list of known bots is
  looked at (`merchant/bots.py:79-81`): a listed bot with Safari's tokens passes.
- Text between `</license>` and the next tag keeps a license from granting a usage for free: it is stored with the license
  (`customer/content_parser.py:50`), the stored text cannot be parsed (`customer/token.py:289-292`), and a token
  is asked for although the license permits the usage. No comment says what such a document should mean.
- Two schemes of a host are two origins with a `license.xml` each, but matching does not look at the scheme
  (`customer/content_matcher.py:34-38`): a block for `https://h/*` in both gives them one cached token.
- The license is not in the key of the token cache: a token minted under an earlier `license.xml` serves calls that
  have read a later one until it expires.
- The usage filter runs before matching, so a block without a server that permits a
  usage wins over a more specific one that prohibits it (`customer/token.py:324-328`).

### Bounds, and why they are enough

- **Tasks.** Two verifications show every pair of steps around the lock, and each task
  verifies again and again; three are needed for two waiters, which the liveness run has. Two
  calls in one loop and a third in another for the token cache. In `LicenseTokenCache`
  each task makes one call: a later call of a task meets the same shared state as
  another task does.
- **One base URL** in the JWKS runs: all state is per URL, and no step reads two URLs
  except `ClearCache`. The proofs hold for any number.
- **Keys.** `ks` is never withdrawn, `kr` comes and goes; a token that names `kr` while
  it is not published is the token with an unknown key.
- **Time.** Only comparisons of ages matter, so `TTL = 3`, `Cooldown = 2` and
  `MaxTime = 4` let every entry be fresh, age to the boundary, and expire, with the
  cooldown shorter than the TTL as in the code. The liveness run sets `MaxTime = 0`
  and `Cooldown = 0`: every cached entry stays fresh until a clear, and no forced
  refresh is throttled, so that the lock is contended without end. With `XmlTTL = 1`, `Margin = 1`,
  lifetimes 2 and 3 and `MaxTime = 2`, documents and tokens meet both sides of
  their boundaries.
- **`Flight`** (`LicenseTokenCache`) bounds how long a request for `license.xml` takes. It is an
  assumption: httpx's 10 s timeout is one per phase of a request, not one for the whole.
  `ReplacedLicenseBound` depends on it (an entry is stamped on arrival), the others do not.
- **One origin** in `token_cache` and `token_liveness` (and a resource without one): the caches' entries of two
  origins do not meet except in a token key, which `token_collision` and the theorem `OnlyPatternsShareHolds` are about.
- **`Verdicts`** (`MerchantClient`) is what verifications return in a run: valid, one reason
  that answers 401 and the one that answers 503.
- **`Requests`** gives each task what may reach it. In `merchant` and `merchant_system` one task
  takes every request of the run and the other only those answered at once; a closer runs beside
  both. State that tasks share (slots, transports, the instance) is so met by an awaiting task in
  every state another can bring it to. Both await in `merchant_client_slot`, and in the proofs any number.
- **`MaxInstances`** bounds the clients a process builds: with two, a reset has an old
  and a new one, and `aclose` of one meets the requests of the other.
- **`BaseUrls`**: two platforms, one client with a URL of its own.
- **Transport.** Two events, two overlapping closers, one flusher: enough for an event
  emitted between the snapshots of two closers.
- **Matching.** All lists of two blocks over twelve patterns, and lists of four blocks
  over some of them, for six resources; pairs of elements of which one has any combination
  of namespace, missing or blank attribute and licenses, in both orders. The alphabet is `/`, `a`, `b`, `*`, `$`.

`CHECK_DEADLOCK FALSE` is set where the actors make a bounded number of calls and
then nothing is left to do. The JWKS runs check for deadlock. `SYMMETRY` permutes
tasks of equal standing and only in runs without liveness properties.

### Fairness

- `JwksVerification`: weak fairness of a running task, as the loop runs it to its next
  await. Strong fairness of resuming a task: it is enabled only while the loop is idle, over and over,
  and the loop's ready queue is first in, first out, so nobody is passed over forever. `Resume`
  contains `FetchFail`: httpx has a timeout, so every request ends. No fairness of
  cancellation, rotation, clears, new requests or time.
- `LicenseTokenCache`: weak fairness of the end of a request and of a wake-up; no
  other action can disable either for longer than it takes them to happen.
- `AnalyticsTransport`: weak fairness of task and caller steps, the timeout included. None
  of `EndSend`: the relay may never answer.
- `MerchantClient`, `MerchantSystem` and the matching run have no liveness property: that a call and an
  `aclose` end is shown where they wait, in `JwksVerification` and `AnalyticsTransport`.

## 4. What is proved

`JwksVerificationProofs`, checked by TLAPS, for any number of tasks, base URLs and
keys, any TTL above zero, any cooldown and any set of requests:

| theorem | statement | rests on |
|---|---|---|
| `TypeCorrect` | `Spec => []TypeOK` | `Typing` |
| `SingleFlightHolds` | `Spec => []SingleFlight` | `LockInv` |
| `RefreshSpacingHolds` | `Spec => RefreshSpacing` | `SpacingInv` |
| `RevokedKeyBoundHolds` | `Spec => []RevokedKeyBound` | `AgeInv` |
| `StableKeysHold` | `Spec => []StableKeyNeverRejected` | `StableInv` |
| `RotationRecovery` | `Spec => []OnlyThrottlingRejects` | `RecoveryInv` |

The assumptions are those `JwksVerification` names: `None` is no task and no number,
requests are verifications, stable keys are keys, the times are numbers.

- **`Typing`** adds to `TypeOK` what a position implies: a task that is between
  awaits is the running one, a task with a forced request is in `await_fetch`
  on its first attempt, and so on. None of the others is inductive without it.
- **`LockInv`**: whoever decides on a refresh or has one in flight is the lock's
  holder. A lock has one holder, hence `SingleFlight`.
- **`SpacingInv`**: since the last clear, `_jwks_last_refresh` *is* the start of the
  last forced request, because it is recorded before the request is sent. The check against the
  cooldown is then a check against `forcedAt`.
- **`AgeInv`** follows a key set through all the places it can be: in an answer on its
  way, in the cache, in a lookup, in a result. Wherever it is, each of its keys was
  published at or after the time stamped on it. The stamp is the time of sending, which
  is why a late answer that overwrites a younger one cannot extend a key's life.
- **`StableInv`** and **`RecoveryInv`** follow the same places: every key set contains all stable keys;
  every key set fetched since a verification began contains the key it is about,
  if that key was published all the time. A retry after an unthrottled refresh therefore finds the key,
  even in an entry that another task has written since.

`AnalyticsTransportProofs`, for any sets of events and of tasks that call `flush` or
`aclose`, a task calling one of them (`CallersAssumption`):

| theorem | statement | rests on |
|---|---|---|
| `TypeCorrect` | `Spec => []TypeOK` | `ClientInv`, `CloserInv` |
| `NothingAfterCloseHolds` | `Spec => []NothingAfterClose` | `CloserInv` |
| `NoClientLeakHolds` | `Spec => []NoClientLeak` | `ClientInv` |
| `CancellationNeedsTimeout` | `Spec => []CancelledOnlyAfterTimeout` | `CloserInv` |
| `Implementation` | `Spec => ImplementsFireAndForget` | all of them |

- **`TaskInv`**: a delivery that has not ended is in `_tasks`, and only such a one is being cancelled.
- **`CloserInv`** says what a closer knows at each await: `_closed` is set, so its
  snapshot covers every task there is; and when it comes to the HTTP client, every
  delivery has ended. Without it a task that starts late could re-create the client.
- **`ClientInv`**: one client is open exactly when the transport holds an open one.
- The refinement maps each action to one of `FireAndForget` or to a stutter. It covers safety;
  that calls return (`CallersReturn`) is left to TLC.

`MerchantClientProofs`, for any tasks, configurations, requests, verdicts and number
of clients, as typed by `ConfigsAssumption`, `RequestsAssumption` and
`VerdictsAssumption` (a verdict is one of the code's reasons); `None` is none of the
values beside it (`NoneAssumption`):

| theorem | statement | rests on |
|---|---|---|
| `TypeCorrect` | `Spec => []TypeOK` | `StateInv`, `TaskInv` |
| `OneEventPerDecisionHolds` | `Spec => []OneEventPerDecision` | `TaskInv` |
| `BlockedForAReasonHolds` | `Spec => []BlockedForAReason` | `TaskInv` |
| `SilentUnlessReportingHolds` | `Spec => []SilentUnlessReporting` | `ClientsInv` |
| `EventsExplainDecisionsHolds` | `Spec => []EventsExplainDecisions` | `TaskInv` |

- **`TaskInv`** says for each await of `handle_request` what has happened to its request: a
  task in verification has a token and a client that validates, and nothing
  is recorded or emitted; one that records has its verdict, and still nothing is emitted; one that has
  returned satisfies the property. The configuration of a client never changes
  (`Frame`), so a reset in the middle of a request cannot disturb it.
- **`ClientsInv`**: a transport that takes events belongs to a client that says it reports.

`MerchantPolicyProofs`, under the same assumptions and `QuestionAssumption` (`None` is no question):
`PolicyImplemented`, that is `Spec => ImplementsAccessPolicy`. An action that brings a request in is an `Ask`
(with the answer, when the code has no await before it), `VerificationReturns` a `Rule`, `Decide` a `Conclude`, an
exception or a cancellation an `Unwind`; all others stutter (`AwaitRefines`). It needs `TaskInv`, for the verdict a
task in `record` holds, and that a client's configuration
never changes (`QuestionKept`), or a reset would change a question after it was asked.

`MerchantSystemProofs`, under the assumptions of the client and `BaseUrlsAssumption`:

| theorem | statement | rests on |
|---|---|---|
| `SystemImplementsClient` | `SystemSpec => Spec` | — |
| `OnePlatformPerCallHolds` | `SystemSpec => []OnePlatformPerCall` | `PlatformInv` |
| `ClosingLosesNoEventHolds` | `SystemSpec => []ClosingLosesNoEvent` | `FateInv`, `TransportInv` |
| `TransportsKeepContractHolds` | `SystemSpec => TransportsKeepContract` | all of them |

Every step of the system is a step of the clients or leaves them alone (`StepOfClients`), so their invariant
holds here too, and with it every theorem about `MerchantClient`. `SurroundingsInv` is what has to be added:

- **`PlatformInv`**: a call has addressed nobody but its own platform, in every await it has been in. The URL
  is read when the call comes in; `set_base_url` changes what later calls read.
- **`FateInv`**, **`TransportInv`** and **`DrainInv`** tie together the event of a call, the transport of its client and
  the `aclose` calls: an event has a fate exactly when it was emitted; only a closed background transport skips one; closed
  it is only by an `aclose` of its own client that has come to its last await; drained only after it was closed.
  The contract follows step by step, since a closed transport takes nothing and `EndDrain` waits for what it took.

`BestMatchScanProofs`, for documents, lists, patterns and paths of any size:

| theorem | statement | rests on |
|---|---|---|
| `ScanTypeCorrect` | `Spec => []TypeOK` | `ScanInv` |
| `ScanFindsBestMatchHolds` | `Spec => []ScanFindsBestMatch` | `ScanInv` |
| `CredentialsStayHomeHolds` | `Spec => []CredentialsStayHome` | `BestAmongFound`, `BestAmongFit`, `EndpointChoice` |
| `PatternLanguageHolds` | `Spec => []PatternLanguage` | `GlobAligned`, `AppendedSlash` |
| `GrantedUsageIsFreeHolds` | `Spec => []GrantedUsageIsFree` | `BlocksOfElements`, `FirstLicense`, `FreeBlockFound` |
| `NamespaceNeutralHolds` | `Spec => []NamespaceNeutral` | `NamespacedBlocks` |

Documents are trees of finite lists (`DocumentsAssumption`, `IsDocument`: also that no `server` attribute is
the marker the model uses for a missing one), and so are the paths of resources (`ResourcesAssumption`).

- **`ScanInv`** is the loop's invariant (`BestSoFar`): no block so far is exact, none scores more than the best,
  none before the best as much. It says of the blocks seen what `BestMatches` says of all; the end of the loop, or the
  first exact block, closes the gap.
- The theorems about documents and endpoints do not depend on the loop. They rest on lemmas in
  `ContentMatchingProofs`: `At` returns the elements at some positions, in order and nothing else (`AtElements`, `AtFirst`);
  among finitely many scores there is a greatest (`GreatestExists`), so one block that fits is enough for a best match
  (`BestAmongFound`), and the best match fits (`BestAmongFit`).
- **`GlobAligned`**: `Glob` is true exactly when the text can be cut into one piece per character of the
  pattern. `Glob` is a recursive function on pairs of positions; that it exists is `TableExists`, that it
  agrees with the cuts goes by the length of what is left of pattern and text.
  Induction here is over a *set* of numbers (`SetInduction`, from the least element of a set of naturals), which needs no
  theorem with an operator as a parameter.

`LicenseTokenCacheProofs`, for any tasks, loops, calls, origins and documents and any TTL, margin, lifetimes and
flight, as typed by `TimesAssumption`, `DocumentsAssumption` and `NoneAssumption` (`None` is no result):

| theorem | statement | rests on |
|---|---|---|
| `TokenCacheTypeCorrect` | `Spec => []TypeOK` | `TaskInv`, `LockInv` |
| `OneMintPerLoopHolds` | `Spec => []OneMintPerLoop` | `LockInv` |
| `TokenFitsCallHolds` | `Spec => []TokenFitsCall` | `TaskInv` |
| `NoRedundantMintHolds` | `Spec => NoRedundantMint` | `IssuedInv` |
| `ReplacedLicenseBoundHolds` | `Spec => ReplacedLicenseBound` | `AgeInv` |
| `OnlyPatternsShareHolds` | `Spec => []OnlyPatternsShare` | `TaskInv` |

- **`TaskInv`**: where a task may be, and that whatever it chose, holds or was given fits: its endpoint is
  the one of some document for its call, and every token, in the cache, in an answer or in a result, is
  good for the key it is stored under.
- **`LockInv`**: a task is in the queue of one lock, that of its loop and key, exactly while it waits or mints; who mints is first.
- **`IssuedInv`**: the `exp` last cached for a key is that of its entry, unless it is within the margin.
  Only an expired entry is dropped, so a lookup that finds nothing proves that nothing of use was issued.
- **`AgeInv`**: a document in flight was live when the request was sent or later, one in the cache at most
  `Flight` before its stamp.
- `OnlyPatternsShare` is the part of the comment at `customer/token.py:448` that is true; the run
  `token_collision` shows the rest is not. A token crosses origins, that is schemes or hosts, only under a pattern a
  document publishes; one of the Agreement lane, whose scope no document publishes, stays with its origin.
  It crosses hosts only under a pattern that names none.

Every safety invariant, action property and refinement the passing runs check is proved. Only model-checked are the
liveness properties `EveryVerificationEnds`, `CallersReturn` and `EveryCallEnds`: liveness
under fairness needs `ENABLED`, which is outside the prover's reach. The violated properties need no proof: a
counterexample settles them.

## 5. What is not modelled

- Of the analytics event: client IP normalisation, the query heuristics, CDN signals and
  truncation; and the properties of recorded events (`merchant/headers.py`). They are functions of text that no
  state, decision or other field depends on.
- Of the copied headers, those with an empty value (`has_cookies` is true for an empty `cookie` header,
  `analytics/build_analytics_event.py:169`), and requests whose URL has no host.
- XML and URL syntax: documents are element trees, URLs a scheme, a host and a path.
- The `return None` for a resource that is no absolute URL (`customer/content_matcher.py:18-20`): the
  call has raised at `_build_origin` before it comes there.
- The default `supertab_base_url` is read after `license.xml` has come (`customer/token.py:445`); in the model it is
  fixed with the call.
- `types.py`, `common.py`, `exceptions.py`: enumerations, records and logging. The modes, reasons and outcomes
  appear as strings.
- The deprecated `_generate_license_token` (nothing calls it), `set_analytics_base_url` (only
  later constructions read it), and the HTTP client each customer call makes for itself.
  `set_base_url` is in `MerchantSystem`; customers' calls take their API host as an argument.
- Malformed key sets: a JSON body without `keys` is cached like any other. The platform
  of the model always serves a set of keys.
- Several event loops sharing the JWKS module's locks; threads that switch inside a step.
  Event loops interleave at awaits in `LicenseTokenCache`.
- A wall clock that is set back (the customer caches use `time.time`).
- The query and fragment of URLs: they take no part in matching. (A path-only pattern
  is not parsed and keeps its query as characters of the path; so would the model's.)

## 6. Plan

Done, in this order: the JWKS cache and verification with its proofs (the core: all
trust decisions go through it), the transport with its abstraction and the proof that it
implements it, matching, the token cache, the merchant client with its proofs; then
parsing, request signals, the abstract `AccessPolicy` and the proof that the client
implements it, and the composition `MerchantSystem`; then the proofs about the composition,
matching, parsing and the token cache.

Next:

1. The positive part of the other violated runs as theorems: after a clear, which fetches can store an
   old answer (`jwks_clear`); when a client is dropped open (`merchant_client_slot`).
2. The hazards of `PROJECT.json` that have no property yet, where a model can tell them apart:
   what an `aclose` of one client does to the requests of another, two caches that share a wall clock set back.
