--------------------------- MODULE JwksVerification ---------------------------
(***************************************************************************)
(* Verification of signed tokens against the platform key set (JWKS):      *)
(* merchant/jwks.py with its two callers, verify_license_token             *)
(* (merchant/license.py) and verify_status_challenge (merchant/status.py). *)
(*                                                                         *)
(* Many verifications run as asyncio tasks of one event loop and share the *)
(* module globals of jwks.py.  A task runs without interruption from one   *)
(* await that really suspends it to the next; running names the task that  *)
(* is between two such awaits, and every other task waits for it.          *)
(* Synchronous code takes no model time, so Tick needs an idle loop.       *)
(***************************************************************************)
EXTENDS Integers, Sequences

CONSTANTS
    Tasks,      \* the coroutines that verify a token, one verification at a time
    Urls,       \* normalised base URLs, the keys of the module's dictionaries
    Kids,       \* key identifiers
    Stable,     \* keys the platform never withdraws
    Requests,   \* the verifications callers may ask for
    TTL,        \* JWKS_CACHE_TTL_SECONDS
    Cooldown,   \* _JWKS_MIN_REFRESH_INTERVAL_SECONDS
    MaxTime,    \* bound on the clock, for TLC
    None        \* absence of a value, Python's None

-----------------------------------------------------------------------------
(* A presented token has at most one defect.  The checks of                *)
(* verify_license_token before the key set is needed answer with the reason*)
(* listed here; the last two are the payloads its except clauses do not    *)
(* cover, so the exception reaches the caller.                             *)

PreFetchReason == [
    empty    |-> "missing_license_token",
    header   |-> "invalid_license_header",
    alg      |-> "invalid_license_algorithm",
    payload  |-> "invalid_license_payload",
    issuer   |-> "invalid_license_issuer",
    audience |-> "invalid_license_audience",
    kid_type |-> "raised",
    iss_type |-> "raised"]

SignatureFailed == "license_signature_verification_failed"

(* What the decode with the key answers.  A defect that is not listed here *)
(* is met only by a status challenge, whose decode rejects it.             *)
DecodeReason(defect) ==
    CASE defect = "none"    -> "valid"
      [] defect = "expired" -> "license_token_expired"
      [] OTHER              -> SignatureFailed

Defects == DOMAIN PreFetchReason \cup {"none", "expired", "signature"}

(* A challenge carries no issuer that verify_status_challenge looks at.    *)
Verification ==
    [kind: {"license"}, url: Urls, kid: Kids, defect: Defects] \cup
    [kind: {"status"}, url: Urls, kid: Kids, defect: Defects \ {"issuer", "iss_type"}]

Reasons == {PreFetchReason[d] : d \in DOMAIN PreFetchReason}
           \cup {DecodeReason(d) : d \in Defects}
           \cup {"server_error", "cancelled"}

ASSUME NoneAssumption == None \notin Tasks /\ None \notin Nat
ASSUME RequestsAssumption == Requests \subseteq Verification
ASSUME StableAssumption == Stable \subseteq Kids
ASSUME TimesAssumption == TTL \in Nat \ {0} /\ Cooldown \in Nat /\ MaxTime \in Nat

-----------------------------------------------------------------------------
VARIABLES
    now,          \* time.monotonic()
    published,    \* published[u]: the kids the platform's endpoint serves
    withdrawn,    \* history: withdrawn[u][k], when k stopped being published
    jwksCache,    \* _jwks_cache
    lastRefresh,  \* _jwks_last_refresh
    holder,       \* _jwks_refresh_locks[u]: the task inside "async with lock"
    waiters,      \* _jwks_refresh_locks[u]: its queue of waiting tasks
    running,      \* the task that runs now, None when the loop is idle
    pc, call,     \* per task: where it is, and the verification it performs
    attempt,      \* per task: the loop variable of verify_license_token
    force,        \* per task: its fetch is the forced one of a refresh
    fetchNow,     \* per task: now, as fetch_platform_jwks read it
    keySet,       \* per task: the key set it received or looked up
    result,       \* per task: the reason of its last result
    throttled,    \* history, per task: its refresh was throttled
    offered,      \* history, per task: its kid was published all the time
    forcedAt      \* history: forcedAt[u], start of the last forced fetch

backend == <<published, withdrawn>>
locks   == <<holder, waiters>>
history == <<throttled, offered, forcedAt>>
vars == <<now, backend, jwksCache, lastRefresh, locks, running, pc, call,
          attempt, force, fetchNow, keySet, result, history>>

CacheEntry == [jwks: SUBSET Kids, cached_at: Nat]
Positions == {"idle", "fetch", "await_fetch", "find", "refresh", "wait_lock",
              "locked", "done"}

TypeOK ==
    /\ now \in Nat
    /\ published \in [Urls -> SUBSET Kids]
    /\ withdrawn \in [Urls -> [Kids -> Nat \cup {None}]]
    /\ jwksCache \in [Urls -> CacheEntry \cup {None}]
    /\ lastRefresh \in [Urls -> Nat \cup {None}]
    /\ holder \in [Urls -> Tasks \cup {None}]
    /\ waiters \in [Urls -> Seq(Tasks)]
    /\ running \in Tasks \cup {None}
    /\ pc \in [Tasks -> Positions]
    /\ call \in [Tasks -> Verification \cup {None}]
    /\ attempt \in [Tasks -> {0, 1}]
    /\ force \in [Tasks -> BOOLEAN]
    /\ fetchNow \in [Tasks -> Nat]
    /\ keySet \in [Tasks -> (SUBSET Kids) \cup {None}]
    /\ result \in [Tasks -> Reasons \cup {None}]
    /\ throttled \in [Tasks -> BOOLEAN]
    /\ offered \in [Tasks -> BOOLEAN]
    /\ forcedAt \in [Urls -> Nat \cup {None}]

Init ==
    /\ now = 0
    /\ published \in [Urls -> {S \in SUBSET Kids : Stable \subseteq S}]
    /\ withdrawn = [u \in Urls |-> [k \in Kids |-> None]]
    /\ jwksCache = [u \in Urls |-> None]
    /\ lastRefresh = [u \in Urls |-> None]
    /\ holder = [u \in Urls |-> None]
    /\ waiters = [u \in Urls |-> <<>>]
    /\ running = None
    /\ pc = [t \in Tasks |-> "idle"]
    /\ call = [t \in Tasks |-> None]
    /\ attempt = [t \in Tasks |-> 0]
    /\ force = [t \in Tasks |-> FALSE]
    /\ fetchNow = [t \in Tasks |-> 0]
    /\ keySet = [t \in Tasks |-> None]
    /\ result = [t \in Tasks |-> None]
    /\ throttled = [t \in Tasks |-> FALSE]
    /\ offered = [t \in Tasks |-> FALSE]
    /\ forcedAt = [u \in Urls |-> None]

-----------------------------------------------------------------------------
(* The verification returns (or, for "raised" and "cancelled", unwinds).   *)
Finish(t, reason) ==
    /\ pc' = [pc EXCEPT ![t] = "done"]
    /\ result' = [result EXCEPT ![t] = reason]
    /\ running' = t

(* The caller has the result; the task may present another token.          *)
Return(t) ==
    /\ running = t /\ pc[t] = "done"
    /\ pc' = [pc EXCEPT ![t] = "idle"]
    /\ call' = [call EXCEPT ![t] = None]
    /\ fetchNow' = [fetchNow EXCEPT ![t] = 0]
    /\ keySet' = [keySet EXCEPT ![t] = None]
    /\ result' = [result EXCEPT ![t] = None]
    /\ attempt' = [attempt EXCEPT ![t] = 0]
    /\ throttled' = [throttled EXCEPT ![t] = FALSE]
    /\ offered' = [offered EXCEPT ![t] = FALSE]
    /\ running' = None
    /\ UNCHANGED <<now, backend, jwksCache, lastRefresh, locks, force, forcedAt>>

(* The task goes on with the second round of the loop.                     *)
RetryFind(t) ==
    /\ pc' = [pc EXCEPT ![t] = "fetch"]
    /\ attempt' = [attempt EXCEPT ![t] = @ + 1]
    /\ running' = t

(* Leaving "async with lock"; the first waiter runs when the loop is idle. *)
Release(u) == holder' = [holder EXCEPT ![u] = None] /\ UNCHANGED waiters

(* A caller presents a token.  verify_license_token rejects what it can    *)
(* without the key set; verify_status_challenge fetches the key set first. *)
Present(t, c) ==
    /\ running = None
    /\ pc[t] = "idle"
    /\ call' = [call EXCEPT ![t] = c]
    /\ offered' = [offered EXCEPT ![t] = c.kid \in published[c.url]]
    /\ UNCHANGED <<now, backend, jwksCache, lastRefresh, locks, attempt, force,
                   fetchNow, keySet, throttled, forcedAt>>

RejectUnfetched(t) ==
    \E c \in Requests :
        /\ c.kind = "license"
        /\ c.defect \in DOMAIN PreFetchReason
        /\ Present(t, c)
        /\ Finish(t, PreFetchReason[c.defect])

BeginVerification(t) ==
    \E c \in Requests :
        /\ c.kind = "license" => c.defect \notin DOMAIN PreFetchReason
        /\ Present(t, c)
        /\ pc' = [pc EXCEPT ![t] = "fetch"]
        /\ running' = t
        /\ UNCHANGED result

Fresh(u) == jwksCache[u] # None /\ now - jwksCache[u].cached_at < TTL

(* fetch_platform_jwks without force: the cached key set while it is fresh,*)
(* otherwise a request.  No lock is taken: several may be in flight.       *)
FetchCached(t) ==
    LET u == call[t].url IN
    /\ running = t /\ pc[t] = "fetch"
    /\ Fresh(u)
    /\ pc' = [pc EXCEPT ![t] = "find"]
    /\ fetchNow' = [fetchNow EXCEPT ![t] = now]
    /\ keySet' = [keySet EXCEPT ![t] = jwksCache[u].jwks]
    /\ UNCHANGED <<now, backend, jwksCache, lastRefresh, locks, running, call,
                   attempt, force, result, history>>

StartRequest(t) ==
    /\ pc' = [pc EXCEPT ![t] = "await_fetch"]
    /\ fetchNow' = [fetchNow EXCEPT ![t] = now]
    /\ keySet' = [keySet EXCEPT ![t] = None]
    /\ running' = None

FetchMiss(t) ==
    /\ running = t /\ pc[t] = "fetch"
    /\ ~Fresh(call[t].url)
    /\ StartRequest(t)
    /\ UNCHANGED <<now, backend, jwksCache, lastRefresh, locks, call, attempt,
                   force, result, history>>

(* _find_key_by_kid and the decode with the key it finds.  A key set       *)
(* without the kid leads to one refresh, then to a rejection.  A challenge *)
(* whose header cannot be read fails before the kid is looked up.          *)
(* RefreshOncePerRetry and RefreshWhenStale, like NobodyWaits, SpendNothing*)
(* EntryStampedOnArrival, KeepLock and FetchFailCachingNoKeys below, are   *)
(* faulty variants of the definition that follows, for mutation runs.      *)
RefreshOncePerRetry(t) == attempt[t] <= 1
RefreshWhenStale(t) == attempt[t] = 0 /\ ~Fresh(call[t].url)
MayRefresh(t) == attempt[t] = 0

NoUsableHeader(t) == call[t].kind = "status" /\ call[t].defect \in {"empty", "header", "kid_type"}

FindKey(t) ==
    /\ running = t /\ pc[t] = "find"
    /\ \/ /\ call[t].kid \in keySet[t] \/ NoUsableHeader(t)
          /\ Finish(t, DecodeReason(call[t].defect))
       \/ /\ call[t].kid \notin keySet[t] /\ ~NoUsableHeader(t)
          /\ ~MayRefresh(t)
          /\ Finish(t, SignatureFailed)
       \/ /\ call[t].kid \notin keySet[t] /\ ~NoUsableHeader(t)
          /\ MayRefresh(t)
          /\ pc' = [pc EXCEPT ![t] = "refresh"]
          /\ UNCHANGED <<result, running>>
    /\ UNCHANGED <<now, backend, jwksCache, lastRefresh, locks, call, attempt,
                   force, fetchNow, keySet, history>>

-----------------------------------------------------------------------------
(* refresh_platform_jwks_on_miss.  asyncio.Lock is fair: a task takes it   *)
(* at once only when it is free and nobody waits.                          *)
NobodyWaits(u) == waiters[u] = <<>>
LockFree(u) == holder[u] = None /\ waiters[u] = <<>>

AcquireLock(t) ==
    LET u == call[t].url IN
    /\ running = t /\ pc[t] = "refresh"
    /\ \/ /\ LockFree(u)
          /\ holder' = [holder EXCEPT ![u] = t]
          /\ pc' = [pc EXCEPT ![t] = "locked"]
          /\ UNCHANGED <<waiters, running>>
       \/ /\ ~LockFree(u)
          /\ waiters' = [waiters EXCEPT ![u] = Append(@, t)]
          /\ pc' = [pc EXCEPT ![t] = "wait_lock"]
          /\ running' = None
          /\ UNCHANGED holder
    /\ UNCHANGED <<now, backend, jwksCache, lastRefresh, call, attempt, force,
                   fetchNow, keySet, result, history>>

LockWake(t) ==
    LET u == call[t].url IN
    /\ running = None /\ pc[t] = "wait_lock"
    /\ holder[u] = None /\ waiters[u] # <<>> /\ Head(waiters[u]) = t
    /\ holder' = [holder EXCEPT ![u] = t]
    /\ waiters' = [waiters EXCEPT ![u] = Tail(@)]
    /\ pc' = [pc EXCEPT ![t] = "locked"]
    /\ running' = t
    /\ UNCHANGED <<now, backend, jwksCache, lastRefresh, call, attempt, force,
                   fetchNow, keySet, result, history>>

InCooldown(u) == lastRefresh[u] # None /\ now - lastRefresh[u] < Cooldown

(* The key set returned when throttled is ignored by both callers.         *)
RefreshThrottled(t) ==
    LET u == call[t].url IN
    /\ running = t /\ pc[t] = "locked"
    /\ InCooldown(u)
    /\ Release(u)
    /\ RetryFind(t)
    /\ throttled' = [throttled EXCEPT ![t] = TRUE]
    /\ UNCHANGED <<now, backend, jwksCache, lastRefresh, call, force, fetchNow,
                   keySet, result, offered, forcedAt>>

(* The attempt is recorded before the request is sent, and the lock is     *)
(* kept while the request is in flight.                                    *)
SpendNothing(u) == UNCHANGED lastRefresh
SpendCooldown(u) == lastRefresh' = [lastRefresh EXCEPT ![u] = now]

RefreshFetch(t) ==
    LET u == call[t].url IN
    /\ running = t /\ pc[t] = "locked"
    /\ ~InCooldown(u)
    /\ SpendCooldown(u)
    /\ force' = [force EXCEPT ![t] = TRUE]
    /\ forcedAt' = [forcedAt EXCEPT ![u] = now]
    /\ StartRequest(t)
    /\ UNCHANGED <<now, backend, jwksCache, locks, call, attempt, result,
                   throttled, offered>>

-----------------------------------------------------------------------------
(* The platform produces its answer some time before the task sees it.     *)
ServeResponse(t) ==
    /\ pc[t] = "await_fetch" /\ keySet[t] = None
    /\ keySet' = [keySet EXCEPT ![t] = published[call[t].url]]
    /\ UNCHANGED <<now, backend, jwksCache, lastRefresh, locks, running, pc, call,
                   attempt, force, fetchNow, result, history>>

(* A good answer is stored whatever has happened to the cache meanwhile;   *)
(* its age counts from before the request.                                 *)
EntryStampedOnArrival(t) == [jwks |-> keySet[t], cached_at |-> now]
EntryOf(t) == [jwks |-> keySet[t], cached_at |-> fetchNow[t]]

FetchDone(t) ==
    LET u == call[t].url IN
    /\ running = None /\ pc[t] = "await_fetch" /\ keySet[t] # None
    /\ jwksCache' = [jwksCache EXCEPT ![u] = EntryOf(t)]
    /\ \/ /\ force[t]
          /\ Release(u)
          /\ force' = [force EXCEPT ![t] = FALSE]
          /\ RetryFind(t)
          /\ keySet' = [keySet EXCEPT ![t] = None]
       \/ /\ ~force[t]
          /\ pc' = [pc EXCEPT ![t] = "find"]
          /\ running' = t
          /\ UNCHANGED <<locks, force, attempt, keySet>>
    /\ UNCHANGED <<now, backend, lastRefresh, call, fetchNow, result, history>>

(* The task is unwound out of its request: the cache is left as it was, the*)
(* lock of a forced one is released, the cooldown stays spent.             *)
KeepLock(t) == UNCHANGED locks
LeaveLock(t) == IF force[t] THEN Release(call[t].url) ELSE UNCHANGED locks

Abandon(t, reason) ==
    /\ LeaveLock(t)
    /\ force' = [force EXCEPT ![t] = FALSE]
    /\ Finish(t, reason)
    /\ UNCHANGED <<now, backend, jwksCache, lastRefresh, call, attempt, fetchNow,
                   keySet, history>>

(* Transport error, timeout, bad status or a body that is no JSON.         *)
FetchFailCachingNoKeys(t) ==
    /\ running = None /\ pc[t] = "await_fetch"
    /\ LeaveLock(t)
    /\ force' = [force EXCEPT ![t] = FALSE]
    /\ jwksCache' = [jwksCache EXCEPT ![call[t].url] = [jwks |-> {}, cached_at |-> fetchNow[t]]]
    /\ Finish(t, "server_error")
    /\ UNCHANGED <<now, backend, lastRefresh, call, attempt, fetchNow, keySet, history>>

FetchFail(t) ==
    /\ running = None /\ pc[t] = "await_fetch"
    /\ Abandon(t, "server_error")

(* The task is cancelled while suspended, by a client that disconnects.    *)
CancelFetch(t) ==
    /\ running = None /\ pc[t] = "await_fetch"
    /\ Abandon(t, "cancelled")

CancelWait(t) ==
    LET u == call[t].url IN
    /\ running = None /\ pc[t] = "wait_lock"
    /\ \E i \in 1..Len(waiters[u]) :
          /\ waiters[u][i] = t
          /\ waiters' = [waiters EXCEPT ![u] =
                             SubSeq(@, 1, i - 1) \o SubSeq(@, i + 1, Len(@))]
    /\ Finish(t, "cancelled")
    /\ UNCHANGED <<now, backend, jwksCache, lastRefresh, holder, call, attempt,
                   force, fetchNow, keySet, history>>

(* Both dictionaries are emptied; the locks and the requests in flight are *)
(* left alone.                                                             *)
ClearCache ==
    /\ running = None
    /\ jwksCache' = [u \in Urls |-> None]
    /\ lastRefresh' = [u \in Urls |-> None]
    /\ forcedAt' = [u \in Urls |-> None]
    /\ UNCHANGED <<now, backend, locks, running, pc, call, attempt, force,
                   fetchNow, keySet, result, throttled, offered>>

-----------------------------------------------------------------------------
(* The environment: the platform rotates its keys, the clock advances.     *)
Rotate(u) ==
    \E S \in SUBSET Kids :
        /\ Stable \subseteq S /\ S # published[u]
        /\ published' = [published EXCEPT ![u] = S]
        /\ withdrawn' = [withdrawn EXCEPT ![u] =
               [k \in Kids |-> IF k \in S THEN None
                               ELSE IF k \in published[u] THEN now ELSE @[k]]]
        /\ offered' = [t \in Tasks |->
               offered[t] /\ (call[t].url = u => call[t].kid \in S)]
        /\ UNCHANGED <<now, jwksCache, lastRefresh, locks, running, pc, call,
                       attempt, force, fetchNow, keySet, result, throttled,
                       forcedAt>>

Tick ==
    /\ running = None /\ now < MaxTime
    /\ now' = now + 1
    /\ UNCHANGED <<backend, jwksCache, lastRefresh, locks, running, pc, call,
                   attempt, force, fetchNow, keySet, result, history>>

(* The steps of a task between two awaits.                                 *)
Run(t) ==
    \/ FetchCached(t) \/ FetchMiss(t) \/ FindKey(t) \/ AcquireLock(t)
    \/ RefreshThrottled(t) \/ RefreshFetch(t) \/ Return(t)

(* The loop resumes a suspended task.                                      *)
Resume(t) == LockWake(t) \/ FetchDone(t) \/ FetchFail(t)

(* Everything that happens to a verification once it has begun.            *)
Proceed(t) ==
    \/ Run(t) \/ ServeResponse(t) \/ Resume(t)
    \/ CancelFetch(t) \/ CancelWait(t)

Next ==
    \/ \E t \in Tasks : RejectUnfetched(t) \/ BeginVerification(t) \/ Proceed(t)
    \/ \E u \in Urls : Rotate(u)
    \/ ClearCache
    \/ Tick

Spec == Init /\ [][Next]_vars

(* A task that runs reaches its next await; the loop's ready queue is first*)
(* in first out, so a task that can be resumed again and again is resumed; *)
(* httpx ends every request, with an answer or with its timeout.           *)
Fairness == \A t \in Tasks : WF_vars(Run(t)) /\ SF_vars(Resume(t))

FairSpec == Spec /\ Fairness

-----------------------------------------------------------------------------
(* Properties.                                                             *)

InCritical(t, u) == (pc[t] = "locked" \/ force[t]) /\ call[t].url = u

(* Single flight: at most one task at a time decides on a refresh of a base*)
(* URL or has its forced request in flight, through answers, failures,     *)
(* cancellations and cache clears (jwks.py:24, the per-URL lock).          *)
SingleFlight ==
    \A t1, t2 \in Tasks : \A u \in Urls :
        InCritical(t1, u) /\ InCritical(t2, u) => t1 = t2

(* Two forced requests to one base URL start at least Cooldown apart, also *)
(* when the first one failed or is still in flight, unless the cache was   *)
(* cleared in between (jwks.py:94, a failed refetch spends the cooldown).  *)
RefreshSpacing ==
    [][\A u \in Urls :
          forcedAt[u] # None /\ forcedAt'[u] # None /\ forcedAt'[u] # forcedAt[u]
          => forcedAt'[u] - forcedAt[u] >= Cooldown]_vars

(* A token counts as valid only by a key that the platform still published *)
(* less than TTL before the key set was looked up, however late an answer  *)
(* was installed and whatever answer it replaced (jwks.py:53 and 67: the   *)
(* age of an entry counts from before its request).                        *)
RevokedKeyBound ==
    \A t \in Tasks :
        pc[t] = "done" /\ result[t] = "valid"
        => LET u == call[t].url
               k == call[t].kid
           IN  \/ k \in published[u]
               \/ withdrawn[u][k] # None /\ fetchNow[t] < withdrawn[u][k] + TTL

(* A sound token signed by a key that is never withdrawn is not rejected   *)
(* for its signature: no failure, throttling, rotation, clear or late      *)
(* answer leaves the module with a key set that lacks the key.             *)
StableKeyNeverRejected ==
    \A t \in Tasks :
        pc[t] = "done" /\ call[t].defect = "none" /\ call[t].kid \in Stable
        => result[t] # SignatureFailed

(* A sound token whose key was published from before its verification to   *)
(* its end is rejected for its signature only when its refresh was         *)
(* throttled: a refresh that goes through recovers from every rotation.    *)
OnlyThrottlingRejects ==
    \A t \in Tasks :
        pc[t] = "done" /\ call[t].defect = "none" /\ offered[t]
        /\ result[t] = SignatureFailed => throttled[t]

(* Every verification that starts ends: no waiter of the refresh lock is   *)
(* left behind by a failed, cancelled or throttled holder.                 *)
EveryVerificationEnds ==
    \A t \in Tasks : (pc[t] # "idle") ~> (pc[t] = "idle")

(* The comment at jwks.py:17-18 and the changelog: genuine rotations still *)
(* recover on the first miss.                                              *)
RotationRecoversOnFirstMiss ==
    \A t \in Tasks :
        pc[t] = "done" /\ call[t].defect = "none" /\ offered[t]
        => result[t] # SignatureFailed

=============================================================================
