------------------------ MODULE JwksVerificationProofs ------------------------
(***************************************************************************)
(* Proofs about JwksVerification, for any number of tasks, base URLs and   *)
(* keys and any TTL and cooldown.                                          *)
(*                                                                         *)
(* One inductive invariant is built up in layers, each proved on top of the*)
(* ones before it: Typing (types and where a task may be), LockInv (who is *)
(* inside the refresh lock), SpacingInv, AgeInv, StableInv and OfferedInv  *)
(* (what every key set in the cache, in flight or looked up contains).     *)
(***************************************************************************)
EXTENDS JwksVerification, SequenceTheorems, TLAPS

(* The answers of the checks and of the decode.                            *)
LEMMA ReasonFacts ==
    /\ {"server_error", "cancelled", SignatureFailed} \subseteq Reasons
    /\ \A d \in DOMAIN PreFetchReason :
          /\ PreFetchReason[d] \in Reasons
          /\ PreFetchReason[d] \notin {"valid", SignatureFailed}
          /\ d # "none"
    /\ \A d \in Defects :
          /\ DecodeReason(d) \in Reasons
          /\ DecodeReason(d) = "valid" <=> d = "none"
<1>1. {"server_error", "cancelled"} \subseteq Reasons
  BY DEF Reasons
<1>2. SignatureFailed \in Reasons
  <2>1. "signature" \in Defects /\ DecodeReason("signature") = SignatureFailed
    BY DEF Defects, DecodeReason
  <2>2. QED BY <2>1 DEF Reasons
<1>3. ASSUME NEW d \in DOMAIN PreFetchReason
      PROVE  /\ PreFetchReason[d] \in Reasons
             /\ PreFetchReason[d] \notin {"valid", SignatureFailed}
             /\ d # "none"
  <2>1. PreFetchReason[d] \in Reasons
    BY DEF Reasons
  <2>2. QED BY <2>1 DEF PreFetchReason, SignatureFailed
<1>4. ASSUME NEW d \in Defects
      PROVE  DecodeReason(d) \in Reasons /\ (DecodeReason(d) = "valid" <=> d = "none")
  <2>1. DecodeReason(d) \in Reasons
    BY DEF Reasons
  <2>2. DecodeReason(d) = "valid" <=> d = "none"
    BY DEF DecodeReason, SignatureFailed
  <2>3. QED BY <2>1, <2>2
<1>5. QED BY <1>1, <1>2, <1>3, <1>4

(* Taking one element out of the middle of the lock's queue.               *)
LEMMA QueueWithout ==
    ASSUME NEW S, NEW q \in Seq(S), NEW i \in 1..Len(q)
    PROVE  SubSeq(q, 1, i - 1) \o SubSeq(q, i + 1, Len(q)) \in Seq(S)
<1>1. Len(q) \in Nat /\ \A j \in 1..Len(q) : q[j] \in S
  BY ElementOfSeq, LenProperties
<1>2. SubSeq(q, 1, i - 1) \in Seq(S)
  BY <1>1, SubSeqProperties
<1>3. SubSeq(q, i + 1, Len(q)) \in Seq(S)
  BY <1>1, SubSeqProperties
<1>4. QED BY <1>2, <1>3, ConcatProperties

-----------------------------------------------------------------------------
(* Typing: the type invariant, with what the control flow guarantees.      *)

ControlInv ==
    \A t \in Tasks :
        /\ pc[t] # "idle" => call[t] \in Verification
        /\ pc[t] = "idle" => attempt[t] = 0
        /\ pc[t] \in {"fetch", "find", "refresh", "locked", "done"} => running = t
        /\ pc[t] \in {"refresh", "wait_lock", "locked"} => attempt[t] = 0
        /\ force[t] => pc[t] = "await_fetch" /\ attempt[t] = 0
        /\ pc[t] = "find" => keySet[t] \in SUBSET Kids

Typing == TypeOK /\ ControlInv

LEMMA TypingInit == Init => Typing
BY EmptySeq, StableAssumption DEF Init, Typing, TypeOK, ControlInv, Positions

LEMMA TypingStep ==
    ASSUME Typing, NEW t \in Tasks, Run(t)
    PROVE  Typing'
<1> USE DEF Typing, TypeOK, ControlInv, Positions, backend, locks, history
<1>1. CASE FetchCached(t)
  <2>1. jwksCache[call[t].url] \in CacheEntry
    BY <1>1 DEF FetchCached, Fresh, Verification
  <2>2. QED BY <1>1, <2>1 DEF FetchCached, CacheEntry
<1>2. CASE FetchMiss(t)
  BY <1>2 DEF FetchMiss, StartRequest
<1>3. CASE FindKey(t)
  <2>1. call[t].defect \in Defects
    BY <1>3 DEF FindKey, Verification
  <2>2. result' \in [Tasks -> Reasons \cup {None}]
    <3>1. DecodeReason(call[t].defect) \in Reasons /\ SignatureFailed \in Reasons
      BY <2>1, ReasonFacts
    <3>2. \/ result' = result
          \/ \E r \in Reasons : result' = [result EXCEPT ![t] = r]
      BY <1>3, <3>1 DEF FindKey, Finish
    <3>3. QED BY <3>2
  <2>3. pc' \in [Tasks -> Positions] /\ running' = t
    BY <1>3 DEF FindKey, Finish
  <2>4. QED BY <1>3, <2>2, <2>3 DEF FindKey, Finish, MayRefresh
<1>4. CASE AcquireLock(t)
  <2> DEFINE u == call[t].url
  <2>1. u \in Urls
    BY <1>4 DEF AcquireLock, Verification
  <2>2. Append(waiters[u], t) \in Seq(Tasks)
    BY <2>1, AppendProperties
  <2>3. CASE LockFree(u)
    <3>1. holder' = [holder EXCEPT ![u] = t] /\ waiters' = waiters
      BY <1>4, <2>3 DEF AcquireLock
    <3>2. holder' \in [Urls -> Tasks \cup {None}]
      BY <2>1, <3>1
    <3>3. /\ pc[t] = "refresh" /\ pc' = [pc EXCEPT ![t] = "locked"]
          /\ UNCHANGED <<now, backend, jwksCache, lastRefresh, running, call,
                         attempt, force, fetchNow, keySet, result, history>>
      BY <1>4, <2>3 DEF AcquireLock
    <3>4. TypeOK'
      BY <3>1, <3>2, <3>3
    <3>5. ControlInv'
      BY <1>4, <3>3 DEF AcquireLock
    <3>6. QED BY <3>4, <3>5
  <2>4. CASE ~LockFree(u)
    <3>1. holder' = holder /\ waiters' = [waiters EXCEPT ![u] = Append(@, t)]
      BY <1>4, <2>4 DEF AcquireLock
    <3>2. waiters' \in [Urls -> Seq(Tasks)]
      BY <2>1, <2>2, <3>1
    <3>3. /\ running = t /\ pc[t] = "refresh" /\ running' = None
          /\ pc' = [pc EXCEPT ![t] = "wait_lock"]
          /\ UNCHANGED <<now, backend, jwksCache, lastRefresh, call, attempt,
                         force, fetchNow, keySet, result, history>>
      BY <1>4, <2>4 DEF AcquireLock
    <3>4. TypeOK'
      BY <3>1, <3>2, <3>3
    <3>5. ControlInv'
      BY <3>3
    <3>6. QED BY <3>4, <3>5
  <2>5. QED BY <2>3, <2>4
<1>5. CASE RefreshThrottled(t)
  <2>1. attempt[t] = 0 /\ call[t].url \in Urls
    BY <1>5 DEF RefreshThrottled, Verification
  <2>2. attempt' \in [Tasks -> {0, 1}]
    BY <1>5, <2>1 DEF RefreshThrottled, RetryFind
  <2>3. holder' \in [Urls -> Tasks \cup {None}] /\ waiters' \in [Urls -> Seq(Tasks)]
    BY <1>5, <2>1 DEF RefreshThrottled, Release
  <2>4. QED BY <1>5, <2>2, <2>3 DEF RefreshThrottled, RetryFind
<1>6. CASE RefreshFetch(t)
  BY <1>6 DEF RefreshFetch, StartRequest, SpendCooldown, Verification
<1>7. CASE Return(t)
  BY <1>7 DEF Return
<1>8. QED BY <1>1, <1>2, <1>3, <1>4, <1>5, <1>6, <1>7 DEF Run

LEMMA TypingResume ==
    ASSUME Typing, NEW t \in Tasks, Resume(t) \/ CancelFetch(t) \/ CancelWait(t)
    PROVE  Typing'
<1> USE DEF Typing, TypeOK, ControlInv, Positions, backend, locks, history
<1> DEFINE u == call[t].url
<1>0. u \in Urls
  BY DEF Resume, CancelFetch, CancelWait, LockWake, FetchDone, FetchFail, Verification
<1>1. CASE LockWake(t)
  <2>1. Head(waiters[u]) \in Tasks /\ Tail(waiters[u]) \in Seq(Tasks)
    BY <1>0, <1>1, HeadTailProperties DEF LockWake
  <2>2. waiters' \in [Urls -> Seq(Tasks)] /\ holder' \in [Urls -> Tasks \cup {None}]
    BY <1>0, <1>1, <2>1 DEF LockWake
  <2>3. TypeOK'
    BY <1>1, <2>2 DEF LockWake
  <2>4. ControlInv'
    BY NoneAssumption, <1>1 DEF LockWake
  <2>5. QED BY <2>3, <2>4
<1>2. CASE FetchDone(t)
  <2>1. EntryOf(t) \in CacheEntry
    BY <1>2 DEF FetchDone, EntryOf, CacheEntry
  <2>2. jwksCache' \in [Urls -> CacheEntry \cup {None}]
    BY <1>0, <1>2, <2>1 DEF FetchDone
  <2>3. holder' \in [Urls -> Tasks \cup {None}] /\ waiters' = waiters
    BY <1>0, <1>2 DEF FetchDone, Release
  <2>4. CASE force[t]
    <3>1. attempt[t] = 0 /\ attempt' = [attempt EXCEPT ![t] = @ + 1]
      BY <1>2, <2>4 DEF FetchDone, RetryFind
    <3>2. attempt' \in [Tasks -> {0, 1}]
      BY <3>1
    <3>3. TypeOK'
      BY <1>2, <2>2, <2>3, <2>4, <3>2 DEF FetchDone, RetryFind
    <3>4. ControlInv'
      BY NoneAssumption, <1>2, <2>4 DEF FetchDone, RetryFind
    <3>5. QED BY <3>3, <3>4
  <2>5. CASE ~force[t]
    <3>1. TypeOK'
      BY <1>2, <2>2, <2>3, <2>5 DEF FetchDone
    <3>2. /\ running = None /\ pc[t] = "await_fetch" /\ keySet[t] \in SUBSET Kids
          /\ pc' = [pc EXCEPT ![t] = "find"] /\ running' = t
          /\ UNCHANGED <<call, attempt, force, keySet>>
      BY <1>2, <2>5 DEF FetchDone
    <3>3. ControlInv'
      BY NoneAssumption, <2>5, <3>2
    <3>4. QED BY <3>1, <3>3
  <2>6. QED BY <2>4, <2>5
<1>3. CASE FetchFail(t) \/ CancelFetch(t)
  <2>1. PICK r \in {"server_error", "cancelled"} : pc[t] = "await_fetch" /\ running = None /\ Abandon(t, r)
    BY <1>3 DEF FetchFail, CancelFetch
  <2>2. holder' \in [Urls -> Tasks \cup {None}] /\ waiters' = waiters
    BY <1>0, <2>1 DEF Abandon, LeaveLock, Release
  <2>3. result' \in [Tasks -> Reasons \cup {None}]
    BY <2>1, ReasonFacts DEF Abandon, Finish
  <2>4. TypeOK'
    BY <2>1, <2>2, <2>3 DEF Abandon, Finish
  <2>5. ControlInv'
    BY NoneAssumption, <2>1 DEF Abandon, Finish
  <2>6. QED BY <2>4, <2>5
<1>4. CASE CancelWait(t)
  <2>1. PICK i \in 1..Len(waiters[u]) :
            waiters' = [waiters EXCEPT ![u] = SubSeq(@, 1, i - 1) \o SubSeq(@, i + 1, Len(@))]
    BY <1>4 DEF CancelWait
  <2>2. waiters' \in [Urls -> Seq(Tasks)]
    BY <1>0, <2>1, QueueWithout
  <2>3. result' \in [Tasks -> Reasons \cup {None}]
    BY <1>4, ReasonFacts DEF CancelWait, Finish
  <2>4. TypeOK'
    BY <1>4, <2>2, <2>3 DEF CancelWait, Finish
  <2>5. ControlInv'
    BY NoneAssumption, <1>4 DEF CancelWait, Finish
  <2>6. QED BY <2>4, <2>5
<1>5. QED BY <1>1, <1>2, <1>3, <1>4 DEF Resume

LEMMA TypingNext == Typing /\ [Next]_vars => Typing'
<1> SUFFICES ASSUME Typing, [Next]_vars PROVE Typing'
  OBVIOUS
<1> USE DEF Typing, TypeOK, ControlInv, Positions, backend, locks, history
<1>1. ASSUME NEW t \in Tasks, RejectUnfetched(t) PROVE Typing'
  <2>1. PICK c \in Requests :
            /\ c.defect \in DOMAIN PreFetchReason
            /\ Present(t, c)
            /\ Finish(t, PreFetchReason[c.defect])
    BY <1>1 DEF RejectUnfetched
  <2>2. c \in Verification
    BY RequestsAssumption
  <2>3. result' \in [Tasks -> Reasons \cup {None}]
    BY <2>1, ReasonFacts DEF Finish
  <2>4. offered' \in [Tasks -> BOOLEAN] /\ call' \in [Tasks -> Verification \cup {None}]
    BY <2>1, <2>2 DEF Present
  <2>5. TypeOK'
    BY <2>1, <2>3, <2>4 DEF Present, Finish
  <2>6. ControlInv'
    BY NoneAssumption, <2>1, <2>2 DEF Present, Finish
  <2>7. QED BY <2>5, <2>6
<1>2. ASSUME NEW t \in Tasks, BeginVerification(t) PROVE Typing'
  <2>1. PICK c \in Requests :
            Present(t, c) /\ pc' = [pc EXCEPT ![t] = "fetch"] /\ running' = t /\ result' = result
    BY <1>2 DEF BeginVerification
  <2>2. c \in Verification
    BY RequestsAssumption
  <2>3. offered' \in [Tasks -> BOOLEAN] /\ call' \in [Tasks -> Verification \cup {None}]
    BY <2>1, <2>2 DEF Present
  <2>4. TypeOK'
    BY <2>1, <2>3 DEF Present
  <2>5. ControlInv'
    BY NoneAssumption, <2>1, <2>2 DEF Present
  <2>6. QED BY <2>4, <2>5
<1>3. ASSUME NEW t \in Tasks, Proceed(t) PROVE Typing'
  <2>1. CASE ServeResponse(t)
    <3>1. published[call[t].url] \in SUBSET Kids
      BY <2>1 DEF ServeResponse, Verification
    <3>2. QED BY <2>1, <3>1 DEF ServeResponse
  <2>2. QED BY <1>3, <2>1, TypingStep, TypingResume DEF Proceed
<1>4. ASSUME NEW u \in Urls, Rotate(u) PROVE Typing'
  BY <1>4 DEF Rotate
<1>5. CASE ClearCache
  BY <1>5 DEF ClearCache
<1>6. CASE Tick
  BY <1>6 DEF Tick
<1>7. CASE UNCHANGED vars
  BY <1>7 DEF vars
<1>8. QED BY <1>1, <1>2, <1>3, <1>4, <1>5, <1>6, <1>7 DEF Next

(* Every variable keeps its type; in particular no verification makes a    *)
(* second refresh (range(2) of license.py:182, the one retry of status.py).*)
THEOREM TypeCorrect == Spec => []TypeOK
<1>1. Spec => []Typing
  BY TypingInit, TypingNext, PTL DEF Spec
<1>2. Typing => TypeOK
  BY DEF Typing
<1>3. QED BY <1>1, <1>2, PTL

-----------------------------------------------------------------------------
(* Who is inside the refresh lock is its holder.                           *)

LockInv == \A t \in Tasks : \A u \in Urls : InCritical(t, u) => holder[u] = t

LEMMA LockStep == Typing /\ LockInv /\ [Next]_vars => LockInv'
<1> SUFFICES ASSUME Typing, LockInv, [Next]_vars,
                    NEW s \in Tasks, NEW w \in Urls, InCritical(s, w)'
             PROVE  holder'[w] = s
  BY DEF LockInv
<1> USE NoneAssumption DEF Typing, TypeOK, ControlInv, LockInv, InCritical, Positions,
        backend, locks, history
<1>1. ASSUME NEW t \in Tasks, RejectUnfetched(t) PROVE holder'[w] = s
  <2>1. holder' = holder /\ s # t
    BY <1>1 DEF RejectUnfetched, Present, Finish
  <2>2. InCritical(s, w)
    BY <1>1, <2>1 DEF RejectUnfetched, Present, Finish
  <2>3. QED BY <2>1, <2>2
<1>2. ASSUME NEW t \in Tasks, BeginVerification(t) PROVE holder'[w] = s
  <2>1. holder' = holder /\ s # t
    BY <1>2 DEF BeginVerification, Present
  <2>2. InCritical(s, w)
    BY <1>2, <2>1 DEF BeginVerification, Present
  <2>3. QED BY <2>1, <2>2
<1>3. ASSUME NEW t \in Tasks, Run(t) PROVE holder'[w] = s
  <2>1. CASE FetchCached(t)
    BY <2>1 DEF FetchCached
  <2>2. CASE FetchMiss(t)
    BY <2>2 DEF FetchMiss, StartRequest
  <2>3. CASE FindKey(t)
    BY <2>3 DEF FindKey, Finish
  <2>4. CASE AcquireLock(t)
    <3>1. CASE LockFree(call[t].url)
      <4>1. /\ holder[call[t].url] = None /\ holder' = [holder EXCEPT ![call[t].url] = t]
            /\ call' = call /\ force' = force /\ pc' = [pc EXCEPT ![t] = "locked"]
        BY <2>4, <3>1 DEF AcquireLock, LockFree
      <4>2. CASE s = t
        BY <4>1, <4>2
      <4>3. CASE s # t
        <5>1. InCritical(s, w)
          BY <4>1, <4>3
        <5>2. holder[w] = s
          BY <5>1
        <5>3. QED BY <4>1, <5>2
      <4>4. QED BY <4>2, <4>3
    <3>2. CASE ~LockFree(call[t].url)
      BY <2>4, <3>2 DEF AcquireLock
    <3>3. QED BY <3>1, <3>2
  <2>5. CASE RefreshThrottled(t)
    <3>1. /\ InCritical(t, call[t].url) /\ call[t].url \in Urls
          /\ holder' = [holder EXCEPT ![call[t].url] = None]
          /\ call' = call /\ force' = force /\ pc' = [pc EXCEPT ![t] = "fetch"]
          /\ ~force[t]
      BY <2>5 DEF RefreshThrottled, Release, RetryFind, Verification
    <3>2. s # t /\ InCritical(s, w)
      BY <3>1
    <3>3. holder[call[t].url] = t /\ holder[w] = s
      BY <3>1, <3>2
    <3>4. QED BY <3>1, <3>2, <3>3
  <2>6. CASE RefreshFetch(t)
    BY <2>6 DEF RefreshFetch, StartRequest
  <2>7. CASE Return(t)
    BY <2>7 DEF Return
  <2>8. QED BY <1>3, <2>1, <2>2, <2>3, <2>4, <2>5, <2>6, <2>7 DEF Run
<1>4. ASSUME NEW t \in Tasks, Resume(t) \/ CancelFetch(t) PROVE holder'[w] = s
  <2>1. CASE LockWake(t)
    BY <2>1 DEF LockWake
  <2>2. CASE FetchDone(t)
    <3>1. CASE force[t]
      <4>1. /\ InCritical(t, call[t].url) /\ call[t].url \in Urls
            /\ holder' = [holder EXCEPT ![call[t].url] = None]
            /\ call' = call /\ force' = [force EXCEPT ![t] = FALSE]
            /\ pc' = [pc EXCEPT ![t] = "fetch"]
        BY <2>2, <3>1 DEF FetchDone, Release, RetryFind, Verification
      <4>2. s # t /\ InCritical(s, w)
        BY <4>1
      <4>3. holder[call[t].url] = t /\ holder[w] = s
        BY <4>1, <4>2
      <4>4. QED BY <4>1, <4>2, <4>3
    <3>2. CASE ~force[t]
      <4>1. UNCHANGED <<holder, call, force>> /\ pc' = [pc EXCEPT ![t] = "find"]
        BY <2>2, <3>2 DEF FetchDone
      <4>2. QED BY <4>1
    <3>3. QED BY <3>1, <3>2
  <2>3. CASE FetchFail(t) \/ CancelFetch(t)
    <3>1. PICK r \in Reasons : pc[t] = "await_fetch" /\ Abandon(t, r)
      BY <2>3, ReasonFacts DEF FetchFail, CancelFetch
    <3>2. /\ call' = call /\ force' = [force EXCEPT ![t] = FALSE]
          /\ pc' = [pc EXCEPT ![t] = "done"]
          /\ call[t].url \in Urls
      BY <3>1 DEF Abandon, Finish, Verification
    <3>3. s # t /\ InCritical(s, w)
      BY <3>2
    <3>4. CASE force[t]
      <4>1. InCritical(t, call[t].url) /\ holder' = [holder EXCEPT ![call[t].url] = None]
        BY <3>1, <3>4 DEF Abandon, LeaveLock, Release
      <4>2. holder[call[t].url] = t /\ holder[w] = s
        BY <3>2, <3>3, <4>1
      <4>3. QED BY <3>3, <4>1, <4>2
    <3>5. CASE ~force[t]
      BY <3>1, <3>3, <3>5 DEF Abandon, LeaveLock
    <3>6. QED BY <3>2, <3>4, <3>5
  <2>4. QED BY <1>4, <2>1, <2>2, <2>3 DEF Resume
<1>5. ASSUME NEW t \in Tasks, ServeResponse(t) PROVE holder'[w] = s
  BY <1>5 DEF ServeResponse
<1>6. ASSUME NEW t \in Tasks, CancelWait(t) PROVE holder'[w] = s
  BY <1>6 DEF CancelWait, Finish
<1>7. ASSUME NEW u \in Urls, Rotate(u) PROVE holder'[w] = s
  <2>1. UNCHANGED <<holder, call, force, pc>>
    BY <1>7 DEF Rotate
  <2>2. QED BY <2>1
<1>8. CASE ClearCache
  BY <1>8 DEF ClearCache
<1>9. CASE Tick
  BY <1>9 DEF Tick
<1>10. CASE UNCHANGED vars
  BY <1>10 DEF vars
<1>11. QED BY <1>1, <1>2, <1>3, <1>4, <1>5, <1>6, <1>7, <1>8, <1>9, <1>10 DEF Next, Proceed

(* Single flight for any number of tasks: the refresh lock of a base URL   *)
(* admits one task, also across failures, cancellations and clears.        *)
THEOREM SingleFlightHolds == Spec => []SingleFlight
<1>1. Init => LockInv
  BY DEF Init, LockInv, InCritical
<1>2. Spec => [](Typing /\ LockInv)
  BY <1>1, TypingInit, TypingNext, LockStep, PTL DEF Spec
<1>3. Typing /\ LockInv => SingleFlight
  BY DEF LockInv, SingleFlight
<1>4. QED BY <1>2, <1>3, PTL

-----------------------------------------------------------------------------
(* The recorded attempt is the last forced request.                        *)

SpacingInv == \A u \in Urls : forcedAt[u] # None => lastRefresh[u] = forcedAt[u]

LEMMA SpacingStep ==
    ASSUME Typing, SpacingInv, [Next]_vars
    PROVE  /\ SpacingInv'
           /\ \A u \in Urls :
                 forcedAt[u] # None /\ forcedAt'[u] # None /\ forcedAt'[u] # forcedAt[u]
                 => forcedAt'[u] - forcedAt[u] >= Cooldown
<1> USE DEF Typing, TypeOK, ControlInv, SpacingInv, Positions, backend, locks, history
<1>1. ASSUME NEW t \in Tasks, RefreshFetch(t)
      PROVE  /\ SpacingInv'
             /\ \A u \in Urls :
                   forcedAt[u] # None /\ forcedAt'[u] # None /\ forcedAt'[u] # forcedAt[u]
                   => forcedAt'[u] - forcedAt[u] >= Cooldown
  <2> DEFINE u == call[t].url
  <2>1. /\ u \in Urls
        /\ ~InCooldown(u)
        /\ lastRefresh' = [lastRefresh EXCEPT ![u] = now]
        /\ forcedAt' = [forcedAt EXCEPT ![u] = now]
    BY <1>1 DEF RefreshFetch, SpendCooldown, Verification
  <2>2. SpacingInv'
    BY <2>1
  <2>3. ASSUME forcedAt[u] # None PROVE now - forcedAt[u] >= Cooldown
    BY <2>1, <2>3, TimesAssumption DEF InCooldown
  <2>4. QED BY <2>1, <2>2, <2>3
<1>2. CASE ClearCache
  BY <1>2 DEF ClearCache
<1>3. CASE UNCHANGED <<forcedAt, lastRefresh>>
  BY <1>3
<1>4. QED
  <2>1. ASSUME NEW t \in Tasks, RejectUnfetched(t) \/ BeginVerification(t)
        PROVE  UNCHANGED <<forcedAt, lastRefresh>>
    BY <2>1 DEF RejectUnfetched, BeginVerification, Present
  <2>2. ASSUME NEW t \in Tasks, Proceed(t), ~RefreshFetch(t)
        PROVE  UNCHANGED <<forcedAt, lastRefresh>>
    BY <2>2 DEF Proceed, Run, Resume, FetchCached, FetchMiss, FindKey, AcquireLock,
       RefreshThrottled, Return, LockWake, FetchDone, FetchFail, CancelFetch, CancelWait,
       ServeResponse, Abandon
  <2>3. ASSUME NEW u \in Urls, Rotate(u)
        PROVE  UNCHANGED <<forcedAt, lastRefresh>>
    BY <2>3 DEF Rotate
  <2>4. CASE Tick \/ UNCHANGED vars
    BY <1>3, <2>4 DEF Tick, vars
  <2>5. QED BY <1>1, <1>2, <1>3, <2>1, <2>2, <2>3, <2>4 DEF Next

(* The cooldown spaces forced requests to one base URL, for every cooldown *)
(* and whatever becomes of the requests.                                   *)
THEOREM RefreshSpacingHolds == Spec => RefreshSpacing
<1>1. Init => SpacingInv
  BY DEF Init, SpacingInv
<1>2. Typing /\ SpacingInv /\ [Next]_vars => SpacingInv'
  BY SpacingStep
<1>3. Spec => [](Typing /\ SpacingInv)
  BY <1>1, <1>2, TypingInit, TypingNext, PTL DEF Spec
<1>4. Typing /\ SpacingInv /\ [Next]_vars =>
          [\A u \in Urls :
              forcedAt[u] # None /\ forcedAt'[u] # None /\ forcedAt'[u] # forcedAt[u]
              => forcedAt'[u] - forcedAt[u] >= Cooldown]_vars
  BY SpacingStep
<1>5. QED BY <1>3, <1>4, PTL DEF Spec, RefreshSpacing

-----------------------------------------------------------------------------
(* How old the keys may be that the module works with: a key in the cache  *)
(* or in an answer was published when its request started or later, one    *)
(* that was looked up, less than TTL before the lookup.                    *)

PublishedSince(u, k, n) ==
    k \in published[u] \/ (withdrawn[u][k] # None /\ n <= withdrawn[u][k])

PublishedLately(u, k, n) ==
    k \in published[u] \/ (withdrawn[u][k] # None /\ n < withdrawn[u][k] + TTL)

ClockInv ==
    /\ \A u \in Urls : jwksCache[u] # None => jwksCache[u].cached_at <= now
    /\ \A t \in Tasks : fetchNow[t] <= now

CacheAgeInv ==
    \A u \in Urls : jwksCache[u] # None =>
        \A k \in jwksCache[u].jwks : PublishedSince(u, k, jwksCache[u].cached_at)

AnswerAgeInv ==
    \A t \in Tasks : pc[t] = "await_fetch" /\ keySet[t] # None =>
        \A k \in keySet[t] : PublishedSince(call[t].url, k, fetchNow[t])

LookupAgeInv ==
    \A t \in Tasks : pc[t] = "find" =>
        \A k \in keySet[t] : PublishedLately(call[t].url, k, fetchNow[t])

AcceptedAgeInv ==
    \A t \in Tasks : pc[t] = "done" /\ result[t] = "valid" =>
        PublishedLately(call[t].url, call[t].kid, fetchNow[t])

AgeInv == ClockInv /\ CacheAgeInv /\ AnswerAgeInv /\ LookupAgeInv /\ AcceptedAgeInv

LEMMA AgeRun ==
    ASSUME Typing, AgeInv, NEW t \in Tasks, Run(t)
    PROVE  AgeInv'
<1> USE DEF AgeInv
<1>0. /\ now \in Nat /\ fetchNow \in [Tasks -> Nat]
      /\ pc \in [Tasks -> Positions]
      /\ keySet \in [Tasks -> (SUBSET Kids) \cup {None}]
      /\ result \in [Tasks -> Reasons \cup {None}]
  BY DEF Typing, TypeOK
<1>1. CASE FetchCached(t)
  <2> DEFINE u == call[t].url
  <2>1. /\ u \in Urls /\ jwksCache[u] # None /\ jwksCache[u] \in CacheEntry
        /\ now - jwksCache[u].cached_at < TTL
    BY <1>1 DEF FetchCached, Fresh, Verification, Typing, TypeOK, ControlInv
  <2>2. \A k \in jwksCache[u].jwks : PublishedLately(u, k, now)
    <3>1. ASSUME NEW k \in jwksCache[u].jwks, withdrawn[u][k] # None PROVE withdrawn[u][k] \in Nat
      BY <2>1, <3>1 DEF CacheEntry, Typing, TypeOK
    <3>2. QED
      BY <1>0, <2>1, <3>1, TimesAssumption
         DEF CacheEntry, CacheAgeInv, PublishedSince, PublishedLately
  <2>3. /\ pc' = [pc EXCEPT ![t] = "find"]
        /\ fetchNow' = [fetchNow EXCEPT ![t] = now]
        /\ keySet' = [keySet EXCEPT ![t] = jwksCache[u].jwks]
        /\ UNCHANGED <<now, published, withdrawn, jwksCache, call, result>>
    BY <1>1 DEF FetchCached, backend
  <2>4. ClockInv' /\ CacheAgeInv'
    BY <1>0, <2>3 DEF ClockInv, CacheAgeInv, PublishedSince
  <2>5. LookupAgeInv'
    BY <1>0, <2>2, <2>3 DEF LookupAgeInv, PublishedLately
  <2>6. AnswerAgeInv' /\ AcceptedAgeInv'
    BY <1>0, <2>3 DEF AnswerAgeInv, AcceptedAgeInv, PublishedSince, PublishedLately
  <2>7. QED BY <2>4, <2>5, <2>6
<1>2. CASE FetchMiss(t) \/ RefreshFetch(t)
  <2>1. /\ pc' = [pc EXCEPT ![t] = "await_fetch"]
        /\ fetchNow' = [fetchNow EXCEPT ![t] = now]
        /\ keySet' = [keySet EXCEPT ![t] = None]
        /\ UNCHANGED <<now, published, withdrawn, jwksCache, call, result>>
    BY <1>2 DEF FetchMiss, RefreshFetch, StartRequest, backend
  <2>2. ClockInv' /\ CacheAgeInv'
    BY <1>0, <2>1 DEF ClockInv, CacheAgeInv, PublishedSince
  <2>3. AnswerAgeInv' /\ LookupAgeInv' /\ AcceptedAgeInv'
    BY <1>0, <2>1 DEF AnswerAgeInv, LookupAgeInv, AcceptedAgeInv, PublishedSince, PublishedLately
  <2>4. QED BY <2>2, <2>3
<1>3. CASE FindKey(t)
  <2>1. \/ /\ pc' = [pc EXCEPT ![t] = "refresh"] /\ result' = result
        \/ \E r : /\ pc' = [pc EXCEPT ![t] = "done"] /\ result' = [result EXCEPT ![t] = r]
                  /\ r = "valid" => call[t].kid \in keySet[t]
    <3>1. NoUsableHeader(t) => DecodeReason(call[t].defect) # "valid"
      BY DEF NoUsableHeader, DecodeReason, SignatureFailed
    <3>2. SignatureFailed # "valid"
      BY DEF SignatureFailed
    <3>3. CASE call[t].kid \in keySet[t] \/ NoUsableHeader(t)
      BY <1>3, <3>1, <3>3 DEF FindKey, Finish
    <3>4. CASE call[t].kid \notin keySet[t] /\ ~NoUsableHeader(t)
      BY <1>3, <3>2, <3>4 DEF FindKey, Finish
    <3>5. QED BY <3>3, <3>4
  <2>2. /\ pc[t] = "find"
        /\ UNCHANGED <<now, published, withdrawn, jwksCache, call, fetchNow, keySet>>
    BY <1>3 DEF FindKey, backend
  <2>3. ClockInv' /\ CacheAgeInv'
    BY <2>2 DEF ClockInv, CacheAgeInv, PublishedSince
  <2>4. AnswerAgeInv' /\ LookupAgeInv'
    BY <1>0, <2>1, <2>2 DEF AnswerAgeInv, LookupAgeInv, PublishedSince, PublishedLately
  <2>5. AcceptedAgeInv'
    BY <1>0, <2>1, <2>2 DEF LookupAgeInv, AcceptedAgeInv, PublishedLately
  <2>6. QED BY <2>3, <2>4, <2>5
<1>4. CASE AcquireLock(t) \/ RefreshThrottled(t)
  <2>1. /\ \E p \in {"locked", "wait_lock", "fetch"} : pc' = [pc EXCEPT ![t] = p]
        /\ UNCHANGED <<now, published, withdrawn, jwksCache, call, fetchNow, keySet, result>>
    BY <1>4 DEF AcquireLock, RefreshThrottled, RetryFind, backend
  <2>2. ClockInv' /\ CacheAgeInv'
    BY <2>1 DEF ClockInv, CacheAgeInv, PublishedSince
  <2>3. AnswerAgeInv' /\ LookupAgeInv' /\ AcceptedAgeInv'
    BY <1>0, <2>1 DEF AnswerAgeInv, LookupAgeInv, AcceptedAgeInv, PublishedSince, PublishedLately
  <2>4. QED BY <2>2, <2>3
<1>5. CASE Return(t)
  <2>1. /\ pc' = [pc EXCEPT ![t] = "idle"]
        /\ call' = [call EXCEPT ![t] = None]
        /\ fetchNow' = [fetchNow EXCEPT ![t] = 0]
        /\ keySet' = [keySet EXCEPT ![t] = None]
        /\ result' = [result EXCEPT ![t] = None]
        /\ UNCHANGED <<now, published, withdrawn, jwksCache>>
    BY <1>5 DEF Return, backend
  <2>2. ClockInv' /\ CacheAgeInv'
    BY <1>0, <2>1 DEF ClockInv, CacheAgeInv, PublishedSince
  <2>3. AnswerAgeInv' /\ LookupAgeInv' /\ AcceptedAgeInv'
    BY <1>0, <2>1 DEF AnswerAgeInv, LookupAgeInv, AcceptedAgeInv, PublishedSince, PublishedLately
  <2>4. QED BY <2>2, <2>3
<1>6. QED BY <1>1, <1>2, <1>3, <1>4, <1>5 DEF Run

LEMMA AgeStep == Typing /\ AgeInv /\ [Next]_vars => AgeInv'
<1> SUFFICES ASSUME Typing, AgeInv, [Next]_vars PROVE AgeInv'
  OBVIOUS
<1> USE NoneAssumption, TimesAssumption
        DEF Typing, TypeOK, ControlInv, Positions, backend, locks, history, AgeInv, ClockInv,
            CacheAgeInv, AnswerAgeInv, LookupAgeInv, AcceptedAgeInv, PublishedSince, PublishedLately
<1>1. ASSUME NEW t \in Tasks, RejectUnfetched(t) PROVE AgeInv'
  <2>1. PICK c \in Requests :
            /\ c.defect \in DOMAIN PreFetchReason
            /\ Present(t, c)
            /\ Finish(t, PreFetchReason[c.defect])
    BY <1>1 DEF RejectUnfetched
  <2>2. PreFetchReason[c.defect] # "valid"
    BY <2>1, ReasonFacts
  <2>3. QED BY <2>1, <2>2 DEF Present, Finish
<1>2. ASSUME NEW t \in Tasks, BeginVerification(t) PROVE AgeInv'
  BY <1>2 DEF BeginVerification, Present
<1>3. ASSUME NEW t \in Tasks, ServeResponse(t) PROVE AgeInv'
  BY <1>3 DEF ServeResponse
<1>4. ASSUME NEW t \in Tasks, LockWake(t) PROVE AgeInv'
  BY <1>4 DEF LockWake
<1>5. ASSUME NEW t \in Tasks, FetchDone(t) PROVE AgeInv'
  <2> DEFINE u == call[t].url
  <2>1. /\ u \in Urls /\ keySet[t] \in SUBSET Kids
        /\ jwksCache' = [jwksCache EXCEPT ![u] = [jwks |-> keySet[t], cached_at |-> fetchNow[t]]]
        /\ \A k \in keySet[t] : PublishedSince(u, k, fetchNow[t])
        /\ UNCHANGED <<now, published, withdrawn, call, fetchNow, result>>
    BY <1>5 DEF FetchDone, EntryOf, Verification
  <2>2. CacheAgeInv' /\ ClockInv'
    BY <2>1 DEF CacheEntry
  <2>3. CASE force[t]
    <3>1. pc' = [pc EXCEPT ![t] = "fetch"] /\ keySet' = [keySet EXCEPT ![t] = None]
      BY <1>5, <2>3 DEF FetchDone, RetryFind
    <3>2. QED BY <2>1, <2>2, <3>1
  <2>4. CASE ~force[t]
    <3>1. pc' = [pc EXCEPT ![t] = "find"] /\ keySet' = keySet
      BY <1>5, <2>4 DEF FetchDone
    <3>2. QED BY <2>1, <2>2, <3>1
  <2>5. QED BY <2>3, <2>4
<1>6. ASSUME NEW t \in Tasks, FetchFail(t) \/ CancelFetch(t) \/ CancelWait(t) PROVE AgeInv'
  <2>1. PICK r \in {"server_error", "cancelled"} : Finish(t, r)
    BY <1>6 DEF FetchFail, CancelFetch, CancelWait, Abandon
  <2>2. UNCHANGED <<now, published, withdrawn, jwksCache, call, fetchNow, keySet>>
    BY <1>6 DEF FetchFail, CancelFetch, CancelWait, Abandon
  <2>3. QED BY <2>1, <2>2 DEF Finish
<1>7. ASSUME NEW u \in Urls, Rotate(u) PROVE AgeInv'
  <2>1. PICK S \in SUBSET Kids :
            /\ published' = [published EXCEPT ![u] = S]
            /\ withdrawn' = [withdrawn EXCEPT ![u] =
                   [k \in Kids |-> IF k \in S THEN None
                                   ELSE IF k \in published[u] THEN now ELSE @[k]]]
            /\ UNCHANGED <<now, jwksCache, pc, call, fetchNow, keySet, result>>
    BY <1>7 DEF Rotate
  <2>2. ASSUME NEW w \in Urls, NEW k \in Kids, NEW n \in Nat, n <= now, PublishedSince(w, k, n)
        PROVE  PublishedSince(w, k, n)'
    BY <2>1, <2>2
  <2>3. ASSUME NEW w \in Urls, NEW k \in Kids, NEW n \in Nat, n <= now, PublishedLately(w, k, n)
        PROVE  PublishedLately(w, k, n)'
    BY <2>1, <2>3
  <2>4. QED
    BY <2>1, <2>2, <2>3 DEF CacheEntry, Verification
<1>8. CASE ClearCache
  BY <1>8 DEF ClearCache
<1>9. CASE Tick
  BY <1>9 DEF Tick, CacheEntry
<1>10. CASE UNCHANGED vars
  BY <1>10 DEF vars
<1>11. QED BY <1>1, <1>2, <1>3, <1>4, <1>5, <1>6, <1>7, <1>8, <1>9, <1>10, AgeRun
         DEF Next, Proceed, Resume

(* A withdrawn key verifies tokens for less than TTL after its withdrawal, *)
(* for every TTL and whatever the order in which answers arrive.           *)
THEOREM RevokedKeyBoundHolds == Spec => []RevokedKeyBound
<1>1. Init => AgeInv
  BY DEF Init, AgeInv, ClockInv, CacheAgeInv, AnswerAgeInv, LookupAgeInv, AcceptedAgeInv
<1>2. Spec => [](Typing /\ AgeInv)
  BY <1>1, TypingInit, TypingNext, AgeStep, PTL DEF Spec
<1>3. AgeInv => RevokedKeyBound
  BY DEF AgeInv, AcceptedAgeInv, PublishedLately, RevokedKeyBound
<1>4. QED BY <1>2, <1>3, PTL

-----------------------------------------------------------------------------
(* A key that is never withdrawn is in every key set the module holds.     *)

StableKeySetsInv ==
    /\ \A u \in Urls : Stable \subseteq published[u]
    /\ \A u \in Urls : jwksCache[u] # None => Stable \subseteq jwksCache[u].jwks
    /\ \A t \in Tasks : pc[t] = "await_fetch" /\ keySet[t] # None => Stable \subseteq keySet[t]
    /\ \A t \in Tasks : pc[t] = "find" => Stable \subseteq keySet[t]

StableInv == StableKeySetsInv /\ StableKeyNeverRejected

LEMMA StableRun ==
    ASSUME Typing, StableInv, NEW t \in Tasks, Run(t)
    PROVE  StableInv'
<1> USE DEF StableInv
<1>0. /\ pc \in [Tasks -> Positions]
      /\ keySet \in [Tasks -> (SUBSET Kids) \cup {None}]
      /\ result \in [Tasks -> Reasons \cup {None}]
  BY DEF Typing, TypeOK
<1>1. CASE FetchCached(t)
  <2> DEFINE u == call[t].url
  <2>1. u \in Urls /\ jwksCache[u] # None
    BY <1>1 DEF FetchCached, Fresh, Verification, Typing, TypeOK, ControlInv
  <2>2. Stable \subseteq jwksCache[u].jwks
    BY <2>1 DEF StableKeySetsInv
  <2>3. /\ pc' = [pc EXCEPT ![t] = "find"]
        /\ keySet' = [keySet EXCEPT ![t] = jwksCache[u].jwks]
        /\ UNCHANGED <<published, jwksCache, call, result>>
    BY <1>1 DEF FetchCached, backend
  <2>4. StableKeySetsInv'
    BY <1>0, <2>2, <2>3 DEF StableKeySetsInv
  <2>5. StableKeyNeverRejected'
    BY <1>0, <2>3 DEF StableKeyNeverRejected
  <2>6. QED BY <2>4, <2>5
<1>2. CASE FetchMiss(t) \/ RefreshFetch(t)
  <2>1. /\ pc' = [pc EXCEPT ![t] = "await_fetch"]
        /\ keySet' = [keySet EXCEPT ![t] = None]
        /\ UNCHANGED <<published, jwksCache, call, result>>
    BY <1>2 DEF FetchMiss, RefreshFetch, StartRequest, backend
  <2>2. QED BY <1>0, <2>1 DEF StableKeySetsInv, StableKeyNeverRejected
<1>3. CASE FindKey(t)
  <2>1. ASSUME call[t].defect = "none", call[t].kid \in Stable, pc'[t] = "done"
        PROVE  result'[t] # SignatureFailed
    <3>1. call[t].kid \in keySet[t]
      BY <1>3, <2>1 DEF FindKey, StableKeySetsInv
    <3>2. result' = [result EXCEPT ![t] = "valid"]
      BY <1>3, <2>1, <3>1 DEF FindKey, Finish, DecodeReason
    <3>3. QED BY <1>0, <3>2 DEF SignatureFailed
  <2>2. /\ \E p \in {"refresh", "done"} : pc' = [pc EXCEPT ![t] = p]
        /\ result' = result \/ \E r : result' = [result EXCEPT ![t] = r]
        /\ UNCHANGED <<published, jwksCache, call, keySet>>
    BY <1>3 DEF FindKey, Finish, backend
  <2>3. StableKeySetsInv'
    BY <1>0, <2>2 DEF StableKeySetsInv
  <2>4. StableKeyNeverRejected'
    BY <1>0, <2>1, <2>2 DEF StableKeyNeverRejected
  <2>5. QED BY <2>3, <2>4
<1>4. CASE AcquireLock(t) \/ RefreshThrottled(t)
  <2>1. /\ \E p \in {"locked", "wait_lock", "fetch"} : pc' = [pc EXCEPT ![t] = p]
        /\ UNCHANGED <<published, jwksCache, call, keySet, result>>
    BY <1>4 DEF AcquireLock, RefreshThrottled, RetryFind, backend
  <2>2. QED BY <1>0, <2>1 DEF StableKeySetsInv, StableKeyNeverRejected
<1>5. CASE Return(t)
  <2>1. /\ pc' = [pc EXCEPT ![t] = "idle"]
        /\ call' = [call EXCEPT ![t] = None]
        /\ keySet' = [keySet EXCEPT ![t] = None]
        /\ result' = [result EXCEPT ![t] = None]
        /\ UNCHANGED <<published, jwksCache>>
    BY <1>5 DEF Return, backend
  <2>2. StableKeySetsInv'
    BY <1>0, <2>1 DEF StableKeySetsInv
  <2>3. StableKeyNeverRejected'
    BY <1>0, <2>1 DEF StableKeyNeverRejected
  <2>4. QED BY <2>2, <2>3
<1>6. QED BY <1>1, <1>2, <1>3, <1>4, <1>5 DEF Run

LEMMA StableStep == Typing /\ StableInv /\ [Next]_vars => StableInv'
<1> SUFFICES ASSUME Typing, StableInv, [Next]_vars PROVE StableInv'
  OBVIOUS
<1> USE DEF StableInv
<1>0. /\ pc \in [Tasks -> Positions]
      /\ keySet \in [Tasks -> (SUBSET Kids) \cup {None}]
      /\ result \in [Tasks -> Reasons \cup {None}]
      /\ call \in [Tasks -> Verification \cup {None}]
  BY DEF Typing, TypeOK
<1>1. ASSUME NEW t \in Tasks, RejectUnfetched(t) PROVE StableInv'
  <2>1. PICK c \in Requests :
            /\ c.defect \in DOMAIN PreFetchReason
            /\ Present(t, c)
            /\ Finish(t, PreFetchReason[c.defect])
    BY <1>1 DEF RejectUnfetched
  <2>2. c.defect # "none"
    BY <2>1, ReasonFacts
  <2>3. /\ call' = [call EXCEPT ![t] = c]
        /\ pc' = [pc EXCEPT ![t] = "done"]
        /\ \E r : result' = [result EXCEPT ![t] = r]
        /\ UNCHANGED <<published, jwksCache, keySet>>
    BY <2>1 DEF Present, Finish, backend
  <2>4. StableKeySetsInv'
    BY <1>0, <2>3 DEF StableKeySetsInv
  <2>5. StableKeyNeverRejected'
    BY <1>0, <2>2, <2>3 DEF StableKeyNeverRejected
  <2>6. QED BY <2>4, <2>5
<1>2. ASSUME NEW t \in Tasks, BeginVerification(t) PROVE StableInv'
  <2>1. /\ \E c \in Requests : call' = [call EXCEPT ![t] = c]
        /\ pc' = [pc EXCEPT ![t] = "fetch"]
        /\ UNCHANGED <<published, jwksCache, keySet, result>>
    BY <1>2 DEF BeginVerification, Present, backend
  <2>2. QED BY <1>0, <2>1 DEF StableKeySetsInv, StableKeyNeverRejected
<1>3. ASSUME NEW t \in Tasks, ServeResponse(t) PROVE StableInv'
  <2>1. /\ pc[t] = "await_fetch" /\ call[t].url \in Urls
        /\ keySet' = [keySet EXCEPT ![t] = published[call[t].url]]
        /\ UNCHANGED <<published, jwksCache, call, pc, result>>
    BY <1>3 DEF ServeResponse, backend, Verification, Typing, ControlInv
  <2>2. QED BY <1>0, <2>1 DEF StableKeySetsInv, StableKeyNeverRejected
<1>4. ASSUME NEW t \in Tasks, LockWake(t) PROVE StableInv'
  <2>1. /\ pc' = [pc EXCEPT ![t] = "locked"]
        /\ UNCHANGED <<published, jwksCache, call, keySet, result>>
    BY <1>4 DEF LockWake, backend
  <2>2. QED BY <1>0, <2>1 DEF StableKeySetsInv, StableKeyNeverRejected
<1>5. ASSUME NEW t \in Tasks, FetchDone(t) PROVE StableInv'
  <2>1. /\ call[t].url \in Urls /\ Stable \subseteq keySet[t]
        /\ jwksCache' = [jwksCache EXCEPT ![call[t].url] =
                            [jwks |-> keySet[t], cached_at |-> fetchNow[t]]]
        /\ \/ pc' = [pc EXCEPT ![t] = "find"] /\ keySet' = keySet
           \/ pc' = [pc EXCEPT ![t] = "fetch"] /\ keySet' = [keySet EXCEPT ![t] = None]
        /\ UNCHANGED <<published, call, result>>
    BY <1>5 DEF FetchDone, EntryOf, RetryFind, backend, Verification, Typing, ControlInv,
                StableKeySetsInv
  <2>2. jwksCache \in [Urls -> CacheEntry \cup {None}]
    BY DEF Typing, TypeOK
  <2>3. StableKeySetsInv'
    BY <1>0, <2>1, <2>2 DEF StableKeySetsInv
  <2>4. StableKeyNeverRejected'
    BY <1>0, <2>1 DEF StableKeyNeverRejected
  <2>5. QED BY <2>3, <2>4
<1>6. ASSUME NEW t \in Tasks, FetchFail(t) \/ CancelFetch(t) \/ CancelWait(t) PROVE StableInv'
  <2>1. PICK r \in {"server_error", "cancelled"} : Finish(t, r)
    BY <1>6 DEF FetchFail, CancelFetch, CancelWait, Abandon
  <2>2. UNCHANGED <<published, jwksCache, call, keySet>>
    BY <1>6 DEF FetchFail, CancelFetch, CancelWait, Abandon, backend
  <2>3. r # SignatureFailed
    BY DEF SignatureFailed
  <2>4. QED BY <1>0, <2>1, <2>2, <2>3 DEF Finish, StableKeySetsInv, StableKeyNeverRejected
<1>7. ASSUME NEW u \in Urls, Rotate(u) PROVE StableInv'
  <2>1. PICK S \in SUBSET Kids :
            /\ Stable \subseteq S
            /\ published' = [published EXCEPT ![u] = S]
            /\ UNCHANGED <<jwksCache, pc, call, keySet, result>>
    BY <1>7 DEF Rotate
  <2>2. published \in [Urls -> SUBSET Kids]
    BY DEF Typing, TypeOK
  <2>3. QED BY <2>1, <2>2 DEF StableKeySetsInv, StableKeyNeverRejected
<1>8. CASE ClearCache
  BY <1>8 DEF ClearCache, backend, StableKeySetsInv, StableKeyNeverRejected
<1>9. CASE UNCHANGED <<published, jwksCache, pc, call, keySet, result>>
  BY <1>9 DEF StableKeySetsInv, StableKeyNeverRejected
<1>10. QED BY <1>1, <1>2, <1>3, <1>4, <1>5, <1>6, <1>7, <1>8, <1>9, StableRun
         DEF Next, Proceed, Resume, Tick, vars, backend

(* A key that stays published is never missed: no failed, late, throttled  *)
(* or cleared step makes a sound token under it fail its signature check.  *)
THEOREM StableKeysHold == Spec => []StableKeyNeverRejected
<1>1. Init => StableInv
  BY DEF Init, StableInv, StableKeySetsInv, StableKeyNeverRejected
<1>2. Spec => [](Typing /\ StableInv)
  BY <1>1, TypingInit, TypingNext, StableStep, PTL DEF Spec
<1>3. StableInv => StableKeyNeverRejected
  BY DEF StableInv
<1>4. QED BY <1>2, <1>3, PTL

-----------------------------------------------------------------------------
(* A kid that stays published during a verification is in every answer the *)
(* verification gets; after a refresh of its own it is in the cache too,   *)
(* and stays there until it is looked up, as no other task runs between.   *)

OfferedInv ==
    \A t \in Tasks : offered[t] =>
        LET u == call[t].url
            k == call[t].kid
        IN  /\ pc[t] # "idle"
            /\ k \in published[u]
            /\ pc[t] = "await_fetch" /\ keySet[t] # None => k \in keySet[t]
            /\ pc[t] = "fetch" /\ attempt[t] = 1 /\ ~throttled[t] /\ jwksCache[u] # None
               => k \in jwksCache[u].jwks
            /\ pc[t] = "find" /\ attempt[t] = 1 /\ ~throttled[t] => k \in keySet[t]

RecoveryInv == OfferedInv /\ OnlyThrottlingRejects

LEMMA RecoveryRun ==
    ASSUME Typing, RecoveryInv, NEW t \in Tasks, Run(t)
    PROVE  RecoveryInv'
<1> USE DEF RecoveryInv
<1>0. /\ pc \in [Tasks -> Positions]
      /\ attempt \in [Tasks -> {0, 1}]
      /\ keySet \in [Tasks -> (SUBSET Kids) \cup {None}]
      /\ result \in [Tasks -> Reasons \cup {None}]
      /\ throttled \in [Tasks -> BOOLEAN] /\ offered \in [Tasks -> BOOLEAN]
      /\ call \in [Tasks -> Verification \cup {None}]
  BY DEF Typing, TypeOK
<1>1. CASE FetchCached(t)
  <2> DEFINE u == call[t].url
  <2>1. /\ jwksCache[u] # None /\ pc[t] = "fetch"
        /\ pc' = [pc EXCEPT ![t] = "find"]
        /\ keySet' = [keySet EXCEPT ![t] = jwksCache[u].jwks]
        /\ UNCHANGED <<published, jwksCache, call, attempt, result, throttled, offered>>
    BY <1>1 DEF FetchCached, Fresh, backend, history
  <2>2. OfferedInv'
    BY <1>0, <2>1 DEF OfferedInv
  <2>3. OnlyThrottlingRejects'
    BY <1>0, <2>1 DEF OnlyThrottlingRejects
  <2>4. QED BY <2>2, <2>3
<1>2. CASE FetchMiss(t) \/ RefreshFetch(t)
  <2>1. /\ pc[t] # "idle" /\ pc' = [pc EXCEPT ![t] = "await_fetch"]
        /\ keySet' = [keySet EXCEPT ![t] = None]
        /\ UNCHANGED <<published, jwksCache, call, attempt, result, throttled, offered>>
    BY <1>2 DEF FetchMiss, RefreshFetch, StartRequest, backend, history
  <2>2. OfferedInv'
    BY <1>0, <2>1 DEF OfferedInv
  <2>3. OnlyThrottlingRejects'
    BY <1>0, <2>1 DEF OnlyThrottlingRejects
  <2>4. QED BY <2>2, <2>3
<1>3. CASE FindKey(t)
  <2>1. /\ pc[t] = "find"
        /\ \E p \in {"refresh", "done"} : pc' = [pc EXCEPT ![t] = p]
        /\ result' = result \/ \E r : result' = [result EXCEPT ![t] = r]
        /\ UNCHANGED <<published, jwksCache, call, attempt, keySet, throttled, offered>>
    BY <1>3 DEF FindKey, Finish, backend, history
  <2>2. ASSUME pc'[t] = "done", call[t].defect = "none", offered[t],
               result'[t] = SignatureFailed
        PROVE  throttled[t]
    <3>1. CASE call[t].kid \in keySet[t] \/ NoUsableHeader(t)
      <4>1. call[t].kid \in keySet[t]
        BY <2>2, <3>1 DEF NoUsableHeader
      <4>2. result' = [result EXCEPT ![t] = "valid"]
        BY <1>3, <2>2, <4>1 DEF FindKey, Finish, DecodeReason
      <4>3. QED BY <1>0, <2>2, <4>2 DEF SignatureFailed
    <3>2. CASE call[t].kid \notin keySet[t] /\ ~NoUsableHeader(t)
      <4>1. attempt[t] # 0
        <5>1. SUFFICES ASSUME attempt[t] = 0 PROVE FALSE
          OBVIOUS
        <5>2. pc' = [pc EXCEPT ![t] = "refresh"]
          BY <1>3, <3>2, <5>1 DEF FindKey, MayRefresh
        <5>3. QED BY <1>0, <2>2, <5>2
      <4>2. QED BY <1>0, <2>1, <2>2, <3>2, <4>1 DEF OfferedInv
    <3>3. QED BY <3>1, <3>2
  <2>3. OfferedInv'
    BY <1>0, <2>1 DEF OfferedInv
  <2>4. OnlyThrottlingRejects'
    BY <1>0, <2>1, <2>2 DEF OnlyThrottlingRejects
  <2>5. QED BY <2>3, <2>4
<1>4. CASE AcquireLock(t)
  <2>1. /\ pc[t] = "refresh"
        /\ \E p \in {"locked", "wait_lock"} : pc' = [pc EXCEPT ![t] = p]
        /\ UNCHANGED <<published, jwksCache, call, attempt, keySet, result, throttled, offered>>
    BY <1>4 DEF AcquireLock, backend, history
  <2>2. QED BY <1>0, <2>1 DEF OfferedInv, OnlyThrottlingRejects
<1>5. CASE RefreshThrottled(t)
  <2>1. /\ pc[t] = "locked" /\ pc' = [pc EXCEPT ![t] = "fetch"]
        /\ attempt' = [attempt EXCEPT ![t] = @ + 1]
        /\ throttled' = [throttled EXCEPT ![t] = TRUE]
        /\ UNCHANGED <<published, jwksCache, call, keySet, result, offered>>
    BY <1>5 DEF RefreshThrottled, RetryFind, backend
  <2>2. OfferedInv'
    BY <1>0, <2>1 DEF OfferedInv
  <2>3. OnlyThrottlingRejects'
    BY <1>0, <2>1 DEF OnlyThrottlingRejects
  <2>4. QED BY <2>2, <2>3
<1>6. CASE Return(t)
  <2>1. /\ pc' = [pc EXCEPT ![t] = "idle"]
        /\ call' = [call EXCEPT ![t] = None]
        /\ keySet' = [keySet EXCEPT ![t] = None]
        /\ result' = [result EXCEPT ![t] = None]
        /\ attempt' = [attempt EXCEPT ![t] = 0]
        /\ throttled' = [throttled EXCEPT ![t] = FALSE]
        /\ offered' = [offered EXCEPT ![t] = FALSE]
        /\ UNCHANGED <<published, jwksCache>>
    BY <1>6 DEF Return, backend
  <2>2. OfferedInv'
    BY <1>0, <2>1 DEF OfferedInv
  <2>3. OnlyThrottlingRejects'
    BY <1>0, <2>1 DEF OnlyThrottlingRejects
  <2>4. QED BY <2>2, <2>3
<1>7. QED BY <1>1, <1>2, <1>3, <1>4, <1>5, <1>6 DEF Run

LEMMA RecoveryStep == Typing /\ RecoveryInv /\ [Next]_vars => RecoveryInv'
<1> SUFFICES ASSUME Typing, RecoveryInv, [Next]_vars PROVE RecoveryInv'
  OBVIOUS
<1> USE DEF RecoveryInv
<1>0. /\ pc \in [Tasks -> Positions]
      /\ attempt \in [Tasks -> {0, 1}]
      /\ keySet \in [Tasks -> (SUBSET Kids) \cup {None}]
      /\ result \in [Tasks -> Reasons \cup {None}]
      /\ throttled \in [Tasks -> BOOLEAN] /\ offered \in [Tasks -> BOOLEAN]
      /\ call \in [Tasks -> Verification \cup {None}]
  BY DEF Typing, TypeOK
<1>1. ASSUME NEW t \in Tasks, RejectUnfetched(t) PROVE RecoveryInv'
  <2>1. PICK c \in Requests :
            /\ c.defect \in DOMAIN PreFetchReason
            /\ Present(t, c)
            /\ Finish(t, PreFetchReason[c.defect])
    BY <1>1 DEF RejectUnfetched
  <2>2. c.defect # "none"
    BY <2>1, ReasonFacts
  <2>3. /\ call' = [call EXCEPT ![t] = c]
        /\ offered' = [offered EXCEPT ![t] = c.kid \in published[c.url]]
        /\ pc' = [pc EXCEPT ![t] = "done"]
        /\ \E r : result' = [result EXCEPT ![t] = r]
        /\ UNCHANGED <<published, jwksCache, attempt, keySet, throttled>>
    BY <2>1 DEF Present, Finish, backend
  <2>4. OfferedInv'
    BY <1>0, <2>3 DEF OfferedInv
  <2>5. OnlyThrottlingRejects'
    BY <1>0, <2>2, <2>3 DEF OnlyThrottlingRejects
  <2>6. QED BY <2>4, <2>5
<1>2. ASSUME NEW t \in Tasks, BeginVerification(t) PROVE RecoveryInv'
  <2>1. PICK c \in Requests :
            /\ call' = [call EXCEPT ![t] = c]
            /\ offered' = [offered EXCEPT ![t] = c.kid \in published[c.url]]
            /\ pc' = [pc EXCEPT ![t] = "fetch"]
            /\ UNCHANGED <<published, jwksCache, attempt, keySet, result, throttled>>
    BY <1>2 DEF BeginVerification, Present, backend
  <2>2. attempt[t] = 0
    BY <1>2 DEF BeginVerification, Present, Typing, ControlInv
  <2>3. OfferedInv'
    <3>1. offered'[t] => c.kid \in published[c.url]
      BY <1>0, <2>1
    <3>2. /\ pc'[t] = "fetch" /\ attempt'[t] = 0 /\ call'[t] = c
          /\ \A s \in Tasks \ {t} : /\ pc'[s] = pc[s] /\ call'[s] = call[s]
                                   /\ offered'[s] = offered[s]
      BY <1>0, <2>1, <2>2
    <3>3. QED BY <2>1, <3>1, <3>2 DEF OfferedInv
  <2>4. OnlyThrottlingRejects'
    BY <1>0, <2>1 DEF OnlyThrottlingRejects
  <2>5. QED BY <2>3, <2>4
<1>3. ASSUME NEW t \in Tasks, ServeResponse(t) PROVE RecoveryInv'
  <2>1. /\ pc[t] = "await_fetch"
        /\ keySet' = [keySet EXCEPT ![t] = published[call[t].url]]
        /\ UNCHANGED <<published, jwksCache, call, pc, attempt, result, throttled, offered>>
    BY <1>3 DEF ServeResponse, backend, history
  <2>2. QED BY <1>0, <2>1 DEF OfferedInv, OnlyThrottlingRejects
<1>4. ASSUME NEW t \in Tasks, LockWake(t) PROVE RecoveryInv'
  <2>1. /\ pc[t] = "wait_lock" /\ pc' = [pc EXCEPT ![t] = "locked"]
        /\ UNCHANGED <<published, jwksCache, call, attempt, keySet, result, throttled, offered>>
    BY <1>4 DEF LockWake, backend, history
  <2>2. QED BY <1>0, <2>1 DEF OfferedInv, OnlyThrottlingRejects
<1>5. ASSUME NEW t \in Tasks, FetchDone(t) PROVE RecoveryInv'
  <2>1. /\ running = None /\ pc[t] = "await_fetch" /\ keySet[t] # None /\ call[t].url \in Urls
        /\ jwksCache' = [jwksCache EXCEPT ![call[t].url] =
                            [jwks |-> keySet[t], cached_at |-> fetchNow[t]]]
        /\ \/ pc' = [pc EXCEPT ![t] = "find"] /\ keySet' = keySet /\ attempt' = attempt
           \/ /\ pc' = [pc EXCEPT ![t] = "fetch"] /\ keySet' = [keySet EXCEPT ![t] = None]
              /\ attempt' = [attempt EXCEPT ![t] = @ + 1]
        /\ UNCHANGED <<published, call, result, throttled, offered>>
    BY <1>5 DEF FetchDone, EntryOf, RetryFind, backend, history, Verification, Typing, ControlInv
  <2>2. jwksCache \in [Urls -> CacheEntry \cup {None}]
    BY DEF Typing, TypeOK
  <2>3. \A s \in Tasks : pc[s] # "fetch"
    BY <2>1, NoneAssumption DEF Typing, ControlInv
  <2>4. OfferedInv'
    BY <1>0, <2>1, <2>2, <2>3 DEF OfferedInv
  <2>5. OnlyThrottlingRejects'
    BY <1>0, <2>1 DEF OnlyThrottlingRejects
  <2>6. QED BY <2>4, <2>5
<1>6. ASSUME NEW t \in Tasks, FetchFail(t) \/ CancelFetch(t) \/ CancelWait(t) PROVE RecoveryInv'
  <2>1. PICK r \in {"server_error", "cancelled"} : Finish(t, r)
    BY <1>6 DEF FetchFail, CancelFetch, CancelWait, Abandon
  <2>2. UNCHANGED <<published, jwksCache, call, attempt, keySet, throttled, offered>>
    BY <1>6 DEF FetchFail, CancelFetch, CancelWait, Abandon, backend, history
  <2>3. r # SignatureFailed
    BY DEF SignatureFailed
  <2>4. OfferedInv'
    BY <1>0, <2>1, <2>2 DEF Finish, OfferedInv
  <2>5. OnlyThrottlingRejects'
    BY <1>0, <2>1, <2>2, <2>3 DEF Finish, OnlyThrottlingRejects
  <2>6. QED BY <2>4, <2>5
<1>7. ASSUME NEW u \in Urls, Rotate(u) PROVE RecoveryInv'
  <2>1. PICK S \in SUBSET Kids :
            /\ published' = [published EXCEPT ![u] = S]
            /\ offered' = [t \in Tasks |->
                   offered[t] /\ (call[t].url = u => call[t].kid \in S)]
            /\ UNCHANGED <<jwksCache, pc, call, attempt, keySet, result, throttled>>
    BY <1>7 DEF Rotate
  <2>2. published \in [Urls -> SUBSET Kids]
    BY DEF Typing, TypeOK
  <2>3. \A t \in Tasks : offered'[t] => offered[t] /\ (call[t].url = u => call[t].kid \in S)
    BY <2>1
  <2>4. \A w \in DOMAIN published : published'[w] = IF w = u THEN S ELSE published[w]
    BY <2>1
  <2>5. OfferedInv'
    <3>1. SUFFICES ASSUME NEW t \in Tasks, offered'[t]
                   PROVE  call[t].kid \in published'[call[t].url]
      BY <2>1, <2>3 DEF OfferedInv
    <3>2. call[t].kid \in published[call[t].url] /\ pc[t] # "idle"
      BY <2>3, <3>1 DEF OfferedInv
    <3>3. call[t].url \in Urls
      BY <3>2 DEF Typing, ControlInv, Verification
    <3>4. QED BY <2>2, <2>3, <2>4, <3>1, <3>2, <3>3
  <2>6. OnlyThrottlingRejects'
    BY <1>0, <2>1, <2>3 DEF OnlyThrottlingRejects
  <2>7. QED BY <2>5, <2>6
<1>8. CASE ClearCache
  <2>1. /\ jwksCache' = [u \in Urls |-> None]
        /\ UNCHANGED <<published, pc, call, attempt, keySet, result, throttled, offered>>
    BY <1>8 DEF ClearCache, backend
  <2>2. \A s \in Tasks : pc[s] # "fetch"
    BY <1>8, NoneAssumption DEF ClearCache, Typing, ControlInv
  <2>3. QED BY <2>1, <2>2 DEF OfferedInv, OnlyThrottlingRejects
<1>9. CASE UNCHANGED <<published, jwksCache, pc, call, attempt, keySet, result, throttled, offered>>
  BY <1>9 DEF OfferedInv, OnlyThrottlingRejects
<1>10. QED BY <1>1, <1>2, <1>3, <1>4, <1>5, <1>6, <1>7, <1>8, <1>9, RecoveryRun
         DEF Next, Proceed, Resume, Tick, vars, backend, history

(* A refresh that goes through recovers from every rotation: only the      *)
(* cooldown makes a sound token under a published key fail its check.      *)
THEOREM RotationRecovery == Spec => []OnlyThrottlingRejects
<1>1. Init => RecoveryInv
  BY DEF Init, RecoveryInv, OfferedInv, OnlyThrottlingRejects
<1>2. Spec => [](Typing /\ RecoveryInv)
  BY <1>1, TypingInit, TypingNext, RecoveryStep, PTL DEF Spec
<1>3. RecoveryInv => OnlyThrottlingRejects
  BY DEF RecoveryInv
<1>4. QED BY <1>2, <1>3, PTL
=============================================================================
