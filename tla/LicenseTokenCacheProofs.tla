------------------------ MODULE LicenseTokenCacheProofs ------------------------
(***************************************************************************)
(* Proofs about LicenseTokenCache, for any number of tasks, event loops,   *)
(* calls, origins and documents and any TTL, margin, lifetime and flight.  *)
(*                                                                         *)
(* The inductive invariant is built up in layers: TaskInv (where a task may*)
(* be, and what it and the caches then hold), LockInv (who is in the queue *)
(* of which lock), IssuedInv (the token cache and what was cached last) and*)
(* AgeInv (how old a license.xml in the cache or in flight may be).        *)
(***************************************************************************)
EXTENDS LicenseTokenCache, ContentMatchingProofs

-----------------------------------------------------------------------------
(* Every variable is a function on its domain, and the clock in its range. *)
Shape ==
    /\ now \in 0 .. MaxTime
    /\ live \in [Origins -> Documents]
    /\ DOMAIN xml_cache = Origins /\ DOMAIN replaced = Origins
    /\ \A h \in Origins : DOMAIN replaced[h] = Documents
    /\ DOMAIN pc = Tasks /\ DOMAIN call = Tasks /\ DOMAIN response = Tasks
    /\ DOMAIN endpoint = Tasks /\ DOMAIN result = Tasks /\ DOMAIN sent_at = Tasks
    /\ DOMAIN read = Tasks
    /\ DOMAIN issued = Keys /\ DOMAIN token_cache \subseteq Keys

(* What is in the license.xml cache.                                       *)
XmlInv ==
    \A h \in Origins :
        \/ xml_cache[h] = None
        \/ xml_cache[h].xml \in Documents /\ xml_cache[h].fetched_at \in 0 .. now

(* What a token under a key is good for.                                   *)
GoodFor(key, token) ==
    /\ token \in Tokens
    /\ token.client_id = key[1] /\ token.server = key[2] /\ Covers(key[3], token.resource)

TokensInv ==
    \A k \in DOMAIN token_cache : token_cache[k].exp \in Nat /\ GoodFor(k, token_cache[k].token)

(* Where a task may be, and with what.                                     *)
Chosen(t) == \E d \in Documents : endpoint[t] = EndpointOf[call[t]][d]

TaskOK(t) ==
    \/ pc[t] = "idle" /\ result[t] = None
    \/ /\ pc[t] = "await_xml" /\ call[t] \in Requests /\ result[t] = None
       /\ OriginOf(t) \in Origins
       /\ response[t] \in Documents \cup {None}
    \/ pc[t] = "wait_lock" /\ call[t] \in Requests /\ result[t] = None /\ Chosen(t)
    \/ /\ pc[t] = "await_token" /\ call[t] \in Requests /\ result[t] = None /\ Chosen(t)
       /\ \/ response[t] = None
          \/ /\ response[t] = TokenFor(t, response[t].exp)
             /\ response[t].exp \in Nat \cup {None}
    \/ /\ pc[t] = "done" /\ call[t] \in Requests
       /\ \E kind \in Results \ {"ok"} : result[t] = [kind |-> kind, token |-> None]
    \/ /\ pc[t] = "done" /\ call[t] \in Requests /\ Chosen(t)
       /\ result[t] = [kind |-> "ok", token |-> result[t].token]
       /\ GoodFor(KeyOf(t), result[t].token)

TaskInv == Shape /\ XmlInv /\ TokensInv /\ \A t \in Tasks : TaskOK(t)

(* The lock of a key in an event loop is held by the first in its queue.   *)
Queued(t) == pc[t] \in {"wait_lock", "await_token"}
LockOf(t) == <<LoopOf[t], KeyOf(t)>>
Distinct(queue) == \A i, j \in DOMAIN queue : queue[i] = queue[j] => i = j

LockInv ==
    /\ lock \in [Loops \X Keys -> Seq(Tasks)]
    /\ \A x \in Loops \X Keys :
          /\ Distinct(lock[x])
          /\ \A t \in Tasks : InQueue(lock[x], t) <=> Queued(t) /\ x = LockOf(t)
    /\ \A t \in Tasks : pc[t] = "await_token" => NextInLine(t)

(* The exp last cached for a key is that of its entry, or about to pass.   *)
IssuedInv ==
    \A k \in Keys :
        \/ issued[k] = None
        \/ k \in DOMAIN token_cache /\ token_cache[k].exp = issued[k]
        \/ issued[k] \in Nat /\ issued[k] <= now + Margin

(* A document read at a time was not replaced before that time.            *)
NotBefore(time, h, d) == replaced[h][d] = None \/ replaced[h][d] >= time

RequestAge(t) ==
    pc[t] = "await_xml" =>
        /\ sent_at[t] \in 0 .. now /\ now <= sent_at[t] + Flight
        /\ response[t] # None => NotBefore(sent_at[t], OriginOf(t), response[t])

EntryAge(h) ==
    xml_cache[h] # None => NotBefore(xml_cache[h].fetched_at - Flight, h, xml_cache[h].xml)

AgeInv ==
    /\ \A h \in Origins :
          /\ replaced[h][live[h]] = None
          /\ \A d \in Documents : replaced[h][d] = None \/ replaced[h][d] \in 0 .. now
          /\ EntryAge(h)
    /\ \A t \in Tasks : RequestAge(t)

-----------------------------------------------------------------------------
(* The endpoint a call chooses under a document has a key, and its scope   *)
(* covers the resource of the call.                                        *)
LEMMA EndpointFacts ==
    ASSUME NEW r \in Requests, NEW d \in Documents
    PROVE  /\ CacheKey(r.client_id, EndpointOf[r][d]) \in Keys
           /\ Covers(EndpointOf[r][d].scope, r.resource)
<1>1. CacheKey(r.client_id, EndpointOf[r][d]) \in Keys
  BY DEF Keys
<1>2. Blocks[d] = ParseContentElements(XmlOf[d])
  BY DEF Blocks
<1>3. IsList(Blocks[d])
  BY <1>2, DocumentsAssumption, ParsedBlocks
<1>4. EndpointOf[r][d] = SelectTokenEndpoint(Blocks[d], r.resource, r.base)
  BY DEF EndpointOf
<1>5. Covers(EndpointOf[r][d].scope, r.resource)
  <2> DEFINE scope == EndpointOf[r][d].scope
  <2>1. \/ scope = Origin(r.resource)
        \/ /\ \E i \in DOMAIN Blocks[d] : scope = Blocks[d][i].url_pattern
           /\ Fits([url_pattern |-> scope], r.resource)
    BY <1>3, <1>4, EndpointScope
  <2>2. (\E i \in DOMAIN Blocks[d] : scope = Blocks[d][i].url_pattern) => scope \in Published
    BY DEF Published
  <2> HIDE DEF scope
  <2>3. QED BY <2>1, <2>2 DEF Covers, Fits, Exact, scope
<1>6. QED BY <1>1, <1>5

(* The answer of the token endpoint is good for the key it is cached under.*)
LEMMA TokenForFacts ==
    ASSUME NEW t \in Tasks, call[t] \in Requests, Chosen(t), NEW exp \in Nat \cup {None}
    PROVE  KeyOf(t) \in Keys /\ GoodFor(KeyOf(t), TokenFor(t, exp)) /\ TokenFor(t, exp).exp = exp
<1>1. PICK d \in Documents : endpoint[t] = EndpointOf[call[t]][d]
  BY DEF Chosen
<1>2. /\ KeyOf(t) \in Keys /\ Covers(endpoint[t].scope, call[t].resource)
  BY <1>1, EndpointFacts DEF KeyOf
<1>3. TokenFor(t, exp) \in Tokens
  BY <1>1, <1>2 DEF TokenFor, Tokens
<1>4. QED BY <1>2, <1>3 DEF TokenFor, GoodFor, KeyOf, CacheKey

(* What a step of t may not touch: the variables of the other tasks.       *)
Kept(s) ==
    UNCHANGED <<pc[s], call[s], response[s], endpoint[s], result[s], sent_at[s], read[s]>>

LEMMA KeptTaskOK == ASSUME NEW s \in Tasks, TaskOK(s), Kept(s) PROVE TaskOK(s)'
BY DEF TaskOK, Kept, Chosen, TokenFor, GoodFor, KeyOf, CacheKey, OriginOf

(* Leaving the call, and reaching its next await.                          *)
LEMMA FinishEffect ==
    ASSUME Shape, NEW t \in Tasks, NEW kind, NEW token, Finish(t, kind, token)
    PROVE  /\ DOMAIN pc' = Tasks /\ DOMAIN result' = Tasks
           /\ DOMAIN response' = Tasks /\ DOMAIN sent_at' = Tasks
           /\ pc'[t] = "done" /\ result'[t] = [kind |-> kind, token |-> token]
           /\ response'[t] = None
           /\ \A s \in Tasks \ {t} : UNCHANGED <<pc[s], result[s], response[s], sent_at[s]>>
BY DEF Shape, Finish

LEMMA AwaitEffect ==
    ASSUME Shape, NEW t \in Tasks, NEW where, Await(t, where)
    PROVE  /\ DOMAIN pc' = Tasks /\ DOMAIN result' = Tasks
           /\ DOMAIN response' = Tasks /\ DOMAIN sent_at' = Tasks
           /\ pc'[t] = where /\ result'[t] = result[t] /\ response'[t] = None
           /\ where = "await_xml" => sent_at'[t] = now
           /\ \A s \in Tasks \ {t} : UNCHANGED <<pc[s], result[s], response[s], sent_at[s]>>
BY DEF Shape, Await

(* Dropping an entry, and using one.                                       *)
LEMMA DropExpiredInv ==
    ASSUME Shape, TokensInv, NEW k, DropExpired(k)
    PROVE  TokensInv' /\ DOMAIN token_cache' \subseteq DOMAIN token_cache
BY DEF TokensInv, DropExpired, WithoutKey, GoodFor, Covers

LEMMA UseCachedEffect ==
    ASSUME TaskInv, NEW t \in Tasks, NEW k, UseCached(t, k)
    PROVE  /\ k \in Keys /\ GoodFor(k, result'[t].token) /\ pc'[t] = "done"
           /\ result'[t] = [kind |-> "ok", token |-> result'[t].token]
<1>1. /\ k \in DOMAIN token_cache /\ GoodFor(k, token_cache[k].token)
      /\ pc'[t] = "done" /\ result'[t] = [kind |-> "ok", token |-> token_cache[k].token]
  BY FinishEffect DEF TaskInv, TokensInv, UseCached, Usable
<1>2. result'[t].token = token_cache[k].token
  BY <1>1
<1>3. QED BY <1>1, <1>2 DEF TaskInv, Shape
(* The call from its license.xml to its next await.                        *)
GoOnKeeps(t) ==
    /\ DOMAIN pc' = Tasks /\ DOMAIN response' = Tasks /\ DOMAIN endpoint' = Tasks
    /\ DOMAIN result' = Tasks /\ DOMAIN sent_at' = Tasks /\ DOMAIN read' = Tasks
    /\ \A s \in Tasks \ {t} :
          UNCHANGED <<pc[s], response[s], endpoint[s], result[s], sent_at[s], read[s]>>
    /\ TokensInv' /\ DOMAIN token_cache' \subseteq DOMAIN token_cache

LEMMA GetTokenEffect ==
    ASSUME TaskInv, NEW t \in Tasks, result[t] = None, NEW r \in Requests, call'[t] = r,
           NEW d \in Documents, read' = [read EXCEPT ![t] = d],
           GetToken(t, r.client_id, EndpointOf[r][d])
    PROVE  GoOnKeeps(t) /\ TaskOK(t)'
<1> DEFINE k == CacheKey(r.client_id, EndpointOf[r][d])
<1> USE DEF TaskInv
<1>1. /\ DOMAIN endpoint' = Tasks /\ endpoint'[t] = EndpointOf[r][d]
      /\ DOMAIN read' = Tasks
      /\ \A s \in Tasks \ {t} : UNCHANGED <<endpoint[s], read[s]>>
  BY DEF Shape, GetToken
<1>2. Chosen(t)' /\ KeyOf(t)' = k
  BY <1>1 DEF Chosen, KeyOf
<1>3. CASE UseCached(t, k)
  <2>1. Finish(t, "ok", token_cache[k].token) /\ UNCHANGED token_cache
    BY <1>3 DEF UseCached
  <2>2. TokensInv'
    BY <2>1 DEF TokensInv, GoodFor, Covers
  <2>3. TaskOK(t)'
    <3>1. /\ GoodFor(k, result'[t].token) /\ pc'[t] = "done"
          /\ result'[t] = [kind |-> "ok", token |-> result'[t].token]
      BY <1>3, UseCachedEffect
    <3>2. QED BY <1>2, <3>1 DEF TaskOK, GoodFor, Covers
  <2>4. /\ DOMAIN pc' = Tasks /\ DOMAIN result' = Tasks
        /\ DOMAIN response' = Tasks /\ DOMAIN sent_at' = Tasks
        /\ \A s \in Tasks \ {t} : UNCHANGED <<pc[s], result[s], response[s], sent_at[s]>>
    BY <2>1, FinishEffect
  <2>5. QED BY <1>1, <2>1, <2>2, <2>3, <2>4 DEF GoOnKeeps
<1>4. CASE DropExpired(k) /\ (Await(t, "await_token") \/ Await(t, "wait_lock"))
  <2>1. PICK where \in {"await_token", "wait_lock"} : Await(t, where)
    BY <1>4
  <2>2. TokensInv' /\ DOMAIN token_cache' \subseteq DOMAIN token_cache
    BY <1>4, DropExpiredInv
  <2>3. TaskOK(t)'
    BY <1>2, <2>1, AwaitEffect DEF TaskOK
  <2>4. QED BY <1>1, <2>1, <2>2, <2>3, AwaitEffect DEF GoOnKeeps
<1>5. QED BY <1>3, <1>4 DEF GetToken

LEMMA GoOnEffect ==
    ASSUME TaskInv, NEW t \in Tasks, result[t] = None, NEW r \in Requests, call'[t] = r,
           NEW d \in Documents, GoOn(t, r, d)
    PROVE  GoOnKeeps(t) /\ TaskOK(t)'
<1>1. CASE GetToken(t, r.client_id, EndpointOf[r][d])
  BY <1>1, GetTokenEffect DEF GoOn
<1>2. ASSUME NEW kind \in Results \ {"ok"}, Finish(t, kind, None),
             UNCHANGED <<token_cache, lock, endpoint>>
      PROVE  GoOnKeeps(t) /\ TaskOK(t)'
  <2>1. TokensInv'
    BY <1>2 DEF TaskInv, TokensInv, GoodFor, Covers
  <2>2. TaskOK(t)'
    <3>1. pc'[t] = "done" /\ result'[t] = [kind |-> kind, token |-> None]
      BY <1>2, FinishEffect DEF TaskInv
    <3>2. \E x \in Results \ {"ok"} : result'[t] = [kind |-> x, token |-> None]
      BY <3>1
    <3>3. QED BY <3>1, <3>2, Zenon DEF TaskOK
  <2>3. read' = [read EXCEPT ![t] = d] /\ Shape
    BY DEF GoOn, TaskInv
  <2>4. QED BY <1>2, <2>1, <2>2, <2>3, FinishEffect DEF GoOnKeeps, Shape
<1>3. "error" \in Results \ {"ok"} /\ "not_needed" \in Results \ {"ok"}
  BY DEF Results
<1>4. QED BY <1>1, <1>2, <1>3 DEF GoOn
-----------------------------------------------------------------------------
(* Each action of a task leaves the others where they were, and TaskInv.   *)
Moved(t) == Shape' /\ XmlInv' /\ TokensInv' /\ TaskOK(t)' /\ \A s \in Tasks \ {t} : Kept(s)

LEMMA MovedInv == ASSUME TaskInv, NEW t \in Tasks, Moved(t) PROVE TaskInv'
BY KeptTaskOK DEF TaskInv, Moved

LEMMA UnchangedCaches ==
    /\ XmlInv /\ UNCHANGED <<now, xml_cache>> => XmlInv'
    /\ TokensInv /\ UNCHANGED token_cache => TokensInv'
BY DEF XmlInv, TokensInv, GoodFor, Covers

LEMMA BeginMoved ==
    ASSUME TaskInv, NEW t \in Tasks, NEW r \in Requests, Begin(t, r)
    PROVE  Moved(t)
<1> DEFINE h == Origin(r.resource)
<1>1. /\ result[t] = None /\ pc[t] = "idle" /\ call'[t] = r /\ DOMAIN call' = Tasks
      /\ \A s \in Tasks \ {t} : UNCHANGED call[s]
  <2>1. TaskOK(t) /\ Shape /\ pc[t] = "idle" /\ call' = [call EXCEPT ![t] = r]
    BY DEF TaskInv, Begin
  <2>2. QED BY <2>1 DEF TaskOK, Shape
<1>2. /\ HasOrigin(r.resource) => h \in Origins
      /\ UNCHANGED <<now, live, replaced, issued>>
  BY DEF Begin, site, Origins
<1>3. CASE HasOrigin(r.resource) /\ FreshEntry(xml_cache[h]) /\ GoOn(t, r, xml_cache[h].xml) /\ UNCHANGED xml_cache
  <2>1. xml_cache[h].xml \in Documents
    BY <1>2, <1>3 DEF TaskInv, XmlInv, FreshEntry
  <2>2. GoOnKeeps(t) /\ TaskOK(t)'
    BY <1>1, <1>3, <2>1, GoOnEffect
  <2>3. XmlInv'
    BY <1>2, <1>3, UnchangedCaches DEF TaskInv
  <2>4. Shape'
    BY <1>1, <1>2, <1>3, <2>2 DEF TaskInv, Shape, GoOnKeeps
  <2>5. QED BY <1>1, <2>2, <2>3, <2>4 DEF Moved, Kept, GoOnKeeps
<1>4. CASE /\ HasOrigin(r.resource)
           /\ xml_cache' = [xml_cache EXCEPT ![h] = None]
           /\ Await(t, "await_xml")
           /\ UNCHANGED <<token_cache, lock, endpoint, read>>
  <2>1. /\ DOMAIN pc' = Tasks /\ DOMAIN result' = Tasks
        /\ DOMAIN response' = Tasks /\ DOMAIN sent_at' = Tasks
        /\ pc'[t] = "await_xml" /\ result'[t] = None /\ response'[t] = None
        /\ \A s \in Tasks \ {t} : UNCHANGED <<pc[s], result[s], response[s], sent_at[s]>>
    BY <1>1, <1>4, AwaitEffect DEF TaskInv
  <2>2. TaskOK(t)'
    BY <1>1, <1>2, <1>4, <2>1 DEF TaskOK, OriginOf
  <2>3. XmlInv' /\ DOMAIN xml_cache' = Origins
    BY <1>2, <1>4 DEF TaskInv, Shape, XmlInv
  <2>4. TokensInv'
    BY <1>4, UnchangedCaches DEF TaskInv
  <2>5. Shape'
    BY <1>1, <1>2, <1>4, <2>1, <2>3 DEF TaskInv, Shape
  <2>6. QED BY <1>1, <1>4, <2>1, <2>2, <2>3, <2>4, <2>5 DEF Moved, Kept
<1>5. CASE Finish(t, "error", None) /\ UNCHANGED <<caches, lock, endpoint, read>>
  <2>1. /\ DOMAIN pc' = Tasks /\ DOMAIN result' = Tasks
        /\ DOMAIN response' = Tasks /\ DOMAIN sent_at' = Tasks
        /\ pc'[t] = "done" /\ result'[t] = [kind |-> "error", token |-> None]
        /\ \A s \in Tasks \ {t} : UNCHANGED <<pc[s], result[s], response[s], sent_at[s]>>
    BY <1>5, FinishEffect DEF TaskInv
  <2>2. "error" \in Results \ {"ok"}
    BY DEF Results
  <2>3. TaskOK(t)'
    BY <1>1, <2>1, <2>2 DEF TaskOK
  <2>4. XmlInv' /\ TokensInv'
    BY <1>2, <1>5, UnchangedCaches DEF TaskInv, caches
  <2>5. Shape'
    BY <1>1, <1>2, <1>5, <2>1 DEF TaskInv, Shape, caches
  <2>6. QED BY <1>1, <1>5, <2>1, <2>3, <2>4, <2>5 DEF Moved, Kept
<1>6. QED BY <1>3, <1>4, <1>5 DEF Begin

LEMMA AnswerMoved == ASSUME TaskInv, NEW t \in Tasks, Answer(t) PROVE Moved(t)
<1>1. /\ response[t] = None
      /\ UNCHANGED <<now, live, replaced, xml_cache, token_cache, pc, call, endpoint, result,
                     sent_at, read, issued>>
  BY DEF Answer, site, caches
<1>2. /\ Shape /\ XmlInv /\ TokensInv /\ TaskOK(t)
  BY DEF TaskInv
<1>3. /\ DOMAIN response' = Tasks
      /\ \A s \in Tasks \ {t} : UNCHANGED response[s]
  BY <1>2 DEF Answer, Shape
<1>4. XmlInv' /\ TokensInv' /\ Shape'
  BY <1>1, <1>2, <1>3, UnchangedCaches DEF Shape
<1>5. TaskOK(t)'
  <2>1. CASE pc[t] = "await_xml" /\ response' = [response EXCEPT ![t] = live[OriginOf(t)]]
    <3>1. call[t] \in Requests /\ result[t] = None /\ OriginOf(t) \in Origins
      BY <1>2, <2>1 DEF TaskOK
    <3>2. response'[t] \in Documents
      BY <1>2, <2>1, <3>1 DEF Shape
    <3>3. QED BY <1>1, <2>1, <3>1, <3>2 DEF TaskOK, OriginOf
  <2>2. ASSUME pc[t] = "await_token", NEW exp \in {now + n : n \in Lifetimes} \cup {None},
               response' = [response EXCEPT ![t] = TokenFor(t, exp)]
        PROVE  TaskOK(t)'
    <3>1. call[t] \in Requests /\ result[t] = None /\ Chosen(t)
      BY <1>2, <2>2 DEF TaskOK
    <3>2. exp \in Nat \cup {None}
      BY <1>2, TimesAssumption DEF Shape
    <3>3. response'[t] = TokenFor(t, exp)
      BY <1>2, <2>2 DEF Shape
    <3>4. response'[t].exp = exp
      BY <3>3 DEF TokenFor
    <3>5. (response[t] = TokenFor(t, response[t].exp))'
      BY <1>1, <3>3, <3>4 DEF TokenFor
    <3>6. /\ pc'[t] = "await_token" /\ call'[t] \in Requests /\ result'[t] = None
          /\ Chosen(t)' /\ response'[t].exp \in Nat \cup {None}
      BY <1>1, <2>2, <3>1, <3>2, <3>4 DEF Chosen
    <3>7. QED BY <3>5, <3>6 DEF TaskOK
  <2>3. QED BY <2>1, <2>2 DEF Answer
<1>6. QED BY <1>1, <1>3, <1>4, <1>5 DEF Moved, Kept

LEMMA XmlArrivesMoved == ASSUME TaskInv, NEW t \in Tasks, XmlArrives(t) PROVE Moved(t)
<1>1. /\ pc[t] = "await_xml" /\ response[t] # None /\ GoOn(t, call[t], response[t])
      /\ UNCHANGED <<now, live, replaced, call, issued>>
  BY DEF XmlArrives, site
<1>2. /\ call[t] \in Requests /\ result[t] = None /\ response[t] \in Documents
  <2>1. TaskOK(t)
    BY DEF TaskInv
  <2>2. QED BY <1>1, <2>1 DEF TaskOK
<1>3. GoOnKeeps(t) /\ TaskOK(t)'
  BY <1>1, <1>2, GoOnEffect
<1>4. /\ DOMAIN xml_cache' = Origins
      /\ \A h \in Origins : \/ xml_cache'[h] = [xml |-> response[t], fetched_at |-> now]
                          \/ xml_cache'[h] = xml_cache[h]
                          \/ xml_cache'[h] = None
  BY DEF XmlArrives, EvictExpired
<1>5. XmlInv'
  <2>1. XmlInv /\ now \in 0 .. now
    BY DEF TaskInv, Shape
  <2>2. QED BY <1>1, <1>2, <1>4, <2>1 DEF XmlInv
<1>6. Shape'
  BY <1>1, <1>3, <1>4 DEF TaskInv, Shape, GoOnKeeps
<1>7. QED BY <1>1, <1>3, <1>5, <1>6 DEF Moved, Kept, GoOnKeeps
LEMMA LockWakeMoved == ASSUME TaskInv, NEW t \in Tasks, LockWake(t) PROVE Moved(t)
<1>1. /\ pc[t] = "wait_lock"
      /\ UNCHANGED <<now, live, replaced, xml_cache, call, endpoint, read, issued>>
      /\ Shape /\ XmlInv /\ TokensInv /\ TaskOK(t)
  BY DEF LockWake, site, TaskInv
<1>2. call[t] \in Requests /\ result[t] = None /\ Chosen(t)
  BY <1>1 DEF TaskOK
<1>3. XmlInv' /\ Chosen(t)' /\ KeyOf(t)' = KeyOf(t)
  BY <1>1, <1>2, UnchangedCaches DEF Chosen, KeyOf
<1>4. CASE UseCached(t, KeyOf(t))
  <2>1. Finish(t, "ok", token_cache[KeyOf(t)].token) /\ UNCHANGED token_cache
    BY <1>4 DEF UseCached
  <2>2. /\ DOMAIN pc' = Tasks /\ DOMAIN result' = Tasks
        /\ DOMAIN response' = Tasks /\ DOMAIN sent_at' = Tasks
        /\ \A s \in Tasks \ {t} : UNCHANGED <<pc[s], result[s], response[s], sent_at[s]>>
    BY <1>1, <2>1, FinishEffect
  <2>3. TokensInv' /\ Shape'
    BY <1>1, <2>1, <2>2, UnchangedCaches DEF Shape
  <2>4. /\ GoodFor(KeyOf(t), result'[t].token) /\ pc'[t] = "done"
        /\ result'[t] = [kind |-> "ok", token |-> result'[t].token]
    BY <1>4, UseCachedEffect
  <2>5. TaskOK(t)'
    BY <1>1, <1>2, <1>3, <2>4 DEF TaskOK, GoodFor, Covers
  <2>6. QED BY <1>1, <1>3, <2>2, <2>3, <2>5 DEF Moved, Kept
<1>5. CASE DropExpired(KeyOf(t)) /\ Await(t, "await_token")
  <2>1. /\ DOMAIN pc' = Tasks /\ DOMAIN result' = Tasks
        /\ DOMAIN response' = Tasks /\ DOMAIN sent_at' = Tasks
        /\ pc'[t] = "await_token" /\ result'[t] = None /\ response'[t] = None
        /\ \A s \in Tasks \ {t} : UNCHANGED <<pc[s], result[s], response[s], sent_at[s]>>
    BY <1>1, <1>2, <1>5, AwaitEffect
  <2>2. TokensInv' /\ DOMAIN token_cache' \subseteq DOMAIN token_cache
    BY <1>1, <1>5, DropExpiredInv
  <2>3. Shape'
    BY <1>1, <2>1, <2>2 DEF Shape
  <2>4. TaskOK(t)'
    BY <1>1, <1>2, <1>3, <2>1 DEF TaskOK
  <2>5. QED BY <1>1, <1>3, <2>1, <2>2, <2>3, <2>4 DEF Moved, Kept
<1>6. QED BY <1>4, <1>5 DEF LockWake, LookAgain

LEMMA TokenArrivesFacts ==
    ASSUME TaskInv, NEW t \in Tasks, TokenArrives(t)
    PROVE  /\ call[t] \in Requests /\ Chosen(t) /\ response[t].exp \in Nat \cup {None}
           /\ KeyOf(t) \in Keys /\ GoodFor(KeyOf(t), response[t])
<1>1. pc[t] = "await_token" /\ response[t] # None /\ TaskOK(t)
  BY DEF TokenArrives, TaskInv
<1>2. /\ call[t] \in Requests /\ Chosen(t) /\ response[t].exp \in Nat \cup {None}
      /\ response[t] = TokenFor(t, response[t].exp)
  BY <1>1 DEF TaskOK
<1>3. KeyOf(t) \in Keys /\ GoodFor(KeyOf(t), TokenFor(t, response[t].exp))
  BY <1>2, TokenForFacts
<1>4. QED BY <1>2, <1>3

LEMMA TokenArrivesMoved == ASSUME TaskInv, NEW t \in Tasks, TokenArrives(t) PROVE Moved(t)
<1> DEFINE k == KeyOf(t)
<1>1. /\ UNCHANGED <<now, live, replaced, xml_cache, call, endpoint, read>>
      /\ Finish(t, "ok", response[t])
      /\ Shape /\ XmlInv /\ TokensInv
  BY DEF TokenArrives, site, TaskInv
<1>2. /\ call[t] \in Requests /\ Chosen(t) /\ response[t].exp \in Nat \cup {None}
      /\ k \in Keys /\ GoodFor(k, response[t])
  BY TokenArrivesFacts
<1>3. XmlInv' /\ Chosen(t)' /\ KeyOf(t)' = k
  BY <1>1, <1>2, UnchangedCaches DEF Chosen, KeyOf
<1>4. /\ DOMAIN pc' = Tasks /\ DOMAIN result' = Tasks
      /\ DOMAIN response' = Tasks /\ DOMAIN sent_at' = Tasks
      /\ pc'[t] = "done" /\ result'[t] = [kind |-> "ok", token |-> response[t]]
      /\ \A s \in Tasks \ {t} : UNCHANGED <<pc[s], result[s], response[s], sent_at[s]>>
  BY <1>1, FinishEffect
<1>5. TokensInv' /\ DOMAIN token_cache' \subseteq Keys /\ DOMAIN issued' = Keys
  <2>1. CASE UNCHANGED <<token_cache, issued>>
    BY <1>1, <2>1, UnchangedCaches DEF Shape
  <2>2. CASE /\ response[t].exp # None
             /\ token_cache' = [j \in DOMAIN token_cache \cup {k} |->
                   IF j = k THEN [token |-> response[t], exp |-> response[t].exp]
                   ELSE token_cache[j]]
             /\ issued' = [issued EXCEPT ![k] = response[t].exp]
    <3>1. DOMAIN token_cache' = DOMAIN token_cache \cup {k} /\ DOMAIN issued' = Keys
      BY <1>1, <2>2 DEF Shape
    <3>2. /\ token_cache'[k] = [token |-> response[t], exp |-> response[t].exp]
          /\ \A j \in DOMAIN token_cache \ {k} : token_cache'[j] = token_cache[j]
      BY <2>2
    <3>3. token_cache'[k].exp \in Nat /\ token_cache'[k].token = response[t]
      BY <1>2, <2>2, <3>2
    <3>4. ASSUME NEW j \in DOMAIN token_cache'
          PROVE  token_cache'[j].exp \in Nat /\ GoodFor(j, token_cache'[j].token)
      BY <1>1, <1>2, <3>1, <3>2, <3>3 DEF TokensInv
    <3>5. TokensInv'
      BY <3>4 DEF TokensInv, GoodFor, Covers
    <3>6. QED BY <1>1, <1>2, <3>1, <3>5 DEF Shape
  <2>3. QED BY <2>1, <2>2 DEF TokenArrives
<1>6. TaskOK(t)'
  <2>1. result'[t].token = response[t]
    BY <1>4
  <2>2. (result[t] = [kind |-> "ok", token |-> result[t].token])'
    BY <1>4, <2>1
  <2>3. GoodFor(KeyOf(t), result[t].token)'
    BY <1>2, <1>3, <2>1 DEF GoodFor, Covers
  <2>4. QED BY <1>1, <1>2, <1>3, <1>4, <2>2, <2>3 DEF TaskOK
<1>7. Shape'
  BY <1>1, <1>4, <1>5 DEF Shape
<1>8. QED BY <1>1, <1>3, <1>4, <1>5, <1>6, <1>7 DEF Moved, Kept

LEMMA FailMoved ==
    ASSUME TaskInv, NEW t \in Tasks, RequestFails(t) \/ Cancel(t)
    PROVE  Moved(t) /\ pc[t] \in {"await_xml", "wait_lock", "await_token"} /\ pc'[t] = "done"
<1>1. /\ pc[t] \in {"await_xml", "wait_lock", "await_token"}
      /\ UNCHANGED <<now, live, replaced, xml_cache, token_cache, call, endpoint, read, issued>>
      /\ Shape /\ XmlInv /\ TokensInv /\ TaskOK(t)
  BY DEF RequestFails, Cancel, site, caches, TaskInv
<1>2. PICK kind \in {"error", "cancelled"} : Finish(t, kind, None)
  BY DEF RequestFails, Cancel
<1>3. call[t] \in Requests
  BY <1>1 DEF TaskOK
<1>4. /\ DOMAIN pc' = Tasks /\ DOMAIN result' = Tasks
      /\ DOMAIN response' = Tasks /\ DOMAIN sent_at' = Tasks
      /\ pc'[t] = "done" /\ result'[t] = [kind |-> kind, token |-> None]
      /\ \A s \in Tasks \ {t} : UNCHANGED <<pc[s], result[s], response[s], sent_at[s]>>
  BY <1>1, <1>2, FinishEffect
<1>5. TaskOK(t)'
  <2>1. kind \in Results \ {"ok"}
    BY DEF Results
  <2>2. \E x \in Results \ {"ok"} : result'[t] = [kind |-> x, token |-> None]
    BY <1>4, <2>1
  <2>3. call'[t] \in Requests
    BY <1>1, <1>3
  <2>4. QED BY <1>4, <2>2, <2>3, Zenon DEF TaskOK
<1>6. XmlInv' /\ TokensInv' /\ Shape'
  BY <1>1, <1>4, UnchangedCaches DEF Shape
<1>7. QED BY <1>1, <1>4, <1>5, <1>6 DEF Moved, Kept
LEMMA TaskInvInit == Init => TaskInv
<1> SUFFICES ASSUME Init PROVE TaskInv
  OBVIOUS
<1>1. Shape
  BY TimesAssumption DEF Init, Shape
<1>2. XmlInv /\ TokensInv
  BY DEF Init, XmlInv, TokensInv
<1>3. \A t \in Tasks : TaskOK(t)
  BY DEF Init, TaskOK
<1>4. QED BY <1>1, <1>2, <1>3 DEF TaskInv

(* The steps that are no task's: the publisher and the clock.              *)
LEMMA SurroundingsKeep ==
    ASSUME TaskInv, UNCHANGED vars \/ Tick \/ \E h \in Origins, d \in Documents : Publish(h, d)
    PROVE  /\ \A s \in Tasks : Kept(s)
           /\ UNCHANGED <<xml_cache, token_cache, lock, issued>>
           /\ now' \in now .. MaxTime /\ now' \in Nat
<1>1. now \in 0 .. MaxTime /\ MaxTime \in Nat
  BY TimesAssumption DEF TaskInv, Shape
<1>2. now' = now \/ (now' = now + 1 /\ now < MaxTime)
  BY DEF vars, Tick, Publish
<1>3. now' \in now .. MaxTime /\ now' \in Nat
  BY <1>1, <1>2
<1>4. QED BY <1>3 DEF vars, Tick, Publish, caches, Kept

LEMMA SurroundingsInv ==
    ASSUME TaskInv, UNCHANGED vars \/ Tick \/ \E h \in Origins, d \in Documents : Publish(h, d)
    PROVE  TaskInv'
<1>1. /\ \A s \in Tasks : Kept(s)
      /\ UNCHANGED <<xml_cache, token_cache, lock, issued>>
      /\ now' \in now .. MaxTime /\ now' \in Nat
  BY SurroundingsKeep
<1>2. Shape /\ XmlInv /\ TokensInv /\ now \in Nat
  BY DEF TaskInv, Shape
<1>3. \A s \in Tasks : TaskOK(s)'
  BY <1>1, KeptTaskOK DEF TaskInv
<1>4. XmlInv' /\ TokensInv'
  BY <1>1, <1>2, UnchangedCaches DEF XmlInv
<1>5. UNCHANGED <<pc, call, response, endpoint, result, sent_at, read>>
  BY DEF vars, Tick, Publish
<1>6. /\ live' \in [Origins -> Documents] /\ DOMAIN replaced' = Origins
      /\ \A h \in Origins : DOMAIN replaced'[h] = Documents
  <2>1. CASE UNCHANGED <<live, replaced>>
    BY <1>2, <2>1 DEF Shape
  <2>2. ASSUME NEW h \in Origins, NEW d \in Documents, Publish(h, d)
        PROVE  /\ live' \in [Origins -> Documents] /\ DOMAIN replaced' = Origins
               /\ \A x \in Origins : DOMAIN replaced'[x] = Documents
    BY <1>2, <2>2 DEF Shape, Publish
  <2>3. QED BY <2>1, <2>2 DEF vars, Tick, site
<1>7. Shape'
  BY <1>1, <1>2, <1>5, <1>6 DEF Shape
<1>8. QED BY <1>3, <1>4, <1>7 DEF TaskInv

Moves(t) ==
    \/ \E r \in Requests : Begin(t, r)
    \/ Answer(t) \/ XmlArrives(t) \/ LockWake(t) \/ TokenArrives(t)
    \/ RequestFails(t) \/ Cancel(t)

LEMMA MovesMoved == ASSUME TaskInv, NEW t \in Tasks, Moves(t) PROVE Moved(t)
BY BeginMoved, AnswerMoved, XmlArrivesMoved, LockWakeMoved, TokenArrivesMoved, FailMoved
   DEF Moves

LEMMA TaskInvNext == TaskInv /\ [Next]_vars => TaskInv'
<1> SUFFICES ASSUME TaskInv, [Next]_vars PROVE TaskInv'
  OBVIOUS
<1>1. CASE \E t \in Tasks : Moves(t)
  BY <1>1, MovesMoved, MovedInv
<1>2. CASE UNCHANGED vars \/ Tick \/ \E h \in Origins, d \in Documents : Publish(h, d)
  BY <1>2, SurroundingsInv
<1>3. QED BY <1>1, <1>2 DEF Next, Moves

LEMMA TaskInvHolds == Spec => []TaskInv
BY TaskInvInit, TaskInvNext, PTL DEF Spec
-----------------------------------------------------------------------------
(* Queues: appending a task that is not in one, and taking one out.        *)
LEMMA QueueAppend ==
    ASSUME NEW S, NEW q \in Seq(S), NEW e \in S, Distinct(q), ~InQueue(q, e)
    PROVE  /\ Append(q, e) \in Seq(S) /\ Distinct(Append(q, e))
           /\ \A x : InQueue(Append(q, e), x) <=> InQueue(q, x) \/ x = e
           /\ IF q = <<>> THEN Append(q, e)[1] = e ELSE Append(q, e)[1] = q[1]
<1>1. /\ Len(q) \in Nat /\ DOMAIN q = 1 .. Len(q)
      /\ Append(q, e) \in Seq(S) /\ Len(Append(q, e)) = Len(q) + 1
      /\ DOMAIN Append(q, e) = 1 .. Len(q) + 1
      /\ \A n \in 1 .. Len(q) : Append(q, e)[n] = q[n]
      /\ Append(q, e)[Len(q) + 1] = e
  BY AppendProperties, LenProperties
<1>2. DOMAIN Append(q, e) = (DOMAIN q) \cup {Len(q) + 1}
  BY <1>1
<1>3. IF q = <<>> THEN Append(q, e)[1] = e ELSE Append(q, e)[1] = q[1]
  <2>1. CASE q = <<>>
    BY <1>1, <2>1
  <2>2. CASE q # <<>>
    <3>1. 1 \in 1 .. Len(q)
      BY <1>1, <2>2, EmptySeq
    <3>2. QED BY <1>1, <2>2, <3>1
  <2>3. QED BY <2>1, <2>2
<1>4. QED BY <1>1, <1>2, <1>3 DEF Distinct, InQueue

LEMMA QueueWithout ==
    ASSUME NEW S, NEW q \in Seq(S), Distinct(q), NEW i \in DOMAIN q
    PROVE  LET r == SubSeq(q, 1, i - 1) \o SubSeq(q, i + 1, Len(q)) IN
           /\ r \in Seq(S) /\ Distinct(r)
           /\ \A x : InQueue(r, x) <=> InQueue(q, x) /\ x # q[i]
           /\ i # 1 => r[1] = q[1]
<1> DEFINE a == SubSeq(q, 1, i - 1)
           b == SubSeq(q, i + 1, Len(q))
           r == a \o b
<1>1. Len(q) \in Nat /\ DOMAIN q = 1 .. Len(q) /\ i \in 1 .. Len(q)
  BY LenProperties
<1>2. \A j \in 1 .. Len(q) : q[j] \in S
  BY ElementOfSeq
<1>3. /\ a \in Seq(S) /\ Len(a) = i - 1 /\ \A n \in 1 .. i - 1 : a[n] = q[n]
  BY <1>1, <1>2, SubSeqProperties
<1>4. /\ b \in Seq(S) /\ Len(b) = Len(q) - i
      /\ \A n \in 1 .. Len(q) - i : b[n] = q[i + n]
  BY <1>1, <1>2, SubSeqProperties
<1> HIDE DEF a, b
<1>5. /\ r \in Seq(S) /\ Len(r) = Len(a) + Len(b)
      /\ \A n \in 1 .. Len(a) + Len(b) : r[n] = IF n <= Len(a) THEN a[n] ELSE b[n - Len(a)]
  BY <1>3, <1>4, ConcatProperties
<1> HIDE DEF r
<1>6. DOMAIN r = 1 .. Len(q) - 1
  BY <1>1, <1>3, <1>4, <1>5, LenProperties
<1>7. \A n \in 1 .. Len(q) - 1 : r[n] = IF n < i THEN q[n] ELSE q[n + 1]
  <2> SUFFICES ASSUME NEW n \in 1 .. Len(q) - 1
               PROVE  r[n] = IF n < i THEN q[n] ELSE q[n + 1]
    OBVIOUS
  <2>1. CASE n < i
    BY <1>1, <1>3, <1>4, <1>5, <2>1
  <2>2. CASE ~(n < i)
    <3>1. n - (i - 1) \in 1 .. Len(q) - i /\ i + (n - (i - 1)) = n + 1
      BY <1>1, <2>2
    <3>2. r[n] = b[n - (i - 1)]
      BY <1>1, <1>3, <1>4, <1>5, <2>2
    <3>3. QED BY <1>4, <2>2, <3>1, <3>2
  <2>3. QED BY <2>1, <2>2
<1>8. Distinct(r)
  <2> SUFFICES ASSUME NEW m \in 1 .. Len(q) - 1, NEW n \in 1 .. Len(q) - 1, r[m] = r[n]
               PROVE  m = n
    BY <1>6 DEF Distinct
  <2> DEFINE From(j) == IF j < i THEN j ELSE j + 1
  <2>1. /\ From(m) \in DOMAIN q /\ From(n) \in DOMAIN q
        /\ r[m] = q[From(m)] /\ r[n] = q[From(n)]
    BY <1>1, <1>7
  <2>2. From(m) = From(n)
    BY <2>1 DEF Distinct
  <2>3. QED BY <1>1, <2>2
<1>9. ASSUME NEW x PROVE InQueue(r, x) <=> InQueue(q, x) /\ x # q[i]
  <2>1. ASSUME InQueue(r, x) PROVE InQueue(q, x) /\ x # q[i]
    BY <1>1, <1>6, <1>7, <2>1 DEF Distinct, InQueue
  <2>2. ASSUME NEW j \in 1 .. Len(q), q[j] = x, x # q[i] PROVE InQueue(r, x)
    <3>1. CASE j < i
      BY <1>1, <1>6, <1>7, <2>2, <3>1 DEF InQueue
    <3>2. CASE j > i
      <4>1. j - 1 \in 1 .. Len(q) - 1 /\ r[j - 1] = q[j]
        BY <1>1, <1>7, <2>2, <3>2
      <4>2. QED BY <1>6, <2>2, <4>1 DEF InQueue
    <3>3. QED BY <1>1, <2>2, <3>1, <3>2
  <2>3. QED BY <1>1, <2>1, <2>2 DEF InQueue
<1>10. i # 1 => r[1] = q[1]
  BY <1>1, <1>7
<1>11. QED BY <1>5, <1>8, <1>9, <1>10 DEF r, a, b
-----------------------------------------------------------------------------
(* A step of t leaves the queues alone, or t joins one, or it leaves it.   *)
LEMMA LockOfQueued ==
    ASSUME TaskInv, NEW t \in Tasks, Queued(t)
    PROVE  LockOf(t) \in Loops \X Keys
<1>1. call[t] \in Requests /\ Chosen(t)
  BY DEF TaskInv, TaskOK, Queued
<1>2. KeyOf(t) \in Keys
  BY <1>1, EndpointFacts DEF Chosen, KeyOf
<1>3. QED BY <1>2 DEF LockOf, Loops

LEMMA KeptQueue ==
    ASSUME NEW s \in Tasks, Kept(s)
    PROVE  (Queued(s)' <=> Queued(s)) /\ LockOf(s)' = LockOf(s) /\ pc'[s] = pc[s]
BY DEF Kept, Queued, LockOf, KeyOf

LEMMA Stays ==
    ASSUME LockInv, NEW t \in Tasks, \A s \in Tasks \ {t} : Kept(s), UNCHANGED lock,
           Queued(t)' <=> Queued(t), Queued(t) => LockOf(t)' = LockOf(t),
           pc'[t] = "await_token" => Queued(t) /\ NextInLine(t)
    PROVE  LockInv'
<1>1. ASSUME NEW x \in Loops \X Keys, NEW s \in Tasks
      PROVE  InQueue(lock[x], s)' <=> Queued(s)' /\ x = LockOf(s)'
  <2>1. InQueue(lock[x], s) <=> Queued(s) /\ x = LockOf(s)
    BY DEF LockInv
  <2>2. InQueue(lock[x], s)' <=> InQueue(lock[x], s)
    BY DEF InQueue
  <2>3. QED BY <2>1, <2>2, KeptQueue
<1>2. ASSUME NEW s \in Tasks, pc'[s] = "await_token" PROVE NextInLine(s)'
  <2>1. NextInLine(s) /\ LockOf(s)' = LockOf(s)
    BY <1>2, KeptQueue DEF LockInv
  <2>2. QED BY <2>1 DEF NextInLine, LockOf
<1>3. QED BY <1>1, <1>2 DEF LockInv, Distinct

LEMMA Joins ==
    ASSUME LockInv, NEW t \in Tasks, \A s \in Tasks \ {t} : Kept(s),
           NEW y \in Loops \X Keys, lock' = [lock EXCEPT ![y] = Append(@, t)],
           ~Queued(t), Queued(t)', LockOf(t)' = y,
           pc'[t] = "await_token" => lock[y] = <<>>
    PROVE  LockInv'
<1>1. /\ lock \in [Loops \X Keys -> Seq(Tasks)] /\ lock[y] \in Seq(Tasks)
      /\ lock'[y] = Append(lock[y], t)
      /\ \A x \in (Loops \X Keys) \ {y} : lock'[x] = lock[x]
  BY DEF LockInv
<1>2. Distinct(lock[y]) /\ ~InQueue(lock[y], t)
  BY DEF LockInv
<1>3. /\ lock'[y] \in Seq(Tasks) /\ Distinct(lock'[y])
      /\ \A s : InQueue(lock'[y], s) <=> InQueue(lock[y], s) \/ s = t
      /\ IF lock[y] = <<>> THEN lock'[y][1] = t ELSE lock'[y][1] = lock[y][1]
  BY <1>1, <1>2, QueueAppend
<1>4. lock' \in [Loops \X Keys -> Seq(Tasks)]
  BY <1>1, <1>3
<1>5. ASSUME NEW x \in Loops \X Keys
      PROVE  Distinct(lock'[x])
  BY <1>1, <1>3, <1>5 DEF LockInv
<1>6. ASSUME NEW x \in Loops \X Keys, NEW s \in Tasks
      PROVE  InQueue(lock'[x], s) <=> Queued(s)' /\ x = LockOf(s)'
  <2>1. InQueue(lock[x], s) <=> Queued(s) /\ x = LockOf(s)
    BY DEF LockInv
  <2>2. CASE x = y
    BY <1>3, <2>1, <2>2, KeptQueue
  <2>3. CASE x # y
    BY <1>1, <2>1, <2>3, KeptQueue
  <2>4. QED BY <2>2, <2>3
<1>7. ASSUME NEW s \in Tasks, pc'[s] = "await_token" PROVE lock'[LockOf(s)'][1] = s
  <2>1. CASE s = t
    BY <1>3, <1>7, <2>1
  <2>2. CASE s # t
    <3>1. lock[LockOf(s)][1] = s /\ Queued(s) /\ LockOf(s)' = LockOf(s)
      BY <1>7, <2>2, KeptQueue DEF LockInv, NextInLine, LockOf, Queued
    <3>2. CASE LockOf(s) = y
      <4>1. InQueue(lock[y], s)
        BY <3>1, <3>2 DEF LockInv
      <4>2. lock[y] # <<>>
        BY <1>1, <4>1, EmptySeq, LenProperties DEF InQueue
      <4>3. QED BY <1>3, <3>1, <3>2, <4>2
    <3>3. CASE LockOf(s) # y
      BY <1>1, <3>1, <3>3
    <3>4. QED BY <3>2, <3>3
  <2>3. QED BY <2>1, <2>2
<1>8. QED BY <1>4, <1>5, <1>6, <1>7 DEF LockInv, NextInLine, LockOf
LEMMA Leaves ==
    ASSUME TaskInv, LockInv, NEW t \in Tasks, \A s \in Tasks \ {t} : Kept(s),
           LeaveLock(t), Queued(t), ~Queued(t)'
    PROVE  LockInv'
<1> DEFINE y == LockOf(t)
<1>1. y \in Loops \X Keys
  BY LockOfQueued
<1>2. PICK i \in DOMAIN lock[y] :
         /\ lock[y][i] = t
         /\ lock' = [lock EXCEPT ![y] = SubSeq(@, 1, i - 1) \o SubSeq(@, i + 1, Len(@))]
  BY DEF LeaveLock, LockOf
<1> HIDE DEF y
<1>3. /\ lock \in [Loops \X Keys -> Seq(Tasks)] /\ lock[y] \in Seq(Tasks) /\ Distinct(lock[y])
      /\ lock'[y] = SubSeq(lock[y], 1, i - 1) \o SubSeq(lock[y], i + 1, Len(lock[y]))
      /\ \A x \in (Loops \X Keys) \ {y} : lock'[x] = lock[x]
  BY <1>1, <1>2 DEF LockInv
<1>4. /\ lock'[y] \in Seq(Tasks) /\ Distinct(lock'[y])
      /\ \A s : InQueue(lock'[y], s) <=> InQueue(lock[y], s) /\ s # t
      /\ i # 1 => lock'[y][1] = lock[y][1]
  <2> DEFINE q == lock[y]
             r == SubSeq(q, 1, i - 1) \o SubSeq(q, i + 1, Len(q))
  <2>1. q \in Seq(Tasks) /\ Distinct(q) /\ i \in DOMAIN q /\ q[i] = t /\ lock'[y] = r
    BY <1>2, <1>3
  <2> HIDE DEF q
  <2>2. /\ r \in Seq(Tasks) /\ Distinct(r)
        /\ \A x : InQueue(r, x) <=> InQueue(q, x) /\ x # q[i]
        /\ i # 1 => r[1] = q[1]
    BY <2>1, QueueWithout
  <2> HIDE DEF r
  <2>3. QED BY <2>1, <2>2 DEF q
<1>5. lock' \in [Loops \X Keys -> Seq(Tasks)]
  BY <1>1, <1>2, <1>3, <1>4
<1>6. ASSUME NEW x \in Loops \X Keys PROVE Distinct(lock'[x])
  BY <1>3, <1>4, <1>6 DEF LockInv
<1>7. ASSUME NEW x \in Loops \X Keys, NEW s \in Tasks
      PROVE  InQueue(lock'[x], s) <=> Queued(s)' /\ x = LockOf(s)'
  <2>1. InQueue(lock[x], s) <=> Queued(s) /\ x = LockOf(s)
    BY DEF LockInv
  <2>2. CASE x = y
    BY <1>4, <2>1, <2>2, KeptQueue
  <2>3. CASE x # y
    BY <1>3, <2>1, <2>3, KeptQueue DEF y
  <2>4. QED BY <2>2, <2>3
<1>8. ASSUME NEW s \in Tasks, pc'[s] = "await_token" PROVE lock'[LockOf(s)'][1] = s
  <2>1. s # t
    BY <1>8 DEF Queued
  <2>2. lock[LockOf(s)][1] = s /\ Queued(s) /\ LockOf(s)' = LockOf(s)
    BY <1>8, <2>1, KeptQueue DEF LockInv, NextInLine, LockOf, Queued
  <2>3. CASE LockOf(s) = y
    BY <1>2, <1>4, <2>1, <2>2, <2>3
  <2>4. CASE LockOf(s) # y
    <3>1. LockOf(s) \in Loops \X Keys
      BY <2>2, LockOfQueued
    <3>2. QED BY <1>3, <2>2, <2>4, <3>1
  <2>5. QED BY <2>3, <2>4
<1>9. QED BY <1>5, <1>6, <1>7, <1>8 DEF LockInv, NextInLine, LockOf

(* Asking for the token of an endpoint: the lock is free, or t waits.      *)
LEMMA GetTokenLock ==
    ASSUME TaskInv, LockInv, NEW t \in Tasks, ~Queued(t), \A s \in Tasks \ {t} : Kept(s),
           NEW r \in Requests, call'[t] = r, NEW d \in Documents,
           GetToken(t, r.client_id, EndpointOf[r][d])
    PROVE  LockInv'
<1> DEFINE k == CacheKey(r.client_id, EndpointOf[r][d])
           y == <<LoopOf[t], k>>
<1>1. Shape /\ y \in Loops \X Keys
  BY EndpointFacts DEF TaskInv, Loops
<1>2. CASE UseCached(t, k) /\ UNCHANGED lock
  <2>1. pc'[t] = "done"
    BY <1>1, <1>2, FinishEffect DEF UseCached
  <2>2. ~Queued(t)' /\ pc'[t] # "await_token"
    BY <2>1 DEF Queued
  <2>3. QED BY <1>2, <2>2, Stays
<1>3. CASE /\ lock' = [lock EXCEPT ![y] = Append(@, t)]
           /\ \/ lock[y] = <<>> /\ Await(t, "await_token")
              \/ lock[y] # <<>> /\ Await(t, "wait_lock")
  <2>1. \/ lock[y] = <<>> /\ pc'[t] = "await_token"
        \/ lock[y] # <<>> /\ pc'[t] = "wait_lock"
    BY <1>1, <1>3, AwaitEffect
  <2>2. Queued(t)' /\ (pc'[t] = "await_token" => lock[y] = <<>>)
    BY <2>1 DEF Queued
  <2>3. LockOf(t)' = y
    BY <1>1 DEF GetToken, Shape, LockOf, KeyOf
  <2>4. QED BY <1>1, <1>3, <2>2, <2>3, Joins
<1>4. QED BY <1>2, <1>3 DEF GetToken

LEMMA GoOnLock ==
    ASSUME TaskInv, LockInv, NEW t \in Tasks, ~Queued(t), \A s \in Tasks \ {t} : Kept(s),
           NEW r \in Requests, call'[t] = r, NEW d \in Documents, GoOn(t, r, d)
    PROVE  LockInv'
<1>1. CASE GetToken(t, r.client_id, EndpointOf[r][d])
  BY <1>1, GetTokenLock
<1>2. ASSUME NEW kind, Finish(t, kind, None), UNCHANGED lock
      PROVE  LockInv'
  <2>1. pc'[t] = "done"
    BY <1>2, FinishEffect DEF TaskInv
  <2>2. ~Queued(t)' /\ pc'[t] # "await_token"
    BY <2>1 DEF Queued
  <2>3. QED BY <1>2, <2>2, Stays
<1>3. QED BY <1>1, <1>2 DEF GoOn

LEMMA LockInvMoves ==
    ASSUME TaskInv, LockInv, NEW t \in Tasks, Moves(t)
    PROVE  LockInv'
<1>1. \A s \in Tasks \ {t} : Kept(s)
  BY MovesMoved DEF Moved
<1>2. Shape /\ XmlInv /\ TaskOK(t)
  BY DEF TaskInv
<1>3. ASSUME NEW r \in Requests, Begin(t, r) PROVE LockInv'
  <2>1. ~Queued(t) /\ call'[t] = r
    BY <1>2, <1>3 DEF Begin, Queued, Shape
  <2>2. CASE /\ HasOrigin(r.resource) /\ FreshEntry(xml_cache[Origin(r.resource)])
             /\ GoOn(t, r, xml_cache[Origin(r.resource)].xml)
    <3>1. xml_cache[Origin(r.resource)].xml \in Documents
      BY <1>2, <2>2 DEF XmlInv, FreshEntry, Origins
    <3>2. QED BY <1>1, <2>1, <2>2, <3>1, GoOnLock
  <2>3. CASE Await(t, "await_xml") /\ UNCHANGED lock
    <3>1. pc'[t] = "await_xml"
      BY <1>2, <2>3, AwaitEffect
    <3>2. ~Queued(t)' /\ pc'[t] # "await_token"
      BY <3>1 DEF Queued
    <3>3. QED BY <1>1, <2>1, <2>3, <3>2, Stays
  <2>4. CASE Finish(t, "error", None) /\ UNCHANGED lock
    <3>1. pc'[t] = "done"
      BY <1>2, <2>4, FinishEffect
    <3>2. ~Queued(t)' /\ pc'[t] # "await_token"
      BY <3>1 DEF Queued
    <3>3. QED BY <1>1, <2>1, <2>4, <3>2, Stays
  <2>5. QED BY <1>3, <2>2, <2>3, <2>4 DEF Begin
<1>4. CASE Answer(t)
  <2>1. UNCHANGED <<lock, pc, call, endpoint>>
    BY <1>4 DEF Answer
  <2>2. (Queued(t)' <=> Queued(t)) /\ LockOf(t)' = LockOf(t)
    BY <2>1 DEF Queued, LockOf, KeyOf
  <2>3. pc'[t] = "await_token" => Queued(t) /\ NextInLine(t)
    BY <2>1 DEF LockInv, Queued
  <2>4. QED BY <1>1, <2>1, <2>2, <2>3, Stays
<1>5. CASE XmlArrives(t)
  <2>1. ~Queued(t) /\ GoOn(t, call[t], response[t]) /\ UNCHANGED call
    BY <1>5 DEF XmlArrives, Queued
  <2>2. call[t] \in Requests /\ response[t] \in Documents
    BY <1>2, <1>5 DEF XmlArrives, TaskOK
  <2>3. QED BY <1>1, <2>1, <2>2, GoOnLock
<1>6. CASE LockWake(t)
  <2>1. Queued(t) /\ NextInLine(t) /\ UNCHANGED <<call, endpoint>>
    BY <1>6 DEF LockWake, Queued
  <2>2. CASE UseCached(t, KeyOf(t)) /\ LeaveLock(t)
    <3>1. pc'[t] = "done"
      BY <1>2, <2>2, FinishEffect DEF UseCached
    <3>2. ~Queued(t)'
      BY <3>1 DEF Queued
    <3>3. QED BY <1>1, <2>1, <2>2, <3>2, Leaves
  <2>3. CASE Await(t, "await_token") /\ UNCHANGED lock
    <3>1. pc'[t] = "await_token"
      BY <1>2, <2>3, AwaitEffect
    <3>2. Queued(t)' /\ LockOf(t)' = LockOf(t)
      BY <2>1, <3>1 DEF Queued, LockOf, KeyOf
    <3>3. QED BY <1>1, <2>1, <2>3, <3>2, Stays
  <2>4. QED BY <1>6, <2>2, <2>3 DEF LockWake, LookAgain
<1>7. CASE TokenArrives(t)
  <2>1. Queued(t) /\ LeaveLock(t) /\ Finish(t, "ok", response[t])
    BY <1>7 DEF TokenArrives, Queued
  <2>2. pc'[t] = "done"
    BY <1>2, <2>1, FinishEffect
  <2>3. ~Queued(t)'
    BY <2>2 DEF Queued
  <2>4. QED BY <1>1, <2>1, <2>3, Leaves
<1>8. CASE RequestFails(t) \/ Cancel(t)
  <2>1. pc[t] \in {"await_xml", "wait_lock", "await_token"} /\ pc'[t] = "done"
    BY <1>8, FailMoved
  <2>2. ~Queued(t)' /\ pc'[t] # "await_token"
    BY <2>1 DEF Queued
  <2>3. CASE Queued(t)
    <3>1. LeaveLock(t)
      BY <1>8, <2>3 DEF RequestFails, Cancel, Queued
    <3>2. QED BY <1>1, <2>2, <2>3, <3>1, Leaves
  <2>4. CASE ~Queued(t)
    <3>1. UNCHANGED lock
      BY <1>8, <2>1, <2>4 DEF RequestFails, Cancel, Queued
    <3>2. QED BY <1>1, <2>2, <2>4, <3>1, Stays
  <2>5. QED BY <2>3, <2>4
<1>9. QED BY <1>3, <1>4, <1>5, <1>6, <1>7, <1>8 DEF Moves

LEMMA LockInvInit == Init => LockInv
<1> SUFFICES ASSUME Init PROVE LockInv
  OBVIOUS
<1>1. <<>> \in Seq(Tasks) /\ DOMAIN <<>> = {}
  BY EmptySeq
<1>2. QED BY <1>1 DEF Init, LockInv, Distinct, InQueue, Queued

LEMMA LockInvNext == TaskInv /\ LockInv /\ [Next]_vars => LockInv'
<1> SUFFICES ASSUME TaskInv, LockInv, [Next]_vars PROVE LockInv'
  OBVIOUS
<1>1. CASE \E t \in Tasks : Moves(t)
  BY <1>1, LockInvMoves
<1>2. CASE UNCHANGED vars \/ Tick \/ \E h \in Origins, d \in Documents : Publish(h, d)
  <2>1. UNCHANGED <<lock, pc, call, endpoint>>
    BY <1>2 DEF vars, Tick, Publish
  <2>2. QED BY <2>1 DEF LockInv, Distinct, InQueue, Queued, LockOf, KeyOf, NextInLine
<1>3. QED BY <1>1, <1>2 DEF Next, Moves
-----------------------------------------------------------------------------
(* What a step of t does to the token cache: nothing, dropping an entry    *)
(* that expires within the margin, or storing the answer under its key.    *)
LEMMA CacheMoves ==
    ASSUME NEW t \in Tasks, Moves(t)
    PROVE  /\ UNCHANGED <<now, live, replaced>>
           /\ \/ UNCHANGED <<token_cache, issued>>
              \/ UNCHANGED issued /\ \E k : DropExpired(k)
              \/ TokenArrives(t)
<1>1. ASSUME NEW r, NEW d, GoOn(t, r, d)
      PROVE  UNCHANGED token_cache \/ \E k : DropExpired(k)
  BY <1>1 DEF GoOn, GetToken, UseCached
<1>2. ASSUME NEW r \in Requests, Begin(t, r)
      PROVE  UNCHANGED <<now, live, replaced, issued>>
             /\ (UNCHANGED token_cache \/ \E k : DropExpired(k))
  BY <1>1, <1>2 DEF Begin, site, caches
<1>3. CASE XmlArrives(t)
  BY <1>1, <1>3 DEF XmlArrives, site
<1>4. CASE LockWake(t)
  BY <1>4 DEF LockWake, LookAgain, UseCached, site
<1>5. CASE Answer(t) \/ RequestFails(t) \/ Cancel(t)
  BY <1>5 DEF Answer, RequestFails, Cancel, site, caches
<1>6. CASE TokenArrives(t)
  BY <1>6 DEF TokenArrives, site
<1>7. QED BY <1>2, <1>3, <1>4, <1>5, <1>6 DEF Moves

LEMMA IssuedInvNext == TaskInv /\ IssuedInv /\ [Next]_vars => IssuedInv'
<1> SUFFICES ASSUME TaskInv, IssuedInv, [Next]_vars, NEW k \in Keys
             PROVE  \/ issued'[k] = None
                    \/ k \in DOMAIN token_cache' /\ token_cache'[k].exp = issued'[k]
                    \/ issued'[k] \in Nat /\ issued'[k] <= now' + Margin
  BY DEF IssuedInv
<1>1. \/ issued[k] = None
      \/ k \in DOMAIN token_cache /\ token_cache[k].exp = issued[k]
      \/ issued[k] \in Nat /\ issued[k] <= now + Margin
  BY DEF IssuedInv
<1>2. now \in Nat /\ Margin \in Nat /\ Shape /\ TokensInv
  BY TimesAssumption DEF TaskInv, Shape
<1>3. ASSUME NEW t \in Tasks, Moves(t)
      PROVE  \/ issued'[k] = None
             \/ k \in DOMAIN token_cache' /\ token_cache'[k].exp = issued'[k]
             \/ issued'[k] \in Nat /\ issued'[k] <= now' + Margin
  <2>1. UNCHANGED now
    BY <1>3, CacheMoves
  <2>2. CASE UNCHANGED <<token_cache, issued>>
    BY <1>1, <2>1, <2>2
  <2>3. ASSUME NEW j, UNCHANGED issued, DropExpired(j)
        PROVE  \/ issued'[k] = None
               \/ k \in DOMAIN token_cache' /\ token_cache'[k].exp = issued'[k]
               \/ issued'[k] \in Nat /\ issued'[k] <= now' + Margin
    <3>1. CASE k \in DOMAIN token_cache /\ token_cache[k].exp = issued[k] /\ j # k
      BY <2>3, <3>1 DEF DropExpired, WithoutKey
    <3>2. CASE k \in DOMAIN token_cache /\ token_cache[k].exp = issued[k] /\ j = k
      <4>1. issued[k] \in Nat
        BY <1>2, <3>2 DEF TokensInv
      <4>2. ~(issued[k] > now + Margin)
        BY <2>3, <3>2 DEF DropExpired, Usable
      <4>3. QED BY <1>2, <2>1, <2>3, <4>1, <4>2
    <3>3. QED BY <1>1, <2>1, <2>3, <3>1, <3>2
  <2>4. CASE TokenArrives(t)
    <3>1. CASE UNCHANGED <<token_cache, issued>>
      BY <1>1, <2>1, <3>1
    <3>2. CASE /\ token_cache' = [j \in DOMAIN token_cache \cup {KeyOf(t)} |->
                     IF j = KeyOf(t) THEN [token |-> response[t], exp |-> response[t].exp]
                     ELSE token_cache[j]]
               /\ issued' = [issued EXCEPT ![KeyOf(t)] = response[t].exp]
      <4>1. CASE k = KeyOf(t)
        <5>1. k \in DOMAIN token_cache' /\ issued'[k] = response[t].exp
          BY <1>2, <3>2, <4>1 DEF Shape
        <5>2. token_cache'[k] = [token |-> response[t], exp |-> response[t].exp]
          BY <3>2, <4>1
        <5>3. QED BY <5>1, <5>2
      <4>2. CASE k # KeyOf(t)
        <5>1. issued'[k] = issued[k]
          BY <3>2, <4>2
        <5>2. k \in DOMAIN token_cache =>
                 k \in DOMAIN token_cache' /\ token_cache'[k] = token_cache[k]
          BY <3>2, <4>2
        <5>3. QED BY <1>1, <2>1, <5>1, <5>2
      <4>3. QED BY <4>1, <4>2
    <3>3. QED BY <2>4, <3>1, <3>2 DEF TokenArrives
  <2>5. QED BY <1>3, <2>2, <2>3, <2>4, CacheMoves
<1>4. CASE UNCHANGED vars \/ Tick \/ \E h \in Origins, d \in Documents : Publish(h, d)
  <2>1. UNCHANGED <<token_cache, issued>> /\ now' \in now .. MaxTime /\ now' \in Nat
    BY <1>4, SurroundingsKeep
  <2>2. now <= now'
    BY <1>2, <2>1, TimesAssumption
  <2>3. CASE issued[k] \in Nat /\ issued[k] <= now + Margin
    BY <1>2, <2>1, <2>2, <2>3
  <2>4. QED BY <1>1, <2>1, <2>3
<1>5. QED BY <1>3, <1>4 DEF Next, Moves

(* A task that comes to ask for a token found none it could use.           *)
LEMMA MintFacts ==
    ASSUME TaskInv, NEW t \in Tasks, Moves(t),
           pc[t] # "await_token", pc'[t] = "await_token"
    PROVE  LET k == CacheKey(call'[t].client_id, endpoint'[t])
           IN k \in Keys /\ ~Usable(k)
<1>1. Shape /\ XmlInv /\ TaskOK(t)
  BY DEF TaskInv
<1>2. ASSUME NEW r \in Requests, NEW d \in Documents, call'[t] = r, GoOn(t, r, d)
      PROVE  LET k == CacheKey(call'[t].client_id, endpoint'[t])
             IN k \in Keys /\ ~Usable(k)
  <2>1. \A kind, token : ~Finish(t, kind, token)
    BY <1>1, FinishEffect
  <2>2. DropExpired(CacheKey(r.client_id, EndpointOf[r][d])) /\ endpoint'[t] = EndpointOf[r][d]
    BY <1>1, <1>2, <2>1 DEF GoOn, GetToken, UseCached, Shape
  <2>3. QED BY <1>2, <2>2, EndpointFacts DEF DropExpired
<1>3. ASSUME NEW r \in Requests, Begin(t, r)
      PROVE  LET k == CacheKey(call'[t].client_id, endpoint'[t])
             IN k \in Keys /\ ~Usable(k)
  <2>1. call'[t] = r /\ ~Await(t, "await_xml") /\ ~Finish(t, "error", None)
    <3>1. call'[t] = r
      BY <1>1, <1>3 DEF Begin, Shape
    <3>2. ~Await(t, "await_xml")
      BY <1>1, AwaitEffect
    <3>3. ~Finish(t, "error", None)
      BY <1>1, FinishEffect
    <3>4. QED BY <3>1, <3>2, <3>3
  <2>2. /\ GoOn(t, r, xml_cache[Origin(r.resource)].xml)
        /\ xml_cache[Origin(r.resource)].xml \in Documents
    BY <1>1, <1>3, <2>1 DEF Begin, XmlInv, FreshEntry, Origins
  <2>3. QED BY <1>2, <2>1, <2>2
<1>4. CASE XmlArrives(t)
  <2>1. GoOn(t, call[t], response[t]) /\ call'[t] = call[t]
    BY <1>4 DEF XmlArrives
  <2>2. call[t] \in Requests /\ response[t] \in Documents
    BY <1>1, <1>4 DEF XmlArrives, TaskOK
  <2>3. QED BY <1>2, <2>1, <2>2
<1>5. CASE LockWake(t)
  <2>1. \A kind, token : ~Finish(t, kind, token)
    BY <1>1, FinishEffect
  <2>2. DropExpired(KeyOf(t)) /\ UNCHANGED <<call, endpoint>> /\ pc[t] = "wait_lock"
    BY <1>5, <2>1 DEF LockWake, LookAgain, UseCached
  <2>3. KeyOf(t) \in Keys
    <3>1. LockOf(t) \in Loops \X Keys
      BY <2>2, LockOfQueued DEF Queued
    <3>2. QED BY <3>1 DEF LockOf
  <2>4. QED BY <2>2, <2>3 DEF DropExpired, KeyOf
<1>6. CASE Answer(t)
  BY <1>6 DEF Answer
<1>7. CASE TokenArrives(t)
  BY <1>7 DEF TokenArrives
<1>8. CASE RequestFails(t) \/ Cancel(t)
  BY <1>8, FailMoved
<1>9. QED BY <1>3, <1>4, <1>5, <1>6, <1>7, <1>8 DEF Moves
-----------------------------------------------------------------------------
(* A step of t leaves the ages in order when its own request and every new *)
(* entry of the license.xml cache do.                                      *)
LEMMA AgeStep ==
    ASSUME AgeInv, NEW t \in Tasks, \A s \in Tasks \ {t} : Kept(s),
           UNCHANGED <<now, live, replaced>>, RequestAge(t)',
           \A h \in Origins : xml_cache'[h] \in {xml_cache[h], None} \/ EntryAge(h)'
    PROVE  AgeInv'
<1>1. \A h \in Origins : EntryAge(h)'
  BY DEF AgeInv, EntryAge, NotBefore
<1>2. \A s \in Tasks : RequestAge(s)'
  BY DEF AgeInv, RequestAge, NotBefore, Kept, OriginOf
<1>3. QED BY <1>1, <1>2 DEF AgeInv

LEMMA GoOnLeaves ==
    ASSUME TaskInv, NEW t \in Tasks, NEW r, NEW d, GoOn(t, r, d)
    PROVE  pc'[t] # "await_xml"
<1>1. \/ \E kind, token : Finish(t, kind, token)
      \/ \E where \in {"await_token", "wait_lock"} : Await(t, where)
  BY DEF GoOn, GetToken, UseCached
<1>2. QED BY <1>1, FinishEffect, AwaitEffect DEF TaskInv

(* The document of an answer is as recent as the request.                  *)
LEMMA ArrivalAge ==
    ASSUME TaskInv, AgeInv, NEW t \in Tasks, XmlArrives(t)
    PROVE  /\ OriginOf(t) \in Origins /\ response[t] \in Documents
           /\ NotBefore(now - Flight, OriginOf(t), response[t])
<1>1. pc[t] = "await_xml" /\ response[t] # None /\ TaskOK(t) /\ now \in Nat
  BY DEF XmlArrives, TaskInv, Shape
<1>2. call[t] \in Requests /\ response[t] \in Documents
  BY <1>1 DEF TaskOK
<1>3. OriginOf(t) \in Origins
  BY <1>1 DEF TaskOK
<1>4. /\ sent_at[t] \in 0 .. now /\ now <= sent_at[t] + Flight
      /\ NotBefore(sent_at[t], OriginOf(t), response[t])
  BY <1>1 DEF AgeInv, RequestAge
<1>5. \/ replaced[OriginOf(t)][response[t]] = None
      \/ replaced[OriginOf(t)][response[t]] \in 0 .. now
  BY <1>2, <1>3 DEF AgeInv
<1>6. NotBefore(now - Flight, OriginOf(t), response[t])
  BY <1>1, <1>4, <1>5, TimesAssumption DEF NotBefore
<1>7. QED BY <1>2, <1>3, <1>6

LEMMA AgeInvMoves ==
    ASSUME TaskInv, AgeInv, NEW t \in Tasks, Moves(t)
    PROVE  AgeInv'
<1>1. /\ \A s \in Tasks \ {t} : Kept(s)
      /\ UNCHANGED <<now, live, replaced>>
      /\ Shape /\ TaskOK(t) /\ now \in Nat
  BY MovesMoved, CacheMoves DEF Moved, TaskInv, Shape
<1>2. ASSUME NEW r \in Requests, Begin(t, r) PROVE AgeInv'
  <2>1. CASE /\ GoOn(t, r, xml_cache[Origin(r.resource)].xml) /\ UNCHANGED xml_cache
    <3>1. RequestAge(t)'
      BY <2>1, GoOnLeaves DEF RequestAge
    <3>2. QED BY <1>1, <2>1, <3>1, AgeStep
  <2>2. CASE /\ xml_cache' = [xml_cache EXCEPT ![Origin(r.resource)] = None]
             /\ Await(t, "await_xml")
    <3>1. sent_at'[t] = now /\ response'[t] = None
      BY <1>1, <2>2, AwaitEffect
    <3>2. RequestAge(t)'
      BY <1>1, <3>1, TimesAssumption DEF RequestAge
    <3>3. \A h \in Origins : xml_cache'[h] \in {xml_cache[h], None}
      BY <1>1, <2>2 DEF Shape
    <3>4. QED BY <1>1, <3>2, <3>3, AgeStep
  <2>3. CASE Finish(t, "error", None) /\ UNCHANGED xml_cache
    <3>1. pc'[t] # "await_xml"
      BY <1>1, <2>3, FinishEffect
    <3>2. RequestAge(t)'
      BY <3>1 DEF RequestAge
    <3>3. QED BY <1>1, <2>3, <3>2, AgeStep
  <2>4. QED BY <1>2, <2>1, <2>2, <2>3 DEF Begin, caches
<1>3. CASE Answer(t)
  <2>1. UNCHANGED <<pc, call, xml_cache, sent_at>> /\ response[t] = None
    BY <1>3 DEF Answer, caches
  <2>2. RequestAge(t)'
    <3>1. CASE pc[t] = "await_xml" /\ response' = [response EXCEPT ![t] = live[OriginOf(t)]]
      <4>1. OriginOf(t) \in Origins /\ response'[t] = live[OriginOf(t)]
        BY <1>1, <3>1 DEF TaskOK, Shape
      <4>2. replaced[OriginOf(t)][response'[t]] = None
        BY <4>1 DEF AgeInv
      <4>3. sent_at[t] \in 0 .. now /\ now <= sent_at[t] + Flight
        BY <3>1 DEF AgeInv, RequestAge
      <4>4. QED BY <1>1, <2>1, <4>2, <4>3 DEF RequestAge, NotBefore, OriginOf
    <3>2. CASE pc[t] = "await_token"
      BY <2>1, <3>2 DEF RequestAge
    <3>3. QED BY <1>3, <3>1, <3>2 DEF Answer
  <2>3. QED BY <1>1, <2>1, <2>2, AgeStep
<1>4. CASE XmlArrives(t)
  <2>1. GoOn(t, call[t], response[t])
    BY <1>4 DEF XmlArrives
  <2>2. RequestAge(t)'
    BY <2>1, GoOnLeaves DEF RequestAge
  <2>3. /\ OriginOf(t) \in Origins /\ response[t] \in Documents
        /\ NotBefore(now - Flight, OriginOf(t), response[t])
    BY <1>4, ArrivalAge
  <2>4. /\ xml_cache'[OriginOf(t)] = [xml |-> response[t], fetched_at |-> now]
        /\ \A h \in Origins \ {OriginOf(t)} : xml_cache'[h] \in {xml_cache[h], None}
    BY <1>4, <2>3 DEF XmlArrives, EvictExpired
  <2>5. EntryAge(OriginOf(t))'
    <3>1. xml_cache'[OriginOf(t)].xml = response[t] /\ xml_cache'[OriginOf(t)].fetched_at = now
      BY <2>4
    <3>2. UNCHANGED call
      BY <1>4 DEF XmlArrives
    <3>3. QED BY <1>1, <2>3, <3>1, <3>2 DEF EntryAge, NotBefore, OriginOf
  <2>6. \A h \in Origins : xml_cache'[h] \in {xml_cache[h], None} \/ EntryAge(h)'
    <3>1. UNCHANGED call
      BY <1>4 DEF XmlArrives
    <3>2. ASSUME NEW h \in Origins, h = OriginOf(t) PROVE EntryAge(h)'
      BY <2>5, <3>1, <3>2 DEF EntryAge, NotBefore, OriginOf
    <3>3. QED BY <2>4, <3>2
  <2>7. QED BY <1>1, <2>2, <2>6, AgeStep
<1>5. CASE LockWake(t) \/ TokenArrives(t) \/ RequestFails(t) \/ Cancel(t)
  <2>1. UNCHANGED xml_cache
    BY <1>5 DEF LockWake, TokenArrives, RequestFails, Cancel, caches
  <2>2. \/ \E kind, token : Finish(t, kind, token)
        \/ Await(t, "await_token")
    BY <1>5 DEF LockWake, LookAgain, UseCached, TokenArrives, RequestFails, Cancel
  <2>3. pc'[t] # "await_xml"
    <3>1. ASSUME NEW kind, NEW token, Finish(t, kind, token) PROVE pc'[t] = "done"
      BY <1>1, <3>1, FinishEffect
    <3>2. ASSUME Await(t, "await_token") PROVE pc'[t] = "await_token"
      BY <1>1, <3>2, AwaitEffect
    <3>3. QED BY <2>2, <3>1, <3>2
  <2>4. RequestAge(t)'
    BY <2>3 DEF RequestAge
  <2>5. QED BY <1>1, <2>1, <2>4, AgeStep
<1>6. QED BY <1>2, <1>3, <1>4, <1>5 DEF Moves
LEMMA PublishAge ==
    ASSUME TaskInv, AgeInv, NEW h \in Origins, NEW d \in Documents, Publish(h, d)
    PROVE  AgeInv'
<1>1. /\ Shape /\ XmlInv /\ now \in Nat /\ live[h] \in Documents /\ d # live[h]
      /\ UNCHANGED <<now, xml_cache, pc, call, response, sent_at>>
  BY DEF TaskInv, Shape, Publish, caches
<1>2. live'[h] = d /\ \A x \in Origins \ {h} : live'[x] = live[x]
  BY <1>1 DEF Publish, Shape
<1>3. /\ replaced'[h][d] = None /\ replaced'[h][live[h]] = now
      /\ \A e \in Documents \ {d, live[h]} : replaced'[h][e] = replaced[h][e]
      /\ \A x \in Origins \ {h} : replaced'[x] = replaced[x]
  BY <1>1 DEF Publish, Shape
<1>4. ASSUME NEW x \in Origins, NEW e \in Documents, NEW time \in Int, time <= now,
             NotBefore(time, x, e)
      PROVE  replaced'[x][e] = None \/ replaced'[x][e] >= time
  <2>1. CASE x = h /\ e = live[h]
    BY <1>1, <1>3, <1>4, <2>1
  <2>2. CASE x = h /\ e = d
    BY <1>3, <2>2
  <2>3. CASE x # h \/ (e # d /\ e # live[h])
    BY <1>3, <1>4, <2>3 DEF NotBefore
  <2>4. QED BY <2>1, <2>2, <2>3
<1>5. ASSUME NEW x \in Origins
      PROVE  /\ replaced'[x][live'[x]] = None
             /\ \A e \in Documents : replaced'[x][e] = None \/ replaced'[x][e] \in 0 .. now'
             /\ EntryAge(x)'
  <2>1. replaced'[x][live'[x]] = None
    BY <1>2, <1>3 DEF AgeInv
  <2>2. ASSUME NEW e \in Documents
        PROVE  replaced'[x][e] = None \/ replaced'[x][e] \in 0 .. now'
    <3>1. now \in 0 .. now
      BY <1>1
    <3>2. replaced[x][e] = None \/ replaced[x][e] \in 0 .. now
      BY DEF AgeInv
    <3>3. \/ replaced'[x][e] = None \/ replaced'[x][e] = now
          \/ replaced'[x][e] = replaced[x][e]
      BY <1>3
    <3>4. QED BY <1>1, <3>1, <3>2, <3>3
  <2>3. ASSUME xml_cache[x] # None
        PROVE  LET e == xml_cache[x] IN
               replaced'[x][e.xml] = None \/ replaced'[x][e.xml] >= e.fetched_at - Flight
    <3>1. xml_cache[x].xml \in Documents /\ xml_cache[x].fetched_at \in 0 .. now
      BY <1>1, <2>3 DEF XmlInv
    <3>2. xml_cache[x].fetched_at - Flight \in Int /\ xml_cache[x].fetched_at - Flight <= now
      BY <1>1, <3>1, TimesAssumption
    <3>3. NotBefore(xml_cache[x].fetched_at - Flight, x, xml_cache[x].xml)
      BY <2>3 DEF AgeInv, EntryAge
    <3>4. QED BY <1>4, <3>1, <3>2, <3>3
  <2>4. EntryAge(x)'
    BY <1>1, <2>3 DEF EntryAge, NotBefore
  <2>5. QED BY <2>1, <2>2, <2>4
<1>6. ASSUME NEW t \in Tasks, pc[t] = "await_xml"
      PROVE  /\ sent_at[t] \in 0 .. now /\ now <= sent_at[t] + Flight
             /\ response[t] # None =>
                   LET at == replaced'[OriginOf(t)][response[t]]
                   IN at = None \/ at >= sent_at[t]
  <2>1. /\ sent_at[t] \in 0 .. now /\ now <= sent_at[t] + Flight
        /\ response[t] # None => NotBefore(sent_at[t], OriginOf(t), response[t])
    BY <1>6 DEF AgeInv, RequestAge
  <2>2. response[t] \in Documents \cup {None}
    BY <1>6 DEF TaskInv, TaskOK
  <2>3. OriginOf(t) \in Origins
    BY <1>6 DEF TaskInv, TaskOK
  <2>4. sent_at[t] \in Int /\ sent_at[t] <= now
    BY <1>1, <2>1
  <2>5. QED BY <1>4, <2>1, <2>2, <2>3, <2>4
<1>7. \A t \in Tasks : RequestAge(t)'
  BY <1>1, <1>6 DEF RequestAge, NotBefore, OriginOf
<1>8. QED BY <1>5, <1>7 DEF AgeInv

LEMMA TickAge == ASSUME TaskInv, AgeInv, Tick PROVE AgeInv'
<1>1. /\ now \in Nat /\ now' = now + 1 /\ 0 .. now \subseteq 0 .. now'
      /\ UNCHANGED <<live, replaced, xml_cache, pc, call, response, sent_at>>
  BY DEF TaskInv, Shape, Tick, site, caches
<1>2. \A h \in Origins : EntryAge(h)'
  BY <1>1 DEF AgeInv, EntryAge, NotBefore
<1>3. ASSUME NEW t \in Tasks PROVE RequestAge(t)'
  <2>1. pc[t] = "await_xml" => sent_at[t] \in 0 .. now /\ now' <= sent_at[t] + Flight
    BY <1>1, TimesAssumption DEF AgeInv, RequestAge, Tick
  <2>2. QED BY <1>1, <2>1 DEF AgeInv, RequestAge, NotBefore, OriginOf
<1>4. QED BY <1>1, <1>2, <1>3 DEF AgeInv

LEMMA AgeInvNext == TaskInv /\ AgeInv /\ [Next]_vars => AgeInv'
<1> SUFFICES ASSUME TaskInv, AgeInv, [Next]_vars PROVE AgeInv'
  OBVIOUS
<1>1. CASE UNCHANGED vars
  BY <1>1 DEF vars, site, caches, AgeInv, EntryAge, RequestAge, NotBefore, OriginOf
<1>2. QED BY <1>1, AgeInvMoves, PublishAge, TickAge DEF Next, Moves

-----------------------------------------------------------------------------
CacheSystemInv == TaskInv /\ LockInv /\ IssuedInv /\ AgeInv

LEMMA CacheSystemInvHolds == Spec => []CacheSystemInv
<1>1. Init => IssuedInv /\ AgeInv
  BY DEF Init, IssuedInv, AgeInv, EntryAge, RequestAge
<1>2. Init => CacheSystemInv
  BY <1>1, TaskInvInit, LockInvInit DEF CacheSystemInv
<1>3. CacheSystemInv /\ [Next]_vars => CacheSystemInv'
  BY TaskInvNext, LockInvNext, IssuedInvNext, AgeInvNext DEF CacheSystemInv
<1>4. QED BY <1>2, <1>3, PTL DEF Spec

(* Every reachable state is well typed, and a task is in the queue of a    *)
(* lock exactly while it waits for it or holds it.                         *)
THEOREM TokenCacheTypeCorrect == Spec => []TypeOK
<1>1. CacheSystemInv => TypeOK
  <2> SUFFICES ASSUME CacheSystemInv PROVE TypeOK
    OBVIOUS
  <2>1. TaskInv /\ LockInv /\ Shape /\ XmlInv /\ TokensInv
    BY DEF CacheSystemInv, TaskInv
  <2>2. ASSUME NEW t \in Tasks
        PROVE  /\ pc[t] \in {"idle", "await_xml", "wait_lock", "await_token", "done"}
               /\ pc[t] # "idle" => call[t] \in Requests
               /\ (result[t] = None) <=> (pc[t] # "done")
               /\ result[t] # None => result[t].kind \in Results
    <3>1. TaskOK(t)
      BY <2>1 DEF TaskInv
    <3>2. CASE pc[t] # "done"
      BY <3>1, <3>2 DEF TaskOK
    <3>3. ASSUME pc[t] = "done", NEW kind \in Results, NEW token \in Tokens \cup {None},
                 result[t] = [kind |-> kind, token |-> token]
          PROVE  result[t] # None /\ result[t].kind \in Results
      BY <3>3, NoneAssumption
    <3>4. CASE pc[t] = "done"
      <4>1. \E kind \in Results, token \in Tokens \cup {None} :
               result[t] = [kind |-> kind, token |-> token]
        <5>1. "ok" \in Results
          BY DEF Results
        <5>2. QED BY <3>1, <3>4, <5>1 DEF TaskOK, GoodFor
      <4>2. call[t] \in Requests
        BY <3>1, <3>4 DEF TaskOK
      <4>3. QED BY <3>3, <3>4, <4>1, <4>2
    <3>5. QED BY <3>2, <3>4
  <2>3. ASSUME NEW t \in Tasks, NEW l \in Loops, NEW k \in Keys
        PROVE  InQueue(lock[<<l, k>>], t) <=>
                   pc[t] \in {"wait_lock", "await_token"} /\ l = LoopOf[t] /\ k = KeyOf(t)
    <3>1. <<l, k>> \in Loops \X Keys
      OBVIOUS
    <3>2. InQueue(lock[<<l, k>>], t) <=> Queued(t) /\ <<l, k>> = LockOf(t)
      BY <2>1, <3>1 DEF LockInv
    <3>3. QED BY <3>2 DEF Queued, LockOf
  <2>4. QED BY <2>1, <2>2, <2>3 DEF TypeOK, Shape, XmlInv, TokensInv, LockInv
<1>2. QED BY <1>1, CacheSystemInvHolds, PTL

(* In one event loop no two tasks ask for a token of the same key at once. *)
THEOREM OneMintPerLoopHolds == Spec => []OneMintPerLoop
<1>1. CacheSystemInv => OneMintPerLoop
  BY DEF CacheSystemInv, LockInv, NextInLine, OneMintPerLoop
<1>2. QED BY <1>1, CacheSystemInvHolds, PTL

(* Whichever task minted it, a token fits the call it is returned to.      *)
THEOREM TokenFitsCallHolds == Spec => []TokenFitsCall
<1>1. CacheSystemInv => TokenFitsCall
  <2> SUFFICES ASSUME CacheSystemInv, NEW t \in Tasks, result[t] # None, result[t].kind = "ok"
               PROVE  /\ result[t].token.client_id = call[t].client_id
                      /\ result[t].token.server = endpoint[t].server
                      /\ Covers(endpoint[t].scope, result[t].token.resource)
    BY DEF TokenFitsCall
  <2>1. TaskOK(t)
    BY DEF CacheSystemInv, TaskInv
  <2>2. ASSUME NEW kind \in Results \ {"ok"}, result[t] = [kind |-> kind, token |-> None]
        PROVE  FALSE
    BY <2>2
  <2>3. GoodFor(KeyOf(t), result[t].token)
    BY <2>1, <2>2, Zenon DEF TaskOK
  <2>4. QED BY <2>3 DEF GoodFor, KeyOf, CacheKey
<1>2. QED BY <1>1, CacheSystemInvHolds, PTL

(* A token is asked for only when the last one cached is within the margin *)
(* of its expiry, also by a task that waited for the lock.                 *)
THEOREM NoRedundantMintHolds == Spec => NoRedundantMint
<1> DEFINE Fresh(t) == LET k == CacheKey(call'[t].client_id, endpoint'[t])
                       IN issued[k] = None \/ issued[k] <= now + Margin
           Step == \A t \in Tasks : (pc[t] # "await_token" /\ pc'[t] = "await_token") => Fresh(t)
<1>1. CacheSystemInv /\ [Next]_vars => Step
  <2> SUFFICES ASSUME CacheSystemInv, [Next]_vars, NEW t \in Tasks,
                      pc[t] # "await_token", pc'[t] = "await_token"
               PROVE  Fresh(t)
    OBVIOUS
  <2>1. TaskInv /\ IssuedInv /\ TokensInv /\ now \in Nat
    BY DEF CacheSystemInv, TaskInv, Shape
  <2>2. CASE UNCHANGED vars \/ Tick \/ \E h \in Origins, d \in Documents : Publish(h, d)
    BY <2>1, <2>2, SurroundingsKeep DEF Kept
  <2>3. ASSUME NEW s \in Tasks, Moves(s) PROVE Fresh(t)
    <3>1. s = t
      BY <2>1, <2>3, MovesMoved DEF Moved, Kept
    <3> DEFINE k == CacheKey(call'[t].client_id, endpoint'[t])
    <3>2. k \in Keys /\ ~Usable(k)
      BY <2>1, <2>3, <3>1, MintFacts
    <3> HIDE DEF k
    <3>3. issued[k] = None \/ issued[k] <= now + Margin
      <4>1. CASE k \in DOMAIN token_cache /\ token_cache[k].exp = issued[k]
        <5>1. issued[k] \in Nat /\ ~(issued[k] > now + Margin)
          BY <2>1, <3>2, <4>1 DEF Usable, TokensInv
        <5>2. QED BY <2>1, <5>1, TimesAssumption
      <4>2. QED BY <2>1, <3>2, <4>1 DEF IssuedInv
    <3>4. QED BY <3>3 DEF k
  <2>4. QED BY <2>2, <2>3 DEF Next, Moves
<1>2. QED BY <1>1, CacheSystemInvHolds, PTL DEF Spec, NoRedundantMint

(* No call goes by a document that was replaced too long ago.              *)
THEOREM ReplacedLicenseBoundHolds == Spec => ReplacedLicenseBound
<1> DEFINE Recent(t) == LET r == replaced[Origin(call'[t].resource)][read'[t]]
                        IN r = None \/ now < r + Flight + XmlTTL
           Step == \A t \in Tasks : read'[t] # read[t] => Recent(t)
<1>1. CacheSystemInv /\ [Next]_vars => Step
  <2> SUFFICES ASSUME CacheSystemInv, [Next]_vars, NEW t \in Tasks, read'[t] # read[t]
               PROVE  Recent(t)
    OBVIOUS
  <2>1. TaskInv /\ AgeInv /\ Shape /\ XmlInv /\ now \in Nat
    BY DEF CacheSystemInv, TaskInv, Shape
  <2>2. CASE UNCHANGED vars \/ Tick \/ \E h \in Origins, d \in Documents : Publish(h, d)
    BY <2>1, <2>2, SurroundingsKeep DEF Kept
  <2>3. ASSUME NEW s \in Tasks, Moves(s) PROVE Recent(t)
    <3>1. s = t
      BY <2>1, <2>3, MovesMoved DEF Moved, Kept
    <3>2. CASE \E r \in Requests : Begin(t, r)
      <4>1. PICK r \in Requests : Begin(t, r)
        BY <3>2
      <4> DEFINE e == xml_cache[Origin(r.resource)]
      <4>2. FreshEntry(e) /\ GoOn(t, r, e.xml) /\ Origin(r.resource) \in Origins
        BY <4>1 DEF Begin, Origins
      <4>3. call'[t] = r /\ read'[t] = e.xml
        BY <2>1, <4>1, <4>2 DEF Begin, GoOn, Shape
      <4>4. /\ e.xml \in Documents /\ e.fetched_at \in 0 .. now /\ now - e.fetched_at < XmlTTL
            /\ NotBefore(e.fetched_at - Flight, Origin(r.resource), e.xml)
        BY <2>1, <4>2 DEF FreshEntry, XmlInv, AgeInv, EntryAge
      <4>5. \/ replaced[Origin(r.resource)][e.xml] = None
            \/ replaced[Origin(r.resource)][e.xml] \in 0 .. now
        BY <2>1, <4>2, <4>4 DEF AgeInv
      <4> HIDE DEF e
      <4>6. \/ replaced[Origin(r.resource)][e.xml] = None
            \/ now < replaced[Origin(r.resource)][e.xml] + Flight + XmlTTL
        BY <2>1, <4>4, <4>5, TimesAssumption DEF NotBefore
      <4>7. QED BY <4>3, <4>6
    <3>3. CASE XmlArrives(t)
      <4>1. call'[t] = call[t] /\ read'[t] = response[t]
        BY <2>1, <3>3 DEF XmlArrives, GoOn, Shape
      <4>2. /\ OriginOf(t) \in Origins /\ response[t] \in Documents
            /\ NotBefore(now - Flight, OriginOf(t), response[t])
        BY <2>1, <3>3, ArrivalAge
      <4>3. \/ replaced[OriginOf(t)][response[t]] = None
            \/ replaced[OriginOf(t)][response[t]] \in 0 .. now
        BY <2>1, <4>2 DEF AgeInv
      <4>4. \/ replaced[OriginOf(t)][response[t]] = None
            \/ now < replaced[OriginOf(t)][response[t]] + Flight + XmlTTL
        BY <2>1, <4>2, <4>3, TimesAssumption DEF NotBefore
      <4>5. QED BY <4>1, <4>4 DEF OriginOf
    <3>4. CASE Answer(t) \/ LockWake(t) \/ TokenArrives(t) \/ RequestFails(t) \/ Cancel(t)
      BY <3>4 DEF Answer, LockWake, TokenArrives, RequestFails, Cancel
    <3>5. QED BY <2>3, <3>1, <3>2, <3>3, <3>4 DEF Moves
  <2>4. QED BY <2>2, <2>3 DEF Next, Moves
<1>2. QED BY <1>1, CacheSystemInvHolds, PTL DEF Spec, ReplacedLicenseBound
(* A token crosses from one origin to another only under a pattern that a  *)
(* document publishes, and from one host to another only under one that    *)
(* names no host: two schemes of a host are two origins, which matching    *)
(* does not tell apart.  An agreement that no document publishes as a      *)
(* pattern stays with its origin.                                          *)
OnlyPatternsShare ==
    \A t \in Tasks :
        (result[t] # None /\ result[t].kind = "ok") =>
            LET minted == result[t].token.resource
                own == call[t].resource
                scope == endpoint[t].scope
            IN /\ Origin(minted) # Origin(own) => scope \in Published
               /\ minted.host # own.host => scope.host = PathOnly

THEOREM OnlyPatternsShareHolds == Spec => []OnlyPatternsShare
<1>1. ASSUME CacheSystemInv, NEW t \in Tasks, result[t] # None, result[t].kind = "ok"
      PROVE  /\ Origin(result[t].token.resource) # Origin(call[t].resource) =>
                    endpoint[t].scope \in Published
             /\ result[t].token.resource.host # call[t].resource.host =>
                    endpoint[t].scope.host = PathOnly
  <2> DEFINE scope == endpoint[t].scope
             minted == result[t].token.resource
             own == call[t].resource
  <2>1. TaskOK(t)
    BY <1>1 DEF CacheSystemInv, TaskInv
  <2>2. ASSUME NEW kind \in Results \ {"ok"}, result[t] = [kind |-> kind, token |-> None]
        PROVE  FALSE
    BY <1>1, <2>2
  <2>3. call[t] \in Requests /\ Chosen(t) /\ GoodFor(KeyOf(t), result[t].token)
    BY <1>1, <2>1, <2>2 DEF TaskOK
  <2>4. Covers(scope, own)
    BY <2>3, EndpointFacts DEF Chosen
  <2>5. Covers(scope, minted)
    BY <2>3 DEF GoodFor, KeyOf, CacheKey
  <2> HIDE DEF scope, minted, own
  <2>6. ASSUME NEW r, Covers(scope, r)
        PROVE  /\ scope = Origin(r) \/ scope \in Published
               /\ scope.host = PathOnly \/ scope.host = r.host
    BY <2>6 DEF Covers, HostFits, Origin
  <2>7. QED BY <2>4, <2>5, <2>6 DEF scope, minted, own
<1>2. CacheSystemInv => OnlyPatternsShare
  BY <1>1 DEF OnlyPatternsShare
<1>3. QED BY <1>2, CacheSystemInvHolds, PTL
=============================================================================
