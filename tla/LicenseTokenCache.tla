--------------------------- MODULE LicenseTokenCache ---------------------------
(***************************************************************************)
(* obtain_license_token (customer/token.py): the license.xml cache, the    *)
(* choice of the token endpoint, the license-token cache and its locks.    *)
(* Each task makes one call.  An action is the code between two awaits of  *)
(* one task; tasks of different event loops share the caches, not the locks*)
(***************************************************************************)
EXTENDS LicenseXml

CONSTANTS
    Tasks,          \* the tasks, each makes one call
    LoopOf,         \* [Tasks -> event loops]
    Requests,       \* the calls: [client_id, resource, usage, base]
    Documents,      \* what the origins may publish as license.xml, by name
    XmlOf,          \* [Documents -> what each says]
    None,           \* no value
    XmlTTL,         \* _LICENSE_XML_TTL_SECONDS
    Margin,         \* the 30 s before exp in which a token counts as expired
    Lifetimes,      \* the lifetimes of the tokens that carry an int exp
    Flight,         \* bound: an answer takes at most this long
    MaxTime         \* bound: the clock stops here

ASSUME TimesAssumption ==
    /\ XmlTTL \in Nat \ {0} /\ Margin \in Nat /\ Flight \in Nat /\ MaxTime \in Nat
    /\ Lifetimes \subseteq Nat
ASSUME DocumentsAssumption == \A d \in Documents : IsDocument(XmlOf[d])

(* The origins of the calls whose resource is an absolute URL.             *)
HasOrigin(resource) == resource.host # NoHost
Origins == {Origin(r.resource) : r \in {q \in Requests : HasOrigin(q.resource)}}

VARIABLES
    now,         \* int(time.time())
    live,        \* live[o]: the license.xml the origin publishes
    xml_cache,   \* _LICENSE_XML_CACHE: [xml, fetched_at] or None
    token_cache, \* _LICENSE_TOKEN_CACHE: the entry [token, exp] of each key in it
    lock,        \* lock[l, key]: the holder, then the waiters, of the lock of loop l
    pc, call,    \* where each task is and what it was called with
    response,    \* the answer to the request in flight, None until it is made
    endpoint,    \* the _TokenEndpoint the task chose
    result,      \* what the call returned
    replaced,    \* history: when a document last ceased to be live at an origin
    sent_at,     \* history: when the license.xml request in flight was sent
    read,        \* history: the document the call went by
    issued       \* history: the exp last cached for a key

caches == <<xml_cache, token_cache>>
site == <<live, replaced>>
vars == <<now, site, caches, lock, pc, call, response, endpoint, result,
          sent_at, read, issued>>

-----------------------------------------------------------------------------
KeyWithoutClient(client, e) == <<e.server, e.scope>>
CacheKey(client, e) == <<client, e.server, e.scope>>
KeyOf(t) == CacheKey(call[t].client_id, endpoint[t])
OriginOf(t) == Origin(call[t].resource)

(* The content blocks of each document, where each call would mint under   *)
(* it, and whether it needs no token: a serverless block permits the usage.*)
Blocks == [d \in Documents |-> ParseContentElements(XmlOf[d])]
EndpointOf ==
    [r \in Requests |->
        [d \in Documents |-> SelectTokenEndpoint(Blocks[d], r.resource, r.base)]]
NotNeeded ==
    [r \in Requests |-> [d \in Documents |->
        r.usage # None /\ FindServerlessUsageContent(Blocks[d], r.resource, r.usage) # {}]]

Keys == {CacheKey(r.client_id, EndpointOf[r][d]) : r \in Requests, d \in Documents}
Loops == {LoopOf[t] : t \in Tasks}

Results == {"ok", "not_needed", "error", "cancelled"}
Tokens ==
    [client_id : {r.client_id : r \in Requests}, resource : {r.resource : r \in Requests},
     server : {EndpointOf[r][d].server : r \in Requests, d \in Documents},
     license : {EndpointOf[r][d].license : r \in Requests, d \in Documents}, exp : Nat \cup {None}]

ASSUME NoneAssumption == None \notin [kind : Results, token : Tokens \cup {None}]

InQueue(queue, t) == \E i \in DOMAIN queue : queue[i] = t

TypeOK ==
    /\ now \in 0 .. MaxTime
    /\ live \in [Origins -> Documents]
    /\ \A o \in Origins :
          \/ xml_cache[o] = None
          \/ xml_cache[o].xml \in Documents /\ xml_cache[o].fetched_at \in 0 .. now
    /\ DOMAIN token_cache \subseteq Keys
    /\ \A k \in DOMAIN token_cache : token_cache[k].exp \in Nat
    /\ lock \in [Loops \X Keys -> Seq(Tasks)]
    /\ \A t \in Tasks :
          /\ pc[t] \in {"idle", "await_xml", "wait_lock", "await_token", "done"}
          /\ pc[t] # "idle" => call[t] \in Requests
          /\ (result[t] = None) <=> (pc[t] # "done")
          /\ result[t] # None => result[t].kind \in Results
          /\ \A l \in Loops, k \in Keys :
                InQueue(lock[<<l, k>>], t) <=>
                    /\ pc[t] \in {"wait_lock", "await_token"}
                    /\ l = LoopOf[t] /\ k = KeyOf(t)

Init ==
    /\ now = 0
    /\ live \in [Origins -> Documents]
    /\ xml_cache = [o \in Origins |-> None]
    /\ token_cache = [k \in {} |-> None]
    /\ lock = [x \in Loops \X Keys |-> <<>>]
    /\ pc = [t \in Tasks |-> "idle"]
    /\ call = [t \in Tasks |-> None]
    /\ response = [t \in Tasks |-> None]
    /\ endpoint = [t \in Tasks |-> None]
    /\ result = [t \in Tasks |-> None]
    /\ replaced = [o \in Origins |-> [d \in Documents |-> None]]
    /\ sent_at = [t \in Tasks |-> None]
    /\ read = [t \in Tasks |-> None]
    /\ issued = [k \in Keys |-> None]

-----------------------------------------------------------------------------
(* Leaving "async with lock", as its holder or as a cancelled waiter.      *)
KeepLock(t) == UNCHANGED lock
LeaveLock(t) ==
    LET x == <<LoopOf[t], KeyOf(t)>> IN
    \E i \in DOMAIN lock[x] :
        /\ lock[x][i] = t
        /\ lock' = [lock EXCEPT ![x] = SubSeq(@, 1, i - 1) \o SubSeq(@, i + 1, Len(@))]

Finish(t, kind, token) ==
    /\ pc' = [pc EXCEPT ![t] = "done"]
    /\ result' = [result EXCEPT ![t] = [kind |-> kind, token |-> token]]
    /\ response' = [response EXCEPT ![t] = None]
    /\ sent_at' = [sent_at EXCEPT ![t] = None]

Await(t, where) ==
    /\ pc' = [pc EXCEPT ![t] = where]
    /\ response' = [response EXCEPT ![t] = None]
    /\ sent_at' = [sent_at EXCEPT ![t] = IF where = "await_xml" THEN now ELSE None]
    /\ UNCHANGED result

(* _get_cached_token: an entry that expires within the margin is dropped.  *)
Usable(k) == k \in DOMAIN token_cache /\ token_cache[k].exp > now + Margin
WithoutKey(k) == [j \in DOMAIN token_cache \ {k} |-> token_cache[j]]

UseCached(t, k) ==
    /\ Usable(k)
    /\ Finish(t, "ok", token_cache[k].token)
    /\ UNCHANGED token_cache

DropExpired(k) == ~Usable(k) /\ token_cache' = WithoutKey(k)

(* The token for the endpoint e: cached, or to be asked for under the lock.*)
GetToken(t, client, e) ==
    LET k == CacheKey(client, e)
        x == <<LoopOf[t], k>>
    IN
    /\ endpoint' = [endpoint EXCEPT ![t] = e]
    /\ \/ UseCached(t, k) /\ UNCHANGED lock
       \/ /\ DropExpired(k)
          /\ lock' = [lock EXCEPT ![x] = Append(@, t)]
          /\ \/ lock[x] = <<>> /\ Await(t, "await_token")
             \/ lock[x] # <<>> /\ Await(t, "wait_lock")

(* The call from its license.xml to its next await.                        *)
GoOn(t, r, d) ==
    /\ read' = [read EXCEPT ![t] = d]
    /\ \/ /\ Blocks[d] = <<>>
          /\ Finish(t, "error", None)
          /\ UNCHANGED <<token_cache, lock, endpoint>>
       \/ /\ Blocks[d] # <<>> /\ NotNeeded[r][d]
          /\ Finish(t, "not_needed", None)
          /\ UNCHANGED <<token_cache, lock, endpoint>>
       \/ /\ Blocks[d] # <<>> /\ ~NotNeeded[r][d]
          /\ GetToken(t, r.client_id, EndpointOf[r][d])

(* _fetch_license_xml: a resource without an origin raises; else the cached*)
(* document, or a request for a new one with the expired entry dropped.    *)
AnyAge(e) == e # None
FreshEntry(e) == e # None /\ now - e.fetched_at < XmlTTL

Begin(t, r) ==
    LET o == Origin(r.resource) IN
    /\ pc[t] = "idle"
    /\ call' = [call EXCEPT ![t] = r]
    /\ \/ /\ ~HasOrigin(r.resource)
          /\ Finish(t, "error", None)
          /\ UNCHANGED <<caches, lock, endpoint, read>>
       \/ /\ HasOrigin(r.resource) /\ FreshEntry(xml_cache[o])
          /\ GoOn(t, r, xml_cache[o].xml)
          /\ UNCHANGED xml_cache
       \/ /\ HasOrigin(r.resource) /\ ~FreshEntry(xml_cache[o])
          /\ xml_cache' = [xml_cache EXCEPT ![o] = None]
          /\ Await(t, "await_xml")
          /\ UNCHANGED <<token_cache, lock, endpoint, read>>
    /\ UNCHANGED <<now, site, issued>>

(* The origin, or the token endpoint, makes its answer.  A token carries   *)
(* what the body of the request said and an exp, unless it is opaque.      *)
TokenFor(t, exp) ==
    [client_id |-> call[t].client_id, server |-> endpoint[t].server,
     resource |-> call[t].resource, license |-> endpoint[t].license, exp |-> exp]

Answer(t) ==
    /\ response[t] = None
    /\ \/ pc[t] = "await_xml" /\ response' = [response EXCEPT ![t] = live[OriginOf(t)]]
       \/ /\ pc[t] = "await_token"
          /\ \E exp \in {now + n : n \in Lifetimes} \cup {None} :
                response' = [response EXCEPT ![t] = TokenFor(t, exp)]
    /\ UNCHANGED <<now, site, caches, lock, pc, call, endpoint, result, sent_at, read, issued>>

(* The document arrives: expired entries of every origin are evicted, the  *)
(* new entry is stamped with the time of its arrival.                      *)
EvictExpired(e) == IF FreshEntry(e) THEN e ELSE None

XmlArrives(t) ==
    /\ pc[t] = "await_xml" /\ response[t] # None
    /\ xml_cache' = [[o \in Origins |-> EvictExpired(xml_cache[o])]
                        EXCEPT ![OriginOf(t)] = [xml |-> response[t], fetched_at |-> now]]
    /\ GoOn(t, call[t], response[t])
    /\ UNCHANGED <<now, site, call, issued>>

(* The first waiter of a released lock runs, and looks at the cache again. *)
(* AnyWaiter and MintAtOnce, like KeyWithoutClient, KeepLock and AnyAge,   *)
(* are faulty variants of what follows them, for mutation runs.            *)
AnyWaiter(t) == TRUE
NextInLine(t) == lock[<<LoopOf[t], KeyOf(t)>>][1] = t

MintAtOnce(t) ==
    /\ Await(t, "await_token")
    /\ UNCHANGED <<token_cache, lock>>
LookAgain(t) ==
    \/ UseCached(t, KeyOf(t)) /\ LeaveLock(t)
    \/ DropExpired(KeyOf(t)) /\ Await(t, "await_token") /\ UNCHANGED lock

LockWake(t) ==
    /\ pc[t] = "wait_lock" /\ NextInLine(t)
    /\ LookAgain(t)
    /\ UNCHANGED <<now, site, xml_cache, call, endpoint, read, issued>>

(* A token with an integer exp is cached, whatever its exp; every token is *)
(* returned.                                                               *)
TokenArrives(t) ==
    LET k == KeyOf(t)
        exp == response[t].exp
    IN
    /\ pc[t] = "await_token" /\ response[t] # None
    /\ \/ /\ exp # None
          /\ token_cache' = [j \in DOMAIN token_cache \cup {k} |->
                IF j = k THEN [token |-> response[t], exp |-> exp] ELSE token_cache[j]]
          /\ issued' = [issued EXCEPT ![k] = exp]
       \/ exp = None /\ UNCHANGED <<token_cache, issued>>
    /\ LeaveLock(t)
    /\ Finish(t, "ok", response[t])
    /\ UNCHANGED <<now, site, xml_cache, call, endpoint, read>>

(* An HTTP error, a timeout or a body without a token: the call raises.    *)
RequestFails(t) ==
    /\ pc[t] \in {"await_xml", "await_token"}
    /\ IF pc[t] = "await_token" THEN LeaveLock(t) ELSE UNCHANGED lock
    /\ Finish(t, "error", None)
    /\ UNCHANGED <<now, site, caches, call, endpoint, read, issued>>

Cancel(t) ==
    /\ pc[t] \in {"await_xml", "wait_lock", "await_token"}
    /\ IF pc[t] = "await_xml" THEN UNCHANGED lock ELSE LeaveLock(t)
    /\ Finish(t, "cancelled", None)
    /\ UNCHANGED <<now, site, caches, call, endpoint, read, issued>>

-----------------------------------------------------------------------------
(* The publisher replaces its license.xml.                                 *)
Publish(o, d) ==
    /\ d # live[o]
    /\ live' = [live EXCEPT ![o] = d]
    /\ replaced' = [replaced EXCEPT ![o][live[o]] = now, ![o][d] = None]
    /\ UNCHANGED <<now, caches, lock, pc, call, response, endpoint, result,
                   sent_at, read, issued>>

Tick ==
    /\ now < MaxTime
    /\ \A t \in Tasks : pc[t] = "await_xml" => now < sent_at[t] + Flight
    /\ now' = now + 1
    /\ UNCHANGED <<site, caches, lock, pc, call, response, endpoint, result,
                   sent_at, read, issued>>

Next ==
    \/ \E t \in Tasks :
          \/ \E r \in Requests : Begin(t, r)
          \/ Answer(t) \/ XmlArrives(t) \/ LockWake(t) \/ TokenArrives(t)
          \/ RequestFails(t) \/ Cancel(t)
    \/ \E o \in Origins, d \in Documents : Publish(o, d)
    \/ Tick

Spec == Init /\ [][Next]_vars

(* Every request ends, at the latest in its timeout, and the loop gets to  *)
(* the task whose turn it is.  Nobody has to cancel, publish or let time   *)
(* pass.                                                                   *)
Fairness ==
    \A t \in Tasks :
        /\ WF_vars(XmlArrives(t) \/ TokenArrives(t) \/ RequestFails(t))
        /\ WF_vars(LockWake(t))

FairSpec == Spec /\ Fairness

-----------------------------------------------------------------------------
(* In one event loop no two tasks ask for a token of the same key at once. *)
OneMintPerLoop ==
    \A s, t \in Tasks :
        (pc[s] = "await_token" /\ pc[t] = "await_token" /\ LoopOf[s] = LoopOf[t]
            /\ KeyOf(s) = KeyOf(t)) => s = t

(* A token is asked for only when the last one cached for the key is within*)
(* the margin of its expiry: whoever waited for the lock looks again.      *)
NoRedundantMint ==
    [][\A t \in Tasks :
          (pc[t] # "await_token" /\ pc'[t] = "await_token") =>
              LET k == CacheKey(call'[t].client_id, endpoint'[t])
              IN issued[k] = None \/ issued[k] <= now + Margin]_vars

(* A call gets a token of its own client, from the server its license.xml  *)
(* names, for a resource the scope it chose also covers, whichever task    *)
(* minted it: the scope is the origin of that resource, or a pattern some  *)
(* document publishes and that matches it.                                 *)
Published == UNION {{Blocks[d][i].url_pattern : i \in DOMAIN Blocks[d]} : d \in Documents}

Covers(scope, resource) ==
    LET block == [url_pattern |-> scope] IN
    \/ scope = Origin(resource)
    \/ /\ scope \in Published /\ HostFits(block, resource)
       /\ \/ PatternPath(block) = ResourcePath(resource)
          \/ Specificity(block, resource) >= 0

TokenFitsCall ==
    \A t \in Tasks :
        (result[t] # None /\ result[t].kind = "ok") =>
            /\ result[t].token.client_id = call[t].client_id
            /\ result[t].token.server = endpoint[t].server
            /\ Covers(endpoint[t].scope, result[t].token.resource)

(* No call goes by a license.xml that was replaced XmlTTL or more before   *)
(* the answer to a request sent then would have arrived.                   *)
ReplacedLicenseBound ==
    [][\A t \in Tasks :
          read'[t] # read[t] =>
              LET r == replaced[Origin(call'[t].resource)][read'[t]]
              IN r = None \/ now < r + Flight + XmlTTL]_vars

(* Every call ends, also when the holder of its lock fails or is cancelled.*)
EveryCallEnds == \A t \in Tasks : pc[t] # "idle" ~> pc[t] = "done"

(* "server + scope, so path-only patterns on different origins can't       *)
(* collide" (comment in obtain_license_token): a token is reused only for  *)
(* resources of the origin it was minted for.                              *)
OriginsDoNotShareTokens ==
    \A t \in Tasks :
        (result[t] # None /\ result[t].kind = "ok") =>
            Origin(result[t].token.resource) = OriginOf(t)
=============================================================================
