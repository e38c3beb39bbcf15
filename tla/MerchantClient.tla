----------------------------- MODULE MerchantClient -----------------------------
(***************************************************************************)
(* SupertabConnect (merchant/client.py) with record_event                  *)
(* (merchant/events.py): the process-wide instance, requests handled on one*)
(* event loop, the two calls that only verify a token, and aclose running  *)
(* beside them.  What verification of a token decides is left open here:   *)
(* JwksVerification models it.                                             *)
(***************************************************************************)
EXTENDS Integers, Sequences, FiniteSets, RequestSignals

CONSTANTS
    Tasks,         \* the tasks that run handle_request, verify or verify_and_record
    Closers,       \* the tasks that run aclose
    Configs,       \* [api_key, enforcement, analytics_enabled, custom, detector]
    Requests,      \* Requests[t]: those that may reach t,
                   \* [entry, probe, auth, bot, user_agent, headers]
    Verdicts,      \* what a verification may return
    MaxInstances,  \* bound: the clients the process builds
    None           \* no value

Modes == {"disabled", "observe", "enforce"}

ASSUME ActorsAssumption == Tasks \cap Closers = {} /\ MaxInstances \in Nat
ASSUME ConfigsAssumption ==
    \A c \in Configs :
        /\ c.enforcement \in Modes /\ c.analytics_enabled \in BOOLEAN /\ c.custom \in BOOLEAN
        /\ c.detector \in {"none", "default", "own"}

(* entry is the call that brings the request in: handle_request, or verify *)
(* or verify_and_record with a token alone; bot is what the merchant's own *)
(* detector makes of it.                                                   *)
ASSUME RequestsAssumption ==
    \A t \in Tasks : \A r \in Requests[t] :
        /\ r.entry \in {"handle", "verify", "verify_and_record"}
        /\ r.probe \in BOOLEAN /\ r.bot \in BOOLEAN /\ r.auth \in {"none", "bearer", "license"}
        /\ r.entry # "handle" => ~r.probe /\ r.auth = "license"

VARIABLES
    instance,   \* _instance
    config,     \* config[i]: the configuration of the i-th client built
    transport,  \* transport[i]: its analytics transport
    slot,       \* slot[m]: whether _http_client of module events or jwks is an open client
    lost,       \* lost[m]: clients of m that are open but no longer in the slot
    pc,         \* the await each task is in
    client,     \* client[t]: the client a task works on, None for the class itself
    request,    \* request[t]: the request it handles
    verdict,    \* verdict[t]: what the verification returned
    result,     \* result[t]: what the call returned
    emitted,    \* history: the events passed to emit for the task's request
    recorded,   \* history: how often its verification was recorded
    delivered   \* history: the clients whose transport accepted an event

clients == <<instance, config, transport>>
slots == <<slot, lost>>
handling == <<request, verdict, result, emitted, recorded, delivered>>
vars == <<clients, slots, pc, client, handling>>

Slots == {"events", "jwks"}
Built == 1 .. Len(config)

(* TOKEN_OUTCOME_BY_REASON and _reason_to_rsl_error.                       *)
OutcomeOf ==
    [invalid_license_header |-> "malformed", invalid_license_algorithm |-> "malformed",
     invalid_license_payload |-> "malformed", invalid_license_issuer |-> "invalid_issuer",
     license_signature_verification_failed |-> "invalid_signature",
     license_token_expired |-> "expired", invalid_license_audience |-> "invalid_audience",
     server_error |-> "server_error", missing_license_token |-> "absent"]
Reasons == DOMAIN OutcomeOf
Status(reason) ==
    IF reason = "invalid_license_audience" THEN 403 ELSE IF reason = "server_error" THEN 503 ELSE 401

Results ==
    [action: {"allow", "observe", "block", "valid", "invalid", "raised", "cancelled"},
     status: {401, 403, 503, None}]
    \cup [action: {"respond"}, status: {200, 404}, eventReporting: {TRUE, FALSE, None}]

ASSUME VerdictsAssumption ==
    Verdicts \subseteq (Reasons \ {"missing_license_token"}) \cup {"valid"}
ASSUME NoneAssumption == None \notin Nat \cup Reasons \cup {"valid"} \cup Results

(* The decision an event reports.                                          *)
Decisions ==
    [has_token: BOOLEAN,
     token_outcome: {OutcomeOf[reason] : reason \in Reasons} \cup {"valid", "not_validated"},
     final_action: {"allow", "observe", "block"}, enforcement_mode: Modes]

TypeOK ==
    /\ config \in Seq(Configs) /\ Len(config) <= MaxInstances
    /\ instance \in Built \cup {None}
    /\ transport \in Seq({"noop", "custom", "http", "closed"})
    /\ Len(transport) = Len(config)
    /\ slot \in [Slots -> BOOLEAN] /\ lost \in [Slots -> Nat]
    /\ \A t \in Tasks :
          /\ pc[t] \in {"idle", "verify", "record", "challenge", "done"}
          /\ result[t] \in Results \cup {None}
          /\ (result[t] = None) <=> (pc[t] # "done")
          /\ (verdict[t] # None) <=> (recorded[t] = 1)
          /\ pc[t] = "record" => verdict[t] \in Verdicts
          /\ \A n \in DOMAIN emitted[t] : emitted[t][n].decision \in Decisions
    /\ \A c \in Closers : pc[c] \in {"idle", "events", "jwks", "done"}
    /\ delivered \subseteq Built

Init ==
    /\ instance = None
    /\ config = <<>>
    /\ transport = <<>>
    /\ slot = [m \in Slots |-> FALSE]
    /\ lost = [m \in Slots |-> 0]
    /\ pc = [t \in Tasks \cup Closers |-> "idle"]
    /\ client = [t \in Tasks \cup Closers |-> None]
    /\ request = [t \in Tasks |-> None]
    /\ verdict = [t \in Tasks |-> None]
    /\ result = [t \in Tasks |-> None]
    /\ emitted = [t \in Tasks |-> <<>>]
    /\ recorded = [t \in Tasks |-> 0]
    /\ delivered = {}

-----------------------------------------------------------------------------
(* SupertabConnect(config, reset).  __new__ hands out the existing client  *)
(* or raises; a reset forgets it first, even when __init__ then raises for *)
(* an empty api_key.  The old client is not closed.                        *)
Transport(c) ==
    IF c.custom THEN "custom" ELSE IF c.analytics_enabled THEN "http" ELSE "noop"

(* EnabledOnly is a faulty variant of Reporting, for a mutation run.       *)
EnabledOnly(i) == config[i].analytics_enabled
Reporting(i) == config[i].analytics_enabled \/ config[i].custom

Construct(c, reset) ==
    /\ reset \/ instance = None
    /\ IF c.api_key = ""
       THEN /\ instance' = None
            /\ UNCHANGED <<config, transport>>
       ELSE /\ Len(config) < MaxInstances
            /\ config' = Append(config, c)
            /\ transport' = Append(transport, Transport(c))
            /\ instance' = Len(config) + 1
    /\ UNCHANGED <<slots, pc, client, handling>>

ResetInstance ==
    /\ instance # None
    /\ instance' = None
    /\ UNCHANGED <<config, transport, slots, pc, client, handling>>

-----------------------------------------------------------------------------
(* _get_http_client: the client in the slot, or a new one in its place.    *)
UseSlot(m) == slot' = [slot EXCEPT ![m] = TRUE]

(* _emit_analytics: build the event and pass it to the transport.  Nothing *)
(* it does, and no exception of a custom transport, reaches the request.   *)
Emit(t, i, r, has_token, outcome, action) ==
    /\ emitted' = [emitted EXCEPT ![t] = Append(@, AnalyticsEvent(r.user_agent, r.headers,
          [has_token |-> has_token, token_outcome |-> outcome,
           final_action |-> action, enforcement_mode |-> config[i].enforcement]))]
    /\ \/ transport[i] \in {"custom", "http"} /\ delivered' = delivered \cup {i}
       \/ transport[i] # "http" /\ UNCHANGED delivered

Answer(t, r) ==
    /\ pc' = [pc EXCEPT ![t] = "done"]
    /\ result' = [result EXCEPT ![t] = r]

Allow == [action |-> "allow", status |-> None]
Signal == [action |-> "observe", status |-> None]  \* ALLOW with the X-RSL headers
Block(reason) == [action |-> "block", status |-> Status(reason)]
Respond(status, reporting) ==
    [action |-> "respond", status |-> status, eventReporting |-> reporting]
Verified(v) == [action |-> IF v = "valid" THEN "valid" ELSE "invalid", status |-> None]
Unwound(how) == [action |-> how, status |-> None]

Receive(t, i, r) ==
    /\ pc[t] = "idle"
    /\ client' = [client EXCEPT ![t] = i]
    /\ request' = [request EXCEPT ![t] = r]
    /\ UNCHANGED <<clients, lost, verdict, recorded>>

(* Fetching the key set takes the client of the jwks module; a retry after *)
(* a refresh may fetch again.                                              *)
MayFetchKeys == UseSlot("jwks") \/ UNCHANGED slot

FetchAgain(t) ==
    /\ pc[t] \in {"verify", "challenge"}
    /\ UseSlot("jwks")
    /\ UNCHANGED <<clients, lost, pc, client, handling>>

(* verify is a method of the class: it needs no client, and only verifies. *)
VerifyOnly(t, r) ==
    /\ r.entry = "verify"
    /\ Receive(t, None, r)
    /\ pc' = [pc EXCEPT ![t] = "verify"]
    /\ MayFetchKeys
    /\ UNCHANGED <<result, emitted, delivered>>

(* The status probe is answered ahead of everything else.                  *)
Probe(t, i, r) ==
    /\ r.probe
    /\ Receive(t, i, r)
    /\ \/ /\ r.auth = "bearer"
          /\ pc' = [pc EXCEPT ![t] = "challenge"]
          /\ MayFetchKeys
          /\ UNCHANGED result
       \/ /\ r.auth # "bearer"
          /\ Answer(t, Respond(404, None))
          /\ UNCHANGED slot
    /\ UNCHANGED <<emitted, delivered>>

ChallengeChecked(t) ==
    /\ pc[t] = "challenge"
    /\ \E ok \in BOOLEAN :
          Answer(t, IF ok THEN Respond(200, Reporting(client[t])) ELSE Respond(404, None))
    /\ UNCHANGED <<clients, slots, client, request, verdict, emitted, recorded, delivered>>

SkipVerification(t, i, r) ==
    /\ r.entry = "handle" /\ ~r.probe /\ r.auth = "license" /\ config[i].enforcement = "disabled"
    /\ Receive(t, i, r)
    /\ Emit(t, i, r, TRUE, "not_validated", "allow")
    /\ Answer(t, Allow)
    /\ UNCHANGED slot

(* verify_and_record knows no enforcement mode.                            *)
Verify(t, i, r) ==
    /\ \/ r.entry = "handle" /\ ~r.probe /\ r.auth = "license" /\ config[i].enforcement # "disabled"
       \/ r.entry = "verify_and_record"
    /\ Receive(t, i, r)
    /\ pc' = [pc EXCEPT ![t] = "verify"]
    /\ MayFetchKeys
    /\ UNCHANGED <<result, emitted, delivered>>

(* _detect_bot: without a detector nobody is a bot.                        *)
DetectBot(i, r) ==
    \/ config[i].detector = "own" /\ r.bot
    \/ config[i].detector = "default" /\ DefaultBotDetector(r.user_agent, r.headers)

(* No License token: bot detection and the enforcement mode decide.        *)
(* BlockObserved is a faulty variant of BotAction; RecordAgain and         *)
(* EmitAtVerdict below are ones of RecordEvent and RecordFirst.            *)
BlockObserved(i) ==
    IF config[i].enforcement = "disabled" THEN <<"allow", Allow>>
    ELSE <<"block", Block("missing_license_token")>>
BotAction(i) ==
    CASE config[i].enforcement = "enforce" -> <<"block", Block("missing_license_token")>>
      [] config[i].enforcement = "observe" -> <<"observe", Signal>>
      [] config[i].enforcement = "disabled" -> <<"allow", Allow>>

WithoutToken(t, i, r) ==
    LET decision == IF DetectBot(i, r) THEN BotAction(i) ELSE <<"allow", Allow>> IN
    /\ ~r.probe /\ r.auth # "license"
    /\ Receive(t, i, r)
    /\ Emit(t, i, r, FALSE, "absent", decision[1])
    /\ Answer(t, decision[2])
    /\ UNCHANGED slot

(* The merchant's own bot_detector may raise, and nothing catches it.      *)
DetectorRaises(t, i, r) ==
    /\ config[i].detector = "own" /\ ~r.probe /\ r.auth # "license"
    /\ Receive(t, i, r)
    /\ Answer(t, Unwound("raised"))
    /\ UNCHANGED <<slot, emitted, delivered>>

(* verify_and_record_event: the verification returns, its outcome is       *)
(* posted, and only then is the request decided.  A failed post is         *)
(* swallowed, an error of another kind is not (RecordingRaises).  Input    *)
(* outside the normal invalid-token cases makes verify_license_token raise.*)
RecordAgain(t, v) ==
    /\ verdict' = [verdict EXCEPT ![t] = v]
    /\ recorded' = [recorded EXCEPT ![t] = @ + 1]
    /\ UseSlot("events")
    /\ \E where \in {"verify", "record"} : pc' = [pc EXCEPT ![t] = where]
RecordEvent(t, v) ==
    /\ verdict' = [verdict EXCEPT ![t] = v]
    /\ recorded' = [recorded EXCEPT ![t] = @ + 1]
    /\ UseSlot("events")
    /\ pc' = [pc EXCEPT ![t] = "record"]

EmitAtVerdict(t, v) ==
    /\ RecordEvent(t, v)
    /\ Emit(t, client[t], request[t], TRUE, IF v = "valid" THEN "valid" ELSE OutcomeOf[v],
            IF v = "valid" THEN "allow" ELSE "block")
RecordFirst(t, v) == RecordEvent(t, v) /\ UNCHANGED <<emitted, delivered>>

VerificationReturns(t) ==
    /\ pc[t] = "verify"
    /\ \/ /\ request[t].entry # "verify"
          /\ \E v \in Verdicts : RecordFirst(t, v)
          /\ UNCHANGED result
       \/ /\ request[t].entry = "verify"
          /\ \E v \in Verdicts : Answer(t, Verified(v))
          /\ UNCHANGED <<slot, verdict, recorded, emitted, delivered>>
       \/ /\ Answer(t, Unwound("raised"))
          /\ UNCHANGED <<slot, verdict, recorded, emitted, delivered>>
    /\ UNCHANGED <<clients, lost, client, request>>

Decide(t) ==
    LET v == verdict[t] IN
    /\ pc[t] = "record" /\ request[t].entry = "handle"
    /\ \/ /\ v = "valid"
          /\ Emit(t, client[t], request[t], TRUE, "valid", "allow")
          /\ Answer(t, Allow)
       \/ /\ v # "valid"
          /\ Emit(t, client[t], request[t], TRUE, OutcomeOf[v], "block")
          /\ Answer(t, Block(v))
    /\ UNCHANGED <<clients, slots, client, request, verdict, recorded>>

(* verify_and_record returns what it recorded, and reports nothing.        *)
ReturnRecorded(t) ==
    /\ pc[t] = "record" /\ request[t].entry = "verify_and_record"
    /\ Answer(t, Verified(verdict[t]))
    /\ UNCHANGED <<clients, slots, client, request, verdict, emitted, recorded, delivered>>

(* record_event swallows the errors of httpx only; another one (a base URL *)
(* httpx rejects, a client closed under the request) ends the request.     *)
(* AllowUnrecorded is a faulty variant: it lets the request through.       *)
AllowUnrecorded(t) ==
    /\ pc[t] = "record"
    /\ Answer(t, IF request[t].entry = "handle" THEN Allow ELSE Verified("valid"))
    /\ UNCHANGED <<clients, slots, client, request, verdict, emitted, recorded, delivered>>
RecordingRaises(t) ==
    /\ pc[t] = "record"
    /\ Answer(t, Unwound("raised"))
    /\ UNCHANGED <<clients, slots, client, request, verdict, emitted, recorded, delivered>>

CancelRequest(t) ==
    /\ pc[t] \in {"verify", "record", "challenge"}
    /\ Answer(t, Unwound("cancelled"))
    /\ UNCHANGED <<clients, slots, client, request, verdict, emitted, recorded, delivered>>

-----------------------------------------------------------------------------
(* aclose: the shared client of events, that of jwks, then the client's own*)
(* transport.  httpx marks its client closed before it awaits, which for   *)
(* _get_http_client is as good as an empty slot: others may refill the slot*)
(* that is emptied when the await ends.  CloseEveryTransport and           *)
(* DrainOnly are faulty variants of CloseTransport.                        *)
CloseEveryTransport(i) ==
    transport' = [j \in Built |-> IF transport[j] = "http" THEN "closed" ELSE transport[j]]
DrainOnly(i) == UNCHANGED transport
CloseTransport(i) ==
    transport' = [transport EXCEPT ![i] = IF @ = "http" THEN "closed" ELSE @]

LoseRefill(m) == lost' = [lost EXCEPT ![m] = IF slot[m] THEN @ + 1 ELSE @]

(* From the jwks client on, with the slots s the events part leaves.       *)
CloseJwks(c, i, s) ==
    /\ slot' = [s EXCEPT !["jwks"] = FALSE]
    /\ \/ /\ s["jwks"]
          /\ pc' = [pc EXCEPT ![c] = "jwks"]
          /\ UNCHANGED transport
       \/ /\ ~s["jwks"]
          /\ pc' = [pc EXCEPT ![c] = "done"]
          /\ CloseTransport(i)

StartClosing(c, i) ==
    /\ pc[c] = "idle"
    /\ client' = [client EXCEPT ![c] = i]
    /\ \/ /\ slot["events"]
          /\ slot' = [slot EXCEPT !["events"] = FALSE]
          /\ pc' = [pc EXCEPT ![c] = "events"]
          /\ UNCHANGED transport
       \/ /\ ~slot["events"]
          /\ CloseJwks(c, i, slot)
    /\ UNCHANGED <<instance, config, lost, handling>>

EventsClosed(c) ==
    /\ pc[c] = "events"
    /\ LoseRefill("events")
    /\ CloseJwks(c, client[c], [slot EXCEPT !["events"] = FALSE])
    /\ UNCHANGED <<instance, config, client, handling>>

JwksClosed(c) ==
    /\ pc[c] = "jwks"
    /\ pc' = [pc EXCEPT ![c] = "done"]
    /\ LoseRefill("jwks")
    /\ slot' = [slot EXCEPT !["jwks"] = FALSE]
    /\ CloseTransport(client[c])
    /\ UNCHANGED <<instance, config, client, handling>>

(* A cancelled aclose leaves what it had not come to as it was.            *)
CancelClosing(c) ==
    /\ pc[c] \in {"events", "jwks"}
    /\ pc' = [pc EXCEPT ![c] = "done"]
    /\ UNCHANGED <<clients, slots, client, handling>>

Handling(t) ==
    \/ \E i \in Built, r \in Requests[t] :
          \/ Probe(t, i, r) \/ SkipVerification(t, i, r)
          \/ Verify(t, i, r) \/ WithoutToken(t, i, r) \/ DetectorRaises(t, i, r)
    \/ \E r \in Requests[t] : VerifyOnly(t, r)
    \/ FetchAgain(t) \/ ChallengeChecked(t) \/ VerificationReturns(t)
    \/ Decide(t) \/ ReturnRecorded(t) \/ RecordingRaises(t) \/ CancelRequest(t)

Closing(c) ==
    \/ \E i \in Built : StartClosing(c, i)
    \/ EventsClosed(c) \/ JwksClosed(c)

Next ==
    \/ \E c \in Configs, reset \in BOOLEAN : Construct(c, reset)
    \/ ResetInstance
    \/ \E t \in Tasks : Handling(t)
    \/ \E c \in Closers : Closing(c) \/ CancelClosing(c)

Spec == Init /\ [][Next]_vars

-----------------------------------------------------------------------------
Answered(t) == pc[t] = "done" /\ result[t].action \in {"allow", "observe", "block"}
Mode(t) == config[client[t]].enforcement
HasToken(t) == request[t].auth = "license"

(* Each request that gets a decision is reported in exactly one event, with*)
(* the decision the caller gets; a probe, a call that only verifies, a     *)
(* request that raises and one that is cancelled in any await are not      *)
(* reported at all.                                                        *)
OneEventPerDecision ==
    \A t \in Tasks :
        IF Answered(t)
        THEN /\ Len(emitted[t]) = 1
             /\ LET event == emitted[t][1].decision IN
                /\ event.final_action = result[t].action
                /\ event.enforcement_mode = Mode(t)
                /\ event.has_token <=> HasToken(t)
                /\ event.token_outcome = "absent" <=> ~HasToken(t)
                /\ event.token_outcome = "valid" <=> verdict[t] = "valid"
                /\ event.token_outcome = "not_validated" <=> HasToken(t) /\ recorded[t] = 0
        ELSE emitted[t] = <<>>

(* A request is blocked for an invalid token, in every mode that validates,*)
(* or for being a bot without a token in ENFORCE; never otherwise, and with*)
(* a token never before its verification has been recorded.                *)
BlockedForAReason ==
    \A t \in Tasks :
        Answered(t) =>
            /\ result[t].action = "block" <=>
                  \/ HasToken(t) /\ Mode(t) # "disabled" /\ verdict[t] # "valid"
                  \/ ~HasToken(t) /\ DetectBot(client[t], request[t]) /\ Mode(t) = "enforce"
            /\ recorded[t] = 1 <=> HasToken(t) /\ Mode(t) # "disabled"
            /\ result[t].status = 503 <=> verdict[t] = "server_error"

(* A client whose status says it does not report never delivers an event,  *)
(* whatever transport it was given.                                        *)
SilentUnlessReporting ==
    \A t \in Tasks :
        (pc[t] = "done" /\ result[t].action = "respond" /\ result[t].status = 200
            /\ ~result[t].eventReporting) => client[t] \notin delivered

(* What the event of a request without a token tells is enough to run the  *)
(* default bot detector again: the warehouse can explain every decision    *)
(* that detector made.                                                     *)
EventsExplainDecisions ==
    \A t \in Tasks :
        (Answered(t) /\ ~HasToken(t) /\ config[client[t]].detector = "default" /\ Mode(t) # "disabled") =>
            LET event == emitted[t][1] IN
            event.decision.final_action # "allow" <=> DefaultBotDetector(event.user_agent, event.copied)

(* The decisions are those of AccessPolicy, whatever is recorded, reported,*)
(* built or closed meanwhile ("analytics emission is fire-and-forget and   *)
(* can never block, slow, or alter request handling", README).             *)
Question(i, r) ==
    [kind |-> IF r.probe THEN "probe" ELSE IF r.entry = "handle" THEN "visit" ELSE r.entry,
     token |-> r.auth = IF r.probe THEN "bearer" ELSE "license",
     mode |-> IF i = None THEN None ELSE config[i].enforcement,
     bot |-> i # None /\ DetectBot(i, r),
     own |-> i # None /\ config[i].detector = "own"]

Asked == [t \in Tasks |-> IF pc[t] = "idle" THEN None ELSE Question(client[t], request[t])]

Given ==
    [t \in Tasks |-> IF result[t] = None THEN None
                     ELSE [action |-> result[t].action, status |-> result[t].status]]

Policy == INSTANCE AccessPolicy WITH
    StatusOf <- [reason \in Reasons |-> Status(reason)],
    asked <- Asked, ruling <- verdict, answer <- Given
ASSUME QuestionAssumption == None \notin Policy!Questions

ImplementsAccessPolicy == Policy!Spec

(* No HTTP client is left open where nothing can close it any more: the    *)
(* slot that aclose empties holds the client that aclose closed.           *)
NoClientLost == \A m \in Slots : lost[m] = 0
=============================================================================
