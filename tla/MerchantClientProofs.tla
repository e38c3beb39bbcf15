-------------------------- MODULE MerchantClientProofs --------------------------
(***************************************************************************)
(* Proofs about MerchantClient, for any tasks, configurations, requests and*)
(* verdicts, and any number of clients.                                    *)
(*                                                                         *)
(* The inductive invariant says what a client's transport tells about its  *)
(* configuration (ClientsInv) and, for each await of a call, what has been *)
(* verified, recorded and emitted so far (TaskInv).                        *)
(***************************************************************************)
EXTENDS MerchantClient, SequenceTheorems, TLAPS

Domains ==
    /\ DOMAIN pc = Tasks \cup Closers
    /\ DOMAIN client = Tasks \cup Closers
    /\ DOMAIN request = Tasks /\ DOMAIN verdict = Tasks /\ DOMAIN result = Tasks
    /\ DOMAIN emitted = Tasks /\ DOMAIN recorded = Tasks

(* A transport that takes events belongs to a client that says it reports, *)
(* and so does every event that was delivered.                             *)
ClientsInv ==
    /\ \A i \in Built : transport[i] \in {"custom", "http"} => Reporting(i)
    /\ \A i \in delivered : i \in Built /\ Reporting(i)

(* The call task t works on; only verify does without a client.            *)
Placed(t) ==
    /\ request[t] \in Requests[t]
    /\ IF request[t].entry = "verify" THEN client[t] = None ELSE client[t] \in Built

(* What a call has done for task t when it is in each await, and when it   *)
(* has returned.                                                           *)
Untouched(t) == verdict[t] = None /\ recorded[t] = 0

Unreported(t) == emitted[t] = <<>>

Reported(t) ==
    /\ Len(emitted[t]) = 1 /\ DOMAIN emitted[t] = {1}
    /\ LET event == emitted[t][1].decision IN
       /\ event \in Decisions
       /\ event.final_action = result[t].action
       /\ event.enforcement_mode = Mode(t)
       /\ event.has_token <=> HasToken(t)
       /\ event.token_outcome = "absent" <=> ~HasToken(t)
       /\ event.token_outcome = "valid" <=> verdict[t] = "valid"
       /\ event.token_outcome = "not_validated" <=> HasToken(t) /\ recorded[t] = 0

Justified(t) ==
    /\ result[t].action = "block" <=>
          \/ HasToken(t) /\ Mode(t) # "disabled" /\ verdict[t] # "valid"
          \/ ~HasToken(t) /\ DetectBot(client[t], request[t]) /\ Mode(t) = "enforce"
    /\ recorded[t] = 1 <=> HasToken(t) /\ Mode(t) # "disabled"
    /\ result[t].status = 503 <=> verdict[t] = "server_error"

Explained(t) ==
    (~HasToken(t) /\ config[client[t]].detector = "default" /\ Mode(t) # "disabled") =>
        LET event == emitted[t][1] IN
        event.decision.final_action # "allow" <=> DefaultBotDetector(event.user_agent, event.copied)

DoneInv(t) ==
    /\ result[t] \in Results
    /\ \/ verdict[t] = None /\ recorded[t] = 0
       \/ verdict[t] \in Verdicts /\ recorded[t] = 1
    /\ result[t].action \in {"allow", "observe", "block"} =>
          /\ request[t].entry # "verify"
          /\ Reported(t) /\ Justified(t) /\ Explained(t)
    /\ result[t].action \notin {"allow", "observe", "block"} => Unreported(t)
    /\ result[t].action = "respond" /\ result[t].status = 200 =>
          /\ request[t].entry # "verify"
          /\ result[t].eventReporting = Reporting(client[t])

TaskInv(t) ==
    /\ pc[t] \in {"idle", "verify", "challenge", "record", "done"}
    /\ pc[t] # "idle" => Placed(t)
    /\ pc[t] \in {"challenge", "record"} => request[t].entry # "verify"
    /\ pc[t] \in {"verify", "challenge", "record"} => (request[t].probe <=> pc[t] = "challenge")
    /\ pc[t] \in {"idle", "verify", "challenge"} => Untouched(t)
    /\ pc[t] = "record" => verdict[t] \in Verdicts /\ recorded[t] = 1
    /\ pc[t] \in {"verify", "record"} =>
          HasToken(t) /\ (request[t].entry = "handle" => Mode(t) # "disabled")
    /\ pc[t] # "done" => Unreported(t) /\ result[t] = None
    /\ pc[t] = "done" => DoneInv(t)

StateInv ==
    /\ config \in Seq(Configs) /\ Len(config) <= MaxInstances
    /\ instance \in Built \cup {None}
    /\ transport \in Seq({"noop", "custom", "http", "closed"})
    /\ Len(transport) = Len(config)
    /\ slot \in [Slots -> BOOLEAN] /\ lost \in [Slots -> Nat]
    /\ \A c \in Closers :
          /\ pc[c] \in {"idle", "events", "jwks", "done"}
          /\ pc[c] # "idle" => client[c] \in Built

Inv == StateInv /\ Domains /\ ClientsInv /\ \A t \in Tasks : TaskInv(t)

(* What the invariant gives: the properties the model checker checks.      *)
LEMMA InvImplies ==
    Inv => /\ TypeOK /\ OneEventPerDecision /\ BlockedForAReason
           /\ SilentUnlessReporting /\ EventsExplainDecisions
<1> SUFFICES ASSUME Inv
             PROVE  /\ TypeOK /\ OneEventPerDecision /\ BlockedForAReason
                    /\ SilentUnlessReporting /\ EventsExplainDecisions
  OBVIOUS
<1>1. TypeOK
  <2>1. ASSUME NEW t \in Tasks
        PROVE  /\ pc[t] \in {"idle", "verify", "record", "challenge", "done"}
               /\ result[t] \in Results \cup {None}
               /\ (result[t] = None) <=> (pc[t] # "done")
               /\ (verdict[t] # None) <=> (recorded[t] = 1)
               /\ pc[t] = "record" => verdict[t] \in Verdicts
    BY NoneAssumption, VerdictsAssumption DEF Inv, TaskInv, DoneInv, Untouched
  <2>2. ASSUME NEW t \in Tasks, NEW n \in DOMAIN emitted[t]
        PROVE  emitted[t][n].decision \in Decisions
    <3>1. TaskInv(t)
      BY DEF Inv
    <3>2. CASE Unreported(t)
      BY <3>2 DEF Unreported
    <3>3. CASE Reported(t)
      BY <3>3 DEF Reported
    <3>4. QED BY <3>1, <3>2, <3>3 DEF TaskInv, DoneInv
  <2>3. QED BY <2>1, <2>2 DEF Inv, StateInv, ClientsInv, TypeOK
<1>2. OneEventPerDecision
  BY DEF Inv, TaskInv, DoneInv, OneEventPerDecision, Answered, Reported, Unreported
<1>3. BlockedForAReason
  BY DEF Inv, TaskInv, DoneInv, BlockedForAReason, Answered, Justified
<1>4. SilentUnlessReporting
  BY DEF Inv, TaskInv, DoneInv, SilentUnlessReporting, ClientsInv
<1>5. EventsExplainDecisions
  BY DEF Inv, TaskInv, DoneInv, EventsExplainDecisions, Answered, Explained
<1>6. QED BY <1>1, <1>2, <1>3, <1>4, <1>5

LEMMA InvInit == Init => Inv
BY ActorsAssumption
   DEF Init, Inv, StateInv, Domains, ClientsInv, TaskInv, Untouched, Unreported, Built, Slots

-----------------------------------------------------------------------------
(* A task keeps its part of the invariant in a step that leaves it alone:  *)
(* the configuration of a client that is built never changes.              *)
SameTask(t) ==
    /\ pc'[t] = pc[t] /\ client'[t] = client[t] /\ request'[t] = request[t]
    /\ verdict'[t] = verdict[t] /\ result'[t] = result[t]
    /\ emitted'[t] = emitted[t] /\ recorded'[t] = recorded[t]

LEMMA Frame ==
    ASSUME Inv, NEW t \in Tasks, SameTask(t), Len(config) \in Nat, Len(config') \in Nat,
           Len(config') >= Len(config), \A i \in Built : config'[i] = config[i]
    PROVE  TaskInv(t)'
<1>1. TaskInv(t)
  BY DEF Inv
<1>2. pc[t] # "idle" /\ request[t].entry # "verify" =>
         /\ client[t] \in Built /\ Mode(t)' = Mode(t)
         /\ config'[client[t]] = config[client[t]]
         /\ Reporting(client[t])' = Reporting(client[t])
         /\ DetectBot(client[t], request[t])' <=> DetectBot(client[t], request[t])
  BY <1>1 DEF TaskInv, Placed, Mode, Reporting, DetectBot, SameTask
<1>p. pc[t] # "idle" => Placed(t)'
  BY <1>1 DEF TaskInv, Placed, SameTask, Built
<1>3. HasToken(t)' = HasToken(t)
  BY DEF HasToken, SameTask
<1>4. CASE pc[t] # "done"
  BY <1>1, <1>2, <1>p, <1>3, <1>4 DEF TaskInv, Untouched, Unreported, SameTask
<1>5. CASE pc[t] = "done"
  <2>1. DoneInv(t)'
    <3>1. request[t].entry # "verify" =>
             /\ Justified(t)' <=> Justified(t)
             /\ Reported(t)' <=> Reported(t)
             /\ Explained(t)' <=> Explained(t)
      BY <1>2, <1>3, <1>5 DEF Reported, Justified, Explained, SameTask
    <3>2. QED
      BY <1>1, <1>2, <1>5, <3>1 DEF TaskInv, DoneInv, Unreported, SameTask
  <2>2. QED BY <1>p, <1>5, <2>1 DEF TaskInv, SameTask
<1>6. QED BY <1>4, <1>5

-----------------------------------------------------------------------------
(* The steps of handle_request: what each of them changes besides task t,  *)
(* and that it re-establishes the invariant of t.                          *)
Delivers ==
    \/ UNCHANGED delivered
    \/ \E i \in Built : transport[i] \in {"custom", "http"} /\ delivered' = delivered \cup {i}

Only(t, f, g) == DOMAIN g = DOMAIN f /\ \A u \in DOMAIN f \ {t} : g[u] = f[u]

OnlyTask(t) ==
    /\ UNCHANGED <<instance, config, transport, lost>>
    /\ slot' \in [Slots -> BOOLEAN]
    /\ Only(t, pc, pc') /\ Only(t, client, client') /\ Only(t, request, request')
    /\ Only(t, verdict, verdict') /\ Only(t, result, result')
    /\ Only(t, emitted, emitted') /\ Only(t, recorded, recorded')
    /\ Delivers

LEMMA TaskStepInv ==
    ASSUME Inv, NEW t \in Tasks, OnlyTask(t), TaskInv(t)'
    PROVE  Inv'
<1>1. Len(config) \in Nat
  BY DEF Inv, StateInv
<1>2. Domains'
  BY DEF Inv, Domains, OnlyTask, Only
<1>3. StateInv'
  <2>1. ASSUME NEW c \in Closers PROVE pc'[c] = pc[c] /\ client'[c] = client[c]
    <3>1. c \in (Tasks \cup Closers) \ {t}
      BY ActorsAssumption
    <3>2. QED BY <3>1 DEF Inv, Domains, OnlyTask, Only
  <2>2. QED BY <2>1 DEF Inv, StateInv, OnlyTask, Built
<1>4. ClientsInv'
  BY DEF Inv, ClientsInv, OnlyTask, Delivers, Built, Reporting
<1>5. ASSUME NEW u \in Tasks PROVE TaskInv(u)'
  <2>1. CASE u = t
    BY <2>1
  <2>2. CASE u # t
    <3>1. SameTask(u)
      BY <2>2 DEF Inv, Domains, OnlyTask, Only, SameTask
    <3>2. QED BY <1>1, <3>1, Frame DEF OnlyTask
  <2>3. QED BY <2>1, <2>2
<1>6. QED BY <1>2, <1>3, <1>4, <1>5 DEF Inv

LEMMA UseSlotTyped ==
    ASSUME Inv, NEW m \in Slots, UseSlot(m)
    PROVE  slot' \in [Slots -> BOOLEAN]
BY DEF Inv, StateInv, UseSlot

(* The event that a task passes to emit is its first and only one.         *)
LEMMA EmitEffect ==
    ASSUME Inv, NEW t \in Tasks, NEW e, emitted[t] = <<>>,
           emitted' = [emitted EXCEPT ![t] = Append(@, e)]
    PROVE  /\ Only(t, emitted, emitted') /\ Len(emitted'[t]) = 1
           /\ DOMAIN emitted'[t] = {1} /\ emitted'[t][1] = e
<1>1. DOMAIN emitted = Tasks
  BY DEF Inv, Domains
<1>2. emitted'[t] = Append(<<>>, e)
  BY <1>1
<1>3. Only(t, emitted, emitted')
  BY <1>1 DEF Only
<1>4. emitted'[t] = <<e>>
  BY <1>2
<1>5. QED BY <1>3, <1>4

(* A request that arrives: task t was idle, and handles r for client i.    *)
LEMMA ReceiveEffect ==
    ASSUME Inv, NEW t \in Tasks, NEW i, NEW r, Receive(t, i, r)
    PROVE  /\ pc[t] = "idle" /\ emitted[t] = <<>> /\ result[t] = None
           /\ verdict[t] = None /\ recorded[t] = 0
           /\ verdict' = verdict /\ recorded' = recorded
           /\ Only(t, client, client') /\ Only(t, request, request')
           /\ Only(t, verdict, verdict') /\ Only(t, recorded, recorded')
           /\ client'[t] = i /\ request'[t] = r
           /\ UNCHANGED <<instance, config, transport, lost>>
BY DEF Inv, TaskInv, Domains, Receive, Untouched, Unreported, Only, clients

LEMMA AnswerEffect ==
    ASSUME Inv, NEW t \in Tasks, NEW r, Answer(t, r)
    PROVE  /\ Only(t, pc, pc') /\ Only(t, result, result')
           /\ pc'[t] = "done" /\ result'[t] = r
BY DEF Inv, Domains, Answer, Only

(* None is none of the values it stands beside, a status code for one.     *)
LEMMA NoneIsNew ==
    None # 503 /\ None # 200 /\ None \notin Verdicts /\ None \notin Results
    /\ None # 1 /\ None # "valid" /\ None # "server_error"
<1>1. None # 503 /\ None # 200 /\ None # 1 /\ None # "valid" /\ None \notin Results
  BY NoneAssumption
<1>2. None # "server_error"
  BY NoneAssumption DEF Reasons, OutcomeOf
<1>3. None \notin Verdicts
  BY NoneAssumption, VerdictsAssumption
<1>4. QED BY <1>1, <1>2, <1>3

LEMMA ResultsTyped ==
    /\ Allow \in Results /\ Signal \in Results
    /\ \A reason \in Reasons : Block(reason) \in Results
    /\ \A status \in {200, 404}, b \in {TRUE, FALSE, None} : Respond(status, b) \in Results
    /\ \A how \in {"raised", "cancelled"} : Unwound(how) \in Results
    /\ \A v : Verified(v) \in Results /\ Verified(v).action \in {"valid", "invalid"}
BY DEF Results, Allow, Signal, Block, Status, Respond, Unwound, Verified

(* What an event tells is all that the default detector looks at.          *)
LEMMA CopiedExplains ==
    ASSUME NEW user_agent, NEW headers
    PROVE  DefaultBotDetector(user_agent, (headers \cup {"host"}) \cap Copied)
              <=> DefaultBotDetector(user_agent, headers)
<1>1. {"sec-ch-ua", "accept", "accept-language"} \subseteq Copied
  BY DEF Copied
<1>2. QED BY <1>1 DEF DefaultBotDetector

(* A request whose task returns without a decision leaves no event behind. *)
LEMMA UnreportedDone ==
    ASSUME Inv, NEW t \in Tasks, Unreported(t)', pc'[t] = "done",
           Placed(t)',
           result'[t] \in Results, result'[t].action \notin {"allow", "observe", "block"},
           verdict'[t] = verdict[t], recorded'[t] = recorded[t], pc[t] # "done",
           result'[t].action = "respond" /\ result'[t].status = 200 =>
              request'[t].entry # "verify" /\ result'[t].eventReporting = Reporting(client[t])'
    PROVE  TaskInv(t)'
<1>1. \/ verdict[t] = None /\ recorded[t] = 0
      \/ verdict[t] \in Verdicts /\ recorded[t] = 1
  BY DEF Inv, TaskInv, Untouched
<1>2. DoneInv(t)'
  BY <1>1 DEF DoneInv
<1>3. QED BY <1>2 DEF TaskInv

LEMMA ReceivedInv ==
    ASSUME Inv, NEW t \in Tasks, NEW i \in Built, NEW r \in Requests[t],
           \/ Probe(t, i, r) \/ SkipVerification(t, i, r) \/ Verify(t, i, r)
           \/ WithoutToken(t, i, r) \/ DetectorRaises(t, i, r)
    PROVE  Inv'
<1>1. Receive(t, i, r)
  BY DEF Probe, SkipVerification, Verify, WithoutToken, DetectorRaises
<1>2. /\ pc[t] = "idle" /\ emitted[t] = <<>> /\ result[t] = None
      /\ verdict[t] = None /\ recorded[t] = 0
      /\ verdict' = verdict /\ recorded' = recorded
      /\ Only(t, client, client') /\ Only(t, request, request')
      /\ Only(t, verdict, verdict') /\ Only(t, recorded, recorded')
      /\ client'[t] = i /\ request'[t] = r
      /\ UNCHANGED <<instance, config, transport, lost>>
  BY <1>1, ReceiveEffect
<1>3. /\ HasToken(t)' <=> r.auth = "license"
      /\ Mode(t)' = config[i].enforcement
  BY <1>2 DEF HasToken, Mode
<1>4. /\ config[i].enforcement \in Modes
      /\ r.entry \in {"handle", "verify", "verify_and_record"}
      /\ r.auth \in {"none", "bearer", "license"} /\ r.probe \in BOOLEAN
      /\ r.probe \/ r.auth # "license" => r.entry = "handle"
      /\ None \notin Verdicts /\ slot \in [Slots -> BOOLEAN]
      /\ Domains /\ 0 # 1
  BY ConfigsAssumption, RequestsAssumption, NoneIsNew DEF Inv, StateInv, Built
<1>p. r.entry # "verify" /\ Placed(t)'
  BY <1>2, <1>4 DEF Probe, SkipVerification, Verify, WithoutToken, DetectorRaises, Placed, Built
<1>5. CASE Probe(t, i, r)
  <2> USE DEF Probe
  <2>1. slot' \in [Slots -> BOOLEAN]
    BY <1>4, <1>5, UseSlotTyped DEF MayFetchKeys, Slots
  <2>2. emitted' = emitted /\ Only(t, emitted, emitted') /\ Delivers
    BY <1>5 DEF Only, Delivers
  <2>3. CASE r.auth = "bearer"
    <3>1. /\ Only(t, pc, pc') /\ pc'[t] = "challenge"
          /\ Only(t, result, result') /\ result'[t] = None
      BY <1>2, <1>4, <1>5, <2>3 DEF Domains, Only
    <3>2. TaskInv(t)'
      BY <1>2, <1>4, <1>p, <1>5, <2>2, <3>1 DEF TaskInv, Untouched, Unreported
    <3>3. QED BY <1>2, <2>1, <2>2, <3>1, <3>2, TaskStepInv DEF OnlyTask
  <2>4. CASE r.auth # "bearer"
    <3>1. Answer(t, Respond(404, None))
      BY <1>5, <2>4
    <3>2. /\ Only(t, pc, pc') /\ Only(t, result, result')
          /\ pc'[t] = "done" /\ result'[t] = Respond(404, None)
      BY <3>1, AnswerEffect
    <3>3. /\ result'[t] \in Results /\ result'[t].action = "respond"
          /\ result'[t].status # 200
      BY <3>2, ResultsTyped DEF Respond
    <3>4. Unreported(t)'
      BY <1>2, <2>2 DEF Unreported
    <3>5. TaskInv(t)'
      BY <1>2, <1>p, <3>2, <3>3, <3>4, UnreportedDone
    <3>6. QED BY <1>2, <2>1, <2>2, <3>2, <3>5, TaskStepInv DEF OnlyTask
  <2>5. QED BY <2>3, <2>4
<1>6. CASE SkipVerification(t, i, r)
  <2> DEFINE decision == [has_token |-> TRUE, token_outcome |-> "not_validated",
                          final_action |-> "allow", enforcement_mode |-> config[i].enforcement]
  <2>1. /\ r.entry = "handle" /\ r.auth = "license" /\ config[i].enforcement = "disabled"
        /\ Emit(t, i, r, TRUE, "not_validated", "allow") /\ Answer(t, Allow)
        /\ slot' = slot
    BY <1>6 DEF SkipVerification
  <2>2. /\ Only(t, emitted, emitted') /\ Delivers
        /\ Len(emitted'[t]) = 1 /\ DOMAIN emitted'[t] = {1}
        /\ emitted'[t][1] = AnalyticsEvent(r.user_agent, r.headers, decision)
    BY <1>2, <2>1, EmitEffect DEF Emit, Delivers
  <2>d. emitted'[t][1].decision = decision /\ decision \in Decisions
    BY <1>4, <2>2 DEF AnalyticsEvent, Decisions
  <2>3. /\ Only(t, pc, pc') /\ Only(t, result, result')
        /\ pc'[t] = "done" /\ result'[t] = Allow
    BY <2>1, AnswerEffect
  <2>4. Reported(t)'
    BY <1>2, <1>3, <2>1, <2>2, <2>d, <2>3, NoneIsNew DEF Reported, Allow, HasToken
  <2>5. Justified(t)'
    BY <1>2, <1>3, <1>4, <2>1, <2>3, NoneIsNew DEF Justified, Allow
  <2>6. DoneInv(t)'
    BY <1>2, <1>3, <2>1, <2>3, <2>4, <2>5, ResultsTyped DEF DoneInv, Allow, Explained
  <2>7. TaskInv(t)'
    BY <1>p, <2>3, <2>6 DEF TaskInv
  <2>8. QED BY <1>2, <1>4, <2>1, <2>2, <2>3, <2>7, TaskStepInv DEF OnlyTask
<1>7. CASE Verify(t, i, r)
  <2>1. slot' \in [Slots -> BOOLEAN]
    BY <1>4, <1>7, UseSlotTyped DEF Verify, MayFetchKeys, Slots
  <2>2. /\ Only(t, emitted, emitted') /\ Delivers /\ emitted'[t] = <<>>
        /\ Only(t, result, result') /\ result'[t] = None
        /\ Only(t, pc, pc') /\ pc'[t] = "verify"
        /\ r.auth = "license" /\ (r.entry = "handle" => config[i].enforcement # "disabled")
        /\ ~r.probe
    BY <1>2, <1>4, <1>7, RequestsAssumption DEF Verify, Domains, Only, Delivers
  <2>3. TaskInv(t)'
    BY <1>2, <1>3, <1>p, <2>2 DEF TaskInv, Untouched, Unreported
  <2>4. QED BY <1>2, <2>1, <2>2, <2>3, TaskStepInv DEF OnlyTask
<1>8. CASE WithoutToken(t, i, r)
  <2> DEFINE d == IF DetectBot(i, r) THEN BotAction(i) ELSE <<"allow", Allow>>
             decision == [has_token |-> FALSE, token_outcome |-> "absent",
                          final_action |-> d[1], enforcement_mode |-> config[i].enforcement]
  <2>1. /\ r.auth # "license"
        /\ Emit(t, i, r, FALSE, "absent", d[1]) /\ Answer(t, d[2])
        /\ slot' = slot
    BY <1>8 DEF WithoutToken
  <2>2. /\ d[1] \in {"allow", "observe", "block"} /\ d[2].action = d[1] /\ d[2] \in Results
        /\ d[1] = "block" <=> DetectBot(i, r) /\ config[i].enforcement = "enforce"
        /\ config[i].enforcement # "disabled" => (d[1] # "allow" <=> DetectBot(i, r))
        /\ d[2].status # 503
    BY <1>4, ResultsTyped, NoneIsNew
       DEF BotAction, Modes, Allow, Signal, Block, Status, Reasons, OutcomeOf
  <2> HIDE DEF d
  <2>3. /\ Only(t, emitted, emitted') /\ Delivers
        /\ Len(emitted'[t]) = 1 /\ DOMAIN emitted'[t] = {1}
        /\ emitted'[t][1] = AnalyticsEvent(r.user_agent, r.headers, decision)
    BY <1>2, <2>1, EmitEffect DEF Emit, Delivers
  <2>d. emitted'[t][1].decision = decision
    BY <2>3 DEF AnalyticsEvent
  <2>t. decision \in Decisions
    BY <1>4, <2>2 DEF Decisions, Reasons, OutcomeOf
  <2>4. /\ Only(t, pc, pc') /\ Only(t, result, result')
        /\ pc'[t] = "done" /\ result'[t] = d[2]
    BY <2>1, AnswerEffect
  <2>5. Reported(t)'
    BY <1>2, <1>3, <2>1, <2>2, <2>3, <2>d, <2>t, <2>4, NoneIsNew DEF Reported, HasToken
  <2>b. DetectBot(client[t], request[t])' <=> DetectBot(i, r)
    BY <1>2 DEF DetectBot
  <2>6. Justified(t)'
    BY <1>2, <1>3, <1>4, <2>1, <2>2, <2>b, <2>4, NoneIsNew DEF Justified
  <2>e. Explained(t)'
    <3>1. SUFFICES ASSUME config[i].detector = "default", config[i].enforcement # "disabled"
                   PROVE  d[1] # "allow" <=> DefaultBotDetector(emitted'[t][1].user_agent, emitted'[t][1].copied)
      BY <1>2, <1>3, <2>d DEF Explained
    <3>2. /\ emitted'[t][1].user_agent = r.user_agent
          /\ emitted'[t][1].copied = (r.headers \cup {"host"}) \cap Copied
      BY <2>3 DEF AnalyticsEvent
    <3>3. DetectBot(i, r) <=> DefaultBotDetector(r.user_agent, r.headers)
      BY <3>1 DEF DetectBot
    <3>4. QED BY <2>2, <3>1, <3>2, <3>3, CopiedExplains
  <2>7. DoneInv(t)'
    BY <1>2, <1>4, <2>1, <2>2, <2>4, <2>5, <2>6, <2>e DEF DoneInv
  <2>8. TaskInv(t)'
    BY <1>p, <2>4, <2>7 DEF TaskInv
  <2>9. QED BY <1>2, <1>4, <2>1, <2>3, <2>4, <2>8, TaskStepInv DEF OnlyTask
<1>9. CASE DetectorRaises(t, i, r)
  <2>1. /\ Answer(t, Unwound("raised")) /\ slot' = slot
        /\ emitted' = emitted /\ delivered' = delivered
    BY <1>9 DEF DetectorRaises
  <2>2. /\ Only(t, pc, pc') /\ Only(t, result, result')
        /\ pc'[t] = "done" /\ result'[t] = Unwound("raised")
    BY <2>1, AnswerEffect
  <2>3. result'[t] \in Results /\ result'[t].action = "raised"
    BY <2>2, ResultsTyped DEF Unwound
  <2>4. Unreported(t)'
    BY <1>2, <2>1 DEF Unreported
  <2>5. TaskInv(t)'
    BY <1>2, <1>p, <2>2, <2>3, <2>4, UnreportedDone
  <2>6. QED BY <1>2, <1>4, <2>1, <2>2, <2>5, TaskStepInv DEF OnlyTask, Only, Delivers
<1>10. QED BY <1>5, <1>6, <1>7, <1>8, <1>9

LEMMA VerifyOnlyInv ==
    ASSUME Inv, NEW t \in Tasks, NEW r \in Requests[t], VerifyOnly(t, r)
    PROVE  Inv'
<1>1. r.entry = "verify" /\ Receive(t, None, r)
  BY DEF VerifyOnly
<1>2. /\ pc[t] = "idle" /\ emitted[t] = <<>> /\ result[t] = None
      /\ verdict[t] = None /\ recorded[t] = 0
      /\ verdict' = verdict /\ recorded' = recorded
      /\ Only(t, client, client') /\ Only(t, request, request')
      /\ Only(t, verdict, verdict') /\ Only(t, recorded, recorded')
      /\ client'[t] = None /\ request'[t] = r
      /\ UNCHANGED <<instance, config, transport, lost>>
  BY <1>1, ReceiveEffect
<1>3. slot' \in [Slots -> BOOLEAN]
  BY UseSlotTyped DEF VerifyOnly, MayFetchKeys, Slots, Inv, StateInv
<1>4. /\ Only(t, emitted, emitted') /\ Delivers /\ emitted'[t] = <<>>
      /\ Only(t, result, result') /\ result'[t] = None
      /\ Only(t, pc, pc') /\ pc'[t] = "verify"
  BY <1>2 DEF VerifyOnly, Only, Delivers, Inv, Domains
<1>5. Placed(t)' /\ HasToken(t)' /\ request'[t].entry # "handle" /\ ~request'[t].probe
  BY <1>1, <1>2, RequestsAssumption DEF Placed, HasToken
<1>6. TaskInv(t)'
  BY <1>2, <1>4, <1>5 DEF TaskInv, Untouched, Unreported
<1>7. QED BY <1>2, <1>3, <1>4, <1>6, TaskStepInv DEF OnlyTask

-----------------------------------------------------------------------------
(* A task in one of its awaits: what the step it takes next finds.         *)
LEMMA AwaitingFacts ==
    ASSUME Inv, NEW t \in Tasks, pc[t] \in {"verify", "challenge", "record"}
    PROVE  /\ Placed(t)
           /\ pc[t] \in {"challenge", "record"} => request[t].entry # "verify" /\ client[t] \in Built
           /\ emitted[t] = <<>> /\ result[t] = None
           /\ pc[t] \in {"verify", "challenge"} => verdict[t] = None /\ recorded[t] = 0
           /\ pc[t] = "record" => verdict[t] \in Verdicts /\ recorded[t] = 1
           /\ pc[t] \in {"verify", "record"} =>
                 HasToken(t) /\ (request[t].entry = "handle" => Mode(t) # "disabled")
           /\ request[t].probe <=> pc[t] = "challenge"
           /\ slot \in [Slots -> BOOLEAN]
BY DEF Inv, StateInv, TaskInv, Placed, Untouched, Unreported

(* The steps that end a request without a decision.                        *)
LEMMA EndedInv ==
    ASSUME Inv, NEW t \in Tasks, pc[t] \in {"verify", "challenge", "record"},
           NEW res \in Results, Answer(t, res),
           res.action \notin {"allow", "observe", "block"},
           res.action = "respond" /\ res.status = 200 =>
              request[t].entry # "verify" /\ res.eventReporting = Reporting(client[t]),
           UNCHANGED <<instance, config, transport, lost, slot, client, request, verdict,
                       emitted, recorded, delivered>>
    PROVE  Inv'
<1>1. /\ Only(t, pc, pc') /\ Only(t, result, result')
      /\ pc'[t] = "done" /\ result'[t] = res
  BY AnswerEffect
<1>2. OnlyTask(t)
  BY <1>1, AwaitingFacts DEF OnlyTask, Only, Delivers
<1>3. Reporting(client[t])' = Reporting(client[t])
  BY DEF Reporting
<1>4. Placed(t)' /\ Unreported(t)'
  BY AwaitingFacts DEF Placed, Built, Unreported
<1>5. TaskInv(t)'
  BY <1>1, <1>3, <1>4, UnreportedDone
<1>6. QED BY <1>2, <1>5, TaskStepInv

LEMMA AwaitingInv ==
    ASSUME Inv, NEW t \in Tasks,
           \/ FetchAgain(t) \/ ChallengeChecked(t) \/ VerificationReturns(t)
           \/ Decide(t) \/ ReturnRecorded(t) \/ RecordingRaises(t) \/ CancelRequest(t)
    PROVE  Inv'
<1>1. CASE FetchAgain(t)
  <2>1. slot' \in [Slots -> BOOLEAN]
    BY <1>1, UseSlotTyped DEF FetchAgain, Slots
  <2>2. OnlyTask(t)
    BY <1>1, <2>1 DEF FetchAgain, OnlyTask, Only, Delivers, clients, handling
  <2>3. SameTask(t) /\ config' = config
    BY <1>1 DEF FetchAgain, SameTask, clients, handling
  <2>4. TaskInv(t)'
    BY <2>3, Frame DEF Inv, StateInv
  <2>5. QED BY <2>2, <2>4, TaskStepInv
<1>2. CASE ChallengeChecked(t)
  <2>1. PICK ok \in BOOLEAN :
          Answer(t, IF ok THEN Respond(200, Reporting(client[t])) ELSE Respond(404, None))
    BY <1>2 DEF ChallengeChecked
  <2> DEFINE res == IF ok THEN Respond(200, Reporting(client[t])) ELSE Respond(404, None)
  <2>2. client[t] \in Built /\ request[t].entry # "verify"
    BY <1>2, AwaitingFacts DEF ChallengeChecked
  <2>3. Reporting(client[t]) \in BOOLEAN
    BY <2>2, ConfigsAssumption DEF Reporting, Inv, StateInv, Built
  <2>4. res \in Results
    <3>1. CASE ~ok
      BY <3>1, ResultsTyped
    <3>2. CASE ok /\ Reporting(client[t])
      <4>1. res = Respond(200, TRUE)
        BY <3>2 DEF Respond
      <4>2. QED BY <4>1, ResultsTyped
    <3>3. CASE ok /\ ~Reporting(client[t])
      <4>1. res = Respond(200, FALSE)
        BY <2>3, <3>3 DEF Respond
      <4>2. QED BY <4>1, ResultsTyped
    <3>4. QED BY <3>1, <3>2, <3>3
  <2>5. /\ res.action = "respond"
        /\ res.status = 200 => res.eventReporting = Reporting(client[t])
    BY DEF Respond
  <2>6. Answer(t, res)
    BY <2>1
  <2> HIDE DEF res
  <2>7. QED
    BY <1>2, <2>2, <2>4, <2>5, <2>6, EndedInv DEF ChallengeChecked, clients, slots
<1>3. CASE VerificationReturns(t)
  <2>1. ASSUME NEW v \in Verdicts, RecordFirst(t, v), UNCHANGED result,
               request[t].entry # "verify"
        PROVE  Inv'
    <3>1. slot' \in [Slots -> BOOLEAN]
      BY <2>1, UseSlotTyped DEF RecordFirst, RecordEvent, Slots
    <3>2. /\ Only(t, pc, pc') /\ pc'[t] = "record"
          /\ Only(t, verdict, verdict') /\ verdict'[t] = v
          /\ Only(t, recorded, recorded') /\ recorded'[t] = 1
      BY <1>3, <2>1, AwaitingFacts
         DEF VerificationReturns, RecordFirst, RecordEvent, Only, Inv, Domains
    <3>3. OnlyTask(t)
      BY <1>3, <2>1, <3>1, <3>2
         DEF VerificationReturns, RecordFirst, OnlyTask, Only, Delivers, clients
    <3>4. /\ HasToken(t)' /\ (request'[t].entry = "handle" => Mode(t)' # "disabled")
          /\ Placed(t)' /\ request'[t].entry # "verify" /\ ~request'[t].probe
      BY <1>3, <2>1, AwaitingFacts DEF VerificationReturns, HasToken, Mode, Placed, Built, clients
    <3>5. TaskInv(t)'
      BY <1>3, <2>1, <3>2, <3>4, AwaitingFacts
         DEF VerificationReturns, RecordFirst, TaskInv, Unreported
    <3>6. QED BY <3>3, <3>5, TaskStepInv
  <2>2. CASE /\ Answer(t, Unwound("raised"))
             /\ UNCHANGED <<slot, verdict, recorded, emitted, delivered>>
    <3>1. Unwound("raised") \in Results /\ Unwound("raised").action = "raised"
      BY ResultsTyped DEF Unwound
    <3>2. QED
      BY <1>3, <2>2, <3>1, EndedInv DEF VerificationReturns, clients
  <2>3. ASSUME NEW v \in Verdicts, Answer(t, Verified(v)),
               UNCHANGED <<slot, verdict, recorded, emitted, delivered>>
        PROVE  Inv'
    BY <1>3, <2>3, ResultsTyped, EndedInv DEF VerificationReturns, clients
  <2>4. QED BY <1>3, <2>1, <2>2, <2>3 DEF VerificationReturns
<1>4. CASE Decide(t)
  <2> DEFINE v == verdict[t]
             o == IF v = "valid" THEN "valid" ELSE OutcomeOf[v]
             res == IF v = "valid" THEN Allow ELSE Block(v)
             decision == [has_token |-> TRUE, token_outcome |-> o, final_action |-> res.action,
                          enforcement_mode |-> config[client[t]].enforcement]
             event == AnalyticsEvent(request[t].user_agent, request[t].headers, decision)
  <2>1. /\ pc[t] = "record" /\ client[t] \in Built /\ Placed(t) /\ request[t].entry = "handle"
        /\ v \in Verdicts /\ recorded[t] = 1 /\ HasToken(t) /\ Mode(t) # "disabled"
        /\ emitted[t] = <<>> /\ slot \in [Slots -> BOOLEAN]
    BY <1>4, AwaitingFacts DEF Decide
  <2>2. /\ emitted' = [emitted EXCEPT ![t] = Append(@, event)] /\ Delivers
        /\ Answer(t, res)
        /\ UNCHANGED <<instance, config, transport, slot, lost, client, request, verdict, recorded>>
    BY <1>4, <2>1 DEF Decide, Emit, Delivers, Allow, Block, clients, slots
  <2>3. /\ v # "valid" => o \notin {"absent", "valid", "not_validated"}
        /\ v = "valid" => o = "valid"
    BY <2>1, VerdictsAssumption DEF Reasons, OutcomeOf
  <2>4. /\ res \in Results
        /\ v = "valid" => res.action = "allow" /\ res.status = None
        /\ v # "valid" => res.action = "block" /\ (res.status = 503 <=> v = "server_error")
    BY <2>1, VerdictsAssumption, ResultsTyped, NoneIsNew DEF Allow, Block, Status
  <2>5. /\ event.decision = decision
        /\ decision.has_token /\ decision.token_outcome = o /\ decision.final_action = res.action
        /\ decision.enforcement_mode = Mode(t)
    BY DEF Mode, AnalyticsEvent
  <2>t. decision \in Decisions
    BY <2>1, VerdictsAssumption, ConfigsAssumption
       DEF Decisions, Allow, Block, Inv, StateInv, Built
  <2> HIDE DEF v, o, res, decision, event
  <2>6. /\ Only(t, emitted, emitted') /\ Len(emitted'[t]) = 1
        /\ DOMAIN emitted'[t] = {1} /\ emitted'[t][1] = event
        /\ Only(t, pc, pc') /\ Only(t, result, result')
        /\ pc'[t] = "done" /\ result'[t] = res
    BY <2>1, <2>2, EmitEffect, AnswerEffect
  <2>7. /\ HasToken(t)' /\ Mode(t)' = Mode(t) /\ Placed(t)' /\ request'[t].entry # "verify"
        /\ recorded'[t] = 1 /\ verdict'[t] = v
    BY <2>1, <2>2 DEF HasToken, Mode, Placed, Built, v
  <2>8. Reported(t)'
    BY <2>3, <2>5, <2>t, <2>6, <2>7 DEF Reported
  <2>9. Justified(t)'
    BY <2>1, <2>4, <2>6, <2>7, NoneIsNew DEF Justified
  <2>10. DoneInv(t)'
    BY <2>1, <2>4, <2>6, <2>7, <2>8, <2>9 DEF DoneInv, Explained
  <2>11. TaskInv(t)'
    BY <2>6, <2>7, <2>10 DEF TaskInv
  <2>12. QED BY <2>1, <2>2, <2>6, <2>11, TaskStepInv DEF OnlyTask, Only
<1>5. CASE RecordingRaises(t)
  <2>1. Unwound("raised") \in Results /\ Unwound("raised").action = "raised"
    BY ResultsTyped DEF Unwound
  <2>2. QED
    BY <1>5, <2>1, EndedInv DEF RecordingRaises, clients, slots
<1>6. CASE CancelRequest(t)
  <2>1. Unwound("cancelled") \in Results /\ Unwound("cancelled").action = "cancelled"
    BY ResultsTyped DEF Unwound
  <2>2. QED
    BY <1>6, <2>1, EndedInv DEF CancelRequest, clients, slots
<1>7. CASE ReturnRecorded(t)
  BY <1>7, ResultsTyped, EndedInv DEF ReturnRecorded, clients, slots
<1>8. QED BY <1>1, <1>2, <1>3, <1>4, <1>5, <1>6, <1>7

-----------------------------------------------------------------------------
(* The steps that build, forget and close clients leave every task alone.  *)
LEMMA ClientStepInv ==
    ASSUME Inv, UNCHANGED <<request, verdict, result, emitted, recorded, delivered>>,
           Domains', StateInv', ClientsInv',
           Len(config') >= Len(config), \A i \in Built : config'[i] = config[i],
           \A t \in Tasks : pc'[t] = pc[t] /\ client'[t] = client[t]
    PROVE  Inv'
<1>1. Len(config) \in Nat /\ Len(config') \in Nat
  BY DEF Inv, StateInv
<1>2. ASSUME NEW t \in Tasks PROVE TaskInv(t)'
  BY <1>1, Frame DEF SameTask
<1>3. QED BY <1>2 DEF Inv

LEMMA ForgetInv ==
    ASSUME Inv, instance' = None, UNCHANGED <<config, transport, slots, pc, client, handling>>
    PROVE  Inv'
<1>1. Domains' /\ StateInv' /\ ClientsInv'
  BY DEF Inv, Domains, StateInv, ClientsInv, Built, Reporting, slots, handling
<1>2. QED BY <1>1, ClientStepInv DEF handling, Inv, StateInv

LEMMA ConstructInv ==
    ASSUME Inv, NEW c \in Configs, NEW reset \in BOOLEAN, Construct(c, reset)
    PROVE  Inv'
<1>1. CASE c.api_key = ""
  BY <1>1, ForgetInv DEF Construct
<1>2. CASE c.api_key # ""
  <2>1. /\ Len(config) < MaxInstances
        /\ config' = Append(config, c)
        /\ transport' = Append(transport, Transport(c))
        /\ instance' = Len(config) + 1
        /\ UNCHANGED <<slots, pc, client, handling>>
    BY <1>2 DEF Construct
  <2>2. /\ config' \in Seq(Configs) /\ Len(config') = Len(config) + 1
        /\ \A i \in Built : config'[i] = config[i]
        /\ config'[Len(config) + 1] = c
        /\ Len(config) \in Nat /\ Len(transport) = Len(config)
    BY <2>1, AppendProperties DEF Inv, StateInv, Built
  <2>3. /\ transport' \in Seq({"noop", "custom", "http", "closed"})
        /\ Len(transport') = Len(transport) + 1
        /\ \A i \in Built : transport'[i] = transport[i]
        /\ transport'[Len(config) + 1] = Transport(c)
    BY <2>1, <2>2, AppendProperties DEF Inv, StateInv, Built, Transport
  <2>4. Built' = Built \cup {Len(config) + 1}
    BY <2>2 DEF Built
  <2>5. Domains'
    BY <2>1 DEF Inv, Domains, handling
  <2>6. StateInv'
    BY <2>1, <2>2, <2>3, <2>4, ActorsAssumption DEF Inv, StateInv, slots
  <2>7. ClientsInv'
    <3>1. \A i \in Built : Reporting(i)' = Reporting(i)
      BY <2>2 DEF Reporting
    <3>2. PICK n \in Nat : n = Len(config) + 1
      BY <2>2
    <3>3. transport'[n] \in {"custom", "http"} => Reporting(n)'
      BY <2>2, <2>3, <3>2 DEF Transport, Reporting
    <3>4. \A i \in Built' : transport'[i] \in {"custom", "http"} => Reporting(i)'
      BY <2>3, <2>4, <3>1, <3>2, <3>3 DEF Inv, ClientsInv
    <3>5. \A i \in delivered' : i \in Built' /\ Reporting(i)'
      BY <2>1, <2>4, <3>1 DEF Inv, ClientsInv, handling
    <3>6. QED BY <3>4, <3>5 DEF ClientsInv
  <2>8. /\ UNCHANGED <<request, verdict, result, emitted, recorded, delivered>>
        /\ Len(config') >= Len(config)
        /\ \A t \in Tasks : pc'[t] = pc[t] /\ client'[t] = client[t]
    BY <2>1, <2>2 DEF handling
  <2>9. QED BY <2>2, <2>5, <2>6, <2>7, <2>8, ClientStepInv
<1>3. QED BY <1>1, <1>2

LEMMA CloseTransportEffect ==
    ASSUME Inv, NEW i \in Built, CloseTransport(i)
    PROVE  /\ transport' \in Seq({"noop", "custom", "http", "closed"})
           /\ Len(transport') = Len(transport)
           /\ \A j \in Built : transport'[j] \in {"custom", "http"} => transport'[j] = transport[j]
BY ExceptSeq DEF Inv, StateInv, CloseTransport, Built

LEMMA ClosingInv ==
    ASSUME Inv, NEW c \in Closers,
           \/ \E i \in Built : StartClosing(c, i)
           \/ EventsClosed(c) \/ JwksClosed(c) \/ CancelClosing(c)
    PROVE  Inv'
<1>1. /\ UNCHANGED <<instance, config, handling>>
      /\ pc[c] # "idle" => client[c] \in Built
      /\ c \in Tasks \cup Closers /\ Domains
      /\ slot \in [Slots -> BOOLEAN] /\ lost \in [Slots -> Nat]
  BY DEF StartClosing, EventsClosed, JwksClosed, CancelClosing, clients, Inv, StateInv
<1>2. /\ Only(c, pc, pc') /\ pc'[c] \in {"events", "jwks", "done"}
      /\ Only(c, client, client') /\ client'[c] \in Built
  BY <1>1 DEF StartClosing, EventsClosed, JwksClosed, CancelClosing, CloseJwks, Only, Domains
<1>3. lost' \in [Slots -> Nat]
  BY <1>1 DEF StartClosing, EventsClosed, JwksClosed, CancelClosing, LoseRefill, slots
<1>4. slot' \in [Slots -> BOOLEAN]
  BY <1>1 DEF StartClosing, EventsClosed, JwksClosed, CancelClosing, CloseJwks, slots, Slots
<1>5. /\ transport' \in Seq({"noop", "custom", "http", "closed"})
      /\ Len(transport') = Len(transport)
      /\ \A j \in Built : transport'[j] \in {"custom", "http"} => transport'[j] = transport[j]
  <2>1. UNCHANGED transport \/ \E i \in Built : CloseTransport(i)
    BY <1>1 DEF StartClosing, EventsClosed, JwksClosed, CancelClosing, CloseJwks, clients
  <2>2. QED BY <2>1, CloseTransportEffect DEF Inv, StateInv
<1>6. Domains' /\ StateInv'
  BY <1>1, <1>2, <1>3, <1>4, <1>5, ActorsAssumption
     DEF Inv, StateInv, Domains, Only, handling, Built
<1>7. ClientsInv'
  BY <1>1, <1>5 DEF Inv, ClientsInv, Built, Reporting, handling
<1>8. \A t \in Tasks : pc'[t] = pc[t] /\ client'[t] = client[t]
  BY <1>1, <1>2, ActorsAssumption DEF Only, Domains
<1>9. QED BY <1>1, <1>6, <1>7, <1>8, ClientStepInv DEF Inv, StateInv, handling

-----------------------------------------------------------------------------
LEMMA InvNext == Inv /\ [Next]_vars => Inv'
<1> SUFFICES ASSUME Inv, [Next]_vars PROVE Inv'
  OBVIOUS
<1>1. ASSUME NEW c \in Configs, NEW reset \in BOOLEAN, Construct(c, reset) PROVE Inv'
  BY <1>1, ConstructInv
<1>2. CASE ResetInstance
  BY <1>2, ForgetInv DEF ResetInstance
<1>3. ASSUME NEW t \in Tasks, Handling(t) PROVE Inv'
  <2>1. ASSUME NEW i \in Built, NEW r \in Requests[t],
               \/ Probe(t, i, r) \/ SkipVerification(t, i, r) \/ Verify(t, i, r)
               \/ WithoutToken(t, i, r) \/ DetectorRaises(t, i, r)
        PROVE  Inv'
    BY <2>1, ReceivedInv
  <2>2. ASSUME NEW r \in Requests[t], VerifyOnly(t, r) PROVE Inv'
    BY <2>2, VerifyOnlyInv
  <2>3. QED BY <1>3, <2>1, <2>2, AwaitingInv DEF Handling
<1>4. ASSUME NEW c \in Closers, Closing(c) \/ CancelClosing(c) PROVE Inv'
  BY <1>4, ClosingInv DEF Closing
<1>5. CASE UNCHANGED vars
  <2>1. Domains' /\ StateInv' /\ ClientsInv'
    BY <1>5 DEF vars, clients, slots, handling, Inv, Domains, StateInv, ClientsInv, Built, Reporting
  <2>2. QED
    BY <1>5, <2>1, ClientStepInv DEF vars, clients, handling, Inv, StateInv
<1>6. QED BY <1>1, <1>2, <1>3, <1>4, <1>5 DEF Next

LEMMA InvHolds == Spec => []Inv
BY InvInit, InvNext, PTL DEF Spec

(* Every reachable state is well typed; in particular a task has a result  *)
(* exactly when it has returned, and a verdict exactly when it was recorded*)
THEOREM TypeCorrect == Spec => []TypeOK
BY InvHolds, InvImplies, PTL

(* Every decided request is reported in exactly one event, which agrees    *)
(* with the decision, and no other request is reported.                    *)
THEOREM OneEventPerDecisionHolds == Spec => []OneEventPerDecision
BY InvHolds, InvImplies, PTL

(* A request is blocked only for an invalid token in a validating mode, or *)
(* for being a bot without a token in ENFORCE, after it was recorded.      *)
THEOREM BlockedForAReasonHolds == Spec => []BlockedForAReason
BY InvHolds, InvImplies, PTL

(* A client whose status denies event reporting never delivers an event.   *)
THEOREM SilentUnlessReportingHolds == Spec => []SilentUnlessReporting
BY InvHolds, InvImplies, PTL

(* From the event of a request without a token the default detector, run   *)
(* again, comes to the decision that was made.                             *)
THEOREM EventsExplainDecisionsHolds == Spec => []EventsExplainDecisions
BY InvHolds, InvImplies, PTL
=============================================================================
