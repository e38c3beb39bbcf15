-------------------------- MODULE MerchantPolicyProofs --------------------------
(***************************************************************************)
(* MerchantClient implements AccessPolicy: a step of a call that comes in  *)
(* is an Ask, one that records a verdict a Rule, one that ends a call a    *)
(* Rule, a Conclude or an Unwind, and every other step leaves what was     *)
(* asked, ruled and answered alone.                                        *)
(***************************************************************************)
EXTENDS MerchantClientProofs

Awaits == {"verify", "challenge", "record"}

(* The maps to the policy's variables, one task at a time.                 *)
LEMMA AskedNow ==
    /\ Asked = [t \in Tasks |-> Asked[t]] /\ Given = [t \in Tasks |-> Given[t]]
    /\ Asked' = [t \in Tasks |-> Asked'[t]] /\ Given' = [t \in Tasks |-> Given'[t]]
BY DEF Asked, Given, Question, DetectBot

LEMMA AskedOf ==
    ASSUME NEW t \in Tasks
    PROVE  /\ Asked[t] = IF pc[t] = "idle" THEN None ELSE Question(client[t], request[t])
           /\ Asked'[t] = IF pc'[t] = "idle" THEN None ELSE Question(client[t], request[t])'
<1>1. Asked[t] = IF pc[t] = "idle" THEN None ELSE Question(client[t], request[t])
  BY DEF Asked
<1>2. Asked'[t] = IF pc'[t] = "idle" THEN None ELSE Question(client[t], request[t])'
  BY DEF Asked, Question, DetectBot
<1>3. QED BY <1>1, <1>2

LEMMA GivenOf ==
    ASSUME NEW t \in Tasks
    PROVE  /\ Given[t] = IF result[t] = None THEN None
                         ELSE Policy!Reply(result[t].action, result[t].status)
           /\ Given'[t] = IF result'[t] = None THEN None
                          ELSE Policy!Reply(result'[t].action, result'[t].status)
BY DEF Given, Policy!Reply

(* A call that a step leaves in its await, or does not touch, is the same  *)
(* to the policy.                                                          *)
SameCall(t) ==
    /\ pc'[t] = "idle" <=> pc[t] = "idle"
    /\ client'[t] = client[t] /\ request'[t] = request[t] /\ result'[t] = result[t]

LEMMA QuestionKept ==
    ASSUME Inv, NEW t \in Tasks, pc[t] # "idle", \A i \in Built : config'[i] = config[i],
           client'[t] = client[t], request'[t] = request[t]
    PROVE  Question(client[t], request[t])' = Question(client[t], request[t])
<1>1. client[t] = None \/ client[t] \in Built
  BY DEF Inv, TaskInv, Placed
<1>2. CASE client[t] = None
  BY <1>2 DEF Question
<1>3. CASE client[t] \in Built
  <2>1. config'[client[t]] = config[client[t]]
    BY <1>3
  <2>2. QED BY <2>1 DEF Question, DetectBot
<1>4. QED BY <1>1, <1>2, <1>3

LEMMA SameCallKept ==
    ASSUME Inv, NEW t \in Tasks, SameCall(t), \A i \in Built : config'[i] = config[i]
    PROVE  Asked'[t] = Asked[t] /\ Given'[t] = Given[t]
<1>1. Given'[t] = Given[t]
  BY GivenOf DEF SameCall
<1>2. CASE pc[t] = "idle"
  BY <1>1, <1>2, AskedOf DEF SameCall
<1>3. CASE pc[t] # "idle"
  BY <1>1, <1>3, AskedOf, QuestionKept DEF SameCall
<1>4. QED BY <1>2, <1>3

(* A step that touches no call stutters.                                   *)
LEMMA NoCallStep ==
    ASSUME Inv, \A i \in Built : config'[i] = config[i],
           \A t \in Tasks : /\ pc'[t] = pc[t] /\ client'[t] = client[t]
                            /\ request'[t] = request[t] /\ result'[t] = result[t],
           verdict' = verdict
    PROVE  UNCHANGED Policy!vars
<1>1. ASSUME NEW t \in Tasks PROVE Asked'[t] = Asked[t] /\ Given'[t] = Given[t]
  BY SameCallKept DEF SameCall
<1>2. Asked' = Asked /\ Given' = Given
  BY <1>1, AskedNow
<1>3. QED BY <1>2 DEF Policy!vars

(* A step of Handling(t) touches at most the call of t.                    *)
CallStep(t) ==
    /\ config' = config
    /\ Only(t, pc, pc') /\ Only(t, client, client')
    /\ Only(t, request, request') /\ Only(t, result, result')

LEMMA OnlyCall ==
    ASSUME Inv, NEW t \in Tasks, CallStep(t)
    PROVE  /\ Asked' = [Asked EXCEPT ![t] = Asked'[t]]
           /\ Given' = [Given EXCEPT ![t] = Given'[t]]
           /\ Asked'[t] = Asked[t] => Asked' = Asked
           /\ Given'[t] = Given[t] => Given' = Given
<1>1. ASSUME NEW u \in Tasks \ {t}
      PROVE  Asked'[u] = Asked[u] /\ Given'[u] = Given[u]
  <2>1. SameCall(u)
    BY DEF CallStep, Only, SameCall, Inv, Domains
  <2>2. QED BY <2>1, SameCallKept DEF CallStep
<1>2. QED BY <1>1, AskedNow

(* What is asked of a client, and of the class, is a question.             *)
LEMMA QuestionTyped ==
    ASSUME Inv, NEW t \in Tasks, NEW r \in Requests[t], NEW i \in Built \cup {None}
    PROVE  Question(i, r) \in Policy!Questions
<1>1. i # None => config[i].enforcement \in Modes
  BY ConfigsAssumption DEF Inv, StateInv, Built
<1>2. r.entry \in {"handle", "verify", "verify_and_record"}
  BY RequestsAssumption
<1>3. Question(i, r).bot \in BOOLEAN /\ Question(i, r).own \in BOOLEAN
  BY DEF Question
<1>4. QED BY <1>1, <1>2, <1>3 DEF Question, Policy!Questions

(* A call that comes in is an Ask.                                         *)
LEMMA AskStep ==
    ASSUME Inv, NEW t \in Tasks, NEW i \in Built \cup {None}, NEW r \in Requests[t],
           CallStep(t), pc[t] = "idle", pc'[t] # "idle", client'[t] = i, request'[t] = r,
           \/ Policy!NeedsVerdict(Question(i, r)) /\ Given'[t] = None
           \/ ~Policy!NeedsVerdict(Question(i, r)) /\ Given'[t] = Policy!AtOnce(Question(i, r))
           \/ /\ Question(i, r).kind = "visit" /\ ~Question(i, r).token /\ Question(i, r).own
              /\ Given'[t] = Policy!Reply("raised", None),
           verdict' = verdict
    PROVE  Policy!Ask(t)
<1>1. Asked[t] = None /\ Given[t] = None
  BY AskedOf, GivenOf DEF Inv, TaskInv
<1>2. Question(client[t], request[t])' = Question(i, r)
  BY DEF Question, DetectBot, CallStep
<1>3. Asked'[t] = Question(i, r)
  BY <1>2, AskedOf
<1>4. QED
  BY <1>1, <1>3, OnlyCall, QuestionTyped DEF Policy!Ask, Policy!Give

(* A call in one of its awaits is pending.                                 *)
LEMMA PendingCall ==
    ASSUME Inv, NEW t \in Tasks, pc[t] \in Awaits
    PROVE  /\ Policy!Pending(t) /\ Asked[t] = Question(client[t], request[t])
           /\ verdict[t] # None <=> pc[t] = "record"
<1>1. Given[t] = None
  BY GivenOf DEF Inv, TaskInv, Awaits
<1>2. Question(client[t], request[t]) \in Policy!Questions
  <2>1. request[t] \in Requests[t] /\ client[t] \in Built \cup {None}
    BY DEF Inv, TaskInv, Placed, Awaits
  <2>2. QED BY <2>1, QuestionTyped
<1>3. Asked[t] = Question(client[t], request[t]) /\ Asked[t] # None
  BY <1>2, AskedOf, QuestionAssumption DEF Awaits
<1>4. verdict[t] # None <=> pc[t] = "record"
  <2>1. None \notin Verdicts
    BY VerdictsAssumption, NoneAssumption
  <2>2. QED BY <2>1 DEF Inv, TaskInv, Untouched, Awaits
<1>5. QED BY <1>1, <1>3, <1>4 DEF Policy!Pending

LEMMA AskedKept ==
    ASSUME Inv, NEW t \in Tasks, CallStep(t), pc[t] \in Awaits, pc'[t] # "idle",
           client'[t] = client[t], request'[t] = request[t]
    PROVE  Asked' = Asked
<1>1. Asked[t] = Question(client[t], request[t])
  BY PendingCall
<1>2. Asked'[t] = Asked[t]
  BY <1>1, AskedOf, QuestionKept DEF CallStep, Awaits
<1>3. QED BY <1>2, OnlyCall

(* A call that ends follows from its verdict, or unwinds.                  *)
Ends(t) == Policy!Rule(t) \/ Policy!Conclude(t) \/ Policy!Unwind(t)

LEMMA ConcludeStep ==
    ASSUME Inv, NEW t \in Tasks, CallStep(t), pc[t] \in Awaits,
           pc'[t] = "done", client'[t] = client[t], request'[t] = request[t], verdict' = verdict,
           LET q == Question(client[t], request[t]) IN
           \/ /\ pc[t] # "record" /\ ~Policy!IsRecorded(q)
              /\ \E v \in Policy!Rulings : Given'[t] = Policy!After(q, v)
           \/ pc[t] = "record" /\ Given'[t] = Policy!After(q, verdict[t])
           \/ Given'[t] = Policy!Reply("cancelled", None)
           \/ q.kind # "probe" /\ Given'[t] = Policy!Reply("raised", None)
    PROVE  Ends(t)
<1> DEFINE q == Question(client[t], request[t])
<1>1. /\ Policy!Pending(t) /\ Asked[t] = q /\ Asked' = Asked
      /\ verdict[t] # None <=> pc[t] = "record"
  BY PendingCall, AskedKept
<1>2. Given' = [Given EXCEPT ![t] = Given'[t]]
  BY OnlyCall
<1> HIDE DEF q
<1>3. CASE /\ pc[t] # "record" /\ ~Policy!IsRecorded(q)
           /\ \E v \in Policy!Rulings : Given'[t] = Policy!After(q, v)
  BY <1>1, <1>2, <1>3 DEF Ends, Policy!Rule, Policy!Give
<1>4. CASE pc[t] = "record" /\ Given'[t] = Policy!After(q, verdict[t])
  BY <1>1, <1>2, <1>4 DEF Ends, Policy!Conclude, Policy!Give
<1>5. CASE \/ Given'[t] = Policy!Reply("cancelled", None)
           \/ q.kind # "probe" /\ Given'[t] = Policy!Reply("raised", None)
  BY <1>1, <1>2, <1>5 DEF Ends, Policy!Unwind, Policy!Give
<1>6. QED BY <1>3, <1>4, <1>5 DEF q

-----------------------------------------------------------------------------
LEMMA ReceivedStep ==
    ASSUME Inv, NEW t \in Tasks, NEW i, NEW r, Receive(t, i, r)
    PROVE  /\ pc[t] = "idle" /\ result[t] = None /\ config' = config
           /\ Only(t, client, client') /\ Only(t, request, request')
           /\ client'[t] = i /\ request'[t] = r /\ verdict' = verdict
BY ReceiveEffect DEF Receive

LEMMA KeptOnly ==
    ASSUME NEW t, NEW f, NEW g, g = f
    PROVE  Only(t, f, g)
BY DEF Only

LEMMA MovesOnly ==
    ASSUME Inv, NEW t \in Tasks, NEW where, pc' = [pc EXCEPT ![t] = where]
    PROVE  Only(t, pc, pc') /\ pc'[t] = where
BY DEF Inv, Domains, Only

LEMMA AnswerGiven ==
    ASSUME Inv, NEW t \in Tasks, NEW res, res # None, Answer(t, res)
    PROVE  /\ Only(t, pc, pc') /\ Only(t, result, result') /\ pc'[t] = "done"
           /\ Given'[t] = Policy!Reply(res.action, res.status)
<1>1. /\ Only(t, pc, pc') /\ Only(t, result, result')
      /\ pc'[t] = "done" /\ result'[t] = res
  BY AnswerEffect
<1>2. QED BY <1>1, GivenOf

(* Every way a call comes in is an Ask.                                    *)
LEMMA ArrivalAsks ==
    ASSUME Inv, NEW t \in Tasks, NEW i \in Built, NEW r \in Requests[t],
           \/ Probe(t, i, r) \/ SkipVerification(t, i, r) \/ Verify(t, i, r)
           \/ WithoutToken(t, i, r) \/ DetectorRaises(t, i, r)
    PROVE  Policy!Ask(t)
<1>1. /\ pc[t] = "idle" /\ result[t] = None /\ config' = config
      /\ Only(t, client, client') /\ Only(t, request, request')
      /\ client'[t] = i /\ request'[t] = r /\ verdict' = verdict
  BY ReceivedStep DEF Probe, SkipVerification, Verify, WithoutToken, DetectorRaises
<1>2. /\ config[i].enforcement \in Modes /\ i # None
      /\ r.entry \in {"handle", "verify", "verify_and_record"} /\ r.probe \in BOOLEAN
      /\ r.auth \in {"none", "bearer", "license"}
      /\ r.entry # "handle" => ~r.probe /\ r.auth = "license"
      /\ i \in Built \cup {None}
  BY ConfigsAssumption, RequestsAssumption, NoneAssumption DEF Inv, StateInv, Built
<1> DEFINE q == Question(i, r)
<1>3. /\ q.kind = IF r.probe THEN "probe" ELSE IF r.entry = "handle" THEN "visit" ELSE r.entry
      /\ q.token <=> r.auth = IF r.probe THEN "bearer" ELSE "license"
      /\ q.mode = config[i].enforcement
      /\ q.bot <=> DetectBot(i, r)
      /\ q.own <=> config[i].detector = "own"
  BY <1>2 DEF Question
<1> HIDE DEF q
<1>4. CASE Probe(t, i, r)
  <2>1. CASE r.auth = "bearer"
    <3>1. Only(t, pc, pc') /\ pc'[t] = "challenge"
      BY <1>4, <2>1, MovesOnly DEF Probe
    <3>2. result' = result /\ Given'[t] = None
      BY <1>1, <1>4, <2>1, GivenOf DEF Probe
    <3>3. Policy!NeedsVerdict(q)
      BY <1>3, <1>4, <2>1 DEF Probe, Policy!NeedsVerdict
    <3>4. QED BY <1>1, <1>2, <3>1, <3>2, <3>3, KeptOnly, AskStep DEF CallStep, q
  <2>2. CASE r.auth # "bearer"
    <3>1. Answer(t, Respond(404, None)) /\ Respond(404, None) # None
      BY <1>4, <2>2, ResultsTyped, NoneIsNew DEF Probe
    <3>2. Given'[t] = Policy!Reply("respond", 404)
      BY <3>1, AnswerGiven DEF Respond
    <3>3. ~Policy!NeedsVerdict(q) /\ Policy!AtOnce(q) = Policy!Reply("respond", 404)
      BY <1>3, <1>4, <2>2 DEF Probe, Policy!NeedsVerdict, Policy!AtOnce
    <3>4. QED BY <1>1, <1>2, <3>1, <3>2, <3>3, AnswerGiven, AskStep DEF CallStep, q
  <2>3. QED BY <2>1, <2>2
<1>5. CASE SkipVerification(t, i, r)
  <2>1. Answer(t, Allow) /\ Allow # None
    BY <1>5, ResultsTyped, NoneIsNew DEF SkipVerification
  <2>2. Given'[t] = Policy!Allowed
    BY <2>1, AnswerGiven DEF Allow, Policy!Allowed
  <2>3. ~Policy!NeedsVerdict(q) /\ Policy!AtOnce(q) = Policy!Allowed
    BY <1>3, <1>5 DEF SkipVerification, Policy!NeedsVerdict, Policy!AtOnce
  <2>4. QED BY <1>1, <1>2, <2>1, <2>2, <2>3, AnswerGiven, AskStep DEF CallStep, q
<1>6. CASE Verify(t, i, r)
  <2>1. Only(t, pc, pc') /\ pc'[t] = "verify"
    BY <1>6, MovesOnly DEF Verify
  <2>2. result' = result /\ Given'[t] = None
    BY <1>1, <1>6, GivenOf DEF Verify
  <2>3. Policy!NeedsVerdict(q)
    BY <1>2, <1>3, <1>6 DEF Verify, Policy!NeedsVerdict
  <2>4. QED BY <1>1, <1>2, <2>1, <2>2, <2>3, KeptOnly, AskStep DEF CallStep, q
<1>7. CASE WithoutToken(t, i, r)
  <2> DEFINE d == IF DetectBot(i, r) THEN BotAction(i) ELSE <<"allow", Allow>>
  <2>1. Answer(t, d[2]) /\ ~r.probe /\ r.auth # "license"
    BY <1>7 DEF WithoutToken
  <2>2. q.kind = "visit" /\ ~q.token
    BY <1>2, <1>3, <2>1
  <2>3. ~Policy!NeedsVerdict(q)
    BY <2>2 DEF Policy!NeedsVerdict
  <2>4. /\ d[2] \in Results
        /\ Policy!Reply(d[2].action, d[2].status) = Policy!AtOnce(q)
    <3>1. CASE ~DetectBot(i, r) \/ config[i].enforcement = "disabled"
      <4>1. d[2] = Allow
        BY <3>1 DEF BotAction
      <4>2. Policy!AtOnce(q) = Policy!Allowed
        BY <1>3, <2>2, <3>1 DEF Policy!AtOnce
      <4>3. QED BY <4>1, <4>2, ResultsTyped DEF Allow, Policy!Allowed, Policy!Reply
    <3>2. CASE DetectBot(i, r) /\ config[i].enforcement = "observe"
      <4>1. d[2] = Signal
        BY <3>2 DEF BotAction
      <4>2. Policy!AtOnce(q) = Policy!Reply("observe", None)
        BY <1>3, <2>2, <3>2 DEF Policy!AtOnce
      <4>3. QED BY <4>1, <4>2, ResultsTyped DEF Signal, Policy!Reply
    <3>3. CASE DetectBot(i, r) /\ config[i].enforcement = "enforce"
      <4>1. d[2] = Block("missing_license_token")
        BY <3>3 DEF BotAction
      <4>2. Policy!AtOnce(q) = Policy!BlockedFor("missing_license_token")
        BY <1>3, <2>2, <3>3 DEF Policy!AtOnce, Policy!Missing
      <4>3. "missing_license_token" \in Reasons
        BY DEF Reasons, OutcomeOf
      <4>4. QED BY <4>1, <4>2, <4>3, ResultsTyped DEF Block, Policy!BlockedFor, Policy!Reply
    <3>4. QED BY <1>2, <3>1, <3>2, <3>3 DEF Modes
  <2> HIDE DEF d
  <2>5. Given'[t] = Policy!AtOnce(q)
    BY <2>1, <2>4, AnswerGiven, NoneIsNew
  <2>6. QED BY <1>1, <1>2, <2>1, <2>3, <2>4, <2>5, AnswerGiven, NoneIsNew, AskStep DEF CallStep, q
<1>8. CASE DetectorRaises(t, i, r)
  <2>1. /\ Answer(t, Unwound("raised")) /\ Unwound("raised") # None
        /\ ~r.probe /\ r.auth # "license" /\ config[i].detector = "own"
    BY <1>8, ResultsTyped, NoneIsNew DEF DetectorRaises
  <2>2. Given'[t] = Policy!Reply("raised", None)
    BY <2>1, AnswerGiven DEF Unwound
  <2>3. q.kind = "visit" /\ ~q.token /\ q.own
    BY <1>2, <1>3, <2>1
  <2>4. QED BY <1>1, <1>2, <2>1, <2>2, <2>3, AnswerGiven, AskStep DEF CallStep, q
<1>9. QED BY <1>4, <1>5, <1>6, <1>7, <1>8

LEMMA VerifyOnlyAsks ==
    ASSUME Inv, NEW t \in Tasks, NEW r \in Requests[t], VerifyOnly(t, r)
    PROVE  Policy!Ask(t)
<1>1. /\ pc[t] = "idle" /\ result[t] = None /\ config' = config
      /\ Only(t, client, client') /\ Only(t, request, request')
      /\ client'[t] = None /\ request'[t] = r /\ verdict' = verdict
  BY ReceivedStep DEF VerifyOnly
<1>2. Only(t, pc, pc') /\ pc'[t] = "verify"
  BY MovesOnly DEF VerifyOnly
<1>3. result' = result /\ Given'[t] = None
  BY <1>1, GivenOf DEF VerifyOnly
<1>4. Question(None, r).kind = "verify"
  BY RequestsAssumption DEF VerifyOnly, Question
<1>5. Policy!NeedsVerdict(Question(None, r))
  BY <1>4 DEF Policy!NeedsVerdict
<1>6. QED BY <1>1, <1>2, <1>3, <1>5, KeptOnly, AskStep DEF CallStep

-----------------------------------------------------------------------------
(* Every way out of an await is a step of the policy, or nothing to it.    *)
LEMMA EndConcludes ==
    ASSUME Inv, NEW t \in Tasks, pc[t] \in Awaits, NEW res \in Results, Answer(t, res),
           UNCHANGED <<config, client, request, verdict>>,
           LET q == Question(client[t], request[t])
               reply == Policy!Reply(res.action, res.status)
           IN \/ /\ pc[t] # "record" /\ ~Policy!IsRecorded(q)
                 /\ \E v \in Policy!Rulings : reply = Policy!After(q, v)
              \/ pc[t] = "record" /\ reply = Policy!After(q, verdict[t])
              \/ reply = Policy!Reply("cancelled", None)
              \/ q.kind # "probe" /\ reply = Policy!Reply("raised", None)
    PROVE  Ends(t)
<1>1. /\ CallStep(t) /\ pc'[t] = "done"
      /\ Given'[t] = Policy!Reply(res.action, res.status)
  BY AnswerGiven, NoneIsNew, KeptOnly DEF CallStep
<1>2. QED BY <1>1, ConcludeStep

LEMMA AwaitRefines ==
    ASSUME Inv, NEW t \in Tasks,
           \/ FetchAgain(t) \/ ChallengeChecked(t) \/ VerificationReturns(t)
           \/ Decide(t) \/ ReturnRecorded(t) \/ RecordingRaises(t) \/ CancelRequest(t)
    PROVE  Ends(t) \/ UNCHANGED Policy!vars
<1>1. pc[t] \in Awaits /\ UNCHANGED <<config, client, request>>
  BY DEF FetchAgain, ChallengeChecked, VerificationReturns, Decide, ReturnRecorded,
         RecordingRaises, CancelRequest, clients, handling, Awaits
<1>2. /\ Placed(t) /\ (request[t].probe <=> pc[t] = "challenge")
      /\ pc[t] \in {"challenge", "record"} => client[t] \in Built
      /\ pc[t] = "record" => verdict[t] \in Verdicts
  BY <1>1, AwaitingFacts DEF Awaits
<1>3. /\ Verdicts \subseteq Policy!Rulings
      /\ {"valid", "license_token_expired"} \subseteq Policy!Rulings
      /\ \A v \in Verdicts \ {"valid"} : v \in Reasons
  BY VerdictsAssumption DEF Policy!Rulings, Policy!Missing, Policy!Outcomes, Reasons, OutcomeOf
<1> DEFINE q == Question(client[t], request[t])
<1>4. /\ q.kind = IF request[t].probe THEN "probe"
                  ELSE IF request[t].entry = "handle" THEN "visit" ELSE request[t].entry
      /\ Policy!IsRecorded(q) <=> q.kind \in {"visit", "verify_and_record"}
  BY DEF Question, Policy!IsRecorded
<1> HIDE DEF q
<1>5. CASE FetchAgain(t)
  BY <1>5, NoCallStep DEF FetchAgain, clients, handling
<1>6. ASSUME NEW how \in {"raised", "cancelled"}, Answer(t, Unwound(how)), verdict' = verdict,
             how = "raised" => pc[t] # "challenge"
      PROVE  Ends(t)
  <2>1. Policy!Reply(Unwound(how).action, Unwound(how).status) = Policy!Reply(how, None)
    BY DEF Unwound
  <2>2. how = "raised" => q.kind # "probe"
    BY <1>2, <1>4, <1>6, RequestsAssumption DEF Placed
  <2>3. QED BY <1>1, <1>6, <2>1, <2>2, ResultsTyped, EndConcludes DEF q
<1>7. CASE ChallengeChecked(t)
  <2>1. /\ pc[t] = "challenge" /\ verdict' = verdict
        /\ \E ok \in BOOLEAN :
              Answer(t, IF ok THEN Respond(200, Reporting(client[t])) ELSE Respond(404, None))
    BY <1>7 DEF ChallengeChecked
  <2>2. PICK ok \in BOOLEAN :
          Answer(t, IF ok THEN Respond(200, Reporting(client[t])) ELSE Respond(404, None))
    BY <2>1
  <2>3. q.kind = "probe" /\ ~Policy!IsRecorded(q)
    BY <1>2, <1>4, <2>1
  <2>4. CASE ok
    <3>1. Reporting(client[t]) \in BOOLEAN
      BY <1>2, <2>1, ConfigsAssumption DEF Reporting, Inv, StateInv, Built
    <3>2. Respond(200, Reporting(client[t])) \in Results
      BY <3>1, ResultsTyped
    <3>3. Policy!Reply("respond", 200) = Policy!After(q, "valid")
      BY <2>3 DEF Policy!After
    <3>4. QED
      BY <1>1, <1>3, <2>1, <2>2, <2>3, <2>4, <3>2, <3>3, EndConcludes DEF Respond, q
  <2>5. CASE ~ok
    <3>1. Policy!Reply("respond", 404) = Policy!After(q, "license_token_expired")
      BY <2>3 DEF Policy!After
    <3>2. QED
      BY <1>1, <1>3, <2>1, <2>2, <2>3, <2>5, <3>1, ResultsTyped, EndConcludes DEF Respond, q
  <2>6. QED BY <2>4, <2>5
<1>8. ASSUME NEW v \in Verdicts, Answer(t, Verified(v)), verdict' = verdict, pc[t] # "challenge",
             \/ request[t].entry = "verify" /\ pc[t] = "verify"
             \/ request[t].entry = "verify_and_record" /\ pc[t] = "record" /\ v = verdict[t]
      PROVE  Ends(t)
  <2>1. q.kind = request[t].entry
    BY <1>2, <1>4, <1>8
  <2>2. Policy!Reply(Verified(v).action, Verified(v).status) = Policy!After(q, v)
    BY <1>8, <2>1 DEF Verified, Policy!After, Policy!Reply
  <2>3. Verified(v) \in Results
    BY ResultsTyped
  <2>4. QED BY <1>1, <1>3, <1>4, <1>8, <2>1, <2>2, <2>3, EndConcludes DEF q
<1>9. CASE VerificationReturns(t)
  <2>1. ASSUME NEW v \in Verdicts, RecordFirst(t, v), UNCHANGED result,
               request[t].entry # "verify"
        PROVE  Policy!Rule(t)
    <3>1. Only(t, pc, pc') /\ pc'[t] = "record" /\ pc[t] = "verify"
      BY <1>9, <2>1, MovesOnly DEF RecordFirst, RecordEvent, VerificationReturns
    <3>2. CallStep(t)
      BY <1>1, <2>1, <3>1, KeptOnly DEF CallStep
    <3>3. /\ Policy!Pending(t) /\ Asked[t] = q /\ Asked' = Asked /\ verdict[t] = None
      BY <1>1, <3>1, <3>2, PendingCall, AskedKept DEF q
    <3>4. Given' = Given
      BY <2>1, <3>2, GivenOf, OnlyCall
    <3>5. verdict' = [verdict EXCEPT ![t] = v] /\ v \in Policy!Rulings
      BY <1>3, <2>1 DEF RecordFirst, RecordEvent
    <3>6. Policy!IsRecorded(q)
      BY <1>2, <1>4, <2>1, <3>1, RequestsAssumption DEF Placed
    <3>7. QED BY <3>3, <3>4, <3>5, <3>6 DEF Policy!Rule
  <2>2. QED
    BY <1>6, <1>8, <1>9, <2>1 DEF VerificationReturns, Ends
<1>10. CASE Decide(t)
  <2>1. /\ q.kind = "visit" /\ verdict[t] \in Verdicts /\ pc[t] = "record"
        /\ verdict' = verdict
    BY <1>2, <1>4, <1>10 DEF Decide
  <2>2. CASE verdict[t] = "valid"
    <3>1. Answer(t, Allow) /\ Allow \in Results
      BY <1>10, <2>2, ResultsTyped DEF Decide
    <3>2. Policy!Reply(Allow.action, Allow.status) = Policy!After(q, verdict[t])
      BY <2>1, <2>2 DEF Allow, Policy!After, Policy!Allowed, Policy!Reply
    <3>3. QED BY <1>1, <2>1, <3>1, <3>2, EndConcludes DEF q
  <2>3. CASE verdict[t] # "valid"
    <3>1. /\ Answer(t, Block(verdict[t])) /\ verdict[t] \in Reasons
          /\ Block(verdict[t]) \in Results
      BY <1>3, <1>10, <2>1, <2>3, ResultsTyped DEF Decide
    <3>2. Policy!Reply(Block(verdict[t]).action, Block(verdict[t]).status)
             = Policy!After(q, verdict[t])
      BY <2>1, <2>3, <3>1 DEF Block, Policy!After, Policy!BlockedFor, Policy!Reply
    <3>3. QED BY <1>1, <2>1, <3>1, <3>2, EndConcludes DEF q
  <2>4. QED BY <2>2, <2>3
<1>11. CASE ReturnRecorded(t)
  BY <1>2, <1>8, <1>11 DEF ReturnRecorded
<1>12. CASE RecordingRaises(t) \/ CancelRequest(t)
  BY <1>6, <1>12 DEF RecordingRaises, CancelRequest
<1>13. QED BY <1>5, <1>7, <1>9, <1>10, <1>11, <1>12

-----------------------------------------------------------------------------
LEMMA InitRefines == Init => Policy!Init
<1> SUFFICES ASSUME Init PROVE Policy!Init
  OBVIOUS
<1>1. ASSUME NEW t \in Tasks PROVE Asked[t] = None /\ Given[t] = None
  BY AskedOf, GivenOf DEF Init
<1>2. QED BY <1>1, AskedNow DEF Init, Policy!Init

LEMMA StepRefines == Inv /\ [Next]_vars => [Policy!Next]_(Policy!vars)
<1> SUFFICES ASSUME Inv, [Next]_vars PROVE [Policy!Next]_(Policy!vars)
  OBVIOUS
<1>1. ASSUME NEW c \in Configs, NEW reset \in BOOLEAN, Construct(c, reset)
      PROVE  UNCHANGED Policy!vars
  <2>1. config \in Seq(Configs) /\ (config' = config \/ config' = Append(config, c))
    BY <1>1 DEF Construct, Inv, StateInv
  <2>2. \A i \in Built : config'[i] = config[i]
    BY <2>1, AppendProperties DEF Built
  <2>3. QED BY <1>1, <2>2, NoCallStep DEF Construct, handling
<1>2. CASE ResetInstance \/ UNCHANGED vars
  BY <1>2, NoCallStep DEF ResetInstance, vars, clients, handling
<1>3. ASSUME NEW t \in Tasks, Handling(t)
      PROVE  Policy!Ask(t) \/ Ends(t) \/ UNCHANGED Policy!vars
  BY <1>3, ArrivalAsks, VerifyOnlyAsks, AwaitRefines DEF Handling
<1>4. ASSUME NEW c \in Closers, Closing(c) \/ CancelClosing(c)
      PROVE  UNCHANGED Policy!vars
  <2>1. /\ UNCHANGED <<config, request, result, verdict>>
        /\ Only(c, pc, pc') /\ Only(c, client, client')
    BY <1>4 DEF Closing, StartClosing, EventsClosed, JwksClosed, CancelClosing, CloseJwks,
                clients, handling, Only, Inv, Domains
  <2>2. \A t \in Tasks : pc'[t] = pc[t] /\ client'[t] = client[t]
    BY <2>1, ActorsAssumption DEF Only, Inv, Domains
  <2>3. QED BY <2>1, <2>2, NoCallStep
<1>5. QED BY <1>1, <1>2, <1>3, <1>4 DEF Next, Ends, Policy!Next

(* Whatever is recorded, reported, built and closed meanwhile, and however *)
(* the tasks interleave, every call is answered as AccessPolicy says.      *)
THEOREM PolicyImplemented == Spec => ImplementsAccessPolicy
<1>1. Inv /\ [Next]_vars => [Policy!Next]_(Policy!vars)
  BY StepRefines
<1>2. QED BY <1>1, InitRefines, InvHolds, PTL DEF Spec, ImplementsAccessPolicy, Policy!Spec
=============================================================================
