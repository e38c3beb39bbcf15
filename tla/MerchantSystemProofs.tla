------------------------- MODULE MerchantSystemProofs -------------------------
(***************************************************************************)
(* Proofs about MerchantSystem, for any tasks, clients and platforms.  Its *)
(* steps are steps of MerchantClient, whose inductive invariant is taken   *)
(* over from there; SurroundingsInv relates the state around the clients   *)
(* to theirs: where each call sends its requests, what became of each      *)
(* event, and which transports an aclose has closed.                       *)
(***************************************************************************)
EXTENDS MerchantSystem, MerchantClientProofs, FiniteSetTheorems

(* A call has addressed its own platform at most, and has done so in every *)
(* await.                                                                  *)
PlatformInv(t) ==
    /\ addressed[t] \subseteq {platform[t]}
    /\ pc[t] = "idle" => addressed[t] = {}
    /\ pc[t] \in {"verify", "challenge", "record"} => addressed[t] = {platform[t]}
    /\ (addressed[t] # {} /\ client[t] # None /\ config[client[t]].base_url # None) =>
          platform[t] = config[client[t]].base_url

(* An event has a fate from the moment it is emitted: it is skipped by a   *)
(* background transport only when that is closed, and none is pending in a *)
(* transport that was drained.                                             *)
FateInv(t) ==
    /\ fate[t] \in {"none", "taken", "skipped", "settled"}
    /\ fate[t] = "none" <=> emitted[t] = <<>>
    /\ fate[t] = "skipped" /\ HasBackground(client[t]) => transport[client[t]] = "closed"
    /\ fate[t] = "taken" => client[t] \notin drained

(* Background transports and no others are "http", and "closed" once an    *)
(* aclose of their client has come to them.                                *)
TransportInv(i) ==
    /\ HasBackground(i) <=> transport[i] \in {"http", "closed"}
    /\ transport[i] = "closed" => \E c \in Closers : client[c] = i /\ pc[c] = "done"

DrainInv ==
    /\ \A c \in draining :
          /\ c \in Closers /\ pc[c] = "done"
          /\ client[c] \in Built /\ transport[client[c]] = "closed"
    /\ \A i \in drained : i \in Built /\ transport[i] = "closed"

SurroundingsInv ==
    /\ DOMAIN platform = Tasks /\ DOMAIN addressed = Tasks /\ DOMAIN fate = Tasks
    /\ \A t \in Tasks : PlatformInv(t) /\ FateInv(t)
    /\ \A i \in Built : TransportInv(i)
    /\ DrainInv

SystemInv == Inv /\ SurroundingsInv
LEMMA SystemInitInv == SystemInit => SystemInv
<1> SUFFICES ASSUME SystemInit PROVE SystemInv
  OBVIOUS
<1>1. Inv
  BY InvInit DEF SystemInit
<1>2. Built = {}
  BY DEF SystemInit, Init, Built
<1>3. SurroundingsInv
  BY <1>2 DEF SystemInit, Init, SurroundingsInv, PlatformInv, FateInv, DrainInv
<1>4. QED BY <1>1, <1>3 DEF SystemInv

-----------------------------------------------------------------------------
(* The steps of the system are steps of the clients, or leave them alone.  *)
LEMMA StepOfClients == SystemNext => [Next]_vars
<1>1. ASSUME NEW t \in Tasks, Handle(t) PROVE Next
  BY <1>1 DEF Handle, Next
<1>2. ASSUME NEW c \in Closers, Close(c) PROVE Next
  BY <1>2 DEF Close, Next
<1>3. QED
  BY <1>1, <1>2 DEF SystemNext, Next, Settle, EndDrain, CancelDrain, SetBaseUrl

(* A task has an event, and has addressed somebody, only for a call it has *)
(* received; a call that reports works on a client.                        *)
LEMMA CallFacts ==
    ASSUME SystemInv, NEW t \in Tasks
    PROVE  /\ emitted[t] # <<>> => pc[t] = "done" /\ client[t] \in Built
           /\ addressed[t] # {} => client[t] = None \/ client[t] \in Built
BY DEF SystemInv, Inv, SurroundingsInv, PlatformInv, TaskInv, Placed, DoneInv, Unreported

(* What the handling of a call does to the state the surroundings look at. *)
LEMMA EmitTouches ==
    ASSUME Inv, NEW t \in Tasks, NEW i, NEW r, NEW b, NEW o, NEW a,
           emitted[t] = <<>>, Emit(t, i, r, b, o, a)
    PROVE  Only(t, emitted, emitted') /\ emitted'[t] # <<>>
<1> DEFINE e == AnalyticsEvent(r.user_agent, r.headers,
                   [has_token |-> b, token_outcome |-> o,
                    final_action |-> a, enforcement_mode |-> config[i].enforcement])
<1>1. emitted' = [emitted EXCEPT ![t] = Append(@, e)]
  BY DEF Emit
<1> HIDE DEF e
<1>2. Len(emitted'[t]) = 1 /\ Only(t, emitted, emitted')
  BY <1>1, EmitEffect
<1>3. QED BY <1>2

LEMMA HandlingEffect ==
    ASSUME Inv, NEW t \in Tasks, Handling(t)
    PROVE  /\ UNCHANGED <<config, transport>>
           /\ Only(t, pc, pc') /\ Only(t, client, client') /\ Only(t, emitted, emitted')
           /\ pc[t] # "done" /\ emitted[t] = <<>> /\ pc'[t] # "idle"
           /\ pc[t] # "idle" => client'[t] = client[t]
           /\ pc'[t] = "record" => pc[t] = "verify"
           /\ pc'[t] \in {"verify", "challenge"} => pc[t] \in {"idle", pc'[t]}
<1>1. TaskInv(t) /\ Domains
  BY DEF Inv
<1>2. ASSUME pc[t] # "done" PROVE emitted[t] = <<>>
  BY <1>1, <1>2 DEF TaskInv, Unreported
<1>3. ASSUME NEW i, NEW r, Receive(t, i, r)
      PROVE  /\ pc[t] = "idle" /\ emitted[t] = <<>> /\ Only(t, client, client')
             /\ UNCHANGED <<config, transport>>
  BY <1>3, ReceiveEffect
<1>4. ASSUME NEW r, Answer(t, r) PROVE Only(t, pc, pc') /\ pc'[t] = "done"
  BY <1>4, AnswerEffect
<1>5. ASSUME NEW i \in Built, NEW r \in Requests[t], Probe(t, i, r) \/ Verify(t, i, r)
      PROVE  /\ UNCHANGED <<config, transport, emitted>> /\ pc[t] = "idle"
             /\ Only(t, pc, pc') /\ Only(t, client, client')
             /\ pc'[t] \in {"verify", "challenge", "done"}
  BY <1>1, <1>3, <1>4, <1>5 DEF Probe, Verify, Domains, Only
<1>6. ASSUME NEW i \in Built, NEW r \in Requests[t],
             SkipVerification(t, i, r) \/ WithoutToken(t, i, r)
      PROVE  /\ UNCHANGED <<config, transport>> /\ pc[t] = "idle" /\ pc'[t] = "done"
             /\ Only(t, pc, pc') /\ Only(t, client, client') /\ Only(t, emitted, emitted')
  <2>1. Receive(t, i, r) /\ \E res : Answer(t, res)
    BY <1>6 DEF SkipVerification, WithoutToken
  <2>2. \E b, o, a : Emit(t, i, r, b, o, a)
    BY <1>6 DEF SkipVerification, WithoutToken
  <2>3. QED BY <1>3, <1>4, <2>1, <2>2, EmitTouches
<1>7. ASSUME NEW i \in Built, NEW r \in Requests[t], DetectorRaises(t, i, r)
      PROVE  /\ UNCHANGED <<config, transport, emitted>> /\ pc[t] = "idle" /\ pc'[t] = "done"
             /\ Only(t, pc, pc') /\ Only(t, client, client')
  BY <1>3, <1>4, <1>7 DEF DetectorRaises
<1>8. ASSUME NEW r \in Requests[t], VerifyOnly(t, r)
      PROVE  /\ UNCHANGED <<config, transport, emitted>> /\ pc[t] = "idle" /\ pc'[t] = "verify"
             /\ Only(t, pc, pc') /\ Only(t, client, client')
  BY <1>1, <1>3, <1>8 DEF VerifyOnly, Domains, Only
<1>9. CASE FetchAgain(t)
  BY <1>1, <1>2, <1>9 DEF FetchAgain, clients, handling, Only
<1>10. CASE VerificationReturns(t)
  <2>1. UNCHANGED <<config, transport, client, emitted>> /\ pc[t] = "verify"
    BY <1>10 DEF VerificationReturns, RecordFirst, clients
  <2>2. Only(t, pc, pc') /\ pc'[t] \in {"record", "done"}
    BY <1>1, <1>4, <1>10 DEF VerificationReturns, RecordFirst, RecordEvent, Only, Domains
  <2>3. QED BY <1>2, <2>1, <2>2 DEF Only
<1>11. CASE Decide(t)
  <2>1. UNCHANGED <<config, transport, client>> /\ pc[t] = "record" /\ (\E res : Answer(t, res))
    BY <1>11 DEF Decide, clients, slots
  <2>2. \E b, o, a : Emit(t, client[t], request[t], b, o, a)
    BY <1>11 DEF Decide
  <2>3. QED BY <1>2, <1>4, <2>1, <2>2, EmitTouches DEF Only
<1>12. CASE ChallengeChecked(t) \/ ReturnRecorded(t) \/ RecordingRaises(t) \/ CancelRequest(t)
  <2>1. /\ UNCHANGED <<config, transport, client, emitted>> /\ (\E res : Answer(t, res))
        /\ pc[t] \in {"verify", "record", "challenge"}
    BY <1>12 DEF ChallengeChecked, ReturnRecorded, RecordingRaises, CancelRequest, clients, slots
  <2>2. QED BY <1>2, <1>4, <2>1 DEF Only
<1>13. ASSUME UNCHANGED emitted PROVE Only(t, emitted, emitted')
  BY <1>13 DEF Only
<1>14. ASSUME pc[t] = "idle",
              \/ \E i \in Built, r \in Requests[t] :
                    \/ Probe(t, i, r) \/ SkipVerification(t, i, r)
                    \/ Verify(t, i, r) \/ WithoutToken(t, i, r) \/ DetectorRaises(t, i, r)
              \/ \E r \in Requests[t] : VerifyOnly(t, r)
       PROVE  /\ UNCHANGED <<config, transport>>
              /\ Only(t, pc, pc') /\ Only(t, client, client') /\ Only(t, emitted, emitted')
              /\ pc'[t] \in {"verify", "challenge", "done"}
  BY <1>5, <1>6, <1>7, <1>8, <1>13, <1>14
<1>15. CASE \/ \E i \in Built, r \in Requests[t] :
                  \/ Probe(t, i, r) \/ SkipVerification(t, i, r)
                  \/ Verify(t, i, r) \/ WithoutToken(t, i, r) \/ DetectorRaises(t, i, r)
            \/ \E r \in Requests[t] : VerifyOnly(t, r)
  <2>1. pc[t] = "idle"
    BY <1>5, <1>6, <1>7, <1>8, <1>15
  <2>2. QED BY <1>2, <1>14, <1>15, <2>1
<1>16. QED BY <1>9, <1>10, <1>11, <1>12, <1>15 DEF Handling

(* Handling a call leaves the other tasks and the closers alone.           *)
LEMMA OthersKept ==
    ASSUME Inv, NEW t \in Tasks, Handling(t)
    PROVE  /\ \A u \in Tasks \ {t} :
                 pc'[u] = pc[u] /\ client'[u] = client[u] /\ emitted'[u] = emitted[u]
           /\ \A c \in Closers : pc'[c] = pc[c] /\ client'[c] = client[c]
<1>1. /\ Only(t, pc, pc') /\ Only(t, client, client') /\ Only(t, emitted, emitted') /\ Domains
  BY HandlingEffect DEF Inv
<1>2. QED BY <1>1, ActorsAssumption DEF Only, Domains

LEMMA HandleInv ==
    ASSUME SystemInv, Inv', NEW t \in Tasks, Handle(t)
    PROVE  SurroundingsInv'
<1>1. /\ Inv /\ Handling(t) /\ SurroundingsInv
  BY DEF SystemInv, Handle
<1>2. /\ UNCHANGED <<config, transport, drained, draining>> /\ Built' = Built
      /\ \A i : HasBackground(i)' = HasBackground(i)
  BY <1>1, HandlingEffect DEF Handle, Built, HasBackground
<1>3. /\ pc[t] # "done" /\ emitted[t] = <<>> /\ pc'[t] # "idle"
      /\ pc[t] # "idle" => client'[t] = client[t]
      /\ pc'[t] = "record" => pc[t] = "verify"
      /\ pc'[t] \in {"verify", "challenge"} => pc[t] \in {"idle", pc'[t]}
  BY <1>1, HandlingEffect
<1>4. /\ \A u \in Tasks \ {t} :
            pc'[u] = pc[u] /\ client'[u] = client[u] /\ emitted'[u] = emitted[u]
      /\ \A c \in Closers : pc'[c] = pc[c] /\ client'[c] = client[c]
  BY <1>1, OthersKept
<1>5. /\ DOMAIN platform' = Tasks /\ DOMAIN addressed' = Tasks /\ DOMAIN fate' = Tasks
      /\ \A u \in Tasks \ {t} :
            platform'[u] = platform[u] /\ addressed'[u] = addressed[u] /\ fate'[u] = fate[u]
  BY <1>1 DEF Handle, Address, Report, SurroundingsInv
<1>6. PlatformInv(t)'
  <2>1. PlatformInv(t) /\ t \in DOMAIN platform /\ t \in DOMAIN addressed
    BY <1>1 DEF SurroundingsInv
  <2>2. CASE Arrives(t)
    <3>1. platform'[t] = BaseUrl(client'[t]) /\ addressed'[t] = {platform'[t]}
      BY <2>1, <2>2 DEF Handle, Address
    <3>2. client'[t] # None /\ config[client'[t]].base_url # None =>
             BaseUrl(client'[t]) = config[client'[t]].base_url
      BY DEF BaseUrl
    <3>3. QED BY <1>2, <1>3, <3>1, <3>2 DEF PlatformInv
  <2>3. CASE ~Arrives(t)
    <3>1. /\ platform'[t] = platform[t]
          /\ addressed'[t] = IF pc'[t] = "record" THEN addressed[t] \cup {platform[t]} ELSE addressed[t]
      BY <2>1, <2>3 DEF Handle, Address, RecordUrl
    <3>2. addressed[t] # {} => client'[t] = client[t]
      BY <1>3, <2>1 DEF PlatformInv
    <3>3. CASE pc'[t] = "record"
      BY <1>2, <1>3, <2>1, <3>1, <3>2, <3>3 DEF PlatformInv
    <3>4. CASE pc'[t] # "record"
      BY <1>2, <1>3, <2>1, <2>3, <3>1, <3>2, <3>4 DEF PlatformInv, Arrives
    <3>5. QED BY <3>3, <3>4
  <2>4. QED BY <2>2, <2>3
<1>7. FateInv(t)'
  <2>1. fate[t] = "none" /\ t \in DOMAIN fate
    BY <1>1, <1>3 DEF SurroundingsInv, FateInv
  <2>2. CASE emitted'[t] = emitted[t]
    BY <1>3, <2>1, <2>2 DEF Handle, Report, FateInv
  <2>3. CASE emitted'[t] # emitted[t]
    <3>1. client'[t] \in Built
      BY <1>2, <1>3, <2>3 DEF Inv, TaskInv, Placed, DoneInv, Unreported
    <3>2. fate'[t] = IF transport[client'[t]] = "http" THEN "taken" ELSE "skipped"
      BY <2>1, <2>3 DEF Handle, Report
    <3>3. TransportInv(client'[t]) /\ (\A i \in drained : transport[i] = "closed")
      BY <1>1, <3>1 DEF SurroundingsInv, DrainInv
    <3>4. QED BY <1>2, <1>3, <2>3, <3>2, <3>3 DEF FateInv, TransportInv
  <2>4. QED BY <2>2, <2>3
<1>8. ASSUME NEW u \in Tasks, u # t PROVE PlatformInv(u)' /\ FateInv(u)'
  <2>1. PlatformInv(u) /\ FateInv(u)
    BY <1>1 DEF SurroundingsInv
  <2>2. /\ pc'[u] = pc[u] /\ client'[u] = client[u] /\ emitted'[u] = emitted[u]
        /\ platform'[u] = platform[u] /\ addressed'[u] = addressed[u] /\ fate'[u] = fate[u]
    BY <1>4, <1>5, <1>8
  <2>3. QED BY <1>2, <2>1, <2>2 DEF PlatformInv, FateInv
<1>9. \A i \in Built' : TransportInv(i)'
  BY <1>1, <1>2, <1>4 DEF SurroundingsInv, TransportInv
<1>10. DrainInv'
  BY <1>1, <1>2, <1>4 DEF SurroundingsInv, DrainInv
<1>11. QED BY <1>5, <1>6, <1>7, <1>8, <1>9, <1>10 DEF SurroundingsInv

-----------------------------------------------------------------------------
(* aclose leaves the tasks alone; when it ends it closes the background    *)
(* transport of its client, and it ends once.                              *)
LEMMA ClosingEffect ==
    ASSUME Inv, NEW c \in Closers, Closing(c)
    PROVE  /\ UNCHANGED <<config, emitted>> /\ pc[c] # "done" /\ client'[c] \in Built
           /\ \A t \in Tasks : pc'[t] = pc[t] /\ client'[t] = client[t]
           /\ \A a \in Closers \ {c} : pc'[a] = pc[a] /\ client'[a] = client[a]
           /\ \A j \in Built :
                 transport'[j] =
                    IF j = client'[c] /\ pc'[c] = "done" /\ transport[j] = "http"
                    THEN "closed" ELSE transport[j]
<1>1. /\ UNCHANGED <<config, emitted>> /\ Domains
      /\ pc[c] # "idle" => client[c] \in Built
      /\ DOMAIN transport = Built
  BY DEF Closing, StartClosing, EventsClosed, JwksClosed, handling, Inv, StateInv, Built
<1>2. /\ pc[c] # "done" /\ client'[c] \in Built
      /\ Only(c, pc, pc') /\ Only(c, client, client')
  BY <1>1 DEF Closing, StartClosing, EventsClosed, JwksClosed, CloseJwks, Only, Domains
<1>3. \/ pc'[c] = "done" /\ CloseTransport(client'[c])
      \/ pc'[c] # "done" /\ UNCHANGED transport
  BY <1>1 DEF Closing, StartClosing, EventsClosed, JwksClosed, CloseJwks, Domains
<1>4. \A j \in Built :
         transport'[j] = IF j = client'[c] /\ pc'[c] = "done" /\ transport[j] = "http"
                         THEN "closed" ELSE transport[j]
  BY <1>1, <1>2, <1>3 DEF CloseTransport
<1>5. QED BY <1>1, <1>2, <1>4, ActorsAssumption DEF Only, Domains

LEMMA CloseInv ==
    ASSUME SystemInv, NEW c \in Closers, Close(c)
    PROVE  SurroundingsInv'
<1>1. /\ SurroundingsInv /\ Inv /\ Closing(c)
      /\ UNCHANGED <<base_url, platform, addressed, fate, drained>>
  BY DEF SystemInv, Close
<1>2. /\ UNCHANGED <<config, emitted>> /\ pc[c] # "done" /\ client'[c] \in Built
      /\ \A t \in Tasks : pc'[t] = pc[t] /\ client'[t] = client[t]
      /\ \A a \in Closers \ {c} : pc'[a] = pc[a] /\ client'[a] = client[a]
      /\ \A j \in Built :
            transport'[j] = IF j = client'[c] /\ pc'[c] = "done" /\ transport[j] = "http"
                            THEN "closed" ELSE transport[j]
  BY <1>1, ClosingEffect
<1>3. Built' = Built /\ \A i : HasBackground(i)' = HasBackground(i)
  BY <1>2 DEF Built, HasBackground
<1>4. ASSUME NEW t \in Tasks PROVE PlatformInv(t)' /\ FateInv(t)'
  <2>1. PlatformInv(t) /\ FateInv(t)
    BY <1>1 DEF SurroundingsInv
  <2>2. fate[t] # "none" => client[t] \in Built
    BY <2>1, CallFacts DEF FateInv
  <2>3. QED BY <1>1, <1>2, <1>3, <2>1, <2>2 DEF PlatformInv, FateInv
<1>5. ASSUME NEW i \in Built PROVE TransportInv(i)'
  <2>1. TransportInv(i)
    BY <1>1 DEF SurroundingsInv
  <2>2. CASE transport[i] = "closed"
    <3>1. PICK a \in Closers : client[a] = i /\ pc[a] = "done"
      BY <2>1, <2>2 DEF TransportInv
    <3>2. client'[a] = i /\ pc'[a] = "done"
      BY <1>2, <3>1
    <3>3. QED BY <1>2, <1>3, <2>1, <2>2, <3>2 DEF TransportInv
  <2>3. CASE transport[i] # "closed"
    BY <1>2, <1>3, <2>1, <2>3 DEF TransportInv
  <2>4. QED BY <2>2, <2>3
<1>6. DrainInv'
  <2>1. ASSUME NEW a \in draining'
        PROVE  /\ a \in Closers /\ pc'[a] = "done"
               /\ client'[a] \in Built' /\ transport'[client'[a]] = "closed"
    <3>1. CASE a = c
      <4>1. DrainInv /\ c \notin draining
        BY <1>1, <1>2 DEF SurroundingsInv, DrainInv
      <4>2. pc'[c] = "done" /\ HasBackground(client'[c])
        BY <2>1, <3>1, <4>1 DEF Close
      <4>3. transport[client'[c]] \in {"http", "closed"}
        BY <1>1, <1>2, <4>2 DEF SurroundingsInv, TransportInv
      <4>4. QED BY <1>2, <1>3, <3>1, <4>2, <4>3
    <3>2. CASE a # c
      <4>1. a \in draining
        BY <2>1, <3>2 DEF Close
      <4>2. QED BY <1>1, <1>2, <1>3, <3>2, <4>1 DEF SurroundingsInv, DrainInv
    <3>3. QED BY <3>1, <3>2
  <2>2. \A i \in drained' : i \in Built' /\ transport'[i] = "closed"
    BY <1>1, <1>2, <1>3 DEF SurroundingsInv, DrainInv
  <2>3. QED BY <2>1, <2>2 DEF DrainInv
<1>7. QED BY <1>1, <1>3, <1>4, <1>5, <1>6 DEF SurroundingsInv

-----------------------------------------------------------------------------
(* Building a client adds a transport that is not closed.                  *)
LEMMA ConstructEffect ==
    ASSUME Inv, NEW c \in Configs, NEW reset \in BOOLEAN, Construct(c, reset)
    PROVE  /\ UNCHANGED <<pc, client, emitted>>
           /\ Built \subseteq Built'
           /\ \A i \in Built : config'[i] = config[i] /\ transport'[i] = transport[i]
           /\ \A i \in Built' \ Built : transport'[i] = Transport(config'[i])
<1>1. UNCHANGED <<pc, client, emitted>>
  BY DEF Construct, handling
<1>2. CASE c.api_key = ""
  BY <1>1, <1>2 DEF Construct, Built
<1>3. CASE c.api_key # ""
  <2>1. config' = Append(config, c) /\ transport' = Append(transport, Transport(c))
    BY <1>3 DEF Construct
  <2>2. /\ config \in Seq(Configs) /\ transport \in Seq({"noop", "custom", "http", "closed"})
        /\ Len(transport) = Len(config) /\ Len(config) \in Nat
        /\ Transport(c) \in {"noop", "custom", "http", "closed"}
    BY DEF Inv, StateInv, Transport
  <2>3. /\ Len(config') = Len(config) + 1 /\ config'[Len(config) + 1] = c
        /\ \A i \in Built : config'[i] = config[i]
    BY <2>1, <2>2, AppendProperties DEF Built
  <2>4. /\ transport'[Len(config) + 1] = Transport(c)
        /\ \A i \in Built : transport'[i] = transport[i]
    BY <2>1, <2>2, AppendProperties DEF Built
  <2>5. Built' = Built \cup {Len(config) + 1}
    BY <2>2, <2>3 DEF Built
  <2>6. QED BY <1>1, <2>3, <2>4, <2>5
<1>4. QED BY <1>2, <1>3

LEMMA ConstructSystemInv ==
    ASSUME SystemInv, NEW c \in Configs, NEW reset \in BOOLEAN, Construct(c, reset),
           UNCHANGED surroundings
    PROVE  SurroundingsInv'
<1>1. /\ SurroundingsInv /\ Inv
      /\ UNCHANGED <<base_url, platform, addressed, fate, draining, drained>>
  BY DEF SystemInv, surroundings
<1>2. /\ UNCHANGED <<pc, client, emitted>>
      /\ Built \subseteq Built'
      /\ \A i \in Built : config'[i] = config[i] /\ transport'[i] = transport[i]
      /\ \A i \in Built' \ Built : transport'[i] = Transport(config'[i])
  BY <1>1, ConstructEffect
<1>3. \A i \in Built : HasBackground(i)' = HasBackground(i)
  BY <1>2 DEF HasBackground
<1>4. ASSUME NEW t \in Tasks PROVE PlatformInv(t)' /\ FateInv(t)'
  <2>1. PlatformInv(t) /\ FateInv(t)
    BY <1>1 DEF SurroundingsInv
  <2>2. /\ fate[t] # "none" => client[t] \in Built
        /\ addressed[t] # {} => client[t] = None \/ client[t] \in Built
    BY <2>1, CallFacts DEF FateInv
  <2>3. QED BY <1>1, <1>2, <1>3, <2>1, <2>2 DEF PlatformInv, FateInv
<1>5. ASSUME NEW i \in Built' PROVE TransportInv(i)'
  <2>1. CASE i \in Built
    BY <1>1, <1>2, <1>3, <2>1 DEF SurroundingsInv, TransportInv
  <2>2. CASE i \notin Built
    <3>1. transport'[i] = Transport(config'[i])
      BY <1>2, <2>2
    <3>2. QED BY <3>1 DEF TransportInv, HasBackground, Transport
  <2>3. QED BY <2>1, <2>2
<1>6. DrainInv'
  BY <1>1, <1>2 DEF SurroundingsInv, DrainInv
<1>7. QED BY <1>1, <1>4, <1>5, <1>6 DEF SurroundingsInv

(* The steps that leave the clients alone, or change nothing of them that  *)
(* the surroundings look at.                                               *)
LEMMA ClientsKeptInv ==
    ASSUME SystemInv, UNCHANGED <<config, transport, client, emitted, platform, addressed>>,
           \A a \in Tasks \cup Closers : pc'[a] = pc[a] \/ (a \in Closers /\ pc[a] # "done"),
           DrainInv', DOMAIN fate' = Tasks, \A t \in Tasks : FateInv(t)'
    PROVE  SurroundingsInv'
<1>1. SurroundingsInv /\ Built' = Built
  BY DEF SystemInv, Built
<1>2. \A i \in Built' : TransportInv(i)'
  BY <1>1 DEF SurroundingsInv, TransportInv, HasBackground
<1>3. \A t \in Tasks : PlatformInv(t)'
  BY <1>1, ActorsAssumption DEF SurroundingsInv, PlatformInv
<1>4. QED BY <1>1, <1>2, <1>3 DEF SurroundingsInv

LEMMA QuietInv ==
    ASSUME SystemInv,
           \/ ResetInstance /\ UNCHANGED surroundings
           \/ \E c \in Closers : CancelClosing(c) /\ UNCHANGED surroundings
           \/ \E c \in Closers : CancelDrain(c)
           \/ \E url \in BaseUrls : SetBaseUrl(url)
           \/ UNCHANGED systemVars
    PROVE  SurroundingsInv'
<1>1. /\ UNCHANGED <<config, transport, client, emitted, platform, addressed, fate, drained>>
      /\ draining' \subseteq draining /\ Built' = Built
  BY DEF ResetInstance, CancelClosing, CancelDrain, SetBaseUrl, systemVars, surroundings,
         vars, clients, handling, Built
<1>2. \A a \in Tasks \cup Closers : pc'[a] = pc[a] \/ (a \in Closers /\ pc[a] # "done")
  BY DEF ResetInstance, CancelClosing, CancelDrain, SetBaseUrl, systemVars, vars, SystemInv, Inv, Domains
<1>3. DrainInv'
  BY <1>1, <1>2 DEF SystemInv, SurroundingsInv, DrainInv
<1>4. \A t \in Tasks : FateInv(t)'
  BY <1>1 DEF SystemInv, SurroundingsInv, FateInv, HasBackground
<1>5. DOMAIN fate' = Tasks
  BY <1>1 DEF SystemInv, SurroundingsInv
<1>6. QED BY <1>1, <1>2, <1>3, <1>4, <1>5, ClientsKeptInv

LEMMA SettleInv ==
    ASSUME SystemInv, NEW t \in Tasks, Settle(t)
    PROVE  SurroundingsInv'
<1>1. /\ UNCHANGED <<config, transport, client, emitted, platform, addressed, pc, drained, draining>>
      /\ fate' = [fate EXCEPT ![t] = "settled"] /\ fate[t] = "taken" /\ Built' = Built
      /\ \A i : HasBackground(i)' = HasBackground(i)
  BY DEF Settle, vars, clients, handling, Built, HasBackground
<1>2. DrainInv'
  BY <1>1 DEF SystemInv, SurroundingsInv, DrainInv
<1>3. DOMAIN fate = Tasks /\ DOMAIN fate' = Tasks
  BY <1>1 DEF SystemInv, SurroundingsInv
<1>4. \A u \in Tasks : FateInv(u)'
  BY <1>1, <1>3 DEF SystemInv, SurroundingsInv, FateInv
<1>5. QED BY <1>1, <1>2, <1>3, <1>4, ClientsKeptInv

LEMMA EndDrainInv ==
    ASSUME SystemInv, NEW c \in Closers, EndDrain(c)
    PROVE  SurroundingsInv'
<1>1. /\ UNCHANGED <<config, transport, client, emitted, platform, addressed, pc, fate>>
      /\ c \in draining /\ draining' = draining \ {c} /\ drained' = drained \cup {client[c]}
      /\ \A t \in Tasks : client[t] = client[c] => fate[t] # "taken"
      /\ Built' = Built /\ \A i : HasBackground(i)' = HasBackground(i)
  BY DEF EndDrain, vars, clients, handling, Built, HasBackground
<1>2. DrainInv'
  BY <1>1 DEF SystemInv, SurroundingsInv, DrainInv
<1>3. DOMAIN fate' = Tasks
  BY <1>1 DEF SystemInv, SurroundingsInv
<1>4. \A u \in Tasks : FateInv(u)'
  BY <1>1 DEF SystemInv, SurroundingsInv, FateInv
<1>5. QED BY <1>1, <1>2, <1>3, <1>4, ClientsKeptInv

LEMMA SystemInvNext == SystemInv /\ [SystemNext]_systemVars => SystemInv'
<1> SUFFICES ASSUME SystemInv, [SystemNext]_systemVars PROVE SystemInv'
  OBVIOUS
<1>1. Inv'
  <2>1. [Next]_vars
    BY StepOfClients DEF systemVars
  <2>2. QED BY <2>1, InvNext DEF SystemInv
<1>2. SurroundingsInv'
  BY <1>1, HandleInv, CloseInv, ConstructSystemInv, QuietInv, SettleInv, EndDrainInv DEF SystemNext
<1>3. QED BY <1>1, <1>2 DEF SystemInv

LEMMA SystemInvHolds == SystemSpec => []SystemInv
BY SystemInitInv, SystemInvNext, PTL DEF SystemSpec

-----------------------------------------------------------------------------
(* What MerchantClient shows of the clients holds in their surroundings:   *)
(* these add no step to them.                                              *)
THEOREM SystemImplementsClient == SystemSpec => Spec
<1>1. SystemInit => Init
  BY DEF SystemInit
<1>2. [SystemNext]_systemVars => [Next]_vars
  BY StepOfClients DEF systemVars
<1>3. QED BY <1>1, <1>2, PTL DEF SystemSpec, Spec

(* A call sends the requests that verify a token and the record of its use *)
(* to one platform: the one of its client, if that has its own.            *)
THEOREM OnePlatformPerCallHolds == SystemSpec => []OnePlatformPerCall
<1>1. SystemInv => OnePlatformPerCall
  <2> SUFFICES ASSUME SystemInv, NEW t \in Tasks
               PROVE  /\ Cardinality(addressed[t]) <= 1
                      /\ (client[t] # None /\ config[client[t]].base_url # None) =>
                            addressed[t] \subseteq {config[client[t]].base_url}
    BY DEF OnePlatformPerCall
  <2>1. PlatformInv(t)
    BY DEF SystemInv, SurroundingsInv
  <2>2. addressed[t] = {} \/ addressed[t] = {platform[t]}
    BY <2>1 DEF PlatformInv
  <2>3. Cardinality(addressed[t]) \in {0, 1}
    BY <2>2, FS_EmptySet, FS_Singleton, Zenon
  <2>4. QED BY <2>1, <2>2, <2>3 DEF PlatformInv
<1>2. QED BY <1>1, SystemInvHolds, PTL

(* A background transport drops an event only after an aclose of its own   *)
(* client, and has none pending once an aclose has drained it.             *)
THEOREM ClosingLosesNoEventHolds == SystemSpec => []ClosingLosesNoEvent
<1>1. SystemInv => ClosingLosesNoEvent
  <2> SUFFICES ASSUME SystemInv, NEW t \in Tasks
               PROVE  /\ fate[t] = "skipped" /\ HasBackground(client[t]) =>
                            \E c \in Closers : client[c] = client[t] /\ pc[c] = "done"
                      /\ fate[t] = "taken" => client[t] \notin drained
    BY DEF ClosingLosesNoEvent
  <2>1. FateInv(t) /\ (fate[t] # "none" => client[t] \in Built)
    BY CallFacts DEF SystemInv, SurroundingsInv, FateInv
  <2>2. \A i \in Built : TransportInv(i)
    BY DEF SystemInv, SurroundingsInv
  <2>3. QED BY <2>1, <2>2 DEF FateInv, TransportInv
<1>2. QED BY <1>1, SystemInvHolds, PTL

-----------------------------------------------------------------------------
(* The refinement of FireAndForget, for the transport of the client i: what*)
(* a step of the system does to what the contract speaks of.               *)
StatusOf(i, t) == IF client[t] # i \/ fate[t] = "none" THEN "new" ELSE fate[t]
IsOpen(i) == i \in Built => transport[i] # "closed"

KeepsContract(i) == UNCHANGED TransportOf(i)!vars \/ TransportOf(i)!Next

LEMMA Stutters ==
    ASSUME NEW i, \A t \in Tasks : StatusOf(i, t)' = StatusOf(i, t),
           IsOpen(i)' <=> IsOpen(i), (i \in drained)' <=> i \in drained
    PROVE  UNCHANGED TransportOf(i)!vars
BY DEF TransportOf!vars, StatusOf, IsOpen

LEMMA Moves ==
    ASSUME NEW i, NEW t \in Tasks, NEW s, StatusOf(i, t)' = s,
           \A u \in Tasks \ {t} : StatusOf(i, u)' = StatusOf(i, u)
    PROVE  [u \in Tasks |-> StatusOf(i, u)']
              = [[u \in Tasks |-> StatusOf(i, u)] EXCEPT ![t] = s]
OBVIOUS

(* Handling a call takes or skips the one event it reports, if any.        *)
LEMMA HandleRefines ==
    ASSUME SystemInv, SystemInv', NEW t \in Tasks, Handle(t), NEW i
    PROVE  KeepsContract(i)
<1>1. Inv /\ Handling(t) /\ SurroundingsInv /\ SurroundingsInv'
  BY DEF SystemInv, Handle
<1>2. /\ UNCHANGED <<config, transport, drained>> /\ Built' = Built
      /\ emitted[t] = <<>> /\ (pc[t] # "idle" => client'[t] = client[t])
  BY <1>1, HandlingEffect DEF Handle, Built
<1>3. \A u \in Tasks \ {t} : client'[u] = client[u] /\ fate'[u] = fate[u]
  BY <1>1, OthersKept DEF Handle, Report, SurroundingsInv
<1>4. fate[t] = "none" /\ t \in DOMAIN fate
  BY <1>1, <1>2 DEF SurroundingsInv, FateInv
<1>5. (IsOpen(i)' <=> IsOpen(i)) /\ ((i \in drained)' <=> i \in drained)
  BY <1>2 DEF IsOpen
<1>6. StatusOf(i, t) = "new" /\ \A u \in Tasks \ {t} : StatusOf(i, u)' = StatusOf(i, u)
  BY <1>3, <1>4 DEF StatusOf
<1>7. CASE emitted'[t] = emitted[t] \/ client'[t] # i
  <2>1. fate'[t] = "none" \/ client'[t] # i
    BY <1>4, <1>7 DEF Handle, Report
  <2>2. StatusOf(i, t)' = StatusOf(i, t)
    BY <1>6, <2>1 DEF StatusOf
  <2>3. QED BY <1>5, <1>6, <2>2, Stutters DEF KeepsContract
<1>8. CASE emitted'[t] # emitted[t] /\ client'[t] = i
  <2>1. fate'[t] = IF transport[i] = "http" THEN "taken" ELSE "skipped"
    BY <1>4, <1>8 DEF Handle, Report
  <2>2. StatusOf(i, t)' = IF transport[i] = "http" THEN "taken" ELSE "skipped"
    BY <1>8, <2>1 DEF StatusOf
  <2>3. CASE transport[i] = "http"
    <3>1. TransportOf(i)!Take(t)
      BY <1>5, <1>6, <2>2, <2>3, Moves DEF TransportOf!Take, StatusOf, IsOpen
    <3>2. QED BY <3>1 DEF KeepsContract, TransportOf!Next
  <2>4. CASE transport[i] # "http"
    <3>1. TransportOf(i)!Skip(t)
      BY <1>5, <1>6, <2>2, <2>4, Moves DEF TransportOf!Skip, StatusOf, IsOpen
    <3>2. QED BY <3>1 DEF KeepsContract, TransportOf!Next
  <2>5. QED BY <2>3, <2>4
<1>9. QED BY <1>7, <1>8

LEMMA SettleRefines ==
    ASSUME SystemInv, NEW t \in Tasks, Settle(t), NEW i
    PROVE  KeepsContract(i)
<1>1. /\ UNCHANGED <<config, transport, client, drained>> /\ Built' = Built
      /\ fate[t] = "taken" /\ fate' = [fate EXCEPT ![t] = "settled"] /\ DOMAIN fate = Tasks
  BY DEF Settle, vars, clients, Built, SystemInv, SurroundingsInv
<1>2. (IsOpen(i)' <=> IsOpen(i)) /\ ((i \in drained)' <=> i \in drained)
  BY <1>1 DEF IsOpen
<1>3. \A u \in Tasks \ {t} : StatusOf(i, u)' = StatusOf(i, u)
  BY <1>1 DEF StatusOf
<1>4. CASE client[t] # i
  BY <1>1, <1>2, <1>3, <1>4, Stutters DEF StatusOf, KeepsContract
<1>5. CASE client[t] = i
  <2>1. StatusOf(i, t) = "taken" /\ StatusOf(i, t)' = "settled"
    BY <1>1, <1>5 DEF StatusOf
  <2>m. [u \in Tasks |-> StatusOf(i, u)']
           = [[u \in Tasks |-> StatusOf(i, u)] EXCEPT ![t] = "settled"]
    BY <1>3, <2>1, Moves
  <2>2. TransportOf(i)!Settle(t)
    BY <1>2, <2>1, <2>m DEF TransportOf!Settle, StatusOf, IsOpen
  <2>3. QED BY <2>2 DEF KeepsContract, TransportOf!Next
<1>6. QED BY <1>4, <1>5

(* aclose stops the transport of its client from taking events.            *)
LEMMA CloseRefines ==
    ASSUME SystemInv, NEW c \in Closers, Close(c), NEW i
    PROVE  KeepsContract(i)
<1>1. Inv /\ Closing(c) /\ UNCHANGED <<fate, drained>>
  BY DEF SystemInv, Close
<1>2. /\ UNCHANGED config /\ Built' = Built
      /\ \A t \in Tasks : client'[t] = client[t]
      /\ \A j \in Built : transport'[j] \in {"closed", transport[j]}
  BY <1>1, ClosingEffect DEF Built
<1>3. /\ \A t \in Tasks : StatusOf(i, t)' = StatusOf(i, t)
      /\ (i \in drained)' <=> i \in drained
  BY <1>1, <1>2 DEF StatusOf
<1>4. CASE IsOpen(i)' <=> IsOpen(i)
  BY <1>3, <1>4, Stutters DEF KeepsContract
<1>5. CASE ~(IsOpen(i)' <=> IsOpen(i))
  <2>1. ~IsOpen(i)'
    BY <1>2, <1>5 DEF IsOpen
  <2>2. TransportOf(i)!StopTaking
    BY <1>3, <2>1 DEF TransportOf!StopTaking, StatusOf, IsOpen
  <2>3. QED BY <2>2 DEF KeepsContract, TransportOf!Next
<1>6. QED BY <1>4, <1>5

LEMMA EndDrainRefines ==
    ASSUME SystemInv, NEW c \in Closers, EndDrain(c), NEW i
    PROVE  KeepsContract(i)
<1>1. /\ UNCHANGED <<config, transport, client, fate>> /\ Built' = Built
      /\ drained' = drained \cup {client[c]}
      /\ \A t \in Tasks : client[t] = client[c] => fate[t] # "taken"
      /\ client[c] \in Built /\ transport[client[c]] = "closed"
  BY DEF EndDrain, vars, clients, Built, SystemInv, SurroundingsInv, DrainInv
<1>2. /\ \A t \in Tasks : StatusOf(i, t)' = StatusOf(i, t)
      /\ IsOpen(i)' <=> IsOpen(i)
  BY <1>1 DEF StatusOf, IsOpen
<1>3. CASE client[c] # i
  BY <1>1, <1>2, <1>3, Stutters DEF KeepsContract
<1>4. CASE client[c] = i
  <2>1. /\ \A t \in Tasks : StatusOf(i, t) # "taken"
        /\ ~IsOpen(i)' /\ (i \in drained)'
    BY <1>1, <1>4 DEF StatusOf, IsOpen
  <2>2. TransportOf(i)!Drain
    BY <1>2, <2>1 DEF TransportOf!Drain, StatusOf, IsOpen
  <2>3. QED BY <2>2 DEF KeepsContract, TransportOf!Next
<1>5. QED BY <1>3, <1>4

LEMMA OthersStutter ==
    ASSUME SystemInv, NEW i,
           \/ \E c \in Configs, reset \in BOOLEAN : Construct(c, reset) /\ UNCHANGED surroundings
           \/ ResetInstance /\ UNCHANGED surroundings
           \/ \E c \in Closers : CancelClosing(c) /\ UNCHANGED surroundings
           \/ \E c \in Closers : CancelDrain(c)
           \/ \E url \in BaseUrls : SetBaseUrl(url)
           \/ UNCHANGED systemVars
    PROVE  KeepsContract(i)
<1>1. UNCHANGED <<client, fate, drained>>
  BY DEF Construct, ResetInstance, CancelClosing, CancelDrain, SetBaseUrl, systemVars,
         surroundings, vars
<1>2. IsOpen(i)' <=> IsOpen(i)
  <2>1. CASE \E c \in Configs, reset \in BOOLEAN : Construct(c, reset)
    <3>1. /\ Built \subseteq Built'
          /\ \A j \in Built : transport'[j] = transport[j]
          /\ \A j \in Built' \ Built : transport'[j] = Transport(config'[j])
      BY <2>1, ConstructEffect DEF SystemInv
    <3>2. QED BY <3>1 DEF IsOpen, Transport
  <2>2. CASE UNCHANGED <<config, transport>>
    BY <2>2 DEF IsOpen, Built
  <2>3. QED
    BY <2>1, <2>2 DEF ResetInstance, CancelClosing, CancelDrain, SetBaseUrl, systemVars, vars, clients
<1>3. QED BY <1>1, <1>2, Stutters DEF StatusOf, KeepsContract

LEMMA StepsRefine ==
    SystemInv /\ SystemInv' /\ [SystemNext]_systemVars => \A i \in 1 .. MaxInstances : KeepsContract(i)
BY HandleRefines, SettleRefines, CloseRefines, EndDrainRefines, OthersStutter DEF SystemNext

LEMMA InitRefines == SystemInit => \A i \in 1 .. MaxInstances : TransportOf(i)!Init
<1> SUFFICES ASSUME SystemInit, NEW i PROVE TransportOf(i)!Init
  OBVIOUS
<1>1. /\ \A t \in Tasks : fate[t] = "none"
      /\ IsOpen(i) /\ i \notin drained
  BY DEF SystemInit, Init, IsOpen, Built
<1>2. QED BY <1>1 DEF TransportOf!Init, IsOpen

(* Towards each client its transport implements FireAndForget: every event *)
(* is taken or skipped at once, what was taken settles before aclose       *)
(* returns, and afterwards nothing is taken.                               *)
THEOREM TransportsKeepContractHolds == SystemSpec => TransportsKeepContract
<1>1. SystemInv /\ SystemInv' /\ [SystemNext]_systemVars =>
         [\A i \in 1 .. MaxInstances :
              UNCHANGED TransportOf(i)!vars \/ TransportOf(i)!Next]_systemVars
  BY StepsRefine DEF KeepsContract
<1>2. QED BY <1>1, InitRefines, SystemInvHolds, PTL DEF SystemSpec, TransportsKeepContract
=============================================================================
