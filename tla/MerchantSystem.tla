----------------------------- MODULE MerchantSystem -----------------------------
(***************************************************************************)
(* The merchant's clients with what is around them: the platform's base URL*)
(* which the class may be pointed elsewhere at any time, and the background*)
(* transport of each client, which delivers events and is drained by       *)
(* aclose.  Every step of MerchantClient is a step here: Handle and Close  *)
(* say what it does to these.  Of a transport only the contract is used    *)
(* that AnalyticsTransport implements (FireAndForget).                     *)
(***************************************************************************)
EXTENDS MerchantClient

CONSTANTS
    BaseUrls,       \* the hosts _base_url may name; a config overrides it with base_url or None
    DefaultBaseUrl  \* what it names at first

ASSUME BaseUrlsAssumption ==
    DefaultBaseUrl \in BaseUrls /\ \A c \in Configs : c.base_url \in BaseUrls \cup {None}

VARIABLES
    base_url,   \* _base_url
    platform,   \* platform[t]: the supertab_base_url the call of t was given
    addressed,  \* history: the hosts the key sets and records of the call went to
    fate,       \* fate[t]: what became of the event of t
    draining,   \* the closers whose aclose awaits its transport
    drained     \* history: the clients of which an aclose has drained the transport

surroundings == <<base_url, platform, addressed, fate, draining, drained>>
systemVars == <<vars, surroundings>>

SystemInit ==
    /\ Init
    /\ base_url = DefaultBaseUrl
    /\ platform = [t \in Tasks |-> None]
    /\ addressed = [t \in Tasks |-> {}]
    /\ fate = [t \in Tasks |-> "none"]
    /\ draining = {}
    /\ drained = {}

-----------------------------------------------------------------------------
(* The property base_url of a client, and of the class (i = None).         *)
BaseUrl(i) ==
    IF i = None \/ config[i].base_url = None THEN base_url ELSE config[i].base_url

(* All requests of a call go to the URL it was given when it came in.      *)
(* LiveUrl is a faulty variant of RecordUrl.                               *)
Arrives(t) == pc[t] = "idle" /\ pc'[t] \in {"verify", "challenge"}

LiveUrl(t) == BaseUrl(client[t])
RecordUrl(t) == platform[t]

Address(t) ==
    /\ platform' = [platform EXCEPT ![t] = IF Arrives(t) THEN BaseUrl(client'[t]) ELSE @]
    /\ addressed' = [addressed EXCEPT ![t] =
          IF Arrives(t) THEN {platform'[t]}
          ELSE IF pc'[t] = "record" THEN @ \cup {RecordUrl(t)} ELSE @]

(* The background transport takes every event until it is closed; others   *)
(* keep what they do to themselves.                                        *)
Report(t) ==
    fate' = [fate EXCEPT ![t] =
        IF emitted'[t] = emitted[t] THEN @
        ELSE IF transport[client'[t]] = "http" THEN "taken" ELSE "skipped"]

Handle(t) ==
    /\ Handling(t)
    /\ Address(t) /\ Report(t)
    /\ UNCHANGED <<base_url, draining, drained>>

(* aclose comes to its transport: from here on it takes no event, and the  *)
(* background transport awaits those it has taken.                         *)
HasBackground(i) == Transport(config[i]) = "http"

Close(c) ==
    /\ Closing(c)
    /\ draining' = IF pc'[c] = "done" /\ HasBackground(client'[c])
                   THEN draining \cup {c} ELSE draining
    /\ UNCHANGED <<base_url, platform, addressed, fate, drained>>

EndDrain(c) ==
    /\ c \in draining
    /\ \A t \in Tasks : client[t] = client[c] => fate[t] # "taken"
    /\ draining' = draining \ {c}
    /\ drained' = drained \cup {client[c]}
    /\ UNCHANGED <<vars, base_url, platform, addressed, fate>>

CancelDrain(c) ==
    /\ c \in draining
    /\ draining' = draining \ {c}
    /\ UNCHANGED <<vars, base_url, platform, addressed, fate, drained>>

(* A delivery ends: answered, failed, or cancelled by the drain's timeout. *)
Settle(t) ==
    /\ fate[t] = "taken"
    /\ fate' = [fate EXCEPT ![t] = "settled"]
    /\ UNCHANGED <<vars, base_url, platform, addressed, draining, drained>>

SetBaseUrl(url) ==
    /\ url # base_url
    /\ base_url' = url
    /\ UNCHANGED <<vars, platform, addressed, fate, draining, drained>>

SystemNext ==
    \/ \E c \in Configs, reset \in BOOLEAN : Construct(c, reset) /\ UNCHANGED surroundings
    \/ ResetInstance /\ UNCHANGED surroundings
    \/ \E t \in Tasks : Handle(t) \/ Settle(t)
    \/ \E c \in Closers : Close(c) \/ EndDrain(c) \/ CancelDrain(c)
    \/ \E c \in Closers : CancelClosing(c) /\ UNCHANGED surroundings
    \/ \E url \in BaseUrls : SetBaseUrl(url)

SystemSpec == SystemInit /\ [][SystemNext]_systemVars

-----------------------------------------------------------------------------
(* One call talks to one platform: the key sets that verify a token and the*)
(* record of its use belong together, also when set_base_url is called     *)
(* while the call awaits.                                                  *)
OnePlatformPerCall ==
    \A t \in Tasks :
        /\ Cardinality(addressed[t]) <= 1
        /\ (client[t] # None /\ config[client[t]].base_url # None) =>
              addressed[t] \subseteq {config[client[t]].base_url}

(* "close the client when you are done so in-flight events are not lost"   *)
(* (README): an event of a client with the background transport is dropped *)
(* only when an aclose of that client came before it, although aclose also *)
(* closes what all clients share, and none is pending once it has returned.*)
ClosingLosesNoEvent ==
    \A t \in Tasks :
        /\ fate[t] = "skipped" /\ HasBackground(client[t]) =>
              \E c \in Closers : client[c] = client[t] /\ pc[c] = "done"
        /\ fate[t] = "taken" => client[t] \notin drained

(* Towards each client its transport keeps the contract of FireAndForget,  *)
(* requests, aclose and cancellation interleaved in every way.             *)
TransportOf(i) == INSTANCE FireAndForget WITH
    Events <- Tasks,
    status <- [t \in Tasks |-> IF client[t] # i \/ fate[t] = "none" THEN "new" ELSE fate[t]],
    open <- i \in Built => transport[i] # "closed",
    drained <- i \in drained

TransportsKeepContract ==
    /\ \A i \in 1 .. MaxInstances : TransportOf(i)!Init
    /\ [][\A i \in 1 .. MaxInstances :
              UNCHANGED TransportOf(i)!vars \/ TransportOf(i)!Next]_systemVars
=============================================================================
