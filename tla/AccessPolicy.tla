------------------------------ MODULE AccessPolicy ------------------------------
(***************************************************************************)
(* What a merchant's client promises to its callers.  A call is answered   *)
(* once.  One that needs no verification is answered when it comes in, as  *)
(* the enforcement mode and the bot detector say.  Another one waits for   *)
(* the token's verdict, of which nothing is said here but that there is at *)
(* most one; once it is out the answer is what it leads to, whatever is    *)
(* recorded, reported, built and closed meanwhile.  Only giving no answer  *)
(* at all is left: the caller cancels the call, or verifying or recording  *)
(* fails and the call raises, which a probe never does.                    *)
(***************************************************************************)
CONSTANTS
    Tasks,
    Modes,     \* "disabled", "observe" and "enforce"
    StatusOf,  \* [reasons -> the HTTP status of a block]
    None       \* no value

VARIABLES
    asked,   \* asked[t]: what task t was called with
    ruling,  \* ruling[t]: the verdict on its token, once it is out
    answer   \* answer[t]: [action, status]

vars == <<asked, ruling, answer>>

Init ==
    /\ asked = [t \in Tasks |-> None]
    /\ ruling = [t \in Tasks |-> None]
    /\ answer = [t \in Tasks |-> None]

Outcomes == DOMAIN StatusOf \cup {"valid"}
Missing == "missing_license_token"
Rulings == Outcomes \ {Missing}

(* kind is the call: handle_request for the status probe or for a visit, or*)
(* one of the two that only verify; token whether it brings one, bot what  *)
(* the detector makes of it, own whether the detector is the merchant's.   *)
Questions ==
    [kind: {"probe", "visit", "verify", "verify_and_record"}, token: BOOLEAN,
     mode: Modes \cup {None}, bot: BOOLEAN, own: BOOLEAN]

NeedsVerdict(q) ==
    \/ q.kind \in {"verify", "verify_and_record"}
    \/ q.kind = "probe" /\ q.token
    \/ q.kind = "visit" /\ q.token /\ q.mode # "disabled"

Reply(action, status) == [action |-> action, status |-> status]
Allowed == Reply("allow", None)
BlockedFor(reason) == Reply("block", StatusOf[reason])

(* The verdict is recorded before the call is answered.                    *)
IsRecorded(q) == q.kind \in {"visit", "verify_and_record"}

(* Answers without a verdict, and the answer a verdict leads to.           *)
AtOnce(q) ==
    CASE q.kind = "probe" -> Reply("respond", 404)
      [] q.kind = "visit" /\ (q.token \/ ~q.bot \/ q.mode = "disabled") -> Allowed
      [] q.kind = "visit" /\ ~q.token /\ q.bot /\ q.mode = "observe" -> Reply("observe", None)
      [] q.kind = "visit" /\ ~q.token /\ q.bot /\ q.mode = "enforce" -> BlockedFor(Missing)

After(q, v) ==
    CASE q.kind = "probe" -> Reply("respond", IF v = "valid" THEN 200 ELSE 404)
      [] q.kind = "visit" -> IF v = "valid" THEN Allowed ELSE BlockedFor(v)
      [] q.kind \in {"verify", "verify_and_record"} ->
            Reply(IF v = "valid" THEN "valid" ELSE "invalid", None)

Give(t, a) == answer' = [answer EXCEPT ![t] = a]

(* Only a merchant's own detector can fail before anything is awaited.     *)
Ask(t) ==
    LET q == asked'[t] IN
    /\ asked[t] = None /\ q \in Questions
    /\ asked' = [asked EXCEPT ![t] = q]
    /\ \/ NeedsVerdict(q) /\ UNCHANGED answer
       \/ ~NeedsVerdict(q) /\ Give(t, AtOnce(q))
       \/ q.kind = "visit" /\ ~q.token /\ q.own /\ Give(t, Reply("raised", None))
    /\ UNCHANGED ruling

Pending(t) == asked[t] # None /\ answer[t] = None

(* The verdict comes out: to be recorded first, or the answer at once.     *)
Rule(t) ==
    /\ Pending(t) /\ ruling[t] = None
    /\ \E v \in Rulings :
          \/ /\ IsRecorded(asked[t])
             /\ ruling' = [ruling EXCEPT ![t] = v]
             /\ UNCHANGED answer
          \/ /\ ~IsRecorded(asked[t])
             /\ Give(t, After(asked[t], v))
             /\ UNCHANGED ruling
    /\ UNCHANGED asked

Conclude(t) ==
    /\ Pending(t) /\ ruling[t] # None
    /\ Give(t, After(asked[t], ruling[t]))
    /\ UNCHANGED <<asked, ruling>>

Unwind(t) ==
    /\ Pending(t)
    /\ \/ Give(t, Reply("cancelled", None))
       \/ asked[t].kind # "probe" /\ Give(t, Reply("raised", None))
    /\ UNCHANGED <<asked, ruling>>

Next == \E t \in Tasks : Ask(t) \/ Rule(t) \/ Conclude(t) \/ Unwind(t)

Spec == Init /\ [][Next]_vars
=============================================================================
