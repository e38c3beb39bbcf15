---------------------------- MODULE FireAndForget ----------------------------
(***************************************************************************)
(* What an analytics transport promises to its owner: an event is taken or *)
(* skipped at once and settles later; when aclose has returned, everything *)
(* that was taken has settled and nothing is taken any more.               *)
(***************************************************************************)
CONSTANTS Events

VARIABLES
    status,  \* status[e]: where event e is
    open,    \* events are still taken
    drained  \* a call of aclose has returned

vars == <<status, open, drained>>

Init ==
    /\ status = [e \in Events |-> "new"]
    /\ open = TRUE
    /\ drained = FALSE

Take(e) ==
    /\ open /\ status[e] = "new"
    /\ status' = [status EXCEPT ![e] = "taken"]
    /\ UNCHANGED <<open, drained>>

Skip(e) ==
    /\ status[e] = "new"
    /\ status' = [status EXCEPT ![e] = "skipped"]
    /\ UNCHANGED <<open, drained>>

Settle(e) ==
    /\ status[e] = "taken"
    /\ status' = [status EXCEPT ![e] = "settled"]
    /\ UNCHANGED <<open, drained>>

StopTaking == open' = FALSE /\ UNCHANGED <<status, drained>>

Drain ==
    /\ \A e \in Events : status[e] # "taken"
    /\ drained' = TRUE
    /\ open' = FALSE
    /\ UNCHANGED status

Next ==
    \/ \E e \in Events : Take(e) \/ Skip(e) \/ Settle(e)
    \/ StopTaking
    \/ Drain

Spec == Init /\ [][Next]_vars
=============================================================================
