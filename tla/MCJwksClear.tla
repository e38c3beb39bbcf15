------------------------------ MODULE MCJwksClear ------------------------------
(* JwksVerification with two history variables about clear_jwks_cache: the   *)
(* keys that were not published when it ran, and the verifications that began*)
(* after it.                                                                 *)
EXTENDS MCJwksVerification

VARIABLES gone, afterClear

ClearInit ==
    /\ Init
    /\ gone = [u \in Urls |-> {}]
    /\ afterClear = {}

ClearNext ==
    \/ /\ ClearCache
       /\ gone' = [u \in Urls |-> Kids \ published[u]]
       /\ afterClear' = {}
    \/ /\ \/ /\ \E t \in Tasks :
                   BeginVerification(t) /\ afterClear' = afterClear \cup {t}
          \/ /\ \/ \E t \in Tasks : RejectUnfetched(t) \/ Proceed(t)
                \/ \E u \in Urls : Rotate(u)
                \/ Tick
             /\ UNCHANGED afterClear
       /\ gone' = [u \in Urls |-> gone[u] \ published'[u]]

ClearSpec == ClearInit /\ [][ClearNext]_<<vars, gone, afterClear>>

(* The docstring at jwks.py:101: clear_jwks_cache forces a fresh fetch on the *)
(* next call.  A verification that begins after a clear therefore accepts no  *)
(* key that the platform had withdrawn by then.                               *)
ClearForcesFreshFetch ==
    \A t \in Tasks :
        pc[t] = "done" /\ result[t] = "valid" /\ t \in afterClear
        => call[t].kid \notin gone[call[t].url]
=============================================================================
