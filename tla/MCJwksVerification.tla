-------------------------- MODULE MCJwksVerification --------------------------
(* Requests for TLC.  ks is never withdrawn, kr comes and goes: a token     *)
(* that names kr while it is not published is the token with an unknown kid.*)
EXTENDS JwksVerification, TLC

CONSTANTS ks, kr, u1

License(k, d) == [kind |-> "license", url |-> u1, kid |-> k, defect |-> d]
Status(k, d) == [kind |-> "status", url |-> u1, kid |-> k, defect |-> d]

RotatingRequests == {License(kr, "none")}

SoundRequests == {License(ks, "none"), License(kr, "none")}

SafetyRequests == SoundRequests \cup {License(kr, "issuer"), Status(kr, "header")}

Symmetry == Permutations(Tasks)
=============================================================================
