---------------------------- MODULE MCMerchantSystem ----------------------------
(* Two clients with a background transport and two platforms: one client    *)
(* uses the platform the class names, the other its own.                    *)
EXTENDS MerchantSystem, MCMerchantClient

TwoPlatforms ==
    {Config(k1, "enforce", TRUE, FALSE, "default", None),
     Config(k2, "observe", TRUE, FALSE, "default", url1)}

(* The second task reports while the first awaits.                          *)
Passing == {Req("handle", FALSE, "bearer", TRUE, {"curl"}, AllHeaders)}
Awaiting ==
    {Licensed, Req("verify_and_record", FALSE, "license", FALSE, {}, {}),
     Req("handle", TRUE, "bearer", TRUE, {}, {"host"})}
ReportsMeet == [t \in Tasks |-> IF t = t1 THEN Awaiting ELSE Passing]
=============================================================================
