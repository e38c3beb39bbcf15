---------------------------- MODULE MCMerchantClient ----------------------------
(* One configuration of each kind of analytics transport, one without a key.*)
EXTENDS MerchantClient

CONSTANTS t1, t2, a1, k1, k2, url1, url2

Config(key, mode, enabled, custom, detector, url) ==
    [api_key |-> key, enforcement |-> mode, analytics_enabled |-> enabled, custom |-> custom,
     detector |-> detector, base_url |-> url]

AllConfigs ==
    {Config(k1, "enforce", TRUE, FALSE, "default", None),
     Config(k1, "observe", FALSE, TRUE, "own", url1),
     Config(k2, "disabled", FALSE, FALSE, "none", None),
     Config("", "observe", FALSE, FALSE, "none", None)}
HttpConfig == {Config(k1, "enforce", TRUE, FALSE, "default", None)}

(* Browsers with and without client hints, and bots, as they introduce     *)
(* themselves.                                                             *)
Chrome == {"chrome/", "safari/", "applewebkit/"}
Safari == {"safari/", "applewebkit/"}
AllHeaders == {"host", "cookie", "accept", "accept-language", "sec-ch-ua"}

Req(entry, probe, auth, bot, ua, headers) ==
    [entry |-> entry, probe |-> probe, auth |-> auth, bot |-> bot,
     user_agent |-> ua, headers |-> headers]
Visit(ua, headers) == Req("handle", FALSE, "none", FALSE, ua, headers)
Licensed == Req("handle", FALSE, "license", TRUE, Chrome, {"host"})
Visits ==
    {Visit(Chrome, AllHeaders), Visit(Safari, {"host", "accept"}),
     Req("handle", FALSE, "bearer", TRUE, {"curl"}, AllHeaders)}
TokenCalls ==
    {Licensed, Req("verify", FALSE, "license", FALSE, {}, {}),
     Req("verify_and_record", FALSE, "license", FALSE, {}, {})}
Probes == {Req("handle", TRUE, "bearer", TRUE, {}, {"host"}),
           Req("handle", TRUE, "license", FALSE, {}, {"host"})}

(* One task takes every request, the others those that need no await.      *)
OneWaits == [t \in Tasks |-> IF t = t1 THEN Visits \cup TokenCalls \cup Probes ELSE Visits]

Everywhere(requests) == [t \in Tasks |-> requests]
LicensedOnly == Everywhere({Licensed})

MCVerdicts == {"valid", "license_token_expired", "server_error"}
=============================================================================
