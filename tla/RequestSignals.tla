----------------------------- MODULE RequestSignals -----------------------------
(***************************************************************************)
(* What the SDK reads off a request besides its token: the default bot     *)
(* detector (merchant/bots.py) and the analytics event that describes the  *)
(* request (analytics/build_analytics_event.py).  Operators only.          *)
(*                                                                         *)
(* headers is the set of the lower-case names of the headers a request has *)
(* with a value that is not empty; what the values are plays no part, and  *)
(* headers with an empty value, which only header_names and has_cookies    *)
(* would show, are left out.  The user agent, in lower case, is the set of *)
(* the markers it contains.                                                *)
(***************************************************************************)
CONSTANT EdgePrefixed  \* the header names with one of _EDGE_HEADER_PREFIXES

KnownBots ==
    {"chatgpt-user", "perplexitybot", "gptbot", "anthropic-ai", "ccbot", "claude-web",
     "claudebot", "cohere-ai", "youbot", "diffbot", "oai-searchbot", "meta-externalagent",
     "timpibot", "amazonbot", "bytespider", "perplexity-user", "googlebot", "bot", "curl", "wget"}
Chromium ==
    {"chrome/", "chromium/", "edg/", "edga/", "opr/", "opera/", "samsungbrowser/"}
IosWebkit == {"crios/", "edgios/", "fxios/"}
Headless == {"headless", "puppeteer"}

LacksClientHints(user_agent) ==
    \/ user_agent \cap (IosWebkit \cup {"firefox/"}) # {}
    \/ {"safari/", "applewebkit/"} \subseteq user_agent /\ user_agent \cap Chromium = {}

(* A browser that sends no client hints passes without them, whatever else *)
(* speaks against it; of the rest any indicator is enough.                 *)
DefaultBotDetector(user_agent, headers) ==
    /\ ~ /\ LacksClientHints(user_agent)
         /\ user_agent \cap Headless = {}
         /\ "sec-ch-ua" \notin headers
    /\ \/ user_agent \cap (KnownBots \cup Headless) # {}
       \/ ~({"sec-ch-ua", "accept", "accept-language"} \subseteq headers)

-----------------------------------------------------------------------------
EdgeHeaderNames ==
    {"x-real-ip", "x-original-request-url", "host", "cdn-loop", "x-varnish", "via",
     "surrogate-key", "surrogate-control"}
HeaderNames(headers) == headers \ (EdgeHeaderNames \cup EdgePrefixed)

(* The headers whose value the event carries, in a field of its own each.  *)
HintsOnly ==
    {"sec-ch-ua", "sec-ch-ua-mobile", "sec-ch-ua-platform", "sec-fetch-mode", "sec-fetch-site",
     "sec-fetch-dest", "sec-fetch-user", "accept", "host"}
Copied ==
    {"referer", "accept-language", "signature-agent", "signature-input", "signature",
     "sec-ch-ua", "sec-ch-ua-mobile", "sec-ch-ua-platform", "sec-fetch-mode", "sec-fetch-site",
     "sec-fetch-dest", "sec-fetch-user", "accept", "host"}

(* The URL of a request is absolute: the host comes from it when no header *)
(* names one.                                                              *)
AnalyticsEvent(user_agent, headers, decision) ==
    [decision |-> decision, user_agent |-> user_agent,
     copied |-> (headers \cup {"host"}) \cap Copied,
     has_cookies |-> "cookie" \in headers, header_names |-> HeaderNames(headers)]
=============================================================================
