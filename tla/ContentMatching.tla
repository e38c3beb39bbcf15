---------------------------- MODULE ContentMatching ----------------------------
(***************************************************************************)
(* Which <content> block of a license.xml answers for a resource URL, and  *)
(* which token endpoint follows from it (url_pattern.py,                   *)
(* customer/content_matcher.py, customer/token.py).  Operators only.       *)
(*                                                                         *)
(* A path or a pattern is a sequence of characters.  A resource URL and a  *)
(* url pattern are [scheme, host, path]: host is PathOnly for a pattern    *)
(* that starts with "/", NoHost for text that is neither that nor an       *)
(* absolute URL.  Matching ignores the scheme, which is part of an origin. *)
(* URLs and patterns that name a host have no query and no fragment.       *)
(***************************************************************************)
EXTENDS Integers, Sequences, FiniteSets
LOCAL INSTANCE FiniteSetsExt

CONSTANTS
    PathOnly, NoHost,  \* the two kinds of url patterns that name no host
    NoServer,          \* a <content> without a server attribute
    Authority(_)       \* host and port of a server URL, NoHost if unparseable

-----------------------------------------------------------------------------
(* The regular expression the pattern becomes: "*" stands for any run of   *)
(* characters.  With toEnd the whole text has to match, else a prefix.     *)
(* GlobOneOrMore is a faulty variant, for a mutation run.                  *)
GlobOneOrMore(body, text, toEnd) ==
    LET matches[x \in (1 .. Len(body) + 1) \X (1 .. Len(text) + 1)] ==
            LET i == x[1]
                j == x[2]
            IN IF i > Len(body) THEN ~toEnd \/ j > Len(text)
               ELSE /\ j <= Len(text)
                    /\ body[i] \in {"*", text[j]}
                    /\ \/ matches[<<i + 1, j + 1>>]
                       \/ body[i] = "*" /\ matches[<<i, j + 1>>]
    IN matches[<<1, 1>>]

Glob(body, text, toEnd) ==
    LET matches[x \in (1 .. Len(body) + 1) \X (1 .. Len(text) + 1)] ==
            LET i == x[1]
                j == x[2]
            IN IF i > Len(body) THEN ~toEnd \/ j > Len(text)
               ELSE \/ body[i] = "*" /\ matches[<<i + 1, j>>]
                    \/ /\ j <= Len(text)
                       /\ body[i] \in {"*", text[j]}
                       /\ matches[<<IF body[i] = "*" THEN i ELSE i + 1, j + 1>>]
    IN matches[<<1, 1>>]

Anchored(pattern) == pattern # <<>> /\ pattern[Len(pattern)] = "$"
NormalizedPattern(pattern) ==
    IF Anchored(pattern) THEN SubSeq(pattern, 1, Len(pattern) - 1) ELSE pattern
HasWildcard(body) == \E i \in DOMAIN body : body[i] = "*"
LiteralLength(body) == Cardinality({i \in DOMAIN body : body[i] # "*"})

(* What the regular expression consists of: [body, toEnd].                 *)
Regexes(pattern) ==
    LET body == NormalizedPattern(pattern) IN
    IF Anchored(pattern) THEN {<<body, TRUE>>}
    ELSE IF HasWildcard(body) \/ body = <<"/">> THEN {<<body, FALSE>>}
    ELSE {<<body, TRUE>>, <<Append(body, "/"), FALSE>>}

ScorePathPattern(pattern, path) ==
    IF \E regex \in Regexes(pattern) : Glob(regex[1], path, regex[2])
    THEN LiteralLength(NormalizedPattern(pattern)) ELSE -1

-----------------------------------------------------------------------------
(* The first exact match, else the first of the highest-scoring matches.   *)
HostFits(block, resource) == block.url_pattern.host \in {PathOnly, resource.host}

PatternPath(block) == IF block.url_pattern.path = <<>> THEN <<"/">> ELSE block.url_pattern.path

ResourcePath(resource) == IF resource.path = <<>> THEN <<"/">> ELSE resource.path

Specificity(block, resource) == ScorePathPattern(PatternPath(block), ResourcePath(resource))

Highest(score) ==
    {i \in DOMAIN score : score[i] >= 0 /\ \A j \in DOMAIN score : score[j] <= score[i]}

FirstOf(blocks, found) == IF found = {} THEN {} ELSE {blocks[Min(found)]}

BestMatches(blocks, resource) ==
    LET fits == {i \in DOMAIN blocks : HostFits(blocks[i], resource)}
        exact == {i \in fits : PatternPath(blocks[i]) = ResourcePath(resource)}
    IN FirstOf(blocks, IF exact # {} THEN exact
                       ELSE Highest([i \in fits |-> Specificity(blocks[i], resource)]))

-----------------------------------------------------------------------------
(* A block's license is text that is parsed again here, [terms, parses]:   *)
(* parses whether that works, terms its <permits>/<prohibits type="usage"> *)
(* elements.  A prohibition of the usage, or of "all", wins wherever it is;*)
(* a text that is no XML permits nothing.  TermsAlone is a faulty variant. *)
TermsAlone(block, usage) ==
    LET Has(tag) == \E e \in block.license.terms : e.tag = tag /\ e.usages \cap {"all", usage} # {}
    IN Has("permits") /\ ~Has("prohibits")
LicensePermitsUsage(block, usage) ==
    LET Has(tag) == \E e \in block.license.terms : e.tag = tag /\ e.usages \cap {"all", usage} # {}
    IN block.license.parses /\ Has("permits") /\ ~Has("prohibits")

(* The elements of a list at some positions, in the order of the list.     *)
Rank(positions, i) == Cardinality({j \in positions : j <= i})
At(s, positions) ==
    [n \in 1 .. Cardinality(positions) |->
        s[CHOOSE i \in positions : Rank(positions, i) = n]]

FindServerlessUsageContent(blocks, resource, usage) ==
    LET Serverless(b) == b.server = NoServer /\ LicensePermitsUsage(b, usage)
    IN BestMatches(At(blocks, {i \in DOMAIN blocks : Serverless(blocks[i])}), resource)

(* A block on the Supertab API host wins over one of another provider; with*)
(* no match at all the endpoint is the Agreement lane of the API host.     *)
(* AnyProviderFirst is a faulty variant of SupertabFirst.                  *)
IsSupertabServer(server, base) == Authority(server) # NoHost /\ Authority(server) = Authority(base)

WithServer(blocks) == {i \in DOMAIN blocks : blocks[i].server # NoServer}
OnSupertab(blocks, base) ==
    {i \in WithServer(blocks) : IsSupertabServer(blocks[i].server, base)}

Prefer(first, second) == IF first # {} THEN first ELSE second

AnyProviderFirst(blocks, resource, base) ==
    BestMatches(At(blocks, WithServer(blocks)), resource)
SupertabFirst(blocks, resource, base) ==
    Prefer(BestMatches(At(blocks, OnSupertab(blocks, base)), resource),
           BestMatches(At(blocks, WithServer(blocks)), resource))

(* _build_origin: scheme and host of the resource.                         *)
Origin(resource) == [scheme |-> resource.scheme, host |-> resource.host, path |-> <<>>]

TokenEndpoints(matched) ==
    {[server |-> b.server, scope |-> b.url_pattern, matched |-> TRUE, license |-> b.license] :
        b \in matched}

AgreementLane(resource, base) ==
    [server |-> base, scope |-> Origin(resource), matched |-> FALSE,
     license |-> [terms |-> {}, parses |-> FALSE]]

SelectTokenEndpoint(blocks, resource, base) ==
    CHOOSE e \in Prefer(TokenEndpoints(SupertabFirst(blocks, resource, base)),
                        {AgreementLane(resource, base)}) : TRUE
=============================================================================
