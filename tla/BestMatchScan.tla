----------------------------- MODULE BestMatchScan -----------------------------
(***************************************************************************)
(* The loop of _find_best_matching_content, one iteration a step, against  *)
(* the declarative BestMatches of ContentMatching; with it, what a         *)
(* license.xml grants, the choice of the token endpoint and the pattern    *)
(* language, on every small input.                                         *)
(***************************************************************************)
EXTENDS LicenseXml

CONSTANTS
    Documents,  \* the license.xml documents to scan
    Resources,  \* the resource URLs, [scheme, host, path]
    Usages,     \* the usages a caller may ask for
    BaseUrl     \* the Supertab API server

ASSUME DocumentsAssumption == \A d \in Documents : IsDocument(d)
ASSUME ResourcesAssumption == \A r \in Resources : IsList(r.path)

VARIABLES
    document,          \* the license.xml the blocks come from
    blocks, resource,  \* the arguments of the call
    index,             \* the blocks scanned so far
    best_match,        \* {} or the best block so far
    best_specificity,  \* its score, -1 without one
    returned           \* the call has returned best_match

call == <<document, blocks, resource>>
vars == <<call, index, best_match, best_specificity, returned>>

TypeOK ==
    /\ document.well_formed \in BOOLEAN /\ resource \in Resources
    /\ blocks = ParseContentElements(document)
    /\ index \in 0 .. Len(blocks)
    /\ Cardinality(best_match) <= 1 /\ best_match \subseteq {blocks[i] : i \in 1 .. index}
    /\ best_specificity \in Nat \cup {-1}
    /\ ~returned => (best_match = {} <=> best_specificity = -1)
    /\ returned \in BOOLEAN

Init ==
    /\ document \in Documents
    /\ blocks = ParseContentElements(document)
    /\ resource \in Resources
    /\ index = 0
    /\ best_match = {}
    /\ best_specificity = -1
    /\ returned = FALSE

Scan ==
    /\ ~returned /\ index < Len(blocks)
    /\ index' = index + 1
    /\ UNCHANGED call

Current == blocks[index + 1]
IsExact == PatternPath(Current) = ResourcePath(resource)

SkipBlock ==
    /\ Scan
    /\ ~HostFits(Current, resource)
    /\ UNCHANGED <<best_match, best_specificity, returned>>

ExactMatch ==
    /\ Scan
    /\ HostFits(Current, resource) /\ IsExact
    /\ best_match' = {Current}
    /\ returned' = TRUE
    /\ UNCHANGED best_specificity

(* AtLeastAsGood is a faulty variant of IsBetter, for a mutation run.       *)
AtLeastAsGood(score) == score >= best_specificity
IsBetter(score) == score > best_specificity

Compare ==
    LET score == Specificity(Current, resource) IN
    /\ Scan
    /\ HostFits(Current, resource) /\ ~IsExact
    /\ \/ /\ IsBetter(score)
          /\ best_specificity' = score
          /\ best_match' = {Current}
       \/ /\ ~IsBetter(score)
          /\ UNCHANGED <<best_match, best_specificity>>
    /\ UNCHANGED returned

EndOfBlocks ==
    /\ ~returned /\ index = Len(blocks)
    /\ returned' = TRUE
    /\ UNCHANGED <<call, index, best_match, best_specificity>>

Next == SkipBlock \/ ExactMatch \/ Compare \/ EndOfBlocks

Spec == Init /\ [][Next]_vars

-----------------------------------------------------------------------------
(* The loop returns the first exact match, and without one the first block *)
(* of the highest specificity, in one pass over content_blocks.            *)
ScanFindsBestMatch == returned => best_match = BestMatches(blocks, resource)

Matches(b) == /\ HostFits(b, resource)
              /\ \/ PatternPath(b) = ResourcePath(resource)
                 \/ Specificity(b, resource) >= 0

(* Credentials are never sent to a third party when a Supertab block also  *)
(* matches, and a license-less mint happens only when no block with a      *)
(* server matches (docstring of _select_token_endpoint).                   *)
CredentialsStayHome ==
  index = 0 =>
    LET endpoint == SelectTokenEndpoint(blocks, resource, BaseUrl)
        Mints(i) == blocks[i].server # NoServer /\ Matches(blocks[i])
    IN /\ (\E i \in DOMAIN blocks : Mints(i) /\ IsSupertabServer(blocks[i].server, BaseUrl))
              => IsSupertabServer(endpoint.server, BaseUrl)
       /\ endpoint.matched <=> \E i \in DOMAIN blocks : Mints(i)

Counted(elements, e) ==
    \/ e.ns = "rsl"
    \/ e.ns = "none" /\ \A i \in DOMAIN elements : elements[i].ns # "rsl"

(* A usage needs no token exactly when one <content> element of the        *)
(* document's namespace that has a url, a license and no server grants it  *)
(* for the resource: its own first license permits the usage, prohibits it *)
(* nowhere and has no text behind it, whatever the blocks around it say.   *)
GrantedUsageIsFree ==
  index = 0 =>
    \A usage \in Usages :
        LET Missing(value) == value \in {Absent, Blank}
            Says(l, tag) == \E entry \in l.terms : entry.tag = tag /\ {"all", usage} \cap entry.usages # {}
            GrantedBy(e) ==
                /\ ~Missing(e.url) /\ Missing(e.server)
                /\ Matches([url_pattern |-> e.url])
                /\ \E j \in DOMAIN e.licenses :
                      /\ Counted(e.licenses, e.licenses[j])
                      /\ \A k \in 1 .. j - 1 : ~Counted(e.licenses, e.licenses[k])
                      /\ Says(e.licenses[j], "permits") /\ ~Says(e.licenses[j], "prohibits")
                      /\ ~e.licenses[j].text_after
        IN CustomerMatch(document, resource, {usage}, BaseUrl).requires_token <=>
              ~ \E i \in DOMAIN document.content :
                    /\ document.well_formed
                    /\ Counted(document.content, document.content[i])
                    /\ GrantedBy(document.content[i])

(* A license.xml written without a namespace means what it means with the  *)
(* RSL namespace as its default one, for every usage and without one.      *)
InRslNamespace(elements) == [i \in DOMAIN elements |-> [elements[i] EXCEPT !.ns = "rsl"]]

WithRslLicenses(elements) ==
    [i \in DOMAIN elements |-> [elements[i] EXCEPT !.licenses = InRslNamespace(@)]]

Namespaced(xml) == [xml EXCEPT !.content = InRslNamespace(WithRslLicenses(@))]

NamespaceNeutral ==
  index = 0 =>
    LET WithoutNamespace(elements) == \A i \in DOMAIN elements : elements[i].ns = "none"
        Plain == /\ WithoutNamespace(document.content)
                 /\ \A i \in DOMAIN document.content : WithoutNamespace(document.content[i].licenses)
    IN Plain => \A usages \in {{}} \cup {{u} : u \in Usages} :
                    CustomerMatch(document, resource, usages, BaseUrl)
                        = CustomerMatch(Namespaced(document), resource, usages, BaseUrl)

(* A pattern aligns with a path when the path can be cut into one piece per*)
(* pattern character, a literal taking one equal character and "*" any     *)
(* number: score_path_pattern finds a match exactly when the piece cut out *)
(* reaches the end of the path ("$"), or a "/" (a plain prefix), or        *)
(* anything (a pattern with "*", and "/").                                 *)
Alignments(body, path) ==
    {cut \in [1 .. Len(body) + 1 -> 0 .. Len(path)] :
        /\ cut[1] = 0
        /\ \A i \in DOMAIN body :
              \/ body[i] = "*" /\ cut[i] <= cut[i + 1]
              \/ cut[i + 1] = cut[i] + 1 /\ body[i] = path[cut[i + 1]]}

PatternLanguage ==
  index = 0 =>
    \A i \in DOMAIN blocks :
        LET pattern == PatternPath(blocks[i])
            path == ResourcePath(resource)
            body == NormalizedPattern(pattern)
            ends == {cut[Len(body) + 1] : cut \in Alignments(body, path)}
        IN ScorePathPattern(pattern, path) >= 0 <=>
              IF Anchored(pattern) THEN Len(path) \in ends
              ELSE IF HasWildcard(body) \/ body = <<"/">> THEN ends # {}
              ELSE \E n \in ends : n = Len(path) \/ path[n + 1] = "/"
=============================================================================
