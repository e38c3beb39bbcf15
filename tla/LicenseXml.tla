------------------------------- MODULE LicenseXml -------------------------------
(***************************************************************************)
(* What a license.xml says: its <content> elements as content blocks       *)
(* (customer/content_parser.py), and with ContentMatching what follows for *)
(* a resource and a usage.  Operators only.                                *)
(*                                                                         *)
(* A document is [well_formed, content]; content lists the <content>       *)
(* children of the root, [ns, url, server, licenses], and licenses the     *)
(* <license> children of one, [ns, terms, text_after].  ns is "rsl", "none"*)
(* or "other": the namespace.  text_after is whether text other than white *)
(* space follows the element: serialising the element keeps that text.     *)
(* Other elements, and <content> deeper down, are ignored.                 *)
(***************************************************************************)
EXTENDS ContentMatching

CONSTANTS Absent, Blank  \* an attribute that is missing, one of white space only

IsList(s) == s \in Seq({s[i] : i \in DOMAIN s})

IsLicense(l) ==
    /\ l = [ns |-> l.ns, terms |-> l.terms, text_after |-> l.text_after]
    /\ l.text_after \in BOOLEAN

IsElement(e) ==
    /\ e = [ns |-> e.ns, url |-> e.url, server |-> e.server, licenses |-> e.licenses]
    /\ e.url \notin {Absent, Blank} => IsList(e.url.path)
    /\ e.server # NoServer
    /\ IsList(e.licenses) /\ \A i \in DOMAIN e.licenses : IsLicense(e.licenses[i])

IsDocument(xml) ==
    /\ xml = [well_formed |-> xml.well_formed, content |-> xml.content]
    /\ xml.well_formed \in BOOLEAN
    /\ IsList(xml.content) /\ \A i \in DOMAIN xml.content : IsElement(xml.content[i])

(* Elements of the RSL namespace, and only if there is none those without a*)
(* namespace.  RslOnly is a faulty variant, for a mutation run.            *)
In(elements, ns) == At(elements, {i \in DOMAIN elements : elements[i].ns = ns})

RslOnly(elements) == In(elements, "rsl")
PreferNamespaced(elements) ==
    IF In(elements, "rsl") # <<>> THEN In(elements, "rsl") ELSE In(elements, "none")

CleanAttribute(value) == IF value = Blank THEN Absent ELSE value

Licenses(element) == PreferNamespaced(element.licenses)

IsValid(element) == CleanAttribute(element.url) # Absent /\ Licenses(element) # <<>>

ServerOf(element) ==
    IF CleanAttribute(element.server) = Absent THEN NoServer ELSE element.server

(* The text of the license is the element with what follows it: no XML     *)
(* document when that is more than white space.                            *)
LicenseText(l) == [terms |-> l.terms, parses |-> ~l.text_after]

ContentBlock(element) ==
    [url_pattern |-> element.url, server |-> ServerOf(element),
     license |-> LicenseText(Licenses(element)[1])]

ParseContentElements(xml) ==
    LET elements == PreferNamespaced(xml.content)
        valid == At(elements, {i \in DOMAIN elements : IsValid(elements[i])})
    IN IF xml.well_formed THEN [i \in DOMAIN valid |-> ContentBlock(valid[i])] ELSE <<>>

-----------------------------------------------------------------------------
(* What the document means for a resource: the blocks that make a usage    *)
(* free of charge, else the endpoint to mint at.  usages is empty when the *)
(* caller names no usage, else the one it names.                           *)
FreeBlocks(blocks, resource, usages) ==
    UNION {FindServerlessUsageContent(blocks, resource, u) : u \in usages}

CustomerMatch(xml, resource, usages, base) ==
    LET blocks == ParseContentElements(xml)
        free == FreeBlocks(blocks, resource, usages)
        endpoint == SelectTokenEndpoint(blocks, resource, base)
    IN [requires_token |-> free = {},
        patterns |-> IF free # {} THEN {b.url_pattern : b \in free}
                     ELSE IF endpoint.matched THEN {endpoint.scope} ELSE {},
        server |-> IF free # {} THEN NoServer ELSE endpoint.server]
=============================================================================
