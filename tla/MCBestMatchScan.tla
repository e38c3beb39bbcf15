---------------------------- MODULE MCBestMatchScan ----------------------------
(* Lists of up to four content blocks over a two-letter path alphabet, and *)
(* pairs of <content> elements with every defect, for resources on two     *)
(* hosts.                                                                  *)
EXTENDS BestMatchScan

CONSTANTS hA, hB, supertab, supertab2, other, broken

MCAuthority(server) ==
    IF server = broken THEN NoHost ELSE IF server = supertab2 THEN supertab ELSE server

Patterns ==
    {[scheme |-> "", host |-> PathOnly, path |-> p] : p \in
        {<<"/">>, <<"/", "*">>, <<"/", "a">>, <<"/", "a", "*">>, <<"/", "*", "b">>,
         <<"/", "*", "b", "$">>, <<"/", "a", "$">>, <<"/", "a", "/">>}}
    \cup {[scheme |-> "http", host |-> hA, path |-> <<>>],
          [scheme |-> "https", host |-> hA, path |-> <<"/", "a", "/", "*">>],
          [scheme |-> "https", host |-> hB, path |-> <<"/", "a">>],
          [scheme |-> "", host |-> NoHost, path |-> <<"a">>]}

Element(ns, p, s, l) == [ns |-> ns, url |-> p, server |-> s, licenses |-> l]
License(ns, terms) == [ns |-> ns, terms |-> terms, text_after |-> FALSE]
WithText(l) == [l EXCEPT !.text_after = TRUE]
Xml(elements) == [well_formed |-> TRUE, content |-> elements]

(* Documents about patterns: nothing is missing.                           *)
Block(p, s) == Element("rsl", p, s, <<License("rsl", {})>>)
PatternDocuments ==
    {<<Block(p, other), Block(q, s)>> : p, q \in Patterns, s \in {supertab2, other}}
    \cup {<<Block(p, supertab), Block(q, other), Block(q, Absent), Block(r, supertab2)>> :
              p, q, r \in {x \in Patterns : x.host = hA \/ x.path \in {<<"/", "a">>, <<"/", "*", "b">>}}}
    \cup {<<Block(p, broken)>> : p \in Patterns} \cup {<<>>}

(* Documents about elements: namespaces, attributes and licenses vary.     *)
Open == {[tag |-> "permits", usages |-> {"all"}]}
NoTrain == Open \cup {[tag |-> "prohibits", usages |-> {"train"}]}
Page == [scheme |-> "", host |-> PathOnly, path |-> <<"/", "a">>]
Site == [scheme |-> "", host |-> PathOnly, path |-> <<"/", "*">>]
FewLicenses ==
    {<<>>, <<License("none", Open)>>, <<License("none", Open), License("rsl", NoTrain)>>,
     <<WithText(License("none", Open))>>}
MCElements ==
    {Element(ns, p, s, l) : ns \in {"rsl", "none", "other"}, p \in {Page, Blank},
                            s \in {Absent, Blank, other}, l \in FewLicenses}
SecondElements ==
    {Element(ns, Site, s, <<License("none", l)>>) :
        ns \in {"rsl", "none"}, s \in {Absent, supertab}, l \in {Open, NoTrain}}

MCDocuments ==
    {Xml(c) : c \in PatternDocuments}
    \cup {Xml(<<e, f>>) : e \in MCElements, f \in SecondElements}
    \cup {Xml(<<f, e>>) : e \in MCElements, f \in SecondElements}
    \cup {[well_formed |-> FALSE, content |-> <<Element("rsl", Site, Absent, <<License("rsl", Open)>>)>>]}

MCResources ==
    {[scheme |-> "https", host |-> hA, path |-> p] : p \in
        {<<>>, <<"/", "a">>, <<"/", "a", "/", "b">>, <<"/", "a", "b">>, <<"/", "b", "a", "/">>}}
    \cup {[scheme |-> "http", host |-> hB, path |-> <<"/", "a">>]}
=============================================================================
