-------------------------- MODULE MCLicenseTokenCache --------------------------
(* Two event loops, and documents in which the block of one page is on the *)
(* Supertab server, on another provider's, or missing.                     *)
EXTENDS LicenseTokenCache, TLC

CONSTANTS t1, t2, t3, loop1, loop2, c1, c2, hA, hB, supertab, other

MCLoopOf == [t \in Tasks |-> IF t = t3 THEN loop2 ELSE loop1]
OneLoop == [t \in Tasks |-> loop1]

MCAuthority(server) == server

Page == <<"/", "a">>
AnyPath == [scheme |-> "", host |-> PathOnly, path |-> <<"/", "*">>]
OnHost == [scheme |-> "https", host |-> hA, path |-> <<"/", "a">>]
Elsewhere == [scheme |-> "", host |-> PathOnly, path |-> <<"/", "b">>]
Train == {[tag |-> "permits", usages |-> {"train"}]}
Never == {[tag |-> "permits", usages |-> {"all"}], [tag |-> "prohibits", usages |-> {"train"}]}

Element(p, s, l) ==
    [ns |-> "rsl", url |-> p, server |-> s,
     licenses |-> <<[ns |-> "none", terms |-> l, text_after |-> FALSE]>>]
Xml(elements) == [well_formed |-> TRUE, content |-> elements]
MCXmlOf ==
    [on_supertab |-> Xml(<<Element(OnHost, other, Train), Element(AnyPath, supertab, Train),
                           Element(AnyPath, Absent, Never)>>),
     on_other |-> Xml(<<Element(AnyPath, other, Train)>>),
     open_to_train |-> Xml(<<Element(OnHost, Blank, Train), Element(Elsewhere, other, Train)>>),
     no_license |-> Xml(<<[Element(AnyPath, supertab, Train) EXCEPT !.licenses = <<>>]>>)]

Call(c, s, h, u) ==
    [client_id |-> c, resource |-> [scheme |-> s, host |-> h, path |-> Page],
     usage |-> u, base |-> supertab]

TwoClients == {Call(c1, "https", hA, "train"), Call(c2, "https", hA, None)}
OneClient == {Call(c1, "https", hA, "train"), Call(c1, "", NoHost, "train")}
TwoOrigins == {Call(c1, "https", hA, None), Call(c1, "https", hB, None)}

Symmetry == Permutations({t1, t2})
=============================================================================
