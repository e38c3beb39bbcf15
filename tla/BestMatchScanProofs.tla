-------------------------- MODULE BestMatchScanProofs --------------------------
(***************************************************************************)
(* Proofs about BestMatchScan, for documents, blocks and patterns of any   *)
(* size.  ScanInv is the invariant of the loop of                          *)
(* _find_best_matching_content.                                            *)
(***************************************************************************)
EXTENDS BestMatchScan, ContentMatchingProofs

Score(i) == Specificity(blocks[i], resource)

(* While it scans: no block so far is exact, none scores higher than the   *)
(* best, and none before the best as high.                                 *)
BestSoFar ==
    /\ \A i \in 1 .. index : HostFits(blocks[i], resource) =>
          ~Exact(blocks[i], resource) /\ Score(i) <= best_specificity
    /\ \/ best_specificity = -1 /\ best_match = {}
       \/ \E m \in 1 .. index :
             /\ best_match = {blocks[m]} /\ HostFits(blocks[m], resource)
             /\ best_specificity = Score(m) /\ best_specificity >= 0
             /\ \A i \in 1 .. m - 1 : HostFits(blocks[i], resource) => Score(i) < best_specificity

ScanInv ==
    /\ document \in Documents /\ resource \in Resources
    /\ blocks = ParseContentElements(document)
    /\ index \in 0 .. Len(blocks)
    /\ best_match = {} \/ \E m \in 1 .. index : best_match = {blocks[m]}
    /\ best_specificity \in Nat \cup {-1} /\ returned \in BOOLEAN
    /\ IF returned THEN best_match = BestMatches(blocks, resource) ELSE BestSoFar

LEMMA BlocksTyped ==
    ASSUME ScanInv
    PROVE  /\ Len(blocks) \in Nat /\ DOMAIN blocks = 1 .. Len(blocks)
           /\ \A i \in DOMAIN blocks : Score(i) \in Nat \cup {-1}
<1>1. /\ IsList(blocks)
      /\ \A i \in DOMAIN blocks : IsList(blocks[i].url_pattern.path)
  BY DocumentsAssumption, ParsedBlocks DEF ScanInv
<1>2. \A i \in DOMAIN blocks : Score(i) \in Nat \cup {-1}
  BY <1>1, SpecificityTyped DEF Score
<1>3. QED BY <1>1, <1>2, ListFacts

LEMMA ScanInvInit == Init => ScanInv
<1> SUFFICES ASSUME Init PROVE ScanInv
  OBVIOUS
<1>1. IsList(blocks)
  BY DocumentsAssumption, ParsedBlocks DEF Init
<1>2. Len(blocks) \in Nat
  BY <1>1, ListFacts
<1>3. BestSoFar
  BY DEF Init, BestSoFar
<1>4. 0 \in 0 .. Len(blocks) /\ -1 \in Nat \cup {-1} /\ FALSE \in BOOLEAN
  BY <1>2
<1>5. QED BY <1>3, <1>4, Zenon DEF Init, ScanInv

(* One iteration of the loop.                                              *)
LEMMA ScanStep ==
    ASSUME ScanInv, Scan
    PROVE  /\ index \in Nat /\ index + 1 \in DOMAIN blocks
           /\ index' \in 0 .. Len(blocks) /\ index' = index + 1
           /\ 1 .. index' = (1 .. index) \cup {index + 1}
           /\ UNCHANGED <<document, blocks, resource>> /\ BestSoFar
<1>1. Len(blocks) \in Nat /\ DOMAIN blocks = 1 .. Len(blocks)
  BY BlocksTyped
<1>2. QED BY <1>1 DEF ScanInv, Scan, call

LEMMA SkipInv == ASSUME ScanInv, SkipBlock PROVE ScanInv'
<1>1. /\ index \in Nat /\ index + 1 \in DOMAIN blocks
      /\ index' \in 0 .. Len(blocks) /\ index' = index + 1
      /\ 1 .. index' = (1 .. index) \cup {index + 1}
      /\ UNCHANGED <<document, blocks, resource>> /\ BestSoFar
  BY ScanStep DEF SkipBlock
<1>2. UNCHANGED <<best_match, best_specificity, returned>> /\ ~returned
      /\ ~HostFits(blocks[index + 1], resource)
  BY DEF SkipBlock, Scan, Current
<1>3. BestSoFar'
  BY <1>1, <1>2 DEF BestSoFar, Score
<1>4. QED BY <1>1, <1>2, <1>3 DEF ScanInv

LEMMA ExactInv == ASSUME ScanInv, ExactMatch PROVE ScanInv'
<1>1. /\ index \in Nat /\ index + 1 \in DOMAIN blocks
      /\ index' \in 0 .. Len(blocks) /\ index' = index + 1
      /\ UNCHANGED <<document, blocks, resource>> /\ BestSoFar
  BY ScanStep DEF ExactMatch
<1>2. /\ best_match' = {blocks[index + 1]} /\ returned' = TRUE /\ UNCHANGED best_specificity
      /\ HostFits(blocks[index + 1], resource) /\ Exact(blocks[index + 1], resource)
  BY DEF ExactMatch, Current, IsExact, Exact
<1>3. DOMAIN blocks \in SUBSET Nat
  BY BlocksTyped
<1>4. ASSUME NEW i \in DOMAIN blocks, HostFits(blocks[i], resource), Exact(blocks[i], resource)
      PROVE  index + 1 <= i
  <2>1. i \notin 1 .. index
    BY <1>1, <1>4 DEF BestSoFar
  <2>2. i \in Nat /\ i >= 1
    BY BlocksTyped
  <2>3. QED BY <1>1, <2>1, <2>2
<1>5. BestMatches(blocks, resource) = {blocks[index + 1]}
  BY <1>1, <1>2, <1>3, <1>4, FirstExactIsBest
<1>6. QED BY <1>1, <1>2, <1>5 DEF ScanInv

LEMMA CompareInv == ASSUME ScanInv, Compare PROVE ScanInv'
<1>1. /\ index \in Nat /\ index + 1 \in DOMAIN blocks
      /\ index' \in 0 .. Len(blocks) /\ index' = index + 1
      /\ 1 .. index' = (1 .. index) \cup {index + 1}
      /\ UNCHANGED <<document, blocks, resource>> /\ BestSoFar
  BY ScanStep DEF Compare
<1>2. /\ UNCHANGED returned /\ ~returned /\ best_specificity \in Nat \cup {-1}
      /\ HostFits(blocks[index + 1], resource) /\ ~Exact(blocks[index + 1], resource)
  BY DEF Compare, Scan, Current, IsExact, Exact, ScanInv
<1>3. /\ Score(index + 1) \in Nat \cup {-1}
      /\ \A i \in 1 .. index : Score(i) \in Nat \cup {-1}
  BY <1>1, BlocksTyped
<1>4. CASE Score(index + 1) > best_specificity
  <2>1. best_specificity' = Score(index + 1) /\ best_match' = {blocks[index + 1]}
    BY <1>2, <1>4 DEF Compare, IsBetter, Current, Score
  <2>2. \A i \in 1 .. index : HostFits(blocks[i], resource) =>
           ~Exact(blocks[i], resource) /\ Score(i) < Score(index + 1)
    BY <1>1, <1>2, <1>3, <1>4 DEF BestSoFar
  <2>3. /\ index' \in 1 .. index' /\ Score(index + 1) >= 0
        /\ 1 .. index' - 1 = 1 .. index
    BY <1>1, <1>2, <1>3, <1>4
  <2>4. BestSoFar'
    BY <1>1, <1>2, <1>3, <2>1, <2>2, <2>3 DEF BestSoFar, Score
  <2>5. QED BY <1>1, <1>2, <1>3, <2>1, <2>3, <2>4 DEF ScanInv
<1>5. CASE ~(Score(index + 1) > best_specificity)
  <2>1. UNCHANGED <<best_specificity, best_match>>
    BY <1>5 DEF Compare, IsBetter, Current, Score
  <2>2. Score(index + 1) <= best_specificity
    BY <1>2, <1>3, <1>5
  <2>3. BestSoFar'
    BY <1>1, <1>2, <2>1, <2>2 DEF BestSoFar, Score
  <2>4. QED BY <1>1, <1>2, <2>1, <2>3 DEF ScanInv
<1>6. QED BY <1>4, <1>5

LEMMA EndInv == ASSUME ScanInv, EndOfBlocks PROVE ScanInv'
<1>1. /\ BestSoFar /\ index = Len(blocks) /\ returned' = TRUE
      /\ UNCHANGED <<document, blocks, resource, index, best_match, best_specificity>>
  BY DEF EndOfBlocks, ScanInv, call
<1>2. /\ Len(blocks) \in Nat /\ DOMAIN blocks = 1 .. Len(blocks) /\ DOMAIN blocks \in SUBSET Nat
      /\ \A i \in DOMAIN blocks : Score(i) \in Nat \cup {-1}
  BY BlocksTyped
<1>3. CASE best_specificity = -1 /\ best_match = {}
  <2>1. \A i \in DOMAIN blocks : HostFits(blocks[i], resource) =>
           ~Exact(blocks[i], resource) /\ ~(Specificity(blocks[i], resource) >= 0)
    BY <1>1, <1>2, <1>3 DEF BestSoFar, Score
  <2>2. BestMatches(blocks, resource) = {}
    BY <2>1, NoneFitsNoneBest
  <2>3. QED BY <1>1, <1>3, <2>2 DEF ScanInv
<1>4. ASSUME NEW m \in 1 .. index,
             best_match = {blocks[m]}, HostFits(blocks[m], resource),
             best_specificity = Score(m), best_specificity >= 0,
             \A i \in 1 .. m - 1 : HostFits(blocks[i], resource) => Score(i) < best_specificity
      PROVE  ScanInv'
  <2>1. m \in DOMAIN blocks /\ Specificity(blocks[m], resource) >= 0
        /\ \A i \in DOMAIN blocks : Specificity(blocks[i], resource) \in Int
    BY <1>1, <1>2, <1>4 DEF Score
  <2>2. ASSUME NEW i \in DOMAIN blocks, HostFits(blocks[i], resource)
        PROVE  /\ ~Exact(blocks[i], resource) /\ Score(i) <= Score(m)
               /\ Score(i) = Score(m) => m <= i
    <3>1. ~Exact(blocks[i], resource) /\ Score(i) <= Score(m)
      BY <1>1, <1>2, <1>4, <2>2 DEF BestSoFar
    <3>2. ASSUME i < m PROVE Score(i) < Score(m)
      <4>1. i \in 1 .. m - 1
        BY <1>1, <1>2, <3>2
      <4>2. QED BY <1>4, <2>2, <4>1
    <3>3. Score(i) \in Int /\ Score(m) \in Int /\ i \in Int /\ m \in Int
      BY <1>1, <1>2
    <3>4. QED BY <3>1, <3>2, <3>3
  <2>3. BestMatches(blocks, resource) = {blocks[m]}
    BY <1>2, <1>4, <2>1, <2>2, FirstHighestIsBest DEF Score
  <2>4. QED BY <1>1, <1>4, <2>3 DEF ScanInv
<1>5. QED BY <1>1, <1>3, <1>4 DEF BestSoFar

LEMMA ScanInvNext == ScanInv /\ [Next]_vars => ScanInv'
<1> SUFFICES ASSUME ScanInv, [Next]_vars PROVE ScanInv'
  OBVIOUS
<1>1. CASE UNCHANGED vars
  BY <1>1 DEF vars, call, ScanInv, BestSoFar, Score
<1>2. QED BY <1>1, SkipInv, ExactInv, CompareInv, EndInv DEF Next

LEMMA ScanInvHolds == Spec => []ScanInv
BY ScanInvInit, ScanInvNext, PTL DEF Spec

-----------------------------------------------------------------------------
(* Every reachable state of the loop is well typed, and it has a best match*)
(* exactly when it has a score.                                            *)
THEOREM ScanTypeCorrect == Spec => []TypeOK
<1>1. ScanInv => TypeOK
  <2> SUFFICES ASSUME ScanInv PROVE TypeOK
    OBVIOUS
  <2>1. document.well_formed \in BOOLEAN
    BY DocumentsAssumption DEF ScanInv, IsDocument
  <2>2. Cardinality(best_match) \in {0, 1}
    BY FS_EmptySet, FS_Singleton, Zenon DEF ScanInv
  <2>3. best_match \subseteq {blocks[i] : i \in 1 .. index}
    BY DEF ScanInv
  <2>4. ASSUME ~returned PROVE best_match = {} <=> best_specificity = -1
    <3>1. BestSoFar
      BY <2>4 DEF ScanInv
    <3>2. CASE best_specificity = -1 /\ best_match = {}
      BY <3>2
    <3>3. CASE \E m \in 1 .. index : best_match = {blocks[m]} /\ best_specificity >= 0
      <4>1. best_match # {}
        BY <3>3
      <4>2. best_specificity # -1
        BY <3>3
      <4>3. QED BY <4>1, <4>2
    <3>4. QED BY <3>1, <3>2, <3>3 DEF BestSoFar
  <2>5. QED BY <2>1, <2>2, <2>3, <2>4 DEF ScanInv, TypeOK
<1>2. QED BY <1>1, ScanInvHolds, PTL

(* One pass over the blocks returns the first exact match, and without one *)
(* the first block of the highest specificity.                             *)
THEOREM ScanFindsBestMatchHolds == Spec => []ScanFindsBestMatch
<1>1. ScanInv => ScanFindsBestMatch
  BY DEF ScanInv, ScanFindsBestMatch
<1>2. QED BY <1>1, ScanInvHolds, PTL

LEMMA MatchesIsFits == ASSUME NEW b PROVE Matches(b) <=> Fits(b, resource)
BY DEF Matches, Fits, Exact

(* Credentials go to a Supertab server whenever a block on one matches, and*)
(* without a license only when no block with a server does.                *)
THEOREM CredentialsStayHomeHolds == Spec => []CredentialsStayHome
<1> DEFINE endpoint == SelectTokenEndpoint(blocks, resource, BaseUrl)
           chosen == SupertabFirst(blocks, resource, BaseUrl)
           Mints(i) == blocks[i].server # NoServer /\ Matches(blocks[i])
<1>1. ASSUME ScanInv
      PROVE  IsList(blocks) /\ \A i \in DOMAIN blocks : IsList(blocks[i].url_pattern.path)
  BY <1>1, DocumentsAssumption, ParsedBlocks DEF ScanInv
<1>2. ASSUME ScanInv, NEW i \in DOMAIN blocks, Mints(i),
             IsSupertabServer(blocks[i].server, BaseUrl)
      PROVE  IsSupertabServer(endpoint.server, BaseUrl)
  <2> DEFINE best == BestMatches(At(blocks, OnSupertab(blocks, BaseUrl)), resource)
  <2>1. i \in OnSupertab(blocks, BaseUrl)
        /\ OnSupertab(blocks, BaseUrl) \in SUBSET (DOMAIN blocks)
    BY <1>2 DEF OnSupertab, WithServer
  <2>2. best # {}
    BY <1>1, <1>2, <2>1, BestAmongFound, MatchesIsFits
  <2>3. chosen = best
    BY <2>2 DEF SupertabFirst, Prefer
  <2>4. PICK b \in best : endpoint.server = b.server
    BY <2>2, <2>3, EndpointChoice
  <2>5. PICK j \in OnSupertab(blocks, BaseUrl) : b = blocks[j]
    BY <1>1, <1>2, <2>1, BestAmongFit
  <2>6. QED BY <2>4, <2>5 DEF OnSupertab
<1>3. ASSUME ScanInv, endpoint.matched
      PROVE  \E i \in DOMAIN blocks : Mints(i)
  <2>1. chosen # {}
    BY <1>3, EndpointChoice DEF AgreementLane
  <2>2. PICK b \in chosen : TRUE
    BY <2>1
  <2>3. \E i \in WithServer(blocks) : b = blocks[i] /\ Fits(b, resource)
    BY <1>1, <1>3, SupertabFirstFits
  <2>4. QED BY <2>3, MatchesIsFits DEF WithServer
<1>4. ASSUME ScanInv, NEW i \in DOMAIN blocks, Mints(i)
      PROVE  endpoint.matched
  <2>1. i \in WithServer(blocks) /\ WithServer(blocks) \in SUBSET (DOMAIN blocks)
    BY <1>4 DEF WithServer
  <2>2. BestMatches(At(blocks, WithServer(blocks)), resource) # {}
    BY <1>1, <1>4, <2>1, BestAmongFound, MatchesIsFits
  <2>3. chosen # {}
    BY <2>2 DEF SupertabFirst, Prefer
  <2>4. QED BY <2>3, EndpointChoice
<1> HIDE DEF endpoint, Mints
<1>5. ScanInv => endpoint.matched \in BOOLEAN
  <2>1. IF chosen = {} THEN endpoint = AgreementLane(resource, BaseUrl)
        ELSE \E b \in chosen :
                endpoint = [server |-> b.server, scope |-> b.url_pattern, matched |-> TRUE,
                            license |-> b.license]
    BY EndpointChoice DEF endpoint
  <2>2. CASE chosen = {}
    <3>1. endpoint.matched = FALSE
      BY <2>1, <2>2 DEF AgreementLane
    <3>2. QED BY <3>1
  <2>3. CASE chosen # {}
    <3>1. endpoint.matched = TRUE
      BY <2>1, <2>3
    <3>2. QED BY <3>1
  <2>4. QED BY <2>2, <2>3
<1>6. ScanInv => CredentialsStayHome
  BY <1>2, <1>3, <1>4, <1>5 DEF CredentialsStayHome, endpoint, Mints
<1>7. QED BY <1>6, ScanInvHolds, PTL
-----------------------------------------------------------------------------
(* The elements that count: PreferNamespaced lists them, in their order.   *)
CountedIn(s) == {i \in DOMAIN s : Counted(s, s[i])}

LEMMA PreferredCounted ==
    ASSUME NEW s, IsList(s)
    PROVE  PreferNamespaced(s) = At(s, CountedIn(s))
<1> DEFINE rsl == {i \in DOMAIN s : s[i].ns = "rsl"}
           none == {i \in DOMAIN s : s[i].ns = "none"}
<1>1. In(s, "rsl") = At(s, rsl) /\ In(s, "none") = At(s, none)
  BY DEF In
<1>2. In(s, "rsl") = <<>> <=> rsl = {}
  BY <1>1, AtEmpty
<1>3. CASE rsl = {}
  <2>1. CountedIn(s) = none
    BY <1>3 DEF CountedIn, Counted
  <2>2. QED BY <1>1, <1>2, <1>3, <2>1 DEF PreferNamespaced
<1>4. CASE rsl # {}
  <2>1. CountedIn(s) = rsl
    BY <1>4 DEF CountedIn, Counted
  <2>2. QED BY <1>1, <1>2, <1>4, <2>1 DEF PreferNamespaced
<1>5. QED BY <1>3, <1>4

LEMMA CountedPositions ==
    ASSUME NEW s, IsList(s)
    PROVE  /\ CountedIn(s) \in SUBSET (DOMAIN s)
           /\ CountedIn(s) \in SUBSET Nat /\ IsFiniteSet(CountedIn(s))
<1>1. DOMAIN s \in SUBSET Nat /\ IsFiniteSet(DOMAIN s)
  BY ListFacts
<1>2. CountedIn(s) \in SUBSET (DOMAIN s)
  BY DEF CountedIn
<1>3. QED BY <1>1, <1>2, FS_Subset

(* The blocks of a well-formed document are those of its counted, valid    *)
(* elements.                                                               *)
LEMMA BlocksOfElements ==
    ASSUME NEW xml, IsDocument(xml), xml.well_formed,
           NEW b
    PROVE  (\E n \in DOMAIN ParseContentElements(xml) : b = ParseContentElements(xml)[n]) <=>
           \E i \in CountedIn(xml.content) :
               IsValid(xml.content[i]) /\ b = ContentBlock(xml.content[i])
<1> DEFINE c == xml.content
           elements == PreferNamespaced(c)
           P == {i \in DOMAIN elements : IsValid(elements[i])}
           valid == At(elements, P)
           parsed == [i \in DOMAIN valid |-> ContentBlock(valid[i])]
<1>1. IsList(c) /\ elements = At(c, CountedIn(c)) /\ IsList(elements)
  BY PreferredCounted, PreferredElements DEF IsDocument
<1>2. /\ \A n \in DOMAIN elements : \E i \in CountedIn(c) : elements[n] = c[i]
      /\ \A i \in CountedIn(c) : \E n \in DOMAIN elements : elements[n] = c[i]
  BY <1>1, CountedPositions, AtElements
<1>3. P \in SUBSET Nat /\ IsFiniteSet(P)
  <2>1. P \in SUBSET (DOMAIN elements)
    OBVIOUS
  <2>2. QED BY <1>1, <2>1, ListFacts, FS_Subset
<1> HIDE DEF elements
<1>4. /\ \A n \in DOMAIN valid : \E i \in P : valid[n] = elements[i]
      /\ \A i \in P : \E n \in DOMAIN valid : valid[n] = elements[i]
  <2> HIDE DEF P
  <2>1. QED BY <1>3, AtElements
<1> HIDE DEF valid
<1>5. ParseContentElements(xml) = parsed
  BY DEF ParseContentElements, elements, valid
<1>6. (\E n \in DOMAIN parsed : b = parsed[n]) <=>
      \E n \in DOMAIN valid : b = ContentBlock(valid[n])
  OBVIOUS
<1>7. (\E n \in DOMAIN valid : b = ContentBlock(valid[n])) <=>
      \E i \in DOMAIN elements : IsValid(elements[i]) /\ b = ContentBlock(elements[i])
  BY <1>4
<1>8. (\E i \in DOMAIN elements : IsValid(elements[i]) /\ b = ContentBlock(elements[i])) <=>
      \E i \in CountedIn(c) : IsValid(c[i]) /\ b = ContentBlock(c[i])
  BY <1>2
<1>9. QED BY <1>5, <1>6, <1>7, <1>8

(* A usage is free exactly when a block without a server that fits the     *)
(* resource permits it.                                                    *)
LEMMA FreeBlockFound ==
    ASSUME NEW bs, IsList(bs), \A i \in DOMAIN bs : IsList(bs[i].url_pattern.path),
           NEW r, NEW usage
    PROVE  FindServerlessUsageContent(bs, r, usage) # {} <=>
           \E i \in DOMAIN bs :
               /\ bs[i].server = NoServer /\ LicensePermitsUsage(bs[i], usage)
               /\ Fits(bs[i], r)
<1> DEFINE P == {i \in DOMAIN bs :
                    bs[i].server = NoServer /\ LicensePermitsUsage(bs[i], usage)}
<1>1. FindServerlessUsageContent(bs, r, usage) = BestMatches(At(bs, P), r)
  BY DEF FindServerlessUsageContent
<1>2. P \in SUBSET (DOMAIN bs)
  OBVIOUS
<1>3. ASSUME NEW i \in P, Fits(bs[i], r) PROVE BestMatches(At(bs, P), r) # {}
  <2> HIDE DEF P
  <2>1. QED BY <1>2, <1>3, BestAmongFound
<1>4. ASSUME NEW b \in BestMatches(At(bs, P), r) PROVE \E i \in P : Fits(bs[i], r)
  <2> HIDE DEF P
  <2>1. QED BY <1>2, <1>4, BestAmongFit
<1>5. QED BY <1>1, <1>3, <1>4

(* The license of an element is its first counted one.                     *)
LEMMA FirstLicense ==
    ASSUME NEW e, IsList(e.licenses)
    PROVE  LET First(j) == /\ Counted(e.licenses, e.licenses[j])
                           /\ \A k \in 1 .. j - 1 : ~Counted(e.licenses, e.licenses[k])
           IN /\ \A j \in DOMAIN e.licenses : First(j) =>
                    Licenses(e) # <<>> /\ Licenses(e)[1] = e.licenses[j]
              /\ Licenses(e) # <<>> => \E j \in DOMAIN e.licenses : First(j)
<1> DEFINE s == e.licenses
           P == CountedIn(s)
           First(j) == /\ Counted(s, s[j])
                       /\ \A k \in 1 .. j - 1 : ~Counted(s, s[k])
<1>1. /\ Licenses(e) = At(s, P) /\ Len(s) \in Nat /\ DOMAIN s = 1 .. Len(s)
      /\ P \in SUBSET (DOMAIN s) /\ P \in SUBSET Nat /\ IsFiniteSet(P)
  BY PreferredCounted, CountedPositions, ListFacts DEF Licenses
<1>2. Licenses(e) = <<>> <=> P = {}
  BY <1>1, AtEmpty
<1>3. P # {} => \E i \in P : Licenses(e)[1] = s[i] /\ \A k \in P : i <= k
  BY <1>1, AtFirst
<1>4. \A j \in DOMAIN s : Counted(s, s[j]) <=> j \in P
  BY DEF CountedIn
<1> HIDE DEF P
<1>5. ASSUME NEW j \in DOMAIN s, First(j)
      PROVE  Licenses(e) # <<>> /\ Licenses(e)[1] = s[j]
  <2>1. j \in P
    BY <1>4, <1>5
  <2>2. PICK i \in P : Licenses(e)[1] = s[i] /\ \A k \in P : i <= k
    BY <1>3, <2>1
  <2>3. ~(i \in 1 .. j - 1)
    BY <1>1, <1>4, <1>5, <2>2
  <2>4. i = j
    BY <1>1, <2>1, <2>2, <2>3
  <2>5. QED BY <1>2, <2>1, <2>2, <2>4
<1>6. ASSUME P # {} PROVE \E j \in DOMAIN s : First(j)
  <2>1. PICK i \in P : \A k \in P : i <= k
    BY <1>3, <1>6
  <2>2. ASSUME NEW k \in 1 .. i - 1 PROVE ~Counted(s, s[k])
    BY <1>1, <1>4, <2>1
  <2>3. First(i)
    BY <1>1, <1>4, <2>2
  <2>4. QED BY <1>1, <2>3
<1>7. QED BY <1>2, <1>5, <1>6

LEMMA LicenseTextReads ==
    ASSUME NEW l
    PROVE  LicenseText(l).terms = l.terms /\ (LicenseText(l).parses <=> ~l.text_after)
BY Zenon DEF LicenseText

(* A usage is free of charge exactly when an element grants it.            *)
THEOREM GrantedUsageIsFreeHolds == Spec => []GrantedUsageIsFree
<1>1. ASSUME ScanInv, NEW usage \in Usages
      PROVE  LET Missing(value) == value \in {Absent, Blank}
                 Says(l, tag) ==
                     \E entry \in l.terms : entry.tag = tag /\ {"all", usage} \cap entry.usages # {}
                 GrantedBy(e) ==
                     /\ ~Missing(e.url) /\ Missing(e.server)
                     /\ Matches([url_pattern |-> e.url])
                     /\ \E j \in DOMAIN e.licenses :
                           /\ Counted(e.licenses, e.licenses[j])
                           /\ \A k \in 1 .. j - 1 : ~Counted(e.licenses, e.licenses[k])
                           /\ Says(e.licenses[j], "permits") /\ ~Says(e.licenses[j], "prohibits")
                           /\ ~e.licenses[j].text_after
             IN CustomerMatch(document, resource, {usage}, BaseUrl).requires_token <=>
                   ~ \E i \in DOMAIN document.content :
                         /\ document.well_formed
                         /\ Counted(document.content, document.content[i])
                         /\ GrantedBy(document.content[i])
  <2> DEFINE Missing(value) == value \in {Absent, Blank}
             Says(l, tag) ==
                 \E entry \in l.terms : entry.tag = tag /\ {"all", usage} \cap entry.usages # {}
             First(e, j) == /\ Counted(e.licenses, e.licenses[j])
                            /\ \A k \in 1 .. j - 1 : ~Counted(e.licenses, e.licenses[k])
             GrantedBy(e) ==
                 /\ ~Missing(e.url) /\ Missing(e.server)
                 /\ Matches([url_pattern |-> e.url])
                 /\ \E j \in DOMAIN e.licenses :
                       /\ First(e, j)
                       /\ Says(e.licenses[j], "permits") /\ ~Says(e.licenses[j], "prohibits")
                       /\ ~e.licenses[j].text_after
             Free(b) == /\ b.server = NoServer /\ LicensePermitsUsage(b, usage)
                        /\ Fits(b, resource)
  <2>1. IsDocument(document) /\ blocks = ParseContentElements(document)
    BY <1>1, DocumentsAssumption DEF ScanInv
  <2>2. CustomerMatch(document, resource, {usage}, BaseUrl).requires_token <=>
           FindServerlessUsageContent(blocks, resource, usage) = {}
    <3>1. FreeBlocks(blocks, resource, {usage}) = FindServerlessUsageContent(blocks, resource, usage)
      BY DEF FreeBlocks
    <3>2. CustomerMatch(document, resource, {usage}, BaseUrl).requires_token
             = (FreeBlocks(blocks, resource, {usage}) = {})
      BY <2>1 DEF CustomerMatch
    <3>3. QED BY <3>1, <3>2
  <2>3. FindServerlessUsageContent(blocks, resource, usage) # {} <=>
           \E n \in DOMAIN blocks : Free(blocks[n])
    BY <2>1, ParsedBlocks, FreeBlockFound
  <2>4. ASSUME NEW e, IsElement(e)
        PROVE  GrantedBy(e) <=> IsValid(e) /\ Free(ContentBlock(e))
    <3> DEFINE b == ContentBlock(e)
               l == Licenses(e)[1]
    <3>1. b.url_pattern = e.url /\ b.server = ServerOf(e)
          /\ b.license = LicenseText(l)
      BY DEF ContentBlock
    <3>2. IsValid(e) <=> ~Missing(e.url) /\ Licenses(e) # <<>>
      BY DEF IsValid, CleanAttribute
    <3>3. b.server = NoServer <=> Missing(e.server)
      BY <2>4, <3>1 DEF ServerOf, CleanAttribute, IsElement
    <3>4. Fits(b, resource) <=> Matches([url_pattern |-> e.url])
      BY <3>1 DEF Matches, Fits, Exact, HostFits, PatternPath, Specificity
    <3>5. LicensePermitsUsage(b, usage) <=>
             Says(l, "permits") /\ ~Says(l, "prohibits") /\ ~l.text_after
      <4>1. \A u : u \cap {"all", usage} = {"all", usage} \cap u
        OBVIOUS
      <4>2. b.license.terms = l.terms /\ (b.license.parses <=> ~l.text_after)
        BY <3>1, LicenseTextReads
      <4>3. QED BY <4>1, <4>2 DEF LicensePermitsUsage
    <3>6. /\ \A j \in DOMAIN e.licenses : First(e, j) =>
                Licenses(e) # <<>> /\ l = e.licenses[j]
          /\ Licenses(e) # <<>> => \E j \in DOMAIN e.licenses : First(e, j)
      BY <2>4, FirstLicense DEF IsElement
    <3> HIDE DEF b, l, First, Says, Missing
    <3>7. (\E j \in DOMAIN e.licenses :
              /\ First(e, j)
              /\ Says(e.licenses[j], "permits") /\ ~Says(e.licenses[j], "prohibits")
              /\ ~e.licenses[j].text_after)
          <=> Licenses(e) # <<>> /\ Says(l, "permits") /\ ~Says(l, "prohibits")
              /\ ~l.text_after
      BY <3>6
    <3>8. QED BY <3>2, <3>3, <3>4, <3>5, <3>7 DEF b
  <2> HIDE DEF GrantedBy, Free
  <2>5. CASE document.well_formed
    <3>1. (\E n \in DOMAIN blocks : Free(blocks[n])) <=>
          \E i \in CountedIn(document.content) :
             IsValid(document.content[i]) /\ Free(ContentBlock(document.content[i]))
      BY <2>1, <2>5, BlocksOfElements
    <3>2. \A i \in DOMAIN document.content : IsElement(document.content[i])
      BY <2>1 DEF IsDocument
    <3>3. (\E n \in DOMAIN blocks : Free(blocks[n])) <=>
          \E i \in DOMAIN document.content :
             Counted(document.content, document.content[i]) /\ GrantedBy(document.content[i])
      BY <2>4, <3>1, <3>2 DEF CountedIn
    <3>4. QED BY <2>2, <2>3, <2>5, <3>3 DEF GrantedBy
  <2>6. CASE ~document.well_formed
    <3>1. blocks = <<>>
      BY <2>1, <2>6 DEF ParseContentElements
    <3>2. ~ \E n \in DOMAIN blocks : Free(blocks[n])
      BY <3>1
    <3>3. QED BY <2>2, <2>3, <2>6, <3>2
  <2>7. QED BY <2>5, <2>6
<1>2. ScanInv => GrantedUsageIsFree
  BY <1>1 DEF GrantedUsageIsFree
<1>3. QED BY <1>2, ScanInvHolds, PTL
-----------------------------------------------------------------------------
(* An element without a namespace, and as an element of the RSL namespace. *)
RslLicense(l) == [l EXCEPT !.ns = "rsl"]
RslElement(e) ==
    [ns |-> "rsl", url |-> e.url, server |-> e.server, licenses |-> InRslNamespace(e.licenses)]

LEMMA NamespacedContent ==
    ASSUME NEW xml, IsDocument(xml)
    PROVE  /\ Namespaced(xml).well_formed = xml.well_formed
           /\ Namespaced(xml).content
                 = [i \in DOMAIN xml.content |-> RslElement(xml.content[i])]
<1> DEFINE c == xml.content
           d == WithRslLicenses(c)
<1>1. /\ xml = [well_formed |-> xml.well_formed, content |-> c]
      /\ \A i \in DOMAIN c : IsElement(c[i])
  BY DEF IsDocument
<1>2. Namespaced(xml) = [xml EXCEPT !.content = InRslNamespace(d)]
  BY DEF Namespaced
<1>3. /\ Namespaced(xml).well_formed = xml.well_formed
      /\ Namespaced(xml).content = InRslNamespace(d)
  <2> HIDE DEF c, d
  <2>1. QED BY <1>1, <1>2
<1>4. ASSUME NEW i \in DOMAIN c PROVE [d[i] EXCEPT !.ns = "rsl"] = RslElement(c[i])
  <2>1. c[i] = [ns |-> c[i].ns, url |-> c[i].url, server |-> c[i].server,
                licenses |-> c[i].licenses]
    BY <1>1 DEF IsElement
  <2>2. d[i] = [c[i] EXCEPT !.licenses = InRslNamespace(c[i].licenses)]
    BY DEF WithRslLicenses
  <2>3. d[i] = [ns |-> c[i].ns, url |-> c[i].url, server |-> c[i].server,
                licenses |-> InRslNamespace(c[i].licenses)]
    <3> HIDE DEF c, d
    <3>1. QED BY <2>1, <2>2
  <2> HIDE DEF c, d
  <2>4. QED BY <2>3 DEF RslElement
<1>5. InRslNamespace(d) = [i \in DOMAIN c |-> RslElement(c[i])]
  <2>1. DOMAIN d = DOMAIN c
    BY DEF WithRslLicenses
  <2> HIDE DEF d
  <2>2. QED BY <1>4, <2>1 DEF InRslNamespace
<1>6. QED BY <1>3, <1>5
LEMMA MappedIsList ==
    ASSUME NEW s, IsList(s), NEW t, t = [i \in DOMAIN s |-> t[i]]
    PROVE  IsList(t) /\ DOMAIN t = DOMAIN s
<1>1. Len(s) \in Nat /\ DOMAIN s = 1 .. Len(s)
  BY ListFacts
<1>2. t \in [1 .. Len(s) -> {t[i] : i \in DOMAIN t}]
  BY <1>1
<1>3. QED BY <1>1, <1>2 DEF IsList

(* Elements without a namespace count like elements of the RSL namespace.  *)
LEMMA PlainAlignment ==
    ASSUME NEW s, IsList(s), NEW t, t = [i \in DOMAIN s |-> t[i]],
           \A i \in DOMAIN s : s[i].ns = "none" /\ t[i].ns = "rsl"
    PROVE  LET u == PreferNamespaced(s)
               v == PreferNamespaced(t)
           IN /\ IsList(u) /\ IsList(v) /\ DOMAIN u = DOMAIN v
              /\ u = <<>> <=> v = <<>>
              /\ u # <<>> => 1 \in DOMAIN u
              /\ \A n \in DOMAIN u : \E i \in DOMAIN s : u[n] = s[i] /\ v[n] = t[i]
<1> DEFINE D == DOMAIN s
<1>1. IsList(t) /\ DOMAIN t = D
  BY MappedIsList
<1>2. CountedIn(s) = D /\ CountedIn(t) = D
  BY <1>1 DEF CountedIn, Counted
<1>3. PreferNamespaced(s) = At(s, D) /\ PreferNamespaced(t) = At(t, D)
  BY <1>1, <1>2, PreferredCounted
<1>4. D \in SUBSET Nat /\ IsFiniteSet(D)
  BY ListFacts
<1>5. /\ DOMAIN At(s, D) = DOMAIN At(t, D)
      /\ \A n \in DOMAIN At(s, D) : \E i \in D : At(s, D)[n] = s[i] /\ At(t, D)[n] = t[i]
  <2> HIDE DEF D
  <2>1. QED BY <1>4, AtSamePositions
<1>6. (At(s, D) = <<>> <=> D = {}) /\ (At(t, D) = <<>> <=> D = {})
  BY <1>1, AtEmpty
<1>7. D # {} => 1 \in DOMAIN At(s, D)
  <2> HIDE DEF D
  <2>1. QED BY <1>4, AtFirst
<1>8. IsList(At(s, D)) /\ IsList(At(t, D))
  BY <1>1, SubListIsList
<1>9. QED BY <1>3, <1>5, <1>6, <1>7, <1>8

LEMMA PlainElement ==
    ASSUME NEW e, IsElement(e), \A i \in DOMAIN e.licenses : e.licenses[i].ns = "none"
    PROVE  /\ IsValid(RslElement(e)) <=> IsValid(e)
           /\ IsValid(e) => ContentBlock(RslElement(e)) = ContentBlock(e)
<1> DEFINE f == RslElement(e)
           s == e.licenses
           t == InRslNamespace(s)
<1>1. f.url = e.url /\ f.server = e.server /\ f.licenses = t
  BY DEF RslElement
<1>2. IsList(s)
      /\ \A i \in DOMAIN s :
            s[i] = [ns |-> s[i].ns, terms |-> s[i].terms, text_after |-> s[i].text_after]
  BY DEF IsElement, IsLicense
<1>3. t = [i \in DOMAIN s |-> t[i]] /\ \A i \in DOMAIN s : t[i] = [s[i] EXCEPT !.ns = "rsl"]
  BY DEF InRslNamespace
<1>4. \A i \in DOMAIN s :
         /\ s[i].ns = "none" /\ t[i].ns = "rsl"
         /\ t[i].terms = s[i].terms /\ t[i].text_after = s[i].text_after
  <2> HIDE DEF t
  <2> SUFFICES ASSUME NEW i \in DOMAIN s
               PROVE  /\ t[i].ns = "rsl" /\ t[i].terms = s[i].terms
                      /\ t[i].text_after = s[i].text_after
    OBVIOUS
  <2>1. /\ s[i] = [ns |-> s[i].ns, terms |-> s[i].terms, text_after |-> s[i].text_after]
        /\ t[i] = [s[i] EXCEPT !.ns = "rsl"]
    BY <1>2, <1>3
  <2> HIDE DEF s
  <2>2. QED BY <2>1
<1> HIDE DEF s, t
<1>5. /\ Licenses(e) = <<>> <=> Licenses(f) = <<>>
      /\ Licenses(e) # <<>> => /\ Licenses(f)[1].terms = Licenses(e)[1].terms
                               /\ Licenses(f)[1].text_after = Licenses(e)[1].text_after
  <2> DEFINE u == PreferNamespaced(s)
             v == PreferNamespaced(t)
  <2>1. Licenses(e) = u /\ Licenses(f) = v
    BY <1>1 DEF Licenses, s
  <2>2. /\ u = <<>> <=> v = <<>>
        /\ u # <<>> => 1 \in DOMAIN u
        /\ \A n \in DOMAIN u : \E i \in DOMAIN s : u[n] = s[i] /\ v[n] = t[i]
    <3>1. \A i \in DOMAIN s : s[i].ns = "none" /\ t[i].ns = "rsl"
      BY <1>4
    <3>2. IsList(s) /\ t = [i \in DOMAIN s |-> t[i]]
      BY <1>2, <1>3
    <3>3. QED BY <3>1, <3>2, PlainAlignment
  <2> HIDE DEF u, v
  <2>3. u # <<>> => v[1].terms = u[1].terms /\ v[1].text_after = u[1].text_after
    BY <1>4, <2>2
  <2>4. QED BY <2>1, <2>2, <2>3
<1> HIDE DEF f
<1>6. IsValid(f) <=> IsValid(e)
  BY <1>1, <1>5 DEF IsValid
<1>7. ASSUME IsValid(e) PROVE ContentBlock(f) = ContentBlock(e)
  BY <1>1, <1>5, <1>7 DEF IsValid, ContentBlock, LicenseText, ServerOf
<1>8. QED BY <1>6, <1>7 DEF f

LEMMA NamespacedBlocks ==
    ASSUME NEW xml, IsDocument(xml),
           \A i \in DOMAIN xml.content :
              /\ xml.content[i].ns = "none"
              /\ \A j \in DOMAIN xml.content[i].licenses : xml.content[i].licenses[j].ns = "none"
    PROVE  ParseContentElements(Namespaced(xml)) = ParseContentElements(xml)
<1> DEFINE s == xml.content
           t == Namespaced(xml).content
           u == PreferNamespaced(s)
           v == PreferNamespaced(t)
           Valid(w) == {i \in DOMAIN w : IsValid(w[i])}
<1>1. /\ Namespaced(xml).well_formed = xml.well_formed
      /\ t = [i \in DOMAIN s |-> RslElement(s[i])]
      /\ IsList(s) /\ \A i \in DOMAIN s : IsElement(s[i])
  BY NamespacedContent DEF IsDocument
<1>2. /\ t = [i \in DOMAIN s |-> t[i]]
      /\ \A i \in DOMAIN s : t[i] = RslElement(s[i]) /\ t[i].ns = "rsl" /\ s[i].ns = "none"
  BY <1>1 DEF RslElement
<1>3. \A i \in DOMAIN s : /\ IsValid(t[i]) <=> IsValid(s[i])
                          /\ IsValid(s[i]) => ContentBlock(t[i]) = ContentBlock(s[i])
  BY <1>1, <1>2, PlainElement
<1> HIDE DEF s, t
<1>4. /\ IsList(u) /\ IsList(v) /\ DOMAIN u = DOMAIN v
      /\ \A n \in DOMAIN u : \E i \in DOMAIN s : u[n] = s[i] /\ v[n] = t[i]
  <2>1. \A i \in DOMAIN s : s[i].ns = "none" /\ t[i].ns = "rsl"
    BY <1>2
  <2>2. QED BY <1>1, <1>2, <2>1, PlainAlignment
<1>5. \A n \in DOMAIN u : /\ IsValid(v[n]) <=> IsValid(u[n])
                          /\ IsValid(u[n]) => ContentBlock(v[n]) = ContentBlock(u[n])
  BY <1>3, <1>4
<1> HIDE DEF u, v
<1>6. Valid(v) = Valid(u)
  BY <1>4, <1>5
<1>7. Valid(u) \in SUBSET Nat /\ IsFiniteSet(Valid(u))
  <2>1. Valid(u) \in SUBSET (DOMAIN u)
    OBVIOUS
  <2>2. QED BY <1>4, <2>1, ListFacts, FS_Subset
<1> DEFINE P == Valid(u)
           a == At(u, P)
           b == At(v, P)
<1>8. \A n \in P : ContentBlock(v[n]) = ContentBlock(u[n])
  BY <1>5
<1>9. DOMAIN a = DOMAIN b /\ \A n \in DOMAIN a : ContentBlock(a[n]) = ContentBlock(b[n])
  <2>1. P \in SUBSET Nat /\ IsFiniteSet(P)
    BY <1>7
  <2> HIDE DEF P
  <2>2. /\ DOMAIN a = DOMAIN b
        /\ \A n \in DOMAIN a : \E i \in P : a[n] = u[i] /\ b[n] = v[i]
    BY <2>1, AtSamePositions
  <2>3. QED BY <1>8, <2>2
<1>10. [n \in DOMAIN a |-> ContentBlock(a[n])] = [n \in DOMAIN b |-> ContentBlock(b[n])]
  <2> HIDE DEF a, b
  <2>1. QED BY <1>9
<1>11. /\ ParseContentElements(xml)
             = IF xml.well_formed THEN [n \in DOMAIN a |-> ContentBlock(a[n])] ELSE <<>>
       /\ ParseContentElements(Namespaced(xml))
             = IF xml.well_formed THEN [n \in DOMAIN b |-> ContentBlock(b[n])] ELSE <<>>
  BY <1>1, <1>6 DEF ParseContentElements, u, v, s, t
<1>12. QED BY <1>10, <1>11

(* A license.xml means the same with and without the RSL namespace.        *)
THEOREM NamespaceNeutralHolds == Spec => []NamespaceNeutral
<1>1. ScanInv => NamespaceNeutral
  <2> SUFFICES ASSUME ScanInv,
                      \A i \in DOMAIN document.content :
                         /\ document.content[i].ns = "none"
                         /\ \A j \in DOMAIN document.content[i].licenses :
                               document.content[i].licenses[j].ns = "none",
                      NEW usages
               PROVE  CustomerMatch(document, resource, usages, BaseUrl)
                         = CustomerMatch(Namespaced(document), resource, usages, BaseUrl)
    BY DEF NamespaceNeutral
  <2>1. IsDocument(document)
    BY DocumentsAssumption DEF ScanInv
  <2>2. ParseContentElements(Namespaced(document)) = ParseContentElements(document)
    BY <2>1, NamespacedBlocks
  <2>3. QED BY <2>2 DEF CustomerMatch
<1>2. QED BY <1>1, ScanInvHolds, PTL
LEMMA CutsAreAlignments ==
    ASSUME NEW body, IsList(body), NEW path
    PROVE  CutsFrom(body, path, Len(body), Len(path), 1, 1) = Alignments(body, path)
<1>1. DOMAIN body = 1 .. Len(body) /\ Len(body) \in Nat
  BY ListFacts
<1>2. QED BY <1>1 DEF CutsFrom, Alignments, Piece

(* score_path_pattern matches exactly the paths its pattern language       *)
(* describes: "*" stands for any run of characters, "$" for the end of the *)
(* path, and a pattern with neither for itself and what follows a "/".     *)
THEOREM PatternLanguageHolds == Spec => []PatternLanguage
<1>1. ASSUME ScanInv, NEW i \in DOMAIN blocks
      PROVE  LET pattern == PatternPath(blocks[i])
                 path == ResourcePath(resource)
                 body == NormalizedPattern(pattern)
                 ends == {cut[Len(body) + 1] : cut \in Alignments(body, path)}
             IN ScorePathPattern(pattern, path) >= 0 <=>
                   IF Anchored(pattern) THEN Len(path) \in ends
                   ELSE IF HasWildcard(body) \/ body = <<"/">> THEN ends # {}
                   ELSE \E n \in ends : n = Len(path) \/ path[n + 1] = "/"
  <2> DEFINE pattern == PatternPath(blocks[i])
             path == ResourcePath(resource)
             body == NormalizedPattern(pattern)
             cuts == Alignments(body, path)
             L == Len(body)
             T == Len(path)
             ends == {cut[L + 1] : cut \in cuts}
             longer == Append(body, "/")
  <2>1. IsList(pattern) /\ IsList(body)
    BY <1>1, DocumentsAssumption, ParsedBlocks, PatternIsList, NormalizedIsList DEF ScanInv
  <2>2. L \in Nat
    BY <2>1, ListFacts
  <2>3. T \in Nat
    <3>1. IsList(resource.path)
      BY <1>1, ResourcesAssumption DEF ScanInv
    <3>2. CASE resource.path = <<>>
      <4>1. path = <<"/">>
        BY <3>2 DEF ResourcePath
      <4>2. QED BY <4>1
    <3>3. CASE resource.path # <<>>
      BY <3>1, <3>3, ListFacts DEF ResourcePath
    <3>4. QED BY <3>2, <3>3
  <2>4. Len(longer) = L + 1
    BY <2>1 DEF IsList
  <2> HIDE DEF pattern, path, body
  <2>5. ScorePathPattern(pattern, path) >= 0 <=>
           \E regex \in Regexes(pattern) : Glob(regex[1], path, regex[2])
    BY <2>1, ScoreMeansMatch
  <2>6. Glob(body, path, TRUE) <=> \E cut \in cuts : cut[L + 1] = T
    <3>1. Glob(body, path, TRUE) <=> Aligned(body, path, TRUE, L, T, 1, 1)
      BY <2>2, <2>3, GlobAligned
    <3>2. CutsFrom(body, path, L, T, 1, 1) = cuts
      BY <2>1, CutsAreAlignments
    <3>3. QED BY <3>1, <3>2, Zenon DEF Aligned
  <2>7. Glob(body, path, FALSE) <=> \E cut \in cuts : TRUE
    BY <2>1, <2>2, <2>3, GlobAligned, CutsAreAlignments DEF Aligned
  <2>8. Glob(longer, path, FALSE) <=>
           \E cut \in cuts : cut[L + 1] < T /\ path[cut[L + 1] + 1] = "/"
    <3> HIDE DEF longer
    <3>1. Len(longer) \in Nat
      BY <2>2, <2>4
    <3>2. Glob(longer, path, FALSE) <=> Aligned(longer, path, FALSE, L + 1, T, 1, 1)
      BY <2>3, <2>4, <3>1, GlobAligned
    <3>3. QED BY <2>1, <2>3, <3>2, AppendedSlash, CutsAreAlignments DEF longer
  <2>9. ASSUME NEW n \in ends PROVE n \in 0 .. T
    BY <2>2, <2>9 DEF Alignments
  <2> HIDE DEF L, T
  <2>10. CASE Anchored(pattern)
    <3>1. Regexes(pattern) = {<<body, TRUE>>}
      BY <2>10 DEF Regexes, body
    <3>2. ScorePathPattern(pattern, path) >= 0 <=> Glob(body, path, TRUE)
      BY <2>5, <3>1, RegexIs, Zenon
    <3>3. QED BY <2>6, <2>10, <3>2 DEF pattern, path, body, L, T
  <2>11. CASE ~Anchored(pattern) /\ (HasWildcard(body) \/ body = <<"/">>)
    <3>1. Regexes(pattern) = {<<body, FALSE>>}
      BY <2>11 DEF Regexes, body
    <3>2. ScorePathPattern(pattern, path) >= 0 <=> Glob(body, path, FALSE)
      BY <2>5, <3>1, RegexIs, Zenon
    <3>3. QED BY <2>7, <2>11, <3>2 DEF pattern, path, body, L, T
  <2>12. CASE ~Anchored(pattern) /\ ~(HasWildcard(body) \/ body = <<"/">>)
    <3>1. Regexes(pattern) = {<<body, TRUE>>, <<longer, FALSE>>}
      BY <2>12 DEF Regexes, body
    <3> HIDE DEF longer
    <3>2. ScorePathPattern(pattern, path) >= 0 <=>
             Glob(body, path, TRUE) \/ Glob(longer, path, FALSE)
      BY <2>5, <3>1, RegexIs, Zenon
    <3>3. (\E n \in ends : n = T \/ path[n + 1] = "/") <=>
             \E cut \in cuts : \/ cut[L + 1] = T
                               \/ cut[L + 1] < T /\ path[cut[L + 1] + 1] = "/"
      BY <2>3, <2>9
    <3>4. QED BY <2>6, <2>8, <2>12, <3>2, <3>3 DEF pattern, path, body, L, T
  <2>13. QED BY <2>10, <2>11, <2>12
<1>2. ScanInv => PatternLanguage
  BY <1>1 DEF PatternLanguage
<1>3. QED BY <1>2, ScanInvHolds, PTL
=============================================================================
