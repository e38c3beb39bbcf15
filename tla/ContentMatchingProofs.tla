------------------------- MODULE ContentMatchingProofs -------------------------
(***************************************************************************)
(* What the operators of ContentMatching and LicenseXml return, for lists, *)
(* documents and resources of any size.  The proofs about the token cache  *)
(* and about the scan for the best match rest on these.                    *)
(***************************************************************************)
EXTENDS LicenseXml, FiniteSetTheorems, NaturalsInduction, SequenceTheorems, TLAPS
LOCAL INSTANCE FiniteSetsExt

(* A set of natural numbers that is not empty has a least element.         *)
LEMMA NaturalsAreWellFounded == IsWellFoundedOn({ss \in Nat \X Nat : ss[1] < ss[2]}, Nat)
BY NatLessThanWellFounded DEF OpToRel

LEMMA WellOrdered ==
    ASSUME NEW S \in SUBSET Nat, S # {}
    PROVE  \E m \in S : \A n \in S : m <= n
<1> DEFINE R == {ss \in Nat \X Nat : ss[1] < ss[2]}
<1>1. IsWellFoundedOn(R, Nat)
  BY NaturalsAreWellFounded
<1> HIDE DEF R
<1>2. S \subseteq Nat
  OBVIOUS
<1>3. PICK m \in S : \A n \in S : ~ (<<n, m>> \in R)
  BY <1>1, <1>2, WFMin
<1>4. \A n \in S : ~ (n < m)
  BY <1>3 DEF R
<1>5. QED BY <1>4

LEMMA LeastElement ==
    ASSUME NEW S \in SUBSET Nat, S # {}
    PROVE  Min(S) \in S /\ \A n \in S : Min(S) <= n
BY WellOrdered DEF Min

LEMMA LeastIs ==
    ASSUME NEW S \in SUBSET Nat, NEW m \in S, \A n \in S : m <= n
    PROVE  Min(S) = m
<1>1. Min(S) \in S /\ Min(S) <= m
  BY LeastElement
<1>2. m <= Min(S) /\ m \in Nat /\ Min(S) \in Nat
  BY <1>1
<1>3. QED BY <1>1, <1>2

(* Induction over the natural numbers, for a set instead of a predicate.   *)
LEMMA SetInduction ==
    ASSUME NEW S, 0 \in S, \A n \in Nat : n \in S => n + 1 \in S
    PROVE  Nat \subseteq S
<1> SUFFICES ASSUME Nat \ S # {} PROVE FALSE
  OBVIOUS
<1>1. PICK m \in Nat \ S : \A n \in Nat \ S : m <= n
  BY WellOrdered
<1>2. m \in Nat /\ m # 0 /\ m - 1 \in Nat /\ (m - 1) + 1 = m /\ ~ (m <= m - 1)
  OBVIOUS
<1>3. m - 1 \in S
  BY <1>1, <1>2
<1>4. QED BY <1>2, <1>3

-----------------------------------------------------------------------------
(* At(s, positions) lists the elements of s at these positions: each of    *)
(* them, and nothing else.                                                 *)
LEMMA RankIsUnique ==
    ASSUME NEW P \in SUBSET Nat, IsFiniteSet(P), NEW i \in P, NEW j \in P,
           Rank(P, i) = Rank(P, j)
    PROVE  i = j
<1> DEFINE Below(k) == {n \in P : n <= k}
<1>1. ASSUME NEW a \in P, NEW b \in P, a < b, Cardinality(Below(a)) = Cardinality(Below(b))
      PROVE  FALSE
  <2>1. IsFiniteSet(Below(b))
    BY FS_Subset
  <2>2. Below(a) \in SUBSET Below(b)
    <3>1. \A n \in Nat : n <= a => n <= b
      BY <1>1
    <3>2. QED BY <3>1
  <2>3. Below(b) = Below(a)
    BY <1>1, <2>1, <2>2, FS_Subset
  <2>4. b \in Below(b) /\ b \notin Below(a)
    BY <1>1
  <2>5. QED BY <2>3, <2>4
<1>2. Cardinality(Below(i)) = Cardinality(Below(j))
  BY DEF Rank
<1> HIDE DEF Below
<1>3. i \in Nat /\ j \in Nat
  OBVIOUS
<1>4. QED BY <1>1, <1>2, <1>3

LEMMA RankIsOnto ==
    ASSUME NEW P \in SUBSET Nat, IsFiniteSet(P)
    PROVE  /\ Cardinality(P) \in Nat
           /\ \A i \in P : Rank(P, i) \in 1 .. Cardinality(P)
           /\ \A n \in 1 .. Cardinality(P) : \E i \in P : Rank(P, i) = n
<1>1. Cardinality(P) \in Nat
  BY FS_CardinalityType
<1>2. ASSUME NEW i \in P PROVE Rank(P, i) \in 1 .. Cardinality(P)
  <2> DEFINE B == {n \in P : n <= i}
  <2>1. B \in SUBSET P /\ i \in B
    OBVIOUS
  <2> HIDE DEF B
  <2>2. IsFiniteSet(B) /\ Cardinality(B) <= Cardinality(P) /\ Cardinality(B) \in Nat
    BY <2>1, FS_Subset, FS_CardinalityType
  <2>3. Cardinality(B) # 0
    BY <2>1, <2>2, FS_EmptySet
  <2>4. Rank(P, i) = Cardinality(B)
    BY DEF Rank, B
  <2>5. QED BY <1>1, <2>2, <2>3, <2>4
<1>3. ASSUME NEW n \in 1 .. Cardinality(P), \A i \in P : Rank(P, i) # n
      PROVE  FALSE
  <2> DEFINE f == [i \in P |-> Rank(P, i)]
             T == (1 .. Cardinality(P)) \ {n}
  <2>1. f \in [P -> T]
    BY <1>2, <1>3
  <2>2. IsFiniteSet(1 .. Cardinality(P)) /\ Cardinality(1 .. Cardinality(P)) = Cardinality(P)
    BY <1>1, FS_Interval
  <2>3. IsFiniteSet(T) /\ Cardinality(T) = Cardinality(P) - 1
    BY <2>2, FS_RemoveElement
  <2>4. Cardinality(T) < Cardinality(P)
    BY <1>1, <2>3
  <2> HIDE DEF f, T
  <2>5. PICK i, j \in P : i # j /\ f[i] = f[j]
    BY <2>1, <2>3, <2>4, FS_PigeonHole
  <2>6. QED BY <2>5, RankIsUnique DEF f
<1>4. QED BY <1>1, <1>2, <1>3

LEMMA AtElements ==
    ASSUME NEW s, NEW P \in SUBSET Nat, IsFiniteSet(P)
    PROVE  /\ Cardinality(P) \in Nat
           /\ DOMAIN At(s, P) = 1 .. Cardinality(P)
           /\ \A n \in DOMAIN At(s, P) : \E i \in P : At(s, P)[n] = s[i]
           /\ \A i \in P : \E n \in DOMAIN At(s, P) : At(s, P)[n] = s[i]
<1>1. /\ Cardinality(P) \in Nat
      /\ \A i \in P : Rank(P, i) \in 1 .. Cardinality(P)
      /\ \A n \in 1 .. Cardinality(P) : \E i \in P : Rank(P, i) = n
  BY RankIsOnto
<1>2. DOMAIN At(s, P) = 1 .. Cardinality(P)
  BY DEF At
<1>3. ASSUME NEW n \in 1 .. Cardinality(P)
      PROVE  LET i == CHOOSE i \in P : Rank(P, i) = n
             IN i \in P /\ Rank(P, i) = n /\ At(s, P)[n] = s[i]
  BY <1>1 DEF At
<1>4. ASSUME NEW i \in P PROVE \E n \in DOMAIN At(s, P) : At(s, P)[n] = s[i]
  BY <1>1, <1>2, <1>3, RankIsUnique
<1>5. QED BY <1>1, <1>2, <1>3, <1>4

LEMMA ListFacts ==
    ASSUME NEW s, IsList(s)
    PROVE  /\ Len(s) \in Nat /\ DOMAIN s = 1 .. Len(s)
           /\ DOMAIN s \in SUBSET Nat /\ IsFiniteSet(DOMAIN s)
<1>1. Len(s) \in Nat /\ DOMAIN s = 1 .. Len(s)
  BY DEF IsList
<1>2. IsFiniteSet(1 .. Len(s))
  BY <1>1, FS_Interval
<1>3. QED BY <1>1, <1>2

(* A finite set of positions with numbers at them has a greatest one.      *)
LEMMA GreatestExists ==
    ASSUME NEW D, IsFiniteSet(D), D # {}, NEW f, \A i \in D : f[i] \in Int
    PROVE  \E m \in D : \A i \in D : f[i] <= f[m]
<1> DEFINE Greatest(T) == \E m \in T : \A i \in T : f[i] <= f[m]
           S == {n \in Nat : \A T \in SUBSET D : Cardinality(T) = n + 1 => Greatest(T)}
<1>1. 0 \in S
  <2> SUFFICES ASSUME NEW T \in SUBSET D, Cardinality(T) = 0 + 1 PROVE Greatest(T)
    OBVIOUS
  <2>f. IsFiniteSet(T) /\ Cardinality(T) = 1
    BY FS_Subset
  <2>1. PICK x : T = {x}
    BY <2>f, FS_Singleton
  <2>2. x \in D /\ f[x] \in Int
    BY <2>1
  <2>3. QED BY <2>1, <2>2
<1>2. ASSUME NEW n \in Nat, n \in S PROVE n + 1 \in S
  <2> SUFFICES ASSUME NEW T \in SUBSET D, Cardinality(T) = n + 2 PROVE Greatest(T)
    OBVIOUS
  <2>1. IsFiniteSet(T)
    BY FS_Subset
  <2>2. PICK x : x \in T
    BY <2>1, FS_EmptySet
  <2>c. Cardinality(T \ {x}) = Cardinality(T) - 1
    BY <2>1, <2>2, FS_RemoveElement
  <2>3. T \ {x} \in SUBSET D /\ Cardinality(T \ {x}) = n + 1
    BY <2>c
  <2>4. PICK m \in T \ {x} : \A i \in T \ {x} : f[i] <= f[m]
    BY <1>2, <2>3
  <2>5. f[m] \in Int /\ f[x] \in Int
    BY <2>2, <2>4
  <2>6. CASE f[x] <= f[m]
    BY <2>2, <2>4, <2>6
  <2>7. CASE f[m] <= f[x]
    <3>1. \A i \in T : f[i] \in Int
      OBVIOUS
    <3>2. \A i \in T : f[i] <= f[x]
      BY <2>4, <2>5, <2>7, <3>1
    <3>3. QED BY <2>2, <3>2
  <2>8. QED BY <2>5, <2>6, <2>7
<1> HIDE DEF S, Greatest
<1>3. Nat \subseteq S
  BY <1>1, <1>2, SetInduction
<1>4. Cardinality(D) \in Nat /\ Cardinality(D) # 0
  BY FS_CardinalityType, FS_EmptySet
<1>5. Cardinality(D) - 1 \in S /\ Cardinality(D) = (Cardinality(D) - 1) + 1
  BY <1>3, <1>4
<1>6. Greatest(D)
  BY <1>5 DEF S
<1>7. QED BY <1>6 DEF Greatest

-----------------------------------------------------------------------------
(* A block answers for a resource when its pattern is the path, or matches.*)
Exact(b, resource) == PatternPath(b) = ResourcePath(resource)
Fits(b, resource) ==
    HostFits(b, resource) /\ (Exact(b, resource) \/ Specificity(b, resource) >= 0)

(* The pattern of a block, and what is left of it without its "$", is a    *)
(* list when the path in the document is; its score is a number.           *)
LEMMA PatternIsList ==
    ASSUME NEW b, IsList(b.url_pattern.path)
    PROVE  IsList(PatternPath(b))
<1>1. <<"/">> \in Seq({<<"/">>[i] : i \in DOMAIN <<"/">>})
  OBVIOUS
<1>2. CASE b.url_pattern.path = <<>>
  BY <1>1, <1>2, Zenon DEF PatternPath, IsList
<1>3. CASE b.url_pattern.path # <<>>
  BY <1>3 DEF PatternPath
<1>4. QED BY <1>2, <1>3

LEMMA NormalizedIsList ==
    ASSUME NEW pattern, IsList(pattern)
    PROVE  IsList(NormalizedPattern(pattern))
<1>1. PICK S : pattern \in Seq(S)
  BY DEF IsList
<1>2. CASE ~Anchored(pattern)
  BY <1>2 DEF NormalizedPattern
<1>3. CASE Anchored(pattern)
  <2> DEFINE q == SubSeq(pattern, 1, Len(pattern) - 1)
  <2>1. q \in Seq(S)
    BY <1>1
  <2> HIDE DEF q
  <2>2. IsList(q)
    BY <2>1 DEF IsList
  <2>3. QED BY <1>3, <2>2 DEF NormalizedPattern, q
<1>4. QED BY <1>2, <1>3

LEMMA LiteralLengthTyped ==
    ASSUME NEW body, IsList(body)
    PROVE  LiteralLength(body) \in Nat
<1>1. IsFiniteSet(DOMAIN body)
  BY ListFacts
<1>2. {i \in DOMAIN body : body[i] # "*"} \in SUBSET (DOMAIN body)
  OBVIOUS
<1>3. QED BY <1>1, <1>2, FS_Subset, FS_CardinalityType DEF LiteralLength

LEMMA SpecificityTyped ==
    ASSUME NEW b, IsList(b.url_pattern.path), NEW resource
    PROVE  Specificity(b, resource) \in Nat \cup {-1}
<1> DEFINE body == NormalizedPattern(PatternPath(b))
<1>1. IsList(body)
  BY PatternIsList, NormalizedIsList
<1> HIDE DEF body
<1>2. LiteralLength(body) \in Nat
  BY <1>1, LiteralLengthTyped
<1>3. QED BY <1>2 DEF body, Specificity, ScorePathPattern

(* The best match is one of the blocks, and answers for the resource.      *)
LEMMA BestMatchesFit ==
    ASSUME NEW blocks, DOMAIN blocks \in SUBSET Nat, NEW resource,
           NEW b \in BestMatches(blocks, resource)
    PROVE  \E i \in DOMAIN blocks : b = blocks[i] /\ Fits(b, resource)
<1> DEFINE fits == {i \in DOMAIN blocks : HostFits(blocks[i], resource)}
           exact == {i \in fits : Exact(blocks[i], resource)}
           highest == Highest([i \in fits |-> Specificity(blocks[i], resource)])
           found == IF exact # {} THEN exact ELSE highest
<1>1. b \in FirstOf(blocks, found)
  BY DEF BestMatches, Exact
<1>2. \A i \in found : i \in DOMAIN blocks /\ Fits(blocks[i], resource)
  <2>1. \A i \in exact : i \in DOMAIN blocks /\ Fits(blocks[i], resource)
    BY DEF Fits
  <2>2. \A i \in highest : i \in DOMAIN blocks /\ Fits(blocks[i], resource)
    BY DEF Highest, Fits
  <2>3. QED BY <2>1, <2>2
<1> HIDE DEF found
<1>3. found # {} /\ b = blocks[Min(found)]
  BY <1>1 DEF FirstOf
<1>4. Min(found) \in found
  BY <1>2, <1>3, LeastElement
<1>5. QED BY <1>2, <1>3, <1>4

(* There is a best match as soon as one block answers for the resource.    *)
LEMMA BestMatchesFound ==
    ASSUME NEW blocks, DOMAIN blocks \in SUBSET Nat, IsFiniteSet(DOMAIN blocks), NEW resource,
           \A i \in DOMAIN blocks : IsList(blocks[i].url_pattern.path),
           NEW k \in DOMAIN blocks, Fits(blocks[k], resource)
    PROVE  BestMatches(blocks, resource) # {}
<1> DEFINE fits == {i \in DOMAIN blocks : HostFits(blocks[i], resource)}
           exact == {i \in fits : Exact(blocks[i], resource)}
           score == [i \in fits |-> Specificity(blocks[i], resource)]
           found == IF exact # {} THEN exact ELSE Highest(score)
<1>1. BestMatches(blocks, resource) = FirstOf(blocks, found)
  BY DEF BestMatches, Exact
<1>2. found # {}
  <2>1. CASE Exact(blocks[k], resource)
    <3>1. k \in exact
      BY <2>1 DEF Fits
    <3>2. QED BY <3>1
  <2>2. CASE ~Exact(blocks[k], resource)
    <3>1. k \in fits /\ score[k] >= 0
      BY <2>2 DEF Fits
    <3>2. \A i \in fits : score[i] \in Int
      BY SpecificityTyped
    <3>3. IsFiniteSet(fits)
      BY FS_Subset
    <3>4. DOMAIN score = fits
      OBVIOUS
    <3> HIDE DEF score, fits
    <3>5. PICK m \in fits : \A i \in fits : score[i] <= score[m]
      BY <3>1, <3>2, <3>3, GreatestExists
    <3>6. score[m] >= 0
      BY <3>1, <3>2, <3>5
    <3>7. m \in Highest(score)
      BY <3>4, <3>5, <3>6 DEF Highest
    <3>8. QED BY <3>7
  <2>3. QED BY <2>1, <2>2
<1>3. QED BY <1>1, <1>2 DEF FirstOf

-----------------------------------------------------------------------------
(* The best of the blocks at some positions is one of these.               *)
LEMMA BestAmongFit ==
    ASSUME NEW blocks, IsList(blocks), NEW P \in SUBSET (DOMAIN blocks), NEW resource,
           NEW b \in BestMatches(At(blocks, P), resource)
    PROVE  \E i \in P : b = blocks[i] /\ Fits(b, resource)
<1>1. P \in SUBSET Nat /\ IsFiniteSet(P)
  BY ListFacts, FS_Subset
<1>2. /\ DOMAIN At(blocks, P) \in SUBSET Nat
      /\ \A n \in DOMAIN At(blocks, P) : \E i \in P : At(blocks, P)[n] = blocks[i]
  BY <1>1, AtElements
<1>3. PICK n \in DOMAIN At(blocks, P) : b = At(blocks, P)[n] /\ Fits(b, resource)
  BY <1>2, BestMatchesFit
<1>4. QED BY <1>2, <1>3

LEMMA BestAmongFound ==
    ASSUME NEW blocks, IsList(blocks), \A i \in DOMAIN blocks : IsList(blocks[i].url_pattern.path),
           NEW P \in SUBSET (DOMAIN blocks), NEW resource, NEW k \in P, Fits(blocks[k], resource)
    PROVE  BestMatches(At(blocks, P), resource) # {}
<1>1. P \in SUBSET Nat /\ IsFiniteSet(P)
  BY ListFacts, FS_Subset
<1>2. /\ Cardinality(P) \in Nat /\ DOMAIN At(blocks, P) = 1 .. Cardinality(P)
      /\ \A n \in DOMAIN At(blocks, P) : \E i \in P : At(blocks, P)[n] = blocks[i]
      /\ \E n \in DOMAIN At(blocks, P) : At(blocks, P)[n] = blocks[k]
  BY <1>1, AtElements
<1>3. IsFiniteSet(DOMAIN At(blocks, P)) /\ DOMAIN At(blocks, P) \in SUBSET Nat
  BY <1>2, FS_Interval
<1>4. PICK n \in DOMAIN At(blocks, P) : Fits(At(blocks, P)[n], resource)
  BY <1>2
<1>5. \A j \in DOMAIN At(blocks, P) : IsList(At(blocks, P)[j].url_pattern.path)
  BY <1>2
<1>6. QED BY <1>3, <1>4, <1>5, BestMatchesFound

(* The endpoint comes from a block with a server that answers for the      *)
(* resource, or is the Agreement lane.                                     *)
LEMMA EndpointChoice ==
    ASSUME NEW blocks, NEW resource, NEW base
    PROVE  LET e == SelectTokenEndpoint(blocks, resource, base)
               chosen == SupertabFirst(blocks, resource, base)
           IN IF chosen = {} THEN e = AgreementLane(resource, base)
              ELSE \E b \in chosen :
                      e = [server |-> b.server, scope |-> b.url_pattern, matched |-> TRUE,
                           license |-> b.license]
<1> DEFINE chosen == SupertabFirst(blocks, resource, base)
           from == Prefer(TokenEndpoints(chosen), {AgreementLane(resource, base)})
<1>1. SelectTokenEndpoint(blocks, resource, base) = CHOOSE e \in from : TRUE
  BY DEF SelectTokenEndpoint
<1>2. chosen = {} => from = {AgreementLane(resource, base)}
  BY DEF Prefer, TokenEndpoints
<1>3. chosen # {} => from = TokenEndpoints(chosen) /\ TokenEndpoints(chosen) # {}
  BY DEF Prefer, TokenEndpoints
<1> HIDE DEF from, chosen
<1>4. from # {} => (CHOOSE e \in from : TRUE) \in from
  OBVIOUS
<1>5. CASE chosen = {}
  BY <1>1, <1>2, <1>4, <1>5 DEF chosen
<1>6. CASE chosen # {}
  <2>1. SelectTokenEndpoint(blocks, resource, base) \in TokenEndpoints(chosen)
    BY <1>1, <1>3, <1>4, <1>6
  <2>2. QED BY <1>6, <2>1 DEF TokenEndpoints, chosen
<1>7. QED BY <1>5, <1>6

LEMMA SupertabFirstFits ==
    ASSUME NEW blocks, IsList(blocks), NEW resource, NEW base,
           NEW b \in SupertabFirst(blocks, resource, base)
    PROVE  \E i \in WithServer(blocks) : b = blocks[i] /\ Fits(b, resource)
<1>1. /\ WithServer(blocks) \in SUBSET (DOMAIN blocks)
      /\ OnSupertab(blocks, base) \in SUBSET (DOMAIN blocks)
      /\ OnSupertab(blocks, base) \subseteq WithServer(blocks)
  BY DEF WithServer, OnSupertab
<1>2. \/ b \in BestMatches(At(blocks, OnSupertab(blocks, base)), resource)
      \/ b \in BestMatches(At(blocks, WithServer(blocks)), resource)
  BY DEF SupertabFirst, Prefer
<1>3. QED BY <1>1, <1>2, BestAmongFit

(* A token is never scoped wider than the resource it is asked for allows: *)
(* the scope is the resource's origin, or a pattern it matches.            *)
LEMMA EndpointScope ==
    ASSUME NEW blocks, IsList(blocks), NEW resource, NEW base
    PROVE  LET scope == SelectTokenEndpoint(blocks, resource, base).scope IN
           \/ scope = Origin(resource)
           \/ /\ \E i \in DOMAIN blocks : scope = blocks[i].url_pattern
              /\ Fits([url_pattern |-> scope], resource)
<1> DEFINE e == SelectTokenEndpoint(blocks, resource, base)
           chosen == SupertabFirst(blocks, resource, base)
<1>1. CASE chosen = {}
  <2>1. e = AgreementLane(resource, base)
    BY <1>1, EndpointChoice
  <2>2. QED BY <2>1 DEF AgreementLane
<1>2. CASE chosen # {}
  <2>1. PICK b \in chosen : e.scope = b.url_pattern
    BY <1>2, EndpointChoice
  <2>2. PICK i \in WithServer(blocks) : b = blocks[i] /\ Fits(b, resource)
    BY SupertabFirstFits
  <2>3. Fits([url_pattern |-> b.url_pattern], resource)
    BY <2>2 DEF Fits, HostFits, Exact, Specificity, PatternPath
  <2>4. QED BY <2>1, <2>2, <2>3 DEF WithServer
<1>3. QED BY <1>1, <1>2

-----------------------------------------------------------------------------
(* What is read from a document is a list of blocks, whose patterns are    *)
(* lists.                                                                  *)
LEMMA SubListIsList ==
    ASSUME NEW s, IsList(s), NEW P \in SUBSET (DOMAIN s)
    PROVE  /\ IsList(At(s, P))
           /\ \A n \in DOMAIN At(s, P) : \E i \in P : At(s, P)[n] = s[i]
<1>1. P \in SUBSET Nat /\ IsFiniteSet(P)
  BY ListFacts, FS_Subset
<1>2. /\ Cardinality(P) \in Nat /\ DOMAIN At(s, P) = 1 .. Cardinality(P)
      /\ \A n \in DOMAIN At(s, P) : \E i \in P : At(s, P)[n] = s[i]
  BY <1>1, AtElements
<1>3. At(s, P) = [n \in 1 .. Cardinality(P) |-> At(s, P)[n]]
  BY DEF At
<1> DEFINE q == At(s, P)
<1> HIDE DEF q
<1>4. q \in [1 .. Cardinality(P) -> {q[n] : n \in DOMAIN q}]
  BY <1>2, <1>3 DEF q
<1>5. q \in Seq({q[n] : n \in DOMAIN q})
  BY <1>2, <1>4
<1>6. QED BY <1>2, <1>5 DEF IsList, q

LEMMA PreferredElements ==
    ASSUME NEW elements, IsList(elements)
    PROVE  /\ IsList(PreferNamespaced(elements))
           /\ \A n \in DOMAIN PreferNamespaced(elements) :
                 \E i \in DOMAIN elements : PreferNamespaced(elements)[n] = elements[i]
<1>2. ASSUME NEW ns
      PROVE  /\ IsList(In(elements, ns))
             /\ \A n \in DOMAIN In(elements, ns) :
                   \E i \in DOMAIN elements : In(elements, ns)[n] = elements[i]
  <2> DEFINE P == {i \in DOMAIN elements : elements[i].ns = ns}
  <2>1. P \in SUBSET (DOMAIN elements) /\ In(elements, ns) = At(elements, P)
    BY DEF In
  <2> HIDE DEF P
  <2>2. QED BY <2>1, SubListIsList
<1>3. PreferNamespaced(elements) = In(elements, "rsl")
         \/ PreferNamespaced(elements) = In(elements, "none")
  BY DEF PreferNamespaced
<1>4. QED BY <1>2, <1>3

LEMMA ParsedBlocks ==
    ASSUME NEW xml, IsDocument(xml)
    PROVE  /\ IsList(ParseContentElements(xml))
           /\ \A i \in DOMAIN ParseContentElements(xml) :
                 IsList(ParseContentElements(xml)[i].url_pattern.path)
<1> DEFINE elements == PreferNamespaced(xml.content)
           P == {i \in DOMAIN elements : IsValid(elements[i])}
           valid == At(elements, P)
           blocks == [i \in DOMAIN valid |-> ContentBlock(valid[i])]
<1>1. /\ IsList(elements)
      /\ \A n \in DOMAIN elements : \E i \in DOMAIN xml.content : elements[n] = xml.content[i]
  BY PreferredElements DEF IsDocument
<1>2. P \in SUBSET (DOMAIN elements)
  OBVIOUS
<1> HIDE DEF P
<1>3. /\ IsList(valid)
      /\ \A n \in DOMAIN valid : \E i \in P : valid[n] = elements[i]
  BY <1>1, <1>2, SubListIsList
<1>4. ASSUME NEW n \in DOMAIN valid PROVE IsList(valid[n].url.path)
  <2>1. PICK i \in DOMAIN xml.content : valid[n] = xml.content[i] /\ IsValid(xml.content[i])
    BY <1>1, <1>3 DEF P
  <2>2. xml.content[i].url \notin {Absent, Blank}
    BY <2>1 DEF IsValid, CleanAttribute
  <2>3. QED BY <2>1, <2>2 DEF IsDocument, IsElement
<1> HIDE DEF valid
<1>5. /\ Len(valid) \in Nat /\ DOMAIN valid = 1 .. Len(valid)
  BY <1>3, ListFacts
<1>6. blocks \in [1 .. Len(valid) -> {blocks[i] : i \in DOMAIN blocks}]
  BY <1>5
<1>7. \A n \in DOMAIN blocks : IsList(blocks[n].url_pattern.path)
  BY <1>4 DEF ContentBlock
<1> HIDE DEF blocks
<1>8. IsList(blocks)
  BY <1>5, <1>6 DEF IsList
<1>9. CASE xml.well_formed
  BY <1>7, <1>8, <1>9 DEF ParseContentElements, blocks, valid, P
<1>10. CASE ~xml.well_formed
  <2>1. ParseContentElements(xml) = <<>>
    BY <1>10 DEF ParseContentElements
  <2>2. IsList(<<>>)
    BY DEF IsList
  <2>3. QED BY <2>1, <2>2
<1>11. QED BY <1>9, <1>10

(* The loop's view of the best match: an exact match is it when no block   *)
(* before it is exact, and without one a block of the highest specificity  *)
(* when all before it score less.                                          *)
LEMMA FirstExactIsBest ==
    ASSUME NEW blocks, DOMAIN blocks \in SUBSET Nat, NEW resource, NEW m \in DOMAIN blocks,
           HostFits(blocks[m], resource), Exact(blocks[m], resource),
           \A i \in DOMAIN blocks :
              HostFits(blocks[i], resource) /\ Exact(blocks[i], resource) => m <= i
    PROVE  BestMatches(blocks, resource) = {blocks[m]}
<1> DEFINE fits == {i \in DOMAIN blocks : HostFits(blocks[i], resource)}
           exact == {i \in fits : Exact(blocks[i], resource)}
<1>1. exact \in SUBSET Nat /\ m \in exact /\ \A n \in exact : m <= n
  OBVIOUS
<1>2. BestMatches(blocks, resource) =
         FirstOf(blocks, IF exact # {} THEN exact
                         ELSE Highest([i \in fits |-> Specificity(blocks[i], resource)]))
  BY DEF BestMatches, Exact
<1> HIDE DEF exact
<1>3. Min(exact) = m
  BY <1>1, LeastIs
<1>4. QED BY <1>1, <1>2, <1>3 DEF FirstOf

LEMMA FirstHighestIsBest ==
    ASSUME NEW blocks, DOMAIN blocks \in SUBSET Nat, NEW resource, NEW m \in DOMAIN blocks,
           HostFits(blocks[m], resource), Specificity(blocks[m], resource) >= 0,
           \A i \in DOMAIN blocks : Specificity(blocks[i], resource) \in Int,
           \A i \in DOMAIN blocks : HostFits(blocks[i], resource) =>
              /\ ~Exact(blocks[i], resource)
              /\ Specificity(blocks[i], resource) <= Specificity(blocks[m], resource)
              /\ Specificity(blocks[i], resource) = Specificity(blocks[m], resource) => m <= i
    PROVE  BestMatches(blocks, resource) = {blocks[m]}
<1> DEFINE fits == {i \in DOMAIN blocks : HostFits(blocks[i], resource)}
           exact == {i \in fits : Exact(blocks[i], resource)}
           score == [i \in fits |-> Specificity(blocks[i], resource)]
<1>1. exact = {}
  OBVIOUS
<1>2. BestMatches(blocks, resource) = FirstOf(blocks, Highest(score))
  BY <1>1 DEF BestMatches, Exact
<1>3. DOMAIN score = fits /\ m \in fits /\ fits \in SUBSET Nat
  OBVIOUS
<1>4. \A i \in fits : /\ score[i] \in Int /\ score[i] <= score[m]
                      /\ score[i] = score[m] => m <= i
  OBVIOUS
<1>5. score[m] >= 0
  OBVIOUS
<1> HIDE DEF score, fits
<1>6. m \in Highest(score) /\ Highest(score) \in SUBSET Nat
  BY <1>3, <1>4, <1>5 DEF Highest
<1>7. ASSUME NEW n \in Highest(score) PROVE m <= n
  <2>1. n \in fits /\ score[m] <= score[n]
    BY <1>3, <1>7 DEF Highest
  <2>2. score[n] = score[m]
    BY <1>3, <1>4, <2>1
  <2>3. QED BY <1>4, <2>1, <2>2
<1>8. Min(Highest(score)) = m
  BY <1>6, <1>7, LeastIs
<1>9. QED BY <1>2, <1>6, <1>8 DEF FirstOf

LEMMA NoneFitsNoneBest ==
    ASSUME NEW blocks, NEW resource,
           \A i \in DOMAIN blocks : HostFits(blocks[i], resource) =>
              /\ ~Exact(blocks[i], resource)
              /\ ~ (Specificity(blocks[i], resource) >= 0)
    PROVE  BestMatches(blocks, resource) = {}
<1> DEFINE fits == {i \in DOMAIN blocks : HostFits(blocks[i], resource)}
           exact == {i \in fits : Exact(blocks[i], resource)}
           score == [i \in fits |-> Specificity(blocks[i], resource)]
<1>1. exact = {}
  OBVIOUS
<1>2. BestMatches(blocks, resource) = FirstOf(blocks, Highest(score))
  BY <1>1 DEF BestMatches, Exact
<1>3. Highest(score) = {}
  BY DEF Highest
<1>4. QED BY <1>2, <1>3 DEF FirstOf
-----------------------------------------------------------------------------
(* Sublists at the same positions line up, and the first element of a      *)
(* sublist is the one at the first of its positions.                       *)
LEMMA AtSamePositions ==
    ASSUME NEW s, NEW t, NEW P \in SUBSET Nat, IsFiniteSet(P)
    PROVE  /\ DOMAIN At(s, P) = DOMAIN At(t, P)
           /\ \A n \in DOMAIN At(s, P) : \E i \in P : At(s, P)[n] = s[i] /\ At(t, P)[n] = t[i]
<1>1. \A n \in 1 .. Cardinality(P) : \E i \in P : Rank(P, i) = n
  BY RankIsOnto
<1>2. DOMAIN At(s, P) = 1 .. Cardinality(P) /\ DOMAIN At(t, P) = 1 .. Cardinality(P)
  BY DEF At
<1>3. ASSUME NEW n \in 1 .. Cardinality(P)
      PROVE  \E i \in P : At(s, P)[n] = s[i] /\ At(t, P)[n] = t[i]
  <2> DEFINE i == CHOOSE i \in P : Rank(P, i) = n
  <2>1. i \in P
    BY <1>1
  <2>2. At(s, P)[n] = s[i] /\ At(t, P)[n] = t[i]
    BY DEF At
  <2>3. QED BY <2>1, <2>2
<1>4. QED BY <1>2, <1>3

LEMMA AtFirst ==
    ASSUME NEW s, NEW P \in SUBSET Nat, IsFiniteSet(P), P # {}
    PROVE  /\ 1 \in DOMAIN At(s, P)
           /\ \E i \in P : At(s, P)[1] = s[i] /\ \A k \in P : i <= k
<1>1. /\ Cardinality(P) \in Nat
      /\ \A i \in P : Rank(P, i) \in 1 .. Cardinality(P)
      /\ \A n \in 1 .. Cardinality(P) : \E i \in P : Rank(P, i) = n
  BY RankIsOnto
<1>2. 1 \in 1 .. Cardinality(P)
  <2>1. PICK i \in P : Rank(P, i) \in 1 .. Cardinality(P)
    BY <1>1
  <2>2. ASSUME NEW c \in Nat, NEW x \in 1 .. c PROVE 1 \in 1 .. c
    OBVIOUS
  <2>3. QED BY <1>1, <2>1, <2>2
<1> DEFINE first == CHOOSE i \in P : Rank(P, i) = 1
<1>3. first \in P /\ Rank(P, first) = 1
  BY <1>1, <1>2
<1>4. 1 \in DOMAIN At(s, P) /\ At(s, P)[1] = s[first]
  BY <1>2 DEF At
<1> HIDE DEF first
<1>5. ASSUME NEW k \in P, k < first PROVE FALSE
  <2> DEFINE A == {j \in P : j <= k}
             B == {j \in P : j <= first}
  <2>1. A \subseteq B /\ B \subseteq P
    <3>1. k \in Nat /\ first \in Nat
      BY <1>3
    <3>2. \A j \in Nat : j <= k => j <= first
      BY <1>5, <3>1
    <3>3. QED BY <3>2
  <2>2. IsFiniteSet(B) /\ IsFiniteSet(A)
    BY <2>1, FS_Subset
  <2>3. Cardinality(A) <= Cardinality(B)
    BY <2>1, <2>2, FS_Subset
  <2>4. Rank(P, k) = Cardinality(A) /\ Rank(P, first) = Cardinality(B)
    BY DEF Rank
  <2>5. Rank(P, k) = 1
    BY <1>1, <1>3, <2>3, <2>4
  <2>6. k = first
    BY <1>3, <2>5, RankIsUnique
  <2>7. QED BY <1>3, <1>5, <2>6
<1>6. \A k \in P : first <= k
  BY <1>3, <1>5
<1>7. QED BY <1>3, <1>4, <1>6

(* A sublist is empty exactly when it has no positions.                    *)
LEMMA AtEmpty ==
    ASSUME NEW s, IsList(s), NEW P \in SUBSET (DOMAIN s)
    PROVE  /\ At(s, P) = <<>> <=> P = {}
           /\ At(s, P) = <<>> <=> DOMAIN At(s, P) = {}
<1>1. P \in SUBSET Nat /\ IsFiniteSet(P) /\ IsList(At(s, P))
  BY ListFacts, FS_Subset, SubListIsList
<1>2. Len(At(s, P)) \in Nat /\ DOMAIN At(s, P) = 1 .. Len(At(s, P))
  BY <1>1, ListFacts
<1>3. At(s, P) \in Seq({At(s, P)[i] : i \in DOMAIN At(s, P)})
  BY <1>1 DEF IsList
<1>4. At(s, P) = <<>> <=> Len(At(s, P)) = 0
  BY <1>3, EmptySeq
<1>5. P # {} => 1 \in DOMAIN At(s, P)
  BY <1>1, AtFirst
<1>6. DOMAIN At(s, P) # {} => P # {}
  BY <1>1, AtElements
<1>7. DOMAIN At(s, P) = {} <=> Len(At(s, P)) = 0
  BY <1>2
<1>8. QED BY <1>4, <1>5, <1>6, <1>7
-----------------------------------------------------------------------------
(* The recursive function of Glob exists: it is built up from the ends of  *)
(* the pattern and the text, and each value depends on later ones only.    *)
Cells(L, T) == (1 .. L + 1) \X (1 .. T + 1)

Table(body, text, toEnd, L, T, m) ==
    [x \in Cells(L, T) |->
        IF x[1] > L THEN ~toEnd \/ x[2] > T
        ELSE \/ body[x[1]] = "*" /\ m[<<x[1] + 1, x[2]>>]
             \/ /\ x[2] <= T
                /\ body[x[1]] \in {"*", text[x[2]]}
                /\ m[<<IF body[x[1]] = "*" THEN x[1] ELSE x[1] + 1, x[2] + 1>>]]

Left(x, L, T) == (L + 1 - x[1]) + (T + 1 - x[2])

LEMMA TableIsLocal ==
    ASSUME NEW body, NEW text, NEW toEnd, NEW L \in Nat, NEW T \in Nat, NEW m, NEW k,
           NEW x \in Cells(L, T),
           \A y \in Cells(L, T) : Left(y, L, T) < Left(x, L, T) => m[y] = k[y]
    PROVE  Table(body, text, toEnd, L, T, m)[x] = Table(body, text, toEnd, L, T, k)[x]
<1>1. x = <<x[1], x[2]>> /\ x[1] \in 1 .. L + 1 /\ x[2] \in 1 .. T + 1
  BY DEF Cells
<1>2. ASSUME x[1] <= L
      PROVE  m[<<x[1] + 1, x[2]>>] = k[<<x[1] + 1, x[2]>>]
  <2>1. <<x[1] + 1, x[2]>> \in Cells(L, T)
    BY <1>1, <1>2 DEF Cells
  <2>2. Left(<<x[1] + 1, x[2]>>, L, T) < Left(x, L, T)
    BY <1>1 DEF Left
  <2>3. QED BY <2>1, <2>2
<1>3. ASSUME x[1] <= L, x[2] <= T, NEW i \in {x[1], x[1] + 1}
      PROVE  m[<<i, x[2] + 1>>] = k[<<i, x[2] + 1>>]
  <2>1. <<i, x[2] + 1>> \in Cells(L, T)
    BY <1>1, <1>3 DEF Cells
  <2>2. Left(<<i, x[2] + 1>>, L, T) < Left(x, L, T)
    BY <1>1, <1>3 DEF Left
  <2>3. QED BY <2>1, <2>2
<1>4. CASE x[1] > L
  BY <1>4 DEF Table
<1>5. CASE x[1] <= L
  BY <1>1, <1>2, <1>3, <1>5 DEF Table
<1>6. QED BY <1>1, <1>4, <1>5

LEMMA TableExists ==
    ASSUME NEW body, NEW text, NEW toEnd, NEW L \in Nat, NEW T \in Nat
    PROVE  \E m : m = Table(body, text, toEnd, L, T, m)
<1> DEFINE Step(m) == Table(body, text, toEnd, L, T, m)
           D == Cells(L, T)
           Until(m, n) == \A x \in D : Left(x, L, T) < n => m[x] = Step(m)[x]
           S == {n \in Nat : \E m : m = [x \in D |-> m[x]] /\ Until(m, n)}
<1>1. \A x \in D : Left(x, L, T) \in 0 .. L + T
  BY DEF Cells, Left
<1>2. 0 \in S
  <2> DEFINE m == [x \in D |-> 0]
  <2>1. m = [x \in D |-> m[x]]
    OBVIOUS
  <2>2. \A x \in D : ~(Left(x, L, T) < 0)
    BY <1>1
  <2>3. Until(m, 0)
    <3> HIDE DEF m, Step, D
    <3>1. QED BY <2>2
  <2> HIDE DEF m, Until, D
  <2>4. QED BY <2>1, <2>3
<1>3. ASSUME NEW n \in S PROVE n + 1 \in S
  <2>1. PICK m : m = [x \in D |-> m[x]] /\ Until(m, n)
    BY <1>3
  <2> DEFINE k == Step(m)
  <2>2. k = [x \in D |-> k[x]]
    BY DEF Table
  <2>3. \A y \in D : Left(y, L, T) < n => k[y] = m[y]
    BY <2>1
  <2>4. ASSUME NEW x \in D, Left(x, L, T) < n + 1
        PROVE  k[x] = Step(k)[x]
    <3>1. \A y \in D : Left(y, L, T) < Left(x, L, T) => m[y] = k[y]
      BY <1>1, <2>3, <2>4
    <3> HIDE DEF k
    <3>2. Step(m)[x] = Step(k)[x]
      BY <3>1, TableIsLocal
    <3>3. QED BY <3>2 DEF k
  <2>5. Until(k, n + 1)
    BY <2>4
  <2> HIDE DEF k, Until, D
  <2>6. QED BY <2>2, <2>5
<1>4. Nat \subseteq S
  <2> HIDE DEF S
  <2>1. QED BY <1>2, <1>3, SetInduction
<1>5. PICK m : m = [x \in D |-> m[x]] /\ Until(m, L + T + 1)
  BY <1>4
<1>6. \A x \in D : m[x] = Step(m)[x]
  BY <1>1, <1>5
<1>7. DOMAIN Step(m) = D /\ Step(m) = [x \in D |-> Step(m)[x]]
  BY DEF Table
<1>8. m = Step(m)
  <2> HIDE DEF D, Step
  <2>1. QED BY <1>5, <1>6, <1>7
<1>9. QED BY <1>8

LEMMA GlobTable ==
    ASSUME NEW body, NEW text, Len(body) \in Nat, Len(text) \in Nat, NEW toEnd
    PROVE  \E m : /\ m = Table(body, text, toEnd, Len(body), Len(text), m)
                  /\ Glob(body, text, toEnd) = m[<<1, 1>>]
<1> DEFINE Good(m) == m = Table(body, text, toEnd, Len(body), Len(text), m)
           c == CHOOSE m : Good(m)
<1>1. Glob(body, text, toEnd) = c[<<1, 1>>]
  BY DEF Glob, Table, Cells
<1>2. \E m : Good(m)
  BY TableExists
<1>3. Good(c)
  <2> HIDE DEF Good
  <2>1. QED BY <1>2
<1>4. QED BY <1>1, <1>3
-----------------------------------------------------------------------------
(* What Glob decides: whether the text can be cut into one piece per       *)
(* character of the pattern.  CutsFrom(i, j) are the cuts of what is left  *)
(* of the text at j for what is left of the pattern at i.                  *)
Piece(body, text, i, a, b) ==
    \/ body[i] = "*" /\ a <= b
    \/ b = a + 1 /\ body[i] = text[b]

CutsFrom(body, text, L, T, i, j) ==
    {cut \in [i .. L + 1 -> 0 .. T] :
        /\ cut[i] = j - 1
        /\ \A k \in i .. L : Piece(body, text, k, cut[k], cut[k + 1])}

Aligned(body, text, toEnd, L, T, i, j) ==
    \E cut \in CutsFrom(body, text, L, T, i, j) : toEnd => cut[L + 1] = T

LEMMA AlignedEnd ==
    ASSUME NEW body, NEW text, NEW toEnd \in BOOLEAN, NEW L \in Nat, NEW T \in Nat,
           NEW j \in 1 .. T + 1
    PROVE  Aligned(body, text, toEnd, L, T, L + 1, j) <=> (~toEnd \/ j > T)
<1> DEFINE cut == [k \in L + 1 .. L + 1 |-> j - 1]
<1>1. cut \in CutsFrom(body, text, L, T, L + 1, j) /\ cut[L + 1] = j - 1
  BY DEF CutsFrom
<1>2. \A c \in CutsFrom(body, text, L, T, L + 1, j) : c[L + 1] = j - 1
  BY DEF CutsFrom
<1> HIDE DEF cut
<1>3. j - 1 = T <=> j > T
  OBVIOUS
<1>4. QED BY <1>1, <1>2, <1>3 DEF Aligned

(* The first piece, and an alignment of the rest.                          *)
LEMMA AlignedStep ==
    ASSUME NEW body, NEW text, NEW toEnd \in BOOLEAN, NEW L \in Nat, NEW T \in Nat,
           NEW i \in 1 .. L, NEW j \in 1 .. T + 1
    PROVE  Aligned(body, text, toEnd, L, T, i, j) <=>
           \E n \in 0 .. T : Piece(body, text, i, j - 1, n)
                             /\ Aligned(body, text, toEnd, L, T, i + 1, n + 1)
<1>1. ASSUME NEW cut \in CutsFrom(body, text, L, T, i, j), toEnd => cut[L + 1] = T
      PROVE  \E n \in 0 .. T : Piece(body, text, i, j - 1, n)
                               /\ Aligned(body, text, toEnd, L, T, i + 1, n + 1)
  <2> DEFINE rest == [k \in i + 1 .. L + 1 |-> cut[k]]
  <2>1. cut \in [i .. L + 1 -> 0 .. T] /\ cut[i] = j - 1
        /\ \A k \in i .. L : Piece(body, text, k, cut[k], cut[k + 1])
    BY DEF CutsFrom
  <2>2. i + 1 \in i .. L + 1 /\ L + 1 \in i + 1 .. L + 1 /\ i \in i .. L
    OBVIOUS
  <2>3. rest \in [i + 1 .. L + 1 -> 0 .. T]
    BY <2>1
  <2>4. ASSUME NEW k \in i + 1 .. L PROVE Piece(body, text, k, rest[k], rest[k + 1])
    <3>1. k \in i .. L /\ k \in i + 1 .. L + 1 /\ k + 1 \in i + 1 .. L + 1
      OBVIOUS
    <3>2. rest[k] = cut[k] /\ rest[k + 1] = cut[k + 1]
      BY <3>1
    <3>3. QED BY <2>1, <3>1, <3>2
  <2>5. cut[i + 1] \in 0 .. T /\ rest[i + 1] = (cut[i + 1] + 1) - 1
    BY <2>1, <2>2
  <2>6. rest[L + 1] = cut[L + 1]
    BY <2>2
  <2> HIDE DEF rest
  <2>7. rest \in CutsFrom(body, text, L, T, i + 1, cut[i + 1] + 1)
    BY <2>3, <2>4, <2>5 DEF CutsFrom
  <2>8. Aligned(body, text, toEnd, L, T, i + 1, cut[i + 1] + 1)
    BY <1>1, <2>6, <2>7 DEF Aligned
  <2>9. Piece(body, text, i, j - 1, cut[i + 1])
    BY <2>1, <2>2
  <2>10. QED BY <2>5, <2>8, <2>9
<1>2. ASSUME NEW n \in 0 .. T, Piece(body, text, i, j - 1, n),
             NEW rest \in CutsFrom(body, text, L, T, i + 1, n + 1), toEnd => rest[L + 1] = T
      PROVE  Aligned(body, text, toEnd, L, T, i, j)
  <2> DEFINE cut == [k \in i .. L + 1 |-> IF k = i THEN j - 1 ELSE rest[k]]
  <2>1. rest \in [i + 1 .. L + 1 -> 0 .. T] /\ rest[i + 1] = n
        /\ \A k \in i + 1 .. L : Piece(body, text, k, rest[k], rest[k + 1])
    BY DEF CutsFrom
  <2>2. cut \in [i .. L + 1 -> 0 .. T]
    BY <2>1
  <2>3. cut[i] = j - 1 /\ cut[i + 1] = n /\ cut[L + 1] = rest[L + 1]
    BY <2>1
  <2>4. ASSUME NEW k \in i .. L PROVE Piece(body, text, k, cut[k], cut[k + 1])
    <3>1. CASE k = i
      BY <1>2, <2>3, <3>1
    <3>2. CASE k # i
      <4>1. k \in i + 1 .. L /\ k \in i .. L + 1 /\ k + 1 \in i .. L + 1 /\ k + 1 # i
        BY <3>2
      <4>2. cut[k] = rest[k] /\ cut[k + 1] = rest[k + 1]
        BY <3>2, <4>1
      <4>3. QED BY <2>1, <4>1, <4>2
    <3>3. QED BY <3>1, <3>2
  <2> HIDE DEF cut
  <2>5. cut \in CutsFrom(body, text, L, T, i, j)
    BY <2>2, <2>3, <2>4 DEF CutsFrom
  <2>6. QED BY <1>2, <2>3, <2>5 DEF Aligned
<1>3. QED BY <1>1, <1>2 DEF Aligned

(* The step in the form of the table: a "*" takes nothing, or takes one    *)
(* character and stays; a literal takes the character it equals.           *)
LEMMA AlignedCell ==
    ASSUME NEW body, NEW text, NEW toEnd \in BOOLEAN, NEW L \in Nat, NEW T \in Nat,
           NEW i \in 1 .. L, NEW j \in 1 .. T + 1
    PROVE  /\ body[i] = "*" =>
                 (Aligned(body, text, toEnd, L, T, i, j) <=>
                     \/ Aligned(body, text, toEnd, L, T, i + 1, j)
                     \/ j <= T /\ Aligned(body, text, toEnd, L, T, i, j + 1))
           /\ body[i] # "*" =>
                 (Aligned(body, text, toEnd, L, T, i, j) <=>
                     /\ j <= T /\ body[i] = text[j]
                     /\ Aligned(body, text, toEnd, L, T, i + 1, j + 1))
<1> DEFINE A(k, n) == Aligned(body, text, toEnd, L, T, k, n)
<1>1. A(i, j) <=> \E n \in 0 .. T : Piece(body, text, i, j - 1, n) /\ A(i + 1, n + 1)
  BY AlignedStep
<1>2. ASSUME j <= T
      PROVE  A(i, j + 1) <=> \E n \in 0 .. T : Piece(body, text, i, j, n) /\ A(i + 1, n + 1)
  <2>1. j + 1 \in 1 .. T + 1 /\ (j + 1) - 1 = j
    BY <1>2
  <2>2. QED BY <2>1, AlignedStep
<1>3. j - 1 \in 0 .. T /\ (j - 1) + 1 = j /\ (j <= T => j \in 0 .. T)
  OBVIOUS
<1> HIDE DEF A
<1>4. CASE body[i] = "*"
  <2>1. ASSUME A(i, j) PROVE A(i + 1, j) \/ (j <= T /\ A(i, j + 1))
    <3>1. PICK n \in 0 .. T : Piece(body, text, i, j - 1, n) /\ A(i + 1, n + 1)
      BY <1>1, <2>1
    <3>2. n = j - 1 \/ n >= j
      BY <3>1 DEF Piece
    <3>3. CASE n = j - 1
      BY <1>3, <3>1, <3>3
    <3>4. CASE n >= j
      <4>1. j <= T /\ Piece(body, text, i, j, n)
        BY <1>4, <3>4 DEF Piece
      <4>2. QED BY <1>2, <3>1, <4>1
    <3>5. QED BY <3>2, <3>3, <3>4
  <2>2. ASSUME A(i + 1, j) PROVE A(i, j)
    <3>1. Piece(body, text, i, j - 1, j - 1)
      BY <1>4 DEF Piece
    <3>2. QED BY <1>1, <1>3, <2>2, <3>1
  <2>3. ASSUME j <= T, A(i, j + 1) PROVE A(i, j)
    <3>1. PICK n \in 0 .. T : Piece(body, text, i, j, n) /\ A(i + 1, n + 1)
      BY <1>2, <2>3
    <3>2. Piece(body, text, i, j - 1, n)
      BY <1>4, <3>1 DEF Piece
    <3>3. QED BY <1>1, <3>1, <3>2
  <2>4. A(i, j) <=> A(i + 1, j) \/ (j <= T /\ A(i, j + 1))
    BY <2>1, <2>2, <2>3
  <2>5. QED BY <1>4, <2>4, Zenon DEF A
<1>5. CASE body[i] # "*"
  <2>1. ASSUME NEW n \in 0 .. T
        PROVE  Piece(body, text, i, j - 1, n) <=> n = j /\ body[i] = text[j]
    BY <1>5 DEF Piece
  <2>2. A(i, j) <=> j <= T /\ body[i] = text[j] /\ A(i + 1, j + 1)
    BY <1>1, <1>3, <2>1
  <2>3. QED BY <1>5, <2>2, Zenon DEF A
<1>6. QED BY <1>4, <1>5

(* Glob matches exactly when pattern and text align.                       *)
LEMMA GlobAligned ==
    ASSUME NEW body, NEW text, Len(body) \in Nat, Len(text) \in Nat, NEW toEnd \in BOOLEAN
    PROVE  Glob(body, text, toEnd) <=> Aligned(body, text, toEnd, Len(body), Len(text), 1, 1)
<1> DEFINE L == Len(body)
           T == Len(text)
           A(i, j) == Aligned(body, text, toEnd, L, T, i, j)
<1>1. PICK m : m = Table(body, text, toEnd, L, T, m) /\ Glob(body, text, toEnd) = m[<<1, 1>>]
  BY GlobTable
<1> DEFINE Right(i, j) == m[<<i, j>>] <=> A(i, j)
           Rest(i, j) == (L + 1 - i) + (T + 1 - j)
           S == {n \in Nat : \A i \in 1 .. L + 1, j \in 1 .. T + 1 :
                                Rest(i, j) <= n => Right(i, j)}
<1>2. L \in Nat /\ T \in Nat
  OBVIOUS
<1> HIDE DEF L, T, A
<1>3. ASSUME NEW j \in 1 .. T + 1 PROVE Right(L + 1, j)
  <2>1. <<L + 1, j>> \in Cells(L, T) /\ L + 1 > L
    BY <1>2 DEF Cells
  <2>2. m[<<L + 1, j>>] <=> (~toEnd \/ j > T)
    BY <1>1, <2>1 DEF Table
  <2>3. A(L + 1, j) <=> (~toEnd \/ j > T)
    BY <1>2, AlignedEnd DEF A
  <2>4. QED BY <2>2, <2>3
<1>4. ASSUME NEW i \in 1 .. L, NEW j \in 1 .. T + 1, Right(i + 1, j),
             j <= T => Right(i, j + 1) /\ Right(i + 1, j + 1)
      PROVE  Right(i, j)
  <2>1. <<i, j>> \in Cells(L, T) /\ ~(i > L)
    BY <1>2 DEF Cells
  <2>2. m[<<i, j>>] <=>
           \/ body[i] = "*" /\ m[<<i + 1, j>>]
           \/ j <= T /\ body[i] \in {"*", text[j]} /\ m[<<IF body[i] = "*" THEN i ELSE i + 1, j + 1>>]
    <3>1. m[<<i, j>>] = Table(body, text, toEnd, L, T, m)[<<i, j>>]
      BY <1>1, Zenon
    <3>2. Table(body, text, toEnd, L, T, m)[<<i, j>>] =
           (\/ body[i] = "*" /\ m[<<i + 1, j>>]
            \/ j <= T /\ body[i] \in {"*", text[j]} /\ m[<<IF body[i] = "*" THEN i ELSE i + 1, j + 1>>])
      BY <2>1 DEF Table
    <3>3. QED BY <3>1, <3>2
  <2>3. /\ body[i] = "*" => (A(i, j) <=> A(i + 1, j) \/ (j <= T /\ A(i, j + 1)))
        /\ body[i] # "*" =>
              (A(i, j) <=> j <= T /\ body[i] = text[j] /\ A(i + 1, j + 1))
    <3> HIDE DEF Right, Rest, S
    <3>1. (body[i] = "*" =>
                 (Aligned(body, text, toEnd, L, T, i, j) <=>
                     \/ Aligned(body, text, toEnd, L, T, i + 1, j)
                     \/ j <= T /\ Aligned(body, text, toEnd, L, T, i, j + 1)))
      BY <1>2, AlignedCell
    <3>2. (body[i] # "*" =>
                 (Aligned(body, text, toEnd, L, T, i, j) <=>
                     /\ j <= T /\ body[i] = text[j]
                     /\ Aligned(body, text, toEnd, L, T, i + 1, j + 1)))
      BY <1>2, AlignedCell
    <3>3. QED BY <3>1, <3>2 DEF A
  <2>4. CASE body[i] = "*"
    BY <1>4, <2>2, <2>3, <2>4
  <2>5. CASE body[i] # "*"
    BY <1>4, <2>2, <2>3, <2>5
  <2>6. QED BY <2>4, <2>5
<1>5. 0 \in S
  <2>1. \A i \in 1 .. L + 1, j \in 1 .. T + 1 : Rest(i, j) <= 0 => i = L + 1
    BY <1>2
  <2> HIDE DEF Right
  <2>2. QED BY <1>3, <2>1
<1>6. ASSUME NEW n \in Nat, n \in S PROVE n + 1 \in S
  <2> HIDE DEF Right
  <2> SUFFICES ASSUME NEW i \in 1 .. L + 1, NEW j \in 1 .. T + 1, Rest(i, j) <= n + 1
               PROVE  Right(i, j)
    OBVIOUS
  <2>1. CASE i = L + 1
    BY <1>3, <2>1
  <2>2. CASE i # L + 1
    <3>1. i \in 1 .. L /\ i + 1 \in 1 .. L + 1 /\ Rest(i + 1, j) <= n
      BY <1>2, <2>2
    <3>2. j <= T => /\ j + 1 \in 1 .. T + 1
                    /\ Rest(i, j + 1) <= n /\ Rest(i + 1, j + 1) <= n
      BY <1>2, <3>1
    <3> HIDE DEF Rest
    <3>3. QED BY <1>4, <1>6, <3>1, <3>2
  <2>3. QED BY <2>1, <2>2
<1>7. Nat \subseteq S
  <2> HIDE DEF S
  <2>1. QED BY <1>5, <1>6, SetInduction
<1>8. L + T \in S /\ Rest(1, 1) <= L + T /\ 1 \in 1 .. L + 1 /\ 1 \in 1 .. T + 1
  <2> HIDE DEF S
  <2>1. QED BY <1>2, <1>7
<1>9. Right(1, 1)
  <2> HIDE DEF Right, Rest
  <2>1. QED BY <1>8
<1>10. QED BY <1>1, <1>9 DEF A, L, T
(* A pattern scores when one of its regular expressions matches.           *)
LEMMA ScoreMeansMatch ==
    ASSUME NEW pattern, IsList(pattern), NEW path
    PROVE  ScorePathPattern(pattern, path) >= 0 <=>
           \E regex \in Regexes(pattern) : Glob(regex[1], path, regex[2])
<1> DEFINE score == LiteralLength(NormalizedPattern(pattern))
           matched == \E regex \in Regexes(pattern) : Glob(regex[1], path, regex[2])
<1>1. score \in Nat
  BY NormalizedIsList, LiteralLengthTyped
<1>2. ScorePathPattern(pattern, path) = IF matched THEN score ELSE -1
  BY DEF ScorePathPattern
<1> HIDE DEF score, matched
<1>3. QED BY <1>1, <1>2 DEF matched

LEMMA RegexIs ==
    ASSUME NEW regex, NEW body, NEW toEnd, regex = <<body, toEnd>>, NEW path
    PROVE  Glob(regex[1], path, regex[2]) <=> Glob(body, path, toEnd)
<1>1. regex[1] = body /\ regex[2] = toEnd
  OBVIOUS
<1>2. QED BY <1>1, Zenon

(* A pattern with a "/" appended matches a prefix of the text exactly when *)
(* the pattern itself aligns with what comes before a "/".                 *)
LEMMA AppendedSlash ==
    ASSUME NEW body, IsList(body), NEW text, NEW T \in Nat
    PROVE  Aligned(Append(body, "/"), text, FALSE, Len(body) + 1, T, 1, 1) <=>
           \E cut \in CutsFrom(body, text, Len(body), T, 1, 1) :
               cut[Len(body) + 1] < T /\ text[cut[Len(body) + 1] + 1] = "/"
<1> DEFINE L == Len(body)
           more == Append(body, "/")
<1>1. L \in Nat
  BY ListFacts
<1>2. more[L + 1] = "/" /\ \A k \in 1 .. L : more[k] = body[k]
  BY DEF IsList
<1> HIDE DEF L, more
<1>3. ASSUME NEW long \in CutsFrom(more, text, L + 1, T, 1, 1)
      PROVE  \E cut \in CutsFrom(body, text, L, T, 1, 1) :
                 cut[L + 1] < T /\ text[cut[L + 1] + 1] = "/"
  <2> DEFINE cut == [k \in 1 .. L + 1 |-> long[k]]
  <2>1. long \in [1 .. (L + 1) + 1 -> 0 .. T] /\ long[1] = 0
        /\ \A k \in 1 .. L + 1 : Piece(more, text, k, long[k], long[k + 1])
    BY DEF CutsFrom
  <2>2. cut \in [1 .. L + 1 -> 0 .. T] /\ cut[1] = 0
    BY <1>1, <2>1
  <2>3. ASSUME NEW k \in 1 .. L PROVE Piece(body, text, k, cut[k], cut[k + 1])
    <3>1. k \in 1 .. L + 1 /\ k + 1 \in 1 .. L + 1
      BY <1>1
    <3>2. Piece(more, text, k, long[k], long[k + 1]) /\ cut[k] = long[k] /\ cut[k + 1] = long[k + 1]
      BY <2>1, <3>1
    <3>3. QED BY <1>2, <3>2 DEF Piece
  <2>4. cut[L + 1] = long[L + 1]
    BY <1>1
  <2>5. /\ Piece(more, text, L + 1, long[L + 1], long[(L + 1) + 1])
        /\ long[L + 1] \in 0 .. T /\ long[(L + 1) + 1] \in 0 .. T
    BY <1>1, <2>1
  <2>6. long[L + 1] < T /\ text[long[L + 1] + 1] = "/"
    BY <1>2, <2>5 DEF Piece
  <2> HIDE DEF cut
  <2>7. cut \in CutsFrom(body, text, L, T, 1, 1)
    BY <2>2, <2>3 DEF CutsFrom
  <2>8. QED BY <2>4, <2>6, <2>7
<1>4. ASSUME NEW cut \in CutsFrom(body, text, L, T, 1, 1),
             cut[L + 1] < T, text[cut[L + 1] + 1] = "/"
      PROVE  \E long : long \in CutsFrom(more, text, L + 1, T, 1, 1)
  <2> DEFINE last == cut[L + 1]
             long == [k \in 1 .. (L + 1) + 1 |-> IF k <= L + 1 THEN cut[k] ELSE last + 1]
  <2>1. cut \in [1 .. L + 1 -> 0 .. T] /\ cut[1] = 0 /\ last \in 0 .. T
        /\ \A k \in 1 .. L : Piece(body, text, k, cut[k], cut[k + 1])
    BY <1>1 DEF CutsFrom
  <2>2. last + 1 \in 0 .. T
    BY <1>4, <2>1
  <2>3. \A k \in 1 .. L + 1 : long[k] = cut[k]
    BY <1>1
  <2>4. long[(L + 1) + 1] = last + 1
    BY <1>1
  <2>5. long \in [1 .. (L + 1) + 1 -> 0 .. T]
    <3> HIDE DEF last
    <3>1. \A k \in 1 .. (L + 1) + 1 : k <= L + 1 => k \in 1 .. L + 1
      BY <1>1
    <3>2. QED BY <2>1, <2>2, <3>1
  <2> HIDE DEF long
  <2>6. ASSUME NEW k \in 1 .. L + 1 PROVE Piece(more, text, k, long[k], long[k + 1])
    <3>1. CASE k = L + 1
      BY <1>2, <1>4, <2>3, <2>4, <3>1 DEF Piece
    <3>2. CASE k # L + 1
      <4>1. k \in 1 .. L /\ k + 1 \in 1 .. L + 1
        BY <1>1, <3>2
      <4>2. Piece(body, text, k, long[k], long[k + 1])
        BY <2>1, <2>3, <4>1
      <4>3. QED BY <1>2, <4>1, <4>2 DEF Piece
    <3>3. QED BY <3>1, <3>2
  <2>7. long[1] = 1 - 1
    BY <1>1, <2>1, <2>3
  <2>8. long \in CutsFrom(more, text, L + 1, T, 1, 1)
    BY <2>5, <2>6, <2>7 DEF CutsFrom
  <2>9. QED BY <2>8
<1>5. Aligned(more, text, FALSE, L + 1, T, 1, 1) <=>
         \E cut \in CutsFrom(body, text, L, T, 1, 1) :
             cut[L + 1] < T /\ text[cut[L + 1] + 1] = "/"
  BY <1>3, <1>4 DEF Aligned
<1>6. QED BY <1>5 DEF L, more
=============================================================================
