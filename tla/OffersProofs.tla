---------------------------- MODULE OffersProofs ----------------------------
(***************************************************************************)
(* Proofs about the offers of the merchants: what a search links and a     *)
(* check accepts (Matching), what an offer is worth (Valuation), and what  *)
(* a merchant's cart is told to hold (MerchantCarts), for all products,    *)
(* ads, prices, fees, thresholds and callers.                              *)
(***************************************************************************)
EXTENDS Matching, Valuation, MerchantCarts, TLAPS, SequenceTheorems,
        NaturalsInduction, WellFoundedInduction

-----------------------------------------------------------------------------
(* The matchers: what one links, the other one lets be bought, but for     *)
(* codes that the search did not hold against the product.                 *)

\* A code that a check reads stands against the product, and the search did not see
\* it or passed it over.
Excused(product, page, ean, mpn) ==
  LET eans == {product.ean, product.gtin} IN
  \/ /\ Refutes(eans, {ean})
     /\ ean # page.ean \/ product.ean = NoId
  \/ /\ Refutes({product.mpn}, {mpn}) /\ ~Conclusive(eans, {ean})
     /\ mpn # page.mpn \/ BothKnown(product.ean, page.ean)

\* What is compared is known.
LEMMA ConclusiveKnows ==
  ASSUME NEW ours, NEW id, Conclusive(ours, {id})
  PROVE  id # NoId /\ \E code \in ours : code # NoId
BY DEF Conclusive, Normalized

\* A code that is compared with itself, among others, is met.
LEMMA SameCodeMeets ==
  ASSUME NEW ours, NEW id \in ours, Conclusive(ours, {id})
  PROVE  Meet(ours, {id})
BY DEF Conclusive, Meet, Normalized

\* The two matchers agree on a page of which a check reads no code that excuses it.
LEMMA MatchersAgree ==
  ASSUME NEW product \in AnyProduct, NEW page \in AnyPage, NEW ean, NEW mpn,
         Classify(product, page) = "auto_link", ~Excused(product, page, ean, mpn)
  PROVE  Tradable(Matched(product, [page EXCEPT !.ean = ean, !.mpn = mpn], TRUE))
<1> DEFINE eans  == {product.ean, product.gtin}
           sight == [page EXCEPT !.ean = ean, !.mpn = mpn]
<1>1. /\ Tradable(Matches(100)) /\ Tradable(Matches(90)) /\ Tradable(Matches(80))
  BY DEF Tradable, Matches, MinFinancialMatchConfidence
<1>2. sight.ean = ean /\ sight.mpn = mpn
  BY DEF AnyPage
<1> HIDE DEF sight
<1>3. CASE Conclusive(eans, {ean})
  <2>1. Meet(eans, {ean})
    <3>1. SUFFICES ASSUME ~Meet(eans, {ean}) PROVE FALSE
      OBVIOUS
    <3>2. ean = page.ean /\ product.ean # NoId
      BY <1>3, <3>1 DEF Excused, Refutes
    <3>3. BothKnown(product.ean, page.ean)
      BY <1>3, <3>2, ConclusiveKnows DEF BothKnown
    <3>4. product.ean = ean
      BY <3>2, <3>3 DEF Classify
    <3> QED BY <1>3, <3>1, <3>4, SameCodeMeets
  <2> QED BY <1>1, <1>2, <1>3, <2>1 DEF Matched
<1>4. CASE ~Conclusive(eans, {ean}) /\ Conclusive({product.mpn}, {mpn})
  <2>1. Meet({product.mpn}, {mpn})
    <3>1. SUFFICES ASSUME ~Meet({product.mpn}, {mpn}) PROVE FALSE
      OBVIOUS
    <3>2. mpn = page.mpn /\ ~BothKnown(product.ean, page.ean)
      BY <1>4, <3>1 DEF Excused, Refutes
    <3>3. BothKnown(product.mpn, page.mpn)
      BY <1>4, <3>2, ConclusiveKnows DEF BothKnown
    <3>4. product.mpn = mpn
      BY <3>2, <3>3 DEF Classify
    <3> QED BY <1>4, <3>1, <3>4, SameCodeMeets
  <2> QED BY <1>1, <1>2, <1>4, <2>1 DEF Matched
<1>5. CASE ~Conclusive(eans, {ean}) /\ ~Conclusive({product.mpn}, {mpn})
  BY <1>1, <1>2, <1>5 DEF Matched
<1> QED BY <1>3, <1>4, <1>5 DEF sight

-----------------------------------------------------------------------------

\* What was linked has been classified, and what was seen has been matched.
MatchInv ==
  /\ wanted \in AnyProduct /\ onPage \in AnyPage
  /\ linked = "auto_link" => Classify(wanted, onPage) = "auto_link"
  /\ \/ seen = Unchecked
     \/ /\ seen.ean \in Ean /\ seen.mpn \in Mpn
        /\ LET page   == [onPage EXCEPT !.ean = seen.ean, !.mpn = seen.mpn]
               result == Matched(wanted, page, seen.here)
           IN seen.matched = result.matched /\ seen.confidence = result.confidence

\* Nothing is linked or seen at first.
LEMMA MatchInvInit ==
  ASSUME NEW product \in AnyProduct, NEW page \in AnyPage, MatchInit(product, page)
  PROVE  MatchInv
BY DEF MatchInit, MatchInv

\* A search links by the first matcher, a check judges by the second.
LEMMA MatchInvStep == MatchInv /\ [MatchNext]_matchVars => MatchInv'
<1> SUFFICES ASSUME MatchInv, [MatchNext]_matchVars PROVE MatchInv'
  OBVIOUS
<1>1. CASE Link
  BY <1>1 DEF Link, MatchInv
<1>2. ASSUME NEW ean \in Ean, NEW mpn \in Mpn, NEW here \in BOOLEAN,
             SeePage(ean, mpn, here)
      PROVE  MatchInv'
  BY <1>2 DEF SeePage, MatchInv
<1>3. CASE UNCHANGED matchVars
  BY <1>3 DEF matchVars, MatchInv
<1> QED BY <1>1, <1>2, <1>3 DEF MatchNext

\* The lemma on the matchers, in the words of the state.
LEMMA MatchInvImplies == MatchInv => LinksAreTradable
<1> SUFFICES ASSUME MatchInv, linked = "auto_link", seen # Unchecked, seen.here,
                    ~Excused(wanted, onPage, seen.ean, seen.mpn)
             PROVE  Tradable(seen)
  BY DEF LinksAreTradable, Excused
<1> DEFINE page == [onPage EXCEPT !.ean = seen.ean, !.mpn = seen.mpn]
<1>1. LET result == Matched(wanted, page, seen.here)
      IN seen.matched = result.matched /\ seen.confidence = result.confidence
  BY DEF MatchInv
<1>2. Tradable(Matched(wanted, page, TRUE))
  BY MatchersAgree DEF MatchInv
<1> HIDE DEF page
<1>3. Matched(wanted, page, seen.here) = Matched(wanted, page, TRUE)
  BY DEF Matched
<1> QED BY <1>1, <1>2, <1>3 DEF Tradable

\* Every page that discovery links is good enough for a purchase at each check that
\* finds it (discovery/matcher.py, products/matcher.py), but for a code that the check
\* reads and that the search did not see, does not read or passed over.
THEOREM LinkedPagesTradable == MatchSpec => []LinksAreTradable
<1>1. (\E product \in AnyProduct, page \in AnyPage : MatchInit(product, page))
        => MatchInv
  BY MatchInvInit
<1> QED BY <1>1, MatchInvStep, MatchInvImplies, PTL DEF MatchSpec

Verdict == {"no", "auto_link", "candidate", "no_match"}

\* What the first matcher says.
LEMMA VerdictsAre ==
  ASSUME NEW product, NEW page PROVE Classify(product, page) \in Verdict
BY DEF Classify, ByNames, ByName, Verdict

\* What the second one says.
LEMMA ResultsAre ==
  ASSUME NEW product, NEW page, NEW here
  PROVE  /\ Matched(product, page, here).matched \in BOOLEAN
         /\ Matched(product, page, here).confidence \in 0..100
BY DEF Matched, Matches, Differs

\* The state of the matchers (discovery/matcher.py, products/matcher.py) has its type.
THEOREM MatchTypesHold == MatchSpec => []MatchTypeOK
<1> DEFINE Typed == MatchInv /\ linked \in Verdict
<1>1. (\E product \in AnyProduct, page \in AnyPage : MatchInit(product, page)) => Typed
  BY MatchInvInit DEF MatchInit, Verdict
<1>2. Typed /\ [MatchNext]_matchVars => Typed'
  BY MatchInvStep, VerdictsAre DEF MatchNext, Link, SeePage, matchVars, Verdict
<1>3. Typed => MatchTypeOK
  <2> SUFFICES ASSUME Typed PROVE MatchTypeOK
    OBVIOUS
  <2>1. onPage.ean \in Ean /\ onPage.mpn \in Mpn /\ onPage.name \in Name
    BY DEF MatchInv, AnyPage
  <2>2. seen.matched \in BOOLEAN /\ seen.confidence \in 0..100
    <3>1. CASE seen = Unchecked
      BY <3>1 DEF Unchecked
    <3>2. CASE seen # Unchecked
      <4> DEFINE page == [onPage EXCEPT !.ean = seen.ean, !.mpn = seen.mpn]
      <4>1. /\ seen.matched = Matched(wanted, page, seen.here).matched
            /\ seen.confidence = Matched(wanted, page, seen.here).confidence
        BY <3>2 DEF MatchInv
      <4> HIDE DEF page
      <4> QED BY <4>1, ResultsAre
    <3> QED BY <3>1, <3>2
  <2> QED BY <2>1, <2>2 DEF MatchTypeOK, Verdict
<1> HIDE DEF Typed
<1> QED BY <1>1, <1>2, <1>3, PTL DEF MatchSpec

-----------------------------------------------------------------------------
(* The value of an offer. *)

Price == Nat \ {0}

\* Sorted, and not empty.
Ordered(s) == s \in Seq(Price) /\ s # <<>> /\ Sorted(s)

EstimateFits(e) ==
  \/ e = NoEstimate
  \/ /\ Ordered(e.sample) /\ e.price = Median(e.sample) /\ e.confidence \in Confidence
     /\ e.confidence # "low" => Len(e.sample) >= MediumSample

Says == [mode : {"manual", "market"}, typed : TypedPrice \cup {NoPrice},
         trusted : BOOLEAN]

EntryFits(entry) ==
  \/ entry = NoEntry
  \/ /\ EstimateFits(entry.estimate) /\ entry.seen \in Nat
     /\ entry.expires = entry.seen + ResaleTTL

\* The prices that are said, and the entry of the cache.
ValuationTypes ==
  /\ ruleSays \in Says /\ productSays \in Says
  /\ EntryFits(cached)
  /\ valuationClock \in 0..MaxValuationClock

\* A verdict has all its fields.
VerdictFits ==
  verdict = [resale |-> verdict.resale, estimate |-> verdict.estimate,
             confidence |-> verdict.confidence, seen |-> verdict.seen,
             read |-> verdict.read, net |-> verdict.net,
             available |-> verdict.available, match |-> verdict.match,
             required |-> verdict.required,
             recommendation |-> verdict.recommendation, tier |-> verdict.tier]

ValuationInv ==
  /\ ValuationTypes /\ VerdictFits /\ verdict.net \in Int
  /\ BuysRestOnTheMarket /\ TiersFollowProfits

\* A set of numbers has a least one.
LEMMA LeastNumber ==
  ASSUME NEW T \in SUBSET Nat, T # {}
  PROVE  \E x \in T : \A y \in T : x <= y
<1>1. \E x \in T : \A y \in T : ~ (<<y, x>> \in OpToRel(<, Nat))
  BY NatLessThanWellFounded, WFMin
<1>2. PICK x \in T : \A y \in T : ~ (<<y, x>> \in OpToRel(<, Nat))
  BY <1>1
<1>3. ASSUME NEW y \in T, ~ (x <= y) PROVE FALSE
  <2>1. <<y, x>> \in OpToRel(<, Nat)
    BY <1>3 DEF OpToRel
  <2> QED BY <1>2, <2>1, Zenon
<1> QED BY <1>3

\* A set of indices has a first and a last one.
LEMMA FirstAndLast ==
  ASSUME NEW n \in Nat, NEW S \in SUBSET (1..n), S # {}
  PROVE  /\ Min(S) \in S /\ \A i \in S : Min(S) <= i
         /\ Max(S) \in S /\ \A i \in S : i <= Max(S)
<1>1. S \in SUBSET Nat
  OBVIOUS
<1>2. \E i \in S : \A j \in S : i <= j
  BY <1>1, LeastNumber
<1>3. \E i \in S : \A j \in S : j <= i
  <2> DEFINE T == {n - i : i \in S}
  <2>1. T \in SUBSET Nat /\ T # {}
    <3>1. PICK k \in S : TRUE
      OBVIOUS
    <3>2. n - k \in T
      OBVIOUS
    <3>3. \A other \in S : n - other \in Nat
      OBVIOUS
    <3> QED BY <3>2, <3>3
  <2> HIDE DEF T
  <2>2. PICK t \in T : \A u \in T : t <= u
    BY <2>1, LeastNumber
  <2> USE DEF T
  <2>3. PICK i \in S : t = n - i
    OBVIOUS
  <2>4. ASSUME NEW j \in S PROVE j <= i
    <3>1. n - j \in T
      OBVIOUS
    <3>2. n - i <= n - j
      BY <2>2, <2>3, <3>1
    <3> QED BY <1>1, <3>2
  <2> QED BY <2>4
<1>4. Min(S) \in S /\ \A i \in S : Min(S) <= i
  BY <1>2 DEF Min
<1>5. Max(S) \in S /\ \A i \in S : i <= Max(S)
  BY <1>3 DEF Max
<1> QED BY <1>4, <1>5

\* What is kept of sorted prices is sorted, and something.
LEMMA KeptIsOrdered == ASSUME NEW s, Ordered(s) PROVE Ordered(Kept(s))
<1> DEFINE q1     == Quartile(s, 1)
           q3     == Quartile(s, 3)
           iqr    == q3 - q1
           within == {i \in DOMAIN s : /\ 8 * s[i] >= 2 * q1 - 3 * iqr
                                       /\ 8 * s[i] <= 2 * q3 + 3 * iqr}
           first  == Min(within)
           last   == Max(within)
<1>1. Kept(s) = s \/ (within # {} /\ Kept(s) = SubSeq(s, first, last))
  BY DEF Kept
<1>2. CASE within # {} /\ Kept(s) = SubSeq(s, first, last)
  <2>1. Len(s) \in Nat /\ within \in SUBSET (1..Len(s))
    BY DEF Ordered
  <2> HIDE DEF within
  <2>2. /\ first \in 1..Len(s) /\ last \in 1..Len(s) /\ first <= last
    BY <1>2, <2>1, FirstAndLast
  <2> HIDE DEF first, last
  <2>3. /\ SubSeq(s, first, last) \in Seq(Price)
        /\ Len(SubSeq(s, first, last)) = last - first + 1
        /\ \A i \in 1..(last - first + 1) : SubSeq(s, first, last)[i] = s[first + i - 1]
    BY <2>2 DEF Ordered
  <2>4. SubSeq(s, first, last) # <<>>
    BY <2>2, <2>3
  <2>5. Sorted(SubSeq(s, first, last))
    BY <2>2, <2>3 DEF Sorted, Ordered
  <2> QED BY <1>2, <2>3, <2>4, <2>5 DEF Ordered
<1> QED BY <1>1, <1>2

\* The median of sorted prices is one.
LEMMA MedianIsPrice == ASSUME NEW s, Ordered(s) PROVE Median(s) \in Price
<1> DEFINE n == Len(s)
           mid == n \div 2
<1>1. n \in Nat \ {0} /\ \A i \in 1..n : s[i] \in Price
  BY DEF Ordered
<1>2. CASE n % 2 = 1
  <2>1. mid + 1 \in 1..n
    BY <1>1, <1>2
  <2>2. Median(s) = 2 * s[mid + 1]
    BY <1>2 DEF Median
  <2> QED BY <1>1, <2>1, <2>2 DEF Price
<1>3. CASE n % 2 # 1
  <2>1. mid \in 1..n /\ mid + 1 \in 1..n
    BY <1>1, <1>3
  <2>2. Median(s) = s[mid] + s[mid + 1]
    BY <1>3 DEF Median
  <2> QED BY <1>1, <2>1, <2>2 DEF Price
<1> QED BY <1>2, <1>3

\* Of three prices or more, the median lies between two others than any one of them.
LEMMA MedianIsSurrounded ==
  ASSUME NEW s, Ordered(s), Len(s) >= 3, NEW i \in DOMAIN s
  PROVE  /\ \E low \in Without(s, i)  : 2 * low <= Median(s)
         /\ \E high \in Without(s, i) : Median(s) <= 2 * high
<1> DEFINE n == Len(s)
           mid == n \div 2
<1>1. /\ n \in Nat /\ n >= 3 /\ DOMAIN s = 1..n /\ \A j \in 1..n : s[j] \in Nat
      /\ \A j, k \in 1..n : j <= k => s[j] <= s[k]
  BY DEF Ordered, Price, Sorted
<1>2. CASE n % 2 = 1
  <2>1. mid + 1 \in 2..(n - 1)
    BY <1>1, <1>2
  <2>2. Median(s) = 2 * s[mid + 1]
    BY <1>2 DEF Median
  <2> DEFINE m == mid + 1
  <2> HIDE DEF mid
  <2>3. s[1] <= s[m] /\ s[m] <= s[n] /\ s[m] \in Nat /\ s[1] \in Nat /\ s[n] \in Nat
    BY <1>1, <2>1
  <2>4. \E j \in DOMAIN s \ {i} : 2 * s[j] <= Median(s)
    <3>1. 2 * s[m] <= Median(s) /\ 2 * s[1] <= Median(s)
      BY <2>2, <2>3
    <3>2. CASE i = 1
      <4>1. m \in DOMAIN s \ {i}
        BY <1>1, <2>1, <3>2
      <4> QED BY <3>1, <4>1
    <3>3. CASE i # 1
      <4>1. 1 \in DOMAIN s \ {i}
        BY <1>1, <3>3
      <4> QED BY <3>1, <4>1
    <3> QED BY <3>2, <3>3
  <2>5. \E j \in DOMAIN s \ {i} : Median(s) <= 2 * s[j]
    <3>1. Median(s) <= 2 * s[m] /\ Median(s) <= 2 * s[n]
      BY <2>2, <2>3
    <3>2. CASE i = n
      <4>1. m \in DOMAIN s \ {i}
        BY <1>1, <2>1, <3>2
      <4> QED BY <3>1, <4>1
    <3>3. CASE i # n
      <4>1. n \in DOMAIN s \ {i}
        BY <1>1, <3>3
      <4> QED BY <3>1, <4>1
    <3> QED BY <3>2, <3>3
  <2> QED BY <2>4, <2>5 DEF Without
<1>3. CASE n % 2 # 1
  <2>1. mid \in 2..n /\ mid + 1 \in 3..(n - 1)
    BY <1>1, <1>3
  <2>2. Median(s) = s[mid] + s[mid + 1]
    BY <1>3 DEF Median
  <2> HIDE DEF mid
  <2>6. mid + 1 \in DOMAIN s /\ mid + 1 < n
    BY <1>1, <2>1
  <2>3. /\ s[1] \in Nat /\ s[mid] \in Nat /\ s[mid + 1] \in Nat /\ s[n] \in Nat
        /\ s[1] <= s[mid] /\ s[mid] <= s[mid + 1] /\ s[mid + 1] <= s[n]
    BY <1>1, <2>1
  <2>4. \E j \in DOMAIN s \ {i} : 2 * s[j] <= Median(s)
    <3>1. 2 * s[mid] <= Median(s) /\ 2 * s[1] <= Median(s)
      BY <2>2, <2>3
    <3>2. CASE i = 1
      <4>1. mid \in DOMAIN s \ {i}
        BY <1>1, <2>1, <2>6, <3>2
      <4> QED BY <3>1, <4>1
    <3>3. CASE i # 1
      <4>1. 1 \in DOMAIN s \ {i}
        BY <1>1, <3>3
      <4> QED BY <3>1, <4>1
    <3> QED BY <3>2, <3>3
  <2>5. \E j \in DOMAIN s \ {i} : Median(s) <= 2 * s[j]
    <3>1. Median(s) <= 2 * s[mid + 1] /\ Median(s) <= 2 * s[n]
      BY <2>2, <2>3
    <3>2. CASE i = n
      <4>1. mid + 1 \in DOMAIN s \ {i}
        BY <1>1, <2>6, <3>2
      <4> QED BY <3>1, <4>1
    <3>3. CASE i # n
      <4>1. n \in DOMAIN s \ {i}
        BY <1>1, <3>3
      <4> QED BY <3>1, <4>1
    <3> QED BY <3>2, <3>3
  <2> QED BY <2>4, <2>5 DEF Without
<1> QED BY <1>2, <1>3

\* What a search finds, pooled, is sorted.
LEMMA FoundIsSorted ==
  ASSUME NEW found \in Search, NEW s \in Pooled(found), s # <<>>
  PROVE  Ordered(s)
<1>1. s = found.euro \/ s = found.foreign
  BY DEF Pooled
<1>2. CASE s = found.euro
  <2>1. s \in SeqOf(AdPrice, MaxAds) /\ Sorted(s)
    BY <1>2 DEF Search
  <2>2. PICK m \in 0..MaxAds : s \in [1..m -> AdPrice]
    BY <2>1 DEF SeqOf
  <2>3. m \in Nat /\ s \in [1..m -> Price]
    <3>1. AdPrice \subseteq Price /\ MaxAds \in Nat
      BY ValuationAssumption DEF Price
    <3>2. m \in Nat
      BY <3>1
    <3> QED BY <2>2, <3>1, <3>2
  <2>4. s \in Seq(Price)
    BY <2>3, SeqDef
  <2> QED BY <2>1, <2>4 DEF Ordered
<1>3. CASE s = found.foreign
  <2>1. PICK n \in 0..2 : s = [i \in 1..n |-> ForeignPrice]
    BY <1>3 DEF Search
  <2>2. n \in Nat /\ s \in [1..n -> Price] /\ ForeignPrice \in Nat
    BY <2>1, ValuationAssumption DEF Price
  <2>3. s \in Seq(Price)
    BY <2>2, SeqDef
  <2>4. Sorted(s)
    BY <2>1, <2>2 DEF Sorted
  <2> QED BY <2>3, <2>4 DEF Ordered
<1> QED BY <1>1, <1>2, <1>3

\* An estimate is the median of what is kept, and trusted by its size.
LEMMA EstimatesFit == ASSUME NEW e \in Estimates PROVE EstimateFits(e)
<1>1. PICK found \in Search, sold \in BOOLEAN :
        \E s \in Pooled(found) : e = EstimateFrom(s, sold)
  BY DEF Estimates
<1>2. PICK s \in Pooled(found) : e = EstimateFrom(s, sold)
  BY <1>1
<1>3. CASE s = <<>>
  BY <1>2, <1>3 DEF EstimateFrom, EstimateFits
<1>4. CASE s # <<>>
  <2> DEFINE kept == Kept(s)
             trust == ConfidenceIn(kept, sold)
  <2>1. Ordered(kept)
    BY <1>4, FoundIsSorted, KeptIsOrdered
  <2> HIDE DEF kept
  <2>2. trust \in Confidence
    BY DEF ConfidenceIn, Confidence
  <2>3. trust # "low" => ~(Len(kept) < MediumSample)
    BY DEF ConfidenceIn
  <2>4. Len(kept) \in Nat /\ MediumSample \in Nat
    BY <2>1, ValuationAssumption DEF Ordered
  <2> HIDE DEF trust
  <2>5. e = Estimate(Median(kept), kept, trust)
    BY <1>2, <1>4 DEF EstimateFrom, kept, trust
  <2> QED BY <2>1, <2>2, <2>3, <2>4, <2>5 DEF EstimateFits, Estimate
<1> QED BY <1>3, <1>4

\* An estimate has a price, or none is known.
LEMMA EstimatePrice ==
  ASSUME NEW e, EstimateFits(e)
  PROVE  /\ e.price \in Price \cup {NoPrice} /\ e.confidence \in Confidence
         /\ e.price # NoPrice => Ordered(e.sample) /\ e.price = Median(e.sample)
         /\ e.price # NoPrice /\ e.confidence # "low" => Len(e.sample) >= 3
<1>1. CASE e = NoEstimate
  BY <1>1 DEF NoEstimate, Estimate, Confidence
<1>2. CASE e # NoEstimate
  <2>1. /\ Ordered(e.sample) /\ e.price = Median(e.sample) /\ e.confidence \in Confidence
        /\ e.confidence # "low" => Len(e.sample) >= MediumSample
    BY <1>2 DEF EstimateFits
  <2>2. e.price \in Price
    BY <2>1, MedianIsPrice
  <2>3. Len(e.sample) \in Nat /\ MediumSample \in Nat /\ MediumSample >= 3
    BY <2>1, ValuationAssumption DEF Ordered
  <2> QED BY <2>1, <2>2, <2>3
<1> QED BY <1>1, <1>2

\* A score, and its parts, are numbers.
LEMMA ScoreParts ==
  /\ \A n \in Int : Clamped(n) \in 0..100
  /\ \A n : SampleScore(n) \in 0..100
  /\ \A c \in Confidence : ConfidenceScore(c) \in 20..100
  /\ \A c \in Confidence : Level(c) \in 0..2 /\ (Level(c) = 0 <=> c = "low")
<1>1. \A n \in Int : Clamped(n) \in 0..100
  BY DEF Clamped
<1>2. \A n : SampleScore(n) \in {100, 60, 30, 0}
  BY Zenon DEF SampleScore
<1>3. \A c \in Confidence : ConfidenceScore(c) \in 20..100
  BY DEF ConfidenceScore, Confidence
<1>4. \A c \in Confidence : Level(c) \in 0..2 /\ (Level(c) = 0 <=> c = "low")
  BY DEF Level, Confidence
<1> QED BY <1>1, <1>2, <1>3, <1>4

\* The two judgements of one offer agree.
LEMMA JudgementsAgree ==
  ASSUME NEW price \in OfferPrice, NEW resale \in Price,
         NEW confidence \in Confidence, NEW match \in {0, 50, 80, 100}, NEW sample,
         NEW available \in BOOLEAN, NEW required \in Confidence
  PROVE  LET net   == Net(price, resale)
             score == ScoreOf(price, resale, confidence, match, sample, available)
             buys  == Recommended(price, resale, confidence, required)
                        \in {"buy", "strong_buy"}
         IN /\ net \in Int
            /\ net < 0 => TierOf(score) = "ignore"
            /\ buys /\ available /\ match >= 80 => TierOf(score) # "ignore"
            /\ buys /\ required # "low" => confidence # "low"
<1> DEFINE net   == Net(price, resale)
           roi   == Roi(price, resale)
           margin == Margin(price, resale)
           raw   == RawScore(price, resale, confidence, match, sample)
           score == ScoreOf(price, resale, confidence, match, sample, available)
           status == StatusOf(price, resale)
           buys  == Recommended(price, resale, confidence, required)
                        \in {"buy", "strong_buy"}
<1>1. price \in Nat \ {0} /\ resale \in Nat \ {0} /\ resale # NoPrice
      /\ FeePct \in Nat /\ Costs \in Nat /\ MinProfit \in Nat /\ match \in Nat
  BY ValuationAssumption DEF Price
<1>2. net \in Int
  <2>1. resale * FeePct \in Nat
    BY <1>1
  <2>2. (resale * FeePct) \div 2 \in Nat
    BY <2>1
  <2> QED BY <1>1, <2>2 DEF Net, FixedCosts
<1> HIDE DEF net
<1>3. roi \in Int /\ margin \in Int /\ net \div 100 \in Int
  <2>1. roi = net \div price /\ margin = (2 * net) \div resale
    BY DEF Roi, Margin, net
  <2> QED BY <1>1, <1>2, <2>1
<1> HIDE DEF roi, margin
<1>4. raw \in Nat /\ raw >= 300 + 15 * match
  <2> DEFINE a == Clamped(roi)
             b == Clamped(net \div 100)
             c == Clamped(2 * margin)
             d == ConfidenceScore(confidence)
             e == SampleScore(sample)
  <2>1. raw = 30 * a + 20 * b + 15 * c + 15 * d + 15 * match + 5 * e
    BY DEF RawScore, net, roi, margin
  <2>2. a \in 0..100 /\ b \in 0..100 /\ c \in 0..100
    BY <1>3, ScoreParts
  <2>3. d \in 20..100 /\ e \in 0..100
    BY ScoreParts
  <2> HIDE DEF a, b, c, d, e, raw
  <2> QED BY <1>1, <2>1, <2>2, <2>3
<1> HIDE DEF raw
<1>5. score = LossCapped(IF available THEN raw ELSE raw \div 2, net)
  BY DEF ScoreOf, raw, net
<1> DEFINE half == IF available THEN raw ELSE raw \div 2
<1>6. half \in Nat /\ (available => half = raw)
  BY <1>4
<1> HIDE DEF half
<1>7. score = LossCapped(half, net)
  BY <1>5 DEF half
<1> HIDE DEF score
<1>8. score \in Nat /\ (net < 0 => score <= 1000) /\ (~(net < 0) => score = half)
  BY <1>2, <1>6, <1>7 DEF LossCapped
<1>9. \A n \in Nat : TierOf(n) = "ignore" <=> n < 1500
  BY DEF TierOf
<1>10. buys => /\ status \notin {"reject", "watch"}
               /\ ~(Level(confidence) < Level(required))
  BY <1>1 DEF Recommended
<1>11. status # "reject" => ~(net < 100 * MinProfit)
  BY DEF StatusOf, net
<1>12. buys => ~(net < 0)
  BY <1>1, <1>2, <1>10, <1>11
<1>13. net < 0 => TierOf(score) = "ignore"
  BY <1>8, <1>9
<1>14. buys /\ available /\ match >= 80 => TierOf(score) # "ignore"
  BY <1>1, <1>4, <1>6, <1>8, <1>9, <1>12
<1>15. buys /\ required # "low" => confidence # "low"
  BY <1>10, ScoreParts
<1> QED BY <1>2, <1>13, <1>14, <1>15 DEF net, score

\* What a verdict takes from its parts.
LEMMA JudgeGives ==
  ASSUME NEW resale \in Price \cup {NoPrice}, NEW entry, NEW confidence \in Confidence,
         Judge(resale, entry, confidence)
  PROVE  /\ verdict'.resale = resale /\ verdict'.estimate = entry.estimate
         /\ verdict'.seen = entry.seen /\ verdict'.read = valuationClock
         /\ VerdictFits' /\ verdict'.net \in Int
         /\ TiersFollowProfits'
         /\ Buys' => resale # NoPrice
         /\ Buys' /\ verdict'.required # "low" => confidence # "low"
<1>1. PICK price \in OfferPrice, match \in {0, 50, 80, 100}, available \in BOOLEAN,
           required \in Confidence :
        verdict' = Judged(resale, entry, confidence, price, match, available, required)
  BY DEF Judge
<1> DEFINE size  == Len(entry.estimate.sample)
           score == ScoreOf(price, resale, confidence, match, size, available)
<1>2. /\ verdict'.resale = resale /\ verdict'.estimate = entry.estimate
      /\ verdict'.seen = entry.seen /\ verdict'.read = valuationClock
      /\ verdict'.net = IF resale = NoPrice THEN 0 ELSE Net(price, resale)
      /\ verdict'.available = available /\ verdict'.match = match
      /\ verdict'.required = required
      /\ verdict'.recommendation = Recommended(price, resale, confidence, required)
      /\ verdict'.tier = IF resale = NoPrice THEN "needs_market_data" ELSE TierOf(score)
  BY <1>1 DEF Judged
<1>5. VerdictFits'
  BY <1>1 DEF Judged, VerdictFits
<1>3. CASE resale = NoPrice
  <2>1. Recommended(price, resale, confidence, required) = "alert_only"
    BY <1>3 DEF Recommended
  <2> QED BY <1>2, <1>3, <1>5, <2>1 DEF TiersFollowProfits, Buys
<1>4. CASE resale # NoPrice
  <2>1. resale \in Price
    BY <1>4
  <2>2. /\ Net(price, resale) \in Int
        /\ Net(price, resale) < 0 => TierOf(score) = "ignore"
        /\ /\ Recommended(price, resale, confidence, required) \in {"buy", "strong_buy"}
           /\ available /\ match >= 80
           => TierOf(score) # "ignore"
        /\ /\ Recommended(price, resale, confidence, required) \in {"buy", "strong_buy"}
           /\ required # "low"
           => confidence # "low"
    BY <2>1, JudgementsAgree
  <2> HIDE DEF score
  <2> QED BY <1>2, <1>4, <1>5, <2>2 DEF TiersFollowProfits, Buys
<1> QED BY <1>3, <1>4

\* A verdict that has been used is none.
LEMMA NoVerdictFits ==
  ASSUME verdict' = NoVerdict
  PROVE  /\ VerdictFits' /\ verdict'.net \in Int /\ ~Buys'
         /\ BuysRestOnTheMarket' /\ TiersFollowProfits'
<1>1. /\ verdict'.net = 0 /\ verdict'.resale = NoPrice /\ verdict'.recommendation = "none"
  BY DEF NoVerdict
<1>2. verdict'.net \in Int /\ ~Buys'
  BY <1>1 DEF Buys
<1>3. VerdictFits'
  BY DEF NoVerdict, VerdictFits
<1> QED BY <1>1, <1>2, <1>3 DEF BuysRestOnTheMarket, TiersFollowProfits

\* A purchase that rests on an estimate rests on three ads or more.
LEMMA MarketBacks ==
  ASSUME ValuationTypes', NEW entry, EstimateFits(entry.estimate),
         verdict'.read < entry.seen + ResaleTTL, EffectiveMode' = "market",
         verdict'.resale = entry.estimate.price, verdict'.estimate = entry.estimate,
         verdict'.seen = entry.seen,
         Buys' => entry.estimate.price # NoPrice,
         Buys' /\ verdict'.required # "low" => entry.estimate.confidence # "low"
  PROVE  BuysRestOnTheMarket'
<1> DEFINE s == entry.estimate.sample
<1> SUFFICES ASSUME Buys', verdict'.required # "low", NEW i \in DOMAIN s
             PROVE  /\ \E low \in Without(s, i)  : 2 * low <= entry.estimate.price
                    /\ \E high \in Without(s, i) : entry.estimate.price <= 2 * high
  BY DEF BuysRestOnTheMarket, Without
<1>1. Ordered(s) /\ entry.estimate.price = Median(s) /\ Len(s) >= 3
  BY EstimatePrice
<1> QED BY <1>1, MedianIsSurrounded

\* Nothing is known at first.
LEMMA ValuationInvInit == ValuationInit => ValuationInv
<1> SUFFICES ASSUME ValuationInit PROVE ValuationInv
  OBVIOUS
<1>1. ValuationTypes
  BY ValuationAssumption DEF ValuationInit, ValuationTypes, Says, EntryFits
<1>2. verdict = NoVerdict
  BY DEF ValuationInit
<1>3. /\ verdict.net = 0 /\ verdict.resale = NoPrice /\ verdict.recommendation = "none"
      /\ VerdictFits
  BY <1>2 DEF NoVerdict, VerdictFits
<1> QED BY <1>1, <1>3
        DEF ValuationInv, BuysRestOnTheMarket, TiersFollowProfits, Buys

\* An offer is evaluated, or time passes.
LEMMA ValuationInvStep == ValuationInv /\ [ValuationNext]_valuationVars => ValuationInv'
<1> SUFFICES ASSUME ValuationInv, [ValuationNext]_valuationVars PROVE ValuationInv'
  OBVIOUS
<1> USE DEF ValuationInv
<1>1. CASE EvaluateTyped
  <2>1. ValuationTypes' /\ EffectiveMode' = "manual" /\ EffectiveTrusted' = EffectiveTrusted
    BY <1>1 DEF EvaluateTyped, ValuationTypes, EffectiveMode, EffectiveTrusted
  <2>2. EffectiveTyped \in Price \cup {NoPrice}
    BY ValuationAssumption DEF ValuationTypes, Says, EffectiveTyped, Price
  <2> DEFINE trust == IF EffectiveTrusted THEN "high" ELSE "low"
  <2>3. trust \in Confidence /\ (trust # "low" => EffectiveTrusted)
    BY DEF Confidence
  <2>4. Judge(EffectiveTyped, NoEntry, trust)
    BY <1>1 DEF EvaluateTyped
  <2> HIDE DEF trust
  <2>5. /\ VerdictFits' /\ verdict'.net \in Int /\ TiersFollowProfits'
        /\ Buys' /\ verdict'.required # "low" => trust # "low"
    BY <2>2, <2>3, <2>4, JudgeGives
  <2>6. BuysRestOnTheMarket'
    BY <2>1, <2>3, <2>5 DEF BuysRestOnTheMarket
  <2> QED BY <2>1, <2>5, <2>6
<1>2. CASE EvaluateCached
  <2>1. ValuationTypes' /\ EffectiveMode' = "market"
    BY <1>2 DEF EvaluateCached, ValuationTypes, EffectiveMode
  <2>2. /\ EstimateFits(cached.estimate)
        /\ valuationClock < cached.seen + ResaleTTL
    BY <1>2 DEF EvaluateCached, CacheHit, ValuationTypes, EntryFits
  <2>3. cached.estimate.price \in Price \cup {NoPrice}
        /\ cached.estimate.confidence \in Confidence
    BY <2>2, EstimatePrice
  <2>4. Judge(cached.estimate.price, cached, cached.estimate.confidence)
    BY <1>2 DEF EvaluateCached
  <2>5. /\ verdict'.resale = cached.estimate.price /\ verdict'.estimate = cached.estimate
        /\ verdict'.seen = cached.seen /\ verdict'.read = valuationClock
        /\ VerdictFits' /\ verdict'.net \in Int /\ TiersFollowProfits'
        /\ Buys' => cached.estimate.price # NoPrice
        /\ Buys' /\ verdict'.required # "low" => cached.estimate.confidence # "low"
    BY <2>3, <2>4, JudgeGives
  <2>6. BuysRestOnTheMarket'
    BY <2>1, <2>2, <2>5, MarketBacks
  <2> QED BY <2>1, <2>5, <2>6
<1>3. CASE EvaluateSearched
  <2>1. PICK e \in Estimates :
          /\ cached' = [estimate |-> e, seen |-> valuationClock,
                        expires |-> valuationClock + ResaleTTL]
          /\ Judge(e.price, cached', e.confidence)
    BY <1>3 DEF EvaluateSearched
  <2> DEFINE entry == [estimate |-> e, seen |-> valuationClock,
                       expires |-> valuationClock + ResaleTTL]
  <2>2. EstimateFits(e)
    BY EstimatesFit
  <2>3. /\ valuationClock \in Nat /\ valuationClock' = valuationClock
        /\ ResaleTTL \in Nat /\ ResaleTTL > 0
    BY <1>3, ValuationAssumption DEF EvaluateSearched, ValuationTypes
  <2>4. /\ entry.estimate = e /\ entry.seen = valuationClock
        /\ entry.expires = valuationClock + ResaleTTL
    OBVIOUS
  <2>5. cached' = entry /\ Judge(e.price, entry, e.confidence)
    BY <2>1
  <2> HIDE DEF entry
  <2>6. ValuationTypes' /\ EffectiveMode' = "market"
    BY <1>3, <2>2, <2>3, <2>4, <2>5
    DEF EvaluateSearched, ValuationTypes, EntryFits, EffectiveMode
  <2>7. valuationClock < entry.seen + ResaleTTL
    BY <2>3, <2>4
  <2>8. e.price \in Price \cup {NoPrice} /\ e.confidence \in Confidence
    BY <2>2, EstimatePrice
  <2>9. /\ verdict'.resale = e.price /\ verdict'.estimate = entry.estimate
        /\ verdict'.seen = entry.seen /\ verdict'.read = valuationClock
        /\ VerdictFits' /\ verdict'.net \in Int /\ TiersFollowProfits'
        /\ Buys' => e.price # NoPrice
        /\ Buys' /\ verdict'.required # "low" => e.confidence # "low"
    BY <2>5, <2>8, JudgeGives
  <2>10. BuysRestOnTheMarket'
    BY <2>2, <2>4, <2>6, <2>7, <2>9, MarketBacks
  <2> QED BY <2>6, <2>9, <2>10
<1>4. CASE EvaluateBlind
  <2>1. ValuationTypes'
    BY <1>4 DEF EvaluateBlind, ValuationTypes
  <2>2. Judge(NoPrice, NoEntry, "low") /\ "low" \in Confidence
    BY <1>4 DEF EvaluateBlind, Confidence
  <2>3. /\ VerdictFits' /\ verdict'.net \in Int /\ TiersFollowProfits'
        /\ Buys' => NoPrice # NoPrice
    BY <2>2, JudgeGives
  <2> QED BY <2>1, <2>3 DEF BuysRestOnTheMarket
<1>5. CASE VerdictIsUsed
  <2>1. ValuationTypes' /\ verdict' = NoVerdict
    BY <1>5 DEF VerdictIsUsed, ValuationTypes
  <2> QED BY <2>1, NoVerdictFits
<1>6. CASE ValuationClockTicks
  <2>1. UNCHANGED <<ruleSays, productSays, cached, verdict>>
    BY <1>6 DEF ValuationClockTicks
  <2>2. ValuationTypes'
    BY <1>6, <2>1, ValuationAssumption DEF ValuationClockTicks, ValuationTypes
  <2> QED BY <2>1, <2>2, Zenon DEF BuysRestOnTheMarket, TiersFollowProfits, Buys,
                                   VerdictFits, EffectiveMode, EffectiveTrusted
<1>7. CASE JudgeAgain
  <2>1. UNCHANGED <<ruleSays, productSays, cached, valuationClock>> /\ Buys
    BY <1>7 DEF JudgeAgain, Buys
  <2>2. PICK word : verdict' = [verdict EXCEPT !.recommendation = word]
    BY <1>7 DEF JudgeAgain
  <2>3. /\ verdict'.resale = verdict.resale /\ verdict'.estimate = verdict.estimate
        /\ verdict'.seen = verdict.seen /\ verdict'.read = verdict.read
        /\ verdict'.net = verdict.net /\ verdict'.available = verdict.available
        /\ verdict'.match = verdict.match /\ verdict'.required = verdict.required
        /\ verdict'.tier = verdict.tier /\ VerdictFits'
    BY <2>2 DEF VerdictFits
  <2>4. ValuationTypes'
    BY <2>1 DEF ValuationTypes
  <2>5. BuysRestOnTheMarket'
    BY <2>1, <2>3 DEF BuysRestOnTheMarket, EffectiveMode, EffectiveTrusted
  <2>6. TiersFollowProfits'
    BY <2>1, <2>3 DEF TiersFollowProfits
  <2> QED BY <2>3, <2>4, <2>5, <2>6
<1>8. CASE UNCHANGED valuationVars
  BY <1>8 DEF valuationVars, ValuationTypes, BuysRestOnTheMarket, TiersFollowProfits, Buys,
              VerdictFits, EffectiveMode, EffectiveTrusted
<1> QED BY <1>1, <1>2, <1>3, <1>4, <1>5, <1>6, <1>7, <1>8 DEF ValuationNext

\* The invariant holds whatever the market shows and the user types.
THEOREM ValuationInvariant == ValuationSpec => []ValuationInv
BY ValuationInvInit, ValuationInvStep, PTL DEF ValuationSpec

\* The state of the evaluations (app/resale.py, market_data/cache.py) has its type.
THEOREM ValuationTypesHold == ValuationSpec => []ValuationTypeOK
<1>1. ASSUME ValuationInv PROVE ValuationTypeOK
  <2>1. CASE cached = NoEntry
    BY <1>1, <2>1 DEF ValuationInv, ValuationTypes, ValuationTypeOK, NoEntry, NoEstimate,
                      Estimate, Confidence
  <2>2. CASE cached # NoEntry
    <3>1. cached.estimate.confidence \in Confidence
      BY <1>1, <2>2, EstimatePrice DEF ValuationInv, ValuationTypes, EntryFits
    <3> QED BY <1>1, <2>2, <3>1
            DEF ValuationInv, ValuationTypes, ValuationTypeOK, EntryFits
  <2> QED BY <2>1, <2>2
<1>2. ValuationInv => ValuationTypeOK
  BY <1>1
<1> QED BY <1>2, ValuationInvariant, PTL

\* No single ad makes a purchase: where more than a low confidence is required, the
\* resale price lies between two of the other ads whichever one is left aside
\* (market_data/estimator.py), however many ads the market shows and whatever the
\* thresholds.
THEOREM MarketsBackPurchases == ValuationSpec => []BuysRestOnTheMarket
<1>1. ValuationInv => BuysRestOnTheMarket
  BY DEF ValuationInv
<1> QED BY <1>1, ValuationInvariant, PTL

\* A loss is ignored, and what the engine would buy is worth watching
\* (engine/opportunity.py::recommend_purchase, engine/ranking.py::_score_candidate),
\* whatever the fees and the thresholds.
THEOREM JudgementsDoNotContradict == ValuationSpec => []TiersFollowProfits
<1>1. ValuationInv => TiersFollowProfits
  BY DEF ValuationInv
<1> QED BY <1>1, ValuationInvariant, PTL

-----------------------------------------------------------------------------
(* The carts of the merchants. *)

Pcs == {"none", "lookup", "open", "add", "address", "methods", "method", "billing",
        "quote", "answered", "raised"}
CartSteps == {"item", "address", "method", "billing"}
Answer == [available : BOOLEAN, total : Nat, shipping : Amount]
CallRow == [pc : Pcs, shop : Shop \cup {NoCall}, quantity : Nat, looked : Amount,
            row : Nat, counted : BOOLEAN, shipping : Amount, answer : Answer]
CartRow == [units : Nat, price : Amount, shipping : Amount, set : SUBSET CartSteps,
            again : BOOLEAN]

CartTypes ==
  /\ profile \subseteq {"postcode", "address", "email"}
  /\ shelf \in [Shop -> [price : CartPrice, stock : 0..2]]
  /\ cart \in [Caller -> CartRow] /\ call \in [Caller -> CallRow]
  /\ confirmed \in [Connector -> DOMAIN CheckoutState]

\* What is asked for, of a shop.
Asked(at) == at.pc # "none" => at.shop \in Shop /\ at.quantity \in Nat \ {0}

\* Until something is added, the cart is empty.
Fresh(at, box) ==
  at.pc \in {"lookup", "open", "add"} => box = EmptyCart /\ at.shipping = NoAmount

\* The price of the catalogue is known once the product is looked up.
Looked(at) ==
  at.pc \in {"open", "add", "address", "methods", "method", "billing", "quote"} =>
    at.looked \in CartPrice

\* From then on what is known of it is so, but where it is not shown.
Filled(at, box) ==
  at.pc \in {"address", "methods", "method", "billing", "quote"} =>
    /\ box.price \in CartPrice
    /\ at.counted => at.shop = "cultura" /\ box.units = at.quantity
    /\ box.again => at.shop = "cultura"
    /\ \/ at.row = box.units * box.price
       \/ box.again
       \/ at.shop = "ucp" /\ at.row = 0
    /\ at.shipping \in {NoAmount, box.shipping}

\* The requests of Cultura follow each other once they are answered.
Advanced(at, box) ==
  /\ at.pc = "address" => {"item"} \subseteq box.set
  /\ at.shop = "cultura" /\ at.pc \in {"methods", "method"} =>
       {"item", "address"} \subseteq box.set
  /\ at.shop = "cultura" /\ at.pc = "billing" =>
       {"item", "address", "method"} \subseteq box.set

\* What QuotesCoverCarts says of one caller.
Quoted(c, at, box) ==
  (c \in Buyer /\ at.pc = "answered" /\ at.answer.available) =>
    /\ \/ at.answer.total >= box.units * box.price
       \/ at.shop = "cultura" /\ box.again
       \/ at.shop = "ucp" /\ at.row = 0
    /\ at.answer.shipping \in {NoAmount, box.shipping}
    /\ at.counted => box.units = at.quantity

CallFits(c, at, box) ==
  /\ Asked(at) /\ Fresh(at, box) /\ Looked(at) /\ Filled(at, box)
  /\ Advanced(at, box) /\ Quoted(c, at, box)

CallsFit == \A c \in Caller : CallFits(c, call[c], cart[c])

CartInv == CartTypes /\ CallsFit /\ StatesAreConfirmed

\* The states of a checkout, and what they report.
LEMMA CheckoutStates ==
  /\ DOMAIN CheckoutState =
       {"empty_cart", "cart_unavailable", "cart_with_product", "shipping_address_set",
        "shipping_method_set", "billing_address_set", "payment_human_required"}
  /\ CheckoutState["empty_cart"] = {} /\ CheckoutState["cart_unavailable"] = {}
  /\ CheckoutState["cart_with_product"] = {"item"}
  /\ CheckoutState["shipping_address_set"] = {"item", "address"}
  /\ CheckoutState["shipping_method_set"] = {"item", "address", "method"}
  /\ CheckoutState["billing_address_set"] = {"item", "address", "method", "billing"}
  /\ CheckoutState["payment_human_required"] = {}
BY DEF CheckoutState

\* Every caller has a connector, and every connector a caller.
LEMMA Connectors ==
  /\ \A c \in Caller : ConnectorOf(c) \in Connector
  /\ \A k \in Connector : \E c \in Caller : ConnectorOf(c) = k
<1>1. \A c \in Caller : ConnectorOf(c) \in Connector
  BY DEF ConnectorOf, Connector
<1>2. PICK b \in Buyer : TRUE
  BY MerchantCartsAssumption
<1>3. ConnectorOf(b) = "worker" /\ ConnectorOf(Probe) = "probe"
  BY MerchantCartsAssumption, <1>2 DEF ConnectorOf
<1>4. b \in Caller /\ Probe \in Caller
  BY <1>2 DEF Caller
<1>5. \A k \in Connector : k = "worker" \/ k = "probe"
  BY DEF Connector
<1> QED BY <1>1, <1>3, <1>4, <1>5

\* A step of a call: its cart only gains, and the state that is reported has been
\* reached.
LEMMA CallAdvances ==
  ASSUME CartInv, NEW c \in Caller, NEW at \in CallRow, NEW box \in CartRow,
         call' = [call EXCEPT ![c] = at], cart' = [cart EXCEPT ![c] = box],
         CallFits(c, at, box), at.shop = call[c].shop, cart[c].set \subseteq box.set,
         \/ confirmed' = confirmed
         \/ \E state \in DOMAIN CheckoutState :
              /\ confirmed' = [confirmed EXCEPT ![ConnectorOf(c)] = state]
              /\ CheckoutState[state] \subseteq box.set,
         UNCHANGED <<profile, shelf>>
  PROVE  CartInv'
<1>1. CartTypes'
  BY Connectors DEF CartInv, CartTypes
<1>2. /\ call'[c] = at /\ cart'[c] = box
      /\ \A o \in Caller \ {c} : call'[o] = call[o] /\ cart'[o] = cart[o]
  BY DEF CartInv, CartTypes
<1>3. CallsFit'
  BY <1>2 DEF CartInv, CallsFit
<1>4. \A o \in Caller : call'[o].shop = call[o].shop /\ cart[o].set \subseteq cart'[o].set
  BY <1>2
<1>5. StatesAreConfirmed'
  <2> SUFFICES ASSUME NEW k \in Connector,
                      \A o \in Caller : ConnectorOf(o) = k =>
                        call'[o].shop \in {"cultura", NoCall}
               PROVE  \E o \in Caller : /\ ConnectorOf(o) = k
                                        /\ CheckoutState[confirmed'[k]] \subseteq cart'[o].set
    BY DEF StatesAreConfirmed
  <2>1. \A o \in Caller : ConnectorOf(o) = k => call[o].shop \in {"cultura", NoCall}
    BY <1>4
  <2>2. PICK o \in Caller : /\ ConnectorOf(o) = k
                            /\ CheckoutState[confirmed[k]] \subseteq cart[o].set
    BY <2>1 DEF CartInv, StatesAreConfirmed
  <2>3. CASE confirmed'[k] = confirmed[k]
    BY <1>4, <2>2, <2>3
  <2>4. CASE confirmed'[k] # confirmed[k]
    <3>1. PICK state \in DOMAIN CheckoutState :
            /\ confirmed' = [confirmed EXCEPT ![ConnectorOf(c)] = state]
            /\ CheckoutState[state] \subseteq box.set
      BY <2>4
    <3>2. ConnectorOf(c) = k /\ confirmed'[k] = state
      BY <2>4, <3>1 DEF CartInv, CartTypes
    <3> QED BY <1>2, <3>1, <3>2
  <2> QED BY <2>3, <2>4
<1> QED BY <1>1, <1>3, <1>5 DEF CartInv

\* Nothing has been asked for at first.
LEMMA CartInvInit == CartInit => CartInv
<1> SUFFICES ASSUME CartInit PROVE CartInv
  OBVIOUS
<1>1. EmptyCart \in CartRow
  BY DEF EmptyCart, CartRow, Amount
<1>2. NoAnswer \in Answer
  BY DEF NoAnswer, Answer, Amount
<1>3. Idling \in CallRow
  BY <1>2 DEF Idling, CallRow, Pcs, Amount
<1>4. CartTypes
  BY <1>1, <1>3, CheckoutStates DEF CartInit, CartTypes
<1>5. CallsFit
  BY DEF CartInit, CallsFit, CallFits, Asked, Fresh, Looked, Filled, Advanced, Quoted, Idling
<1>6. StatesAreConfirmed
  <2> SUFFICES ASSUME NEW k \in Connector
               PROVE  \E o \in Caller : /\ ConnectorOf(o) = k
                                        /\ CheckoutState[confirmed[k]] \subseteq cart[o].set
    BY DEF StatesAreConfirmed
  <2>1. CheckoutState[confirmed[k]] = {}
    BY CheckoutStates DEF CartInit
  <2> QED BY <2>1, Connectors
<1> QED BY <1>4, <1>5, <1>6 DEF CartInv

\* A call begins with an empty cart; elsewhere than at Cultura, the state its
\* connector reported last is no longer spoken of.
LEMMA BeginsKeeps ==
  ASSUME CartInv, NEW c \in Caller, NEW s \in Shop, NEW q \in Nat \ {0}, Begins(c, s, q)
  PROVE  CartInv'
<1> DEFINE at == [Idling EXCEPT !.pc = "lookup", !.shop = s, !.quantity = q]
<1>1. EmptyCart \in CartRow /\ NoAnswer \in Answer
  BY DEF EmptyCart, CartRow, Amount, NoAnswer, Answer
<1>2. at \in CallRow /\ at.pc = "lookup" /\ at.shop = s /\ at.quantity = q
      /\ at.shipping = NoAmount
  BY <1>1 DEF Idling, CallRow, Pcs, Amount
<1>3. call' = [call EXCEPT ![c] = at] /\ cart' = [cart EXCEPT ![c] = EmptyCart]
  BY DEF Begins
<1> HIDE DEF at
<1>4. /\ call'[c] = at /\ cart'[c] = EmptyCart
      /\ \A o \in Caller \ {c} : call'[o] = call[o] /\ cart'[o] = cart[o]
  BY <1>3 DEF CartInv, CartTypes
<1>5. CartTypes'
  BY <1>1, <1>2, <1>3, Connectors, CheckoutStates DEF Begins, CartInv, CartTypes
<1>6. CallFits(c, at, EmptyCart)
  BY <1>2 DEF CallFits, Asked, Fresh, Looked, Filled, Advanced, Quoted
<1>7. CallsFit'
  BY <1>4, <1>6 DEF CartInv, CallsFit
<1>8. StatesAreConfirmed'
  <2> SUFFICES ASSUME NEW k \in Connector,
                      \A o \in Caller : ConnectorOf(o) = k =>
                        call'[o].shop \in {"cultura", NoCall}
               PROVE  \E o \in Caller : /\ ConnectorOf(o) = k
                                        /\ CheckoutState[confirmed'[k]] \subseteq cart'[o].set
    BY DEF StatesAreConfirmed
  <2>1. CASE k = ConnectorOf(c)
    <3>1. s = "cultura"
      BY <1>2, <1>4, <2>1, MerchantCartsAssumption
    <3>2. CheckoutState[confirmed'[k]] = {}
      BY <2>1, <3>1, CheckoutStates DEF Begins, CartInv, CartTypes
    <3> QED BY <2>1, <3>2
  <2>2. CASE k # ConnectorOf(c)
    <3>1. confirmed'[k] = confirmed[k]
      BY <2>2 DEF Begins, CartInv, CartTypes
    <3>2. \A o \in Caller : ConnectorOf(o) = k => call'[o] = call[o] /\ cart'[o] = cart[o]
      BY <1>4, <2>2
    <3> QED BY <3>1, <3>2 DEF CartInv, StatesAreConfirmed
  <2> QED BY <2>1, <2>2
<1> QED BY <1>5, <1>7, <1>8 DEF CartInv

\* A call that answers that the product cannot be had, or gives up.
LEMMA CallEnds ==
  ASSUME CartInv, NEW c \in Caller, NEW at \in CallRow,
         call' = [call EXCEPT ![c] = at], at.shop = call[c].shop,
         at.quantity = call[c].quantity, call[c].pc # "none",
         \/ at.pc = "raised"
         \/ at.pc = "answered" /\ ~at.answer.available,
         \/ confirmed' = confirmed
         \/ \E state \in {"cart_unavailable", "payment_human_required"} :
              confirmed' = [confirmed EXCEPT ![ConnectorOf(c)] = state],
         UNCHANGED <<profile, shelf, cart>>
  PROVE  CartInv'
<1>1. cart[c] \in CartRow /\ cart' = [cart EXCEPT ![c] = cart[c]]
  BY DEF CartInv, CartTypes
<1>2. CallFits(c, call[c], cart[c])
  BY DEF CartInv, CallsFit
<1>3. CallFits(c, at, cart[c])
  BY <1>2 DEF CallFits, Asked, Fresh, Looked, Filled, Advanced, Quoted
<1>4. \/ confirmed' = confirmed
      \/ \E state \in DOMAIN CheckoutState :
           /\ confirmed' = [confirmed EXCEPT ![ConnectorOf(c)] = state]
           /\ CheckoutState[state] \subseteq cart[c].set
  BY CheckoutStates
<1> QED BY <1>1, <1>3, <1>4, CallAdvances

\* What a call that raises leaves.
LEMMA RaisedRow ==
  ASSUME CartInv, NEW c \in Caller, Raises(c)
  PROVE  \E at \in CallRow :
           /\ call' = [call EXCEPT ![c] = at]
           /\ at.pc = "raised" /\ at.shop = call[c].shop /\ at.quantity = call[c].quantity
<1> DEFINE at == [call[c] EXCEPT !.pc = "raised"]
<1>1. call[c] \in CallRow
  BY DEF CartInv, CartTypes
<1>2. /\ at \in CallRow
      /\ at.pc = "raised" /\ at.shop = call[c].shop /\ at.quantity = call[c].quantity
  BY <1>1 DEF CallRow, Pcs
<1>3. call' = [call EXCEPT ![c] = at]
  BY DEF Raises
<1> QED BY <1>2, <1>3

\* What a call that answers leaves.
LEMMA AnsweredRow ==
  ASSUME CartInv, NEW c \in Caller, NEW answer \in Answer, Answers(c, answer)
  PROVE  \E at \in CallRow :
           /\ call' = [call EXCEPT ![c] = at]
           /\ at.pc = "answered" /\ at.answer = answer
           /\ at.shop = call[c].shop /\ at.quantity = call[c].quantity
           /\ at.row = call[c].row /\ at.counted = call[c].counted
<1> DEFINE at == [call[c] EXCEPT !.pc = "answered", !.answer = answer]
<1>1. call[c] \in CallRow
  BY DEF CartInv, CartTypes
<1>2. /\ at \in CallRow /\ at.pc = "answered" /\ at.answer = answer
      /\ at.shop = call[c].shop /\ at.quantity = call[c].quantity
      /\ at.row = call[c].row /\ at.counted = call[c].counted
  BY <1>1 DEF CallRow, Pcs
<1>3. call' = [call EXCEPT ![c] = at]
  BY <1>1 DEF Answers, CartInv, CartTypes
<1> QED BY <1>2, <1>3

\* The answer that the product cannot be had.
LEMMA RefusedRow ==
  ASSUME CartInv, NEW c \in Caller, Refuses(c)
  PROVE  \E at \in CallRow :
           /\ call' = [call EXCEPT ![c] = at]
           /\ at.pc = "answered" /\ ~at.answer.available
           /\ at.shop = call[c].shop /\ at.quantity = call[c].quantity
<1> DEFINE answer == AnswerOf(FALSE, call[c].row, NoAmount)
<1>1. answer \in Answer /\ ~answer.available
  <2>1. call[c].row \in Nat
    BY DEF CartInv, CartTypes, CallRow
  <2> QED BY <2>1 DEF AnswerOf, Answer, Amount
<1>2. Answers(c, answer)
  BY DEF Refuses
<1> HIDE DEF answer
<1> QED BY <1>1, <1>2, AnsweredRow

LEMMA RefusalKeeps ==
  ASSUME CartInv, NEW c \in Caller, Refuses(c), call[c].pc # "none",
         \/ confirmed' = confirmed
         \/ confirmed' = [confirmed EXCEPT ![ConnectorOf(c)] = "cart_unavailable"],
         UNCHANGED <<profile, shelf, cart>>
  PROVE  CartInv'
<1>1. PICK at \in CallRow :
        /\ call' = [call EXCEPT ![c] = at]
        /\ at.pc = "answered" /\ ~at.answer.available
        /\ at.shop = call[c].shop /\ at.quantity = call[c].quantity
  BY RefusedRow
<1> QED BY <1>1, CallEnds

\* No answer, no product: the cart is left as it is.
LEMMA FailureKeeps ==
  ASSUME CartInv, NEW c \in Caller, RequestFails(c) \/ ProductGone(c)
  PROVE  CartInv'
<1>1. Raises(c) /\ call[c].pc # "none" /\ UNCHANGED <<profile, shelf, cart, confirmed>>
  BY DEF RequestFails, ProductGone
<1> QED BY <1>1, RaisedRow, CallEnds

\* The payment is a human's.
LEMMA CheckoutKeeps == ASSUME CartInv, NEW c \in Caller, Checkout(c) PROVE CartInv'
<1>1. Raises(c) /\ call[c].pc # "none" /\ UNCHANGED <<profile, shelf, cart>>
  BY DEF Checkout
<1>2. \/ confirmed' = confirmed
      \/ confirmed' = [confirmed EXCEPT ![ConnectorOf(c)] = "payment_human_required"]
  BY DEF Checkout, Reports
<1> QED BY <1>1, <1>2, RaisedRow, CallEnds

\* The product is looked up.
LEMMA LookUpKeeps == ASSUME CartInv, NEW c \in Caller, LookUp(c) PROVE CartInv'
<1> DEFINE s == call[c].shop
           at == [call[c] EXCEPT !.pc = IF s = "ucp" THEN "add" ELSE "open",
                                 !.looked = shelf[s].price]
<1>1. /\ call[c].pc = "lookup" /\ call[c] \in CallRow /\ cart[c] \in CartRow
      /\ CallFits(c, call[c], cart[c])
      /\ UNCHANGED <<profile, shelf, cart, confirmed>>
  BY DEF LookUp, CartInv, CartTypes, CallsFit
<1>2. s \in Shop /\ shelf[s].price \in CartPrice /\ shelf[s].price \in Amount
  BY <1>1 DEF CallFits, Asked, CartInv, CartTypes, Amount
<1>3. CASE Refuses(c)
  BY <1>1, <1>2, <1>3, RefusalKeeps
<1>4. CASE call' = [call EXCEPT ![c].pc = IF s = "ucp" THEN "add" ELSE "open",
                                ![c].looked = shelf[s].price]
  <2>1. at.pc \in {"add", "open"}
    BY <1>1 DEF CallRow
  <2>2. /\ at \in CallRow /\ at.shop = s /\ at.quantity = call[c].quantity
        /\ at.shipping = call[c].shipping /\ at.looked = shelf[s].price
    BY <1>1, <1>2, <2>1 DEF CallRow, Pcs
  <2>3. call' = [call EXCEPT ![c] = at]
    BY <1>1, <1>4 DEF CartInv, CartTypes
  <2> HIDE DEF at
  <2>4. CallFits(c, at, cart[c])
    BY <1>1, <1>2, <2>1, <2>2 DEF CallFits, Asked, Fresh, Looked, Filled, Advanced, Quoted
  <2>5. cart' = [cart EXCEPT ![c] = cart[c]]
    BY <1>1 DEF CartInv, CartTypes
  <2> QED BY <1>1, <2>2, <2>3, <2>4, <2>5, CallAdvances
<1> QED BY <1>3, <1>4 DEF LookUp

\* A cart is opened.
LEMMA OpenCartKeeps == ASSUME CartInv, NEW c \in Caller, OpenCart(c) PROVE CartInv'
<1> DEFINE at == [call[c] EXCEPT !.pc = "add"]
<1>1. /\ call[c].pc = "open" /\ call[c] \in CallRow /\ cart[c] \in CartRow
      /\ CallFits(c, call[c], cart[c]) /\ cart' = [cart EXCEPT ![c] = cart[c]]
      /\ UNCHANGED <<profile, shelf, confirmed>>
  BY DEF OpenCart, CartInv, CartTypes, CallsFit
<1>2. /\ at \in CallRow /\ at.pc = "add" /\ at.shop = call[c].shop
      /\ at.quantity = call[c].quantity /\ at.shipping = call[c].shipping
      /\ at.looked = call[c].looked
  BY <1>1 DEF CallRow, Pcs
<1>3. call' = [call EXCEPT ![c] = at]
  BY <1>1 DEF OpenCart
<1> HIDE DEF at
<1>4. CallFits(c, at, cart[c])
  BY <1>1, <1>2 DEF CallFits, Asked, Fresh, Looked, Filled, Advanced, Quoted
<1> QED BY <1>1, <1>2, <1>3, <1>4, CallAdvances

\* What a shop puts in a cart is a number of units, and what it shows their total.
LEMMA PlacedIsNumber ==
  ASSUME CartInv, NEW c \in Caller, call[c].shop \in Shop, NEW units \in Placed(c)
  PROVE  units \in Nat
BY MerchantCartsAssumption DEF Placed, CartInv, CartTypes

LEMMA ShownIsTotal ==
  ASSUME NEW c \in Caller, NEW units \in Nat, shelf[call[c].shop].price \in Nat,
         NEW total \in Shown(c, units)
  PROVE  /\ total \in Nat
         /\ \/ total = units * shelf[call[c].shop].price
            \/ call[c].shop = "ucp" /\ total = 0
<1>1. units * shelf[call[c].shop].price \in Nat
  OBVIOUS
<1> QED BY <1>1 DEF Shown

\* What the shop puts in a cart is priced at what it shows, or the call is over.
LEMMA AddToCartKeeps == ASSUME CartInv, NEW c \in Caller, AddToCart(c) PROVE CartInv'
<1> DEFINE s == call[c].shop
           p == shelf[s].price
<1>1. /\ call[c].pc = "add" /\ call[c] \in CallRow /\ CallFits(c, call[c], cart[c])
      /\ cart[c] = EmptyCart /\ call[c].shipping = NoAmount
      /\ call[c].looked \in CartPrice
      /\ s \in Shop /\ call[c].quantity \in Nat \ {0}
      /\ UNCHANGED <<profile, shelf>>
  BY DEF AddToCart, CartInv, CartTypes, CallsFit, CallFits, Asked, Fresh, Looked
<1>2. p \in CartPrice /\ p \in Nat /\ p \in Amount
  BY <1>1, MerchantCartsAssumption DEF CartInv, CartTypes, Amount
<1>3. PICK units \in Placed(c) :
        IF units = 0
        THEN Refuses(c) /\ Reports(c, "cart_unavailable") /\ UNCHANGED cart
        ELSE /\ cart' = [cart EXCEPT ![c].units = units, ![c].set = {"item"},
                                     ![c].price = p]
             /\ ReadsCart(c, units)
  BY DEF AddToCart
<1>4. units \in Nat
  BY <1>1, PlacedIsNumber
<1>5. CASE units = 0
  <2>1. \/ confirmed' = confirmed
        \/ confirmed' = [confirmed EXCEPT ![ConnectorOf(c)] = "cart_unavailable"]
    BY <1>3, <1>5 DEF Reports
  <2> QED BY <1>1, <1>3, <1>5, <2>1, RefusalKeeps
<1>6. CASE units # 0
  <2> DEFINE box == [EmptyCart EXCEPT !.units = units, !.set = {"item"}, !.price = p]
  <2>1. /\ box \in CartRow /\ box.units = units /\ box.price = p
        /\ box.shipping = NoAmount /\ box.set = {"item"} /\ box.again = FALSE
    BY <1>2, <1>4 DEF EmptyCart, CartRow, CartSteps, Amount
  <2>2. cart' = [cart EXCEPT ![c] = box]
    BY <1>1, <1>3, <1>6 DEF CartInv, CartTypes
  <2> HIDE DEF box
  <2>3. cart[c].set \subseteq box.set
    BY <1>1 DEF EmptyCart
  <2>4. ASSUME Reports(c, "cart_with_product")
        PROVE  \/ confirmed' = confirmed
               \/ \E state \in DOMAIN CheckoutState :
                    /\ confirmed' = [confirmed EXCEPT ![ConnectorOf(c)] = state]
                    /\ CheckoutState[state] \subseteq box.set
    BY <2>1, <2>4, CheckoutStates DEF Reports
  <2>5. CASE Raises(c) /\ confirmed' = confirmed
    <3>1. PICK at \in CallRow :
            /\ call' = [call EXCEPT ![c] = at]
            /\ at.pc = "raised" /\ at.shop = s /\ at.quantity = call[c].quantity
      BY <2>5, RaisedRow
    <3>2. CallFits(c, at, box)
      BY <1>1, <3>1 DEF CallFits, Asked, Fresh, Looked, Filled, Advanced, Quoted
    <3> QED BY <1>1, <2>1, <2>2, <2>3, <2>5, <3>1, <3>2, CallAdvances
  <2>6. CASE Refuses(c) /\ Reports(c, "cart_with_product")
    <3>1. PICK at \in CallRow :
            /\ call' = [call EXCEPT ![c] = at]
            /\ at.pc = "answered" /\ ~at.answer.available
            /\ at.shop = s /\ at.quantity = call[c].quantity
      BY <2>6, RefusedRow
    <3>2. CallFits(c, at, box)
      BY <1>1, <3>1 DEF CallFits, Asked, Fresh, Looked, Filled, Advanced, Quoted
    <3> QED BY <1>1, <2>1, <2>2, <2>3, <2>4, <2>6, <3>1, <3>2, CallAdvances
  <2>7. ASSUME NEW counted \in BOOLEAN, NEW total \in Shown(c, units),
               counted => s = "cultura" /\ units = call[c].quantity,
               call' = [call EXCEPT ![c].pc = NextOf(c), ![c].row = total,
                                    ![c].counted = counted],
               Reports(c, "cart_with_product")
        PROVE  CartInv'
    <3> DEFINE at == [call[c] EXCEPT !.pc = NextOf(c), !.row = total,
                                     !.counted = counted]
    <3>1. NextOf(c) \in {"address", "quote"}
      BY DEF NextOf
    <3>2. total \in Nat /\ (total = units * p \/ (s = "ucp" /\ total = 0))
      BY <1>2, <1>4, ShownIsTotal
    <3>3. /\ at \in CallRow /\ at.pc \in {"address", "quote"} /\ at.shop = s
          /\ at.quantity = call[c].quantity /\ at.row = total
          /\ at.counted = counted /\ at.looked = call[c].looked
          /\ at.shipping = NoAmount
      BY <1>1, <3>1, <3>2 DEF CallRow, Pcs
    <3>4. call' = [call EXCEPT ![c] = at]
      BY <1>1, <2>7 DEF CartInv, CartTypes
    <3> HIDE DEF at
    <3>5. CallFits(c, at, box)
      BY <1>1, <1>2, <2>1, <2>7, <3>2, <3>3
      DEF CallFits, Asked, Fresh, Looked, Filled, Advanced, Quoted
    <3> QED BY <1>1, <2>1, <2>2, <2>3, <2>4, <2>7, <3>3, <3>4, <3>5, CallAdvances
  <2> QED BY <1>3, <1>6, <2>5, <2>6, <2>7 DEF ReadsCart
<1> QED BY <1>5, <1>6

\* The shop is told the address, and answers with the whole cart.
LEMMA UpdateAddressKeeps ==
  ASSUME CartInv, NEW c \in Caller, UpdateAddress(c) PROVE CartInv'
<1> DEFINE s == call[c].shop
           p == shelf[s].price
<1>1. /\ call[c].pc = "address" /\ call[c] \in CallRow /\ cart[c] \in CartRow
      /\ CallFits(c, call[c], cart[c]) /\ s # "cultura"
      /\ UNCHANGED <<profile, shelf, confirmed>>
  BY DEF UpdateAddress, CartInv, CartTypes, CallsFit
<1>2. s \in Shop /\ p \in CartPrice /\ p \in Nat /\ p \in Amount
  BY <1>1, MerchantCartsAssumption DEF CallFits, Asked, CartInv, CartTypes, Amount
<1>3. PICK units \in Placed(c), cost \in Amount :
        /\ cart' = [cart EXCEPT ![c].units = units, ![c].shipping = cost, ![c].price = p,
                                ![c].set = @ \cup {"address"}]
        /\ \E total \in Shown(c, units) :
             call' = [call EXCEPT ![c].pc = "quote", ![c].shipping = cost,
                                  ![c].row = total]
  BY DEF UpdateAddress
<1>t. PICK total \in Shown(c, units) :
        call' = [call EXCEPT ![c].pc = "quote", ![c].shipping = cost, ![c].row = total]
  BY <1>3
<1>4. units \in Nat
  BY <1>2, PlacedIsNumber
<1>5. total \in Nat /\ (total = units * p \/ (s = "ucp" /\ total = 0))
  BY <1>2, <1>4, ShownIsTotal
<1> DEFINE at == [call[c] EXCEPT !.pc = "quote", !.shipping = cost, !.row = total]
           box == [cart[c] EXCEPT !.units = units, !.shipping = cost, !.price = p,
                                  !.set = cart[c].set \cup {"address"}]
<1>6. /\ at \in CallRow /\ at.pc = "quote" /\ at.shop = s
      /\ at.quantity = call[c].quantity /\ at.shipping = cost /\ at.row = total
      /\ at.looked = call[c].looked /\ at.counted = call[c].counted
  BY <1>1, <1>5 DEF CallRow, Pcs
<1>7. /\ box \in CartRow /\ box.units = units /\ box.price = p /\ box.shipping = cost
      /\ box.again = cart[c].again /\ cart[c].set \subseteq box.set
  BY <1>1, <1>2, <1>4 DEF CartRow, CartSteps
<1>8. call' = [call EXCEPT ![c] = at] /\ cart' = [cart EXCEPT ![c] = box]
  BY <1>1, <1>3, <1>t DEF CartInv, CartTypes
<1> HIDE DEF at, box
<1>9. CallFits(c, at, box)
  BY <1>1, <1>2, <1>5, <1>6, <1>7
  DEF CallFits, Asked, Fresh, Looked, Filled, Advanced, Quoted
<1> QED BY <1>1, <1>6, <1>7, <1>8, <1>9, CallAdvances

\* A request of Cultura's steps, answered or not.
LEMMA AdvancesKeeps ==
  ASSUME CartInv, NEW c \in Caller, NEW from \in Pcs, NEW what \in CartSteps,
         NEW state \in DOMAIN CheckoutState, NEW to \in Pcs,
         Advances(c, from, what, state, to),
         \/ from = "address" /\ what = "address" /\ state = "shipping_address_set"
            /\ to = "methods"
         \/ from = "method" /\ what = "method" /\ state = "shipping_method_set"
            /\ to = "billing"
         \/ from = "billing" /\ what = "billing" /\ state = "billing_address_set"
            /\ to = "quote"
  PROVE  CartInv'
<1>1. /\ call[c].pc = from /\ call[c].shop = "cultura"
      /\ call[c] \in CallRow /\ cart[c] \in CartRow /\ CallFits(c, call[c], cart[c])
      /\ UNCHANGED <<profile, shelf>>
  BY DEF Advances, CartInv, CartTypes, CallsFit
<1>2. PICK served, answered \in BOOLEAN :
        /\ answered => served
        /\ StateOnceAnswered(c, answered, state)
        /\ IF served THEN Serves(c, what) ELSE UNCHANGED cart
        /\ call' = [call EXCEPT ![c].pc = IF answered THEN to ELSE "quote",
                                ![c].shipping = IF answered THEN @ ELSE NoAmount]
  BY DEF Advances
<1>p. PICK price \in {cart[c].price, shelf["cultura"].price} :
        served => cart' = [cart EXCEPT ![c].set = @ \cup {what}, ![c].price = price,
                                       ![c].again = @ \/ price # cart[c].price]
  BY <1>2 DEF Serves
<1> DEFINE next == IF answered THEN to ELSE "quote"
           cost == IF answered THEN call[c].shipping ELSE NoAmount
           at == [call[c] EXCEPT !.pc = next, !.shipping = cost]
           done == IF served THEN cart[c].set \cup {what} ELSE cart[c].set
           now == IF served THEN price ELSE cart[c].price
           anew == cart[c].again \/ now # cart[c].price
           box == [cart[c] EXCEPT !.set = done, !.price = now, !.again = anew]
<1>3. /\ next \in {"methods", "billing", "quote"} /\ (next = "quote" \/ next = to)
      /\ cost \in {NoAmount, call[c].shipping} /\ cost \in Amount
  BY <1>1 DEF CallRow, Amount
<1>4. /\ done \in SUBSET CartSteps /\ cart[c].set \subseteq done
      /\ answered => what \in done
  BY <1>1, <1>2 DEF CartRow
<1>5. call' = [call EXCEPT ![c] = at]
  BY <1>1, <1>2 DEF CartInv, CartTypes
<1>b. /\ cart[c].price \in CartPrice /\ shelf["cultura"].price \in CartPrice
      /\ cart[c].again \in BOOLEAN
  BY <1>1 DEF CallFits, Filled, CartRow, CartInv, CartTypes, Shop
<1>n. now \in CartPrice /\ anew \in BOOLEAN /\ now \in Amount
  BY <1>b DEF Amount
<1>6. cart' = [cart EXCEPT ![c] = box]
  <2>1. CASE served
    BY <1>1, <1>p, <2>1 DEF CartInv, CartTypes
  <2>2. CASE ~served
    <3>1. anew = cart[c].again
      BY <1>b, <2>2
    <3>2. done = cart[c].set /\ now = cart[c].price
      BY <2>2
    <3>3. box = cart[c]
      BY <1>1, <3>1, <3>2 DEF CartRow
    <3> QED BY <1>1, <1>2, <2>2, <3>3 DEF CartInv, CartTypes
  <2> QED BY <2>1, <2>2
<1>m. anew \/ (now = cart[c].price /\ anew = cart[c].again)
  BY <1>b
<1>7. ~answered => next = "quote"
  OBVIOUS
<1> HIDE DEF next, cost, done, now, anew
<1>8. /\ at \in CallRow /\ at.pc = next /\ at.shop = "cultura" /\ at.shipping = cost
      /\ at.quantity = call[c].quantity /\ at.row = call[c].row
      /\ at.looked = call[c].looked /\ at.counted = call[c].counted
  BY <1>1, <1>3 DEF CallRow, Pcs
<1>9. /\ box \in CartRow /\ box.set = done /\ box.units = cart[c].units
      /\ box.price = now /\ box.again = anew /\ box.shipping = cart[c].shipping
  BY <1>1, <1>4, <1>n DEF CartRow
<1> HIDE DEF at, box
<1>10. CallFits(c, at, box)
  <2>1. Asked(at) /\ Fresh(at, box) /\ Looked(at) /\ Quoted(c, at, box)
    BY <1>1, <1>3, <1>8 DEF CallFits, Asked, Fresh, Looked, Quoted
  <2>2. Filled(at, box)
    BY <1>1, <1>3, <1>8, <1>9, <1>n, <1>m DEF CallFits, Filled
  <2>3. Advanced(at, box)
    BY <1>1, <1>3, <1>4, <1>7, <1>8, <1>9 DEF CallFits, Advanced
  <2> QED BY <2>1, <2>2, <2>3 DEF CallFits
<1>11. answered => CheckoutState[state] \subseteq box.set
  BY <1>1, <1>4, <1>9, CheckoutStates DEF CallFits, Advanced
<1>12. \/ confirmed' = confirmed
       \/ /\ confirmed' = [confirmed EXCEPT ![ConnectorOf(c)] = state]
          /\ CheckoutState[state] \subseteq box.set
  BY <1>2, <1>11 DEF StateOnceAnswered, Reports
<1> QED BY <1>1, <1>4, <1>5, <1>6, <1>8, <1>9, <1>10, <1>12, CallAdvances

\* The cheapest method is chosen, if there is one.
LEMMA ChooseMethodKeeps ==
  ASSUME CartInv, NEW c \in Caller, ChooseMethod(c) PROVE CartInv'
<1>1. /\ call[c].pc = "methods"
      /\ call[c] \in CallRow /\ cart[c] \in CartRow /\ CallFits(c, call[c], cart[c])
      /\ UNCHANGED <<profile, shelf, confirmed>>
  BY DEF ChooseMethod, CartInv, CartTypes, CallsFit
<1>2. PICK cost \in Amount :
        /\ call' = [call EXCEPT ![c].shipping = cost,
                                ![c].pc = IF cost = NoAmount THEN "quote" ELSE "method"]
        /\ cart' = [cart EXCEPT ![c].shipping = cost]
  BY DEF ChooseMethod
<1> DEFINE next == IF cost = NoAmount THEN "quote" ELSE "method"
           at == [call[c] EXCEPT !.shipping = cost, !.pc = next]
           box == [cart[c] EXCEPT !.shipping = cost]
<1>3. next \in {"quote", "method"}
  OBVIOUS
<1>4. call' = [call EXCEPT ![c] = at] /\ cart' = [cart EXCEPT ![c] = box]
  BY <1>1, <1>2 DEF CartInv, CartTypes
<1> HIDE DEF next
<1>5. /\ at \in CallRow /\ at.pc = next /\ at.shop = call[c].shop
      /\ at.shipping = cost /\ at.quantity = call[c].quantity /\ at.row = call[c].row
      /\ at.looked = call[c].looked /\ at.counted = call[c].counted
  BY <1>1, <1>3 DEF CallRow, Pcs
<1>6. /\ box \in CartRow /\ box.set = cart[c].set /\ box.units = cart[c].units
      /\ box.price = cart[c].price /\ box.shipping = cost /\ box.again = cart[c].again
  BY <1>1 DEF CartRow
<1> HIDE DEF at, box
<1>7. CallFits(c, at, box)
  BY <1>1, <1>3, <1>5, <1>6 DEF CallFits, Asked, Fresh, Looked, Filled, Advanced, Quoted
<1> QED BY <1>1, <1>4, <1>5, <1>6, <1>7, CallAdvances

\* A quantity of units comes to no less than one of them.
LEMMA TimesCovers ==
  ASSUME NEW n \in Nat \ {0}, NEW m \in Nat
  PROVE  n * m \in Nat /\ n * m >= m
<1>1. PICK k \in Nat : n = k + 1
  <2>1. n - 1 \in Nat /\ n = (n - 1) + 1
    OBVIOUS
  <2> QED BY <2>1
<1>2. n * m = k * m + m /\ k * m \in Nat
  BY <1>1
<1> QED BY <1>2

\* The quote of a buyer covers its cart.
LEMMA QuoteKeeps == ASSUME CartInv, NEW c \in Caller, Quote(c) PROVE CartInv'
<1> DEFINE n == call[c].quantity
           due == cart[c].units * cart[c].price
           total == QuotedTotal(c)
           answer == AnswerOf(TRUE, total, call[c].shipping)
<1>1. /\ call[c].pc = "quote"
      /\ call[c] \in CallRow /\ cart[c] \in CartRow /\ CallFits(c, call[c], cart[c])
      /\ cart' = [cart EXCEPT ![c] = cart[c]]
      /\ Answers(c, answer) /\ UNCHANGED <<profile, shelf, confirmed>>
  BY DEF Quote, CartInv, CartTypes, CallsFit
<1>2. /\ n \in Nat \ {0} /\ call[c].row \in Nat /\ call[c].looked \in Nat
      /\ call[c].shipping \in {NoAmount, cart[c].shipping} /\ call[c].shipping \in Amount
      /\ call[c].counted => cart[c].units = n
      /\ cart[c].again => call[c].shop = "cultura"
      /\ \/ call[c].row = due
         \/ cart[c].again
         \/ call[c].shop = "ucp" /\ call[c].row = 0
  BY <1>1, MerchantCartsAssumption
  DEF CallFits, Asked, Looked, Filled, CallRow, CartRow
<1>3. /\ total \in {call[c].row, n * call[c].row, n * call[c].looked}
      /\ \/ call[c].shop = "ucp" /\ call[c].row = 0
         \/ total \in {call[c].row, n * call[c].row}
  BY <1>2 DEF QuotedTotal
<1>4. total \in Nat
  BY <1>2, <1>3, TimesCovers
<1>5. total >= call[c].row \/ (call[c].shop = "ucp" /\ call[c].row = 0)
  BY <1>2, <1>3, TimesCovers
<1> HIDE DEF total
<1>6. /\ answer \in Answer /\ answer.available /\ answer.total = total
      /\ answer.shipping = call[c].shipping
  BY <1>2, <1>4 DEF AnswerOf, Answer
<1> HIDE DEF answer
<1>7. PICK at \in CallRow :
        /\ call' = [call EXCEPT ![c] = at]
        /\ at.pc = "answered" /\ at.answer = answer
        /\ at.shop = call[c].shop /\ at.quantity = n
        /\ at.row = call[c].row /\ at.counted = call[c].counted
  BY <1>1, <1>6, AnsweredRow
<1>8. CallFits(c, at, cart[c])
  <2>1. Asked(at) /\ Fresh(at, cart[c]) /\ Looked(at) /\ Filled(at, cart[c])
        /\ Advanced(at, cart[c])
    BY <1>1, <1>7 DEF CallFits, Asked, Fresh, Looked, Filled, Advanced
  <2>2. Quoted(c, at, cart[c])
    BY <1>2, <1>5, <1>6, <1>7 DEF Quoted
  <2> QED BY <2>1, <2>2 DEF CallFits
<1> QED BY <1>1, <1>7, <1>8, CallAdvances

\* The shop moves.
LEMMA ShelfMovesKeeps ==
  ASSUME CartInv, NEW s \in Shop, NEW price \in CartPrice, NEW left \in 0..2,
         ShelfMoves(s, price, left)
  PROVE  CartInv'
<1>1. CartTypes'
  BY DEF CartInv, CartTypes, ShelfMoves
<1>2. CallsFit' /\ StatesAreConfirmed'
  BY DEF CartInv, CallsFit, StatesAreConfirmed, ShelfMoves
<1> QED BY <1>1, <1>2 DEF CartInv

\* Every request, answer and move of a shop keeps the invariant.
LEMMA CartInvStep == CartInv /\ [CartNext]_cartVars => CartInv'
<1> SUFFICES ASSUME CartInv, [CartNext]_cartVars PROVE CartInv'
  OBVIOUS
<1>1. ASSUME NEW c \in Caller, CallSteps(c) PROVE CartInv'
  <2>1. CASE LookUp(c)
    BY <2>1, LookUpKeeps
  <2>2. CASE RequestFails(c) \/ ProductGone(c)
    BY <2>2, FailureKeeps
  <2>3. CASE OpenCart(c)
    BY <2>3, OpenCartKeeps
  <2>4. CASE AddToCart(c)
    BY <2>4, AddToCartKeeps
  <2>5. CASE UpdateAddress(c)
    BY <2>5, UpdateAddressKeeps
  <2>6. CASE SetShippingAddress(c)
    BY <2>6, AdvancesKeeps, CheckoutStates DEF SetShippingAddress, Pcs, CartSteps
  <2>7. CASE ChooseMethod(c)
    BY <2>7, ChooseMethodKeeps
  <2>8. CASE SetShippingMethod(c)
    BY <2>8, AdvancesKeeps, CheckoutStates DEF SetShippingMethod, Pcs, CartSteps
  <2>9. CASE SetBillingAddress(c)
    BY <2>9, AdvancesKeeps, CheckoutStates DEF SetBillingAddress, Pcs, CartSteps
  <2>10. CASE Quote(c)
    BY <2>10, QuoteKeeps
  <2>11. CASE NoDelivery(c)
    BY <2>11, RefusalKeeps DEF NoDelivery
  <2> QED BY <1>1, <2>1, <2>2, <2>3, <2>4, <2>5, <2>6, <2>7, <2>8, <2>9, <2>10, <2>11
      DEF CallSteps
<1>2. ASSUME NEW c \in Buyer, NEW s \in Shop, NEW q \in CartQuantity, Revalidate(c, s, q)
      PROVE  CartInv'
  BY <1>2, BeginsKeeps, MerchantCartsAssumption DEF Revalidate, Caller
<1>3. ASSUME NEW c \in Buyer, Checkout(c) PROVE CartInv'
  BY <1>3, CheckoutKeeps DEF Caller
<1>4. CASE PaymentSetup
  BY <1>4, BeginsKeeps DEF PaymentSetup, Caller, Shop
<1>5. ASSUME NEW s \in Shop, NEW p \in CartPrice, NEW n \in 0..2, ShelfMoves(s, p, n)
      PROVE  CartInv'
  BY <1>5, ShelfMovesKeeps
<1>6. CASE UNCHANGED cartVars
  BY <1>6 DEF cartVars, CartInv, CartTypes, CallsFit, StatesAreConfirmed
<1> QED BY <1>1, <1>2, <1>3, <1>4, <1>5, <1>6 DEF CartNext

\* The invariant holds in every state the callers and the shops can reach.
THEOREM CartsInvariant == CartSpec => []CartInv
BY CartInvInit, CartInvStep, PTL DEF CartSpec

\* The state of the connectors (purchase/merchants) has its type.
THEOREM CartTypesHold == CartSpec => []CartTypeOK
<1>1. CartInv => CartTypeOK
  BY DEF CartInv, CartTypes, CartTypeOK, CartRow, CallRow, Answer
<1> QED BY <1>1, CartsInvariant, PTL

\* Whatever a shop changes between two requests, a quote that says available comes to
\* no less than the items in the cart (cultura.py, fuji_store.py and
\* shopify_ucp.py::revalidate), but for a cart that Cultura totals again after the add
\* and for a UCP checkout without a total; and last_checkout_state reports no step that
\* no caller's cart has been through (cultura.py::_advance_shipping_and_billing).
THEOREM CartsAreTold == CartSpec => []CartsAreToldTruly
<1>1. CartInv => QuotesCoverCarts
  <2> SUFFICES ASSUME CartInv, NEW c \in Buyer PROVE Quoted(c, call[c], cart[c])
    BY DEF QuotesCoverCarts, Quoted
  <2> QED BY DEF CartInv, CallsFit, CallFits, Caller
<1>2. CartInv => CartsAreToldTruly
  BY <1>1 DEF CartInv, CartsAreToldTruly
<1> QED BY <1>2, CartsInvariant, PTL
=============================================================================
