------------------------------ MODULE Matching ------------------------------
(***************************************************************************)
(* The two matchers: discovery/matcher.py decides whether a page found by  *)
(* a search is linked to a product, products/matcher.py how far what a     *)
(* check sees on the linked page is the product (engine/decision.py trades *)
(* from MIN_FINANCIAL_MATCH_CONFIDENCE on).  They read different           *)
(* identifiers, in different spellings and from different places: a search *)
(* shows the shop's SKU for an MPN and mostly no EAN, a check what the     *)
(* page says of both; and only the second one is asked again.              *)
(***************************************************************************)
EXTENDS Naturals, FiniteSets

CONSTANTS
  Word,           \* the descriptive words of names
  SetCode,        \* set codes (me04)
  Tongue,         \* languages (fr)
  Packing,        \* product types
  PackingWords,   \* the words that spell a product type
  Spelling,       \* ways to write a code that the second matcher normalises
  Digits, Part,   \* EAN/GTIN numbers, MPN numbers
  Blank,          \* a code of which nothing is left once it is normalised
  NoId            \* the value of what is not known

MinFinancialMatchConfidence == 80

ASSUME MatchingAssumption ==
  /\ IsFiniteSet(Word) /\ IsFiniteSet(SetCode) /\ IsFiniteSet(Tongue)
  /\ PackingWords \in [Packing -> SUBSET Word]
  /\ NoId \notin SetCode \cup Tongue \cup Packing /\ Blank # NoId
  /\ {NoId, Blank} \cap ((Digits \cup Part) \X Spelling) = {}

VARIABLES
  wanted,     \* the product
  onPage,      \* the page as the search showed it
  seen,       \* the page as the last check saw it, with the result of the check
  linked      \* the verdict on the page

matchVars == <<wanted, onPage, seen, linked>>

Ean == (Digits \X Spelling) \cup {Blank, NoId}
Mpn == (Part \X Spelling) \cup {Blank, NoId}

Name == [code : SetCode \cup {NoId}, tongue : Tongue \cup {NoId},
         packing : Packing \cup {NoId}, words : SUBSET Word]

Unchecked == [ean |-> NoId, mpn |-> NoId, here |-> FALSE, matched |-> FALSE,
              confidence |-> 0]

-----------------------------------------------------------------------------
(* Discovery: extract_attributes and classify_candidate. *)

Known(v) == {v} \ {NoId}

\* The words of a name; those that spell its type are words like the others.
Tokens(n) ==
  n.words \cup Known(n.code) \cup Known(n.tongue)
    \cup UNION {PackingWords[t] : t \in Known(n.packing)}

BothKnown(a, b) == a # NoId /\ b # NoId

Disagree(n, m) ==
  \E part \in {"code", "tongue", "packing"} :
    BothKnown(n[part], m[part]) /\ n[part] # m[part]

Agree(n, m) ==
  \A part \in {"code", "tongue", "packing"} : n[part] = m[part] /\ n[part] # NoId

\* The verdict on two names that do not disagree.
ByName(n, m) ==
  LET shared == Tokens(n) \cap Tokens(m)
      others == shared \ {n.code, n.tongue} IN
  IF Tokens(n) = {} THEN "candidate"
  ELSE IF 10 * Cardinality(shared) < 3 * Cardinality(Tokens(n)) THEN "no_match"
  ELSE IF \/ Tokens(n) = Tokens(m)
          \/ Agree(n, m) /\ Cardinality(others) >= 2
  THEN "auto_link" ELSE "candidate"

ByNames(n, m) == IF Disagree(n, m) THEN "no_match" ELSE ByName(n, m)

\* (slip) Names that agree are not held against identifiers.
NamesFirst(product, page) ==
  IF ByNames(product.name, page.name) = "auto_link" THEN "auto_link"
  ELSE IF BothKnown(product.ean, page.ean) /\ product.ean = page.ean
  THEN "auto_link" ELSE "no_match"

\* Codes are compared as they are written, the product's gtin is not read.
Classify(product, page) ==
  IF BothKnown(product.ean, page.ean)
  THEN IF product.ean = page.ean THEN "auto_link" ELSE "no_match"
  ELSE IF BothKnown(product.mpn, page.mpn)
  THEN IF product.mpn = page.mpn THEN "auto_link" ELSE "no_match"
  ELSE ByNames(product.name, page.name)

-----------------------------------------------------------------------------
(* Checks: match_product. *)

\* _normalize_gtin, _normalize_mpn: the code, however it is written; none is left of
\* an EAN without a digit and of blanks.
Normalized(ids) == {id[1] : id \in ids \ {NoId, Blank}}

Matches(confidence) == [matched |-> TRUE, confidence |-> confidence]
Differs             == [matched |-> FALSE, confidence |-> 0]

\* What two sets of codes say, when both say something.
Conclusive(ours, theirs) == Normalized(ours) # {} /\ Normalized(theirs) # {}
Meet(ours, theirs)       == Normalized(ours) \cap Normalized(theirs) # {}

\* The listing is always given, and both its number and the page's are known: the
\* names are never reached.
Matched(product, page, here) ==
  LET eans == {product.ean, product.gtin} IN
  IF Conclusive(eans, {page.ean})
  THEN IF Meet(eans, {page.ean}) THEN Matches(100) ELSE Differs
  ELSE IF Conclusive({product.mpn}, {page.mpn})
  THEN IF Meet({product.mpn}, {page.mpn}) THEN Matches(90) ELSE Differs
  ELSE IF here THEN Matches(80) ELSE Differs

Tradable(result) ==
  result.matched /\ result.confidence >= MinFinancialMatchConfidence

-----------------------------------------------------------------------------
MatchInit(product, page) ==
  /\ wanted = product /\ onPage = page
  /\ seen = Unchecked /\ linked = "no"

\* A search shows the page.
Link ==
  /\ linked = "no"
  /\ linked' = Classify(wanted, onPage)
  /\ UNCHANGED <<wanted, onPage, seen>>

\* A check of the linked page: it reads the page's own EAN and MPN, which may be
\* others than the search showed, or none; the page may have gone to another article.
SeePage(ean, mpn, here) ==
  LET result == Matched(wanted, [onPage EXCEPT !.ean = ean, !.mpn = mpn], here) IN
  /\ linked = "auto_link"
  /\ seen' = [ean |-> ean, mpn |-> mpn, here |-> here, matched |-> result.matched,
              confidence |-> result.confidence]
  /\ UNCHANGED <<wanted, onPage, linked>>

MatchNext ==
  \/ Link
  \/ \E ean \in Ean, mpn \in Mpn, here \in BOOLEAN : SeePage(ean, mpn, here)

AnyProduct == [ean : Ean, gtin : Ean, mpn : Mpn, name : Name]
AnyPage    == [ean : Ean, mpn : Mpn, name : Name]

MatchSpec ==
  /\ \E product \in AnyProduct, page \in AnyPage : MatchInit(product, page)
  /\ [][MatchNext]_matchVars

-----------------------------------------------------------------------------
(* Properties *)

MatchTypeOK ==
  /\ onPage.ean \in Ean /\ onPage.mpn \in Mpn /\ onPage.name \in Name
  /\ linked \in {"no", "auto_link", "candidate", "no_match"}
  /\ seen.matched \in BOOLEAN /\ seen.confidence \in 0..100

\* The code that a check reads is not the product's.
Refutes(ours, theirs) == Conclusive(ours, theirs) /\ ~Meet(ours, theirs)

\* A check refuses a page that discovery linked, and that is still there, only for a
\* code that the search did not hold against the product: another EAN than the search
\* showed, or the product's GTIN, which the search does not read; another MPN than the
\* search showed, or one it passed over for the EANs, which the check does not see or
\* which have no digit.  With none of these the page can be bought: a link by EAN, MPN
\* or name is not undone by the spelling of a code or by a code that is missing.
LinksAreTradable ==
  LET eans == {wanted.ean, wanted.gtin}
      byEan == BothKnown(wanted.ean, onPage.ean) IN
  (linked = "auto_link" /\ seen # Unchecked /\ seen.here) =>
    \/ Tradable(seen)
    \/ /\ Refutes(eans, {seen.ean})
       /\ seen.ean # onPage.ean \/ wanted.ean = NoId
    \/ /\ Refutes({wanted.mpn}, {seen.mpn}) /\ ~Conclusive(eans, {seen.ean})
       /\ seen.mpn # onPage.mpn \/ byEan
=============================================================================
