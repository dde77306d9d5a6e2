--------------------------- MODULE DiscoveryProofs ---------------------------
(***************************************************************************)
(* Proofs about what the worker discovers: the pages that are linked to    *)
(* products (Catalogue), for any merchants, pages and products, and the    *)
(* keyword watches (KeywordWatch), for any watches, shops and listings;    *)
(* for any number of commands and restarts.                                *)
(***************************************************************************)
EXTENDS Catalogue, KeywordWatch, TLAPS, WellFoundedInduction

-----------------------------------------------------------------------------
(* The catalogue: what two processes that link pages, switch products and  *)
(* die at any commit leave in the tables.                                  *)

\* The steps of a link once the merchant is on record, and of a switch.
AfterMerchant == {"listing", "newProduct", "newListing", "rule", "newRule"}
LinkStep      == {"search", "next", "merchant", "newMerchant"} \cup AfterMerchant
SwitchStep    == {"status", "list", "switch"}

Job == [pc      : {"none"} \cup LinkStep \cup SwitchStep,
        kind    : {"none", "discover", "add", "import", "switch"},
        product : ProductId \cup {NoProduct},
        since   : 0..(MaxCatalogueClock + 1),
        pages   : SUBSET Page, page : Page \cup {NoPage},
        rules   : SUBSET Nat, status : {"none", "active", "disabled"}]

CTypes ==
  /\ merchantRow \subseteq Merchant
  /\ productRow \in [ProductId -> {"none", "active", "disabled"}]
  /\ discoveredAt \in [ProductId -> 0..(MaxCatalogueClock + 1)]
  /\ owner \in [Page -> ProductId \cup {NoProduct}]
  /\ ruleRow \subseteq Rule /\ lastRule \in Nat
  /\ discovering \in BOOLEAN
  /\ job \in [Actor -> Job]
  /\ doubled \subseteq Page /\ leftOn \subseteq ProductId
  /\ jobs \in Nat /\ catalogueClock \in 0..MaxCatalogueClock

\* Which steps belong to which job, and which job to which process.
JobFits ==
  /\ discovering = (job["worker"] # NoJob)
  /\ job["worker"].kind \in {"none", "discover"}
  /\ \A a \in Actor :
       /\ job[a].pc = "none" => job[a] = NoJob
       /\ job[a].kind = "none" <=> job[a].pc = "none"
       /\ job[a].kind = "switch" <=> job[a].pc \in SwitchStep
       /\ job[a].kind \in {"discover", "import", "switch"} => job[a].product \in ProductId
       /\ job[a].pc = "newProduct" => job[a].kind = "add"

\* What a job knows when it is past a read or an insert.
JobKnows ==
  \A a \in Actor :
    /\ job[a].pc \in {"merchant", "newMerchant"} \cup AfterMerchant => job[a].page \in Page
    /\ job[a].pc \in AfterMerchant => job[a].page[1] \in merchantRow
    /\ job[a].pc \in {"newListing", "rule", "newRule"} => job[a].product \in ProductId
    /\ job[a].pc \in {"rule", "newRule"} => owner[job[a].page] # NoProduct

\* Rules are of listings of their product, and no two have one id.
RulesFit ==
  /\ \A r \in ruleRow : /\ r.product \in ProductId
                        /\ owner[r.page] = r.product /\ r.page[1] \in merchantRow
                        /\ r.id <= lastRule
  /\ \A r, s \in ruleRow : r.id = s.id => r = s

\* A discovery or an import about to insert a rule has not seen one, and if there
\* is one by now its own insert was noticed.
FreshRules ==
  /\ DuplicatesNeedRace
  /\ \A a \in Actor :
       job[a].pc = "newRule" =>
         \/ job[a].kind = "add" \/ job[a].page \in doubled
         \/ \A r \in ruleRow : r.page # job[a].page

\* What a switch has still to do.
SwitchFits ==
  LET j == job["cli"] IN
  /\ j.pc \in SwitchStep => j.status \in {"active", "disabled"}
  /\ j.pc \in {"list", "switch"} => productRow[j.product] = j.status
  /\ j.pc = "switch" =>
       /\ \A i \in j.rules : i <= lastRule
       /\ \A r \in ruleRow : r.id \in j.rules => r.product = j.product
       /\ \A r \in ruleRow :
            r.product = j.product /\ j.status = "disabled" /\ r.enabled
              => r.id \in j.rules \/ j.product \in leftOn

CatalogueInv ==
  /\ CTypes /\ JobFits /\ JobKnows /\ RulesFit /\ FreshRules /\ SwitchFits
  /\ DisabledProductsRest

-----------------------------------------------------------------------------

\* A set of numbers has a least one: NextProduct is a product.
LEMMA Least ==
  ASSUME NEW T \in SUBSET Nat, T # {}
  PROVE  \E x \in T : \A y \in T : x <= y
<1>1. \E x \in T : \A y \in T : ~ (<<y, x>> \in OpToRel(<, Nat))
  BY NatLessThanWellFounded, WFMin
<1>2. PICK x \in T : \A y \in T : ~ (<<y, x>> \in OpToRel(<, Nat))
  BY <1>1
<1>3. ASSUME NEW y \in T, ~ (x <= y) PROVE FALSE
  <2>1. <<y, x>> \in OpToRel(<, Nat)
    BY <1>3 DEF OpToRel
  <2> QED BY <1>2, <2>1, Zenon
<1> QED BY <1>3

LEMMA NextProductIsProduct == DueProduct # {} => NextProduct \in ProductId
<1> SUFFICES ASSUME DueProduct # {} PROVE NextProduct \in ProductId
  OBVIOUS
<1> DEFINE best == IF DueProduct \cap Urgent = {} THEN DueProduct
                   ELSE DueProduct \cap Urgent
<1>1. best \in SUBSET Nat /\ best # {} /\ best \subseteq ProductId
  BY CatalogueAssumption DEF DueProduct, Product
<1>2. PICK x \in best : \A y \in best : x <= y
  <2> HIDE DEF best
  <2> QED BY <1>1, Least
<1> QED BY <1>1, <1>2 DEF NextProduct

\* What a job is before it starts, and when it has just begun.
LEMMA NoJobIs ==
  /\ NoJob \in Job
  /\ NoJob.pc = "none" /\ NoJob.kind = "none"
  /\ NoJob.product = NoProduct /\ NoJob.page = NoPage /\ NoJob.rules = {}
  /\ NoJob.status = "none" /\ NoJob.pages = {}
BY CatalogueAssumption DEF NoJob, Job

LEMMA BeganIs ==
  ASSUME CTypes, NEW k \in {"discover", "add", "import", "switch"},
         NEW q \in ProductId \cup {NoProduct}
  PROVE  /\ Began(k, q) \in Job
         /\ Began(k, q).kind = k /\ Began(k, q).product = q
         /\ Began(k, q).page = NoPage /\ Began(k, q).rules = {}
         /\ Began(k, q).status = "none"
<1>1. catalogueClock + 1 \in 0..(MaxCatalogueClock + 1)
  BY CatalogueAssumption DEF CTypes
<1>2. NoJob \in Job /\ NoJob.status = "none"
  BY NoJobIs DEF NoJob
<1> QED BY <1>1, <1>2, NoJobIs DEF Began, Job

\* Each step of the worker, of a command and of the world keeps the invariant.
LEMMA CatalogueInvStep == CatalogueInv /\ [CatalogueNext]_catalogueVars => CatalogueInv'
<1> USE CatalogueAssumption
<1> SUFFICES ASSUME CatalogueInv, [CatalogueNext]_catalogueVars PROVE CatalogueInv'
  OBVIOUS
<1> USE DEF CatalogueInv
<1>1. CASE StartDiscovery
  <2>p. NextProduct \in ProductId
    BY <1>1, NextProductIsProduct DEF StartDiscovery
  <2>a. /\ job' \in [Actor -> Job]
        /\ \A b \in Actor \ {"worker"} : job'[b] = job[b]
        /\ job'["worker"].pc = "search"
        /\ job'["worker"].kind = "discover"
        /\ job'["worker"].product = NextProduct
        /\ job'["worker"].page = NoPage
        /\ job'["worker"].rules = {}
        /\ job'["worker"].status = "none"
    <3> DEFINE first == Began("discover", NextProduct)
    <3> DEFINE begun == [first EXCEPT !.pc = "search"]
    <3>1. /\ first \in Job /\ first.kind = "discover" /\ first.product = NextProduct
          /\ first.page = NoPage /\ first.rules = {} /\ first.status = "none"
      <4>1. NextProduct \in ProductId \cup {NoProduct}
        BY <2>p
      <4>2. "discover" \in {"discover", "add", "import", "switch"}
        OBVIOUS
      <4> HIDE DEF begun
      <4> QED BY <4>1, <4>2, BeganIs
    <3> HIDE DEF first
    <3>2. begun \in Job
      BY <3>1 DEF Job, LinkStep, SwitchStep, AfterMerchant
    <3>3. begun.pc = "search" /\ begun.kind = "discover" /\ begun.product = NextProduct
          /\ begun.page = NoPage /\ begun.rules = {} /\ begun.status = "none"
      BY <3>1 DEF Job
    <3> HIDE DEF begun
    <3>4. job' = [job EXCEPT !["worker"] = begun]
      BY <1>1 DEF JobFits, StartDiscovery, first, begun
    <3> QED BY <3>2, <3>3, <3>4 DEF CTypes, Actor
  <2>b. /\ job["worker"] = NoJob
        /\ UNCHANGED <<merchantRow, productRow, discoveredAt, owner,
                   ruleRow, lastRule, doubled, leftOn, jobs, catalogueClock>>
        /\ discovering' = TRUE
    BY <1>1 DEF JobFits, StartDiscovery, catalogueRows, catalogueHistory
  <2>1. CTypes'
    BY <2>a, <2>b, NoJobIs, <2>p DEF CTypes, JobKnows, Job, Actor, AfterMerchant,
       Rule
  <2>2. JobFits'
    <3>1. job'["worker"] # NoJob /\ discovering' = TRUE
      BY <2>a, <2>b, NoJobIs
    <3>2. discovering' = (job'["worker"] # NoJob)
      BY <3>1
    <3> QED BY <2>a, <2>b, <2>p, <3>2, NoJobIs DEF CTypes, JobFits, Actor, SwitchStep
  <2>3. JobKnows'
    BY <2>a, <2>b, NoJobIs, <2>p DEF CTypes, Job, JobFits, JobKnows, Actor,
       AfterMerchant
  <2>4. RulesFit'
    BY <2>a, <2>b, NoJobIs, <2>p DEF CTypes, JobKnows, RulesFit, Rule,
       AfterMerchant, Actor, Job
  <2>5. FreshRules'
    BY <2>a, <2>b, NoJobIs, <2>p DEF CTypes, JobFits, FreshRules,
       DuplicatesNeedRace, Rule, Actor
  <2>6. SwitchFits'
    BY <2>a, <2>b, NoJobIs, <2>p DEF CTypes, JobFits, SwitchFits, RulesFit, Rule,
       Actor, SwitchStep
  <2>7. DisabledProductsRest'
    BY <2>a, <2>b, NoJobIs, <2>p DEF CTypes, JobFits, SwitchFits, RulesFit,
       DisabledProductsRest, Rule, Actor, SwitchStep
  <2> QED BY <2>1, <2>2, <2>3, <2>4, <2>5, <2>6, <2>7
<1>2. CASE TickWithoutDiscovery
  <2>1. CTypes'
    BY <1>2 DEF TickWithoutDiscovery, catalogueVars, catalogueRows,
       catalogueHistory, catalogueBounds, CTypes, Job, JobFits, JobKnows, Actor,
       AfterMerchant, LinkStep, SwitchStep, NoJob, Rule
  <2>2. JobFits'
    BY <1>2 DEF TickWithoutDiscovery, catalogueVars, catalogueRows,
       catalogueHistory, catalogueBounds, CTypes, Job, JobFits, JobKnows, Actor,
       AfterMerchant, LinkStep, SwitchStep, NoJob
  <2>3. JobKnows'
    BY <1>2 DEF TickWithoutDiscovery, catalogueVars, catalogueRows,
       catalogueHistory, catalogueBounds, CTypes, Job, JobFits, JobKnows, Actor,
       AfterMerchant, LinkStep, SwitchStep, NoJob
  <2>4. RulesFit'
    BY <1>2 DEF TickWithoutDiscovery, catalogueVars, catalogueRows,
       catalogueHistory, catalogueBounds, CTypes, JobKnows, RulesFit, Rule,
       AfterMerchant, Actor, Job
  <2>5. FreshRules'
    BY <1>2 DEF TickWithoutDiscovery, catalogueVars, catalogueRows,
       catalogueHistory, catalogueBounds, CTypes, JobFits, FreshRules,
       DuplicatesNeedRace, Rule, Actor, Job, NoJob
  <2>6. SwitchFits'
    BY <1>2 DEF TickWithoutDiscovery, catalogueVars, catalogueRows,
       catalogueHistory, catalogueBounds, CTypes, JobFits, SwitchFits, RulesFit,
       Rule, Actor, SwitchStep, Job, NoJob
  <2>7. DisabledProductsRest'
    BY <1>2 DEF TickWithoutDiscovery, catalogueVars, catalogueRows,
       catalogueHistory, catalogueBounds, CTypes, JobFits, SwitchFits, RulesFit,
       DisabledProductsRest, Rule, Actor, SwitchStep, Job, NoJob
  <2> QED BY <2>1, <2>2, <2>3, <2>4, <2>5, <2>6, <2>7
<1>3. ASSUME NEW p \in ProductId, CliDiscover(p)
      PROVE  CatalogueInv'
  <2>a. /\ job' \in [Actor -> Job]
        /\ \A b \in Actor \ {"cli"} : job'[b] = job[b]
        /\ job["cli"] = NoJob
        /\ job'["cli"].pc = "search"
        /\ job'["cli"].kind = "discover"
        /\ job'["cli"].product = p
        /\ job'["cli"].page = NoPage
        /\ job'["cli"].rules = {}
        /\ job'["cli"].status = "none"
    <3> DEFINE first == Began("discover", p)
    <3> DEFINE begun == [first EXCEPT !.pc = "search"]
    <3>1. /\ first \in Job /\ first.kind = "discover" /\ first.product = p
          /\ first.page = NoPage /\ first.rules = {} /\ first.status = "none"
      <4>1. p \in ProductId \cup {NoProduct}
        OBVIOUS
      <4>2. "discover" \in {"discover", "add", "import", "switch"}
        OBVIOUS
      <4> HIDE DEF begun
      <4> QED BY <4>1, <4>2, BeganIs
    <3> HIDE DEF first
    <3>2. begun \in Job
      BY <3>1 DEF Job, LinkStep, SwitchStep, AfterMerchant
    <3>3. begun.pc = "search" /\ begun.kind = "discover" /\ begun.product = p
          /\ begun.page = NoPage /\ begun.rules = {} /\ begun.status = "none"
      BY <3>1 DEF Job
    <3> HIDE DEF begun
    <3>4. job' = [job EXCEPT !["cli"] = begun] /\ job["cli"] = NoJob
      BY <1>3 DEF CliDiscover, StartCommand, first, begun
    <3> QED BY <3>2, <3>3, <3>4 DEF CTypes, Actor
  <2>b. /\ UNCHANGED <<merchantRow, productRow, discoveredAt, owner,
                   ruleRow, lastRule, discovering, doubled, leftOn,
                   catalogueClock>>
        /\ jobs' = jobs + 1
    BY <1>3 DEF CliDiscover, StartCommand, catalogueRows, catalogueHistory
  <2>1. CTypes'
    BY <2>a, <2>b, NoJobIs DEF CTypes, JobKnows, Job, Actor, AfterMerchant, Rule
  <2>2. JobFits'
    BY <2>a, <2>b, NoJobIs DEF CTypes, JobFits, Actor, SwitchStep
  <2>3. JobKnows'
    BY <2>a, <2>b, NoJobIs DEF CTypes, Job, JobFits, JobKnows, Actor, AfterMerchant
  <2>4. RulesFit'
    BY <2>a, <2>b, NoJobIs DEF CTypes, JobKnows, RulesFit, Rule, AfterMerchant,
       Actor, Job
  <2>5. FreshRules'
    BY <2>a, <2>b, NoJobIs DEF CTypes, JobFits, FreshRules, DuplicatesNeedRace,
       Rule, Actor
  <2>6. SwitchFits'
    BY <2>a, <2>b, NoJobIs DEF CTypes, JobFits, SwitchFits, RulesFit, Rule, Actor,
       SwitchStep
  <2>7. DisabledProductsRest'
    BY <2>a, <2>b, NoJobIs DEF CTypes, JobFits, SwitchFits, RulesFit,
       DisabledProductsRest, Rule, Actor, SwitchStep
  <2> QED BY <2>1, <2>2, <2>3, <2>4, <2>5, <2>6, <2>7
<1>4. ASSUME NEW p \in ProductId, AddProduct(p)
      PROVE  CatalogueInv'
  <2>a. /\ job' \in [Actor -> Job]
        /\ \A b \in Actor \ {"cli"} : job'[b] = job[b]
        /\ job["cli"] = NoJob
        /\ job'["cli"].pc = "search"
        /\ job'["cli"].kind = "discover"
        /\ job'["cli"].product = p
        /\ job'["cli"].page = NoPage
        /\ job'["cli"].rules = {}
        /\ job'["cli"].status = "none"
    <3> DEFINE first == Began("discover", p)
    <3> DEFINE begun == [first EXCEPT !.pc = "search"]
    <3>1. /\ first \in Job /\ first.kind = "discover" /\ first.product = p
          /\ first.page = NoPage /\ first.rules = {} /\ first.status = "none"
      <4>1. p \in ProductId \cup {NoProduct}
        OBVIOUS
      <4>2. "discover" \in {"discover", "add", "import", "switch"}
        OBVIOUS
      <4> HIDE DEF begun
      <4> QED BY <4>1, <4>2, BeganIs
    <3> HIDE DEF first
    <3>2. begun \in Job
      BY <3>1 DEF Job, LinkStep, SwitchStep, AfterMerchant
    <3>3. begun.pc = "search" /\ begun.kind = "discover" /\ begun.product = p
          /\ begun.page = NoPage /\ begun.rules = {} /\ begun.status = "none"
      BY <3>1 DEF Job
    <3> HIDE DEF begun
    <3>4. job' = [job EXCEPT !["cli"] = begun] /\ job["cli"] = NoJob
      BY <1>4 DEF AddProduct, StartCommand, first, begun
    <3> QED BY <3>2, <3>3, <3>4 DEF CTypes, Actor
  <2>b. /\ UNCHANGED <<merchantRow, discoveredAt, owner, ruleRow,
                   lastRule, discovering, doubled, leftOn, catalogueClock>>
        /\ jobs' = jobs + 1
        /\ productRow' = [productRow EXCEPT ![p] = "active"]
        /\ productRow[p] = "none"
    BY <1>4 DEF AddProduct, StartCommand, catalogueRows, catalogueHistory
  <2>1. CTypes'
    BY <2>a, <2>b, NoJobIs DEF CTypes, JobKnows, Job, Actor, AfterMerchant, Rule
  <2>2. JobFits'
    BY <2>a, <2>b, NoJobIs DEF CTypes, JobFits, Actor, SwitchStep
  <2>3. JobKnows'
    BY <2>a, <2>b, NoJobIs DEF CTypes, Job, JobFits, JobKnows, Actor, AfterMerchant
  <2>4. RulesFit'
    BY <2>a, <2>b, NoJobIs DEF CTypes, JobKnows, RulesFit, Rule, AfterMerchant,
       Actor, Job
  <2>5. FreshRules'
    BY <2>a, <2>b, NoJobIs DEF CTypes, JobFits, FreshRules, DuplicatesNeedRace,
       Rule, Actor
  <2>6. SwitchFits'
    BY <2>a, <2>b, NoJobIs DEF CTypes, JobFits, SwitchFits, RulesFit, Rule, Actor,
       SwitchStep
  <2>7. DisabledProductsRest'
    BY <2>a, <2>b, NoJobIs DEF CTypes, JobFits, SwitchFits, RulesFit,
       DisabledProductsRest, Rule, Actor, SwitchStep
  <2> QED BY <2>1, <2>2, <2>3, <2>4, <2>5, <2>6, <2>7
<1>5. ASSUME NEW p \in ProductId, InsertProduct(p)
      PROVE  CatalogueInv'
  <2>a. /\ job' \in [Actor -> Job]
        /\ \A b \in Actor \ {"cli"} : job'[b] = job[b]
        /\ job["cli"].pc = "newProduct"
        /\ job'["cli"].pc = "newListing"
        /\ job'["cli"].product = p
        /\ job'["cli"].kind = job["cli"].kind
        /\ job'["cli"].page = job["cli"].page
        /\ job'["cli"].pages = job["cli"].pages
        /\ job'["cli"].rules = job["cli"].rules
        /\ job'["cli"].status = job["cli"].status
    BY ZenonT(60), <1>5 DEF InsertProduct, CTypes, Job, Actor, LinkStep, SwitchStep,
       AfterMerchant
  <2>b. /\ UNCHANGED <<merchantRow, discoveredAt, owner, ruleRow,
                   lastRule, discovering, doubled, leftOn, jobs, catalogueClock>>
        /\ productRow' = [productRow EXCEPT ![p] = "active"]
        /\ productRow[p] = "none"
    BY <1>5 DEF InsertProduct, catalogueHistory, catalogueBounds
  <2>1. CTypes'
    BY <2>a, <2>b, NoJobIs DEF CTypes, JobKnows, Job, Actor, AfterMerchant, Rule
  <2>2. JobFits'
    BY <2>a, <2>b, NoJobIs DEF CTypes, JobFits, Actor, SwitchStep
  <2>3. JobKnows'
    BY <2>a, <2>b, NoJobIs DEF CTypes, Job, JobFits, JobKnows, Actor, AfterMerchant
  <2>4. RulesFit'
    BY <2>a, <2>b, NoJobIs DEF CTypes, JobKnows, RulesFit, Rule, AfterMerchant,
       Actor, Job
  <2>5. FreshRules'
    BY <2>a, <2>b, NoJobIs DEF CTypes, JobFits, FreshRules, DuplicatesNeedRace,
       Rule, Actor
  <2>6. SwitchFits'
    BY <2>a, <2>b, NoJobIs DEF CTypes, JobFits, SwitchFits, RulesFit, Rule, Actor,
       SwitchStep
  <2>7. DisabledProductsRest'
    BY <2>a, <2>b, NoJobIs DEF CTypes, JobFits, SwitchFits, RulesFit,
       DisabledProductsRest, Rule, Actor, SwitchStep
  <2> QED BY <2>1, <2>2, <2>3, <2>4, <2>5, <2>6, <2>7
<1>6. ASSUME NEW g \in Page, Add(g)
      PROVE  CatalogueInv'
  <2>a. /\ job' \in [Actor -> Job]
        /\ \A b \in Actor \ {"cli"} : job'[b] = job[b]
        /\ job["cli"] = NoJob
        /\ job'["cli"].pc = "merchant"
        /\ job'["cli"].kind = "add"
        /\ job'["cli"].product = NoProduct
        /\ job'["cli"].page = g
        /\ job'["cli"].rules = {}
        /\ job'["cli"].status = "none"
    <3> DEFINE first == Began("add", NoProduct)
    <3> DEFINE begun == [first EXCEPT !.pc = "merchant", !.page = g]
    <3>1. /\ first \in Job /\ first.kind = "add" /\ first.product = NoProduct
          /\ first.page = NoPage /\ first.rules = {} /\ first.status = "none"
      <4>1. NoProduct \in ProductId \cup {NoProduct}
        OBVIOUS
      <4>2. "add" \in {"discover", "add", "import", "switch"}
        OBVIOUS
      <4> HIDE DEF begun
      <4> QED BY <4>1, <4>2, BeganIs
    <3> HIDE DEF first
    <3>2. begun \in Job
      BY <3>1 DEF Job, LinkStep, SwitchStep, AfterMerchant
    <3>3. begun.pc = "merchant" /\ begun.kind = "add" /\ begun.product = NoProduct
          /\ begun.page = g /\ begun.rules = {} /\ begun.status = "none"
      BY <3>1 DEF Job
    <3> HIDE DEF begun
    <3>4. job' = [job EXCEPT !["cli"] = begun] /\ job["cli"] = NoJob
      BY <1>6 DEF Add, StartCommand, first, begun
    <3> QED BY <3>2, <3>3, <3>4 DEF CTypes, Actor
  <2>b. /\ UNCHANGED <<merchantRow, productRow, discoveredAt, owner,
                   ruleRow, lastRule, discovering, doubled, leftOn,
                   catalogueClock>>
        /\ jobs' = jobs + 1
    BY <1>6 DEF Add, StartCommand, catalogueRows, catalogueHistory
  <2>1. CTypes'
    BY <2>a, <2>b, NoJobIs DEF CTypes, JobKnows, Job, Actor, AfterMerchant, Rule
  <2>2. JobFits'
    BY <2>a, <2>b, NoJobIs DEF CTypes, JobFits, Actor, SwitchStep
  <2>3. JobKnows'
    BY <2>a, <2>b, NoJobIs DEF CTypes, Job, JobFits, JobKnows, Actor, AfterMerchant
  <2>4. RulesFit'
    BY <2>a, <2>b, NoJobIs DEF CTypes, JobKnows, RulesFit, Rule, AfterMerchant,
       Actor, Job
  <2>5. FreshRules'
    BY <2>a, <2>b, NoJobIs DEF CTypes, JobFits, FreshRules, DuplicatesNeedRace,
       Rule, Actor
  <2>6. SwitchFits'
    BY <2>a, <2>b, NoJobIs DEF CTypes, JobFits, SwitchFits, RulesFit, Rule, Actor,
       SwitchStep
  <2>7. DisabledProductsRest'
    BY <2>a, <2>b, NoJobIs DEF CTypes, JobFits, SwitchFits, RulesFit,
       DisabledProductsRest, Rule, Actor, SwitchStep
  <2> QED BY <2>1, <2>2, <2>3, <2>4, <2>5, <2>6, <2>7
<1>7. ASSUME NEW p \in ProductId, NEW pages \in SUBSET Page, ImportManifest(p, pages)
      PROVE  CatalogueInv'
  <2>a. /\ job' \in [Actor -> Job]
        /\ \A b \in Actor \ {"cli"} : job'[b] = job[b]
        /\ job["cli"] = NoJob
        /\ job'["cli"].pc = "next"
        /\ job'["cli"].kind = "import"
        /\ job'["cli"].product = p
        /\ job'["cli"].page = NoPage
        /\ job'["cli"].rules = {}
        /\ job'["cli"].status = "none"
    <3> DEFINE first == Began("import", p)
    <3> DEFINE begun == [first EXCEPT !.pc = "next", !.pages = pages]
    <3>1. /\ first \in Job /\ first.kind = "import" /\ first.product = p
          /\ first.page = NoPage /\ first.rules = {} /\ first.status = "none"
      <4>1. p \in ProductId \cup {NoProduct}
        OBVIOUS
      <4>2. "import" \in {"discover", "add", "import", "switch"}
        OBVIOUS
      <4> HIDE DEF begun
      <4> QED BY <4>1, <4>2, BeganIs
    <3> HIDE DEF first
    <3>2. begun \in Job
      BY <3>1 DEF Job, LinkStep, SwitchStep, AfterMerchant
    <3>3. begun.pc = "next" /\ begun.kind = "import" /\ begun.product = p
          /\ begun.page = NoPage /\ begun.rules = {} /\ begun.status = "none"
      BY <3>1 DEF Job
    <3> HIDE DEF begun
    <3>4. job' = [job EXCEPT !["cli"] = begun] /\ job["cli"] = NoJob
      BY <1>7 DEF ImportManifest, StartCommand, first, begun
    <3> QED BY <3>2, <3>3, <3>4 DEF CTypes, Actor
  <2>b. /\ UNCHANGED <<merchantRow, discoveredAt, owner, ruleRow,
                   lastRule, discovering, doubled, leftOn, catalogueClock>>
        /\ jobs' = jobs + 1
        /\ productRow' = [productRow EXCEPT ![p] = IF @ = "none" THEN "active" ELSE @]
    BY <1>7 DEF ImportManifest, StartCommand, catalogueRows, catalogueHistory
  <2>1. CTypes'
    BY <2>a, <2>b, NoJobIs DEF CTypes, JobKnows, Job, Actor, AfterMerchant, Rule
  <2>2. JobFits'
    BY <2>a, <2>b, NoJobIs DEF CTypes, JobFits, Actor, SwitchStep
  <2>3. JobKnows'
    BY <2>a, <2>b, NoJobIs DEF CTypes, Job, JobFits, JobKnows, Actor, AfterMerchant
  <2>4. RulesFit'
    BY <2>a, <2>b, NoJobIs DEF CTypes, JobKnows, RulesFit, Rule, AfterMerchant,
       Actor, Job
  <2>5. FreshRules'
    BY <2>a, <2>b, NoJobIs DEF CTypes, JobFits, FreshRules, DuplicatesNeedRace,
       Rule, Actor
  <2>6. SwitchFits'
    BY <2>a, <2>b, NoJobIs DEF CTypes, JobFits, SwitchFits, RulesFit, Rule, Actor,
       SwitchStep
  <2>7. DisabledProductsRest'
    BY <2>a, <2>b, NoJobIs DEF CTypes, JobFits, SwitchFits, RulesFit,
       DisabledProductsRest, Rule, Actor, SwitchStep
  <2> QED BY <2>1, <2>2, <2>3, <2>4, <2>5, <2>6, <2>7
<1>8. ASSUME NEW r \in ruleRow, DeleteRule(r)
      PROVE  CatalogueInv'
  <2>1. CTypes'
    BY <1>8 DEF DeleteRule, StartCommand, CTypes, Job, JobFits, JobKnows, Actor,
       AfterMerchant, LinkStep, SwitchStep, NoJob, Rule
  <2>2. JobFits'
    BY <1>8 DEF DeleteRule, StartCommand, CTypes, Job, JobFits, JobKnows, Actor,
       AfterMerchant, LinkStep, SwitchStep, NoJob
  <2>3. JobKnows'
    BY <1>8 DEF DeleteRule, StartCommand, CTypes, Job, JobFits, JobKnows, Actor,
       AfterMerchant, LinkStep, SwitchStep, NoJob
  <2>4. RulesFit'
    BY <1>8 DEF DeleteRule, StartCommand, CTypes, JobKnows, RulesFit, Rule,
       AfterMerchant, Actor, Job
  <2>5. FreshRules'
    BY <1>8 DEF DeleteRule, StartCommand, CTypes, JobFits, FreshRules,
       DuplicatesNeedRace, Rule, Actor, Job, NoJob
  <2>6. SwitchFits'
    BY <1>8 DEF DeleteRule, StartCommand, CTypes, JobFits, SwitchFits, RulesFit,
       Rule, Actor, SwitchStep, Job, NoJob
  <2>7. DisabledProductsRest'
    BY <1>8 DEF DeleteRule, StartCommand, CTypes, JobFits, SwitchFits, RulesFit,
       DisabledProductsRest, Rule, Actor, SwitchStep, Job, NoJob
  <2> QED BY <2>1, <2>2, <2>3, <2>4, <2>5, <2>6, <2>7
<1>9. ASSUME NEW r \in ruleRow, SwitchRule(r)
      PROVE  CatalogueInv'
  <2>a. /\ job' \in [Actor -> Job]
        /\ \A b \in Actor \ {"cli"} : job'[b] = job[b]
        /\ job["cli"].pc = "switch"
        /\ job'["cli"].rules = job["cli"].rules \ {r.id}
        /\ job'["cli"].pc = job["cli"].pc
        /\ job'["cli"].kind = job["cli"].kind
        /\ job'["cli"].product = job["cli"].product
        /\ job'["cli"].page = job["cli"].page
        /\ job'["cli"].pages = job["cli"].pages
        /\ job'["cli"].status = job["cli"].status
    BY <1>9 DEF SwitchRule, CTypes, Job, Actor, LinkStep, SwitchStep,
       AfterMerchant
  <2>b. /\ UNCHANGED <<merchantRow, productRow, discoveredAt, owner,
                   lastRule, discovering, doubled, leftOn, jobs, catalogueClock>>
        /\ ruleRow' = (ruleRow \ {r})
                        \cup {[r EXCEPT !.enabled = job["cli"].status = "active"]}
        /\ r.id \in job["cli"].rules
    BY <1>9 DEF SwitchRule, Enabled, catalogueHistory, catalogueBounds
  <2>1. CTypes'
    <3> DEFINE on  == job["cli"].status = "active"
    <3> DEFINE new == [r EXCEPT !.enabled = on]
    <3>1. on \in BOOLEAN /\ r \in Rule
      BY DEF CTypes
    <3>2. ruleRow' = (ruleRow \ {r}) \cup {new}
      BY <2>b
    <3> HIDE DEF on
    <3>3. new \in Rule
      BY <3>1 DEF Rule
    <3> HIDE DEF new
    <3> QED BY <2>a, <2>b, <3>2, <3>3 DEF CTypes
  <2>2. JobFits'
    BY <2>a, <2>b, NoJobIs DEF CTypes, JobFits, Actor, SwitchStep
  <2>3. JobKnows'
    BY <2>a, <2>b, NoJobIs DEF CTypes, Job, JobFits, JobKnows, Actor, AfterMerchant
  <2>4. RulesFit'
    BY <2>a, <2>b, NoJobIs DEF CTypes, JobKnows, RulesFit, Rule, AfterMerchant,
       Actor, Job
  <2>5. FreshRules'
    BY <2>a, <2>b, NoJobIs DEF CTypes, JobFits, FreshRules, DuplicatesNeedRace,
       Rule, Actor
  <2>6. SwitchFits'
    <3> DEFINE new == [r EXCEPT !.enabled = job["cli"].status = "active"]
    <3>1. /\ r \in Rule
          /\ new.id = r.id /\ new.product = r.product
          /\ new.enabled <=> job["cli"].status = "active"
      BY DEF CTypes, Rule
    <3>2. ruleRow' = (ruleRow \ {r}) \cup {new}
      BY <2>b
    <3> HIDE DEF new
    <3>3. \A x \in ruleRow : x.id = r.id => x = r
      BY DEF RulesFit
    <3>4. \A x \in ruleRow \ {r} : x.id \in job["cli"].rules
                                  => x.id \in job'["cli"].rules
      BY <2>a, <3>3
    <3> QED BY <2>a, <2>b, <3>1, <3>2, <3>4 DEF SwitchFits, SwitchStep
  <2>7. DisabledProductsRest'
    BY <2>a, <2>b, NoJobIs DEF CTypes, JobFits, SwitchFits, RulesFit,
       DisabledProductsRest, Rule, Actor, SwitchStep
  <2> QED BY <2>1, <2>2, <2>3, <2>4, <2>5, <2>6, <2>7
<1>10. ASSUME NEW p \in ProductId, NEW status \in {"active", "disabled"}, SwitchProduct(p, status)
      PROVE  CatalogueInv'
  <2>a. /\ job' \in [Actor -> Job]
        /\ \A b \in Actor \ {"cli"} : job'[b] = job[b]
        /\ job["cli"] = NoJob
        /\ job'["cli"].pc = "status"
        /\ job'["cli"].kind = "switch"
        /\ job'["cli"].product = p
        /\ job'["cli"].page = NoPage
        /\ job'["cli"].rules = {}
        /\ job'["cli"].status = status
    <3> DEFINE first == Began("switch", p)
    <3> DEFINE begun == [first EXCEPT !.pc = "status", !.status = status]
    <3>1. /\ first \in Job /\ first.kind = "switch" /\ first.product = p
          /\ first.page = NoPage /\ first.rules = {} /\ first.status = "none"
      <4>1. p \in ProductId \cup {NoProduct}
        OBVIOUS
      <4>2. "switch" \in {"discover", "add", "import", "switch"}
        OBVIOUS
      <4> HIDE DEF begun
      <4> QED BY <4>1, <4>2, BeganIs
    <3> HIDE DEF first
    <3>2. begun \in Job
      BY <3>1 DEF Job, LinkStep, SwitchStep, AfterMerchant
    <3>3. begun.pc = "status" /\ begun.kind = "switch" /\ begun.product = p
          /\ begun.page = NoPage /\ begun.rules = {} /\ begun.status = status
      BY <3>1 DEF Job
    <3> HIDE DEF begun
    <3>4. job' = [job EXCEPT !["cli"] = begun] /\ job["cli"] = NoJob
      BY <1>10 DEF SwitchProduct, StartCommand, first, begun
    <3> QED BY <3>2, <3>3, <3>4 DEF CTypes, Actor
  <2>b. /\ UNCHANGED <<merchantRow, productRow, discoveredAt, owner,
                   ruleRow, lastRule, discovering, doubled, leftOn,
                   catalogueClock>>
        /\ jobs' = jobs + 1
    BY <1>10 DEF SwitchProduct, StartCommand, catalogueRows, catalogueHistory
  <2>1. CTypes'
    BY <2>a, <2>b, NoJobIs DEF CTypes, JobKnows, Job, Actor, AfterMerchant, Rule
  <2>2. JobFits'
    BY <2>a, <2>b, NoJobIs DEF CTypes, JobFits, Actor, SwitchStep
  <2>3. JobKnows'
    BY <2>a, <2>b, NoJobIs DEF CTypes, Job, JobFits, JobKnows, Actor, AfterMerchant
  <2>4. RulesFit'
    BY <2>a, <2>b, NoJobIs DEF CTypes, JobKnows, RulesFit, Rule, AfterMerchant,
       Actor, Job
  <2>5. FreshRules'
    BY <2>a, <2>b, NoJobIs DEF CTypes, JobFits, FreshRules, DuplicatesNeedRace,
       Rule, Actor
  <2>6. SwitchFits'
    BY <2>a, <2>b, NoJobIs DEF CTypes, JobFits, SwitchFits, RulesFit, Rule, Actor,
       SwitchStep
  <2>7. DisabledProductsRest'
    BY <2>a, <2>b, NoJobIs DEF CTypes, JobFits, SwitchFits, RulesFit,
       DisabledProductsRest, Rule, Actor, SwitchStep
  <2> QED BY <2>1, <2>2, <2>3, <2>4, <2>5, <2>6, <2>7
<1>11. CASE WriteStatus
  <2>a. /\ job' \in [Actor -> Job]
        /\ \A b \in Actor \ {"cli"} : job'[b] = job[b]
        /\ job["cli"].pc = "status"
        /\ job'["cli"].pc = "list"
        /\ job'["cli"].kind = job["cli"].kind
        /\ job'["cli"].product = job["cli"].product
        /\ job'["cli"].page = job["cli"].page
        /\ job'["cli"].pages = job["cli"].pages
        /\ job'["cli"].rules = job["cli"].rules
        /\ job'["cli"].status = job["cli"].status
    BY <1>11 DEF WriteStatus, CTypes, Job, Actor, LinkStep, SwitchStep,
       AfterMerchant
  <2>b. /\ UNCHANGED <<merchantRow, discoveredAt, owner, ruleRow,
                   lastRule, discovering, doubled, jobs, catalogueClock>>
        /\ productRow' = [productRow EXCEPT ![job["cli"].product] = job["cli"].status]
        /\ leftOn' = leftOn \ {job["cli"].product}
    BY <1>11 DEF WriteStatus, catalogueBounds
  <2>1. CTypes'
    BY <2>a, <2>b, NoJobIs DEF CTypes, JobKnows, Job, Actor, AfterMerchant, Rule
  <2>2. JobFits'
    BY <2>a, <2>b, NoJobIs DEF CTypes, JobFits, Actor, SwitchStep
  <2>3. JobKnows'
    BY <2>a, <2>b, NoJobIs DEF CTypes, Job, JobFits, JobKnows, Actor, AfterMerchant
  <2>4. RulesFit'
    BY <2>a, <2>b, NoJobIs DEF CTypes, JobKnows, RulesFit, Rule, AfterMerchant,
       Actor, Job
  <2>5. FreshRules'
    BY <2>a, <2>b, NoJobIs DEF CTypes, JobFits, FreshRules, DuplicatesNeedRace,
       Rule, Actor
  <2>6. SwitchFits'
    BY <2>a, <2>b, NoJobIs DEF CTypes, JobFits, SwitchFits, RulesFit, Rule, Actor,
       SwitchStep
  <2>7. DisabledProductsRest'
    BY <2>a, <2>b, NoJobIs DEF CTypes, JobFits, SwitchFits, RulesFit,
       DisabledProductsRest, Rule, Actor, SwitchStep
  <2> QED BY <2>1, <2>2, <2>3, <2>4, <2>5, <2>6, <2>7
<1>12. CASE ListRules
  <2>a. /\ job' \in [Actor -> Job]
        /\ \A b \in Actor \ {"cli"} : job'[b] = job[b]
        /\ job["cli"].pc = "list"
        /\ job'["cli"].pc = "switch"
        /\ job'["cli"].rules = RulesToSwitch(job["cli"].product)
        /\ job'["cli"].kind = job["cli"].kind
        /\ job'["cli"].product = job["cli"].product
        /\ job'["cli"].page = job["cli"].page
        /\ job'["cli"].pages = job["cli"].pages
        /\ job'["cli"].status = job["cli"].status
    <3>1. RulesToSwitch(job["cli"].product) \in SUBSET Nat
      BY DEF RulesToSwitch, CTypes, Rule
    <3>2. job' = [job EXCEPT !["cli"].pc = "switch",
                             !["cli"].rules = RulesToSwitch(job["cli"].product)]
          /\ job["cli"].pc = "list"
      BY <1>12 DEF ListRules
    <3> QED BY ZenonT(60), <3>1, <3>2 DEF CTypes, Job, Actor, SwitchStep
  <2>b. /\ UNCHANGED <<merchantRow, productRow, discoveredAt, owner,
                   ruleRow, lastRule, discovering, doubled, leftOn, jobs,
                   catalogueClock>>
    BY <1>12 DEF ListRules, catalogueRows, catalogueHistory,
       catalogueBounds
  <2>1. CTypes'
    BY <2>a, <2>b, NoJobIs DEF CTypes, JobKnows, Job, Actor, AfterMerchant, Rule
  <2>2. JobFits'
    BY <2>a, <2>b, NoJobIs DEF CTypes, JobFits, Actor, SwitchStep
  <2>3. JobKnows'
    BY <2>a, <2>b, NoJobIs DEF CTypes, Job, JobFits, JobKnows, Actor, AfterMerchant
  <2>4. RulesFit'
    BY <2>a, <2>b, NoJobIs DEF CTypes, JobKnows, RulesFit, Rule, AfterMerchant,
       Actor, Job
  <2>5. FreshRules'
    BY <2>a, <2>b, NoJobIs DEF CTypes, JobFits, FreshRules, DuplicatesNeedRace,
       Rule, Actor
  <2>6. SwitchFits'
    <3>1. /\ \A i \in RulesToSwitch(job["cli"].product) : i <= lastRule
          /\ \A r \in ruleRow :
               r.id \in RulesToSwitch(job["cli"].product) <=> r.product = job["cli"].product
      BY DEF RulesToSwitch, RulesFit
    <3> QED BY <2>a, <2>b, <3>1 DEF SwitchFits, SwitchStep
  <2>7. DisabledProductsRest'
    BY <2>a, <2>b, NoJobIs DEF CTypes, JobFits, SwitchFits, RulesFit,
       DisabledProductsRest, Rule, Actor, SwitchStep
  <2> QED BY <2>1, <2>2, <2>3, <2>4, <2>5, <2>6, <2>7
<1>13. CASE EndSwitch
  <2>1. CTypes'
    BY <1>13 DEF EndSwitch, catalogueRows, catalogueHistory, catalogueBounds,
       CTypes, Job, JobFits, JobKnows, Actor, AfterMerchant, LinkStep, SwitchStep,
       NoJob, Rule
  <2>2. JobFits'
    BY <1>13 DEF EndSwitch, catalogueRows, catalogueHistory, catalogueBounds,
       CTypes, Job, JobFits, JobKnows, Actor, AfterMerchant, LinkStep, SwitchStep,
       NoJob
  <2>3. JobKnows'
    BY <1>13 DEF EndSwitch, catalogueRows, catalogueHistory, catalogueBounds,
       CTypes, Job, JobFits, JobKnows, Actor, AfterMerchant, LinkStep, SwitchStep,
       NoJob
  <2>4. RulesFit'
    BY <1>13 DEF EndSwitch, catalogueRows, catalogueHistory, catalogueBounds,
       CTypes, JobKnows, RulesFit, Rule, AfterMerchant, Actor, Job
  <2>5. FreshRules'
    BY <1>13 DEF EndSwitch, catalogueRows, catalogueHistory, catalogueBounds,
       CTypes, JobFits, FreshRules, DuplicatesNeedRace, Rule, Actor, Job, NoJob
  <2>6. SwitchFits'
    BY <1>13 DEF EndSwitch, catalogueRows, catalogueHistory, catalogueBounds,
       CTypes, JobFits, SwitchFits, RulesFit, Rule, Actor, SwitchStep, Job, NoJob
  <2>7. DisabledProductsRest'
    BY <1>13 DEF EndSwitch, catalogueRows, catalogueHistory, catalogueBounds,
       CTypes, JobFits, SwitchFits, RulesFit, DisabledProductsRest, Rule, Actor,
       SwitchStep, Job, NoJob
  <2> QED BY <2>1, <2>2, <2>3, <2>4, <2>5, <2>6, <2>7
<1>14. ASSUME NEW a \in Actor, SearchEnds(a)
      PROVE  CatalogueInv'
  <2>a. /\ job' \in [Actor -> Job]
        /\ \A b \in Actor \ {a} : job'[b] = job[b]
        /\ job[a].pc = "search"
        /\ job'[a].pc = "next"
        /\ job'[a].kind = job[a].kind
        /\ job'[a].product = job[a].product
        /\ job'[a].page = job[a].page
        /\ job'[a].rules = job[a].rules
        /\ job'[a].status = job[a].status
    BY <1>14 DEF SearchEnds, CTypes, Job, Actor, LinkStep, SwitchStep,
       AfterMerchant
  <2>b. /\ UNCHANGED <<merchantRow, productRow, discoveredAt, owner,
                   ruleRow, lastRule, discovering, doubled, leftOn, jobs,
                   catalogueClock>>
    BY <1>14 DEF SearchEnds, catalogueRows, catalogueHistory, catalogueBounds
  <2>1. CTypes'
    BY <2>a, <2>b, NoJobIs DEF CTypes, JobKnows, Job, Actor, AfterMerchant, Rule
  <2>2. JobFits'
    BY <2>a, <2>b, NoJobIs DEF CTypes, JobFits, Actor, SwitchStep
  <2>3. JobKnows'
    BY <2>a, <2>b, NoJobIs DEF CTypes, Job, JobFits, JobKnows, Actor, AfterMerchant
  <2>4. RulesFit'
    BY <2>a, <2>b, NoJobIs DEF CTypes, JobKnows, RulesFit, Rule, AfterMerchant,
       Actor, Job
  <2>5. FreshRules'
    BY <2>a, <2>b, NoJobIs DEF CTypes, JobFits, FreshRules, DuplicatesNeedRace,
       Rule, Actor
  <2>6. SwitchFits'
    BY <2>a, <2>b, NoJobIs DEF CTypes, JobFits, SwitchFits, RulesFit, Rule, Actor,
       SwitchStep
  <2>7. DisabledProductsRest'
    BY <2>a, <2>b, NoJobIs DEF CTypes, JobFits, SwitchFits, RulesFit,
       DisabledProductsRest, Rule, Actor, SwitchStep
  <2> QED BY <2>1, <2>2, <2>3, <2>4, <2>5, <2>6, <2>7
<1>15. ASSUME NEW a \in Actor, EndPages(a)
      PROVE  CatalogueInv'
  <2>1. CTypes'
    BY <1>15 DEF EndPages, Ends, catalogueHistory, catalogueBounds, CTypes, Job,
       JobFits, JobKnows, Actor, AfterMerchant, LinkStep, SwitchStep, NoJob, Rule
  <2>2. JobFits'
    BY ZenonT(60), <1>15 DEF EndPages, Ends, catalogueHistory, catalogueBounds, CTypes, Job,
       JobFits, JobKnows, Actor, AfterMerchant, LinkStep, SwitchStep, NoJob
  <2>3. JobKnows'
    BY <1>15 DEF EndPages, Ends, catalogueHistory, catalogueBounds, CTypes, Job,
       JobFits, JobKnows, Actor, AfterMerchant, LinkStep, SwitchStep, NoJob
  <2>4. RulesFit'
    BY <1>15 DEF EndPages, Ends, catalogueHistory, catalogueBounds, CTypes,
       JobKnows, RulesFit, Rule, AfterMerchant, Actor, Job
  <2>5. FreshRules'
    BY <1>15 DEF EndPages, Ends, catalogueHistory, catalogueBounds, CTypes, JobFits,
       FreshRules, DuplicatesNeedRace, Rule, Actor, Job, NoJob
  <2>6. SwitchFits'
    BY <1>15 DEF EndPages, Ends, catalogueHistory, catalogueBounds, CTypes, JobFits,
       SwitchFits, RulesFit, Rule, Actor, SwitchStep, Job, NoJob
  <2>7. DisabledProductsRest'
    BY <1>15 DEF EndPages, Ends, catalogueHistory, catalogueBounds, CTypes, JobFits,
       SwitchFits, RulesFit, DisabledProductsRest, Rule, Actor, SwitchStep, Job,
       NoJob
  <2> QED BY <2>1, <2>2, <2>3, <2>4, <2>5, <2>6, <2>7
<1>16. ASSUME NEW a \in Actor, NEW g \in Page, NextPage(a, g)
      PROVE  CatalogueInv'
  <2>a. /\ job' \in [Actor -> Job]
        /\ \A b \in Actor \ {a} : job'[b] = job[b]
        /\ job[a].pc = "next"
        /\ job'[a].pc = "merchant"
        /\ job'[a].page = g
        /\ job'[a].kind = job[a].kind
        /\ job'[a].product = job[a].product
        /\ job'[a].rules = job[a].rules
        /\ job'[a].status = job[a].status
    BY <1>16 DEF NextPage, CTypes, Job, Actor, LinkStep, SwitchStep, AfterMerchant
  <2>b. /\ UNCHANGED <<merchantRow, productRow, discoveredAt, owner,
                   ruleRow, lastRule, discovering, doubled, leftOn, jobs,
                   catalogueClock>>
    BY <1>16 DEF NextPage, catalogueRows, catalogueHistory, catalogueBounds
  <2>1. CTypes'
    BY <2>a, <2>b, NoJobIs DEF CTypes, JobKnows, Job, Actor, AfterMerchant, Rule
  <2>2. JobFits'
    BY <2>a, <2>b, NoJobIs DEF CTypes, JobFits, Actor, SwitchStep
  <2>3. JobKnows'
    BY <2>a, <2>b, NoJobIs DEF CTypes, Job, JobFits, JobKnows, Actor, AfterMerchant
  <2>4. RulesFit'
    BY <2>a, <2>b, NoJobIs DEF CTypes, JobKnows, RulesFit, Rule, AfterMerchant,
       Actor, Job
  <2>5. FreshRules'
    BY <2>a, <2>b, NoJobIs DEF CTypes, JobFits, FreshRules, DuplicatesNeedRace,
       Rule, Actor
  <2>6. SwitchFits'
    BY <2>a, <2>b, NoJobIs DEF CTypes, JobFits, SwitchFits, RulesFit, Rule, Actor,
       SwitchStep
  <2>7. DisabledProductsRest'
    BY <2>a, <2>b, NoJobIs DEF CTypes, JobFits, SwitchFits, RulesFit,
       DisabledProductsRest, Rule, Actor, SwitchStep
  <2> QED BY <2>1, <2>2, <2>3, <2>4, <2>5, <2>6, <2>7
<1>17. ASSUME NEW a \in Actor, ReadMerchant(a)
      PROVE  CatalogueInv'
  <2>a. /\ job' \in [Actor -> Job]
        /\ \A b \in Actor \ {a} : job'[b] = job[b]
        /\ job[a].pc = "merchant"
        /\ job'[a].pc = (IF job[a].page[1] \in merchantRow THEN "listing" ELSE "newMerchant")
        /\ job'[a].kind = job[a].kind
        /\ job'[a].product = job[a].product
        /\ job'[a].page = job[a].page
        /\ job'[a].pages = job[a].pages
        /\ job'[a].rules = job[a].rules
        /\ job'[a].status = job[a].status
    BY <1>17 DEF ReadMerchant, Goes, CTypes, Job, Actor, LinkStep, SwitchStep,
       AfterMerchant
  <2>b. /\ UNCHANGED <<merchantRow, productRow, discoveredAt, owner,
                   ruleRow, lastRule, discovering, doubled, leftOn, jobs,
                   catalogueClock>>
    BY <1>17 DEF ReadMerchant, Goes, catalogueRows, catalogueHistory,
       catalogueBounds
  <2>1. CTypes'
    BY <2>a, <2>b, NoJobIs DEF CTypes, JobKnows, Job, Actor, AfterMerchant, Rule
  <2>2. JobFits'
    BY <2>a, <2>b, NoJobIs DEF CTypes, JobFits, Actor, SwitchStep
  <2>3. JobKnows'
    BY <2>a, <2>b, NoJobIs DEF CTypes, Job, JobFits, JobKnows, Actor, AfterMerchant
  <2>4. RulesFit'
    BY <2>a, <2>b, NoJobIs DEF CTypes, JobKnows, RulesFit, Rule, AfterMerchant,
       Actor, Job
  <2>5. FreshRules'
    BY <2>a, <2>b, NoJobIs DEF CTypes, JobFits, FreshRules, DuplicatesNeedRace,
       Rule, Actor
  <2>6. SwitchFits'
    BY <2>a, <2>b, NoJobIs DEF CTypes, JobFits, SwitchFits, RulesFit, Rule, Actor,
       SwitchStep
  <2>7. DisabledProductsRest'
    BY <2>a, <2>b, NoJobIs DEF CTypes, JobFits, SwitchFits, RulesFit,
       DisabledProductsRest, Rule, Actor, SwitchStep
  <2> QED BY <2>1, <2>2, <2>3, <2>4, <2>5, <2>6, <2>7
<1>18. ASSUME NEW a \in Actor, InsertMerchant(a)
      PROVE  CatalogueInv'
  <2>a. /\ job[a].pc = "newMerchant"
        /\ UNCHANGED <<productRow, discoveredAt, owner, ruleRow,
                   lastRule, doubled, leftOn, jobs, catalogueClock>>
        /\ merchantRow' = merchantRow \cup {job[a].page[1]}
    BY <1>18 DEF InsertMerchant, catalogueHistory, catalogueBounds
  <2> DEFINE ended ==
         /\ job' \in [Actor -> Job]
         /\ discovering' = (IF a = "worker" THEN FALSE ELSE discovering)
         /\ \A b \in Actor \ {a} : job'[b] = job[b]
         /\ job'[a] = NoJob
  <2> DEFINE moved ==
         /\ job' \in [Actor -> Job]
         /\ discovering' = discovering
         /\ \A b \in Actor \ {a} : job'[b] = job[b]
         /\ job'[a].pc = "listing"
         /\ job'[a].kind = job[a].kind
         /\ job'[a].product = job[a].product
         /\ job'[a].page = job[a].page
         /\ job'[a].pages = job[a].pages
         /\ job'[a].rules = job[a].rules
         /\ job'[a].status = job[a].status
  <2>b. ended \/ moved
    <3>1. NoJob \in Job
      BY NoJobIs
    <3>2. CASE /\ job' = [job EXCEPT ![a] = NoJob]
               /\ discovering' = (discovering /\ a # "worker")
      BY <3>1, <3>2 DEF CTypes, Actor
    <3>3. CASE /\ job' = [job EXCEPT ![a].pc = "listing"]
               /\ discovering' = discovering
      <4>1. job' \in [Actor -> Job]
        BY <2>a, <3>3 DEF CTypes, Actor, Job, LinkStep, SwitchStep, AfterMerchant
      <4>2. moved
        BY <2>a, <3>3, <4>1 DEF CTypes, Actor, Job
      <4> QED BY <4>2
    <3> QED
      BY <1>18, <3>2, <3>3 DEF InsertMerchant, Inserts, Goes, Ends
  <2>c. job[a].page \in Page /\ job[a].page[1] \in Merchant
    BY <2>a DEF JobKnows, AfterMerchant, Page
  <2>1. CTypes'
    <3>1. CASE ended
      BY ZenonT(60), <2>a, <3>1, NoJobIs, <2>c DEF CTypes, JobKnows, Job, Actor, AfterMerchant,
         Rule
    <3>2. CASE moved
      BY <2>a, <3>2, NoJobIs, <2>c DEF CTypes, JobKnows, Job, Actor, AfterMerchant,
         Rule
    <3> QED BY <2>b, <3>1, <3>2
  <2>2. JobFits'
    <3>1. CASE ended
      <4>1. CASE a = "worker"
        <5>1. job'["worker"] = NoJob /\ discovering' = FALSE
              /\ job'["cli"] = job["cli"]
          BY <3>1, <4>1 DEF Actor
        <5>2. discovering' = (job'["worker"] # NoJob)
          BY <5>1
        <5> QED BY <5>1, <5>2, NoJobIs DEF CTypes, JobFits, Actor, SwitchStep
      <4>2. CASE a = "cli"
        <5>1. job'["worker"] = job["worker"] /\ discovering' = discovering
              /\ job'["cli"] = NoJob
          BY <3>1, <4>2 DEF Actor
        <5> QED BY <5>1, NoJobIs DEF CTypes, JobFits, Actor, SwitchStep
      <4> QED BY <4>1, <4>2 DEF Actor
    <3>2. CASE moved
      BY <2>a, <3>2, NoJobIs DEF CTypes, JobFits, Actor, SwitchStep
    <3> QED BY <2>b, <3>1, <3>2
  <2>3. JobKnows'
    <3>1. CASE ended
      BY <2>a, <3>1, NoJobIs, <2>c DEF CTypes, Job, JobFits, JobKnows, Actor,
         AfterMerchant
    <3>2. CASE moved
      BY <2>a, <3>2, NoJobIs, <2>c DEF CTypes, Job, JobFits, JobKnows, Actor,
         AfterMerchant
    <3> QED BY <2>b, <3>1, <3>2
  <2>4. RulesFit'
    <3>1. CASE ended
      BY <2>a, <3>1, NoJobIs, <2>c DEF CTypes, JobKnows, RulesFit, Rule,
         AfterMerchant, Actor, Job
    <3>2. CASE moved
      BY <2>a, <3>2, NoJobIs, <2>c DEF CTypes, JobKnows, RulesFit, Rule,
         AfterMerchant, Actor, Job
    <3> QED BY <2>b, <3>1, <3>2
  <2>5. FreshRules'
    <3>1. CASE ended
      BY <2>a, <3>1, NoJobIs, <2>c DEF CTypes, JobFits, FreshRules,
         DuplicatesNeedRace, Rule, Actor
    <3>2. CASE moved
      BY <2>a, <3>2, NoJobIs, <2>c DEF CTypes, JobFits, FreshRules,
         DuplicatesNeedRace, Rule, Actor
    <3> QED BY <2>b, <3>1, <3>2
  <2>6. SwitchFits'
    <3>1. CASE ended
      BY <2>a, <3>1, NoJobIs, <2>c DEF CTypes, JobFits, SwitchFits, RulesFit, Rule,
         Actor, SwitchStep
    <3>2. CASE moved
      BY <2>a, <3>2, NoJobIs, <2>c DEF CTypes, JobFits, SwitchFits, RulesFit, Rule,
         Actor, SwitchStep
    <3> QED BY <2>b, <3>1, <3>2
  <2>7. DisabledProductsRest'
    <3>1. CASE ended
      BY <2>a, <3>1, NoJobIs, <2>c DEF CTypes, JobFits, SwitchFits, RulesFit,
         DisabledProductsRest, Rule, Actor, SwitchStep
    <3>2. CASE moved
      BY <2>a, <3>2, NoJobIs, <2>c DEF CTypes, JobFits, SwitchFits, RulesFit,
         DisabledProductsRest, Rule, Actor, SwitchStep
    <3> QED BY <2>b, <3>1, <3>2
  <2> QED BY <2>1, <2>2, <2>3, <2>4, <2>5, <2>6, <2>7
<1>19. ASSUME NEW a \in Actor, ReadListing(a)
      PROVE  CatalogueInv'
  <2> DEFINE add   == job[a].kind = "add"
  <2> DEFINE known == owner[job[a].page]
  <2> DEFINE after == IF known = NoProduct
                      THEN IF add THEN "newProduct" ELSE "newListing"
                      ELSE IF add THEN "newRule" ELSE "rule"
  <2> DEFINE product == IF add THEN known ELSE job[a].product
  <2>a. /\ job' \in [Actor -> Job]
        /\ \A b \in Actor \ {a} : job'[b] = job[b]
        /\ job[a].pc = "listing"
        /\ job'[a].pc = after
        /\ job'[a].product = product
        /\ job'[a].kind = job[a].kind
        /\ job'[a].page = job[a].page
        /\ job'[a].pages = job[a].pages
        /\ job'[a].rules = job[a].rules
        /\ job'[a].status = job[a].status
    <3>0. job[a].pc = "listing"
      BY <1>19 DEF ReadListing
    <3>1. after \in LinkStep /\ product \in ProductId \cup {NoProduct}
      BY <3>0 DEF CTypes, JobKnows, Job, LinkStep, AfterMerchant, Actor
    <3>2. job' = [job EXCEPT ![a].pc = after, ![a].product = product]
          /\ job[a].pc = "listing"
      BY <1>19 DEF ReadListing
    <3> HIDE DEF after, product
    <3> QED BY <3>1, <3>2 DEF CTypes, Job, Actor
  <2>b. /\ UNCHANGED <<merchantRow, productRow, discoveredAt, owner,
                   ruleRow, lastRule, discovering, doubled, leftOn, jobs,
                   catalogueClock>>
    BY <1>19 DEF ReadListing, catalogueRows, catalogueHistory, catalogueBounds
  <2>1. CTypes'
    BY <2>a, <2>b, NoJobIs DEF CTypes, JobKnows, Job, Actor, AfterMerchant, Rule
  <2>2. JobFits'
    BY <2>a, <2>b, NoJobIs DEF CTypes, JobFits, Actor, SwitchStep
  <2>3. JobKnows'
    BY <2>a, <2>b, NoJobIs DEF CTypes, Job, JobFits, JobKnows, Actor, AfterMerchant
  <2>4. RulesFit'
    BY <2>a, <2>b, NoJobIs DEF CTypes, JobKnows, RulesFit, Rule, AfterMerchant,
       Actor, Job
  <2>5. FreshRules'
    BY <2>a, <2>b, NoJobIs DEF CTypes, JobFits, FreshRules, DuplicatesNeedRace,
       Rule, Actor
  <2>6. SwitchFits'
    BY <2>a, <2>b, NoJobIs DEF CTypes, JobFits, SwitchFits, RulesFit, Rule, Actor,
       SwitchStep
  <2>7. DisabledProductsRest'
    BY <2>a, <2>b, NoJobIs DEF CTypes, JobFits, SwitchFits, RulesFit,
       DisabledProductsRest, Rule, Actor, SwitchStep
  <2> QED BY <2>1, <2>2, <2>3, <2>4, <2>5, <2>6, <2>7
<1>20. ASSUME NEW a \in Actor, InsertListing(a)
      PROVE  CatalogueInv'
  <2>a. /\ job[a].pc = "newListing"
        /\ UNCHANGED <<merchantRow, productRow, discoveredAt, ruleRow,
                   lastRule, doubled, leftOn, jobs, catalogueClock>>
        /\ owner' = IF owner[job[a].page] # NoProduct THEN owner
                   ELSE [owner EXCEPT ![job[a].page] = job[a].product]
    BY <1>20 DEF InsertListing, catalogueHistory, catalogueBounds
  <2> DEFINE ended ==
         /\ job' \in [Actor -> Job]
         /\ discovering' = (IF a = "worker" THEN FALSE ELSE discovering)
         /\ \A b \in Actor \ {a} : job'[b] = job[b]
         /\ job'[a] = NoJob
  <2> DEFINE moved ==
         /\ job' \in [Actor -> Job]
         /\ discovering' = discovering
         /\ \A b \in Actor \ {a} : job'[b] = job[b]
         /\ job'[a].pc = (IF job[a].kind = "add" THEN "newRule" ELSE "rule")
         /\ job'[a].kind = job[a].kind
         /\ job'[a].product = job[a].product
         /\ job'[a].page = job[a].page
         /\ job'[a].pages = job[a].pages
         /\ job'[a].rules = job[a].rules
         /\ job'[a].status = job[a].status
  <2>b. ended \/ moved
    <3>1. NoJob \in Job
      BY NoJobIs
    <3>2. CASE /\ job' = [job EXCEPT ![a] = NoJob]
               /\ discovering' = (discovering /\ a # "worker")
      BY <3>1, <3>2 DEF CTypes, Actor
    <3>3. CASE /\ job' = [job EXCEPT ![a].pc = (IF job[a].kind = "add" THEN "newRule" ELSE "rule")]
               /\ discovering' = discovering
      <4>1. job' \in [Actor -> Job]
        BY <2>a, <3>3 DEF CTypes, Actor, Job, LinkStep, SwitchStep, AfterMerchant
      <4>2. moved
        BY <2>a, <3>3, <4>1 DEF CTypes, Actor, Job
      <4> QED BY <4>2
    <3> QED
      BY <1>20, <3>2, <3>3 DEF InsertListing, Inserts, Goes, Ends
  <2>1. CTypes'
    <3>1. CASE ended
      BY <2>a, <3>1, NoJobIs DEF CTypes, JobKnows, Job, Actor, AfterMerchant, Rule
    <3>2. CASE moved
      BY <2>a, <3>2, NoJobIs DEF CTypes, JobKnows, Job, Actor, AfterMerchant, Rule
    <3> QED BY <2>b, <3>1, <3>2
  <2>2. JobFits'
    <3>1. CASE ended
      <4>1. CASE a = "worker"
        <5>1. job'["worker"] = NoJob /\ discovering' = FALSE
              /\ job'["cli"] = job["cli"]
          BY <3>1, <4>1 DEF Actor
        <5>2. discovering' = (job'["worker"] # NoJob)
          BY <5>1
        <5> QED BY <5>1, <5>2, NoJobIs DEF CTypes, JobFits, Actor, SwitchStep
      <4>2. CASE a = "cli"
        <5>1. job'["worker"] = job["worker"] /\ discovering' = discovering
              /\ job'["cli"] = NoJob
          BY <3>1, <4>2 DEF Actor
        <5> QED BY <5>1, NoJobIs DEF CTypes, JobFits, Actor, SwitchStep
      <4> QED BY <4>1, <4>2 DEF Actor
    <3>2. CASE moved
      BY <2>a, <3>2, NoJobIs DEF CTypes, JobFits, Actor, SwitchStep
    <3> QED BY <2>b, <3>1, <3>2
  <2>3. JobKnows'
    <3>1. CASE ended
      BY <2>a, <3>1, NoJobIs DEF CTypes, Job, JobFits, JobKnows, Actor,
         AfterMerchant
    <3>2. CASE moved
      BY <2>a, <3>2, NoJobIs DEF CTypes, Job, JobFits, JobKnows, Actor,
         AfterMerchant
    <3> QED BY <2>b, <3>1, <3>2
  <2>4. RulesFit'
    <3>1. CASE ended
      BY <2>a, <3>1, NoJobIs DEF CTypes, JobKnows, RulesFit, Rule, AfterMerchant,
         Actor, Job
    <3>2. CASE moved
      BY <2>a, <3>2, NoJobIs DEF CTypes, JobKnows, RulesFit, Rule, AfterMerchant,
         Actor, Job
    <3> QED BY <2>b, <3>1, <3>2
  <2>5. FreshRules'
    <3>1. CASE ended
      BY <2>a, <3>1, NoJobIs DEF CTypes, JobFits, FreshRules, DuplicatesNeedRace,
         Rule, Actor
    <3>2. CASE moved
      BY <2>a, <3>2, NoJobIs DEF CTypes, JobFits, FreshRules, DuplicatesNeedRace,
         Rule, Actor
    <3> QED BY <2>b, <3>1, <3>2
  <2>6. SwitchFits'
    <3>1. CASE ended
      BY <2>a, <3>1, NoJobIs DEF CTypes, JobFits, SwitchFits, RulesFit, Rule, Actor,
         SwitchStep
    <3>2. CASE moved
      BY <2>a, <3>2, NoJobIs DEF CTypes, JobFits, SwitchFits, RulesFit, Rule, Actor,
         SwitchStep
    <3> QED BY <2>b, <3>1, <3>2
  <2>7. DisabledProductsRest'
    <3>1. CASE ended
      BY <2>a, <3>1, NoJobIs DEF CTypes, JobFits, SwitchFits, RulesFit,
         DisabledProductsRest, Rule, Actor, SwitchStep
    <3>2. CASE moved
      BY <2>a, <3>2, NoJobIs DEF CTypes, JobFits, SwitchFits, RulesFit,
         DisabledProductsRest, Rule, Actor, SwitchStep
    <3> QED BY <2>b, <3>1, <3>2
  <2> QED BY <2>1, <2>2, <2>3, <2>4, <2>5, <2>6, <2>7
<1>21. ASSUME NEW a \in Actor, ReadRule(a)
      PROVE  CatalogueInv'
  <2>a. /\ job' \in [Actor -> Job]
        /\ \A b \in Actor \ {a} : job'[b] = job[b]
        /\ job[a].pc = "rule"
        /\ job'[a].pc = (IF RulesOf(job[a].page) # {} THEN "next" ELSE "newRule")
        /\ job'[a].kind = job[a].kind
        /\ job'[a].product = job[a].product
        /\ job'[a].page = job[a].page
        /\ job'[a].pages = job[a].pages
        /\ job'[a].rules = job[a].rules
        /\ job'[a].status = job[a].status
    BY <1>21 DEF ReadRule, Goes, Monitored, CTypes, Job, Actor, LinkStep,
       SwitchStep, AfterMerchant
  <2>b. /\ UNCHANGED <<merchantRow, productRow, discoveredAt, owner,
                   ruleRow, lastRule, discovering, doubled, leftOn, jobs,
                   catalogueClock>>
    BY <1>21 DEF ReadRule, Monitored, RulesOf, Goes, catalogueRows,
       catalogueHistory, catalogueBounds
  <2>c. job'[a].pc = "newRule" => \A r \in ruleRow : r.page # job[a].page
    BY <2>a DEF RulesOf
  <2>1. CTypes'
    BY <2>a, <2>b, NoJobIs, <2>c DEF CTypes, JobKnows, Job, Actor, AfterMerchant,
       Rule
  <2>2. JobFits'
    BY <2>a, <2>b, NoJobIs, <2>c DEF CTypes, JobFits, Actor, SwitchStep
  <2>3. JobKnows'
    BY <2>a, <2>b, NoJobIs, <2>c DEF CTypes, Job, JobFits, JobKnows, Actor,
       AfterMerchant
  <2>4. RulesFit'
    BY <2>a, <2>b, NoJobIs, <2>c DEF CTypes, JobKnows, RulesFit, Rule,
       AfterMerchant, Actor, Job
  <2>5. FreshRules'
    BY <2>a, <2>b, NoJobIs, <2>c DEF CTypes, JobFits, FreshRules,
       DuplicatesNeedRace, Rule, Actor
  <2>6. SwitchFits'
    BY <2>a, <2>b, NoJobIs, <2>c DEF CTypes, JobFits, SwitchFits, RulesFit, Rule,
       Actor, SwitchStep
  <2>7. DisabledProductsRest'
    BY <2>a, <2>b, NoJobIs, <2>c DEF CTypes, JobFits, SwitchFits, RulesFit,
       DisabledProductsRest, Rule, Actor, SwitchStep
  <2> QED BY <2>1, <2>2, <2>3, <2>4, <2>5, <2>6, <2>7
<1>22. ASSUME NEW a \in Actor, InsertRule(a)
      PROVE  CatalogueInv'
  <2> DEFINE rule == [id |-> lastRule + 1, product |-> job[a].product,
                      page |-> job[a].page, enabled |-> TRUE]
  <2>a. /\ job[a].pc = "newRule"
        /\ UNCHANGED <<merchantRow, productRow, discoveredAt, owner,
                   jobs, catalogueClock>>
        /\ owner[job[a].page] = job[a].product
        /\ ruleRow' = ruleRow \cup {rule}
        /\ lastRule' = lastRule + 1
        /\ doubled' = IF job[a].kind = "add" \/ Races(a, job[a].page)
                     THEN doubled \cup {job[a].page} ELSE doubled
        /\ leftOn' = IF productRow[job[a].product] = "disabled"
                    THEN leftOn \cup {job[a].product} ELSE leftOn
    BY <1>22 DEF InsertRule, BelongsTo, catalogueBounds
  <2> DEFINE ended ==
         /\ job' \in [Actor -> Job]
         /\ discovering' = (IF a = "worker" THEN FALSE ELSE discovering)
         /\ \A b \in Actor \ {a} : job'[b] = job[b]
         /\ job'[a] = NoJob
  <2> DEFINE moved ==
         /\ job' \in [Actor -> Job]
         /\ discovering' = discovering
         /\ \A b \in Actor \ {a} : job'[b] = job[b]
         /\ job'[a].pc = "next"
         /\ job'[a].kind = job[a].kind
         /\ job'[a].product = job[a].product
         /\ job'[a].page = job[a].page
         /\ job'[a].pages = job[a].pages
         /\ job'[a].rules = job[a].rules
         /\ job'[a].status = job[a].status
         /\ job[a].kind # "add"
  <2>b. ended \/ moved
    <3>1. NoJob \in Job
      BY NoJobIs
    <3>2. CASE /\ job' = [job EXCEPT ![a] = NoJob]
               /\ discovering' = (discovering /\ a # "worker")
      BY <3>1, <3>2 DEF CTypes, Actor
    <3>3. CASE /\ job' = [job EXCEPT ![a].pc = "next"]
               /\ discovering' = discovering
               /\ job[a].kind # "add"
      <4>1. job' \in [Actor -> Job]
        BY <2>a, <3>3 DEF CTypes, Actor, Job, LinkStep, SwitchStep, AfterMerchant
      <4>2. moved
        BY <2>a, <3>3, <4>1 DEF CTypes, Actor, Job
      <4> QED BY <4>2
    <3> QED
      BY <1>22, <3>2, <3>3 DEF InsertRule, Goes, Ends
  <2>c. /\ job[a].page \in Page /\ job[a].page[1] \in merchantRow
        /\ job[a].product \in ProductId
    BY <2>a DEF JobKnows, AfterMerchant
  <2>d. /\ rule \in Rule /\ rule.id = lastRule + 1 /\ rule.enabled
        /\ rule.product = job[a].product /\ rule.page = job[a].page
    BY <2>c DEF CTypes, Rule
  <2> HIDE DEF rule
  <2>1. CTypes'
    <3>1. CASE ended
      BY ZenonT(60), <2>a, <3>1, NoJobIs, <2>c, <2>d DEF CTypes, JobKnows, Job, Actor,
         AfterMerchant, Rule
    <3>2. CASE moved
      BY ZenonT(60), <2>a, <3>2, NoJobIs, <2>c, <2>d DEF CTypes, JobKnows, Job, Actor,
         AfterMerchant, Rule
    <3> QED BY <2>b, <3>1, <3>2
  <2>2. JobFits'
    <3>1. CASE ended
      <4>1. CASE a = "worker"
        <5>1. job'["worker"] = NoJob /\ discovering' = FALSE
              /\ job'["cli"] = job["cli"]
          BY <3>1, <4>1 DEF Actor
        <5>2. discovering' = (job'["worker"] # NoJob)
          BY <5>1
        <5> QED BY <5>1, <5>2, NoJobIs DEF CTypes, JobFits, Actor, SwitchStep
      <4>2. CASE a = "cli"
        <5>1. job'["worker"] = job["worker"] /\ discovering' = discovering
              /\ job'["cli"] = NoJob
          BY <3>1, <4>2 DEF Actor
        <5> QED BY <5>1, NoJobIs DEF CTypes, JobFits, Actor, SwitchStep
      <4> QED BY <4>1, <4>2 DEF Actor
    <3>2. CASE moved
      BY <2>a, <3>2, NoJobIs DEF CTypes, JobFits, Actor, SwitchStep
    <3> QED BY <2>b, <3>1, <3>2
  <2>3. JobKnows'
    <3>1. CASE ended
      BY <2>a, <3>1, NoJobIs, <2>c, <2>d DEF CTypes, Job, JobFits, JobKnows, Actor,
         AfterMerchant
    <3>2. CASE moved
      BY <2>a, <3>2, NoJobIs, <2>c, <2>d DEF CTypes, Job, JobFits, JobKnows, Actor,
         AfterMerchant
    <3> QED BY <2>b, <3>1, <3>2
  <2>4. RulesFit'
    <3>1. CASE ended
      BY <2>a, <3>1, NoJobIs, <2>c, <2>d DEF CTypes, JobKnows, RulesFit, Rule,
         AfterMerchant, Actor, Job
    <3>2. CASE moved
      BY <2>a, <3>2, NoJobIs, <2>c, <2>d DEF CTypes, JobKnows, RulesFit, Rule,
         AfterMerchant, Actor, Job
    <3> QED BY <2>b, <3>1, <3>2
  <2>5. FreshRules'
    <3>1. DuplicatesNeedRace'
      <4>1. \A x \in ruleRow' : x \in ruleRow \/ x = rule
        BY <2>a
      <4>2. (\E x \in ruleRow : x.page = rule.page) => rule.page \in doubled'
        BY <2>a, <2>d DEF FreshRules
      <4>3. doubled \subseteq doubled'
        BY <2>a
      <4> QED BY <4>1, <4>2, <4>3 DEF FreshRules, DuplicatesNeedRace
    <3>2. ASSUME NEW b \in Actor, job'[b].pc = "newRule"
          PROVE  \/ job'[b].kind = "add" \/ job'[b].page \in doubled'
                 \/ \A r \in ruleRow' : r.page # job'[b].page
      <4>1. b # a /\ job'[b] = job[b]
        BY <2>b, <3>2, NoJobIs
      <4>2. CASE job[b].page = job[a].page
        BY <2>a, <3>2, <4>1, <4>2 DEF Races
      <4>3. CASE job[b].page # job[a].page
        BY <2>a, <2>d, <3>2, <4>1, <4>3 DEF FreshRules
      <4> QED BY <4>2, <4>3
    <3> QED BY <3>1, <3>2 DEF FreshRules
  <2>6. SwitchFits'
    <3>1. CASE a = "cli"
      <4>1. job'["cli"].pc \notin SwitchStep
        BY <2>b, <3>1, NoJobIs DEF SwitchStep
      <4> QED BY <4>1 DEF SwitchFits, SwitchStep
    <3>2. CASE a = "worker"
      <4>1. job'["cli"] = job["cli"]
        BY <2>b, <3>2 DEF Actor
      <4>2. \A x \in ruleRow' : x \in ruleRow \/ x = rule
        BY <2>a
      <4>3. job["cli"].pc = "switch" => rule.id \notin job["cli"].rules
        BY <2>d DEF SwitchFits, CTypes, Job, Actor
      <4>4. job["cli"].pc = "switch" => \A i \in job["cli"].rules : i <= lastRule'
        BY <2>a DEF SwitchFits, CTypes, Job, Actor
      <4>5. /\ leftOn \subseteq leftOn'
            /\ productRow[rule.product] = "disabled" => rule.product \in leftOn'
        BY <2>a, <2>d
      <4> QED BY <2>a, <2>d, <4>1, <4>2, <4>3, <4>4, <4>5 DEF SwitchFits, SwitchStep
    <3> QED BY <3>1, <3>2 DEF Actor
  <2>7. DisabledProductsRest'
    <3>1. CASE ended
      BY <2>a, <3>1, NoJobIs, <2>c, <2>d DEF CTypes, JobFits, SwitchFits, RulesFit,
         DisabledProductsRest, Rule, Actor, SwitchStep
    <3>2. CASE moved
      BY <2>a, <3>2, NoJobIs, <2>c, <2>d DEF CTypes, JobFits, SwitchFits, RulesFit,
         DisabledProductsRest, Rule, Actor, SwitchStep
    <3> QED BY <2>b, <3>1, <3>2
  <2> QED BY <2>1, <2>2, <2>3, <2>4, <2>5, <2>6, <2>7
<1>23. ASSUME NEW a \in Actor, RefuseRule(a)
      PROVE  CatalogueInv'
  <2>1. CTypes'
    BY <1>23 DEF RefuseRule, Ends, catalogueRows, catalogueHistory, catalogueBounds,
       CTypes, Job, JobFits, JobKnows, Actor, AfterMerchant, LinkStep, SwitchStep,
       NoJob, Rule
  <2>2. JobFits'
    BY ZenonT(60), <1>23 DEF RefuseRule, Ends, catalogueRows, catalogueHistory, catalogueBounds,
       CTypes, Job, JobFits, JobKnows, Actor, AfterMerchant, LinkStep, SwitchStep,
       NoJob
  <2>3. JobKnows'
    BY <1>23 DEF RefuseRule, Ends, catalogueRows, catalogueHistory, catalogueBounds,
       CTypes, Job, JobFits, JobKnows, Actor, AfterMerchant, LinkStep, SwitchStep,
       NoJob
  <2>4. RulesFit'
    BY <1>23 DEF RefuseRule, Ends, catalogueRows, catalogueHistory, catalogueBounds,
       CTypes, JobKnows, RulesFit, Rule, AfterMerchant, Actor, Job
  <2>5. FreshRules'
    BY <1>23 DEF RefuseRule, Ends, catalogueRows, catalogueHistory, catalogueBounds,
       CTypes, JobFits, FreshRules, DuplicatesNeedRace, Rule, Actor, Job, NoJob
  <2>6. SwitchFits'
    BY <1>23 DEF RefuseRule, Ends, catalogueRows, catalogueHistory, catalogueBounds,
       CTypes, JobFits, SwitchFits, RulesFit, Rule, Actor, SwitchStep, Job, NoJob
  <2>7. DisabledProductsRest'
    BY <1>23 DEF RefuseRule, Ends, catalogueRows, catalogueHistory, catalogueBounds,
       CTypes, JobFits, SwitchFits, RulesFit, DisabledProductsRest, Rule, Actor,
       SwitchStep, Job, NoJob
  <2> QED BY <2>1, <2>2, <2>3, <2>4, <2>5, <2>6, <2>7
<1>24. CASE CliInterrupted
  <2>1. CTypes'
    <3>1. job' \in [Actor -> Job] /\ discovering' \in BOOLEAN
      BY <1>24, NoJobIs DEF CliInterrupted, Ends, CTypes
    <3>2. leftOn' \subseteq ProductId
      BY <1>24 DEF CliInterrupted, CTypes, JobFits, Actor
    <3> QED BY <1>24, <3>1, <3>2 DEF CliInterrupted, catalogueRows, catalogueBounds, CTypes
  <2>2. JobFits'
    BY <1>24 DEF CliInterrupted, Ends, catalogueRows, catalogueBounds, CTypes, Job,
       JobFits, JobKnows, Actor, AfterMerchant, LinkStep, SwitchStep, NoJob
  <2>3. JobKnows'
    BY <1>24 DEF CliInterrupted, Ends, catalogueRows, catalogueBounds, CTypes, Job,
       JobFits, JobKnows, Actor, AfterMerchant, LinkStep, SwitchStep, NoJob
  <2>4. RulesFit'
    BY <1>24 DEF CliInterrupted, Ends, catalogueRows, catalogueBounds, CTypes,
       JobKnows, RulesFit, Rule, AfterMerchant, Actor, Job
  <2>5. FreshRules'
    BY <1>24 DEF CliInterrupted, Ends, catalogueRows, catalogueBounds, CTypes,
       JobFits, FreshRules, DuplicatesNeedRace, Rule, Actor, Job, NoJob
  <2>6. SwitchFits'
    BY <1>24 DEF CliInterrupted, Ends, catalogueRows, catalogueBounds, CTypes,
       JobFits, SwitchFits, RulesFit, Rule, Actor, SwitchStep, Job, NoJob
  <2>7. DisabledProductsRest'
    BY <1>24 DEF CliInterrupted, Ends, catalogueRows, catalogueBounds, CTypes,
       JobFits, SwitchFits, RulesFit, DisabledProductsRest, Rule, Actor, SwitchStep,
       Job, NoJob
  <2> QED BY <2>1, <2>2, <2>3, <2>4, <2>5, <2>6, <2>7
<1>25. CASE WorkerRestarts
  <2>1. CTypes'
    BY <1>25 DEF WorkerRestarts, Ends, catalogueRows, catalogueHistory, CTypes, Job,
       JobFits, JobKnows, Actor, AfterMerchant, LinkStep, SwitchStep, NoJob, Rule
  <2>2. JobFits'
    BY <1>25 DEF WorkerRestarts, Ends, catalogueRows, catalogueHistory, CTypes, Job,
       JobFits, JobKnows, Actor, AfterMerchant, LinkStep, SwitchStep, NoJob
  <2>3. JobKnows'
    BY <1>25 DEF WorkerRestarts, Ends, catalogueRows, catalogueHistory, CTypes, Job,
       JobFits, JobKnows, Actor, AfterMerchant, LinkStep, SwitchStep, NoJob
  <2>4. RulesFit'
    BY <1>25 DEF WorkerRestarts, Ends, catalogueRows, catalogueHistory, CTypes,
       JobKnows, RulesFit, Rule, AfterMerchant, Actor, Job
  <2>5. FreshRules'
    BY <1>25 DEF WorkerRestarts, Ends, catalogueRows, catalogueHistory, CTypes,
       JobFits, FreshRules, DuplicatesNeedRace, Rule, Actor, Job, NoJob
  <2>6. SwitchFits'
    BY <1>25 DEF WorkerRestarts, Ends, catalogueRows, catalogueHistory, CTypes,
       JobFits, SwitchFits, RulesFit, Rule, Actor, SwitchStep, Job, NoJob
  <2>7. DisabledProductsRest'
    BY <1>25 DEF WorkerRestarts, Ends, catalogueRows, catalogueHistory, CTypes,
       JobFits, SwitchFits, RulesFit, DisabledProductsRest, Rule, Actor, SwitchStep,
       Job, NoJob
  <2> QED BY <2>1, <2>2, <2>3, <2>4, <2>5, <2>6, <2>7
<1>26. CASE CatalogueClockTicks
  <2>1. CTypes'
    BY <1>26 DEF CatalogueClockTicks, catalogueRows, catalogueHistory, CTypes, Job,
       JobFits, JobKnows, Actor, AfterMerchant, LinkStep, SwitchStep, NoJob, Rule
  <2>2. JobFits'
    BY <1>26 DEF CatalogueClockTicks, catalogueRows, catalogueHistory, CTypes, Job,
       JobFits, JobKnows, Actor, AfterMerchant, LinkStep, SwitchStep, NoJob
  <2>3. JobKnows'
    BY <1>26 DEF CatalogueClockTicks, catalogueRows, catalogueHistory, CTypes, Job,
       JobFits, JobKnows, Actor, AfterMerchant, LinkStep, SwitchStep, NoJob
  <2>4. RulesFit'
    BY <1>26 DEF CatalogueClockTicks, catalogueRows, catalogueHistory, CTypes,
       JobKnows, RulesFit, Rule, AfterMerchant, Actor, Job
  <2>5. FreshRules'
    BY <1>26 DEF CatalogueClockTicks, catalogueRows, catalogueHistory, CTypes,
       JobFits, FreshRules, DuplicatesNeedRace, Rule, Actor, Job, NoJob
  <2>6. SwitchFits'
    BY <1>26 DEF CatalogueClockTicks, catalogueRows, catalogueHistory, CTypes,
       JobFits, SwitchFits, RulesFit, Rule, Actor, SwitchStep, Job, NoJob
  <2>7. DisabledProductsRest'
    BY <1>26 DEF CatalogueClockTicks, catalogueRows, catalogueHistory, CTypes,
       JobFits, SwitchFits, RulesFit, DisabledProductsRest, Rule, Actor, SwitchStep,
       Job, NoJob
  <2> QED BY <2>1, <2>2, <2>3, <2>4, <2>5, <2>6, <2>7
<1>27. CASE UNCHANGED catalogueVars
  <2>1. CTypes'
    BY <1>27 DEF catalogueVars, catalogueRows, catalogueHistory, catalogueBounds,
       CTypes, Job, JobFits, JobKnows, Actor, AfterMerchant, LinkStep, SwitchStep,
       NoJob, Rule
  <2>2. JobFits'
    BY <1>27 DEF catalogueVars, catalogueRows, catalogueHistory, catalogueBounds,
       CTypes, Job, JobFits, JobKnows, Actor, AfterMerchant, LinkStep, SwitchStep,
       NoJob
  <2>3. JobKnows'
    BY <1>27 DEF catalogueVars, catalogueRows, catalogueHistory, catalogueBounds,
       CTypes, Job, JobFits, JobKnows, Actor, AfterMerchant, LinkStep, SwitchStep,
       NoJob
  <2>4. RulesFit'
    BY <1>27 DEF catalogueVars, catalogueRows, catalogueHistory, catalogueBounds,
       CTypes, JobKnows, RulesFit, Rule, AfterMerchant, Actor, Job
  <2>5. FreshRules'
    BY <1>27 DEF catalogueVars, catalogueRows, catalogueHistory, catalogueBounds,
       CTypes, JobFits, FreshRules, DuplicatesNeedRace, Rule, Actor, Job, NoJob
  <2>6. SwitchFits'
    BY <1>27 DEF catalogueVars, catalogueRows, catalogueHistory, catalogueBounds,
       CTypes, JobFits, SwitchFits, RulesFit, Rule, Actor, SwitchStep, Job, NoJob
  <2>7. DisabledProductsRest'
    BY <1>27 DEF catalogueVars, catalogueRows, catalogueHistory, catalogueBounds,
       CTypes, JobFits, SwitchFits, RulesFit, DisabledProductsRest, Rule, Actor,
       SwitchStep, Job, NoJob
  <2> QED BY <2>1, <2>2, <2>3, <2>4, <2>5, <2>6, <2>7
<1>28. ASSUME NEW r \in ruleRow, EnableRule(r)
      PROVE  CatalogueInv'
  <2> DEFINE new == [r EXCEPT !.enabled = TRUE]
  <2>a. /\ UNCHANGED <<merchantRow, productRow, discoveredAt, owner, lastRule,
                     discovering, job, doubled, catalogueClock>>
        /\ job["cli"] = NoJob /\ jobs' = jobs + 1
        /\ ruleRow' = (ruleRow \ {r}) \cup {new}
        /\ leftOn' = IF productRow[r.product] = "disabled"
                     THEN leftOn \cup {r.product} ELSE leftOn
    BY <1>28 DEF EnableRule, Enabled, StartCommand
  <2>b. /\ r \in Rule /\ new \in Rule /\ r.product \in ProductId
        /\ new.id = r.id /\ new.product = r.product /\ new.page = r.page
        /\ new.enabled = TRUE
    BY DEF CTypes, Rule
  <2> HIDE DEF new
  <2>1. CTypes'
    <3>1. ruleRow' \subseteq Rule
      BY <2>a, <2>b DEF CTypes
    <3>2. jobs' \in Nat
      BY <2>a DEF CTypes
    <3>3. leftOn' \subseteq ProductId
      <4>1. leftOn' \in {leftOn, leftOn \cup {r.product}}
        BY <2>a
      <4>2. leftOn \subseteq ProductId
        BY DEF CTypes
      <4> QED BY <2>b, <4>1, <4>2
    <3> QED BY <2>a, <3>1, <3>2, <3>3 DEF CTypes
  <2>2. JobFits'
    BY <2>a DEF JobFits
  <2>3. JobKnows'
    BY <2>a DEF JobKnows
  <2>4. RulesFit'
    BY <2>a, <2>b DEF RulesFit
  <2>5. FreshRules'
    BY <2>a, <2>b DEF FreshRules, DuplicatesNeedRace
  <2>6. SwitchFits'
    BY <2>a, NoJobIs DEF SwitchFits, SwitchStep
  <2>7. DisabledProductsRest'
    BY <2>a, <2>b, NoJobIs DEF DisabledProductsRest, JobFits, SwitchStep
  <2> QED BY <2>1, <2>2, <2>3, <2>4, <2>5, <2>6, <2>7
<1>29. ASSUME NEW r \in ruleRow, DisableRule(r)
      PROVE  CatalogueInv'
  <2> DEFINE new == [r EXCEPT !.enabled = FALSE]
  <2>a. /\ UNCHANGED <<merchantRow, productRow, discoveredAt, owner, lastRule,
                     discovering, job, doubled, catalogueClock>>
        /\ job["cli"] = NoJob /\ jobs' = jobs + 1
        /\ ruleRow' = (ruleRow \ {r}) \cup {new}
        /\ leftOn' = leftOn
    BY <1>29 DEF DisableRule, Enabled, StartCommand
  <2>b. /\ r \in Rule /\ new \in Rule /\ r.product \in ProductId
        /\ new.id = r.id /\ new.product = r.product /\ new.page = r.page
        /\ new.enabled = FALSE
    BY DEF CTypes, Rule
  <2> HIDE DEF new
  <2>1. CTypes'
    <3>1. ruleRow' \subseteq Rule
      BY <2>a, <2>b DEF CTypes
    <3>2. jobs' \in Nat
      BY <2>a DEF CTypes
    <3>3. leftOn' \subseteq ProductId
      <4>1. leftOn' \in {leftOn, leftOn \cup {r.product}}
        BY <2>a
      <4>2. leftOn \subseteq ProductId
        BY DEF CTypes
      <4> QED BY <2>b, <4>1, <4>2
    <3> QED BY <2>a, <3>1, <3>2, <3>3 DEF CTypes
  <2>2. JobFits'
    BY <2>a DEF JobFits
  <2>3. JobKnows'
    BY <2>a DEF JobKnows
  <2>4. RulesFit'
    BY <2>a, <2>b DEF RulesFit
  <2>5. FreshRules'
    BY <2>a, <2>b DEF FreshRules, DuplicatesNeedRace
  <2>6. SwitchFits'
    BY <2>a, NoJobIs DEF SwitchFits, SwitchStep
  <2>7. DisabledProductsRest'
    BY <2>a, <2>b, NoJobIs DEF DisabledProductsRest, JobFits, SwitchStep
  <2> QED BY <2>1, <2>2, <2>3, <2>4, <2>5, <2>6, <2>7
<1> QED
  BY <1>1, <1>2, <1>3, <1>4, <1>5, <1>6, <1>7, <1>8, <1>9, <1>10, <1>11, <1>12,
     <1>13, <1>14, <1>15, <1>16, <1>17, <1>18, <1>19, <1>20, <1>21, <1>22, <1>23,
     <1>24, <1>25, <1>26, <1>27, <1>28, <1>29
  DEF CatalogueNext, LinkSteps

LEMMA CatalogueInvInit == CatalogueInit => CatalogueInv
<1> USE CatalogueAssumption
<1> SUFFICES ASSUME CatalogueInit PROVE CatalogueInv
  OBVIOUS
<1>1. job \in [Actor -> Job] /\ \A a \in Actor : job[a] = NoJob
  BY NoJobIs DEF CatalogueInit
<1>2. CTypes
  <2>1. productRow \in [ProductId -> {"none", "active", "disabled"}]
    BY DEF CatalogueInit
  <2>2. 0 \in 0..(MaxCatalogueClock + 1) /\ 0 \in 0..MaxCatalogueClock /\ 0 \in Nat
    OBVIOUS
  <2>3. /\ discoveredAt \in [ProductId -> 0..(MaxCatalogueClock + 1)]
        /\ owner \in [Page -> ProductId \cup {NoProduct}]
    BY <2>2 DEF CatalogueInit
  <2> QED BY <1>1, <2>1, <2>2, <2>3 DEF CatalogueInit, CTypes
<1>3. JobFits /\ JobKnows
  BY <1>1, NoJobIs DEF CatalogueInit, JobFits, JobKnows, AfterMerchant, SwitchStep, Actor
<1>4. RulesFit /\ FreshRules /\ SwitchFits /\ DisabledProductsRest
  BY <1>1, NoJobIs DEF CatalogueInit, RulesFit, FreshRules, DuplicatesNeedRace, SwitchFits,
     DisabledProductsRest, SwitchStep, Actor
<1> QED BY <1>2, <1>3, <1>4 DEF CatalogueInv

\* The invariant holds of the worker and a command that read and commit in any
\* order, whichever of them wins the insert of a row.
THEOREM CatalogueInvariant == CatalogueSpec => []CatalogueInv
<1> QED BY CatalogueInvInit, CatalogueInvStep, PTL DEF CatalogueSpec

\* The tables hold what their columns allow, and the flag of the worker is up
\* exactly while its discovery runs.
THEOREM CatalogueTypesHold == CatalogueSpec => []CatalogueTypeOK
<1>1. CatalogueInv => CatalogueTypeOK
  BY DEF CatalogueInv, CatalogueTypeOK, CTypes, JobFits, Actor, Job
<1> QED BY <1>1, CatalogueInvariant, PTL

\* A rule watches a listing of its own product, of a merchant on record, whoever
\* wrote the listing while the other process was about to insert it.
THEOREM RulesWatchTheirListings == CatalogueSpec => []RulesMatchListings
<1>1. CatalogueInv => RulesMatchListings
  BY DEF CatalogueInv, RulesFit, RulesMatchListings
<1> QED BY <1>1, CatalogueInvariant, PTL

\* A page has two rules only when `add` gave it one, or when both processes were
\* about to insert it.
THEOREM DoubledOnlyByRace == CatalogueSpec => []DuplicatesNeedRace
<1>1. CatalogueInv => DuplicatesNeedRace
  BY DEF CatalogueInv, FreshRules
<1> QED BY <1>1, CatalogueInvariant, PTL

\* A product that is disabled keeps no enabled rule but those of a link that ends
\* after the switch, of a switch that was interrupted, or that a later `enable`
\* turns on.
THEOREM DisabledRest == CatalogueSpec => []DisabledProductsRest
<1>1. CatalogueInv => DisabledProductsRest
  BY DEF CatalogueInv
<1> QED BY <1>1, CatalogueInvariant, PTL

\* The discovery of the worker ends in the middle of a page, not killed.
GivesUp == /\ job["worker"]' = NoJob
           /\ job["worker"].pc \in {"newMerchant", "newListing", "newRule"}
           /\ jobs' = jobs

LEMMA GivesUpOnConflict ==
  CatalogueInv /\ [CatalogueNext]_catalogueVars /\ GivesUp
    => owner[job["worker"].page] \notin {NoProduct, job["worker"].product}
<1> USE CatalogueAssumption
<1> SUFFICES ASSUME CatalogueInv, [CatalogueNext]_catalogueVars, GivesUp
             PROVE  owner[job["worker"].page] \notin {NoProduct, job["worker"].product}
  OBVIOUS
<1>1. /\ job["worker"].kind = "discover" /\ job["worker"] # NoJob /\ discovering
      /\ job'["worker"] = NoJob /\ jobs \in Nat
  BY NoJobIs DEF GivesUp, CatalogueInv, CTypes, JobFits, Actor
<1>2. job["worker"] # job'["worker"]
  BY <1>1
<1>3. CASE RefuseRule("worker")
  BY <1>3 DEF RefuseRule, BelongsTo, CatalogueInv, JobKnows, Actor
<1>4. ASSUME NEW a \in Actor, LinkSteps(a), ~ RefuseRule("worker") PROVE FALSE
  <2>1. CASE a = "cli"
    <3>1. job'["worker"] = job["worker"]
      BY <1>4, <2>1 DEF LinkSteps, SearchEnds, EndPages, NextPage, ReadMerchant,
         InsertMerchant, ReadListing, InsertListing, ReadRule, InsertRule,
         RefuseRule, Inserts, Goes, Ends, CatalogueInv, CTypes, Actor
    <3> QED BY <1>2, <3>1
  <2>2. CASE a = "worker"
    <3>1. InsertMerchant("worker") \/ InsertListing("worker") \/ InsertRule("worker")
      BY <1>4, <2>2 DEF LinkSteps, GivesUp, SearchEnds, EndPages, NextPage,
         ReadMerchant, ReadListing, ReadRule
    <3>2. \E pc \in {"listing", "newRule", "rule", "next"} :
            job' = [job EXCEPT !["worker"].pc = pc]
      BY <1>1, <3>1 DEF InsertMerchant, InsertListing, InsertRule, Inserts,
         CaughtAndRead, Goes
    <3>3. job'["worker"].pc \in {"listing", "newRule", "rule", "next"}
      BY <3>2 DEF CatalogueInv, CTypes, Actor, Job
    <3> QED BY <1>1, <3>3, NoJobIs
  <2> QED BY <2>1, <2>2 DEF Actor
<1>5. ASSUME StartDiscovery \/ WorkerRestarts PROVE FALSE
  BY <1>1, <1>5 DEF StartDiscovery, WorkerRestarts, GivesUp
<1>6. ASSUME \/ TickWithoutDiscovery \/ CatalogueClockTicks \/ UNCHANGED catalogueVars
             \/ WriteStatus \/ ListRules \/ EndSwitch \/ CliInterrupted
      PROVE  FALSE
  BY <1>2, <1>6 DEF TickWithoutDiscovery, CatalogueClockTicks, catalogueVars,
     WriteStatus, ListRules, EndSwitch, CliInterrupted, Ends, CatalogueInv, CTypes,
     Actor
<1>7. ASSUME NEW p \in ProductId,
             \/ CliDiscover(p) \/ AddProduct(p) \/ InsertProduct(p)
             \/ \E status \in {"active", "disabled"} : SwitchProduct(p, status)
             \/ \E pages \in SUBSET Page : ImportManifest(p, pages)
      PROVE  FALSE
  BY <1>2, <1>7 DEF CliDiscover, AddProduct, InsertProduct, SwitchProduct,
     ImportManifest, CatalogueInv, CTypes, Actor
<1>8. ASSUME NEW r \in ruleRow,
             DeleteRule(r) \/ EnableRule(r) \/ DisableRule(r) \/ SwitchRule(r)
      PROVE  FALSE
  BY <1>2, <1>8 DEF DeleteRule, EnableRule, DisableRule, SwitchRule, CatalogueInv,
     CTypes, Actor
<1>9. ASSUME NEW g \in Page, Add(g) PROVE FALSE
  BY <1>2, <1>9 DEF Add, CatalogueInv, CTypes, Actor
<1> QED
  BY <1>3, <1>4, <1>5, <1>6, <1>7, <1>8, <1>9 DEF CatalogueNext

\* A discovery that is not killed gives up a page only because it is on record for
\* another product; the row of the other process never ends it.
THEOREM OnlyConflictsCrash == CatalogueSpec => CrashesAreConflicts
<1>1. CatalogueInv /\ [CatalogueNext]_catalogueVars
        => [LET j == job["worker"] IN
            /\ job["worker"]' = NoJob
            /\ j.pc \in {"newMerchant", "newListing", "newRule"}
            /\ jobs' = jobs
            => owner[j.page] \notin {NoProduct, j.product}]_catalogueVars
  BY GivesUpOnConflict DEF GivesUp
<1> QED BY <1>1, CatalogueInvariant, PTL DEF CatalogueSpec, CrashesAreConflicts

-----------------------------------------------------------------------------
(* The keyword watches: what is on record as available was announced or is *)
(* accounted for, and it was news only once, although two processes search *)
(* at a time and commands delete watches under them.                       *)

Row   == {"unseen", "in", "out"}
Sight == [hit : Hit, reason : {"none", "new", "restock"}, row : Row]
Run   == [pc      : {"none", "searching", "notifying"},
          watch   : Watch \cup {0},
          since   : 0..(MaxKeywordClock + 1),
          sellers : SUBSET Seller, hits : SUBSET Hit,
          sight   : Sight \cup {NoSight},
          finds   : SUBSET Find, sending : Find \cup {NoFind}]

KTypes ==
  /\ watchRow \in [Watch -> [state : {"none", "enabled", "disabled"},
                             searched : 0..(MaxKeywordClock + 1)]]
  /\ sighted \in [Sighting -> Row]
  /\ searching \in BOOLEAN /\ searcherUp \in BOOLEAN
  /\ alertedAt \in [Find -> 0..(MaxKeywordClock + 1)]
  /\ search \in [Searcher -> Run]
  /\ newsOf \in [Sighting -> Nat]
  /\ settled \subseteq Sighting
  /\ keywordClock \in 0..MaxKeywordClock

\* What a run has in hand at which of its steps; the flag of a search goes with it.
RunsFit ==
  /\ searching = (search["worker"] # NoRun)
  /\ \A a \in Searcher :
       LET r == search[a] IN
       /\ r.pc = "none" => r = NoRun
       /\ r.pc # "none" => r.watch \in Watch
       /\ r.sight # NoSight =>
            /\ r.pc = "searching" /\ r.sight \in Sight
            /\ r.sight.reason = ReasonOf(r.sight.row, r.sight.hit)
       /\ r.pc # "notifying" => r.sending = NoFind

\* An alert that is on its way does not keep its listing unsettled.
SendingFits ==
  LET r == search["worker"] IN
  r.sending # NoFind =>
    (sighted[<<r.watch, r.sending.item>>] = "in" => <<r.watch, r.sending.item>> \in settled)

\* What is not available is not old news, neither on record nor in the eyes of a search
\* that read the record before the other process wrote it.
NewsFit ==
  LET r == search["worker"] IN
  /\ \A p \in Sighting : sighted[p] # "in" => newsOf[p] = 0
  /\ r.sight # NoSight /\ r.sight.row # "in" => newsOf[<<r.watch, r.sight.hit.item>>] = 0

KeywordInv ==
  /\ KTypes /\ RunsFit /\ SendingFits /\ NewsFit
  /\ AvailableAreAnnounced /\ NewsOnce

-----------------------------------------------------------------------------

\* The due watch with the least id is a watch.
LEMMA FirstDueIsWatch == DueWatch # {} => FirstDue \in Watch
<1> SUFFICES ASSUME DueWatch # {} PROVE FirstDue \in Watch
  OBVIOUS
<1>1. DueWatch \in SUBSET Nat /\ DueWatch \subseteq Watch
  BY KeywordAssumption DEF DueWatch
<1> HIDE DEF DueWatch
<1>2. \E x \in DueWatch : \A y \in DueWatch : ~ (<<y, x>> \in OpToRel(<, Nat))
  BY <1>1, NatLessThanWellFounded, WFMin
<1>3. PICK x \in DueWatch : \A y \in DueWatch : ~ (<<y, x>> \in OpToRel(<, Nat))
  BY <1>2
<1>4. ASSUME NEW y \in DueWatch, ~ (x <= y) PROVE FALSE
  <2>1. <<y, x>> \in OpToRel(<, Nat)
    BY <1>1, <1>4 DEF OpToRel
  <2> QED BY <1>3, <2>1, Zenon
<1> QED BY <1>1, <1>3, <1>4 DEF FirstDue

\* What a run is before it starts, and when it has just begun.
LEMMA NoRunIs ==
  /\ NoRun \in Run /\ NoRun.pc = "none" /\ NoRun.sight = NoSight
  /\ NoRun.sending = NoFind /\ NoRun.finds = {}
BY KeywordAssumption DEF NoRun, Run

LEMMA RunOfIs ==
  ASSUME KTypes, NEW w \in Watch
  PROVE  /\ RunOf(w) \in Run /\ RunOf(w).pc = "searching" /\ RunOf(w).watch = w
         /\ RunOf(w).sight = NoSight /\ RunOf(w).sending = NoFind
         /\ RunOf(w).finds = {}
<1>1. keywordClock + 1 \in 0..(MaxKeywordClock + 1)
  BY KeywordAssumption DEF KTypes
<1>2. NoRun \in Run
  BY NoRunIs
<1> QED BY <1>1, <1>2 DEF RunOf, Run, NoRun

LEMMA SightingsOfNoRun == SightingsOf(NoRun) = {}
BY NoRunIs DEF SightingsOf

LEMMA KeywordInvInit == KeywordInit => KeywordInv
<1> SUFFICES ASSUME KeywordInit PROVE KeywordInv
  OBVIOUS
<1> USE KeywordAssumption DEF KeywordInit
<1>1. KTypes
  <2>1. NoWatch \in [state : {"none", "enabled", "disabled"}, searched : 0..(MaxKeywordClock + 1)]
        /\ NewWatch \in [state : {"none", "enabled", "disabled"}, searched : 0..(MaxKeywordClock + 1)]
    BY DEF NoWatch, NewWatch
  <2>2. search \in [Searcher -> Run]
    BY NoRunIs
  <2>3. watchRow \in [Watch -> [state : {"none", "enabled", "disabled"},
                               searched : 0..(MaxKeywordClock + 1)]]
    BY <2>1
  <2>4. alertedAt \in [Find -> 0..(MaxKeywordClock + 1)] /\ newsOf \in [Sighting -> Nat]
        /\ sighted \in [Sighting -> Row] /\ keywordClock \in 0..MaxKeywordClock
    BY DEF Row
  <2> QED BY <2>2, <2>3, <2>4 DEF KTypes
<1>2. RunsFit
  BY NoRunIs DEF RunsFit, Searcher
<1>3. SendingFits /\ NewsFit
  BY NoRunIs DEF SendingFits, NewsFit, Searcher
<1>4. AvailableAreAnnounced /\ NewsOnce
  BY DEF AvailableAreAnnounced, NewsOnce
<1> QED BY <1>1, <1>2, <1>3, <1>4 DEF KeywordInv

-----------------------------------------------------------------------------
(* The commands. *)

LEMMA RowCommandInv ==
  KeywordInv /\ (\E w \in Watch : AddWatch(w) \/ SwitchWatch(w)) => KeywordInv'
<1> SUFFICES ASSUME KeywordInv, NEW w \in Watch, AddWatch(w) \/ SwitchWatch(w)
             PROVE  KeywordInv'
  OBVIOUS
<1> USE KeywordAssumption DEF KeywordInv
<1>1. UNCHANGED <<sighted, searcherUp, searching, alertedAt, search, newsOf, settled,
                  keywordClock>>
  BY DEF AddWatch, SwitchWatch, Command, keywordMemory, keywordHistory
<1>2. watchRow' \in [Watch -> [state : {"none", "enabled", "disabled"},
                               searched : 0..(MaxKeywordClock + 1)]]
  <2>1. CASE AddWatch(w)
    BY <2>1 DEF AddWatch, NewWatch, KTypes
  <2>2. CASE SwitchWatch(w)
    <3> DEFINE row == [watchRow[w] EXCEPT !.state = IF watchRow[w].state = "enabled"
                                                    THEN "disabled" ELSE "enabled"]
    <3>1. watchRow' = [watchRow EXCEPT ![w] = row]
      BY <2>2 DEF SwitchWatch
    <3>2. row \in [state : {"none", "enabled", "disabled"}, searched : 0..(MaxKeywordClock + 1)]
      BY DEF KTypes
    <3> HIDE DEF row
    <3> QED BY <3>1, <3>2 DEF KTypes
  <2> QED BY <2>1, <2>2
<1>3. KTypes' /\ RunsFit'
  BY <1>1, <1>2 DEF KTypes, RunsFit
<1>4. SendingFits' /\ NewsFit'
  BY <1>1 DEF SendingFits, NewsFit
<1>5. AvailableAreAnnounced' /\ NewsOnce'
  BY <1>1 DEF AvailableAreAnnounced, NewsOnce
<1> QED BY <1>3, <1>4, <1>5

LEMMA DeleteWatchInv == KeywordInv /\ (\E w \in Watch : DeleteWatch(w)) => KeywordInv'
<1> SUFFICES ASSUME KeywordInv, NEW w \in Watch, DeleteWatch(w) PROVE KeywordInv'
  OBVIOUS
<1> USE KeywordAssumption DEF KeywordInv
<1>1. /\ watchRow' = [watchRow EXCEPT ![w] = NoWatch]
      /\ sighted' = [p \in Sighting |-> IF p[1] = w THEN "unseen" ELSE sighted[p]]
      /\ newsOf' = [p \in Sighting |-> IF p[1] = w THEN 0 ELSE newsOf[p]]
      /\ settled' = {p \in settled : p[1] # w}
      /\ UNCHANGED <<searcherUp, searching, alertedAt, search, keywordClock>>
  BY DEF DeleteWatch, Command, keywordMemory
<1>2. KTypes'
  BY <1>1 DEF KTypes, Row, NoWatch
<1>3. RunsFit'
  BY <1>1 DEF RunsFit
<1>4. ASSUME NEW r \in Run, NEW i \in Item, r.watch \in Watch
      PROVE  <<r.watch, i>> \in Sighting
  BY <1>4 DEF Sighting
<1>5. SendingFits'
  <2> DEFINE r == search["worker"]
  <2>1. r.sending # NoFind => r \in Run /\ r.watch \in Watch /\ r.sending.item \in Item
    BY DEF KTypes, RunsFit, Searcher, Run, Find
  <2> QED BY <1>1, <1>4, <2>1 DEF SendingFits
<1>6. NewsFit'
  <2> DEFINE r == search["worker"]
  <2>1. r.sight # NoSight => r \in Run /\ r.watch \in Watch /\ r.sight.hit.item \in Item
    BY DEF KTypes, RunsFit, Searcher, Run, Sight, Hit
  <2> QED BY <1>1, <1>4, <2>1 DEF NewsFit
<1>7. AvailableAreAnnounced' /\ NewsOnce'
  BY <1>1 DEF AvailableAreAnnounced, NewsOnce
<1> QED BY <1>2, <1>3, <1>5, <1>6, <1>7

-----------------------------------------------------------------------------
(* The steps of a run. *)

\* A step that touches but one run, whose news, finds and alert stay where they were.
LEMMA RunStepInv ==
  ASSUME KeywordInv, NEW a \in Searcher, NEW run \in Run,
         search' = [search EXCEPT ![a] = run],
         UNCHANGED <<sighted, searcherUp, alertedAt, newsOf, settled, keywordClock>>,
         watchRow' \in [Watch -> [state : {"none", "enabled", "disabled"},
                                  searched : 0..(MaxKeywordClock + 1)]],
         searching' = (search'["worker"] # NoRun),
         run.pc = "none" => run = NoRun,
         run.pc # "none" => run.watch \in Watch,
         run.sight # NoSight =>
           /\ run.pc = "searching" /\ run.sight \in Sight
           /\ run.sight.reason = ReasonOf(run.sight.row, run.sight.hit)
           /\ run.sight.row # "in" => newsOf[<<run.watch, run.sight.hit.item>>] = 0,
         run.pc # "notifying" => run.sending = NoFind,
         run.sending # NoFind =>
           (sighted[<<run.watch, run.sending.item>>] = "in"
              => <<run.watch, run.sending.item>> \in settled),
         a = "worker" => \A p \in SightingsOf(search[a]) :
                           p \in SightingsOf(run) \cup settled \/ sighted[p] # "in"
  PROVE  KeywordInv'
<1> USE KeywordAssumption DEF KeywordInv
<1>1. /\ search' \in [Searcher -> Run] /\ search'[a] = run
      /\ \A b \in Searcher : b # a => search'[b] = search[b]
  BY DEF KTypes
<1>2. KTypes'
  BY <1>1 DEF KTypes
<1>3. RunsFit'
  BY <1>1 DEF RunsFit
<1>4. SendingFits' /\ NewsFit'
  BY <1>1 DEF SendingFits, NewsFit, Searcher
<1>5. AvailableAreAnnounced'
  <2>1. \A p \in SightingsOf(search["worker"]) :
          p \in SightingsOf(search'["worker"]) \cup settled \/ sighted[p] # "in"
    BY <1>1 DEF Searcher
  <2> QED BY <2>1 DEF AvailableAreAnnounced
<1>6. NewsOnce'
  BY DEF NewsOnce
<1> QED BY <1>2, <1>3, <1>4, <1>5, <1>6

LEMMA StartInv ==
  KeywordInv /\ (StartSearcher \/ StartSearch \/ TickWithoutSearch
                 \/ \E w \in Watch : StartCliSearch(w)) => KeywordInv'
<1> SUFFICES ASSUME KeywordInv, StartSearcher \/ StartSearch \/ TickWithoutSearch
                                \/ \E w \in Watch : StartCliSearch(w)
             PROVE  KeywordInv'
  OBVIOUS
<1> USE KeywordAssumption
<1>1. CASE StartSearcher \/ TickWithoutSearch
  <2> USE DEF KeywordInv
  <2>1. UNCHANGED <<watchRow, sighted, searching, alertedAt, search, newsOf, settled,
                    keywordClock>> /\ searcherUp' \in BOOLEAN
    BY <1>1 DEF StartSearcher, TickWithoutSearch, keywordVars, keywordRows, keywordMemory,
       keywordHistory, KTypes
  <2>2. KTypes' /\ RunsFit'
    BY <2>1 DEF KTypes, RunsFit
  <2>3. SendingFits' /\ NewsFit' /\ AvailableAreAnnounced' /\ NewsOnce'
    BY <2>1 DEF SendingFits, NewsFit, AvailableAreAnnounced, NewsOnce
  <2> QED BY <2>2, <2>3
<1>2. KTypes /\ search \in [Searcher -> Run]
  BY DEF KeywordInv, KTypes
<1>3. CASE StartSearch
  <2> DEFINE run == RunOf(FirstDue)
  <2>1. /\ searching' = TRUE /\ ~searching
        /\ search' = [search EXCEPT !["worker"] = run]
        /\ UNCHANGED <<watchRow, sighted, searcherUp, alertedAt, newsOf, settled, keywordClock>>
    BY <1>3 DEF StartSearch, keywordRows, keywordHistory
  <2>2. /\ run \in Run /\ run.pc = "searching" /\ run.watch \in Watch
        /\ run.sight = NoSight /\ run.sending = NoFind
    <3>1. FirstDue \in Watch
      BY <1>3, FirstDueIsWatch DEF StartSearch
    <3> QED BY <1>2, <3>1, RunOfIs
  <2> HIDE DEF run
  <2>3. SightingsOf(search["worker"]) = {}
    BY <2>1, SightingsOfNoRun DEF KeywordInv, RunsFit, KTypes
  <2>4. search'["worker"] # NoRun
    BY <1>2, <2>1, <2>2, NoRunIs DEF Searcher
  <2>5. "worker" \in Searcher /\ watchRow' \in [Watch -> [state : {"none", "enabled", "disabled"},
                                                          searched : 0..(MaxKeywordClock + 1)]]
    BY <2>1 DEF Searcher, KeywordInv, KTypes
  <2> QED BY <2>1, <2>2, <2>3, <2>4, <2>5, RunStepInv
<1>4. ASSUME NEW w \in Watch, StartCliSearch(w) PROVE KeywordInv'
  <2>1. /\ search' = [search EXCEPT !["cli"] = RunOf(w)]
        /\ UNCHANGED <<watchRow, sighted, searcherUp, searching, alertedAt, newsOf, settled,
                       keywordClock>>
    BY <1>4 DEF StartCliSearch, Command, keywordRows, keywordMemory, keywordHistory
  <2>2. /\ RunOf(w) \in Run /\ RunOf(w).pc = "searching" /\ RunOf(w).watch \in Watch
        /\ RunOf(w).sight = NoSight /\ RunOf(w).sending = NoFind
    BY <1>2, RunOfIs
  <2>3. searching' = (search'["worker"] # NoRun)
    BY <1>2, <2>1 DEF KeywordInv, RunsFit, Searcher
  <2>4. "cli" \in Searcher /\ watchRow' \in [Watch -> [state : {"none", "enabled", "disabled"},
                                                       searched : 0..(MaxKeywordClock + 1)]]
    BY <2>1 DEF Searcher, KeywordInv, KTypes
  <2> QED BY <2>1, <2>2, <2>3, <2>4, RunStepInv
<1> QED BY <1>1, <1>3, <1>4

\* A run in hand stays one when it drops a shop, a hit or a find, or moves on.
LEMMA AskingInv ==
  KeywordInv /\ (\E a \in Searcher, s \in Seller : SearchFails(a, s) \/ SearchAnswers(a, s))
    => KeywordInv'
<1> SUFFICES ASSUME KeywordInv, NEW a \in Searcher, NEW s \in Seller,
                    SearchFails(a, s) \/ SearchAnswers(a, s)
             PROVE  KeywordInv'
  OBVIOUS
<1> USE KeywordAssumption
<1> DEFINE r == search[a]
<1>1. /\ r \in Run /\ r.pc = "searching" /\ r.sight = NoSight /\ r.watch \in Watch
      /\ r.sending = NoFind /\ search \in [Searcher -> Run]
  <2>1. Idle(search[a])
    BY DEF SearchFails, SearchAnswers
  <2> QED BY <2>1 DEF KeywordInv, KTypes, RunsFit, Idle
<1>2. PICK hits \in SUBSET Hit :
        search' = [search EXCEPT ![a] = [search[a] EXCEPT !.sellers = search[a].sellers \ {s},
                                                          !.hits = hits]]
  <2>1. CASE SearchFails(a, s)
    <3>1. search[a].hits = {}
      BY <2>1 DEF SearchFails, Idle
    <3>2. [search[a] EXCEPT !.sellers = search[a].sellers \ {s}]
            = [search[a] EXCEPT !.sellers = search[a].sellers \ {s}, !.hits = {}]
      BY <1>1, <3>1 DEF Run
    <3>3. search' = [search EXCEPT ![a] = [search[a] EXCEPT !.sellers = search[a].sellers \ {s}]]
      BY <2>1 DEF SearchFails
    <3> QED BY <3>2, <3>3
  <2>2. CASE SearchAnswers(a, s)
    <3>1. PICK found \in SUBSET Code : \E in, dear \in SUBSET found :
            search' = [search EXCEPT
              ![a].sellers = @ \ {s},
              ![a].hits = {[item |-> <<s, c>>, available |-> c \in in,
                            dear |-> c \in dear] : c \in found}]
      BY <2>2 DEF SearchAnswers
    <3>0. PICK in \in SUBSET found, dear \in SUBSET found :
            search' = [search EXCEPT
              ![a].sellers = @ \ {s},
              ![a].hits = {[item |-> <<s, c>>, available |-> c \in in,
                            dear |-> c \in dear] : c \in found}]
      BY <3>1
    <3> DEFINE hits == {[item |-> <<s, c>>, available |-> c \in in,
                         dear |-> c \in dear] : c \in found}
    <3>2. ASSUME NEW c \in found, NEW x \in BOOLEAN, NEW y \in BOOLEAN
          PROVE  [item |-> <<s, c>>, available |-> x, dear |-> y] \in Hit
      BY DEF Hit, Item
    <3>3. hits \in SUBSET Hit
      <4> SUFFICES ASSUME NEW c \in found
                   PROVE  [item |-> <<s, c>>, available |-> c \in in, dear |-> c \in dear] \in Hit
        OBVIOUS
      <4> DEFINE x == c \in in
                 y == c \in dear
      <4>1. x \in BOOLEAN /\ y \in BOOLEAN
        OBVIOUS
      <4> HIDE DEF x, y
      <4>2. [item |-> <<s, c>>, available |-> x, dear |-> y] \in Hit
        BY <3>2, <4>1
      <4> QED BY <4>2 DEF x, y
    <3>4. search' = [search EXCEPT ![a].sellers = @ \ {s}, ![a].hits = hits]
      BY <3>0
    <3> HIDE DEF hits
    <3>5. search' = [search EXCEPT ![a] = [search[a] EXCEPT !.sellers = search[a].sellers \ {s},
                                                          !.hits = hits]]
      BY <3>4
    <3> QED BY <3>3, <3>5
  <2> QED BY <2>1, <2>2
<1> DEFINE run == [search[a] EXCEPT !.sellers = search[a].sellers \ {s}, !.hits = hits]
<1>3. /\ run \in Run /\ run.pc = "searching" /\ run.sight = NoSight /\ run.watch = r.watch
      /\ run.sending = NoFind /\ run.finds = r.finds
  BY <1>1 DEF Run
<1>4. search' = [search EXCEPT ![a] = run]
  BY <1>2
<1> HIDE DEF run
<1>5. SightingsOf(run) = SightingsOf(search[a])
  BY <1>1, <1>3 DEF SightingsOf
<1>6. UNCHANGED <<watchRow, sighted, searcherUp, searching, alertedAt, newsOf, settled,
                  keywordClock>>
  BY DEF SearchFails, SearchAnswers, keywordRows, keywordMemory, keywordHistory
<1>7. searching' = (search'["worker"] # NoRun)
  <2>1. run # NoRun /\ search[a] # NoRun
    BY <1>1, <1>3, NoRunIs
  <2> QED BY <1>1, <1>4, <1>6, <2>1 DEF KeywordInv, RunsFit, Searcher
<1>8. watchRow' \in [Watch -> [state : {"none", "enabled", "disabled"},
                               searched : 0..(MaxKeywordClock + 1)]]
  BY <1>6 DEF KeywordInv, KTypes
<1> QED BY <1>1, <1>3, <1>4, <1>5, <1>6, <1>7, <1>8, RunStepInv

LEMMA ReadSightingInv ==
  KeywordInv /\ (\E a \in Searcher, hit \in Hit : ReadSighting(a, hit)) => KeywordInv'
<1> SUFFICES ASSUME KeywordInv, NEW a \in Searcher, NEW hit \in Hit, ReadSighting(a, hit)
             PROVE  KeywordInv'
  OBVIOUS
<1> USE KeywordAssumption
<1> DEFINE r == search[a]
           row == sighted[<<r.watch, hit.item>>]
           sight == [hit |-> hit, reason |-> ReasonOf(row, hit), row |-> row]
           run == [r EXCEPT !.hits = r.hits \ {hit}, !.sight = sight]
<1>1. /\ r \in Run /\ r.pc = "searching" /\ r.sight = NoSight /\ r.watch \in Watch
      /\ r.sending = NoFind /\ search \in [Searcher -> Run]
  BY DEF KeywordInv, KTypes, RunsFit, ReadSighting
<1>2. <<r.watch, hit.item>> \in Sighting
  BY <1>1 DEF Sighting, Hit
<1>3. row \in Row /\ (row # "in" => newsOf[<<r.watch, hit.item>>] = 0)
  BY <1>2 DEF KeywordInv, KTypes, NewsFit
<1>4. search' = [search EXCEPT ![a] = run]
      /\ UNCHANGED <<watchRow, sighted, searcherUp, searching, alertedAt, newsOf, settled,
                     keywordClock>>
  BY DEF ReadSighting, keywordRows, keywordMemory, keywordHistory
<1> HIDE DEF row
<1>5. sight \in Sight /\ sight.reason = ReasonOf(sight.row, sight.hit)
      /\ sight.row = row /\ sight.hit = hit
  BY <1>3 DEF Sight, Row, ReasonOf
<1> HIDE DEF sight
<1>6. /\ run \in Run /\ run.pc = "searching" /\ run.sight = sight /\ run.watch = r.watch
      /\ run.sending = NoFind /\ run.finds = r.finds
  BY <1>1, <1>5 DEF Run
<1> HIDE DEF run
<1>7. SightingsOf(run) = SightingsOf(search[a])
  BY <1>1, <1>6 DEF SightingsOf
<1>8. searching' = (search'["worker"] # NoRun)
  <2>1. run # NoRun /\ search[a] # NoRun
    BY <1>1, <1>6, NoRunIs
  <2> QED BY <1>1, <1>4, <2>1 DEF KeywordInv, RunsFit, Searcher
<1>9. watchRow' \in [Watch -> [state : {"none", "enabled", "disabled"},
                               searched : 0..(MaxKeywordClock + 1)]]
  BY <1>4 DEF KeywordInv, KTypes
<1> QED BY <1>1, <1>3, <1>4, <1>5, <1>6, <1>7, <1>8, <1>9, RunStepInv

\* The commit of a sighting, which is news at most once.
LEMMA RecordSightingInv ==
  KeywordInv /\ (\E a \in Searcher : RecordSighting(a)) => KeywordInv'
<1> SUFFICES ASSUME KeywordInv, NEW a \in Searcher, RecordSighting(a) PROVE KeywordInv'
  OBVIOUS
<1> USE KeywordAssumption
<1> DEFINE r == search[a]
           sight == r.sight
           p == <<r.watch, sight.hit.item>>
           finds == FindsOf(r.watch, sight)
           run == [r EXCEPT !.sight = NoSight, !.finds = r.finds \cup finds]
<1>1. /\ r \in Run /\ r.pc = "searching" /\ sight \in Sight /\ r.watch \in Watch
      /\ sight.reason = ReasonOf(sight.row, sight.hit)
      /\ r.sending = NoFind /\ search \in [Searcher -> Run]
  BY DEF KeywordInv, KTypes, RunsFit, RecordSighting
<1>2. p \in Sighting
  BY <1>1 DEF Sighting, Sight, Hit
<1>3. /\ sighted' = [sighted EXCEPT ![p] = IF sight.hit.available THEN "in" ELSE "out"]
      /\ search' = [search EXCEPT ![a] = run]
      /\ newsOf' = [newsOf EXCEPT ![p] =
           IF ~sight.hit.available THEN 0
           ELSE IF a = "worker" /\ finds # {} THEN newsOf[p] + 1 ELSE newsOf[p]]
      /\ settled' = IF ~sight.hit.available THEN settled \ {p}
                    ELSE IF \/ a = "cli" \/ TooDear(r.watch, sight.hit)
                            \/ sighted[p] # sight.row
                         THEN settled \cup {p} ELSE settled
      /\ (sight.row = "unseen") <=> (sighted[p] = "unseen")
      /\ UNCHANGED <<watchRow, searcherUp, searching, alertedAt, keywordClock>>
  BY DEF RecordSighting, CannotRecord, keywordMemory
<1>4. /\ sighted \in [Sighting -> Row] /\ newsOf \in [Sighting -> Nat]
      /\ settled \subseteq Sighting
  BY DEF KeywordInv, KTypes
<1>5. /\ finds \in SUBSET Find
      /\ finds # {} => /\ sight.hit.available /\ sight.row # "in"
                       /\ finds = {[item |-> sight.hit.item, dear |-> sight.hit.dear,
                                    reason |-> sight.reason]}
      /\ finds = {} /\ sight.hit.available
           => TooDear(r.watch, sight.hit) \/ sight.row = "in"
  <2>1. sight.hit \in Hit /\ sight.row \in Row
        /\ sight.reason \in {"none", "new", "restock"}
    BY <1>1 DEF Sight
  <2> HIDE DEF sight
  <2>2. sight.reason = "none" \/ sight.reason \in {"new", "restock"}
    BY <2>1
  <2>3. sight.reason # "none" => sight.row # "in"
    BY <1>1 DEF ReasonOf
  <2>4. sight.reason = "none" /\ sight.hit.available => sight.row = "in"
    BY <1>1, <2>1 DEF ReasonOf, Row
  <2>5. sight.hit.item \in Item /\ sight.hit.dear \in BOOLEAN
    BY <2>1 DEF Hit
  <2> DEFINE find == [item |-> sight.hit.item, dear |-> sight.hit.dear, reason |-> sight.reason]
  <2>6. finds = IF sight.reason = "none" \/ ~sight.hit.available \/ TooDear(r.watch, sight.hit)
                THEN {} ELSE {find}
    BY DEF FindsOf
  <2>7. sight.reason # "none" => find \in Find
    BY <2>2, <2>5 DEF Find
  <2> HIDE DEF find, finds
  <2>8. finds = {} \/ (finds = {find} /\ sight.reason # "none" /\ sight.hit.available)
    BY <2>6
  <2>9. finds = {} /\ sight.hit.available
          => TooDear(r.watch, sight.hit) \/ sight.reason = "none"
    BY <2>6
  <2> USE DEF find
  <2> QED BY <2>3, <2>4, <2>7, <2>8, <2>9
<1> HIDE DEF finds
<1>6. /\ run \in Run /\ run.pc = "searching" /\ run.sight = NoSight /\ run.watch = r.watch
      /\ run.sending = NoFind /\ run.finds = r.finds \cup finds
  BY <1>1, <1>5 DEF Run
<1> HIDE DEF run
<1>7. /\ search' \in [Searcher -> Run] /\ search'[a] = run
      /\ \A b \in Searcher : b # a => search'[b] = search[b]
  BY <1>1, <1>3, <1>6
<1> HIDE DEF p
<1>8. /\ sighted' \in [Sighting -> Row] /\ newsOf' \in [Sighting -> Nat]
      /\ settled' \subseteq Sighting
      /\ sighted'[p] = (IF sight.hit.available THEN "in" ELSE "out")
      /\ sight.hit.available \/ newsOf'[p] = 0
      /\ \/ newsOf'[p] \in {0, newsOf[p]}
         \/ newsOf'[p] = newsOf[p] + 1 /\ a = "worker" /\ finds # {}
  BY <1>2, <1>3, <1>4 DEF Row
<1>8a. ASSUME NEW q \in Sighting, q # p
       PROVE  /\ sighted'[q] = sighted[q] /\ newsOf'[q] = newsOf[q]
              /\ q \in settled' <=> q \in settled
  BY <1>2, <1>3, <1>4, <1>8a
<1>9. KTypes'
  BY <1>3, <1>7, <1>8 DEF KeywordInv, KTypes
<1>10. RunsFit'
  <2>1. run # NoRun /\ r # NoRun
    BY <1>1, <1>6, NoRunIs
  <2>2. searching' = (search'["worker"] # NoRun)
    BY <1>3, <1>7, <2>1 DEF KeywordInv, RunsFit, Searcher
  <2> HIDE DEF r
  <2> QED BY <1>1, <1>6, <1>7, <2>2 DEF KeywordInv, RunsFit
<1>11. newsOf[p] = 0 \/ ~(a = "worker" /\ finds # {})
  <2>1. a = "worker" /\ finds # {} => sight # NoSight /\ sight.row # "in"
    BY <1>5 DEF RecordSighting
  <2> QED BY <2>1 DEF KeywordInv, NewsFit, p
<1>12. NewsOnce'
  <2>1. ASSUME NEW q \in Sighting PROVE newsOf'[q] <= 1
    <3>1. newsOf[q] <= 1 /\ newsOf[q] \in Nat
      BY <1>4 DEF KeywordInv, NewsOnce
    <3>2. CASE q = p
      BY <1>2, <1>8, <1>11, <3>1, <3>2
    <3>3. CASE q # p
      BY <1>8a, <3>1, <3>3
    <3> QED BY <3>2, <3>3
  <2> QED BY <2>1 DEF NewsOnce
<1>13. SendingFits'
  <2> DEFINE w == search["worker"]
  <2>1. CASE a = "worker"
    BY <1>6, <1>7, <2>1 DEF SendingFits
  <2>2. CASE a # "worker"
    <3>1. search'["worker"] = w /\ a = "cli"
      BY <1>7, <2>2 DEF Searcher
    <3>2. w.sending # NoFind => <<w.watch, w.sending.item>> \in Sighting
      BY DEF KeywordInv, KTypes, RunsFit, Searcher, Run, Find, Sighting
    <3>3. sight.hit.available => p \in settled'
      BY <1>3, <3>1
    <3> DEFINE q == <<w.watch, w.sending.item>>
    <3>4. w.sending # NoFind /\ sighted[q] = "in" => q \in settled
      BY DEF KeywordInv, SendingFits
    <3>5. ASSUME w.sending # NoFind, sighted'[q] = "in" PROVE q \in settled'
      <4>1. q \in Sighting
        BY <3>2, <3>5
      <4> HIDE DEF q
      <4>2. CASE q = p
        BY <1>8, <3>3, <3>5, <4>2
      <4>3. CASE q # p
        BY <1>8a, <3>4, <3>5, <4>1, <4>3
      <4> QED BY <4>2, <4>3
    <3> QED BY <3>1, <3>5 DEF SendingFits
  <2> QED BY <2>1, <2>2
<1>14. NewsFit'
  <2> DEFINE w == search["worker"]
  <2>1. ASSUME NEW q \in Sighting, sighted'[q] # "in" PROVE newsOf'[q] = 0
    <3>1. sighted[q] # "in" => newsOf[q] = 0
      BY DEF KeywordInv, NewsFit
    <3>2. CASE q = p
      BY <1>8, <2>1, <3>2
    <3>3. CASE q # p
      BY <1>8a, <2>1, <3>1, <3>3
    <3> QED BY <3>2, <3>3
  <2>2. CASE a = "worker"
    BY <1>6, <1>7, <2>1, <2>2 DEF NewsFit
  <2>3. CASE a # "worker"
    <3>1. search'["worker"] = w
      BY <1>7, <2>3 DEF Searcher
    <3>2. w.sight # NoSight => <<w.watch, w.sight.hit.item>> \in Sighting
      BY DEF KeywordInv, KTypes, RunsFit, Searcher, Run, Sight, Hit, Sighting
    <3>3. ASSUME NEW q \in Sighting, newsOf[q] = 0 PROVE newsOf'[q] = 0
      <4>1. CASE q = p
        BY <1>8, <2>3, <3>3, <4>1
      <4>2. CASE q # p
        BY <1>8a, <3>3, <4>2
      <4> QED BY <4>1, <4>2
    <3> QED BY <2>1, <3>1, <3>2, <3>3 DEF KeywordInv, NewsFit
  <2> QED BY <2>2, <2>3
<1>15. AvailableAreAnnounced'
  <2>1. SightingsOf(search["worker"]) \subseteq SightingsOf(search'["worker"])
    <3>1. CASE a = "worker"
      BY <1>1, <1>6, <1>7, <3>1 DEF SightingsOf
    <3>2. CASE a # "worker"
      BY <1>7, <3>2 DEF Searcher
    <3> QED BY <3>1, <3>2
  <2>2. ASSUME NEW q \in Sighting, sighted'[q] = "in", q # p
        PROVE  q \in settled' \cup SightingsOf(search'["worker"])
    <3>1. sighted[q] = "in" /\ (q \in settled => q \in settled')
      BY <1>8a, <2>2
    <3>2. q \in settled \cup SightingsOf(search["worker"])
      BY <3>1 DEF KeywordInv, AvailableAreAnnounced
    <3> QED BY <2>1, <3>1, <3>2
  <2>3. ASSUME sighted'[p] = "in", p \notin settled'
        PROVE  p \in SightingsOf(search'["worker"])
    <3>1. /\ sight.hit.available /\ a # "cli" /\ ~TooDear(r.watch, sight.hit)
          /\ sighted[p] = sight.row /\ p \notin settled
      BY <1>3, <1>8, <2>3
    <3>2. a = "worker"
      BY <3>1 DEF Searcher
    <3>3. CASE finds = {}
      <4>1. sighted[p] = "in"
        BY <1>5, <3>1, <3>3
      <4> QED BY <1>2, <2>1, <3>1, <4>1 DEF KeywordInv, AvailableAreAnnounced
    <3>4. CASE finds # {}
      <4>1. PICK f \in run.finds : f.item = sight.hit.item
        BY <1>5, <1>6, <3>4
      <4> QED BY <1>6, <1>7, <3>2, <4>1 DEF SightingsOf, p
    <3> QED BY <3>3, <3>4
  <2> QED BY <2>2, <2>3 DEF AvailableAreAnnounced
<1> QED BY <1>9, <1>10, <1>12, <1>13, <1>14, <1>15 DEF KeywordInv

\* What a run has in hand is of its watch.
LEMMA SightingsAre ==
  ASSUME KeywordInv, NEW a \in Searcher
  PROVE  SightingsOf(search[a]) \subseteq Sighting
<1>1. search[a] \in Run /\ (search[a] = NoRun \/ search[a].watch \in Watch)
  BY DEF KeywordInv, KTypes, RunsFit
<1>2. CASE search[a] = NoRun
  BY <1>2, SightingsOfNoRun
<1>3. CASE search[a].watch \in Watch
  <2>1. \A f \in search[a].finds : f.item \in Item
    BY <1>1 DEF Run, Find
  <2>2. search[a].sending # NoFind => search[a].sending.item \in Item
    BY <1>1 DEF Run, Find
  <2> QED BY <1>3, <2>1, <2>2 DEF SightingsOf, Sighting
<1> QED BY <1>1, <1>2, <1>3

\* A run that is over leaves nothing unaccounted for, however it ends.
LEMMA EndingInv ==
  ASSUME KeywordInv, NEW a \in Searcher,
         search' = [search EXCEPT ![a] = NoRun],
         searching' = (IF a = "worker" THEN FALSE ELSE searching),
         settled' = (IF a = "worker" THEN settled \cup SightingsOf(search[a]) ELSE settled),
         UNCHANGED <<sighted, newsOf, keywordClock>>,
         watchRow' \in [Watch -> [state : {"none", "enabled", "disabled"},
                                  searched : 0..(MaxKeywordClock + 1)]],
         alertedAt' \in [Find -> 0..(MaxKeywordClock + 1)], searcherUp' \in BOOLEAN
  PROVE  KeywordInv'
<1> USE KeywordAssumption
<1>1. /\ search' \in [Searcher -> Run] /\ search'[a] = NoRun
      /\ \A b \in Searcher : b # a => search'[b] = search[b]
  BY NoRunIs DEF KeywordInv, KTypes
<1>2. settled \subseteq settled' /\ settled' \subseteq Sighting
  BY SightingsAre DEF KeywordInv, KTypes
<1>3. KTypes'
  BY <1>1, <1>2 DEF KeywordInv, KTypes
<1>4. RunsFit'
  <2>1. searching' = (search'["worker"] # NoRun)
    BY <1>1 DEF KeywordInv, RunsFit, Searcher
  <2> QED BY <1>1, <2>1, NoRunIs DEF KeywordInv, RunsFit
<1>5. SendingFits' /\ NewsFit'
  BY <1>1, <1>2, NoRunIs DEF KeywordInv, SendingFits, NewsFit, Searcher
<1>6. AvailableAreAnnounced'
  <2>1. SightingsOf(search["worker"]) \subseteq SightingsOf(search'["worker"]) \cup settled'
    BY <1>1 DEF Searcher
  <2> QED BY <1>2, <2>1 DEF KeywordInv, AvailableAreAnnounced
<1>7. NewsOnce'
  BY DEF KeywordInv, NewsOnce
<1> QED BY <1>3, <1>4, <1>5, <1>6, <1>7 DEF KeywordInv

\* The search is over and its finds are to be announced.
LEMMA FoundInv ==
  ASSUME KeywordInv, Idle(search["worker"]),
         search' = [search EXCEPT !["worker"].pc = "notifying"],
         UNCHANGED <<sighted, searcherUp, searching, alertedAt, newsOf, settled, keywordClock>>,
         watchRow' \in [Watch -> [state : {"none", "enabled", "disabled"},
                                  searched : 0..(MaxKeywordClock + 1)]]
  PROVE  KeywordInv'
<1> DEFINE r == search["worker"]
           run == [r EXCEPT !.pc = "notifying"]
<1>1. /\ "worker" \in Searcher /\ search \in [Searcher -> Run]
      /\ r \in Run /\ r.pc = "searching" /\ r.sight = NoSight /\ r.watch \in Watch
      /\ r.sending = NoFind
  BY DEF KeywordInv, KTypes, RunsFit, Searcher, Idle
<1>2. search' = [search EXCEPT !["worker"] = run]
  OBVIOUS
<1>3. /\ run \in Run /\ run.pc = "notifying" /\ run.sight = NoSight /\ run.watch = r.watch
      /\ run.sending = NoFind /\ run.finds = r.finds
  BY <1>1 DEF Run
<1> HIDE DEF run
<1>4. SightingsOf(run) = SightingsOf(search["worker"])
  BY <1>1, <1>3 DEF SightingsOf
<1>5. searching' = (search'["worker"] # NoRun)
  <2>1. run # NoRun /\ search["worker"] # NoRun
    BY <1>1, <1>3, NoRunIs
  <2> QED BY <1>1, <1>2, <2>1 DEF KeywordInv, RunsFit
<1> QED BY <1>1, <1>2, <1>3, <1>4, <1>5, RunStepInv

LEMMA EndSearchInv ==
  KeywordInv /\ (\E a \in Searcher : RecordRaises(a) \/ EndSearch(a) \/ EndSearchOfDeleted(a))
    => KeywordInv'
<1> SUFFICES ASSUME KeywordInv, NEW a \in Searcher,
                    RecordRaises(a) \/ EndSearch(a) \/ EndSearchOfDeleted(a)
             PROVE  KeywordInv'
  OBVIOUS
<1> USE KeywordAssumption
<1>1. /\ alertedAt' \in [Find -> 0..(MaxKeywordClock + 1)] /\ searcherUp' \in BOOLEAN
      /\ UNCHANGED <<sighted, newsOf, keywordClock, alertedAt, searcherUp>>
  BY DEF RecordRaises, EndSearch, EndSearchOfDeleted, keywordRows, KeywordInv, KTypes
<1>2. watchRow' \in [Watch -> [state : {"none", "enabled", "disabled"},
                               searched : 0..(MaxKeywordClock + 1)]]
  <2>1. CASE RecordRaises(a) \/ EndSearchOfDeleted(a)
    BY <2>1 DEF RecordRaises, EndSearchOfDeleted, keywordRows, KeywordInv, KTypes
  <2>2. CASE EndSearch(a)
    <3> DEFINE w == search[a].watch
               row == [watchRow[w] EXCEPT !.searched = search[a].since]
    <3>1. watchRow' = [watchRow EXCEPT ![w] = row]
      BY <2>2 DEF EndSearch
    <3>2. w \in Watch /\ search[a].since \in 0..(MaxKeywordClock + 1)
      BY <2>2 DEF EndSearch, Idle, KeywordInv, KTypes, RunsFit, Run
    <3>3. row \in [state : {"none", "enabled", "disabled"}, searched : 0..(MaxKeywordClock + 1)]
      BY <3>2 DEF KeywordInv, KTypes
    <3> HIDE DEF w, row
    <3> QED BY <3>1, <3>2, <3>3 DEF KeywordInv, KTypes
  <2> QED BY <2>1, <2>2
<1>3. ASSUME NEW raised \in BOOLEAN, EndRun(a, raised) PROVE KeywordInv'
  BY <1>1, <1>2, <1>3, EndingInv DEF EndRun, FlagOnceEnded
<1>4. \/ \E raised \in BOOLEAN : EndRun(a, raised)
      \/ /\ a = "worker" /\ Idle(search["worker"])
         /\ search' = [search EXCEPT !["worker"].pc = "notifying"]
         /\ UNCHANGED <<searching, settled>>
  BY DEF RecordRaises, EndSearch, EndSearchOfDeleted
<1> QED BY <1>1, <1>2, <1>3, <1>4, FoundInv

LEMMA AlertInv == KeywordInv /\ AlertSteps => KeywordInv'
<1> SUFFICES ASSUME KeywordInv, AlertSteps PROVE KeywordInv'
  OBVIOUS
<1> USE KeywordAssumption
<1> DEFINE r == search["worker"]
<1>0. "worker" \in Searcher /\ search \in [Searcher -> Run] /\ r \in Run
  BY DEF Searcher, KeywordInv, KTypes
<1>1. ASSUME NEW f \in Find, AnnounceFind(f) PROVE KeywordInv'
  <2> DEFINE p == <<r.watch, f.item>>
  <2>1. /\ r.pc = "notifying" /\ r.sending = NoFind /\ f \in r.finds /\ r.watch \in Watch
        /\ r.sight = NoSight
    BY <1>1 DEF AnnounceFind, Notifying, KeywordInv, RunsFit, Searcher
  <2>2. p \in Sighting
    BY <2>1 DEF Sighting, Find
  <2>3. PICK run \in Run :
          /\ search' = [search EXCEPT !["worker"] = run]
          /\ run.pc = "notifying" /\ run.watch = r.watch /\ run.sight = NoSight
          /\ run.finds = r.finds \ {f} /\ run.sending \in {f, NoFind}
          /\ alertedAt' \in [Find -> 0..(MaxKeywordClock + 1)]
    <3>1. CASE Resting(f)
      <4> DEFINE run == [r EXCEPT !.finds = r.finds \ {f}]
      <4>1. search' = [search EXCEPT !["worker"] = run] /\ alertedAt' = alertedAt
        BY <1>1, <3>1 DEF AnnounceFind
      <4>2. run \in Run /\ run.pc = "notifying" /\ run.watch = r.watch /\ run.sight = NoSight
            /\ run.finds = r.finds \ {f} /\ run.sending = NoFind
        BY <1>0, <2>1 DEF Run
      <4> HIDE DEF run
      <4> QED BY <4>1, <4>2 DEF KeywordInv, KTypes
    <3>2. CASE ~Resting(f)
      <4> DEFINE run == [r EXCEPT !.finds = r.finds \ {f}, !.sending = f]
      <4>1. search' = [search EXCEPT !["worker"] = run]
            /\ alertedAt' = [alertedAt EXCEPT ![f] = keywordClock + 1]
        BY <1>1, <3>2 DEF AnnounceFind
      <4>2. run \in Run /\ run.pc = "notifying" /\ run.watch = r.watch /\ run.sight = NoSight
            /\ run.finds = r.finds \ {f} /\ run.sending = f
        BY <1>0, <2>1 DEF Run
      <4>3. keywordClock + 1 \in 0..(MaxKeywordClock + 1)
        BY DEF KeywordInv, KTypes
      <4> HIDE DEF run
      <4> QED BY <4>1, <4>2, <4>3 DEF KeywordInv, KTypes
    <3> QED BY <3>1, <3>2
  <2>4. /\ settled' = settled \cup {p}
        /\ UNCHANGED <<watchRow, sighted, searcherUp, searching, newsOf, keywordClock>>
    BY <1>1 DEF AnnounceFind, keywordRows
  <2>5. /\ search' \in [Searcher -> Run] /\ search'["worker"] = run
        /\ \A b \in Searcher : b # "worker" => search'[b] = search[b]
    BY <1>0, <2>3
  <2>6. KTypes'
    BY <2>2, <2>3, <2>4, <2>5 DEF KeywordInv, KTypes
  <2>7. RunsFit'
    <3>1. run # NoRun /\ r # NoRun
      BY <2>1, <2>3, NoRunIs
    <3>2. searching' = (search'["worker"] # NoRun)
      BY <2>4, <2>5, <3>1 DEF KeywordInv, RunsFit
    <3> HIDE DEF r
    <3>3. ASSUME NEW b \in Searcher
          PROVE  LET x == search'[b] IN
                 /\ x.pc = "none" => x = NoRun
                 /\ x.pc # "none" => x.watch \in Watch
                 /\ x.sight # NoSight =>
                      /\ x.pc = "searching" /\ x.sight \in Sight
                      /\ x.sight.reason = ReasonOf(x.sight.row, x.sight.hit)
                 /\ x.pc # "notifying" => x.sending = NoFind
      <4>1. CASE b = "worker"
        BY <2>1, <2>3, <2>5, <4>1
      <4>2. CASE b # "worker"
        BY <2>5, <4>2 DEF KeywordInv, RunsFit
      <4> QED BY <4>1, <4>2
    <3> QED BY <3>2, <3>3 DEF RunsFit
  <2>8. SendingFits'
    <3>1. run.sending # NoFind => <<run.watch, run.sending.item>> = p
      BY <2>3
    <3> QED BY <2>4, <2>5, <3>1 DEF SendingFits
  <2>9. NewsFit' /\ NewsOnce'
    BY <2>3, <2>4, <2>5 DEF KeywordInv, NewsFit, NewsOnce
  <2>10. AvailableAreAnnounced'
    <3>1. SightingsOf(r) \subseteq SightingsOf(run) \cup {p}
      BY <2>1, <2>3 DEF SightingsOf
    <3> QED BY <2>4, <2>5, <3>1 DEF KeywordInv, AvailableAreAnnounced
  <2> QED BY <2>6, <2>7, <2>8, <2>9, <2>10 DEF KeywordInv
<1>2. CASE AnnouncementEnds
  <2> DEFINE run == [r EXCEPT !.sending = NoFind]
  <2>1. /\ search' = [search EXCEPT !["worker"] = run] /\ r.sending # NoFind
        /\ UNCHANGED <<watchRow, sighted, searcherUp, searching, alertedAt, newsOf, settled,
                       keywordClock>>
    BY <1>2 DEF AnnouncementEnds, keywordRows, keywordMemory, keywordHistory
  <2>2. r.pc = "notifying" /\ r.watch \in Watch /\ r.sight = NoSight
    BY <2>1 DEF KeywordInv, RunsFit, Searcher
  <2>3. run \in Run /\ run.pc = "notifying" /\ run.watch = r.watch /\ run.sight = NoSight
        /\ run.finds = r.finds /\ run.sending = NoFind
    BY <1>0, <2>2 DEF Run
  <2> HIDE DEF run
  <2>4. searching' = (search'["worker"] # NoRun)
    <3>1. run # NoRun /\ r # NoRun
      BY <2>2, <2>3, NoRunIs
    <3> QED BY <1>0, <2>1, <3>1 DEF KeywordInv, RunsFit
  <2>5. \A p \in SightingsOf(r) : p \in SightingsOf(run) \cup settled \/ sighted[p] # "in"
    BY <2>1, <2>3 DEF SightingsOf, KeywordInv, SendingFits
  <2>6. watchRow' \in [Watch -> [state : {"none", "enabled", "disabled"},
                                 searched : 0..(MaxKeywordClock + 1)]]
    BY <2>1 DEF KeywordInv, KTypes
  <2> QED BY <1>0, <2>1, <2>2, <2>3, <2>4, <2>5, <2>6, RunStepInv
<1>3. CASE EndNotifying
  <2>1. /\ EndRun("worker", FALSE)
        /\ UNCHANGED <<watchRow, sighted, searcherUp, alertedAt, newsOf, keywordClock>>
    BY <1>3 DEF EndNotifying, keywordRows
  <2> QED BY <1>0, <2>1, EndingInv DEF EndRun, FlagOnceEnded, KeywordInv, KTypes
<1> QED BY <1>1, <1>2, <1>3 DEF AlertSteps

LEMMA KeywordDieInv == KeywordInv /\ KeywordDie => KeywordInv'
<1> SUFFICES ASSUME KeywordInv, KeywordDie PROVE KeywordInv'
  OBVIOUS
<1>1. /\ search' = [search EXCEPT !["worker"] = NoRun]
      /\ searching' = FALSE /\ searcherUp' = FALSE
      /\ settled' = settled \cup SightingsOf(search["worker"])
      /\ alertedAt' = [f \in Find |-> 0]
      /\ UNCHANGED <<watchRow, sighted, newsOf, keywordClock>>
  BY DEF KeywordDie, keywordRows
<1>2. alertedAt' \in [Find -> 0..(MaxKeywordClock + 1)]
  BY <1>1, KeywordAssumption
<1>3. "worker" \in Searcher
  BY DEF Searcher
<1> QED BY <1>1, <1>2, <1>3, EndingInv DEF KeywordInv, KTypes

LEMMA KeywordClockInv == KeywordInv /\ (KeywordClockTicks \/ UNCHANGED keywordVars) => KeywordInv'
<1> SUFFICES ASSUME KeywordInv, KeywordClockTicks \/ UNCHANGED keywordVars PROVE KeywordInv'
  OBVIOUS
<1> USE KeywordAssumption DEF KeywordInv
<1>1. /\ UNCHANGED <<watchRow, sighted, searcherUp, searching, alertedAt, search, newsOf, settled>>
      /\ keywordClock' \in 0..MaxKeywordClock
  BY DEF KeywordClockTicks, keywordVars, keywordRows, keywordMemory, keywordHistory, KTypes
<1>2. KTypes' /\ RunsFit'
  BY <1>1 DEF KTypes, RunsFit
<1>3. SendingFits' /\ NewsFit' /\ AvailableAreAnnounced' /\ NewsOnce'
  BY <1>1 DEF SendingFits, NewsFit, AvailableAreAnnounced, NewsOnce
<1> QED BY <1>2, <1>3

\* Each step of the worker, of a command and of the world keeps the invariant.
LEMMA KeywordInvStep == KeywordInv /\ [KeywordNext]_keywordVars => KeywordInv'
BY RowCommandInv, DeleteWatchInv, StartInv, AskingInv, ReadSightingInv, RecordSightingInv,
   EndSearchInv, AlertInv, KeywordDieInv, KeywordClockInv DEF KeywordNext, SearchSteps

\* The invariant holds in every state the searches and the commands can reach.
THEOREM KeywordInvariant == KeywordSpec => []KeywordInv
BY KeywordInvInit, KeywordInvStep, PTL DEF KeywordSpec

\* The state has its type, and the flag that keeps a second search from starting is
\* up exactly while the worker has one (app/worker.py::_keyword_watch_in_flight).
THEOREM KeywordTypesHold == KeywordSpec => []KeywordTypeOK
<1>1. KeywordInv => KeywordTypeOK
  BY DEF KeywordInv, KTypes, RunsFit, KeywordTypeOK, Row, Run
<1> QED BY <1>1, KeywordInvariant, PTL

\* What is on record as available was announced since it was last out of stock, or is
\* about to be, or something the worker may do prevented it
\* (app/keyword_watch.py::run_keyword_watch).
THEOREM AvailableAreTold == KeywordSpec => []AvailableAreAnnounced
<1>1. KeywordInv => AvailableAreAnnounced
  BY DEF KeywordInv
<1> QED BY <1>1, KeywordInvariant, PTL

\* A listing is news once for each time it comes into stock, whatever dies or searches
\* beside the worker (app/keyword_watch.py::_classify).
THEOREM NewsIsToldOnce == KeywordSpec => []NewsOnce
<1>1. KeywordInv => NewsOnce
  BY DEF KeywordInv
<1> QED BY <1>1, KeywordInvariant, PTL
=============================================================================
