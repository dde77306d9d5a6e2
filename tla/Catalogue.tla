----------------------------- MODULE Catalogue -----------------------------
(***************************************************************************)
(* How products, listings and rules come into the database: the discovery  *)
(* of a due product by the worker (app/worker.py, app/discovery.py), the   *)
(* commands `discover`, `add-product`, `add`, `delete`, `enable`,           *)
(* `disable`, `enable-product` and `disable-product` (scripts/watch.py),   *)
(* the import of a drop manifest (app/drop_manifest.py), and their rows    *)
(* (database/crud.py).                                                      *)
(*                                                                         *)
(* The worker and one command run in two processes on one database.  An    *)
(* action is a read, or a commit: what one process has read can have       *)
(* changed when it writes.  A page is a listing's (merchant, external_id). *)
(* A merchant's search is the set of its pages that match with the         *)
(* confidence of an auto_link.  Prices are left out.                        *)
(***************************************************************************)
EXTENDS Naturals, FiniteSets

CONSTANTS
  Merchant, ExternalId,
  ProductId,             \* the ids of products, numbers
  DiscoveryInterval,     \* discovery_interval, in units of the clock
  Urgent,                \* products near their release, discovered at every tick
  MaxJobs,               \* bound of the commands and of the restarts
  MaxCatalogueClock,     \* bound of the clock
  NoProduct, NoPage

Page  == Merchant \X ExternalId
Actor == {"worker", "cli"}

ASSUME CatalogueAssumption ==
  /\ ProductId \subseteq Nat /\ Urgent \subseteq ProductId
  /\ DiscoveryInterval \in Nat /\ MaxJobs \in Nat /\ MaxCatalogueClock \in Nat
  /\ NoProduct \notin ProductId /\ NoPage \notin Page

VARIABLES
  merchantRow,      \* the names in the merchants table
  productRow,       \* the status of each row of the products table
  discoveredAt,     \* last_discovery_at: 0, or 1 + the time
  owner,            \* the listings table: the product of each page on record
  ruleRow,          \* the watch_rules table
  lastRule,         \* the last id of a rule
  discovering,      \* _discovery_in_flight
  job,              \* what each process is at
  doubled,          \* (history) pages whose second rule a race or `add` explains
  leftOn,           \* (history) products that got a rule while disabled, had one
                    \* turned on by `enable`, or whose switch was interrupted
  jobs,
  catalogueClock

catalogueRows    == <<merchantRow, productRow, discoveredAt, owner, ruleRow, lastRule>>
catalogueHistory == <<doubled, leftOn>>
catalogueBounds  == <<jobs, catalogueClock>>
catalogueVars    == <<catalogueRows, discovering, job, catalogueHistory,
                      catalogueBounds>>

Rule  == [id : Nat, product : ProductId, page : Page, enabled : BOOLEAN]
NoJob == [pc |-> "none", kind |-> "none", product |-> NoProduct, since |-> 0,
          pages |-> {}, page |-> NoPage, rules |-> {}, status |-> "none"]

\* The user has added the first product; what else there is, is to come.
CatalogueInit ==
  /\ merchantRow = {}
  /\ productRow = [p \in ProductId |-> IF \A q \in ProductId : p <= q
                                       THEN "active" ELSE "none"]
  /\ discoveredAt = [p \in ProductId |-> 0]
  /\ owner = [g \in Page |-> NoProduct]
  /\ ruleRow = {} /\ lastRule = 0
  /\ discovering = FALSE
  /\ job = [a \in Actor |-> NoJob]
  /\ doubled = {} /\ leftOn = {}
  /\ jobs = 0 /\ catalogueClock = 0

RulesOf(g) == {r \in ruleRow : r.page = g}
Product(status) == {p \in ProductId : productRow[p] = status}

-----------------------------------------------------------------------------
(* What starts. *)

Began(kind, p) == [NoJob EXCEPT !.kind = kind, !.product = p,
                                !.since = catalogueClock + 1]

\* is_discovery_due with effective_discovery_interval
DueProduct ==
  {p \in Product("active") :
     \/ discoveredAt[p] = 0 \/ p \in Urgent
     \/ catalogueClock + 1 >= discoveredAt[p] + DiscoveryInterval}

\* The due product of the shortest interval, and of those the first.
NextProduct ==
  LET best == IF DueProduct \cap Urgent = {} THEN DueProduct
              ELSE DueProduct \cap Urgent
  IN CHOOSE p \in best : \A q \in best : p <= q

StartDiscovery ==
  /\ ~discovering /\ DueProduct # {}
  /\ discovering' = TRUE
  /\ job' = [job EXCEPT !["worker"] =
               [Began("discover", NextProduct) EXCEPT !.pc = "search"]]
  /\ UNCHANGED <<catalogueRows, catalogueHistory, jobs, catalogueClock>>

TickWithoutDiscovery ==
  /\ discovering \/ DueProduct = {}
  /\ UNCHANGED catalogueVars

StartCommand ==
  /\ job["cli"] = NoJob /\ jobs < MaxJobs
  /\ jobs' = jobs + 1
  /\ UNCHANGED <<merchantRow, discoveredAt, owner, lastRule, discovering, doubled,
                 catalogueClock>>

\* `discover`, or `add-product` with the EAN of a product on record
CliDiscover(p) ==
  /\ StartCommand
  /\ productRow[p] # "none"
  /\ job' = [job EXCEPT !["cli"] = [Began("discover", p) EXCEPT !.pc = "search"]]
  /\ UNCHANGED <<productRow, ruleRow, leftOn>>

AddProduct(p) ==
  /\ StartCommand
  /\ productRow[p] = "none"
  /\ productRow' = [productRow EXCEPT ![p] = "active"]
  /\ job' = [job EXCEPT !["cli"] = [Began("discover", p) EXCEPT !.pc = "search"]]
  /\ UNCHANGED <<ruleRow, leftOn>>

\* `add` of an URL: the page is known from the start, the product is not.
Add(g) ==
  /\ StartCommand
  /\ job' = [job EXCEPT !["cli"] =
               [Began("add", NoProduct) EXCEPT !.pc = "merchant", !.page = g]]
  /\ UNCHANGED <<productRow, ruleRow, leftOn>>

\* A manifest of entries for one product, found by its EAN or its name.
ImportManifest(p, pages) ==
  /\ StartCommand
  /\ pages # {}
  /\ productRow' = [productRow EXCEPT ![p] = IF @ = "none" THEN "active" ELSE @]
  /\ job' = [job EXCEPT !["cli"] =
               [Began("import", p) EXCEPT !.pc = "next", !.pages = pages]]
  /\ UNCHANGED <<ruleRow, leftOn>>

\* A rule without events; one with events stays.
DeleteRule(r) ==
  /\ StartCommand
  /\ r \in ruleRow
  /\ ruleRow' = ruleRow \ {r}
  /\ UNCHANGED <<productRow, job, leftOn>>

Enabled(r, on) == (ruleRow \ {r}) \cup {[r EXCEPT !.enabled = on]}

\* `enable` of one rule: the status of its product is not looked at.
EnableRule(r) ==
  /\ StartCommand
  /\ r \in ruleRow
  /\ ruleRow' = Enabled(r, TRUE)
  /\ leftOn' = IF productRow[r.product] = "disabled"
               THEN leftOn \cup {r.product} ELSE leftOn
  /\ UNCHANGED <<productRow, job>>

DisableRule(r) ==
  /\ StartCommand
  /\ r \in ruleRow
  /\ ruleRow' = Enabled(r, FALSE)
  /\ UNCHANGED <<productRow, job, leftOn>>

\* (slip) Only the first rule of the product is switched.
FirstRule(p) == {r.id : r \in {x \in ruleRow : /\ x.product = p
                              /\ \A y \in ruleRow : y.product = p => x.id <= y.id}}

\* list_watch_rules of the product
RulesToSwitch(p) == {r.id : r \in {x \in ruleRow : x.product = p}}

\* `enable-product` and `disable-product`: the status, then each rule.
SwitchProduct(p, status) ==
  /\ StartCommand
  /\ productRow[p] # "none"
  /\ job' = [job EXCEPT !["cli"] =
               [Began("switch", p) EXCEPT !.pc = "status", !.status = status]]
  /\ UNCHANGED <<productRow, ruleRow, leftOn>>

WriteStatus ==
  LET j == job["cli"] IN
  /\ j.pc = "status"
  /\ productRow' = [productRow EXCEPT ![j.product] = j.status]
  /\ leftOn' = leftOn \ {j.product}
  /\ job' = [job EXCEPT !["cli"].pc = "list"]
  /\ UNCHANGED <<merchantRow, discoveredAt, owner, ruleRow, lastRule, discovering,
                 doubled, catalogueBounds>>

ListRules ==
  LET j == job["cli"] IN
  /\ j.pc = "list"
  /\ job' = [job EXCEPT !["cli"].pc = "switch", !["cli"].rules = RulesToSwitch(j.product)]
  /\ UNCHANGED <<catalogueRows, discovering, catalogueHistory, catalogueBounds>>

SwitchRule(r) ==
  LET j == job["cli"] IN
  /\ j.pc = "switch" /\ r \in ruleRow /\ r.id \in j.rules
  /\ ruleRow' = Enabled(r, j.status = "active")
  /\ job' = [job EXCEPT !["cli"].rules = @ \ {r.id}]
  /\ UNCHANGED <<merchantRow, productRow, discoveredAt, owner, lastRule,
                 discovering, catalogueHistory, catalogueBounds>>

EndSwitch ==
  /\ job["cli"].pc = "switch" /\ job["cli"].rules = {}
  /\ job' = [job EXCEPT !["cli"] = NoJob]
  /\ UNCHANGED <<catalogueRows, discovering, catalogueHistory, catalogueBounds>>

-----------------------------------------------------------------------------
(* One page after the other. *)

\* The searches of the merchants end; those that failed show no page.
SearchEnds(a) ==
  /\ job[a].pc = "search"
  /\ \E pages \in SUBSET Page :
       job' = [job EXCEPT ![a].pc = "next", ![a].pages = pages]
  /\ UNCHANGED <<catalogueRows, discovering, catalogueHistory, catalogueBounds>>

NextPage(a, g) ==
  /\ job[a].pc = "next" /\ g \in job[a].pages
  /\ job' = [job EXCEPT ![a].pc = "merchant", ![a].page = g, ![a].pages = @ \ {g}]
  /\ UNCHANGED <<catalogueRows, discovering, catalogueHistory, catalogueBounds>>

Goes(a, pc) == job' = [job EXCEPT ![a].pc = pc]

\* The end of a job, whether it raised or not.
Ends(a) ==
  /\ job' = [job EXCEPT ![a] = NoJob]
  /\ discovering' = (discovering /\ a # "worker")

\* An import ends without more ado, a discovery stamps its product.
EndPages(a) ==
  /\ job[a].pc = "next" /\ job[a].pages = {}
  /\ discoveredAt' = IF job[a].kind # "discover" THEN discoveredAt
                     ELSE [discoveredAt EXCEPT ![job[a].product] = job[a].since]
  /\ Ends(a)
  /\ UNCHANGED <<merchantRow, productRow, owner, ruleRow, lastRule,
                 catalogueHistory, catalogueBounds>>

ReadMerchant(a) ==
  /\ job[a].pc = "merchant"
  /\ Goes(a, IF job[a].page[1] \in merchantRow THEN "listing" ELSE "newMerchant")
  /\ UNCHANGED <<catalogueRows, discovering, catalogueHistory, catalogueBounds>>

\* (slip) The IntegrityError of an insert is caught nowhere.
CaughtNowhere(a) == FALSE

\* A discovery catches the IntegrityError and reads the row of the other process.
CaughtAndRead(a) == job[a].kind = "discover"

\* Whether the insert of a row goes on to the step pc, its row being there.
Inserts(a, pc, taken) ==
  IF taken /\ ~CaughtAndRead(a) THEN Ends(a)
  ELSE Goes(a, pc) /\ UNCHANGED discovering

InsertMerchant(a) ==
  /\ job[a].pc = "newMerchant"
  /\ Inserts(a, "listing", job[a].page[1] \in merchantRow)
  /\ merchantRow' = merchantRow \cup {job[a].page[1]}
  /\ UNCHANGED <<productRow, discoveredAt, owner, ruleRow, lastRule,
                 catalogueHistory, catalogueBounds>>

\* `add` takes the product of the listing, or creates one.
ReadListing(a) ==
  LET p == owner[job[a].page]
      add == job[a].kind = "add" IN
  /\ job[a].pc = "listing"
  /\ job' = [job EXCEPT
       ![a].pc = IF p = NoProduct THEN IF add THEN "newProduct" ELSE "newListing"
                 ELSE IF add THEN "newRule" ELSE "rule",
       ![a].product = IF add THEN p ELSE @]
  /\ UNCHANGED <<catalogueRows, discovering, catalogueHistory, catalogueBounds>>

InsertProduct(p) ==
  /\ job["cli"].pc = "newProduct" /\ productRow[p] = "none"
  /\ productRow' = [productRow EXCEPT ![p] = "active"]
  /\ job' = [job EXCEPT !["cli"].pc = "newListing", !["cli"].product = p]
  /\ UNCHANGED <<merchantRow, discoveredAt, owner, ruleRow, lastRule, discovering,
                 catalogueHistory, catalogueBounds>>

InsertListing(a) ==
  LET j == job[a]
      taken == owner[j.page] # NoProduct IN
  /\ j.pc = "newListing"
  /\ Inserts(a, IF j.kind = "add" THEN "newRule" ELSE "rule", taken)
  /\ owner' = IF taken THEN owner ELSE [owner EXCEPT ![j.page] = j.product]
  /\ UNCHANGED <<merchantRow, productRow, discoveredAt, ruleRow, lastRule,
                 catalogueHistory, catalogueBounds>>

\* (slip) A rule of the page counts when it is one of the product.
MonitoredForProduct(j) == \E r \in RulesOf(j.page) : r.product = j.product /\ r.enabled

\* get_watch_rule_by_listing_id
Monitored(j) == RulesOf(j.page) # {}

ReadRule(a) ==
  /\ job[a].pc = "rule"
  /\ Goes(a, IF Monitored(job[a]) THEN "next" ELSE "newRule")
  /\ UNCHANGED <<catalogueRows, discovering, catalogueHistory, catalogueBounds>>

\* (slip) The listing is not compared with the product.
AnyListing(p, g) == owner[g] # NoProduct

\* _validate_listing_belongs_to_product
BelongsTo(p, g) == owner[g] = p

\* The other process is about to insert a rule of the same page.
Races(a, g) == \E b \in Actor \ {a} : job[b].page = g /\ job[b].pc = "newRule"

InsertRule(a) ==
  LET j == job[a]
      rule == [id |-> lastRule + 1, product |-> j.product, page |-> j.page,
               enabled |-> TRUE] IN
  /\ j.pc = "newRule"
  /\ BelongsTo(j.product, j.page)
  /\ ruleRow' = ruleRow \cup {rule}
  /\ lastRule' = lastRule + 1
  /\ doubled' = IF j.kind = "add" \/ Races(a, j.page) THEN doubled \cup {j.page}
                ELSE doubled
  /\ leftOn' = IF productRow[j.product] = "disabled"
               THEN leftOn \cup {j.product} ELSE leftOn
  /\ IF j.kind = "add" THEN Ends(a) ELSE Goes(a, "next") /\ UNCHANGED discovering
  /\ UNCHANGED <<merchantRow, productRow, discoveredAt, owner, catalogueBounds>>

\* A ValueError ends the job: its other pages are not looked at.
RefuseRule(a) ==
  /\ job[a].pc = "newRule"
  /\ ~BelongsTo(job[a].product, job[a].page)
  /\ Ends(a)
  /\ UNCHANGED <<catalogueRows, catalogueHistory, catalogueBounds>>

\* The command is interrupted.
CliInterrupted ==
  /\ job["cli"] # NoJob
  /\ Ends("cli")
  /\ leftOn' = IF job["cli"].kind = "switch" THEN leftOn \cup {job["cli"].product}
               ELSE leftOn
  /\ UNCHANGED <<catalogueRows, doubled, catalogueBounds>>

\* The worker is killed and started again.
WorkerRestarts ==
  /\ discovering /\ jobs < MaxJobs
  /\ jobs' = jobs + 1
  /\ Ends("worker")
  /\ UNCHANGED <<catalogueRows, catalogueHistory, catalogueClock>>

CatalogueClockTicks ==
  /\ catalogueClock < MaxCatalogueClock
  /\ catalogueClock' = catalogueClock + 1
  /\ UNCHANGED <<catalogueRows, discovering, job, catalogueHistory, jobs>>

LinkSteps(a) ==
  \/ SearchEnds(a) \/ EndPages(a)
  \/ \E g \in Page : NextPage(a, g)
  \/ ReadMerchant(a) \/ InsertMerchant(a)
  \/ ReadListing(a) \/ InsertListing(a)
  \/ ReadRule(a) \/ InsertRule(a) \/ RefuseRule(a)

CatalogueNext ==
  \/ StartDiscovery \/ TickWithoutDiscovery
  \/ \E p \in ProductId : CliDiscover(p) \/ AddProduct(p) \/ InsertProduct(p)
  \/ \E g \in Page : Add(g)
  \/ \E p \in ProductId, pages \in SUBSET Page : ImportManifest(p, pages)
  \/ \E r \in ruleRow : DeleteRule(r) \/ EnableRule(r) \/ DisableRule(r) \/ SwitchRule(r)
  \/ \E p \in ProductId, status \in {"active", "disabled"} : SwitchProduct(p, status)
  \/ WriteStatus \/ ListRules \/ EndSwitch
  \/ \E a \in Actor : LinkSteps(a)
  \/ CliInterrupted
  \/ WorkerRestarts
  \/ CatalogueClockTicks

\* Searches have a timeout, and the event loop resumes what can go on.
CatalogueFairness == WF_catalogueVars(LinkSteps("worker"))

CatalogueSpec == CatalogueInit /\ [][CatalogueNext]_catalogueVars /\ CatalogueFairness

-----------------------------------------------------------------------------
(* Properties *)

\* Type correctness, and that the flag of the worker goes with its discovery.
CatalogueTypeOK ==
  /\ merchantRow \subseteq Merchant
  /\ productRow \in [ProductId -> {"none", "active", "disabled"}]
  /\ discoveredAt \in [ProductId -> 0..(MaxCatalogueClock + 1)]
  /\ owner \in [Page -> ProductId \cup {NoProduct}]
  /\ ruleRow \subseteq Rule /\ lastRule \in Nat
  /\ discovering \in BOOLEAN
  /\ discovering = (job["worker"] # NoJob)
  /\ \A a \in Actor : /\ job[a].product \in ProductId \cup {NoProduct}
                      /\ job[a].page \in Page \cup {NoPage}
                      /\ job[a].pages \subseteq Page
  /\ doubled \subseteq Page /\ leftOn \subseteq ProductId

\* A rule watches a listing of its own product, whichever of the two processes
\* wrote the listing while the other one was between its reads and its inserts.
RulesMatchListings ==
  \A r \in ruleRow : owner[r.page] = r.product /\ r.page[1] \in merchantRow

\* Discovery and import give a page that is monitored no second rule, but when
\* the two processes insert the rule together; `add` gives it one every time.
DuplicatesNeedRace ==
  \A r, s \in ruleRow : r.page = s.page /\ r # s => r.page \in doubled

\* A product that is disabled has no rule that is enabled, once the command is
\* over, but those that a link under way, or a later one, has given it, those
\* that an interrupted command did not come to, and those that a later `enable`
\* of the rule has turned on.
DisabledProductsRest ==
  \A r \in ruleRow :
    /\ productRow[r.product] = "disabled" /\ r.enabled
    => \/ r.product \in leftOn
       \/ job["cli"].kind = "switch" /\ job["cli"].product = r.product

\* A discovery of the worker that does not stamp its product was killed, or found
\* a page of another product: losing a race of inserts does not end it.
CrashesAreConflicts ==
  [][LET j == job["worker"] IN
     /\ job["worker"]' = NoJob
     /\ j.pc \in {"newMerchant", "newListing", "newRule"}
     /\ jobs' = jobs
     => owner[j.page] \notin {NoProduct, j.product}]_catalogueVars

\* Every discovery ends, its flag cleared, so that the next product has its turn.
DiscoveryEnds == discovering ~> ~discovering
=============================================================================
