----------------------------- MODULE MCServices -----------------------------
(* The services around the monitoring loop and the purchase engine, checked one
   after the other in one run: no two of them write the same rows, so that a
   behaviour of one is not a longer behaviour of two.  `focus` says which one
   moves; the instance of each is bounded where the others are not concerned. *)
EXTENDS LocalStock, PidFile, KeywordWatch, Catalogue, MerchantCarts, Valuation,
        Matching

CONSTANTS shopA, shopB, item,            \* local stock
          w1, w2,                        \* sweeps
          p1, p2, o1, i1, i2, i3,        \* the pid file
          m1, m2, code,                  \* merchants and their pages
          b1, b2, probe,                 \* callers of connectors
          scarlet, violet, trainer, box, me04, me05, fr, etb  \* names

VARIABLE focus

TwoShops     == {shopA, shopB}
OneItem      == {item}
TwoSweepers  == {w1, w2}
TwoStarters  == {p1, p2}
OneObserver  == {o1}
ThreeInodes  == {i1, i2, i3}
TwoWatches   == {1, 2}
TwoProducts  == {1, 2}
TheSecond    == {2}
TwoMerchants == {m1, m2}
OneSeller    == {m1}
OneCode      == {code}
TwoBuyers    == {b1, b2}
Words        == {scarlet, violet, trainer, box}
SetCodes     == {me04, me05}
Languages    == {fr}
Types        == {etb}
TypeWords    == [t \in Types |-> {trainer, box}]

Foci == {"shops", "letters", "pid", "keywords", "keyword commands", "pages",
         "products", "shelves", "checkouts", "prices", "names"}

\* What is known of the resale price where it comes from the market.
Market == [mode |-> "market", typed |-> NoPrice, trusted |-> FALSE]
Silent == [mode |-> "manual", typed |-> NoPrice, trusted |-> FALSE]

\* The product and the page to match: with structured names and without.
SomeNames == {n \in Name : n.words = {scarlet, violet} /\ n.code # me05
                           /\ (n.code = NoId <=> n.tongue = NoId)
                           /\ (n.code = NoId <=> n.packing = NoId)}
Products == [ean : {NoId, <<1, "plain">>}, gtin : {NoId, <<2, "plain">>},
             mpn : {NoId, <<1, "plain">>}, name : SomeNames]
Pages == [ean : Ean \ {<<2, "padded">>}, mpn : {NoId, <<1, "plain">>, <<2, "plain">>},
          name : {n \in Name : /\ n.words \in {{}, {scarlet}, {scarlet, violet}}
                               /\ n.tongue = NoId <=> n.packing = NoId}]
Anything == [ean |-> NoId, gtin |-> NoId, mpn |-> NoId,
             name |-> [code |-> NoId, tongue |-> NoId, packing |-> NoId, words |-> {}]]

\* The codes of the products above are codes.
ASSUME ServicesAssumption ==
  /\ {<<1, "plain">>, <<2, "plain">>} \subseteq Ean \cap Mpn

\* Environments that reach no shop, Fuji Store, the UCP shop too, and Cultura too.
Profiles == {{}, {"postcode"}, {"postcode", "email"},
             {"postcode", "email", "address"}}

MatchStarts ==
  \E product \in Products \cup {Anything} : \E page \in Pages :
    /\ focus = "names" => product # Anything /\ page.name.words # {}
    /\ focus # "names" => product = Anything /\ page.ean = NoId /\ page.mpn = NoId
                          /\ page.name = Anything.name
    /\ MatchInit(product, page)

ServicesInit ==
  /\ focus \in Foci
  /\ LocalInit /\ PidInit /\ CatalogueInit
  /\ KeywordInit /\ watchRow = [w \in Watch |-> IF w = 1 THEN NewWatch ELSE NoWatch]
  /\ CartInit
  /\ profile \in CASE focus = "shelves"   -> Profiles
                   [] focus = "checkouts" -> {{}, {"postcode", "email", "address"}}
                   [] OTHER               -> {{}}
  /\ focus # "shelves" => shelf["ucp"].price = 1
  /\ ValuationInit
  /\ CASE focus # "prices"            -> ruleSays = Silent /\ productSays = Silent
       [] ruleSays.mode = "market"    -> ruleSays = Market /\ productSays = Silent
       [] productSays.mode = "market" -> productSays = Market /\ ruleSays = Silent
       [] OTHER                       -> TRUE
  /\ MatchStarts

LocalMoves ==
  /\ focus \in {"shops", "letters"}
  /\ LocalNext
  /\ focus = "shops" => sweep' = sweep
  /\ focus = "letters" => <<shopB, item>> \notin pass'.full
  /\ UNCHANGED <<pidVars, keywordVars, catalogueVars, cartVars, valuationVars,
                 matchVars>>

PidMoves ==
  /\ focus = "pid"
  /\ PidNext
  /\ UNCHANGED <<localVars, keywordVars, catalogueVars, cartVars, valuationVars,
                 matchVars>>

\* The searches of the worker alone, with deaths and time, then against commands.
KeywordMoves ==
  /\ focus \in {"keywords", "keyword commands"}
  /\ KeywordNext
  /\ focus = "keywords" => UNCHANGED search["cli"]
  /\ focus = "keyword commands" => keywordDeaths' = 0 /\ keywordClock' = 0
  /\ UNCHANGED <<localVars, pidVars, catalogueVars, cartVars, valuationVars,
                 matchVars>>

\* One product and the pages of two merchants, where `add` and the commands on one rule
\* concern the first of them; then two products and one page.
CatalogueMoves ==
  /\ focus \in {"pages", "products"}
  /\ CatalogueNext
  /\ focus = "pages" =>
       /\ productRow'[2] = "none"
       /\ job'["cli"].kind = "add" => job'["cli"].page = <<m1, code>>
       /\ jobs' # jobs => RulesOf(<<m2, code>>)' = RulesOf(<<m2, code>>)
  /\ focus = "products" =>
       \A a \in Actor : <<m2, code>> \notin job'[a].pages \cup {job'[a].page}
  /\ UNCHANGED <<localVars, pidVars, keywordVars, cartVars, valuationVars, matchVars>>

\* One thread, called twice or once while the shop moves, then all the callers at one
\* shop that does not.
CartMoves ==
  /\ focus \in {"shelves", "checkouts"}
  /\ CartNext
  /\ focus = "shelves" =>
       /\ calls' + shelfMoves' <= 2
       /\ \A s \in Shop : shelf'[s] # shelf[s] =>
            \E c \in Caller : call[c].shop = s /\ call[c].pc # "none"
       /\ call'[b2].pc = "none" /\ call'[probe].pc = "none"
  /\ focus = "checkouts" =>
       /\ shelfMoves' = 0
       /\ \A c \in Caller : /\ call'[c].shop \in {"cultura", NoCall}
                            /\ call'[c].quantity <= 1
  /\ UNCHANGED <<localVars, pidVars, keywordVars, catalogueVars, valuationVars,
                 matchVars>>

\* A search whose predecessor has expired finds three ads at most: what it finds has
\* nothing to do with what the first one found.  Of the verdicts only those that buy
\* grow old: the others are used as they are.
ValuationMoves ==
  /\ focus = "prices"
  /\ ValuationNext
  /\ cached # NoEntry /\ cached' # cached => Len(cached'.estimate.sample) <= 3
  /\ valuationClock' # valuationClock => Buys \/ verdict = NoVerdict
  /\ UNCHANGED <<localVars, pidVars, keywordVars, catalogueVars, cartVars, matchVars>>

\* One check of each page: a second one would see what the first one can see.  A page
\* that has gone to another article is seen with its codes as they were.
MatchMoves ==
  /\ focus = "names"
  /\ MatchNext
  /\ seen = Unchecked
  /\ linked # "no" /\ ~seen'.here => seen'.ean = onPage.ean /\ seen'.mpn = onPage.mpn
  /\ UNCHANGED <<localVars, pidVars, keywordVars, catalogueVars, cartVars,
                 valuationVars>>

ServicesNext ==
  /\ \/ LocalMoves \/ PidMoves \/ KeywordMoves \/ CatalogueMoves
     \/ CartMoves \/ ValuationMoves \/ MatchMoves
  /\ UNCHANGED focus

servicesVars == <<focus, localVars, pidVars, keywordVars, catalogueVars, cartVars,
                  valuationVars, matchVars>>

\* The fairness is that of the services: only their own steps are ever enabled.
ServicesSpec ==
  /\ ServicesInit /\ [][ServicesNext]_servicesVars
  /\ LocalFairness /\ KeywordFairness /\ CatalogueFairness

-----------------------------------------------------------------------------
(* Properties *)

\* The state of each service has its type.
ServicesTypeOK ==
  /\ LocalTypeOK /\ PidTypeOK /\ KeywordTypeOK /\ CatalogueTypeOK /\ CartTypeOK
  /\ ValuationTypeOK /\ MatchTypeOK

\* The background tasks of the worker end, whatever becomes of their requests, and
\* their flags with them: no failure and no command keeps a later tick from starting
\* the next pass, keyword search or discovery (app/worker.py::_discovery_task_done,
\* _local_stock_task_done, _keyword_watch_task_done).
TasksEnd == PassesEnd /\ SearchesEnd /\ DiscoveryEnds
=============================================================================
