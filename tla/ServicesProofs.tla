--------------------------- MODULE ServicesProofs ---------------------------
(***************************************************************************)
(* The services together: the behaviours of the common run are behaviours  *)
(* of each service, so that what is proved of a service holds of them all, *)
(* whatever the others do in between.                                      *)
(***************************************************************************)
EXTENDS MCServices, LocalStockProofs, PidFileProofs, DiscoveryProofs, OffersProofs

\* The product and the page the matchers start from are such.
LEMMA MatchersStart ==
  MatchStarts => \E product \in AnyProduct, page \in AnyPage : MatchInit(product, page)
<1>1. Products \subseteq AnyProduct
  BY ServicesAssumption DEF Products, AnyProduct, SomeNames, Ean, Mpn
<1>2. Anything \in AnyProduct
  BY DEF Anything, AnyProduct, Ean, Mpn, Name
<1>3. Pages \subseteq AnyPage
  <2>1. {NoId, <<1, "plain">>, <<2, "plain">>} \subseteq Mpn
    BY ServicesAssumption DEF Mpn
  <2> QED BY <2>1 DEF Pages, AnyPage
<1> QED BY <1>1, <1>2, <1>3 DEF MatchStarts

\* Each service starts as it does alone.
LEMMA ServicesStart ==
  ServicesInit =>
    /\ LocalInit /\ PidInit /\ KeywordInit /\ CatalogueInit /\ CartInit /\ ValuationInit
    /\ \E product \in AnyProduct, page \in AnyPage : MatchInit(product, page)
BY MatchersStart DEF ServicesInit

\* A step of the whole is a step of each service, or leaves it alone.
LEMMA ServicesStep ==
  [ServicesNext]_servicesVars =>
    /\ [LocalNext]_localVars /\ [PidNext]_pidVars /\ [KeywordNext]_keywordVars
    /\ [CatalogueNext]_catalogueVars /\ [CartNext]_cartVars
    /\ [ValuationNext]_valuationVars /\ [MatchNext]_matchVars
<1> SUFFICES ASSUME [ServicesNext]_servicesVars
             PROVE  /\ [LocalNext]_localVars /\ [PidNext]_pidVars
                    /\ [KeywordNext]_keywordVars /\ [CatalogueNext]_catalogueVars
                    /\ [CartNext]_cartVars /\ [ValuationNext]_valuationVars
                    /\ [MatchNext]_matchVars
  OBVIOUS
<1>1. CASE LocalMoves
  BY <1>1, Zenon DEF LocalMoves
<1>2. CASE PidMoves
  BY <1>2, Zenon DEF PidMoves
<1>3. CASE KeywordMoves
  BY <1>3, Zenon DEF KeywordMoves
<1>4. CASE CatalogueMoves
  BY <1>4, Zenon DEF CatalogueMoves
<1>5. CASE CartMoves
  BY <1>5, Zenon DEF CartMoves
<1>6. CASE ValuationMoves
  BY <1>6, Zenon DEF ValuationMoves
<1>7. CASE MatchMoves
  BY <1>7, Zenon DEF MatchMoves
<1>8. CASE UNCHANGED servicesVars
  BY <1>8 DEF servicesVars
<1> QED BY <1>1, <1>2, <1>3, <1>4, <1>5, <1>6, <1>7, <1>8 DEF ServicesNext

\* The services do not disturb each other (app/worker.py, discovery, local_stock,
\* purchase/merchants, market_data): the behaviours of the whole are behaviours of each.
THEOREM ServicesImplementEach ==
  ServicesSpec => /\ LocalSpec /\ PidSpec /\ KeywordSpec /\ CatalogueSpec
                  /\ CartSpec /\ ValuationSpec /\ MatchSpec
BY ServicesStart, ServicesStep, PTL
DEF ServicesSpec, LocalSpec, PidSpec, KeywordSpec, CatalogueSpec, CartSpec, ValuationSpec,
    MatchSpec

\* The state of each service keeps its type while the others run.
THEOREM ServicesTypesHold == ServicesSpec => []ServicesTypeOK
BY ServicesImplementEach, LocalTypesHold, PidTypesHold, KeywordTypesHold,
   CatalogueTypesHold, CartTypesHold, ValuationTypesHold, MatchTypesHold, PTL
DEF ServicesTypeOK

\* What is proved of each service alone holds while the others run: the alerts of the
\* shops follow absences and are queued, one worker runs unless its file was raced,
\* the searches tell the news and tell it once, rules match their listings, duplicates
\* need a race, disabled products rest, quotes cover their carts, purchases rest on
\* the market, tiers follow profits, and what is linked is tradable.
THEOREM ServicesAreSafe ==
  ServicesSpec => [](/\ AlertsFollowAbsence /\ FirstRefillQueued
                     /\ OneWorkerUnlessRaced
                     /\ AvailableAreAnnounced /\ NewsOnce
                     /\ RulesMatchListings /\ DuplicatesNeedRace /\ DisabledProductsRest
                     /\ CartsAreToldTruly
                     /\ BuysRestOnTheMarket /\ TiersFollowProfits
                     /\ LinksAreTradable)
BY ServicesImplementEach, AbsenceComesFirst, FirstRefillsAreQueued, OneWorker,
   AvailableAreTold, NewsIsToldOnce, RulesWatchTheirListings, DoubledOnlyByRace,
   DisabledRest, CartsAreTold, MarketsBackPurchases, JudgementsDoNotContradict,
   LinkedPagesTradable, PTL

\* The messages of the shops are still those of an outbox, and only a conflict of two
\* processes over one row ends a command.
THEOREM ServicesStepSafely == ServicesSpec => LocalImplementsOutbox /\ CrashesAreConflicts
BY ServicesImplementEach, LocalDeliveriesImplementOutbox, OnlyConflictsCrash, PTL
=============================================================================
