\* The services around the monitoring loop, in turn.  Commands, calls, deaths and
\* clocks are bounded, so that each of them stops at its bound.
SPECIFICATION ServicesSpec
CONSTANTS
  shopA = shopA
  shopB = shopB
  item = item
  w1 = w1
  w2 = w2
  p1 = p1
  p2 = p2
  o1 = o1
  i1 = i1
  i2 = i2
  i3 = i3
  m1 = m1
  m2 = m2
  code = code
  b1 = b1
  b2 = b2
  probe = probe
  scarlet = scarlet
  violet = violet
  trainer = trainer
  box = box
  me04 = me04
  me05 = me05
  fr = fr
  etb = etb
  Store <- TwoShops
  Listing <- OneItem
  Sweeper <- TwoSweepers
  PassInterval = 1
  LocalAttempts = 2
  LocalRetry = 1
  MaxLocalDeaths = 1
  MaxLocalClock = 2
  NoShelf = NoShelf
  Process <- TwoStarters
  Observer <- OneObserver
  Inode <- ThreeInodes
  NoInode = NoInode
  NoProcess = NoProcess
  Watch <- TwoWatches
  Capped <- TheSecond
  Seller <- OneSeller
  Code <- OneCode
  SearchInterval = 1
  AlertRest = 1
  MaxCommands = 2
  MaxKeywordDeaths = 1
  MaxKeywordClock = 1
  NoItem = NoItem
  Merchant <- TwoMerchants
  ExternalId <- OneCode
  ProductId <- TwoProducts
  DiscoveryInterval = 1
  Urgent <- TheSecond
  MaxJobs = 2
  MaxCatalogueClock = 0
  NoProduct = NoProduct
  NoPage = NoPage
  Buyer <- TwoBuyers
  Probe <- probe
  CartPrice = {1, 2}
  CartQuantity = {1, 2}
  MaxShelfMoves = 1
  MaxCalls = 2
  NoAmount = NoAmount
  NoCall = NoCall
  AdPrice = {2, 3, 9}
  MaxAds = 5
  ForeignPrice = 30
  OfferPrice = {1, 2}
  TypedPrice = {7}
  MediumSample = 3
  HighSample = 4
  DispersionPct = 40
  FeePct = 10
  Costs = 0
  MinProfit = 0
  MinRoiPct = 10
  ResaleTTL = 1
  MaxValuationClock = 1
  NoPrice = NoPrice
  Word <- Words
  SetCode <- SetCodes
  Tongue <- Languages
  Packing <- Types
  PackingWords <- TypeWords
  Spelling = {"plain", "padded"}
  Digits = {1, 2}
  Part = {1, 2}
  Blank = Blank
  NoId = NoId
CHECK_DEADLOCK FALSE
INVARIANTS
  ServicesTypeOK
  AlertsFollowAbsence
  FirstRefillQueued
  OneWorkerUnlessRaced
  AvailableAreAnnounced
  NewsOnce
  RulesMatchListings
  DuplicatesNeedRace
  DisabledProductsRest
  CartsAreToldTruly
  BuysRestOnTheMarket
  TiersFollowProfits
  LinksAreTradable
PROPERTIES
  LocalImplementsOutbox
  CrashesAreConflicts
  TasksEnd
