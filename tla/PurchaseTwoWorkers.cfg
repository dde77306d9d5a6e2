\* Two workers that no pid file keeps apart.
SPECIFICATION Spec
CONSTANTS
  l1 = l1
  l2 = l2
  l3 = l3
  console = console
  game = game
  NoWorker = NoWorker
  NoListing = NoListing
  NoAttempt = NoAttempt
  Worker = {w1, w2}
  Attempt = {a1, a2}
  Product <- OneProduct
  Listing <- TwoListings
  ProductOf <- TwoListingsOf
  MaxPrice <- TwoListingsMax
  Totals = {2, 3}
  MaxOrderEur = 3
  MaxDailyEur = 4
  CooldownSeconds = 0
  DayLength = 1
  MaxClock = 0
  ExclusivePidfile = FALSE
  LossyCheckout = FALSE
SYMMETRY Interchangeable
INVARIANT
  OneBlockingRowPerProduct
PROPERTY
  BoughtProductsStayAlone
