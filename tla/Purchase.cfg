\* One worker at a time, crashes and restarts, two products on three listings.
SPECIFICATION FairSpec
CONSTANTS
  l1 = l1
  l2 = l2
  l3 = l3
  console = console
  game = game
  NoWorker = NoWorker
  NoListing = NoListing
  NoAttempt = NoAttempt
  Worker = {w1}
  Attempt = {a1, a2}
  Product <- TwoProducts
  Listing <- ThreeListings
  ProductOf <- ThreeListingsOf
  MaxPrice <- ThreeListingsMax
  Totals = {2, 3}
  MaxOrderEur = 3
  MaxDailyEur = 4
  CooldownSeconds = 1
  DayLength = 0
  MaxClock = 1
  ExclusivePidfile = TRUE
  LossyCheckout = TRUE
INVARIANTS
  TypeOK
  OneWriterInv
  IndexNeverFires
  CooldownKept
  CheckoutsWithinCaps
  OrdersAreOnRecord
PROPERTIES
  EndedRowsStay
  ActiveRowsSettle
  ImplementsProductSlot
