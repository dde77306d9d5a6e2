\* The kill switch turned off in .env while the worker runs.
SPECIFICATION Spec
CONSTANTS
  l1 = l1
  l2 = l2
  l3 = l3
  console = console
  game = game
  NoWorker = NoWorker
  NoListing = NoListing
  NoAttempt = NoAttempt
  Worker = {w1}
  Attempt = {a1, a2}
  Product <- OneProduct
  Listing <- TwoListings
  ProductOf <- TwoListingsOf
  MaxPrice <- TwoListingsMax
  Totals = {2, 3, 4}
  MaxOrderEur = 3
  MaxDailyEur = 4
  CooldownSeconds = 0
  DayLength = 1
  MaxClock = 0
  ExclusivePidfile = TRUE
  LossyCheckout = FALSE
PROPERTY
  NoCheckoutWhileSwitchedOff
