\* Two products bought in the same day.
SPECIFICATION Spec
CONSTANTS
  l1 = l1
  l2 = l2
  l3 = l3
  console = console
  game = game
  NoWorker = NoWorker
  NoListing = NoListing
  NoAttempt = NoAttempt
  Worker = {w1}
  Attempt = {a1, a2}
  Product <- TwoProducts
  Listing <- ThreeListings
  ProductOf <- ThreeListingsOf
  MaxPrice <- ThreeListingsMax
  Totals = {2, 3, 4}
  MaxOrderEur = 3
  MaxDailyEur = 4
  CooldownSeconds = 0
  DayLength = 1
  MaxClock = 0
  ExclusivePidfile = TRUE
  LossyCheckout = FALSE
INVARIANT
  DailyBudgetKept
