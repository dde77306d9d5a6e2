\* One worker, two rules on one merchant, one edit or one test of the command
\* line; the worker or the test may die once.
SPECIFICATION Spec

CONSTANTS
  shop = shop
  NoCopy = NoCopy
  NoReply = NoReply
  Rule = {1, 2}
  Merchant <- OneMerchant
  MerchantOf <- SameMerchant
  Offer <- Offers
  Price = {1, 2}
  CheckInterval = 1
  BaseBackoff = 1
  MaxBackoff = 1
  RetryAfter = {1}
  Scored = {1}
  Tested = {1}
  Asked = {1}
  MaxRecords <- ThreeAndOne
  MaxCommands = 1
  MaxDeaths = 1
  MaxClock = 1

INVARIANTS
  TypeOK
  ChangesLeaveEvents
PROPERTIES
  BackedOffMerchantsRest
  DisabledRulesFallSilent
  OpportunityAlertsAlternate
