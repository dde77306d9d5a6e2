----------------------------- MODULE Valuation -----------------------------
(***************************************************************************)
(* What an offer is worth: the resale price, typed by the user or          *)
(* estimated from the ads of a market and cached (app/resale.py,           *)
(* market_data/estimator.py, market_data/cache.py), the profit and the     *)
(* recommendation that purchases are gated on (engine/opportunity.py), and *)
(* the score and tier that alerts follow (engine/ranking.py,               *)
(* engine/alerting.py, app/opportunity_snapshot.py).                       *)
(*                                                                         *)
(* Prices are in euros, resale prices in half euros (a median may fall     *)
(* between two ads), profits in cents, scores in hundredths.  Rates,       *)
(* margins and sub-scores are rounded down to whole percents: their        *)
(* thresholds are whole.  A search and the caching of its estimate are one *)
(* step.  Time passes between a verdict and its use, and the purchase      *)
(* engine judges the quote of the merchant with the old resale price.      *)
(***************************************************************************)
EXTENDS Integers, Sequences, SequencesExt

CONSTANTS
  AdPrice, MaxAds,         \* prices and number of the ads of a search in euros
  ForeignPrice,            \* the price of an ad in another currency
  OfferPrice,              \* prices of the offer
  TypedPrice,              \* estimated_resale_price, in half euros
  MediumSample, HighSample, DispersionPct,   \* EstimatorConfig
  FeePct, Costs,           \* platform_fee_pct, and the other fees in euros
  MinProfit, MinRoiPct,    \* minimum_net_profit, in euros, and minimum_roi_pct
  ResaleTTL,               \* of the cache, in units of the clock
  MaxValuationClock,       \* bound of the clock
  NoPrice

Confidence == {"low", "medium", "high"}

ASSUME ValuationAssumption ==
  /\ AdPrice \subseteq Nat \ {0} /\ OfferPrice \subseteq Nat \ {0}
  /\ TypedPrice \subseteq Nat \ {0} /\ NoPrice \notin Nat
  /\ ForeignPrice \in Nat \ {0}
  /\ {MaxAds, MediumSample, HighSample, DispersionPct, FeePct, Costs, MinProfit,
      MinRoiPct, ResaleTTL, MaxValuationClock} \subseteq Nat
  /\ MediumSample >= 3 /\ ResaleTTL > 0

VARIABLES
  ruleSays, productSays,  \* what each says of the resale price
  cached,           \* the entry of the product in the cache
  verdict,          \* the last evaluation of an offer; `read` is when its resale price was
  valuationClock

valuationVars == <<ruleSays, productSays, cached, verdict, valuationClock>>

Sorted(s) == \A i, j \in DOMAIN s : i <= j => s[i] <= s[j]

\* The ads that are comparable, by currency, each sorted by price.
Search == [euro : {s \in SeqOf(AdPrice, MaxAds) : Sorted(s)},
           foreign : {[i \in 1..n |-> ForeignPrice] : n \in 0..2}]

Estimate(price, sample, confidence) ==
  [price |-> price, sample |-> sample, confidence |-> confidence]
NoEstimate == Estimate(NoPrice, <<>>, "low")
NoEntry    == [estimate |-> NoEstimate, seen |-> 0, expires |-> 0]
NoVerdict  == [resale |-> NoPrice, estimate |-> NoEstimate, confidence |-> "low",
               seen |-> 0, read |-> 0, net |-> 0, available |-> FALSE, match |-> 0,
               required |-> "medium", recommendation |-> "none", tier |-> "none"]

-----------------------------------------------------------------------------
(* The estimate. *)

\* _quartile, times 4: k = 1 or 3 quarters of the way.
Quartile(s, k) ==
  LET at    == k * (Len(s) - 1)
      lower == s[at \div 4 + 1]
      upper == IF at \div 4 + 2 <= Len(s) THEN s[at \div 4 + 2] ELSE lower
  IN 4 * lower + (upper - lower) * (at % 4)

\* _remove_outliers: fences 1.5 times the interquartile range away.  The prices are
\* sorted, so that those within the fences follow each other.
Kept(s) ==
  LET q1     == Quartile(s, 1)
      q3     == Quartile(s, 3)
      iqr    == q3 - q1
      within == {i \in DOMAIN s : /\ 8 * s[i] >= 2 * q1 - 3 * iqr
                                  /\ 8 * s[i] <= 2 * q3 + 3 * iqr}
  IN IF Len(s) < 4 \/ iqr = 0 \/ within = {} THEN s
     ELSE SubSeq(s, Min(within), Max(within))

\* (slip) The mean, in half euros.
Mean(s) == (2 * FoldSeq(+, 0, s)) \div Len(s)

\* _median, in half euros
Median(s) ==
  LET mid == Len(s) \div 2 IN
  IF Len(s) % 2 = 1 THEN 2 * s[mid + 1] ELSE s[mid] + s[mid + 1]

\* _classify_confidence: what is only asked for is never highly trusted.
ConfidenceIn(s, sold) ==
  IF Len(s) < MediumSample THEN "low"
  ELSE IF /\ sold /\ Len(s) >= HighSample
          /\ 200 * (s[Len(s)] - s[1]) <= DispersionPct * Median(s)
       THEN "high" ELSE "medium"

\* The ads of the commonest currency; of as many, those of the first ad.
Pooled(found) ==
  {s \in {found.euro, found.foreign} :
     \A t \in {found.euro, found.foreign} : Len(t) <= Len(s)}

\* estimate_resale_price of one currency
EstimateFrom(s, sold) ==
  IF s = <<>> THEN NoEstimate
  ELSE Estimate(Median(Kept(s)), Kept(s), ConfidenceIn(Kept(s), sold))

\* What the searches of the market can come to.
Estimates ==
  {EstimateFrom(s, sold) : s \in UNION {Pooled(found) : found \in Search},
                           sold \in BOOLEAN}

-----------------------------------------------------------------------------
(* The resale price. *)

EffectiveMode == IF "market" \in {ruleSays.mode, productSays.mode} THEN "market" ELSE "manual"
EffectiveTyped == IF ruleSays.typed # NoPrice THEN ruleSays.typed ELSE productSays.typed
EffectiveTrusted == ruleSays.trusted \/ productSays.trusted

\* (slip) The entry of the cache does not expire.
CachedForever == cached # NoEntry

\* TTLCache.get
CacheHit == cached # NoEntry /\ valuationClock < cached.expires

-----------------------------------------------------------------------------
(* The profit, and what is recommended. *)

FixedCosts == 100 * Costs
Net(price, resale) == 50 * resale - 100 * price - (resale * FeePct) \div 2 - FixedCosts
Roi(price, resale) == Net(price, resale) \div price
Margin(price, resale) == (2 * Net(price, resale)) \div resale

\* _classify, with no minimum margin and a strong_buy_roi_pct of 50
StatusOf(price, resale) ==
  CASE Net(price, resale) < 100 * MinProfit -> "reject"
    [] OTHER -> CASE \/ Roi(price, resale) < MinRoiPct
                     \/ Margin(price, resale) < 0 -> "watch"
                  [] Roi(price, resale) >= 50     -> "strong_buy_candidate"
                  [] OTHER                        -> "buy_candidate"

Level(c) == CASE c = "low" -> 0 [] c = "medium" -> 1 [] c = "high" -> 2

\* recommend_purchase
Recommended(price, resale, confidence, required) ==
  IF resale = NoPrice THEN "alert_only"
  ELSE CASE StatusOf(price, resale) = "reject" -> "reject"
         [] StatusOf(price, resale) = "watch"  -> "alert_only"
         [] OTHER -> IF Level(confidence) < Level(required) THEN "alert_only"
                     ELSE IF StatusOf(price, resale) = "buy_candidate" THEN "buy"
                     ELSE "strong_buy"

-----------------------------------------------------------------------------
(* The score and the tier. *)

Clamped(n) == IF n < 0 THEN 0 ELSE IF n > 100 THEN 100 ELSE n

SampleScore(n) == IF n >= 8 THEN 100 ELSE IF n >= 3 THEN 60 ELSE IF n >= 1 THEN 30 ELSE 0
ConfidenceScore(c) == CASE c = "low" -> 20 [] c = "medium" -> 60 [] c = "high" -> 100

\* The caps are 100 % of ROI, 100 euros of profit and 50 % of margin.
RawScore(price, resale, confidence, match, sample) ==
  30 * Clamped(Roi(price, resale)) + 20 * Clamped(Net(price, resale) \div 100)
  + 15 * Clamped(2 * Margin(price, resale)) + 15 * ConfidenceScore(confidence)
  + 15 * match + 5 * SampleScore(sample)

\* (slip) A loss is scored like the rest.
Uncapped(score, net) == score

\* negative_profit_score_cap
LossCapped(score, net) == IF net < 0 /\ score > 1000 THEN 1000 ELSE score

\* _score_candidate: what is out of stock counts half.
ScoreOf(price, resale, confidence, match, sample, available) ==
  LET raw == RawScore(price, resale, confidence, match, sample) IN
  LossCapped(IF available THEN raw ELSE raw \div 2, Net(price, resale))

\* _priority_for and alert_tier_for
TierOf(score) ==
  CASE score >= 8500 -> "urgent" [] score < 8500 /\ score >= 6500 -> "high"
    [] score < 6500 /\ score >= 1500 -> "watch" [] score < 1500 -> "ignore"

-----------------------------------------------------------------------------
(* Behaviour: offers are evaluated as the market and the prices move. *)

ValuationInit ==
  /\ ruleSays \in [mode : {"manual", "market"}, typed : TypedPrice \cup {NoPrice},
               trusted : BOOLEAN]
  /\ productSays \in [mode : {"manual", "market"}, typed : TypedPrice \cup {NoPrice},
                  trusted : BOOLEAN]
  /\ cached = NoEntry /\ verdict = NoVerdict
  /\ valuationClock = 0

\* build_opportunity_candidate and recommend_purchase of one offer
Judged(resale, entry, confidence, price, match, available, required) ==
  LET net   == IF resale = NoPrice THEN 0 ELSE Net(price, resale)
      score == ScoreOf(price, resale, confidence, match, Len(entry.estimate.sample),
                       available)
  IN [resale |-> resale, estimate |-> entry.estimate, confidence |-> confidence,
      seen |-> entry.seen, read |-> valuationClock, net |-> net,
      available |-> available, match |-> match, required |-> required,
      recommendation |-> Recommended(price, resale, confidence, required),
      tier |-> IF resale = NoPrice THEN "needs_market_data" ELSE TierOf(score)]

Judge(resale, entry, confidence) ==
  /\ verdict = NoVerdict
  /\ \E price \in OfferPrice, match \in {0, 50, 80, 100}, available \in BOOLEAN,
        required \in Confidence :
       verdict' = Judged(resale, entry, confidence, price, match, available, required)

\* The price that was typed is only as good as it is said to be.
EvaluateTyped ==
  /\ EffectiveMode = "manual"
  /\ Judge(EffectiveTyped, NoEntry, IF EffectiveTrusted THEN "high" ELSE "low")
  /\ UNCHANGED <<ruleSays, productSays, cached, valuationClock>>

EvaluateCached ==
  /\ EffectiveMode = "market" /\ CacheHit
  /\ Judge(cached.estimate.price, cached, cached.estimate.confidence)
  /\ UNCHANGED <<ruleSays, productSays, cached, valuationClock>>

\* What is found is cached, were it nothing.
EvaluateSearched ==
  /\ EffectiveMode = "market" /\ ~CacheHit
  /\ \E e \in Estimates :
       /\ cached' = [estimate |-> e, seen |-> valuationClock,
                     expires |-> valuationClock + ResaleTTL]
       /\ Judge(e.price, cached', e.confidence)
  /\ UNCHANGED <<ruleSays, productSays, valuationClock>>

\* The market does not answer, or the rule names none.
EvaluateBlind ==
  /\ EffectiveMode = "market" /\ ~CacheHit
  /\ Judge(NoPrice, NoEntry, "low")
  /\ UNCHANGED <<ruleSays, productSays, cached, valuationClock>>

\* attempt_purchase, after the merchant has answered: the total it quotes is judged
\* with the resale price of the trigger, whose market may have moved since.
JudgeAgain ==
  /\ verdict.recommendation \in {"buy", "strong_buy"}
  /\ \E total \in OfferPrice :
       verdict' = [verdict EXCEPT !.recommendation =
                     Recommended(total, verdict.resale, verdict.confidence,
                                 verdict.required)]
  /\ UNCHANGED <<ruleSays, productSays, cached, valuationClock>>

\* The alert or the purchase has taken the verdict.
VerdictIsUsed ==
  /\ verdict # NoVerdict
  /\ verdict' = NoVerdict
  /\ UNCHANGED <<ruleSays, productSays, cached, valuationClock>>

ValuationClockTicks ==
  /\ valuationClock < MaxValuationClock
  /\ valuationClock' = valuationClock + 1
  /\ UNCHANGED <<ruleSays, productSays, cached, verdict>>

ValuationNext ==
  \/ EvaluateTyped \/ EvaluateCached \/ EvaluateSearched \/ EvaluateBlind
  \/ JudgeAgain \/ VerdictIsUsed \/ ValuationClockTicks

ValuationSpec == ValuationInit /\ [][ValuationNext]_valuationVars

-----------------------------------------------------------------------------
(* Properties *)

ValuationTypeOK ==
  /\ cached.estimate.confidence \in Confidence
  /\ cached.expires \in {0, cached.seen + ResaleTTL}
  /\ verdict.net \in Int /\ valuationClock \in 0..MaxValuationClock

Buys == verdict.recommendation \in {"buy", "strong_buy"}

Without(s, i) == {s[j] : j \in DOMAIN s \ {i}}

\* Where more than a low confidence is required, which is the default, no single ad
\* makes a purchase: the resale price of an estimate is between two of the other ads
\* whichever one is left aside, and when the price was read these had been seen within
\* the life of the cache.  That does not say how old they are when the purchase is
\* judged again: that judgement takes the price that was read for the first one.  A
\* typed price makes a purchase only where it is said to be trusted.
BuysRestOnTheMarket ==
  (Buys /\ verdict.required # "low") =>
    IF EffectiveMode = "manual" THEN EffectiveTrusted
    ELSE LET s == verdict.estimate.sample IN
         /\ verdict.read < verdict.seen + ResaleTTL
         /\ \A i \in DOMAIN s :
              /\ \E low \in Without(s, i)  : 2 * low <= verdict.resale
              /\ \E high \in Without(s, i) : verdict.resale <= 2 * high

\* The two judgements of one offer do not contradict each other: a loss is ignored
\* however sure its resale price is, and what the engine would buy, at the first
\* judgement and at the quote of the merchant, being in stock and matched well enough for a financial decision, is at least worth watching.
TiersFollowProfits ==
  /\ (verdict.resale # NoPrice /\ verdict.net < 0) => verdict.tier = "ignore"
  /\ (Buys /\ verdict.available /\ verdict.match >= 80) => verdict.tier # "ignore"
=============================================================================
