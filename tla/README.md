# A verification of Bot-AR

Bot-AR watches product pages of retailers, tells a Discord channel when
something it waits for is in stock at the right price, and can start a purchase.
One Python process (`app/main_worker.py`) runs one asyncio event loop over one
SQLite database through one shared SQLAlchemy Session; network calls run in
executor threads. This directory holds TLA+ models of it, the TLC configurations
that check them, and TLAPS proofs about them. Paths below are relative to the
repository.

## 1. Inventory

| Component | State it keeps | Operations | Hard behaviours | What makes it correct |
|---|---|---|---|---|
| Purchase engine: `purchase/engine.py`, `fast_path.py`, `config.py` | table `purchase_attempts` with a partial unique index per product; the policy read from the environment | gates and insert without an await; revalidate and checkout in threads; outcome; reconciliation of active rows at startup | overlapping coroutines for one product, crash between order and commit, cancellation at shutdown while the thread runs on, stale price, stale policy | one active or purchased row per product, cooldown and caps kept, outcomes final, every attempt settles |
| Notification delivery: `app/notify.py`, `app/delivery.py`, `notifications/dedup.py` | tables `event_records` and `notification_deliveries`; the cooldown in memory | decide, create a delivery, claim, send, record, retry, backfill | immediate attempt against overlapping sweeps, timeouts after arrival, death while sending, stale clock of a sweep | one sender per alert, bounded attempts, backoff respected, settled rows final, nothing lost, nothing repeated inside the cooldown |
| Worker loop: `app/worker.py`, `app/main_worker.py` | background tasks, single-flight flags, stop event | tick, fire and forget, start scans when due, drain | tasks overlap ticks, drain cancels, a scan that is never chosen | a scan runs alone, every due scan runs, drain leaves nothing running |
| Pid file: `app/pidfile.py` | the file and its lock | acquire, release | unlink before unlock | one worker at a time |
| Monitoring: `engine/worker.py`, `monitoring.py`, `backoff.py`, `change_detection.py`, `decision.py`, `alerting.py` | tables `observation_records`, `event_records`; backoff per merchant in memory | choose due rules, check in threads, store in order, detect changes, back off | several rules on a listing, crash between observation and events, mixed outcomes for a merchant in one tick | a change is reported once, a failing merchant is left alone, a healthy one is not |
| Persistence: `database/*` | the tables and constraints; one Session | commit per operation | Session used from several tasks and threads, "database is locked" | no step uses state that another task expired |
| Local stock: `local_stock/*` | tables of stores, states, local events and their deliveries | check all stores, detect transitions, deliver | unique key of an event, crash between state and event | a restock is reported each time |
| Discovery and keyword watch: `app/discovery.py`, `app/keyword_watch.py`, `discovery/*` | listings, `last_discovery_at`, keyword hits | choose one due product or watch, search, upsert, alert | choice by position, Session in a thread | each product is searched in the end, a hit is reported once |
| Opportunity alerts: `app/opportunity_alerts.py`, `app/opportunity_snapshot.py`, `engine/opportunity.py`, `engine/ranking.py` | last alerted tier | score, compare, alert | tier stored before the alert's event | a rise is reported once |
| Merchant connectors: `connectors/*`, `purchase/merchants/*`, `ucp/*` | prepared checkouts | quote, check out | raise or time out at any point | quantity and price are counted once |
| Market data: `market_data/*`, `app/resale.py` | estimates cached by product, in memory | search ads, estimate, cache | boundaries of quartiles and thresholds, an estimate that outlives its market | an estimate rests on several ads, and on recent ones |
| Product matching: `discovery/matcher.py`, `products/matcher.py` | none | classify a page found by a search; match a page that is checked | two judges with different rules and spellings | what one links the other accepts |
| Command line: `scripts/watch.py`, `app/drop_manifest.py` | the same tables, from another process | add, edit, enable, disable, delete, import, discover, test, search | every command races the worker on rows the worker has loaded | the worker never acts for long on what was withdrawn |
| Discord client and formatting: `notifications/discord/*` | none | render, post | outcome of a post unknown | part of notification delivery |

The components meet in the database rows and on the event loop. A tick stores
check results, hands each event to notification, and starts a purchase for an
allowed event; sweeps, purchases and scans then run as background tasks next to
later ticks.

## 2. Modules

| Module | What it models | State |
|---|---|---|
| `ProductSlot` | the promise of the `purchase_attempts` table: a product has at most one holder, a bought product keeps it for ever, an attempt is used once | abstract |
| `PurchaseEngine` | `attempt_purchase` from await to await, the hot path, the unique index, reconciliation, and the worker's life as the purchase path sees it | done |
| `MCPurchase` | instances of `PurchaseEngine` | done |
| `PurchaseEngineProofs` | theorems about `PurchaseEngine` | done |
| `Outbox` | the promise of the `notification_deliveries` table | abstract |
| `NotificationDelivery` | the notifying part of a tick, the cooldown, attempts, sweeps, backfill | done |
| `MCDelivery` | instances of `NotificationDelivery` | done |
| `NotificationDeliveryProofs` | theorems about `NotificationDelivery` | done |
| `Monitoring`, `MCMonitoring`, `MonitoringProofs` | the tick: due rules, checks in threads, storing, changes, backoff, decision, opportunity alerts, backfill, beside commands that edit and test rules | done |
| `LocalStock`, `LocalStockProofs` | the pass over the shops, its events and their outbox, which implements `Outbox` | done |
| `PidFile`, `PidFileProofs` | acquire, release and status, one system call a step | done |
| `KeywordWatch` | keyword searches of the worker and of the command line, and their alerts | done |
| `Catalogue` | discovery of a due product and the commands that add, import, switch and delete, in two processes | done |
| `MerchantCarts` | the requests of one revalidation at Cultura, Fuji Store and UCP shops, and `payment-setup` | done |
| `Valuation` | estimate, cache, profit, recommendation, score and tier of an offer | done |
| `Matching` | the two matchers | done |
| `DiscoveryProofs` | theorems about `Catalogue` and `KeywordWatch` | done |
| `OffersProofs` | theorems about `Matching`, `Valuation` and `MerchantCarts` | done |
| `MCServices` | an instance of each of `LocalStock`, `PidFile`, `KeywordWatch`, `Catalogue`, `MerchantCarts`, `Valuation` and `Matching` | done |
| `ServicesProofs` | the seven together: each of their theorems holds of the common specification | done |

### PurchaseEngine

An attempt of `attempt_purchase` has the id of the row it may insert.
`row` is the table; `task` is the coroutine with the await it stands at and its
locals; `call` is the thread inside `checkout()`; `charged` is what the merchant
took; `mode` is the process; `policy` is what its environment says;
`orphans` are the rows its start has still to reconcile; `killSwitch` is what the
`.env` file says. `mistaken` is a history variable: the purchases that a
reconciliation overwrote.

- `TickFires` is the tick starting the background task. `HotPathAccepts` and
  `HotPathRefuses` are the gates of `evaluate_purchase_intent`; `Claim` and
  `ClaimBlocked` the insert. The gates that read only the trigger's own data
  (rule enabled, merchant allowed, confidence, availability, profitability) are
  one Boolean, `eligible`; money is the total of the order.
- `NoConnector`, `StartRevalidate`, `RevalidateRaises`, `QuoteRefused`,
  `QuoteAccepted`, `CallCheckout`, `CheckoutSucceeds`, `CheckoutFails` are the
  stretches between awaits, each with the commits it makes. Between two awaits a
  coroutine holds the event loop (`Yielded`); a commit is still a point at which
  another process may act or this one may die, so the stretch from the decision
  to the first await is three actions.
- `UpdateBlocked` is an update that hits the unique index. Nothing catches that
  exception, and the Session cannot be used until it is rolled back, so the
  process ends.
- `Start`, `ReconcileRow`, `EnterLoop`, `Stop`, `Drained`, `Crash` are the process.
  A start lists the active rows once, then rewrites each in a commit of its own
  without reading its status again; a signal that arrives before the handlers are
  set ends it as a crash does. A drain that times out
  cancels coroutines but not threads, so an order may still be placed by a
  thread whose coroutine is gone (`MerchantTakesOrder`, `OrphanThreadEnds`).
- The merchant charges what it likes (`MerchantTakesOrder`): nothing in the code
  compares the total that `checkout()` reports with the quote or with a cap. It may
  also take the order and `checkout()` still raise, with any exception
  (`LossyCheckout`), for instance on a lost answer. That a connector which reports
  success has placed the order is the one thing assumed of it. Every `checkout()` of
  the repository raises at present; the interface is what is modelled.

### NotificationDelivery

`event` and `delivery` are the two tables. A `Subject` is the cooldown's key
(rule, event type, price); `open` is the set of subjects that
`engine.decision.evaluate` allows at present, which an edit of the rule changes.
`task` holds the immediate attempt of each event and the sweeps; a task keeps
the rows it still has to try, the one it is sending, and the clock it read:
a sweep reads it once for all its attempts.

- `Detect`, `EndChecks`, `NotifySends`, `NotifySkips`, `EndTick` are a tick.
  Waiting for the next tick and waiting for its checks are one phase.
- `Backfill` and `SweepLists` are the start of `process_due_deliveries`, which
  has no await before its first send: until `SweepLists` nothing else moves.
- `Claim` and `ClaimMisses` are the conditional UPDATE, `SendSucceeds` and
  `SendFails` the end of the send. `DiscordPosts` is the message arriving: a
  send can fail after it.
- `Dies` is a crash, and also the end of a drain that cancels its tasks.
- `Awaited` keeps time from passing when no backoff or cooldown is open; nothing
  in the module could tell the difference.

### Monitoring

`rule`, `records`, `event` and `queued` are tables. `copy` is what the worker's
Session has loaded of a rule, and `held` the rules whose object a purchase
attempt keeps alive: SQLAlchemy returns a loaded object with its old attributes
until it is expired or collected, so a later tick can read a rule as it was
before a command changed it. `backoff` is the tracker of merchants. A listing is
assumed to have one rule: with two, each check compares with the observation the
other one stored, which is why a rule is the unit here.

- `StartTick` chooses the due rules of merchants that are not blocked; `Check` is
  the end of one thread, in any order, with an answer or an error;
  `StartStoring`, `ReadPrevious`, `StoreObservation` and `StoreEvent` are the
  storing, in the order of the rules: the records are read, the new one is
  committed, then each event, and nothing locks out a command in between.
  `Reconcile` updates the backoff of each merchant once; `NotifyChanges` decides,
  `AlertChanges` follows the await of the market lookup, `RecordTier`, `AlertShift`
  and `EndTick` are the rest.
- `due` is what the tick checks and `todo` what its loop has still to see; a tick
  goes through the rules by id (`First`), as the table lists them. `Doubled` is the
  recursive function behind the pauses `Delay`.
- `DetectChanges`, `Allowed`, `AfterFailure`, `AfterSuccess` and `TierToKeep` are
  the pure functions of `change_detection.py`, `decision.py`, `backoff.py` and
  `opportunity_alerts.py`.
- `ExpireAll` is the expiry in the claim of a delivery, which lets a thread that
  is checking reload a rule; `PurchaseReads` and `PurchaseEnds` are an attempt
  that holds one.
- `Edit` and `TestStarts` to `TestEnds` are the command line in its own process:
  `watch.py test` checks, reads the records, commits its observation and its events
  and alerts like a tick, a step each, and may be killed between them (`TestDies`).
  `raced` is a history variable: the observations that the worker or a test stored
  after the other one had stored since its read.
- The profitability mode of `engine/decision.py`, in which the target price is
  skipped, is left out.

### The services

- **`LocalStock`**. A shelf is a shop and a listing. `StartPass`, `Fetch`,
  `FetchFails`, `FetchRaises` and `SkipListing` are the requests, `ApplyState`,
  `ApplyEvent` and `ApplyDelivery` the three commits of a transition, the rest
  the outbox of its alerts (`ClaimLetter`, `LetterArrives`, `LetterSent`,
  `LetterFailed`). The key of an event is its shelf, since there is one type of
  event and one state it leads to.
- **`PidFile`**. `pidPath` is the inode the name leads to, `locker` the holder of
  each inode's lock, `handle` what each process has open. `WritePid` truncates
  and writes, `UnlinkPidFile` and `UnlockPidFile` are the two halves of
  `release()`, `EndWithoutRelease` a death, at which the system drops the lock.
  `PurchaseEngine` relies on the result by the constant `ExclusivePidfile`.
- **`KeywordWatch`**. A search is a request per shop, then for each hit the reads
  of its row and the commit (`ReadSighting`, `RecordSighting`), then the alerts
  of what was found (`AnnounceFind`), which only the worker sends.
- **`Catalogue`**. A link of a page to a product is a chain of read-or-insert
  steps for the merchant, the listing and the rule (`ReadMerchant`,
  `InsertMerchant`, ..., `InsertRule`), taken by the worker and by a command at
  once. What a unique index refuses ends as the code's handlers say
  (`CaughtAndRead`). `SwitchProduct` to `EndSwitch` are `disable-product` and
  `enable-product`, one rule a commit; `EnableRule` and `DisableRule` are the
  commands about one rule, which do not look at its product.
- **`MerchantCarts`**. One action per request and its answer, while `ShelfMoves`
  changes price and stock in between; `RequestFails` loses an answer before or
  after the shop has served the request. `confirmed` is `last_checkout_state`,
  one per connector, shared by its threads. The shop decides how many units go into
  a cart: only Cultura's answer is compared with the quantity asked for, and only when
  it has one (`ReadsCart`). Cultura may total its cart again at a later request, whose
  answer the connector does not read (`Serves`). A UCP checkout may show no total, and
  then the price of the catalogue is quoted (`QuotedTotal`). Taxes are left out.
- **`Valuation`**. The pure functions with their integer boundaries, over all
  short lists of ads, and the cache with its age. The prices are sorted, so those
  within the fences of `remove_outliers` are consecutive: `Kept` is that stretch.
  `JudgeAgain` is the second judgement of a purchase, at the merchant's quote, with
  the resale price of the first; time may have passed in between.
- **`Matching`**. Codes have spellings, names are sets of words, and a code may have
  nothing left once it is normalised (`Blank`); `Link` is the verdict of discovery,
  `SeePage` a check of the linked page. A check reads the EAN and the MPN of the page
  itself, while a search shows the shop's reference or none, so the two may differ.

## 3. Runs

| Run | Instance | Shows |
|---|---|---|
| `purchase` | 1 worker, 2 attempts, 3 listings of 2 products, totals {2, 3}, one clock tick, fairness | types; the one-writer invariant; the unique index is never hit; cooldown; caps on what is checked out; an order stays on record as begun, purchased, failed or a human's; outcomes are final; every active row settles; `ProductSlot` is implemented |
| `two_workers` | 2 workers together (a failed pid file), 2 listings of 1 product, no fairness, symmetric | the index alone keeps one active or purchased row per product; a bought product stays alone unless the other worker's reconciliation overwrote its row |
| `double_order` | violation | a restart after the order and before PURCHASED is committed leads to a second order |
| `daily_budget` | violation | two attempts in flight exceed the daily budget together |
| `kill_switch` | violation | PURCHASES_ENABLED off in `.env` does not stop a checkout |
| `delivery` | 2 alerts about 1 subject, 2 sweeps, 1 death, 2 attempts, 2 clock ticks, edited rules | types; one sender; posts within attempts; settled rows stay; backoff; `Outbox` is implemented |
| `delivery_liveness` | the same with 1 sweep, unedited rules, fairness | every allowed event is queued, every delivery settles unless interrupted while sending |
| `interrupted_send` | violation | a row left in `sending` by a death stays there |
| `cooldown_defeated` | violation | the sweep sends what the cooldown held back in the same tick |
| `monitoring` | 2 rules of 1 merchant, prices {1, 2}, one listing that changes (3 observations) and one that does not, 1 edit or test, 1 death of the worker or of the command, 1 clock tick | no change of stock is lost but to a death, one each, or to a read of the worker and a test at once; a merchant that failed is left alone by all its rules; a disabled rule falls silent; opportunity alerts alternate with relapses |
| `services` | the seven services in turn, each on its own instance, fairness | what an alert about a shop presupposes, and that it is queued; `Outbox` implemented a second time; one worker unless a file was removed under a handle; a disabled product rests unless a rule of it is turned on by hand; keyword news is announced, once; rules fit their listings, duplicates and crashes only where two processes race; quotes cover carts; purchases rest on several recent ads; tiers and recommendations agree; linked pages can be bought; background tasks end |
| `refill_lost` | violation | the second refill of a shelf leaves no alert |

**Bounds.** Two attempts are enough for every pairwise conflict of the purchase
path: the properties compare two attempts, and the index and the gates compare
an attempt with the set of others. Three listings give a product with two
merchants and another product. Totals {2, 3} with limits 3 and 2 per rule, 3 per
order and 4 per day put one value on each side of every gate. `CooldownSeconds`
is 1, `DayLength` 0 and `MaxClock` 1 in `purchase`: the cooldown and the day's
window expire on the one tick, and rows before and after both exist. For
deliveries, two attempts reach both the retry and the exhaustion; two alerts
make a sweep with a stale clock possible; two sweeps overlap; one death falls on
every point of a send. The clock needs as many ticks as backoffs and cooldowns
can ask for, which `AlertsSettle` would betray if it were too small.
`Monitoring` has two rules
because backoff, order and the shared Session only show between rules; the
second one's listing never changes, so that it costs little and still succeeds
or fails beside the first. Three observations allow a change and a change back;
one command is an edit or a test, at any point of a tick, and one death is the
worker's or the command's. An edit and a test together, or a second clock tick, are
out of TLC's reach in five minutes: the theorems hold for any number of both.

`services` does not interleave the services: no two of them write the same rows,
so a behaviour of one is not a longer behaviour of two. `focus` chooses in the
initial state which one moves. Some are split once more: the shops' pass with one
shelf filling at a time against sweeps (`letters`) and all shelves without sweeps
(`shops`); keyword searches with deaths and time against commands; two pages of
one product against two products of one page; a thread whose shop moves against
all callers at a shop that stands still. What such a focus leaves out is the
product of two kinds of trouble (a death during a command, say), not either of
them. A second search of the market finds three ads at most, and one check is made of
a linked page, since neither depends on what came before it. Three inodes let a file be removed and created twice; lists of up to five
ads reach both quartile cases, outliers and both thresholds of the sample size.
The score's weights and tiers are the code's own numbers.

`CHECK_DEADLOCK FALSE` is set only where a system of bounded attempts
or events really has nothing left to do.

**Fairness.** Weak fairness for each purchase coroutine (the event loop resumes
it and every connector call answers or times out), for the drain (bounded by its
timeout) and for a worker to be started (`Restart=always` in
`deploy/vps/retail-worker.service`); strong fairness of the commits of a
reconciliation, because a crash takes a process back to the start: it says that
crashes do not cut every start short before its next commit. For deliveries: weak fairness of the tick
loop, of the start of a sweep, of the restart and of time; strong fairness of
each sending task, because asyncio runs what is ready first in, first out, and
sweeps that start again and again cannot keep a ready task from its turn. For the
background tasks of `TasksEnd`: weak fairness of their own steps, for a thread
returns or its request times out, and the loop resumes the task. No
fairness is assumed of crashes, of the operator, of Discord or of the merchant.

## 4. Theorems

Every safety invariant and every action property of the passing runs is a theorem,
for all values of the constants that the named assumptions of the modules allow. The
assumptions are facts of the code: ids are numbers, thresholds are natural, the base
of the backoff is not above its cap (`engine/backoff.py`), a medium confidence takes
three ads and the cache keeps an estimate for a while (`market_data/estimator.py`,
`market_data/cache.py`); the runs evaluate them. Each component has one inductive
invariant, which TLC checked on the instance of a run before it was proved.

`PurchaseEngineProofs` holds for any sets of workers, attempts, listings and
products and any limits, with or without a pid file:

- `TypeCorrect`: `Spec => []TypeOK`.
- `OneRowPerProduct`: `Spec => []OneBlockingRowPerProduct`. The inductive
  invariant `SlotInv` adds that a row that exists has a listing of the shop; the
  lemma `GuardedWrite` says that a write the index allows preserves it.
- `BoughtStaysAlone`: `Spec => BoughtProductsStayAlone`, from the same invariant. Its
  exception is a purchase in `mistaken`: with two workers, one may list a row as active
  at its start and rewrite it as failed after the other one has purchased.

With `ExclusivePidfile`, the same module goes on:

- `OneWriter`: `Spec => []OneWriterInv`. The invariant is why the check and the
  insert need no lock: one process runs, coroutines are in it, at most one of
  them is between two awaits, a row follows its coroutine, and a decision that
  the product is free stays true until the insert. It is inductive together with
  `TypeOK` and `SlotInv`. The lemmas `Shape`, `Ends`, `Decides`, `Inserts` and
  `Advances` describe the five kinds of coroutine steps once, so that each
  action is a use of one of them.
- `IndexIsNeverNeeded`: `Spec => []IndexNeverFires`, a corollary.
- `OutcomesAreFinal`: `Spec => EndedRowsStay`.
- `PurchasePathImplementsProductSlot`: `Spec => ImplementsProductSlot`: every
  step of the purchase path is a claim, a release or a purchase of the abstract
  slot, or leaves it alone.
- `CooldownAlwaysKept`: `Spec => []CooldownKept`. The invariant adds
  `DecidedCooled`: the cooldown that a decision saw is still over at the insert,
  since nothing but the insert itself gives a row its time.
- `CheckoutsAreCapped` (`Spec => []CheckoutsWithinCaps`) and `OrdersStayOnRecord`
  (`Spec => []OrdersAreOnRecord`) follow from `OrderInv`. They are about the quote
  that `checkout()` is called with and about rows whose checkout began; what a
  merchant charges is its own choice. A drain cancels
  coroutines but not threads, so a thread may order after the reconciliation has
  filed its row as failed: `OrderInv` says what the call in flight and the row
  know of each other without a coroutine.

`NotificationDeliveryProofs` holds for any events, sweeps, subjects, delays and
number of deaths, and for any positive number of attempts
(`ConstantsAssumption`). Its theorems follow from one inductive invariant, `Inv`:

- `OneSender` alone is not inductive: a task that ends a send must still find
  the row it claimed, so `SendingNamed` ties what a task is doing to the row it
  names. `PostsWithinAttempts` needs `AttemptsRemain`, because a row that can be
  claimed has to have an attempt left for its counter to stay in `0..MaxAttempts`.
  A delivery that is created must not overwrite one that exists: `QueueUnsent`,
  `RecordsFirst` and `AttemptHasRow` say who may still see an event without
  one. `ReachedPosted` makes "sent" mean that the channel has the alert.
- There is one preservation lemma per group of actions (`DetectInv` to
  `OtherStepsInv`), and `InvNext` puts them together.
- `DeliveryTypeCorrect`, `OneSenderAlways` and `PostsAreBounded` are the parts of
  `Inv` that the runs check.
- `StepKind` says that every step creates, claims, posts or ends one delivery or
  leaves all of them alone. `SettledIsFinal` (`Spec => SettledRowsStay`) and
  `DeliveriesImplementOutbox` (`Spec => ImplementsOutbox`) are read off it.
- `BackoffIsKept` (`Spec => RetriesWait`) needs `ClocksBehind`: a sweep's clock
  may be stale, never fast.

`LocalStockProofs` holds for any shops, listings, sweeps and number of deaths.
Its invariant `LocalInv` ties each stage of a pass to the rows already written:

- `AbsenceComesFirst`: `LocalSpec => []AlertsFollowAbsence`. Only an answer writes
  a state, so a shelf on record as empty was seen empty (`PassFits`), and an event
  needs such a record (`EventsFit`).
- `FirstRefillsAreQueued`: `LocalSpec => []FirstRefillQueued`. `DeathsFit` counts:
  a pass is cut at one shelf at most, so each death loses one alert at most.
- `LocalDeliveriesImplementOutbox`: `LocalSpec => LocalImplementsOutbox`, from
  `LettersFit` and `SendsFit`, which say who holds the row that is `sending`; one
  lemma per kind of step (`QueueRefines` to `FailedRefines`).
- `LocalTypesHold`.

`PidFileProofs` holds for any starters, status commands and inodes:

- `OneWorker`: `PidSpec => []OneWorkerUnlessRaced`, and `PidTypesHold`. As long as
  no file was removed under a handle, every open handle leads to the one file of
  that name (`OneFile`), and a lock has one holder; every worker holds one.

`DiscoveryProofs` holds for any merchants, pages and products and any number of
commands and restarts. For `Catalogue`, `CatalogueInv` has a part for what a process
knows between its reads and its commits (`JobKnows`: a merchant or listing it has
read stays on record, since nothing deletes them), one for rules and their ids
(`RulesFit`), one for a rule about to be inserted (`FreshRules`: there is none yet,
or the race has been noticed) and one for a switch under way (`SwitchFits`):

- `RulesWatchTheirListings`: `CatalogueSpec => []RulesMatchListings`.
- `DoubledOnlyByRace`: `CatalogueSpec => []DuplicatesNeedRace`.
- `DisabledRest`: `CatalogueSpec => []DisabledProductsRest`. The property is a part
  of the invariant, and needs `SwitchFits`: once a switch has listed the rules, the
  enabled ones of its product are those it has still to turn, or were left on by a
  link or turned on by hand.
- `OnlyConflictsCrash`: `CatalogueSpec => CrashesAreConflicts`. The choice of a due
  product is a `CHOOSE` of a least element; the lemma `Least` shows that there is
  one, by well-founded induction on a set, which the library states without an
  operator parameter.
- `CatalogueTypesHold`.

For `KeywordWatch`, `KeywordInv` is about any watches, sellers and listings:

- `AvailableAreTold`: `KeywordSpec => []AvailableAreAnnounced`. The property is a part
  of the invariant. It needs `RunsFit`, by which a search still holds the reason it
  computed from the row it read, and `SendingFits`, by which a find that is on its
  way is already an excuse: it has left the finds, and its answer may be lost.
- `NewsIsToldOnce`: `KeywordSpec => []NewsOnce`. A search counts news from the row it
  read, which the other process may have written since. `NewsFit` says that what is
  not "in" has no news to its name, on record and in the eyes of a search.
- `KeywordTypesHold`.

`MonitoringProofs` holds for any rules, merchants, offers, prices, edits, tests and
deaths, of the worker and of the command. `MonitoringInv` has a part for what each phase of a tick leaves for the next
one (`TickFits`: what is still to see was answered, and has a record once its storing
is over) and one part behind each property:

- `ChangesAreKept`: `Spec => []ChangesLeaveEvents`. A change is committed as an
  observation first and as events after, so it is in `event`, in the pending events of
  the worker or of a test, in `cut` or in `raced` (`ChangesFit`): who stores an
  observation compares it with the record it read, which is the latest one unless the
  other process has stored since. All pending events of a process are of one
  observation (`PendingFits`), so a death cuts one change at most, and `cut` counts no
  more than `deaths`.
- `MerchantsRest`: `Spec => BackedOffMerchantsRest`. A merchant that has to rest,
  counted from the start of the tick of its first error, is blocked for at least as
  long (`RestsFit`). That rests on the pause after any number
  of failures being no shorter than the first one: `DelayIs`, from `DoubledEquation`,
  the lemma that the recursive function has a solution. Since the library's
  inductions take operators, it is proved by a least counterexample
  (`LeastNumber`), here and wherever numbers or elements are gone through in order.
  No other rule can wipe the block in the same tick, because all of a merchant's
  checks are reconciled at once.
- `DisabledRulesAreSilent`: `Spec => DisabledRulesFallSilent`; `NewDeliveries` says
  which steps create deliveries or start purchases and what they read.
- `OpportunityAlertsTakeTurns`: `Spec => OpportunityAlertsAlternate`. The tier is
  committed before its event, and read from a copy that may be old: `TiersFit` says
  that without a relapse both the row and the copy have the high tier.
- `TypesHold`: `Spec => []TypeOK`, with `BlocksFit` for the length of a block.

`OffersProofs` holds for all products, pages, names, spellings, ads, prices, fees,
thresholds and callers:

- `LinkedPagesTradable`: `MatchSpec => []LinksAreTradable`. The lemma
  `MatchersAgree` compares the two matchers: equal codes have equal normal forms,
  the fallback of the second one accepts the listing itself, and every refusal names
  a code that the search did not hold against the product (`Excused`).
- `MarketsBackPurchases`: `ValuationSpec => []BuysRestOnTheMarket`, for markets of any
  size. The invariant ties an estimate, cached or just made, to a sorted list of
  prices, its median and the size its confidence asks for (`EstimateFits`).
  `KeptIsOrdered` says that what is left within the fences is sorted, and
  `MedianIsSurrounded` that a median of three or more has a price on each side
  whichever ad is left aside. Three is the number the code asks for: with two ads
  it fails, which is why the assumption is there.
- `JudgementsDoNotContradict`: `ValuationSpec => []TiersFollowProfits`. The score of a
  loss is capped below every tier that is told, and what the engine would buy has a
  positive profit (`JudgementsAgree`).
- `CartsAreTold`: `CartSpec => []CartsAreToldTruly`. `CartInv` says for each step of a
  call what the shop's cart has been through (`Filled`, `Advanced`) and what an answer
  may say of it (`Quoted`); `CallAdvances` is the one lemma behind all requests. A
  shelf may move at any point: the invariant speaks of the prices a cart has, never
  of those on the shelf. The two carts it excepts are those of section 5.
- `MatchTypesHold`, `ValuationTypesHold`, `CartTypesHold`.

`ServicesProofs` is about the specification of the `services` run:

- `ServicesImplementEach`: a behaviour of all seven is a behaviour of each, because a
  step of one leaves the variables of the others alone.
- `ServicesTypesHold`, `ServicesAreSafe` and `ServicesStepSafely`: what is proved of
  each service therefore holds of them together.

Only model-checked:

- the liveness properties `ActiveRowsSettle`, `AlertsSettle`, `AllowedEventsQueued`
  and `TasksEnd`, because fairness and ENABLED are out of the prover's reach;
- the refuted properties of the runs that expect a violation.

## 5. Disagreements between the code and its words

- The reconciliation frees a product whose order may have been placed
  (`purchase/engine.py:702`), against "must never result in more than one
  purchase" (`purchase/engine.py:174-176`).
- The daily budget is compared once, without attempts in flight and without the
  revalidated total (`purchase/engine.py:242`).
- The kill switch reads the environment of the process, not the `.env` file
  (`purchase/config.py:37`), against `app/worker.py:288-295`.
- A delivery interrupted while sending stays in `sending`
  (`database/crud.py:489`), against `database/models.py:382-384`.
- An alert held back by the cooldown is queued by the sweep of the same tick
  (`app/delivery.py:242`), against `app/notify.py:294-295` and
  `app/delivery.py:239-240`.
- A shelf in a shop has one alert for ever, because the key of a local event has
  no time in it (`database/models.py:623`), against the transition that
  `local_stock/monitor.py` lists as worth alerting on.

Met while modelling, without a run of their own, since the models take them as
they are in the code:

- The total that `checkout()` reports is recorded and compared with no cap
  (`purchase/engine.py:592-600`): the caps bind the quote that `checkout()` is called
  with, and so does `CheckoutsWithinCaps`.
- An order that exists may be filed as `human_action_required`,
  `automated_checkout_unsupported` or `failed` when `checkout()` raises after it
  (`purchase/engine.py:556-590`; nothing in `purchase/base.py` keeps a connector from
  raising then), and its product may then be ordered again, as in `double_order`.
- With two workers, the reconciliation of one rewrites a row that the other has
  purchased since it was listed (`purchase/engine.py:700-711`).
- A crash during the market lookup is called "not recoverable" by
  `app/delivery.py:25-35`, "there is no frozen payload to resend". The event is
  committed and has no delivery then, and the backfill (`app/delivery.py:230-269`)
  queues it like any other, with a plain embed: `AllowedEventsQueued` holds of it.
- A Retry-After is "respect absolu" and the pause "never allowed to be SHORTER than it"
  (`engine/backoff.py:36,92-95`), but the pause counts from the start of the tick
  (`engine/worker.py:285`): a merchant that answered late in a tick is asked again
  before its time is over, by as much as the tick had lasted. The other checks of the
  same tick are not held back either.
- A sweep computes the backoff of a failed delivery from the clock it read at its
  start (`app/delivery.py:287-290`), so that the real pause is shorter by the age of
  the sweep. `RetriesWait` is about the time that is written, not about the pause.
- The worker and `watch.py test` each read the previous observation and commit the new
  one in two steps (`engine/monitoring.py:155-160`): when both have read before either
  commits, the later of the two observations is compared with an old one, and a change
  between them leaves no event. A test that is killed between its commits loses a
  change as a dead worker does.
- `enable` of a rule does not look at the status of its product
  (`scripts/watch.py:441-448`): one rule of a disabled product may watch on.
- A purchase is judged again at the merchant's quote with the resale price of the
  trigger (`purchase/engine.py:500-514`), which may be older than the cache would give.
- A UCP checkout that shows no positive subtotal is quoted at the price of the
  catalogue (`purchase/merchants/shopify_ucp.py:269`), which may be below the cart's
  after a rise.
- Cultura's quote keeps the total of the add answer
  (`purchase/merchants/cultura.py:410`), whatever the shop totals at the address and at
  the shipping method.
- Fuji Store and UCP shops may put another quantity into the cart than was asked for:
  neither connector reads it back, and Cultura's answer passes without one
  (`purchase/merchants/cultura.py:399`). The totals are the cart's, so the caps bind
  all the same; the number of units is not checked.
- The import of a manifest catches `DropManifestError` only
  (`app/drop_manifest.py:312`), against "One entry's failure never stops the
  others" (`app/drop_manifest.py:250`); and it sets the profit thresholds of an
  entry that does not allow purchases, against "no max_price/profitability
  thresholds set at all" (`app/drop_manifest.py:45-46`).
- The UCP connector's quote takes the subtotal of the cart as the unit price, which
  `purchase/engine.py:451` multiplies by the quantity again. The error is on the
  safe side of the caps, as `QuotesCoverCarts` says.
- `discovery/matcher.py` compares codes as they are written, does not read the
  product's GTIN, and sees the shop's reference as the MPN or none
  (`discovery/woocommerce.py:108`, `discovery/cultura.py:144`,
  `discovery/shopify_ucp.py:122-124`), while a check reads the page's own
  (`connectors/schema_org.py:253-254`): a page that is linked by its EAN or by its name
  can be refused by every check for its MPN. `LinksAreTradable` names all the pages
  that are linked and never bought.
- `engine/decision.py:136` trusts a typed price that either the rule or the product
  calls trusted, whichever of the two the price comes from.
- The estimator pools the ads of the commonest currency, and uses their prices as
  euros whatever it is (`market_data/estimator.py:144`).
- Of several errors of a merchant in one tick, the first decides: a 429 behind a
  timeout or a 404 loses its Retry-After.
- The backfill decides with the rule of today on an observation of the past, so an
  edited price can queue old events.
- `watch.py test` and `purchase-test` store an observation, and with it consume a
  change the worker would have reported; its event is in the table, and the
  backfill may queue it.
- A failed check of a kind that is not retryable leaves no observation, so its rule
  is due again at every tick.
- A hit over a keyword watch's maximum price is recorded as seen, so that a fall of
  its price is never news.
- A rule added by `add` on a page that is watched already is a second one; "never
  duplicated" (`app/discovery.py:15`) holds but for the
  race that `DuplicatesNeedRace` names.
- `release()` unlinks the pid file before it unlocks it: a starter that opened the
  old file can lock it while the next one creates a new file.

## 6. Plan

Everything that was planned is written, under these names: `Monitoring` (with the
shared Session of the plan's `SessionSharing` as its `copy` and `held`),
`KeywordWatch` and `Catalogue` (the scheduling of background work, with its
single-flight flags, sits in the module of each service), `PidFile`, `LocalStock`,
`Valuation` and `Matching`, and `MerchantCarts`, which was not planned. What a
continuation would take up:

1. Two rules on one listing in `Monitoring`, whose checks share observations.
2. `keywords edit`, and manifest entries without a page.
3. `PurchaseEngine` and `PidFile` in one specification, with the constant
   `ExclusivePidfile` replaced by what `OneWorker` proves.

## 7. Not modelled

- HTTP, HTML and JSON parsing of connectors and of the UCP client, Discord's own
  protocol, formatting of embeds, the command line's dialogue and the commands
  that only print, the benchmarks and the demo. Their outcomes appear as
  nondeterministic results where a module depends on them.
- The in-process retry of `app/notify.py` (`_send_embed_with_retry`): it runs only
  when no Session is given, and the worker always gives one.
- What SQLAlchemy does when two threads use one Session: `Monitoring` models that
  the thread reloads a rule and sees any state of the row, not a corrupted
  Session. Errors of SQLite itself ("database is locked") and migrations.
- Shorter check intervals near a release (`engine/release_awareness.py`): the
  interval is a constant.
- A starved keyword watch: `app/worker.py:384` takes the first due watch in the
  table's order, so a watch with a short interval keeps those behind it from
  their turn. That every watch is searched in the end is false, and would be true
  only of intervals the user is free not to choose; no run states it.
- The comparison of product names in `products/matcher.py`: a listing always has
  an external id, so a check never reaches it.
