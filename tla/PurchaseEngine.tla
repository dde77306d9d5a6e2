--------------------------- MODULE PurchaseEngine ---------------------------
(***************************************************************************)
(* The purchase path of the worker: purchase/engine.py (attempt_purchase,  *)
(* reconcile_orphaned_purchase_attempts), purchase/fast_path.py            *)
(* (run_hot_path), the rows of database/models.py::PurchaseAttempt, and    *)
(* the life of the worker process as app/worker.py and app/main_worker.py  *)
(* run it: ticks, shutdown with a bounded drain, crash, restart.           *)
(*                                                                         *)
(* A coroutine of attempt_purchase runs without interruption from one      *)
(* await to the next, so an action is a stretch of code that ends at an    *)
(* await or at a database commit (another process, or the crash of this    *)
(* one, can come between two commits).  revalidate() and checkout() run in *)
(* executor threads that outlive a cancelled coroutine.                    *)
(*                                                                         *)
(* Money is abstracted to the total of an order (item price times quantity *)
(* plus shipping and tax); the gates that read only the trigger's own data *)
(* (rule enabled, merchant allowed, match confidence, availability,        *)
(* profitability) are one Boolean of the trigger.                          *)
(***************************************************************************)
EXTENDS Naturals, FiniteSets, FiniteSetsExt

CONSTANTS
  Worker,           \* worker processes that may be started
  Attempt,          \* attempt_purchase() calls, each with the id of its row
  Product,
  Listing,          \* product pages; a product may have one per merchant
  ProductOf,        \* the product of each listing
  MaxPrice,         \* effective_max_price of the rule on each listing
  Totals,           \* order totals that merchants display or quote
  MaxOrderEur,      \* PURCHASE_MAX_ORDER_EUR
  MaxDailyEur,      \* PURCHASE_MAX_DAILY_EUR
  CooldownSeconds,  \* PURCHASE_COOLDOWN_SECONDS
  DayLength,        \* the rolling window of _spent_today
  MaxClock,         \* bound of the clock
  ExclusivePidfile, \* TRUE: app/pidfile.py lets one worker hold the lock
  LossyCheckout,    \* TRUE: checkout() may raise after the order went through
  NoWorker, NoListing, NoAttempt

ASSUME ConstantsAssumption ==
  /\ ProductOf \in [Listing -> Product]
  /\ MaxPrice \in [Listing -> Nat]
  /\ Totals \subseteq Nat \ {0}
  /\ MaxOrderEur \in Nat /\ MaxDailyEur \in Nat
  /\ CooldownSeconds \in Nat /\ DayLength \in Nat /\ MaxClock \in Nat
  /\ ExclusivePidfile \in BOOLEAN /\ LossyCheckout \in BOOLEAN
  /\ NoWorker \notin Worker /\ NoListing \notin Listing /\ NoAttempt \notin Attempt

VARIABLES
  row,         \* the purchase_attempts table
  task,        \* the coroutine of each attempt: where it stands and its locals
  call,        \* the executor thread inside connector.checkout()
  charged,     \* what the merchant charged for each attempt, 0 for no order
  mode,        \* each worker process: down, starting, running or draining
  policy,      \* PURCHASES_ENABLED in the environment of each worker process
  orphans,     \* the rows that a starting worker listed and has yet to write
  mistaken,    \* (history) rows listed so while their coroutine was alive
  killSwitch,  \* PURCHASES_ENABLED in the .env file, as the operator last set it
  clock

workerVars == <<mode, policy, orphans, mistaken>>
vars == <<row, task, call, charged, workerVars, killSwitch, clock>>

ActiveStatus   == {"created", "validating", "checkout_started"}
BlockingStatus == ActiveStatus \union {"purchased"}
EndStatus      == {"purchased", "failed", "human_action_required",
                   "automated_checkout_unsupported", "cancelled"}
PurchaseStatus == ActiveStatus \union EndStatus
GaveUpStatus   == {"human_action_required", "automated_checkout_unsupported"}

NoRow  == [status |-> "none", listing |-> NoListing, total |-> 0, createdAt |-> 0]
NoTask == [pc |-> "none", worker |-> NoWorker, listing |-> NoListing,
           total |-> 0, eligible |-> FALSE]
NoCall == [worker |-> NoWorker, total |-> 0]

Row  == [status : PurchaseStatus, listing : Listing, total : Nat, createdAt : Nat]
\* Where a coroutine stands: not yet run, between the decision and the insert,
\* between the insert and the first await, then at its three awaits.
Pc   == {"queued", "decided", "claimed", "revalidating", "notifying", "checkout"}
PastInsert == {"claimed", "revalidating", "notifying", "checkout"}
Task == [pc : Pc, worker : Worker, listing : Listing, total : Nat,
         eligible : BOOLEAN]
Call == [worker : Worker, total : Nat]

Init ==
  /\ row = [a \in Attempt |-> NoRow]
  /\ task = [a \in Attempt |-> NoTask]
  /\ call = [a \in Attempt |-> NoCall]
  /\ charged = [a \in Attempt |-> 0]
  /\ mode = [w \in Worker |-> "down"]
  /\ policy = [w \in Worker |-> FALSE]
  /\ orphans = [w \in Worker |-> {}]
  /\ mistaken = {}
  /\ killSwitch \in BOOLEAN
  /\ clock = 0

-----------------------------------------------------------------------------
(* The database. *)

\* get_blocking_purchase_attempts_for_product
BlockingRows(p) ==
  {a \in Attempt : /\ row[a].status \in BlockingStatus
                   /\ ProductOf[row[a].listing] = p}

\* get_active_purchase_attempt_for_listing
ActiveRows(l) ==
  {a \in Attempt : row[a].status \in ActiveStatus /\ row[a].listing = l}

\* (slip) The index as it would be per listing, and blind to bought products.
IndexPerListing(a, l) == ActiveRows(l) \subseteq {a}

IndexOnActiveOnly(a, l) ==
  {b \in BlockingRows(ProductOf[l]) : row[b].status \in ActiveStatus} \subseteq {a}

\* The partial unique index uq_one_active_or_purchased_attempt_per_product.
IndexAllows(a, l) == BlockingRows(ProductOf[l]) \subseteq {a}

\* sum_purchased_total_since(now - 1 day)
SpentToday ==
  MapThenSumSet(LAMBDA a : row[a].total,
    {a \in Attempt : /\ row[a].status = "purchased"
                     /\ row[a].createdAt + DayLength >= clock})

\* (slip) A cooldown that only looks at purchases.
CooledDownSincePurchase(l) ==
  \A a \in Attempt :
    row[a].listing = l /\ row[a].status = "purchased"
      => row[a].createdAt + CooldownSeconds <= clock

\* _seconds_since_last_attempt against PURCHASE_COOLDOWN_SECONDS
CooledDown(l) ==
  \A a \in Attempt :
    row[a].listing = l => row[a].createdAt + CooldownSeconds <= clock

-----------------------------------------------------------------------------
(* The coroutine attempt_purchase, from await to await. *)

\* Coroutines of one process run on one event loop: while one of them is
\* between two awaits the others do not move.
Yielded(w) ==
  \A a \in Attempt : task[a].worker = w => task[a].pc \notin {"decided", "claimed"}

\* The coroutine of a stands at pc and its event loop can resume it.
Resumes(a, pc) ==
  /\ task[a].pc = pc
  /\ pc \notin {"decided", "claimed"} => Yielded(task[a].worker)

\* update_purchase_attempt: a blind write to the row.
SetStatus(a, s) == row' = [row EXCEPT ![a].status = s]

\* _finish, and every other way out: the row takes its last status.
Finish(a, s) ==
  /\ SetStatus(a, s)
  /\ task' = [task EXCEPT ![a] = NoTask]

\* (slip) A failed attempt is retried on its own row.
TickRetries(w, a, l, t, ok) ==
  /\ mode[w] = "running"
  /\ Yielded(w)
  /\ row[a].status \in {"none", "failed"} /\ task[a] = NoTask
  /\ task' = [task EXCEPT ![a] = [pc |-> "queued", worker |-> w, listing |-> l,
                                  total |-> t, eligible |-> ok]]
  /\ UNCHANGED <<row, call, charged, workerVars, killSwitch, clock>>

\* tick() fires attempt_purchase for a rule whose decision was ALLOW.
TickFires(w, a, l, t, ok) ==
  /\ mode[w] = "running"
  /\ Yielded(w)
  /\ row[a] = NoRow /\ task[a] = NoTask
  /\ task' = [task EXCEPT ![a] = [pc |-> "queued", worker |-> w, listing |-> l,
                                  total |-> t, eligible |-> ok]]
  /\ UNCHANGED <<row, call, charged, workerVars, killSwitch, clock>>

\* (slip) The idempotency check of one listing only.
ProceedsPerListing(a) ==
  LET l == task[a].listing
      t == task[a].total
  IN /\ task[a].eligible
     /\ policy[task[a].worker]
     /\ t <= MaxPrice[l]
     /\ t <= MaxOrderEur
     /\ SpentToday + t <= MaxDailyEur
     /\ ActiveRows(l) = {}
     /\ CooledDown(l)

\* evaluate_purchase_intent on what build_decision_context read.
Proceeds(a) ==
  LET l == task[a].listing
      t == task[a].total
  IN /\ task[a].eligible
     /\ policy[task[a].worker]
     /\ t <= MaxPrice[l]
     /\ t <= MaxOrderEur
     /\ SpentToday + t <= MaxDailyEur
     /\ ActiveRows(l) = {}
     /\ BlockingRows(ProductOf[l]) = {}
     /\ CooledDown(l)

HotPathAccepts(a) ==
  /\ Resumes(a, "queued")
  /\ Proceeds(a)
  /\ task' = [task EXCEPT ![a].pc = "decided"]
  /\ UNCHANGED <<row, call, charged, workerVars, killSwitch, clock>>

HotPathRefuses(a) ==
  /\ Resumes(a, "queued")
  /\ ~Proceeds(a)
  /\ task' = [task EXCEPT ![a] = NoTask]
  /\ UNCHANGED <<row, call, charged, workerVars, killSwitch, clock>>

\* create_purchase_attempt commits.
Claim(a) ==
  /\ Resumes(a, "decided")
  /\ IndexAllows(a, task[a].listing)
  /\ row' = [row EXCEPT ![a] = [status |-> "created", listing |-> task[a].listing,
                                total |-> 0, createdAt |-> clock]]
  /\ task' = [task EXCEPT ![a].pc = "claimed"]
  /\ UNCHANGED <<call, charged, workerVars, killSwitch, clock>>

\* The insert hits the unique index: IntegrityError, rollback, no row.
ClaimBlocked(a) ==
  /\ Resumes(a, "decided")
  /\ ~IndexAllows(a, task[a].listing)
  /\ task' = [task EXCEPT ![a] = NoTask]
  /\ UNCHANGED <<row, call, charged, workerVars, killSwitch, clock>>

\* PurchaseConnectorNotRegisteredError
NoConnector(a) ==
  /\ Resumes(a, "claimed")
  /\ Finish(a, "failed")
  /\ UNCHANGED <<call, charged, workerVars, killSwitch, clock>>

\* VALIDATING is committed and revalidate() handed to a thread.
StartRevalidate(a) ==
  /\ Resumes(a, "claimed")
  /\ IndexAllows(a, task[a].listing)
  /\ SetStatus(a, "validating")
  /\ task' = [task EXCEPT ![a].pc = "revalidating"]
  /\ UNCHANGED <<call, charged, workerVars, killSwitch, clock>>

RevalidateRaises(a, s) ==
  /\ Resumes(a, "revalidating")
  /\ Finish(a, s)
  /\ UNCHANGED <<call, charged, workerVars, killSwitch, clock>>

\* (slip) The quote is trusted because the observed price passed.
QuoteTrusted(a, t, ok) == ok /\ policy[task[a].worker]

\* The gates re-run on the merchant's quote, and the policy loaded once more: it
\* comes from the process's environment, which only startup fills from .env.
\* ok: still in stock in the wanted quantity and, if asked for, profitable.
QuoteAcceptable(a, t, ok) ==
  /\ ok
  /\ t <= MaxPrice[task[a].listing]
  /\ t <= MaxOrderEur
  /\ policy[task[a].worker]

QuoteRefused(a, t, ok) ==
  /\ Resumes(a, "revalidating")
  /\ ~QuoteAcceptable(a, t, ok)
  /\ Finish(a, "cancelled")
  /\ UNCHANGED <<call, charged, workerVars, killSwitch, clock>>

\* CHECKOUT_STARTED is committed and the Discord announcement awaited.
QuoteAccepted(a, t) ==
  /\ Resumes(a, "revalidating")
  /\ QuoteAcceptable(a, t, TRUE)
  /\ IndexAllows(a, task[a].listing)
  /\ SetStatus(a, "checkout_started")
  /\ task' = [task EXCEPT ![a].pc = "notifying", ![a].total = t]
  /\ UNCHANGED <<call, charged, workerVars, killSwitch, clock>>

\* The announcement is sent (or failed: swallowed) and checkout() dispatched.
CallCheckout(a) ==
  /\ Resumes(a, "notifying")
  /\ task' = [task EXCEPT ![a].pc = "checkout"]
  /\ call' = [call EXCEPT ![a] = [worker |-> task[a].worker, total |-> task[a].total]]
  /\ UNCHANGED <<row, charged, workerVars, killSwitch, clock>>

CheckoutSucceeds(a) ==
  /\ Resumes(a, "checkout")
  /\ charged[a] > 0
  /\ IndexAllows(a, task[a].listing)
  /\ row' = [row EXCEPT ![a].status = "purchased", ![a].total = charged[a]]
  /\ task' = [task EXCEPT ![a] = NoTask]
  /\ call' = [call EXCEPT ![a] = NoCall]
  /\ UNCHANGED <<charged, workerVars, killSwitch, clock>>

\* checkout() raises, whatever its exception, or returns success = False.
CheckoutFails(a, s) ==
  /\ Resumes(a, "checkout")
  /\ charged[a] > 0 => LossyCheckout
  /\ Finish(a, s)
  /\ call' = [call EXCEPT ![a] = NoCall]
  /\ UNCHANGED <<charged, workerVars, killSwitch, clock>>

-----------------------------------------------------------------------------
(* Merchants, threads that lost their coroutine, the operator, the clock. *)

\* The merchant may charge any total: the quote binds nobody, and the engine
\* compares what checkout() reports with no cap.
MerchantTakesOrder(a, t) ==
  /\ call[a] # NoCall
  /\ charged[a] = 0
  /\ charged' = [charged EXCEPT ![a] = t]
  /\ UNCHANGED <<row, task, call, workerVars, killSwitch, clock>>

\* The thread of a cancelled coroutine ends; nobody reads its result.
OrphanThreadEnds(a) ==
  /\ call[a] # NoCall
  /\ task[a] = NoTask
  /\ call' = [call EXCEPT ![a] = NoCall]
  /\ UNCHANGED <<row, task, charged, workerVars, killSwitch, clock>>

FlipKillSwitch ==
  /\ killSwitch' = ~killSwitch
  /\ UNCHANGED <<row, task, call, charged, workerVars, clock>>

AdvanceClock ==
  /\ clock < MaxClock
  /\ clock' = clock + 1
  /\ UNCHANGED <<row, task, call, charged, workerVars, killSwitch>>

-----------------------------------------------------------------------------
(* The worker process. *)

WithoutTasksOf(w) ==
  [a \in Attempt |-> IF task[a].worker = w THEN NoTask ELSE task[a]]

WithoutCallsOf(w) ==
  [a \in Attempt |-> IF call[a].worker = w THEN NoCall ELSE call[a]]

\* (slips) No reconciliation; a status the table does not know; an outcome that
\* claims nothing was ordered.
NotReconciled(a) == row

ReconciledAsOrphaned(a) == [row EXCEPT ![a].status = "orphaned"]

ReconciledAsCancelled(a) == [row EXCEPT ![a].status = "cancelled"]

\* The write of reconcile_orphaned_purchase_attempts, blind to what the status
\* has become since the row was listed.
Reconciled(a) == [row EXCEPT ![a].status = "failed"]

\* main(): take the pid file, load .env, list the active rows.
Start(w) ==
  LET active == {a \in Attempt : row[a].status \in ActiveStatus}
  IN /\ mode[w] = "down"
     /\ ExclusivePidfile => \A v \in Worker : mode[v] = "down"
     /\ mode' = [mode EXCEPT ![w] = "starting"]
     /\ orphans' = [orphans EXCEPT ![w] = active]
     /\ mistaken' = mistaken \union {a \in active : task[a] # NoTask}
     /\ policy' = [policy EXCEPT ![w] = killSwitch]
     /\ UNCHANGED <<row, task, call, charged, killSwitch, clock>>

\* One listed row is written and committed.
ReconcileRow(w, a) ==
  /\ mode[w] = "starting"
  /\ a \in orphans[w]
  /\ row' = Reconciled(a)
  /\ orphans' = [orphans EXCEPT ![w] = @ \ {a}]
  /\ UNCHANGED <<task, call, charged, mode, mistaken, policy, killSwitch, clock>>

\* Nothing is left to reconcile: main() enters run_forever.
EnterLoop(w) ==
  /\ mode[w] = "starting"
  /\ orphans[w] = {}
  /\ mode' = [mode EXCEPT ![w] = "running"]
  /\ UNCHANGED <<row, task, call, charged, orphans, mistaken, policy, killSwitch, clock>>

\* SIGTERM: run_forever returns after its tick and the drain begins.
Stop(w) ==
  /\ mode[w] = "running"
  /\ mode' = [mode EXCEPT ![w] = "draining"]
  /\ UNCHANGED <<row, task, call, charged, orphans, mistaken, policy, killSwitch, clock>>

\* (slip) A drain that gives up waiting without cancelling.
DrainedWithoutCancel(w) ==
  /\ mode[w] = "draining"
  /\ Yielded(w)
  /\ mode' = [mode EXCEPT ![w] = "down"]
  /\ UNCHANGED <<row, task, call, charged, orphans, mistaken, policy, killSwitch, clock>>

\* The drain ends, by itself or after its timeout by cancelling what is left,
\* and the pid file is released.  Threads cannot be cancelled.
Drained(w) ==
  /\ mode[w] = "draining"
  /\ Yielded(w)
  /\ task' = WithoutTasksOf(w)
  /\ mode' = [mode EXCEPT ![w] = "down"]
  /\ UNCHANGED <<row, call, charged, orphans, mistaken, policy, killSwitch, clock>>

\* The process dies, coroutines, threads and the list of a start with it.
Crash(w) ==
  /\ mode[w] # "down"
  /\ task' = WithoutTasksOf(w)
  /\ call' = WithoutCallsOf(w)
  /\ mode' = [mode EXCEPT ![w] = "down"]
  /\ orphans' = [orphans EXCEPT ![w] = {}]
  /\ UNCHANGED <<row, charged, mistaken, policy, killSwitch, clock>>

\* An update hits the unique index.  Nothing catches that IntegrityError, and
\* it leaves the shared Session unusable: the next tick raises out of
\* run_forever and the process ends (its threads run on).
UpdateBlocked(a) ==
  /\ \/ Resumes(a, "claimed")
     \/ Resumes(a, "revalidating") /\ \E t \in Totals : QuoteAcceptable(a, t, TRUE)
     \/ Resumes(a, "checkout") /\ charged[a] > 0
  /\ ~IndexAllows(a, task[a].listing)
  /\ task' = WithoutTasksOf(task[a].worker)
  /\ mode' = [mode EXCEPT ![task[a].worker] = "down"]
  /\ UNCHANGED <<row, call, charged, orphans, mistaken, policy, killSwitch, clock>>

-----------------------------------------------------------------------------
Coroutine(a) ==
  \/ HotPathAccepts(a)
  \/ HotPathRefuses(a)
  \/ Claim(a)
  \/ ClaimBlocked(a)
  \/ NoConnector(a)
  \/ StartRevalidate(a)
  \/ \E s \in GaveUpStatus \union {"failed"} : RevalidateRaises(a, s)
  \/ \E t \in Totals, ok \in BOOLEAN : QuoteRefused(a, t, ok)
  \/ \E t \in Totals : QuoteAccepted(a, t)
  \/ CallCheckout(a)
  \/ CheckoutSucceeds(a)
  \/ \E s \in GaveUpStatus \union {"failed"} : CheckoutFails(a, s)
  \/ UpdateBlocked(a)

Process(w) ==
  \/ Start(w)
  \/ \E a \in Attempt : ReconcileRow(w, a)
  \/ EnterLoop(w)
  \/ Stop(w)
  \/ Drained(w)
  \/ Crash(w)

Next ==
  \/ \E w \in Worker, a \in Attempt, l \in Listing, t \in Totals, ok \in BOOLEAN :
       TickFires(w, a, l, t, ok)
  \/ \E a \in Attempt : Coroutine(a)
  \/ \E a \in Attempt, t \in Totals : MerchantTakesOrder(a, t)
  \/ \E a \in Attempt : OrphanThreadEnds(a)
  \/ \E w \in Worker : Process(w)
  \/ FlipKillSwitch
  \/ AdvanceClock

\* The event loop resumes a ready coroutine and every connector call answers
\* or times out; a drain is bounded; systemd restarts a stopped worker, and
\* crashes do not cut every start short before its next reconciliation.
Fairness ==
  /\ \A a \in Attempt : WF_vars(Coroutine(a))
  /\ \A w \in Worker : WF_vars(Drained(w))
  /\ WF_vars(\E w \in Worker : Start(w))
  /\ \A w \in Worker : SF_vars(\E a \in Attempt : ReconcileRow(w, a))

Spec == Init /\ [][Next]_vars

FairSpec == Spec /\ Fairness

-----------------------------------------------------------------------------
(* Properties *)

(* Every variable stays in its domain: in particular a row never leaves the
   statuses of the ck_purchase_attempt_status_valid constraint, and a coroutine
   that is past its insert has a worker and a listing. *)
TypeOK ==
  /\ row \in [Attempt -> Row \union {NoRow}]
  /\ task \in [Attempt -> Task \union {NoTask}]
  /\ call \in [Attempt -> Call \union {NoCall}]
  /\ charged \in [Attempt -> Nat]
  /\ mode \in [Worker -> {"down", "starting", "running", "draining"}]
  /\ policy \in [Worker -> BOOLEAN]
  /\ orphans \in [Worker -> SUBSET Attempt]
  /\ mistaken \subseteq Attempt
  /\ killSwitch \in BOOLEAN
  /\ clock \in 0..MaxClock

(* At most one row of a product is active or purchased, across its listings
   (the promise of the PurchaseAttempt table), even when two workers run. *)
OneBlockingRowPerProduct ==
  \A a, b \in Attempt :
    /\ a # b
    /\ row[a].status \in BlockingStatus
    /\ row[b].status \in BlockingStatus
    => ProductOf[row[a].listing] # ProductOf[row[b].listing]

(* "No await between the check and the insert" is enough while the pid file
   keeps workers apart: from its decision to its last update, no write of an
   attempt can hit the unique index, so the IntegrityError branches of
   run_hot_path and of every update are never taken. *)
IndexNeverFires ==
  \A a \in Attempt :
    task[a].pc \in Pc \ {"queued"} => IndexAllows(a, task[a].listing)

(* The reasons for it, and the inductive invariant behind it: one process at a
   time, coroutines only in that process and once it has started, one of them
   between two awaits, rows in step with their coroutines, a decision that stays
   true until the insert, and a start that only lists rows nobody works on. *)
OneProcess ==
  \A v, w \in Worker : mode[v] # "down" /\ mode[w] # "down" => v = w

TasksInProcess ==
  \A a \in Attempt :
    task[a].pc \in Pc => mode[task[a].worker] \in {"running", "draining"}

OneUnyielded ==
  \A a, b \in Attempt :
    task[a].pc \in {"decided", "claimed"} /\ task[b].pc \in {"decided", "claimed"}
      => a = b

ListingFollowsTask ==
  \A a \in Attempt :
    task[a].pc \in PastInsert => row[a].listing = task[a].listing

StatusFollowsTask ==
  \A a \in Attempt :
    /\ task[a].pc \in {"queued", "decided"} => row[a] = NoRow
    /\ task[a].pc \in PastInsert => row[a].status \in ActiveStatus

DecidedProductFree ==
  \A a \in Attempt :
    task[a].pc = "decided" => BlockingRows(ProductOf[task[a].listing]) = {}

ListedRowsActive ==
  \A w \in Worker, a \in Attempt :
    mode[w] = "starting" /\ a \in orphans[w] => row[a].status \in ActiveStatus

OneWriterInv ==
  /\ OneProcess
  /\ TasksInProcess
  /\ OneUnyielded
  /\ ListingFollowsTask
  /\ StatusFollowsTask
  /\ DecidedProductFree
  /\ ListedRowsActive

(* A row that reached a last status keeps it: neither a late coroutine nor the
   reconciliation at a restart rewrites the outcome of an attempt. *)
EndedRowsStay ==
  [][\A a \in Attempt : row[a].status \in EndStatus => row'[a] = row[a]]_vars

(* Two attempts on one listing are at least PURCHASE_COOLDOWN_SECONDS apart,
   whatever crashes, restarts or overlapping coroutines came in between. *)
CooldownKept ==
  \A a, b \in Attempt :
    /\ a # b
    /\ row[a] # NoRow /\ row[b] # NoRow
    /\ row[a].listing = row[b].listing
    => \/ row[a].createdAt + CooldownSeconds <= row[b].createdAt
       \/ row[b].createdAt + CooldownSeconds <= row[a].createdAt

(* checkout() is never called with a quote above the rule's max_price or
   PURCHASE_MAX_ORDER_EUR, though the price that triggered the attempt and the
   total quoted later differ, and the row of a purchase records exactly what
   checkout() reported, the sum that the daily budget counts.  What the merchant
   then charges is bounded by neither cap: nothing compares it with the quote. *)
CheckoutsWithinCaps ==
  \A a \in Attempt :
    /\ call[a] # NoCall => /\ call[a].total <= MaxPrice[row[a].listing]
                          /\ call[a].total <= MaxOrderEur
    /\ row[a].status = "purchased" => charged[a] > 0 /\ row[a].total = charged[a]

(* An order that exists at a merchant is never filed as cancelled, the status of
   attempts that the bot itself gave up before ordering, nor as one that has yet
   to reach checkout, whichever of a late thread, a crash and a reconciliation
   came first.  It may be filed as purchased, as failed, or, if the connector
   raises after ordering, as left to a human: each but the first frees the
   product. *)
OrdersAreOnRecord ==
  \A a \in Attempt :
    charged[a] > 0 =>
      row[a].status \in {"checkout_started"} \union (EndStatus \ {"cancelled"})

(* An attempt does not hold its product for ever: an active row settles, by
   the end of its coroutine or by the reconciliation after a crash. *)
ActiveRowsSettle ==
  \A a \in Attempt :
    row[a].status \in ActiveStatus ~> row[a].status \in EndStatus

(* Once a product has been bought no row of it becomes active again, none is
   created, and the row of the purchase stays as it is, even when two workers
   run, but for one case: a row that a starting worker listed as orphaned while
   its coroutine ran on in another worker is written "failed" though it has
   become purchased meanwhile, and the product is free to be bought again. *)
BoughtProductsStayAlone ==
  [][\A a \in Attempt : row'[a] # row[a] =>
       /\ row[a].status = "purchased" => a \in mistaken
       /\ row'[a].status \in BlockingStatus =>
            ~\E b \in Attempt \ {a} :
               /\ row[b].status = "purchased"
               /\ ProductOf[row[b].listing] = ProductOf[row'[a].listing]]_vars

(* The table implements the abstract promise of ProductSlot: the holder of a
   product is the attempt of its blocking row. *)
HolderOf(p) ==
  IF BlockingRows(p) = {} THEN NoAttempt ELSE CHOOSE a \in BlockingRows(p) : TRUE

Holder == [p \in Product |-> HolderOf(p)]
Bought == {p \in Product : \E a \in BlockingRows(p) : row[a].status = "purchased"}
Used   == {a \in Attempt : row[a] # NoRow}

Slot == INSTANCE ProductSlot WITH holder <- Holder, bought <- Bought, used <- Used

ImplementsProductSlot == Slot!Spec

(* purchase/engine.py evaluate_purchase_intent: "the same product briefly in
   stock at several retailers at once must never result in more than one
   purchase".  The code breaks this when an attempt is lost after its order
   went through. *)
OneOrderPerProduct ==
  \A a, b \in Attempt :
    a # b /\ charged[a] > 0 /\ charged[b] > 0
      => ProductOf[row[a].listing] # ProductOf[row[b].listing]

(* PURCHASE_MAX_DAILY_EUR bounds what is spent in a day.  The code breaks this:
   attempts in flight are not counted and the quoted total is not compared with
   the day's budget again. *)
DailyBudgetKept == SpentToday <= MaxDailyEur

(* app/worker.py: turning PURCHASES_ENABLED off in .env takes effect without a
   restart, because it is re-read "right before the actual checkout call".
   The code breaks this: the reading is of the process's environment. *)
NoCheckoutWhileSwitchedOff ==
  [][\A a \in Attempt :
       row[a].status # "checkout_started" /\ row'[a].status = "checkout_started"
         => killSwitch]_vars
=============================================================================
