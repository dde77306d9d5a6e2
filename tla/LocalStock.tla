----------------------------- MODULE LocalStock -----------------------------
(***************************************************************************)
(* Stock in shops: the pass over the listings of a retailer               *)
(* (local_stock/worker.py), started by a tick at most once per interval   *)
(* and one at a time (app/worker.py), the transition of a shop's stock     *)
(* (local_stock/monitor.py), the durable alerts (local_stock/delivery.py)  *)
(* and their rows (database/crud.py).                                      *)
(*                                                                         *)
(* The request runs in a thread; the rest runs on the event loop, and an   *)
(* action ends at an await or at a commit.  A Shelf is a pair of a located *)
(* shop and a listing with an EAN.  The only event type there is and the   *)
(* only state it leads to make the key of an event its shelf.              *)
(***************************************************************************)
EXTENDS Naturals, FiniteSets

CONSTANTS
  Store, Listing,
  Sweeper,          \* recovery sweeps that can be under way together
  PassInterval,     \* LOCAL_STOCK_INTERVAL_SECONDS, in units of the clock
  LocalAttempts,    \* _MAX_ATTEMPTS
  LocalRetry,       \* the delay before a retry, which the doubling only lengthens
  MaxLocalDeaths,   \* bound of the deaths of the worker
  MaxLocalClock,    \* bound of the clock
  NoShelf

Shelf == Store \X Listing

ASSUME LocalStockAssumption ==
  /\ LocalAttempts \in Nat \ {0} /\ PassInterval \in Nat /\ LocalRetry \in Nat
  /\ MaxLocalDeaths \in Nat /\ MaxLocalClock \in Nat
  /\ NoShelf \notin Shelf

VARIABLES
  stock,       \* the local_stock_states table
  restock,     \* the local_stock_events table
  letter,      \* the local_notification_deliveries table
  localUp,     \* whether the worker runs
  flying,      \* _local_stock_in_flight
  lastPass,    \* _last_local_stock_check_at: 0, or 1 + the time
  pass,        \* the pass under way
  sweep,       \* the sweeps under way
  reached,     \* how often each alert reached the Discord channel
  everOut,     \* (history) shelves that an answer showed to be empty
  refilled,    \* (history) shelves that two answers showed to be refilled
  cutShort,    \* (history) shelves whose alert a death prevented
  localDeaths,
  localClock

localRows    == <<stock, restock, letter>>
localMemory  == <<localUp, flying, lastPass>>
localHistory == <<everOut, refilled, cutShort>>
localVars    == <<localRows, localMemory, pass, sweep, reached, localHistory,
                  localDeaths, localClock>>

StockState == {"unseen", "out_of_stock", "click_and_collect"}

NoPass   == [pc |-> "none", listings |-> {}, shelves |-> {}, full |-> {},
             alert |-> NoShelf]
NoSweep  == [todo |-> {}, sending |-> NoShelf, arrived |-> FALSE, now |-> 0]
NoLetter == [status |-> "none", attempts |-> 0, retryAt |-> 0]
Letter   == [NoLetter EXCEPT !.status = "pending"]

LocalInit ==
  /\ stock = [h \in Shelf |-> "unseen"]
  /\ restock = {}
  /\ letter = [h \in Shelf |-> NoLetter]
  /\ localUp = FALSE /\ flying = FALSE /\ lastPass = 0
  /\ pass = NoPass
  /\ sweep = [w \in Sweeper |-> NoSweep]
  /\ reached = [h \in Shelf |-> 0]
  /\ everOut = {} /\ refilled = {} /\ cutShort = {}
  /\ localDeaths = 0 /\ localClock = 0

-----------------------------------------------------------------------------
(* A pass. *)

StartLocalWorker ==
  /\ ~localUp
  /\ localUp' = TRUE
  /\ UNCHANGED <<localRows, flying, lastPass, pass, sweep, reached, localHistory,
                 localDeaths, localClock>>

PassIsDue == ~flying /\ (lastPass # 0 => localClock + 1 >= lastPass + PassInterval)

\* _start_local_stock_check_if_due and its early returns
TickWithoutPass ==
  /\ localUp /\ ~PassIsDue
  /\ UNCHANGED localVars

StartPass ==
  /\ localUp /\ PassIsDue
  /\ flying' = TRUE
  /\ lastPass' = localClock + 1
  /\ pass' = [NoPass EXCEPT !.pc = "fetching", !.listings = Listing]
  /\ UNCHANGED <<localRows, localUp, sweep, reached, localHistory, localDeaths,
                 localClock>>

\* The pass once listing l is done with: the next one, or the end.
DoneWith(l) ==
  IF pass.listings = {l} THEN NoPass
  ELSE [NoPass EXCEPT !.pc = "fetching", !.listings = pass.listings \ {l}]

\* (slip) The callback of a pass that raised leaves the flag.
FlagAfterSuccess(p, raised) == p # NoPass \/ raised

\* _local_stock_task_done clears the flag however the pass ended.
FlagAfter(p, raised) == p # NoPass

\* (slip) A failed request is taken for an answer without any shop.
EmptyAnswer(l) ==
  /\ pass' = [pass EXCEPT !.pc = "applying", !.shelves = Store \X {l}]
  /\ flying' = TRUE

\* RbsPlatformError: the listing is skipped.
SkipListing(l) ==
  /\ pass' = DoneWith(l)
  /\ flying' = FlagAfter(pass', FALSE)

FetchFails(l) ==
  /\ pass.pc = "fetching" /\ l \in pass.listings
  /\ SkipListing(l)
  /\ UNCHANGED <<localRows, localUp, lastPass, sweep, reached, localHistory,
                 localDeaths, localClock>>

\* Any other exception ends the pass.
FetchRaises ==
  /\ pass.pc = "fetching"
  /\ pass' = NoPass
  /\ flying' = FlagAfter(pass', TRUE)
  /\ UNCHANGED <<localRows, localUp, lastPass, sweep, reached, localHistory,
                 localDeaths, localClock>>

\* fetch_pickup_availability: the shops that have the listing.
Fetch(l) ==
  /\ pass.pc = "fetching" /\ l \in pass.listings
  /\ \E full \in SUBSET (Store \X {l}) :
       /\ pass' = [pass EXCEPT !.pc = "applying", !.shelves = Store \X {l},
                               !.full = full]
       /\ everOut' = everOut \union ((Store \X {l}) \ full)
  /\ UNCHANGED <<localRows, localMemory, sweep, reached, refilled, cutShort,
                 localDeaths, localClock>>

\* The pass once shelf h of listing h[2] is done with.
NextShelf(h) ==
  IF pass.shelves = {h} THEN DoneWith(h[2])
  ELSE [pass EXCEPT !.shelves = @ \ {h}, !.alert = NoShelf]

\* (slip) Only the entry of the state "unknown", which no check writes.
RefilledSinceUnknown(previous, new) ==
  previous = "unknown" /\ new = "click_and_collect"

\* The baseline and the table of alertable transitions.
Refilled(previous, new) ==
  previous = "out_of_stock" /\ new = "click_and_collect"

\* _apply_transition up to the commit of the state.
ApplyState(h) ==
  /\ pass.pc = "applying" /\ pass.alert = NoShelf /\ h \in pass.shelves
  /\ LET new == IF h \in pass.full THEN "click_and_collect" ELSE "out_of_stock"
     IN /\ stock' = [stock EXCEPT ![h] = new]
        /\ refilled' = IF stock[h] = "out_of_stock" /\ h \in pass.full
                       THEN refilled \union {h} ELSE refilled
        /\ IF Refilled(stock[h], new)
           THEN /\ pass' = [pass EXCEPT !.alert = h]
                /\ UNCHANGED flying
           ELSE /\ pass' = NextShelf(h)
                /\ flying' = FlagAfter(pass', FALSE)
  /\ UNCHANGED <<restock, letter, localUp, lastPass, sweep, reached, everOut,
                 cutShort, localDeaths, localClock>>

\* create_local_stock_event: the key of an event is in the table for ever.
ApplyEvent ==
  /\ pass.pc = "applying" /\ pass.alert # NoShelf
  /\ LET h == pass.alert
     IN IF h \in restock
        THEN /\ pass' = NextShelf(h)
             /\ flying' = FlagAfter(pass', FALSE)
             /\ UNCHANGED restock
        ELSE /\ restock' = restock \union {h}
             /\ pass' = [pass EXCEPT !.pc = "alerting"]
             /\ UNCHANGED flying
  /\ UNCHANGED <<stock, letter, localUp, lastPass, sweep, reached, localHistory,
                 localDeaths, localClock>>

\* create_pending_local_delivery
ApplyDelivery ==
  /\ pass.pc = "alerting"
  /\ letter' = [letter EXCEPT ![pass.alert] = Letter]
  /\ pass' = [NextShelf(pass.alert) EXCEPT
                !.pc = IF @ = "alerting" THEN "applying" ELSE @]
  /\ flying' = FlagAfter(pass', FALSE)
  /\ UNCHANGED <<stock, restock, localUp, lastPass, sweep, reached, localHistory,
                 localDeaths, localClock>>

-----------------------------------------------------------------------------
(* The sweeps that send. *)

\* (slips) The condition of the claim without its status, or without its time.
LetterDueOnTime(h, now) == letter[h] # NoLetter /\ letter[h].retryAt <= now

LetterDue(h, now) ==
  letter[h].status \in {"pending", "failed_retryable"} /\ letter[h].retryAt <= now

\* list_due_local_deliveries
StartSweep(w) ==
  /\ localUp /\ sweep[w] = NoSweep
  /\ {h \in Shelf : LetterDue(h, localClock)} # {}
  /\ sweep' = [sweep EXCEPT ![w] = [todo    |-> {h \in Shelf : LetterDue(h, localClock)},
                                    sending |-> NoShelf, arrived |-> FALSE,
                                    now |-> localClock]]
  /\ UNCHANGED <<localRows, localMemory, pass, reached, localHistory, localDeaths,
                 localClock>>

Rested(s) == IF s.todo = {} THEN NoSweep ELSE s

\* claim_local_delivery_for_sending: another sweep may have been there first.
ClaimLetter(w, h) ==
  /\ h \in sweep[w].todo /\ sweep[w].sending = NoShelf
  /\ IF LetterDue(h, sweep[w].now)
     THEN /\ letter' = [letter EXCEPT ![h].status = "sending", ![h].attempts = @ + 1]
          /\ sweep' = [sweep EXCEPT ![w] = [sweep[w] EXCEPT !.todo = @ \ {h},
                                             !.sending = h]]
     ELSE /\ sweep' = [sweep EXCEPT ![w] = Rested([sweep[w] EXCEPT !.todo = @ \ {h}])]
          /\ UNCHANGED letter
  /\ UNCHANGED <<stock, restock, localMemory, pass, reached, localHistory,
                 localDeaths, localClock>>

\* Discord has the message, whatever the client is told.
LetterArrives(w) ==
  /\ sweep[w].sending # NoShelf /\ ~sweep[w].arrived
  /\ reached' = [reached EXCEPT ![sweep[w].sending] = @ + 1]
  /\ sweep' = [sweep EXCEPT ![w].arrived = TRUE]
  /\ UNCHANGED <<localRows, localMemory, pass, localHistory, localDeaths, localClock>>

Answered(w) ==
  [sweep EXCEPT ![w] = Rested([@ EXCEPT !.sending = NoShelf, !.arrived = FALSE])]

\* mark_local_delivery_sent
LetterSent(w) ==
  /\ sweep[w].arrived
  /\ letter' = [letter EXCEPT ![sweep[w].sending].status = "sent"]
  /\ sweep' = Answered(w)
  /\ UNCHANGED <<stock, restock, localMemory, pass, reached, localHistory,
                 localDeaths, localClock>>

\* (slip) One attempt too many.
LetterRetries(d, retryable) == retryable /\ d.attempts <= LocalAttempts

MayRetry(d, retryable) == retryable /\ d.attempts < LocalAttempts

\* mark_local_delivery_failed_retryable or _permanent
LetterFailed(w) ==
  /\ sweep[w].sending # NoShelf
  /\ \E retryable \in BOOLEAN :
       letter' = [letter EXCEPT ![sweep[w].sending] =
         IF MayRetry(@, retryable)
         THEN [@ EXCEPT !.status = "failed_retryable",
                        !.retryAt = sweep[w].now + LocalRetry]
         ELSE [@ EXCEPT !.status = "failed_permanent", !.retryAt = 0]]
  /\ sweep' = Answered(w)
  /\ UNCHANGED <<stock, restock, localMemory, pass, reached, localHistory,
                 localDeaths, localClock>>

-----------------------------------------------------------------------------
(* The world. *)

LocalDie ==
  /\ localUp /\ localDeaths < MaxLocalDeaths
  /\ localDeaths' = localDeaths + 1
  /\ localUp' = FALSE /\ flying' = FALSE /\ lastPass' = 0
  /\ pass' = NoPass
  /\ sweep' = [w \in Sweeper |-> NoSweep]
  /\ cutShort' = IF pass.alert = NoShelf THEN cutShort ELSE cutShort \union {pass.alert}
  /\ UNCHANGED <<localRows, reached, everOut, refilled, localClock>>

LocalClockTicks ==
  /\ localClock < MaxLocalClock /\ localClock' = localClock + 1
  /\ UNCHANGED <<localRows, localMemory, pass, sweep, reached, localHistory,
                 localDeaths>>

PassSteps ==
  \/ FetchRaises \/ ApplyEvent \/ ApplyDelivery
  \/ \E l \in Listing : FetchFails(l) \/ Fetch(l)
  \/ \E h \in Shelf : ApplyState(h)

LocalNext ==
  \/ StartLocalWorker \/ TickWithoutPass \/ StartPass \/ PassSteps \/ LocalDie \/ LocalClockTicks
  \/ \E w \in Sweeper :
       \/ StartSweep(w) \/ LetterArrives(w) \/ LetterSent(w) \/ LetterFailed(w)
       \/ \E h \in Shelf : ClaimLetter(w, h)

\* A request ends, by its timeout at the latest, and a coroutine that can go on
\* does.
LocalFairness == WF_localVars(PassSteps)

LocalSpec == LocalInit /\ [][LocalNext]_localVars /\ LocalFairness

-----------------------------------------------------------------------------
(* Properties *)

Statuses == {"none", "pending", "sending", "sent", "failed_retryable",
             "failed_permanent"}

\* The types of the state; a delivery is that of an event.
LocalTypeOK ==
  /\ stock \in [Shelf -> StockState]
  /\ restock \subseteq Shelf
  /\ letter \in [Shelf -> [status : Statuses, attempts : 0..LocalAttempts,
                           retryAt : Nat]]
  /\ \A h \in Shelf : letter[h] # NoLetter => h \in restock
  /\ localUp \in BOOLEAN /\ flying \in BOOLEAN /\ lastPass \in Nat
  /\ pass \in [pc : {"none", "fetching", "applying", "alerting"},
                listings : SUBSET Listing, shelves : SUBSET Shelf,
                full : SUBSET Shelf, alert : Shelf \union {NoShelf}]
  /\ sweep \in [Sweeper -> [todo : SUBSET Shelf, sending : Shelf \union {NoShelf},
                            arrived : BOOLEAN, now : Nat]]
  /\ reached \in [Shelf -> Nat]
  /\ everOut \subseteq Shelf /\ refilled \subseteq Shelf /\ cutShort \subseteq Shelf
  /\ localDeaths \in Nat /\ localClock \in Nat

\* An alert about a shop tells of a refill: an answer of the retailer, not a
\* failed request nor a first look, has shown the shelf to be empty before
\* (local_stock/monitor.py: UNKNOWN never overwrites a known state).
AlertsFollowAbsence == restock \subseteq everOut

\* The first refill of a shelf that two checks showed has its delivery in the
\* database, unless the worker died on the way: nothing recovers such an alert,
\* and each death loses one at most.
FirstRefillQueued ==
  /\ \A h \in refilled :
       letter[h] # NoLetter \/ h \in cutShort \/ pass.alert = h
  /\ Cardinality(cutShort) <= localDeaths

\* A refill that was detected leaves an alert that is still to be delivered
\* (local_stock/monitor.py lists the transition as worth alerting on).
RefillsAreAlerted ==
  [][\A h \in Shelf :
       pass.alert = h /\ pass'.alert # h /\ localUp' =>
         letter'[h].status \in {"pending", "sending", "failed_retryable"}]_localVars

\* A pass ends, whatever becomes of its requests, and its flag with it: the next
\* pass is never locked out (app/worker.py::_local_stock_task_done).
PassesEnd == flying ~> ~flying

Given(statuses) == {h \in Shelf : letter[h].status \in statuses}

LocalOutbox == INSTANCE Outbox WITH
  Event    <- Shelf,
  MaxPosts <- LocalAttempts,
  queued   <- Given({"pending", "sending", "failed_retryable"}),
  sent     <- Given({"sent"}),
  givenUp  <- Given({"failed_permanent"}),
  posts    <- reached

\* The deliveries of alerts about shops keep the promise of the others, with
\* several sweeps at work and deaths between the message and its record
\* (database/models.py::LocalNotificationDelivery: the same state machine).
LocalImplementsOutbox == LocalOutbox!Spec
=============================================================================
