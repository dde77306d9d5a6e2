----------------------------- MODULE Monitoring -----------------------------
(***************************************************************************)
(* The monitoring loop: a tick of app/worker.py and engine/worker.py, the  *)
(* check of one rule and its storing (engine/monitoring.py), the detection *)
(* of changes (engine/change_detection.py), the backoff of merchants       *)
(* (engine/backoff.py), the decision to alert (engine/decision.py), the    *)
(* alerts about an opportunity that improved (app/opportunity_alerts.py)   *)
(* and the recovery of alerts (app/delivery.py), with the command line     *)
(* editing and testing rules from processes of its own, one test at a time.*)
(*                                                                         *)
(* Checks run in threads and end in any order; everything else of a tick   *)
(* runs on the event loop, and an action ends at an await or at a commit.  *)
(* The worker works on the attributes of a rule as its Session loaded them *)
(* (copy), not on the row: a copy lives as long as a tick or a purchase    *)
(* attempt holds the object, or until the Session is expired.              *)
(*                                                                         *)
(* An evaluation of the opportunity score is any result, what a merchant   *)
(* answers is any answer, and the effective prices of a rule are its own.  *)
(* The rules are not in profitability mode, where the decision would pass  *)
(* over the target price, and the statements of the database do not fail.  *)
(***************************************************************************)
EXTENDS Naturals, FiniteSets, Sequences, SequencesExt

CONSTANTS
  Rule,           \* ids of watch rules, natural numbers: the order of a tick
  Merchant,
  MerchantOf,     \* the merchant of a rule's listing; a listing has one rule
  Price,          \* natural numbers
  Offer,          \* what the listing of a rule may show: stock, price, product
  CheckInterval,  \* check_interval of the rules, in units of the clock
  BaseBackoff,    \* BASE_BACKOFF_SECONDS
  MaxBackoff,     \* MAX_BACKOFF_SECONDS
  RetryAfter,     \* what a merchant may ask for with a 429; 0: nothing
  Scored,         \* rules with a resale price, whose opportunity has a score
  Tested,         \* rules that the command line edits and tests
  Asked,          \* the prices it sets
  MaxRecords,     \* bound of the observations of a rule's listing
  MaxCommands,    \* bound of the edits and tests of the command line
  MaxDeaths,      \* bound of the deaths of the worker and of tests
  MaxClock,       \* bound of the clock
  NoCopy, NoReply

ASSUME MonitoringAssumption ==
  /\ Rule \subseteq Nat
  /\ MerchantOf \in [Rule -> Merchant]
  /\ Price \subseteq Nat \ {0}
  /\ Offer \in [Rule -> SUBSET [available : BOOLEAN, price : Price, matched : BOOLEAN]]
  /\ CheckInterval \in Nat /\ BaseBackoff \in Nat \ {0}
  /\ MaxBackoff \in Nat /\ BaseBackoff <= MaxBackoff
  /\ RetryAfter \subseteq Nat
  /\ Scored \subseteq Rule /\ Tested \subseteq Rule /\ Asked \subseteq Price
  /\ MaxRecords \in [Rule -> Nat] /\ MaxCommands \in Nat
  /\ MaxDeaths \in Nat /\ MaxClock \in Nat

VARIABLES
  rule,      \* the watch_rules table; a price of 0 is a price that is not set
  records,   \* the observation_records of each rule's listing, as inserted
  event,     \* the event_records table
  queued,    \* events with a notification delivery
  copy,      \* the attributes of a rule as the worker's Session has them
  held,      \* rules whose object a purchase attempt holds
  backoff,   \* the BackoffTracker of the worker
  phase,     \* where the tick is
  now,       \* the time the tick began
  due,       \* the rules the tick checks
  todo,      \* the ones its current loop has still to see, by id
  reply,     \* what the checks of the tick returned
  before,    \* the record of the first of todo that was read as its latest, or 0
  pending,   \* detected changes of the first of todo, not yet committed
  found,     \* changes that the tick committed, by rule
  cli,       \* the test that the command line runs
  changed,   \* (history) observations that differ from the one before
  cut,       \* (history) observations whose storing a death interrupted
  raced,     \* (history) the ones compared with another record than the one before
  restUntil, \* (history) until when a merchant has to be left alone
  relapsed,  \* (history) rules whose score was low since their last such alert
  edits, tests, deaths, clock

tables  == <<rule, records, event, queued>>
session == <<copy, held>>
tick    == <<phase, now, due, todo, reply, before, pending, found>>
command == <<cli, edits, tests>>
stored  == <<changed, raced>>
history == <<stored, cut, restUntil, relapsed>>
vars    == <<tables, session, backoff, tick, history, command, deaths, clock>>

Notifiable == {"high"}                 \* NOTIFIABLE_TIERS of engine/alerting.py
Tier       == {"none", "low", "high"}
ChangeType == {"stock_available", "stock_unavailable", "price_drop",
               "price_increase", "target_price_reached"}
EventType  == ChangeType \union {"opportunity_score_improved"}

NoBackoff == [failures |-> 0, until |-> 0]
NoTest    == [step |-> "none"]

\* A check under way, and the three ways it can end.
Pending == [kind |-> "pending"]
Answers == [kind : {"seen"}, available : BOOLEAN, price : Price,
            matched : BOOLEAN, at : 0..MaxClock]
Shown(o, t) == [kind |-> "seen", available |-> o.available, price |-> o.price,
                matched |-> o.matched, at |-> t]
Errors  == [kind : {"retryable"}, after : RetryAfter] \union [kind : {"other"}]
Seen(r)   == reply[r] \in Answers
Failed(r) == reply[r] \in Errors

Init ==
  /\ rule = [r \in Rule |-> [enabled |-> TRUE, target |-> 0, max |-> 0,
                             tier |-> "none"]]
  /\ records = [r \in Rule |-> <<>>]
  /\ event = {} /\ queued = {}
  /\ copy = [r \in Rule |-> NoCopy]
  /\ held = {}
  /\ backoff = [m \in Merchant |-> NoBackoff]
  /\ phase = "down" /\ now = 0 /\ due = {} /\ todo = {}
  /\ reply = [r \in Rule |-> NoReply]
  /\ before = 0 /\ pending = <<>>
  /\ found = [r \in Rule |-> {}]
  /\ cli = NoTest
  /\ changed = {} /\ cut = {} /\ raced = {}
  /\ restUntil = [m \in Merchant |-> 0]
  /\ relapsed = Rule
  /\ edits = 0 /\ tests = 0 /\ deaths = 0 /\ clock = 0

-----------------------------------------------------------------------------
(* The rows and the worker's view of them. *)

\* The next of some rules, in the order of a tick.
First(rules) == CHOOSE r \in rules : \A q \in rules : r <= q

\* What the worker reads of a rule: a copy it has wins over the row.
View(r) == IF copy[r] = NoCopy THEN rule[r] ELSE copy[r]

\* Reading loads the copy, for as long as somebody holds the object.
Loaded(r) == [copy EXCEPT ![r] = View(r)]

\* list_observation_records_for_listing()[-1]: by the time of the observation,
\* the row inserted last among equals.
Latest(s) ==
  CHOOSE i \in 1..Len(s) :
    \A j \in 1..Len(s) : s[j].at < s[i].at \/ (s[j].at = s[i].at /\ j <= i)

\* What a reader of a listing's records finds there: 0, nothing.
LatestOf(s) == IF s = <<>> THEN 0 ELSE Latest(s)

Row(e) == records[e.rule][e.record]

-----------------------------------------------------------------------------
(* What the steps compute. *)

IsDue(r) ==
  records[r] # <<>> =>
    clock >= records[r][Latest(records[r])].at + CheckInterval

IsBlocked(m, t) == t < backoff[m].until

\* The pause after n failures and one more.
Doubled[n \in Nat] == IF n = 0 THEN BaseBackoff ELSE 2 * Doubled[n - 1]

Delay(n) == IF Doubled[n - 1] <= MaxBackoff THEN Doubled[n - 1] ELSE MaxBackoff

\* record_failure: an error that is not retryable changes nothing.
AfterFailure(b, error) ==
  IF error.kind # "retryable" THEN b
  ELSE LET n     == b.failures + 1
           delay == IF error.after > Delay(n) THEN error.after ELSE Delay(n)
       IN [failures |-> n, until |-> now + delay]

\* (slip) Only the count of failures is reset.
CountReset(b) == [b EXCEPT !.failures = 0]

\* record_success
AfterSuccess(b) == NoBackoff

ChecksOf(m) == {r \in due : MerchantOf[r] = m}
ErrorsOf(m) == {r \in ChecksOf(m) : Failed(r)}

\* (slip) Each result is applied as it comes: a success after a failure in the
\* same tick wipes it.
LastResultWins(m) ==
  LET last == CHOOSE r \in ChecksOf(m) : \A q \in ChecksOf(m) : q <= r IN
  IF ChecksOf(m) = {} THEN backoff[m]
  ELSE IF Seen(last) THEN AfterSuccess(backoff[m])
  ELSE AfterFailure(backoff[m], reply[last])

\* The end of run_monitoring_tick: the first error of a merchant in this tick
\* counts for all its rules, and any error outweighs their successes.
Reconciled(m) ==
  IF ErrorsOf(m) # {} THEN AfterFailure(backoff[m], reply[First(ErrorsOf(m))])
  ELSE IF ChecksOf(m) # {} THEN AfterSuccess(backoff[m])
  ELSE backoff[m]

\* (slip) The previous observation is fetched once the new one is stored.
PreviousTooLate(s, b, o) == LET t == Append(s, o) IN t[Latest(t)]

\* The record that was read before the new one is stored.
Previous(s, b, o) == s[b]

StockChange(p, o) ==
  IF p.available = o.available THEN <<>>
  ELSE <<IF o.available THEN "stock_available" ELSE "stock_unavailable">>

PriceChange(p, o) ==
  IF p.price = o.price THEN <<>>
  ELSE <<IF o.price < p.price THEN "price_drop" ELSE "price_increase">>

TargetReached(p, o, target) ==
  IF target # 0 /\ p.price > target /\ o.price <= target
  THEN <<"target_price_reached">> ELSE <<>>

\* detect_changes
DetectChanges(p, o, target) ==
  StockChange(p, o) \o PriceChange(p, o) \o TargetReached(p, o, target)

\* (slip) The decision does not look at whether the rule is enabled.
AllowedIfCheap(v, o) ==
  /\ v.max # 0 => o.price <= v.max
  /\ v.target # 0 => o.price <= v.target
  /\ o.available

\* engine.decision.evaluate() of a matched observation.
Allowed(v, o) ==
  /\ v.enabled
  /\ v.max # 0 => o.price <= v.max
  /\ v.target # 0 => o.price <= v.target
  /\ o.available

Stored(o) == [at |-> o.at, available |-> o.available, price |-> o.price]

\* The events that storing the observation o of rule r has to commit, where b is
\* the record read before and v the rule as the process has it: none for the
\* first observation and for another product.
EventsOf(r, o, b, v) ==
  IF b = 0 \/ ~o.matched THEN <<>>
  ELSE LET types == DetectChanges(Previous(records[r], b, Stored(o)), Stored(o), v.target)
       IN [i \in DOMAIN types |-> [type |-> types[i], rule |-> r,
                                   record |-> Len(records[r]) + 1]]

\* (history) Whether o tells of another stock than the record before it.
StockDiffers(r, o) ==
  /\ records[r] # <<>> /\ o.matched
  /\ records[r][Latest(records[r])].available # o.available

\* create_observation_record, and what history notes of it: another process may
\* have stored an observation since b was read.
Insert(r, o, b) ==
  /\ records' = [records EXCEPT ![r] = Append(@, Stored(o))]
  /\ changed' = IF StockDiffers(r, o) THEN changed \union {<<r, Len(records[r]) + 1>>}
                                      ELSE changed
  /\ raced' = IF StockDiffers(r, o) /\ b # LatestOf(records[r])
              THEN raced \union {<<r, Len(records[r]) + 1>>} ELSE raced

-----------------------------------------------------------------------------
(* The tick: choosing and checking. *)

StartWorker ==
  /\ phase = "down"
  /\ phase' = "idle"
  /\ UNCHANGED <<tables, session, backoff, now, due, todo, reply, before, pending,
                 found, history, command, deaths, clock>>

\* The bound of the observations, the one that a test has still to store included.
Unstored(r) ==
  cli # NoTest /\ cli.rule = r /\ cli.step \in {"checking", "inserting"}
HasRoom(r) == Len(records[r]) + (IF Unstored(r) THEN 1 ELSE 0) < MaxRecords[r]

\* list_watch_rules(enabled=True) asks the rows; due-ness and backoff follow.
Checkable(r) ==
  HasRoom(r) /\ rule[r].enabled /\ IsDue(r) /\ ~IsBlocked(MerchantOf[r], clock)

StartTick ==
  /\ phase = "idle"
  /\ {r \in Rule : Checkable(r)} # {}
  /\ phase' = "checking"
  /\ now' = clock
  /\ due' = {r \in Rule : Checkable(r)}
  /\ reply' = [r \in Rule |-> IF Checkable(r) THEN Pending ELSE NoReply]
  /\ copy' = [r \in Rule |-> IF Checkable(r) THEN View(r) ELSE copy[r]]
  /\ UNCHANGED <<tables, held, backoff, todo, before, pending, found, history,
                 command, deaths, clock>>

\* A tick that finds no rule to check.
EmptyTick ==
  /\ phase = "idle"
  /\ {r \in Rule : Checkable(r)} = {}
  /\ UNCHANGED vars

\* run_check in a thread.  Where the Session was expired meanwhile, the thread
\* loads the rule itself; whatever comes of that is one of these answers.
Check(r) ==
  /\ phase = "checking" /\ reply[r] = Pending
  /\ copy' = Loaded(r)
  /\ \E a \in IF View(r).enabled THEN {Shown(o, clock) : o \in Offer[r]} \union Errors
                                 ELSE [kind : {"other"}] :
       reply' = [reply EXCEPT ![r] = a]
  /\ UNCHANGED <<tables, held, backoff, phase, now, due, todo, before, pending,
                 found, history, command, deaths, clock>>

-----------------------------------------------------------------------------
(* The tick: storing, without an await but with a commit per row. *)

\* A failed check leaves nothing behind but its error.
StartStoring ==
  /\ phase = "checking"
  /\ \A r \in Rule : reply[r] # Pending
  /\ phase' = "storing"
  /\ todo' = {r \in due : Seen(r)}
  /\ UNCHANGED <<tables, session, backoff, now, due, reply, before, pending, found,
                 history, command, deaths, clock>>

\* store_check_result asks for the records of the listing ...
ReadPrevious ==
  /\ phase = "storing" /\ todo # {} /\ pending = <<>>
  /\ phase' = "inserting"
  /\ before' = LatestOf(records[First(todo)])
  /\ copy' = Loaded(First(todo))
  /\ UNCHANGED <<tables, held, backoff, now, due, todo, reply, pending, found,
                 history, command, deaths, clock>>

\* ... and commits the new one; nothing keeps a command from storing its own in
\* between.
StoreObservation ==
  /\ phase = "inserting"
  /\ phase' = "storing"
  /\ before' = 0
  /\ LET r == First(todo)
         o == reply[r]
     IN /\ Insert(r, o, before)
        /\ pending' = EventsOf(r, o, before, View(r))
        /\ todo' = IF pending' = <<>> THEN todo \ {First(todo)} ELSE todo
  /\ UNCHANGED <<rule, event, queued, session, backoff, now, due, reply, found,
                 cut, restUntil, relapsed, command, deaths, clock>>

\* create_event_record
StoreEvent ==
  /\ phase = "storing" /\ pending # <<>>
  /\ LET e == Head(pending)
     IN /\ event' = event \union {e}
        /\ found' = [found EXCEPT ![e.rule] = @ \union {e}]
  /\ pending' = Tail(pending)
  /\ todo' = IF pending' = <<>> THEN todo \ {First(todo)} ELSE todo
  /\ UNCHANGED <<rule, records, queued, session, backoff, phase, now, due, reply,
                 before, history, command, deaths, clock>>

\* (history) A merchant whose first error asked for a pause, which counts from the
\* start of the tick.
Rest(m) ==
  IF ErrorsOf(m) # {} /\ reply[First(ErrorsOf(m))].kind = "retryable"
  THEN LET after == reply[First(ErrorsOf(m))].after
       IN now + (IF after > BaseBackoff THEN after ELSE BaseBackoff)
  ELSE restUntil[m]

Reconcile ==
  /\ phase = "storing" /\ todo = {}
  /\ phase' = "notifying"
  /\ backoff' = [m \in Merchant |-> Reconciled(m)]
  /\ restUntil' = [m \in Merchant |-> Rest(m)]
  /\ todo' = {r \in due : Seen(r)}
  /\ UNCHANGED <<tables, session, now, due, reply, before, pending, found, stored,
                 cut, relapsed, command, deaths, clock>>

-----------------------------------------------------------------------------
(* The tick: alerting. *)

Advance ==
  /\ todo' = todo \ {First(todo)}
  /\ UNCHANGED <<rule, records, now, due, reply, before, pending, found, backoff,
                 stored, cut, restUntil, command, deaths, clock>>

\* notify_events_if_allowed decides with the rule as the worker has it; the lookup
\* of the resale price may await.
NotifyChanges ==
  /\ phase = "notifying" /\ todo # {}
  /\ LET r == First(todo)
     IN /\ found[r] # {}
        /\ copy' = Loaded(r)
        /\ IF Allowed(View(r), reply[r]) THEN phase' = "lookup" /\ todo' = todo
                                        ELSE phase' = phase /\ todo' = todo \ {r}
  /\ UNCHANGED <<tables, held, backoff, now, due, reply, before, pending, found,
                 history, command, deaths, clock>>

\* Its alerts, and the purchase attempt of an allowed change.  The cooldown, or a
\* lookup or rendering that raises, keeps some events from getting their
\* delivery; without automatic purchases, or after such an exception, no attempt
\* starts.
AlertChanges ==
  /\ phase = "lookup"
  /\ phase' = "notifying"
  /\ LET r == First(todo)
     IN /\ \E sent \in SUBSET found[r], attempt \in SUBSET {r} :
             /\ queued' = queued \union sent
             /\ held' = held \union attempt
        /\ copy' = Loaded(r)
  /\ Advance
  /\ UNCHANGED <<event, relapsed>>

\* Without a change: nothing can be said of the score, or the resale price comes
\* from a market, or the evaluation raises.
NoEvaluation ==
  /\ phase = "notifying" /\ todo # {} /\ found[First(todo)] = {}
  /\ Advance
  /\ UNCHANGED <<event, queued, session, phase, relapsed>>

\* (slip) The tier of an alert is not written down.
TierUnlessAlerted(old, new) ==
  IF new \in Notifiable /\ old \notin Notifiable THEN old ELSE new

\* What maybe_notify_opportunity_shift persists, whichever way the tier moved.
TierToKeep(old, new) == new

\* maybe_notify_opportunity_shift up to its first commit, which also reloads the
\* rule.
RecordTier ==
  /\ phase = "notifying" /\ todo # {} /\ found[First(todo)] = {}
  /\ First(todo) \in Scored
  /\ LET r   == First(todo)
         old == View(r).tier
     IN \E new \in {"low", "high"} :
          /\ rule' = [rule EXCEPT ![r].tier = TierToKeep(old, new)]
          /\ copy' = [copy EXCEPT ![r] = rule'[r]]
          /\ relapsed' = IF new \in Notifiable THEN relapsed ELSE relapsed \union {r}
          /\ IF new \in Notifiable /\ old \notin Notifiable
             THEN phase' = "shifting" /\ todo' = todo
             ELSE phase' = phase /\ todo' = todo \ {First(todo)}
  /\ UNCHANGED <<records, event, queued, held, backoff, now, due, reply, before,
                 pending, found, stored, cut, restUntil, command, deaths, clock>>

\* Its second half; a second event of this kind for one observation is refused
\* by the table, and the rollback expires the Session.
AlertShift ==
  /\ phase = "shifting"
  /\ LET r == First(todo)
         e == [type |-> "opportunity_score_improved", rule |-> r,
               record |-> Latest(records[r])]
     IN IF e \in event
        THEN /\ copy' = [q \in Rule |-> NoCopy]
             /\ UNCHANGED <<event, queued, relapsed>>
        ELSE /\ event' = event \union {e}
             /\ queued' = queued \union {e}
             /\ relapsed' = relapsed \ {r}
             /\ UNCHANGED copy
  /\ phase' = "notifying"
  /\ Advance
  /\ UNCHANGED held

EndTick ==
  /\ phase = "notifying" /\ todo = {}
  /\ phase' = "idle"
  /\ due' = {} /\ now' = 0
  /\ reply' = [r \in Rule |-> NoReply]
  /\ found' = [r \in Rule |-> {}]
  /\ copy' = [r \in Rule |-> IF r \in held THEN copy[r] ELSE NoCopy]
  /\ UNCHANGED <<tables, held, backoff, todo, before, pending, history, command,
                 deaths, clock>>

-----------------------------------------------------------------------------
(* The rest of the worker, at the awaits of a tick and between ticks. *)

AtAwait == phase \in {"idle", "checking", "lookup"}

\* _backfill_missing_deliveries
Backfill(e) ==
  /\ AtAwait
  /\ e \in event \ queued
  /\ Allowed(View(e.rule), Row(e))
  /\ queued' = queued \union {e}
  /\ copy' = IF e.rule \in held \union due THEN Loaded(e.rule) ELSE copy
  /\ UNCHANGED <<rule, records, event, held, backoff, tick, history, command,
                 deaths, clock>>

\* The claim of a delivery expires every object of the Session.
ExpireAll ==
  /\ AtAwait /\ queued # {}
  /\ \E r \in Rule : copy[r] # NoCopy
  /\ copy' = [r \in Rule |-> NoCopy]
  /\ UNCHANGED <<tables, held, backoff, tick, history, command, deaths, clock>>

PurchaseReads(r) ==
  /\ AtAwait /\ r \in held /\ copy[r] = NoCopy
  /\ copy' = Loaded(r)
  /\ UNCHANGED <<tables, held, backoff, tick, history, command, deaths, clock>>

PurchaseEnds(r) ==
  /\ AtAwait /\ r \in held
  /\ held' = held \ {r}
  /\ copy' = IF r \in due THEN copy ELSE [copy EXCEPT ![r] = NoCopy]
  /\ UNCHANGED <<tables, backoff, tick, history, command, deaths, clock>>

\* A change of which a process has still to commit an event.
Cut(list) == cut \union {<<e.rule, e.record>> : e \in ToSet(list)}

Die ==
  /\ phase # "down" /\ deaths < MaxDeaths
  /\ deaths' = deaths + 1
  /\ phase' = "down" /\ due' = {} /\ todo' = {} /\ before' = 0 /\ pending' = <<>>
  /\ now' = 0
  /\ reply' = [r \in Rule |-> NoReply]
  /\ found' = [r \in Rule |-> {}]
  /\ copy' = [r \in Rule |-> NoCopy]
  /\ held' = {}
  /\ backoff' = [m \in Merchant |-> NoBackoff]
  /\ restUntil' = [m \in Merchant |-> 0]
  /\ cut' = Cut(pending)
  /\ UNCHANGED <<tables, stored, relapsed, command, clock>>

-----------------------------------------------------------------------------
(* The command line. *)

\* enable, disable and edit: a price can be set, not unset, and a target above
\* the maximum is refused.
Edit(r) ==
  /\ edits + tests < MaxCommands /\ edits' = edits + 1
  /\ \/ rule' = [rule EXCEPT ![r].enabled = ~@]
     \/ \E target, max \in Asked \union {0} :
          /\ target # 0 \/ max # 0
          /\ LET t == IF target = 0 THEN rule[r].target ELSE target
                 m == IF max = 0 THEN rule[r].max ELSE max
             IN /\ t # 0 /\ m # 0 => t <= m
                /\ rule' = [rule EXCEPT ![r].target = t, ![r].max = m]
  /\ UNCHANGED <<records, event, queued, session, backoff, tick, history, cli, tests,
                 deaths, clock>>

\* test: run_check_and_store in a process of its own, with the rule as it was
\* when the command read it, then alerts like a tick, without backoff, cooldown
\* or purchase.
TestStarts(r) ==
  /\ edits + tests < MaxCommands /\ tests' = tests + 1
  /\ cli = NoTest
  /\ rule[r].enabled
  /\ Len(records[r]) + 1 < MaxRecords[r]
  /\ cli' = [rule |-> r, view |-> rule[r], step |-> "checking", seen |-> Pending,
             before |-> 0, pending |-> <<>>, record |-> 0]
  /\ UNCHANGED <<tables, session, backoff, tick, history, edits, deaths, clock>>

TestIs(step) == cli.step = step

\* The answer to its check, and the records read right after; a check that fails
\* ends the command.
TestReads ==
  /\ TestIs("checking")
  /\ \/ cli' = NoTest
     \/ \E o \in Offer[cli.rule] :
          cli' = [cli EXCEPT !.step = "inserting", !.seen = Shown(o, clock),
                             !.before = LatestOf(records[cli.rule])]
  /\ UNCHANGED <<tables, session, backoff, tick, history, edits, tests, deaths, clock>>

TestStores ==
  /\ TestIs("inserting")
  /\ Insert(cli.rule, cli.seen, cli.before)
  /\ cli' = [cli EXCEPT !.step = "stored", !.before = 0,
                        !.pending = EventsOf(cli.rule, cli.seen, cli.before, cli.view),
                        !.record = Len(records[cli.rule]) + 1]
  /\ UNCHANGED <<rule, event, queued, session, backoff, tick, cut, restUntil,
                 relapsed, edits, tests, deaths, clock>>

TestStoresEvent ==
  /\ TestIs("stored") /\ cli.pending # <<>>
  /\ event' = event \union {Head(cli.pending)}
  /\ cli' = [cli EXCEPT !.pending = Tail(@)]
  /\ UNCHANGED <<rule, records, queued, session, backoff, tick, history, edits,
                 tests, deaths, clock>>

\* A delivery for each change it committed, sent at once.
TestAlerts ==
  /\ TestIs("stored") /\ cli.pending = <<>>
  /\ Allowed(cli.view, cli.seen)
  /\ \E e \in event \ queued :
       /\ e.rule = cli.rule /\ e.record = cli.record /\ e.type \in ChangeType
       /\ queued' = queued \union {e}
  /\ UNCHANGED <<rule, records, event, session, backoff, tick, history, command,
                 deaths, clock>>

\* purchase-test stores the same and alerts nobody; an exception, or a command
\* interrupted after its last event, alerts of some.
TestEnds ==
  /\ TestIs("stored") /\ cli.pending = <<>>
  /\ cli' = NoTest
  /\ UNCHANGED <<tables, session, backoff, tick, history, edits, tests, deaths, clock>>

\* The command is interrupted.
TestDies ==
  /\ cli # NoTest /\ deaths < MaxDeaths
  /\ deaths' = deaths + 1
  /\ cli' = NoTest
  /\ cut' = Cut(cli.pending)
  /\ UNCHANGED <<tables, session, backoff, tick, stored, restUntil, relapsed, edits,
                 tests, clock>>

\* The synchronous parts of a tick take no time of this clock.
ClockTicks ==
  /\ phase \in {"idle", "checking", "lookup"}
  /\ clock < MaxClock /\ clock' = clock + 1
  /\ UNCHANGED <<tables, session, backoff, tick, history, command, deaths>>

WorkerNext ==
  \/ StartWorker \/ StartTick \/ EmptyTick \/ StartStoring \/ ReadPrevious
  \/ StoreObservation \/ StoreEvent \/ Reconcile \/ NotifyChanges \/ AlertChanges
  \/ NoEvaluation \/ RecordTier \/ AlertShift \/ EndTick \/ ExpireAll
  \/ \E r \in Rule : Check(r) \/ PurchaseReads(r) \/ PurchaseEnds(r)
  \/ \E e \in event : Backfill(e)

CommandLineNext ==
  \/ \E r \in Tested : Edit(r) \/ TestStarts(r)
  \/ TestReads \/ TestStores \/ TestStoresEvent \/ TestAlerts
  \/ TestEnds \/ TestDies

Next == WorkerNext \/ CommandLineNext \/ Die \/ ClockTicks

Spec == Init /\ [][Next]_vars

-----------------------------------------------------------------------------
(* Properties *)

AnEvent == [type : EventType, rule : Rule, record : Nat]

\* The types of the state; an event is of a stored observation, a delivery of a
\* stored event, and no block lasts longer than the cap or what was asked for.
TypeOK ==
  /\ rule \in [Rule -> [enabled : BOOLEAN, target : Price \union {0},
                        max : Price \union {0}, tier : Tier]]
  /\ \A r \in Rule : rule[r].target # 0 /\ rule[r].max # 0
                       => rule[r].target <= rule[r].max
  /\ records \in [Rule -> Seq([at : 0..MaxClock, available : BOOLEAN, price : Price])]
  /\ event \subseteq AnEvent
  /\ \A e \in event : e.record \in DOMAIN records[e.rule]
  /\ queued \subseteq event
  /\ held \subseteq Rule
  /\ \A m \in Merchant :
       /\ backoff[m].failures = 0 => backoff[m].until = 0
       /\ \/ backoff[m].until <= clock + MaxBackoff
          \/ \E after \in RetryAfter : backoff[m].until <= clock + after
  /\ phase \in {"down", "idle", "checking", "storing", "inserting", "notifying",
                "lookup", "shifting"}
  /\ cli # NoTest => /\ cli.rule \in Tested
                     /\ cli.step \in {"checking", "inserting", "stored"}
                     /\ cli.record \in 0..Len(records[cli.rule])
                     /\ ToSet(cli.pending) \subseteq AnEvent
  /\ due \subseteq Rule /\ todo \subseteq due
  /\ \A r \in Rule : reply[r] \in Answers \union Errors \union {Pending, NoReply}
  /\ ToSet(pending) \subseteq AnEvent

In(list, c) == \E i \in DOMAIN list : <<list[i].rule, list[i].record>> = c
InStorage(c) == In(pending, c) \/ (cli # NoTest /\ In(cli.pending, c))

\* Every change of stock that two successive observations of a listing show has
\* its event in the database, whoever made the observations, but for two ways to
\* lose one (engine/monitoring.py::store_check_result): the process that stored
\* the second one, the worker or a test of the command line, died before it had
\* committed the event, which costs a change a death at most; or the worker and a
\* test both read the records before either had stored its observation, which the
\* worker alone never does to itself.
ChangesLeaveEvents ==
  /\ \A c \in changed :
       \/ c \in cut \union raced \/ InStorage(c)
       \/ \E e \in event : /\ e.rule = c[1] /\ e.record = c[2]
                           /\ e.type \in {"stock_available", "stock_unavailable"}
  /\ Cardinality(cut) <= deaths
  /\ raced # {} => tests > 0

\* No tick starts a check of a merchant until the pause is over that the first
\* error of the merchant in an earlier tick asked for, a 429, a timeout or a 5xx,
\* although other rules succeeded on it in the same tick
\* (engine/worker.py::run_monitoring_tick).  The pause counts from the start of
\* that tick, so that after the answer itself the merchant rests for less than it
\* asked for, by what the tick had lasted; the other checks of that tick are not
\* held back, and errors after the first one ask for nothing.
BackedOffMerchantsRest ==
  [][due' # due => \A r \in due' : clock >= restUntil[MerchantOf[r]]]_vars

\* Nobody acts on rule r as it was before.
LetGo(r) == r \notin due /\ copy[r] = NoCopy /\ (cli = NoTest \/ cli.rule # r)

\* Once a rule is disabled, the tick that was checking it is over and neither a
\* purchase attempt nor a test of the command line holds on to how it was, nothing
\* new is sent or bought for it, the recovery of its old events included.
DisabledRulesFallSilent ==
  [][\A r \in Rule :
       ~rule[r].enabled /\ LetGo(r)
         => /\ \A e \in queued' \ queued : e.rule # r
            /\ r \in held' => r \in held]_vars

\* Between two alerts that the opportunity of a rule has become notifiable, it
\* was seen below that at least once, restarts included
\* (app/opportunity_alerts.py::maybe_notify_opportunity_shift).
OpportunityAlertsAlternate ==
  [][\A e \in event' \ event :
       e.type = "opportunity_score_improved" => e.rule \in relapsed]_vars
=============================================================================
