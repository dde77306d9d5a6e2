------------------------ MODULE NotificationDelivery ------------------------
(***************************************************************************)
(* How an alert reaches Discord: the notification part of a tick           *)
(* (app/worker.py, app/notify.py), the cooldown of repeated alerts         *)
(* (notifications/dedup.py), the durable deliveries and their recovery     *)
(* sweep (app/delivery.py), and their rows (database/crud.py).             *)
(*                                                                         *)
(* One event loop runs the ticks, one immediate attempt for each alert it  *)
(* decides to send, and one sweep per tick; sweeps of several ticks can be *)
(* under way together.  An action ends at an await or at a commit.         *)
(*                                                                         *)
(* A Subject stands for the key of the cooldown (rule, event type, price); *)
(* whether the decision engine allows it is the set open, which an edit of *)
(* the rule changes.  A payload is its event.                              *)
(***************************************************************************)
EXTENDS Naturals, FiniteSets, FiniteSetsExt

CONSTANTS
  Event,        \* detected changes, each with the id of its row
  Subject,      \* what an alert is about: (rule, event type, price)
  Sweep,        \* recovery sweeps that can be under way together
  MaxAttempts,  \* _MAX_ATTEMPTS of app/delivery.py
  BaseRetry,    \* _BASE_RETRY_SECONDS
  MaxRetry,     \* _MAX_RETRY_SECONDS
  Cooldown,     \* DEFAULT_COOLDOWN_SECONDS of notifications/dedup.py
  AlertRaises,  \* TRUE: the lookup or the rendering of an alert may raise
  RulesEdited,  \* TRUE: the command line edits rules while the worker runs
  MaxDeaths,    \* bound of the deaths of the worker
  MaxClock,     \* bound of the clock
  NoEvent, NoSubject

ASSUME ConstantsAssumption ==
  /\ MaxAttempts \in Nat \ {0}
  /\ BaseRetry \in Nat /\ MaxRetry \in Nat /\ Cooldown \in Nat
  /\ MaxDeaths \in Nat /\ MaxClock \in Nat
  /\ AlertRaises \in BOOLEAN /\ RulesEdited \in BOOLEAN
  /\ NoEvent \notin Event /\ NoSubject \notin Subject
  /\ Event \intersect Sweep = {}

VARIABLES
  event,     \* the event_records table: what each event is about, and when
  delivery,  \* the notification_deliveries table
  open,      \* the subjects that engine.decision.evaluate() allows now
  phase,     \* the tick loop: down, checking or notifying
  queue,     \* events that the notifying tick, or the sweep, has still to see
  lastSent,  \* the AlertCooldown of the process: 0, or 1 + the time of a send
  task,      \* the immediate attempts (by event) and the sweeps
  posted,    \* how often each alert reached the Discord channel
  deaths,
  clock

vars == <<event, delivery, open, phase, queue, lastSent, task, posted,
          deaths, clock>>

Deliverable == {"pending", "failed_retryable"}
Settled     == {"sent", "failed_permanent"}
Status      == Deliverable \union Settled \union {"sending"}

NoRecord   == [subject |-> NoSubject, at |-> 0]
NoDelivery == [status |-> "none", attempts |-> 0, retryAt |-> 0]
NewRow     == [status |-> "pending", attempts |-> 0, retryAt |-> 0]
NoTask     == [pc |-> "none", todo |-> {}, sending |-> NoEvent, now |-> 0,
               reached |-> FALSE]

Tasks == Event \union Sweep

Init ==
  /\ event = [e \in Event |-> NoRecord]
  /\ delivery = [e \in Event |-> NoDelivery]
  /\ open \in SUBSET Subject
  /\ phase = "down"
  /\ queue = {}
  /\ lastSent = [s \in Subject |-> 0]
  /\ task = [t \in Tasks |-> NoTask]
  /\ posted = [e \in Event |-> 0]
  /\ deaths = 0
  /\ clock = 0

-----------------------------------------------------------------------------
(* The database. *)

\* (slip) No recovery of events without a delivery.
MissingNever == {}

\* list_event_records_missing_delivery
Missing == {e \in Event : event[e] # NoRecord /\ delivery[e] = NoDelivery}

\* (slips) The condition of the claim without one of its conjuncts, and a sweep
\* that only looks at new deliveries.
DueOnRetryTime(e, now) == delivery[e] # NoDelivery /\ delivery[e].retryAt <= now

DueUnlessSettled(e, now) ==
  delivery[e].status \in Deliverable \union {"sending"} /\ delivery[e].retryAt <= now

DueOnStatus(e, now) == delivery[e].status \in Deliverable

DueOnce(e, now) == delivery[e].status = "pending" /\ delivery[e].retryAt <= now

\* The condition of claim_delivery_for_sending and of list_due_deliveries.
Due(e, now) == delivery[e].status \in Deliverable /\ delivery[e].retryAt <= now

\* (slip) Only the first attempt is counted.
ClaimedOnce(d) == [d EXCEPT !.status = "sending", !.attempts = 1]

\* The row as the claim leaves it.
Claimed(d) == [d EXCEPT !.status = "sending", !.attempts = @ + 1]

RetryDelay(n) ==
  LET doubled == BaseRetry * 2^(n - 1)
  IN IF doubled \in 0..MaxRetry THEN doubled ELSE MaxRetry

\* (slip) One attempt too many.
OneMoreLeft(n) == n <= MaxAttempts

AttemptsLeft(n) == n < MaxAttempts

\* (slip) A failure that is not retryable is swallowed.
FailedQuietly(d, retryable, now) ==
  IF retryable /\ AttemptsLeft(d.attempts)
  THEN [d EXCEPT !.status = "failed_retryable",
                 !.retryAt = now + RetryDelay(d.attempts)]
  ELSE [d EXCEPT !.status = "sent"]

\* The row as mark_delivery_failed_retryable or _failed_permanent leaves it.
Failed(d, retryable, now) ==
  IF retryable /\ AttemptsLeft(d.attempts)
  THEN [d EXCEPT !.status = "failed_retryable",
                 !.retryAt = now + RetryDelay(d.attempts)]
  ELSE [d EXCEPT !.status = "failed_permanent", !.retryAt = 0]

-----------------------------------------------------------------------------
(* A tick. *)

\* The sweep lists the events without a delivery and renders them without an
\* await: until it is done nothing else moves on the event loop.
Yielded == \A w \in Sweep : task[w].pc # "backfill"

\* store_check_result commits an event: one check of a rule gives at most one of
\* each type.
Detect(e, s) ==
  /\ phase = "checking" /\ Yielded
  /\ event[e] = NoRecord
  /\ \A f \in queue : event[f].subject # s
  /\ event' = [event EXCEPT ![e] = [subject |-> s, at |-> clock]]
  /\ queue' = queue \union {e}
  /\ UNCHANGED <<delivery, open, phase, lastSent, task, posted, deaths, clock>>

EndChecks ==
  /\ phase = "checking" /\ Yielded
  /\ phase' = "notifying"
  /\ UNCHANGED <<event, delivery, open, queue, lastSent, task, posted,
                 deaths, clock>>

Allowed(e) == event[e].subject \in open

\* AlertCooldown.should_send
CooldownOver(e) ==
  LET last == lastSent[event[e].subject]
  IN last = 0 \/ event[e].at + 1 >= last + Cooldown

\* create_pending_delivery, and the attempt handed to the event loop.
NotifySends(e) ==
  /\ phase = "notifying"
  /\ e \in queue
  /\ Allowed(e) /\ CooldownOver(e)
  /\ lastSent' = [lastSent EXCEPT ![event[e].subject] = event[e].at + 1]
  /\ delivery' = [delivery EXCEPT ![e] = NewRow]
  /\ task' = [task EXCEPT ![e] = [NoTask EXCEPT !.pc = "ready", !.todo = {e}]]
  /\ queue' = queue \ {e}
  /\ UNCHANGED <<event, open, phase, posted, deaths, clock>>

\* The decision refuses, the cooldown holds the alert back, or preparing it
\* raises.
NotifySkips(e) ==
  /\ phase = "notifying"
  /\ e \in queue
  /\ AlertRaises \/ ~Allowed(e) \/ ~CooldownOver(e)
  /\ queue' = queue \ {e}
  /\ UNCHANGED <<event, delivery, open, phase, lastSent, task, posted, deaths, clock>>

\* The tick ends and its sweep starts.
EndTick(w) ==
  /\ phase = "notifying" /\ queue = {}
  /\ task[w] = NoTask
  /\ phase' = "checking"
  /\ task' = [task EXCEPT ![w] = [NoTask EXCEPT !.pc = "backfill", !.now = clock]]
  /\ queue' = Missing
  /\ UNCHANGED <<event, delivery, open, lastSent, posted, deaths, clock>>

-----------------------------------------------------------------------------
(* The attempts and the sweeps. *)

\* One event of _backfill_missing_deliveries, decided on the rule of today.
Backfill(e) ==
  /\ ~Yielded
  /\ e \in queue
  /\ delivery' = IF Allowed(e) THEN [delivery EXCEPT ![e] = NewRow] ELSE delivery
  /\ queue' = queue \ {e}
  /\ UNCHANGED <<event, open, phase, lastSent, task, posted, deaths, clock>>

Remaining(t, todo) ==
  IF todo = {} THEN NoTask
  ELSE [NoTask EXCEPT !.pc = "ready", !.todo = todo, !.now = task[t].now]

\* list_due_deliveries, once the backfill is through.
SweepLists(w) ==
  /\ task[w].pc = "backfill" /\ queue = {}
  /\ task' = [task EXCEPT
                ![w] = Remaining(w, {e \in Event : Due(e, task[w].now)})]
  /\ UNCHANGED <<event, delivery, open, phase, queue, lastSent, posted,
                 deaths, clock>>

\* An immediate attempt reads the clock when it claims; a sweep read it once,
\* before its first attempt.
Now(t) == IF t \in Sweep THEN task[t].now ELSE clock

Claim(t, e) ==
  /\ Yielded
  /\ task[t].pc = "ready" /\ e \in task[t].todo
  /\ Due(e, Now(t))
  /\ delivery' = [delivery EXCEPT ![e] = Claimed(delivery[e])]
  /\ task' = [task EXCEPT ![t] = [pc |-> "sending", todo |-> task[t].todo \ {e},
                                  sending |-> e, now |-> Now(t), reached |-> FALSE]]
  /\ UNCHANGED <<event, open, phase, queue, lastSent, posted, deaths, clock>>

\* Another task claimed the row first, or its backoff has not elapsed.
ClaimMisses(t, e) ==
  /\ Yielded
  /\ task[t].pc = "ready" /\ e \in task[t].todo
  /\ ~Due(e, Now(t))
  /\ task' = [task EXCEPT ![t] = Remaining(t, task[t].todo \ {e})]
  /\ UNCHANGED <<event, delivery, open, phase, queue, lastSent, posted,
                 deaths, clock>>

\* Discord has the message; the worker does not know it yet.
DiscordPosts(t) ==
  /\ task[t].pc = "sending" /\ ~task[t].reached
  /\ posted' = [posted EXCEPT ![task[t].sending] = @ + 1]
  /\ task' = [task EXCEPT ![t].reached = TRUE]
  /\ UNCHANGED <<event, delivery, open, phase, queue, lastSent, deaths, clock>>

SendSucceeds(t) ==
  /\ Yielded
  /\ task[t].pc = "sending" /\ task[t].reached
  /\ delivery' = [delivery EXCEPT ![task[t].sending].status = "sent"]
  /\ task' = [task EXCEPT ![t] = Remaining(t, task[t].todo)]
  /\ UNCHANGED <<event, open, phase, queue, lastSent, posted, deaths, clock>>

\* send_embed raises or its timeout expires, maybe after the message arrived.
SendFails(t, retryable) ==
  /\ Yielded
  /\ task[t].pc = "sending"
  /\ task[t].reached => retryable
  /\ delivery' = [delivery EXCEPT ![task[t].sending] = Failed(@, retryable, task[t].now)]
  /\ task' = [task EXCEPT ![t] = Remaining(t, task[t].todo)]
  /\ UNCHANGED <<event, open, phase, queue, lastSent, posted, deaths, clock>>

-----------------------------------------------------------------------------
(* The process, the command line, the clock. *)

Boot ==
  /\ phase = "down"
  /\ phase' = "checking"
  /\ UNCHANGED <<event, delivery, open, queue, lastSent, task, posted,
                 deaths, clock>>

\* A crash, or the end of a drain that cancels what it waited for: tasks and
\* memory go, rows stay as they are.
Dies ==
  /\ phase # "down" /\ deaths < MaxDeaths
  /\ phase' = "down"
  /\ queue' = {}
  /\ lastSent' = [s \in Subject |-> 0]
  /\ task' = [t \in Tasks |-> NoTask]
  /\ deaths' = deaths + 1
  /\ UNCHANGED <<event, delivery, open, posted, clock>>

\* watch.py enables, disables or re-prices a rule.
EditRule(s) ==
  /\ RulesEdited
  /\ open' = IF s \in open THEN open \ {s} ELSE open \union {s}
  /\ UNCHANGED <<event, delivery, phase, queue, lastSent, task, posted,
                 deaths, clock>>

\* Time matters only to a backoff or a cooldown that has not elapsed.
Awaited ==
  \/ \E e \in Event : delivery[e].retryAt > clock
  \/ \E s \in Subject : lastSent[s] # 0 /\ lastSent[s] + Cooldown > clock + 1

AdvanceClock ==
  /\ clock < MaxClock /\ Awaited
  /\ clock' = clock + 1
  /\ UNCHANGED <<event, delivery, open, phase, queue, lastSent, task,
                 posted, deaths>>

-----------------------------------------------------------------------------
Tick ==
  \/ EndChecks
  \/ \E e \in Event : NotifySends(e) \/ NotifySkips(e)
  \/ \E w \in Sweep : EndTick(w)

Attempt(t) ==
  \/ \E e \in Event : Claim(t, e) \/ ClaimMisses(t, e)
  \/ DiscordPosts(t)
  \/ SendSucceeds(t)
  \/ \E retryable \in BOOLEAN : SendFails(t, retryable)

Backfilling ==
  \/ \E e \in Event : Backfill(e)
  \/ \E w \in Sweep : SweepLists(w)

Next ==
  \/ Tick
  \/ \E e \in Event, s \in Subject : Detect(e, s)
  \/ Backfilling
  \/ \E t \in Tasks : Attempt(t)
  \/ Boot \/ Dies
  \/ \E s \in Subject : EditRule(s)
  \/ AdvanceClock

\* Ticks follow one another, each send ends within its timeout, systemd restarts
\* the worker, and time passes.  The event loop runs what is ready first in, first
\* out: sweeps that keep coming do not keep a task from its turn.
Fairness ==
  /\ WF_vars(Tick)
  /\ WF_vars(Backfilling)
  /\ \A t \in Tasks : SF_vars(Attempt(t))
  /\ WF_vars(Boot)
  /\ WF_vars(AdvanceClock)

Spec == Init /\ [][Next]_vars

FairSpec == Spec /\ Fairness

-----------------------------------------------------------------------------
(* Properties *)

Record == [subject : Subject, at : Nat]
Row    == [status : Status, attempts : 0..MaxAttempts, retryAt : Nat]
Task   == [pc : {"none", "backfill", "ready", "sending"}, todo : SUBSET Event,
           sending : Event \union {NoEvent}, now : Nat, reached : BOOLEAN]

(* Every variable stays in its domain; in particular attempt_count never
   exceeds _MAX_ATTEMPTS, whoever makes the attempts and however they fail. *)
TypeOK ==
  /\ event \in [Event -> Record \union {NoRecord}]
  /\ delivery \in [Event -> Row \union {NoDelivery}]
  /\ open \subseteq Subject
  /\ phase \in {"down", "checking", "notifying"}
  /\ queue \subseteq Event
  /\ lastSent \in [Subject -> Nat]
  /\ task \in [Tasks -> Task]
  /\ posted \in [Event -> Nat]
  /\ deaths \in 0..MaxDeaths
  /\ clock \in 0..MaxClock

(* The immediate attempt and any number of overlapping sweeps never send one
   alert at the same time, and the row of an alert being sent says so: the
   conditional UPDATE of claim_delivery_for_sending is a lock. *)
OneSender ==
  \A t \in Tasks : task[t].pc = "sending" =>
    /\ delivery[task[t].sending].status = "sending"
    /\ \A u \in Tasks \ {t} : task[u].sending # task[t].sending

(* "Nothing ever moves backward out of sent", nor out of failed_permanent: no
   late task, stale sweep or restart touches a settled row. *)
SettledRowsStay ==
  [][\A e \in Event :
       delivery[e].status \in Settled => delivery'[e] = delivery[e]]_vars

(* The channel gets an alert at most once per counted attempt, never before
   the attempt is on disk, and a row says sent only if the channel got it. *)
PostsWithinAttempts ==
  \A e \in Event :
    /\ posted[e] <= delivery[e].attempts
    /\ delivery[e].status = "sent" => posted[e] > 0
    /\ \A t \in Tasks :
         task[t].sending = e /\ ~task[t].reached => posted[e] < delivery[e].attempts

(* A failed attempt is not repeated before its backoff has elapsed, though
   several sweeps hold the row in their lists and their clocks are stale. *)
RetriesWait ==
  [][\A e \in Event :
       delivery'[e].attempts > delivery[e].attempts
         => delivery[e].retryAt <= clock]_vars

(* An alert that is queued is sent or given up, unless the worker died while
   it was sending it: retries, restarts and sweeps leave no other way to stay. *)
AlertsSettle ==
  \A e \in Event :
    delivery[e].status \in Deliverable
      ~> \/ delivery[e].status \in Settled
         \/ /\ delivery[e].status = "sending"
            /\ \A t \in Tasks : task[t].sending # e

(* A recorded event that its rule allows gets its delivery, at the tick or by a
   later backfill, after whatever crash or failed lookup. *)
AllowedEventsQueued ==
  \A e \in Event :
    event[e] # NoRecord /\ Allowed(e) ~> delivery[e] # NoDelivery \/ ~Allowed(e)

(* The deliveries implement the abstract Outbox. *)
WithStatus(S) == {e \in Event : delivery[e].status \in S}

AlertOutbox ==
  INSTANCE Outbox WITH
    MaxPosts <- MaxAttempts,
    queued   <- WithStatus(Deliverable \union {"sending"}),
    sent     <- WithStatus({"sent"}),
    givenUp  <- WithStatus({"failed_permanent"}),
    posts    <- posted

ImplementsOutbox == AlertOutbox!Spec

(* database/models.py: a crash between "event persisted" and "Discord sent" is
   "recoverable without either losing the alert or sending it twice".  The code
   breaks this: nothing ever takes a row out of "sending" after a restart. *)
InterruptedSendsRecover ==
  \A e \in Event : delivery[e].status = "sending" ~> delivery[e].status \in Settled

(* app/notify.py: "same rule + same event + same price inside the cooldown is
   not news".  The code breaks this: the sweep at the end of the tick takes an
   alert that the cooldown held back for one that a crash interrupted. *)
RepeatsWaitForCooldown ==
  \A e, f \in Event :
    /\ e # f
    /\ delivery[e] # NoDelivery /\ delivery[f] # NoDelivery
    /\ event[e].subject = event[f].subject
    => \/ event[e].at + Cooldown <= event[f].at
       \/ event[f].at + Cooldown <= event[e].at
=============================================================================
