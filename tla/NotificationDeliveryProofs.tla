--------------------- MODULE NotificationDeliveryProofs ---------------------
(***************************************************************************)
(* Proofs about NotificationDelivery, for every number of events and       *)
(* sweeps, every delay and every number of attempts.                       *)
(***************************************************************************)
EXTENDS NotificationDelivery, TLAPS

-----------------------------------------------------------------------------
(* The inductive invariant. *)

\* A task names the event it is sending, and only then.
SendingNamed ==
  \A t \in Tasks : task[t].pc = "sending" <=> task[t].sending \in Event

\* A row that can be claimed has an attempt left.
AttemptsRemain ==
  \A e \in Event : delivery[e].status \in Deliverable => delivery[e].attempts < MaxAttempts

\* What a tick or a sweep still has to see is recorded and has no delivery.
QueueUnsent ==
  \A e \in queue : event[e] \in Record /\ delivery[e] = NoDelivery

RecordsFirst ==
  \A e \in Event : event[e] = NoRecord => delivery[e] = NoDelivery

\* The immediate attempt of an event starts after its delivery exists.
AttemptHasRow ==
  \A e \in Event : task[e].pc # "none" => delivery[e] # NoDelivery

ReachedPosted ==
  \A t \in Tasks :
    task[t].pc = "sending" /\ task[t].reached => posted[task[t].sending] > 0

Inv ==
  /\ TypeOK
  /\ SendingNamed
  /\ OneSender
  /\ PostsWithinAttempts
  /\ AttemptsRemain
  /\ QueueUnsent
  /\ RecordsFirst
  /\ AttemptHasRow
  /\ ReachedPosted

-----------------------------------------------------------------------------
(* Lemmas *)

LEMMA NothingIsARow ==
  /\ NoDelivery \notin Row /\ NoRecord \notin Record
  /\ NoTask \in Task /\ NewRow \in Row
  /\ NoTask.pc = "none" /\ NoTask.sending = NoEvent /\ ~NoTask.reached
  BY ConstantsAssumption
     DEF NoDelivery, Row, Status, Deliverable, Settled, NoRecord, Record, NoTask, Task, NewRow

(* A task that goes on to its next row, or ends, sends nothing. *)
LEMMA RemainingIdle ==
  ASSUME TypeOK, NEW t \in Tasks, NEW todo \in SUBSET Event
  PROVE  /\ Remaining(t, todo) \in Task
         /\ Remaining(t, todo).pc \in {"none", "ready"}
         /\ Remaining(t, todo).sending = NoEvent
  <1>1. task[t] \in Task /\ task[t].now \in Nat
    BY DEF TypeOK, Task
  <1>2. QED
    BY <1>1, NothingIsARow DEF Remaining, NoTask, Task

(* The row of a task that is sending. *)
LEMMA SendingRow ==
  ASSUME Inv, NEW t \in Tasks, task[t].pc = "sending"
  PROVE  /\ task[t] \in Task
         /\ task[t].sending \in Event
         /\ delivery[task[t].sending] \in Row
         /\ delivery[task[t].sending].status = "sending"
         /\ \A u \in Tasks \ {t} : task[u].sending # task[t].sending
  <1>1. task[t].sending \in Event
    BY DEF Inv, SendingNamed
  <1>2. /\ delivery[task[t].sending].status = "sending"
        /\ \A u \in Tasks \ {t} : task[u].sending # task[t].sending
    BY DEF Inv, OneSender
  <1>3. QED
    BY <1>1, <1>2 DEF Inv, TypeOK, NoDelivery

LEMMA DelayTyping ==
  ASSUME NEW n
  PROVE  RetryDelay(n) \in Nat
  BY ConstantsAssumption DEF RetryDelay

-----------------------------------------------------------------------------
(* The invariant holds initially. *)

LEMMA InvInit == Init => Inv
  <1> SUFFICES ASSUME Init PROVE Inv
    OBVIOUS
  <1>1. /\ delivery = [e \in Event |-> NoDelivery]
        /\ task = [t \in Tasks |-> NoTask]
        /\ event = [e \in Event |-> NoRecord]
        /\ posted = [e \in Event |-> 0]
        /\ queue = {}
    BY DEF Init
  <1>2. TypeOK
    BY <1>1, NothingIsARow, ConstantsAssumption DEF Init, TypeOK
  <1>3. SendingNamed /\ OneSender /\ ReachedPosted
    BY <1>1, NothingIsARow, ConstantsAssumption DEF SendingNamed, OneSender, ReachedPosted
  <1>4. PostsWithinAttempts /\ AttemptsRemain
    BY <1>1, ConstantsAssumption, NothingIsARow
       DEF PostsWithinAttempts, AttemptsRemain, NoDelivery, Deliverable
  <1>5. QueueUnsent /\ RecordsFirst /\ AttemptHasRow
    BY <1>1, NothingIsARow DEF QueueUnsent, RecordsFirst, AttemptHasRow, Tasks
  <1>6. QED
    BY <1>2, <1>3, <1>4, <1>5 DEF Inv

-----------------------------------------------------------------------------
(* The steps of a tick. *)

LEMMA DetectInv ==
  ASSUME Inv, NEW e \in Event, NEW s \in Subject, Detect(e, s)
  PROVE  Inv'
  <1>1. [subject |-> s, at |-> clock] \in Record
    BY DEF Inv, TypeOK, Record
  <1>2. TypeOK'
    BY <1>1 DEF Inv, TypeOK, Detect
  <1>3. delivery[e] = NoDelivery
    BY DEF Inv, RecordsFirst, Detect
  <1>4. QueueUnsent' /\ RecordsFirst'
    BY <1>1, <1>3, NothingIsARow DEF Inv, TypeOK, QueueUnsent, RecordsFirst, Detect
  <1>5. /\ SendingNamed' /\ OneSender' /\ PostsWithinAttempts'
        /\ AttemptsRemain' /\ AttemptHasRow' /\ ReachedPosted'
    BY DEF Inv, SendingNamed, OneSender, PostsWithinAttempts, AttemptsRemain,
           AttemptHasRow, ReachedPosted, Detect
  <1>6. QED
    BY <1>2, <1>4, <1>5 DEF Inv

(* A new row for an event that has none, and maybe its immediate attempt. *)
LEMMA NewRowInv ==
  ASSUME Inv, NEW e \in queue,
         delivery' = [delivery EXCEPT ![e] = NewRow],
         queue' = queue \ {e},
         \/ UNCHANGED task
         \/ task' = [task EXCEPT ![e] = [NoTask EXCEPT !.pc = "ready", !.todo = {e}]],
         UNCHANGED <<event, posted>>,
         lastSent' \in [Subject -> Nat],
         UNCHANGED <<open, phase, deaths, clock>>
  PROVE  Inv'
  <1>1. e \in Event /\ delivery[e] = NoDelivery /\ event[e] \in Record
    BY DEF Inv, TypeOK, QueueUnsent
  <1>2. [NoTask EXCEPT !.pc = "ready", !.todo = {e}] \in Task
    BY <1>1 DEF NoTask, Task
  <1>3. TypeOK'
    BY <1>1, <1>2, NothingIsARow DEF Inv, TypeOK
  <1>4. task[e].pc = "none" /\ task[e].sending = NoEvent
    BY <1>1, ConstantsAssumption
       DEF Inv, AttemptHasRow, SendingNamed, TypeOK, Task, Tasks
  <1>5. \A t \in Tasks : /\ task'[t].sending = task[t].sending
                         /\ (task'[t].pc = "sending") <=> (task[t].pc = "sending")
                         /\ task'[t].pc = "sending" => task'[t] = task[t]
    <2>1. CASE UNCHANGED task
      BY <2>1
    <2>2. CASE task' = [task EXCEPT ![e] = [NoTask EXCEPT !.pc = "ready", !.todo = {e}]]
      <3>1. /\ [NoTask EXCEPT !.pc = "ready", !.todo = {e}].pc = "ready"
            /\ [NoTask EXCEPT !.pc = "ready", !.todo = {e}].sending = NoEvent
        BY DEF NoTask
      <3>2. task'[e].pc = "ready" /\ task'[e].sending = NoEvent
        BY <1>1, <2>2, <3>1 DEF Inv, TypeOK, Tasks
      <3>3. \A t \in Tasks \ {e} : task'[t] = task[t]
        BY <2>2 DEF Inv, TypeOK
      <3>4. QED
        BY <1>4, <3>2, <3>3
    <2>3. QED
      BY <2>1, <2>2
  <1>6. \A t \in Tasks : task[t].pc = "sending" => task[t].sending # e
    <2> SUFFICES ASSUME NEW t \in Tasks, task[t].pc = "sending" PROVE task[t].sending # e
      OBVIOUS
    <2>1. delivery[task[t].sending].status = "sending"
      BY SendingRow
    <2>2. QED
      BY <1>1, <2>1 DEF NoDelivery
  <1>7. SendingNamed' /\ OneSender' /\ ReachedPosted'
    BY <1>1, <1>5, <1>6 DEF Inv, TypeOK, SendingNamed, OneSender, ReachedPosted
  <1>8. posted[e] = 0
    BY <1>1 DEF Inv, TypeOK, PostsWithinAttempts, NoDelivery
  <1>9. PostsWithinAttempts'
    <2> SUFFICES ASSUME NEW f \in Event
                 PROVE  /\ posted[f] <= delivery'[f].attempts
                        /\ delivery'[f].status = "sent" => posted[f] > 0
                        /\ \A t \in Tasks :
                             task'[t].sending = f /\ ~task'[t].reached
                               => posted[f] < delivery'[f].attempts
      BY DEF PostsWithinAttempts
    <2>1. CASE f = e
      <3>1. delivery'[f] = NewRow
        BY <2>1, <1>1 DEF Inv, TypeOK
      <3>2. \A t \in Tasks : task'[t].sending # e
        BY <1>1, <1>5, <1>6 DEF Inv, SendingNamed
      <3>3. QED
        BY <2>1, <3>1, <3>2, <1>8 DEF NewRow
    <2>2. CASE f # e
      <3>1. delivery'[f] = delivery[f]
        BY <2>2, <1>1 DEF Inv, TypeOK
      <3>2. \A t \in Tasks : task'[t].sending = f => task'[t] = task[t]
        BY <1>5 DEF Inv, SendingNamed
      <3>3. QED
        BY <3>1, <3>2 DEF Inv, PostsWithinAttempts
    <2>3. QED
      BY <2>1, <2>2
  <1>10. AttemptsRemain'
    BY <1>1, ConstantsAssumption DEF Inv, TypeOK, AttemptsRemain, NewRow
  <1>11. QueueUnsent' /\ RecordsFirst'
    BY <1>1, NothingIsARow DEF Inv, TypeOK, QueueUnsent, RecordsFirst
  <1>12. AttemptHasRow'
    <2>1. delivery'[e] # NoDelivery
      BY <1>1, NothingIsARow DEF Inv, TypeOK
    <2>2. \A f \in Event \ {e} : task'[f] = task[f] /\ delivery'[f] = delivery[f]
      BY <1>1 DEF Inv, TypeOK, Tasks
    <2>3. QED
      BY <2>1, <2>2 DEF Inv, AttemptHasRow
  <1>13. QED
    BY <1>3, <1>7, <1>9, <1>10, <1>11, <1>12 DEF Inv

(* Steps that touch neither table's row nor the channel, and let tasks only end
   or go idle. *)
LEMMA IdleInv ==
  ASSUME Inv, TypeOK', QueueUnsent',
         UNCHANGED <<event, delivery, posted>>,
         \A t \in Tasks :
           \/ task'[t] = task[t]
           \/ task'[t].pc # "sending" /\ task'[t].sending = NoEvent,
         \A e \in Event : task'[e].pc # "none" => delivery[e] # NoDelivery
  PROVE  Inv'
  <1>1. SendingNamed' /\ OneSender' /\ ReachedPosted'
    BY ConstantsAssumption DEF Inv, SendingNamed, OneSender, ReachedPosted
  <1>2. PostsWithinAttempts' /\ AttemptsRemain'
    BY ConstantsAssumption DEF Inv, PostsWithinAttempts, AttemptsRemain
  <1>3. RecordsFirst' /\ AttemptHasRow'
    BY DEF Inv, RecordsFirst, AttemptHasRow
  <1>4. QED
    BY <1>1, <1>2, <1>3 DEF Inv

LEMMA TickInv ==
  ASSUME Inv, Tick
  PROVE  Inv'
  <1>1. CASE EndChecks
    <2>1. TypeOK' /\ QueueUnsent'
      BY <1>1 DEF Inv, TypeOK, QueueUnsent, EndChecks
    <2>2. QED
      BY <1>1, <2>1, IdleInv DEF EndChecks, Inv, AttemptHasRow
  <1>2. ASSUME NEW e \in Event, NotifySends(e)
        PROVE  Inv'
    <2>1. event[e].at + 1 \in Nat
      BY <1>2 DEF NotifySends, Inv, QueueUnsent, Record
    <2>2. lastSent' \in [Subject -> Nat]
      BY <1>2, <2>1 DEF NotifySends, Inv, TypeOK
    <2>3. QED
      BY <1>2, <2>2, NewRowInv DEF NotifySends
  <1>3. ASSUME NEW e \in Event, NotifySkips(e)
        PROVE  Inv'
    <2>1. TypeOK' /\ QueueUnsent'
      BY <1>3 DEF Inv, TypeOK, QueueUnsent, NotifySkips
    <2>2. QED
      BY <1>3, <2>1, IdleInv DEF NotifySkips, Inv, AttemptHasRow
  <1>4. ASSUME NEW w \in Sweep, EndTick(w)
        PROVE  Inv'
    <2>1. w \in Tasks /\ w \notin Event
      BY ConstantsAssumption DEF Tasks
    <2>2. [NoTask EXCEPT !.pc = "backfill", !.now = clock] \in Task
      <3>1. clock \in Nat
        BY ConstantsAssumption DEF Inv, TypeOK
      <3>2. QED
        BY <3>1 DEF NoTask, Task
    <2>3. TypeOK'
      BY <1>4, <2>2 DEF EndTick, Inv, TypeOK, Missing
    <2>4. QueueUnsent'
      BY <1>4 DEF EndTick, Inv, TypeOK, QueueUnsent, Missing
    <2>5. \A t \in Tasks : \/ task'[t] = task[t]
                           \/ task'[t].pc # "sending" /\ task'[t].sending = NoEvent
      BY <1>4, <2>1 DEF EndTick, Inv, TypeOK, NoTask
    <2>6. \A e \in Event : task'[e].pc # "none" => delivery[e] # NoDelivery
      BY <1>4, <2>1 DEF EndTick, Inv, TypeOK, AttemptHasRow, Tasks
    <2>7. QED
      BY <1>4, <2>3, <2>4, <2>5, <2>6, IdleInv DEF EndTick
  <1>5. QED
    BY <1>1, <1>2, <1>3, <1>4 DEF Tick

LEMMA BackfillingInv ==
  ASSUME Inv, Backfilling
  PROVE  Inv'
  <1>1. ASSUME NEW e \in Event, Backfill(e)
        PROVE  Inv'
    <2>1. CASE Allowed(e)
      BY <1>1, <2>1, NewRowInv DEF Backfill, Inv, TypeOK
    <2>2. CASE ~Allowed(e)
      <3>1. TypeOK' /\ QueueUnsent'
        BY <1>1, <2>2 DEF Inv, TypeOK, QueueUnsent, Backfill
      <3>2. QED
        BY <1>1, <2>2, <3>1, IdleInv DEF Backfill, Inv, AttemptHasRow
    <2>3. QED
      BY <2>1, <2>2
  <1>2. ASSUME NEW w \in Sweep, SweepLists(w)
        PROVE  Inv'
    <2>1. w \in Tasks /\ w \notin Event
      BY ConstantsAssumption DEF Tasks
    <2> DEFINE todo == {e \in Event : Due(e, task[w].now)}
    <2>2. /\ Remaining(w, todo) \in Task
          /\ Remaining(w, todo).pc \in {"none", "ready"}
          /\ Remaining(w, todo).sending = NoEvent
      BY <2>1, RemainingIdle DEF Inv
    <2>3. task' = [task EXCEPT ![w] = Remaining(w, todo)]
      BY <1>2 DEF SweepLists
    <2> HIDE DEF todo
    <2>4. TypeOK' /\ QueueUnsent'
      BY <1>2, <2>2, <2>3 DEF Inv, TypeOK, QueueUnsent, SweepLists
    <2>5. \A t \in Tasks : \/ task'[t] = task[t]
                           \/ task'[t].pc # "sending" /\ task'[t].sending = NoEvent
      BY <2>1, <2>2, <2>3 DEF Inv, TypeOK
    <2>6. \A e \in Event : task'[e].pc # "none" => delivery[e] # NoDelivery
      BY <2>1, <2>3 DEF Inv, TypeOK, AttemptHasRow, Tasks
    <2>7. QED
      BY <1>2, <2>4, <2>5, <2>6, IdleInv DEF SweepLists
  <1>3. QED
    BY <1>1, <1>2 DEF Backfilling

-----------------------------------------------------------------------------
(* The steps of an attempt or a sweep. *)

LEMMA ClaimMissesInv ==
  ASSUME Inv, NEW t \in Tasks, NEW e \in Event, ClaimMisses(t, e)
  PROVE  Inv'
  <1> DEFINE todo == task[t].todo \ {e}
  <1>1. todo \in SUBSET Event
    BY DEF Inv, TypeOK, Task
  <1>2. /\ Remaining(t, todo) \in Task
        /\ Remaining(t, todo).pc \in {"none", "ready"}
        /\ Remaining(t, todo).sending = NoEvent
    BY <1>1, RemainingIdle DEF Inv
  <1>3. task' = [task EXCEPT ![t] = Remaining(t, todo)]
    BY DEF ClaimMisses
  <1> HIDE DEF todo
  <1>4. TypeOK' /\ QueueUnsent'
    BY <1>2, <1>3 DEF Inv, TypeOK, QueueUnsent, ClaimMisses
  <1>5. \A u \in Tasks : \/ task'[u] = task[u]
                         \/ task'[u].pc # "sending" /\ task'[u].sending = NoEvent
    BY <1>2, <1>3 DEF Inv, TypeOK
  <1>6. \A f \in Event : task'[f].pc # "none" => delivery[f] # NoDelivery
    BY <1>3 DEF Inv, TypeOK, AttemptHasRow, Tasks, ClaimMisses
  <1>7. QED
    BY <1>4, <1>5, <1>6, IdleInv DEF ClaimMisses

LEMMA ClaimInv ==
  ASSUME Inv, NEW t \in Tasks, NEW e \in Event, Claim(t, e)
  PROVE  Inv'
  <1>1. /\ delivery[e] \in Row /\ delivery[e].status \in Deliverable
        /\ delivery[e].attempts \in Nat /\ delivery[e].attempts + 1 \in 0..MaxAttempts
    <2>1. delivery[e].status \in Deliverable /\ delivery[e].attempts < MaxAttempts
      BY DEF Inv, AttemptsRemain, Claim, Due
    <2>2. delivery[e] \in Row
      BY <2>1 DEF Inv, TypeOK, NoDelivery, Deliverable
    <2>3. QED
      BY <2>1, <2>2, ConstantsAssumption DEF Row
  <1> DEFINE r == Claimed(delivery[e])
             k == [pc |-> "sending", todo |-> task[t].todo \ {e}, sending |-> e,
                   now |-> Now(t), reached |-> FALSE]
  <1>2. r \in Row /\ r.status = "sending" /\ r.attempts = delivery[e].attempts + 1
    BY <1>1 DEF Row, Claimed, Status
  <1>3. k \in Task /\ k.pc = "sending" /\ k.sending = e /\ ~k.reached
    <2>1. Now(t) \in Nat
      BY ConstantsAssumption DEF Inv, TypeOK, Now, Task
    <2>2. task[t].todo \ {e} \in SUBSET Event
      BY DEF Inv, TypeOK, Task
    <2>3. QED
      BY <2>1, <2>2 DEF Task
  <1>4. /\ delivery' = [delivery EXCEPT ![e] = r]
        /\ task' = [task EXCEPT ![t] = k]
        /\ UNCHANGED <<event, open, phase, queue, lastSent, posted, deaths, clock>>
    BY DEF Claim
  <1> HIDE DEF r, k
  <1>5. /\ delivery'[e] = r /\ task'[t] = k
        /\ \A f \in Event \ {e} : delivery'[f] = delivery[f]
        /\ \A u \in Tasks \ {t} : task'[u] = task[u]
    BY <1>4 DEF Inv, TypeOK
  <1>6. \A u \in Tasks : task[u].sending # e
    BY <1>1 DEF Inv, SendingNamed, OneSender, Deliverable
  <1>7. TypeOK'
    BY <1>2, <1>3, <1>4 DEF Inv, TypeOK
  <1>8. SendingNamed' /\ OneSender'
    BY <1>2, <1>3, <1>5, <1>6 DEF Inv, SendingNamed, OneSender
  <1>9. ReachedPosted'
    BY <1>3, <1>4, <1>5 DEF Inv, ReachedPosted
  <1>10. PostsWithinAttempts'
    <2> SUFFICES ASSUME NEW f \in Event
                 PROVE  /\ posted[f] <= delivery'[f].attempts
                        /\ delivery'[f].status = "sent" => posted[f] > 0
                        /\ \A u \in Tasks :
                             task'[u].sending = f /\ ~task'[u].reached
                               => posted[f] < delivery'[f].attempts
      BY <1>4 DEF PostsWithinAttempts
    <2>1. CASE f = e
      <3>1. posted[f] <= delivery[f].attempts /\ posted[f] \in Nat
        BY DEF Inv, TypeOK, PostsWithinAttempts
      <3>2. QED
        BY <1>1, <1>2, <1>5, <2>1, <3>1
    <2>2. CASE f # e
      BY <1>3, <1>5, <2>2 DEF Inv, PostsWithinAttempts
    <2>3. QED
      BY <2>1, <2>2
  <1>11. AttemptsRemain'
    BY <1>2, <1>5 DEF Inv, AttemptsRemain, Deliverable
  <1>12. QueueUnsent' /\ RecordsFirst' /\ AttemptHasRow'
    <2>1. delivery[e] # NoDelivery /\ delivery'[e] # NoDelivery
      BY <1>1, <1>2, <1>5, NothingIsARow
    <2>2. QED
      BY <1>4, <1>5, <2>1
         DEF Inv, TypeOK, QueueUnsent, RecordsFirst, AttemptHasRow, Claim, Tasks
  <1>13. QED
    BY <1>7, <1>8, <1>9, <1>10, <1>11, <1>12 DEF Inv

LEMMA DiscordPostsInv ==
  ASSUME Inv, NEW t \in Tasks, DiscordPosts(t)
  PROVE  Inv'
  <1> DEFINE e == task[t].sending
  <1>1. /\ task[t] \in Task /\ e \in Event /\ task[t].sending = e
        /\ task[t].pc = "sending" /\ ~task[t].reached
        /\ \A u \in Tasks \ {t} : task[u].sending # e
    BY SendingRow DEF DiscordPosts
  <1>2. [task[t] EXCEPT !.reached = TRUE] \in Task
    BY <1>1 DEF Task
  <1>3. /\ task'[t].pc = "sending" /\ task'[t].sending = e /\ task'[t].reached
        /\ \A u \in Tasks \ {t} : task'[u] = task[u]
    BY <1>1 DEF Inv, TypeOK, Task, DiscordPosts
  <1>4. /\ posted[e] \in Nat /\ posted[e] < delivery[e].attempts
        /\ delivery[e].attempts \in Nat
    BY <1>1, ConstantsAssumption DEF Inv, TypeOK, PostsWithinAttempts, Row, NoDelivery
  <1>5. /\ posted'[e] = posted[e] + 1
        /\ \A f \in Event \ {e} : posted'[f] = posted[f]
        /\ posted' \in [Event -> Nat]
    BY <1>1, <1>4 DEF Inv, TypeOK, DiscordPosts
  <1>6. UNCHANGED <<event, delivery, queue>>
    BY DEF DiscordPosts
  <1> HIDE DEF e
  <1>7. TypeOK'
    BY <1>1, <1>2, <1>5 DEF Inv, TypeOK, DiscordPosts
  <1>8. SendingNamed' /\ OneSender'
    BY <1>1, <1>3, <1>6 DEF Inv, SendingNamed, OneSender
  <1>9. ReachedPosted'
    <2> SUFFICES ASSUME NEW u \in Tasks, task'[u].pc = "sending", task'[u].reached
                 PROVE  posted'[task'[u].sending] > 0
      BY DEF ReachedPosted
    <2>1. CASE u = t
      BY <1>3, <1>4, <1>5, <2>1
    <2>2. CASE u # t
      <3>1. task'[u] = task[u] /\ task[u].sending \in Event /\ task[u].sending # e
        BY <1>1, <1>3, <2>2 DEF Inv, SendingNamed
      <3>2. QED
        BY <1>5, <3>1 DEF Inv, ReachedPosted
    <2>3. QED
      BY <2>1, <2>2
  <1>10. PostsWithinAttempts'
    <2> SUFFICES ASSUME NEW f \in Event
                 PROVE  /\ posted'[f] <= delivery[f].attempts
                        /\ delivery[f].status = "sent" => posted'[f] > 0
                        /\ \A u \in Tasks :
                             task'[u].sending = f /\ ~task'[u].reached
                               => posted'[f] < delivery[f].attempts
      BY <1>6 DEF PostsWithinAttempts
    <2>1. CASE f = e
      BY <1>1, <1>3, <1>4, <1>5, <2>1
    <2>2. CASE f # e
      <3>1. posted'[f] = posted[f]
        BY <1>5, <2>2
      <3>2. \A u \in Tasks : task'[u].sending = f => task'[u] = task[u]
        BY <1>3, <2>2
      <3>3. QED
        BY <3>1, <3>2 DEF Inv, PostsWithinAttempts
    <2>3. QED
      BY <2>1, <2>2
  <1>11. AttemptsRemain' /\ QueueUnsent' /\ RecordsFirst'
    BY <1>6 DEF Inv, AttemptsRemain, QueueUnsent, RecordsFirst
  <1>12. AttemptHasRow'
    <2>1. \A u \in Tasks : (task'[u].pc = "none") <=> (task[u].pc = "none")
      BY <1>1, <1>3
    <2>2. QED
      BY <1>6, <2>1 DEF Inv, AttemptHasRow, Tasks
  <1>13. QED
    BY <1>7, <1>8, <1>9, <1>10, <1>11, <1>12 DEF Inv

(* The end of a send: the row takes a status after sending, the task goes on. *)
LEMMA SendEndsInv ==
  ASSUME Inv, NEW t \in Tasks, task[t].pc = "sending",
         NEW r \in Row,
         r.status \in {"sent", "failed_retryable", "failed_permanent"},
         r.attempts = delivery[task[t].sending].attempts,
         r.status = "sent" => task[t].reached,
         r.status = "failed_retryable" => r.attempts < MaxAttempts,
         delivery' = [delivery EXCEPT ![task[t].sending] = r],
         task' = [task EXCEPT ![t] = Remaining(t, task[t].todo)],
         UNCHANGED <<event, open, phase, queue, lastSent, posted, deaths, clock>>
  PROVE  Inv'
  <1> DEFINE e == task[t].sending
             k == Remaining(t, task[t].todo)
  <1>1. /\ task[t] \in Task /\ e \in Event /\ task[t].sending = e
        /\ delivery[e] \in Row /\ delivery[e].status = "sending"
        /\ \A u \in Tasks \ {t} : task[u].sending # e
    BY SendingRow
  <1>2. k \in Task /\ k.pc \in {"none", "ready"} /\ k.sending = NoEvent
    BY <1>1, RemainingIdle DEF Inv, Task
  <1>3. /\ delivery' = [delivery EXCEPT ![e] = r]
        /\ task' = [task EXCEPT ![t] = k]
        /\ r.attempts = delivery[e].attempts
    OBVIOUS
  <1> HIDE DEF e, k
  <1>4. /\ delivery'[e] = r /\ task'[t] = k
        /\ \A f \in Event \ {e} : delivery'[f] = delivery[f]
        /\ \A u \in Tasks \ {t} : task'[u] = task[u]
    BY <1>1, <1>3 DEF Inv, TypeOK
  <1>5. TypeOK'
    BY <1>1, <1>2, <1>3 DEF Inv, TypeOK
  <1>6. SendingNamed'
    BY <1>2, <1>4, ConstantsAssumption DEF Inv, SendingNamed
  <1>7. OneSender'
    <2> SUFFICES ASSUME NEW u \in Tasks, task'[u].pc = "sending"
                 PROVE  /\ delivery'[task'[u].sending].status = "sending"
                        /\ \A v \in Tasks \ {u} : task'[v].sending # task'[u].sending
      BY DEF OneSender
    <2>1. u # t /\ task'[u] = task[u]
      BY <1>2, <1>4
    <2>2. task[u].sending \in Event \ {e}
      BY <1>1, <2>1 DEF Inv, SendingNamed
    <2>3. QED
      BY <1>2, <1>4, <2>1, <2>2, ConstantsAssumption DEF Inv, OneSender
  <1>8. ReachedPosted'
    BY <1>2, <1>4 DEF Inv, ReachedPosted
  <1>9. PostsWithinAttempts'
    <2> SUFFICES ASSUME NEW f \in Event
                 PROVE  /\ posted[f] <= delivery'[f].attempts
                        /\ delivery'[f].status = "sent" => posted[f] > 0
                        /\ \A u \in Tasks :
                             task'[u].sending = f /\ ~task'[u].reached
                               => posted[f] < delivery'[f].attempts
      BY DEF PostsWithinAttempts
    <2>1. \A u \in Tasks : task'[u].sending = f => task'[u] = task[u]
      BY <1>2, <1>4, ConstantsAssumption
    <2>2. delivery'[f].attempts = delivery[f].attempts
      BY <1>3, <1>4
    <2>3. delivery'[f].status = "sent" => posted[f] > 0
      <3>1. CASE f = e
        BY <1>1, <1>4, <3>1 DEF Inv, ReachedPosted
      <3>2. CASE f # e
        BY <1>4, <3>2 DEF Inv, PostsWithinAttempts
      <3>3. QED
        BY <3>1, <3>2
    <2>4. QED
      BY <2>1, <2>2, <2>3 DEF Inv, PostsWithinAttempts
  <1>10. AttemptsRemain'
    BY <1>4 DEF Inv, AttemptsRemain, Deliverable
  <1>11. QueueUnsent' /\ RecordsFirst' /\ AttemptHasRow'
    <2>1. delivery[e] # NoDelivery /\ delivery'[e] # NoDelivery
      BY <1>1, <1>4, NothingIsARow
    <2>2. \A f \in Event : delivery'[f] = NoDelivery <=> delivery[f] = NoDelivery
      BY <1>4, <2>1
    <2>3. QueueUnsent' /\ RecordsFirst'
      BY <1>1, <1>4, <2>1 DEF Inv, TypeOK, QueueUnsent, RecordsFirst
    <2>4. AttemptHasRow'
      BY <1>1, <1>4, <2>2 DEF Inv, AttemptHasRow, Tasks
    <2>5. QED
      BY <2>3, <2>4
  <1>12. QED
    BY <1>5, <1>6, <1>7, <1>8, <1>9, <1>10, <1>11 DEF Inv

(* The row that a failed send leaves. *)
LEMMA FailedRow ==
  ASSUME NEW d \in Row, NEW retryable \in BOOLEAN, NEW now \in Nat
  PROVE  LET r == Failed(d, retryable, now)
         IN  /\ r \in Row
             /\ r.status \in {"failed_retryable", "failed_permanent"}
             /\ r.attempts = d.attempts
             /\ r.status = "failed_retryable" => r.attempts < MaxAttempts
  <1>1. now + RetryDelay(d.attempts) \in Nat
    BY DelayTyping
  <1>2. QED
    BY <1>1 DEF Failed, AttemptsLeft, Row, Status, Deliverable, Settled

LEMMA AttemptInv ==
  ASSUME Inv, NEW t \in Tasks, Attempt(t)
  PROVE  Inv'
  <1>1. ASSUME NEW e \in Event, Claim(t, e) PROVE Inv'
    BY <1>1, ClaimInv
  <1>2. ASSUME NEW e \in Event, ClaimMisses(t, e) PROVE Inv'
    BY <1>2, ClaimMissesInv
  <1>3. CASE DiscordPosts(t)
    BY <1>3, DiscordPostsInv
  <1>4. CASE SendSucceeds(t)
    <2> DEFINE d == delivery[task[t].sending]
    <2>1. d \in Row /\ task[t].sending \in Event
      BY <1>4, SendingRow DEF SendSucceeds
    <2>2. /\ [d EXCEPT !.status = "sent"] \in Row
          /\ [d EXCEPT !.status = "sent"].status = "sent"
          /\ [d EXCEPT !.status = "sent"].attempts = d.attempts
      BY <2>1 DEF Row, Status, Settled
    <2>3. delivery' = [delivery EXCEPT ![task[t].sending] = [d EXCEPT !.status = "sent"]]
      BY <1>4, <2>1 DEF SendSucceeds, Inv, TypeOK
    <2>4. QED
      BY <1>4, <2>2, <2>3, SendEndsInv DEF SendSucceeds
  <1>5. ASSUME NEW retryable \in BOOLEAN, SendFails(t, retryable) PROVE Inv'
    <2> DEFINE d == delivery[task[t].sending]
               r == Failed(d, retryable, task[t].now)
    <2>1. d \in Row /\ task[t].now \in Nat
      BY <1>5, SendingRow DEF SendFails, Task
    <2>2. /\ r \in Row
          /\ r.status \in {"failed_retryable", "failed_permanent"}
          /\ r.attempts = d.attempts
          /\ r.status = "failed_retryable" => r.attempts < MaxAttempts
      BY <2>1, FailedRow
    <2>3. delivery' = [delivery EXCEPT ![task[t].sending] = r]
      BY <1>5 DEF SendFails
    <2> HIDE DEF r
    <2>4. QED
      BY <1>5, <2>2, <2>3, SendEndsInv DEF SendFails
  <1>6. QED
    BY <1>1, <1>2, <1>3, <1>4, <1>5 DEF Attempt

-----------------------------------------------------------------------------
(* The process, the rules and time, and the theorems. *)

LEMMA DiesInv ==
  ASSUME Inv, Dies
  PROVE  Inv'
  <1>1. TypeOK'
    BY NothingIsARow, ConstantsAssumption DEF Inv, TypeOK, Dies
  <1>2. QueueUnsent'
    BY DEF QueueUnsent, Dies
  <1>3. \A t \in Tasks : task'[t].pc = "none" /\ task'[t].sending = NoEvent
    BY NothingIsARow DEF Dies
  <1>4. QED
    BY <1>1, <1>2, <1>3, IdleInv DEF Dies, Tasks

LEMMA OtherStepsInv ==
  ASSUME Inv, Boot \/ (\E s \in Subject : EditRule(s)) \/ AdvanceClock \/ UNCHANGED vars
  PROVE  Inv'
  <1>1. UNCHANGED <<event, delivery, queue, task, posted>>
    BY DEF Boot, EditRule, AdvanceClock, vars
  <1>2. TypeOK'
    <2>1. CASE Boot
      BY <2>1 DEF Boot, Inv, TypeOK
    <2>2. CASE \E s \in Subject : EditRule(s)
      BY <2>2 DEF EditRule, Inv, TypeOK
    <2>3. CASE AdvanceClock
      BY <2>3, ConstantsAssumption DEF AdvanceClock, Inv, TypeOK
    <2>4. CASE UNCHANGED vars
      BY <2>4 DEF vars, Inv, TypeOK
    <2>5. QED
      BY <2>1, <2>2, <2>3, <2>4
  <1>3. QueueUnsent'
    BY <1>1 DEF Inv, QueueUnsent
  <1>4. QED
    BY <1>1, <1>2, <1>3, IdleInv DEF Inv, AttemptHasRow

LEMMA InvNext ==
  ASSUME Inv, [Next]_vars
  PROVE  Inv'
  BY TickInv, DetectInv, BackfillingInv, AttemptInv, DiesInv, OtherStepsInv DEF Next

(* The inductive invariant holds in every reachable state. *)
THEOREM Invariant == Spec => []Inv
  <1>1. QED
    BY InvInit, InvNext, PTL DEF Spec

(* Every state of the deliveries is well typed; in particular no delivery is
   attempted more than _MAX_ATTEMPTS times, whatever the delays, the number of
   overlapping sweeps, the deaths of the worker and the edits of the rules. *)
THEOREM DeliveryTypeCorrect == Spec => []TypeOK
  BY Invariant, PTL DEF Inv

(* The conditional UPDATE is a lock: no two tasks send one alert, however many
   sweeps overlap. *)
THEOREM OneSenderAlways == Spec => []OneSender
  BY Invariant, PTL DEF Inv

(* The channel gets an alert at most once per counted attempt, and a row says
   sent only if the channel got it. *)
THEOREM PostsAreBounded == Spec => []PostsWithinAttempts
  BY Invariant, PTL DEF Inv

-----------------------------------------------------------------------------
(* What a step does to the rows and the channel: it is of one of five kinds. *)

Creates(e) ==
  /\ delivery[e] = NoDelivery
  /\ delivery' = [delivery EXCEPT ![e] = NewRow]
  /\ posted' = posted

Claims(e) ==
  /\ delivery[e].status \in Deliverable
  /\ \E r : /\ delivery' = [delivery EXCEPT ![e] = r]
            /\ r.status = "sending"
  /\ posted' = posted

Posts(e) ==
  /\ delivery[e].status = "sending"
  /\ delivery' = delivery
  /\ posted[e] < MaxAttempts
  /\ posted' = [posted EXCEPT ![e] = @ + 1]

Ends(e) ==
  /\ delivery[e].status = "sending"
  /\ \E r : /\ delivery' = [delivery EXCEPT ![e] = r]
            /\ r.status \in {"sent", "failed_retryable", "failed_permanent"}
            /\ r.status = "sent" => posted[e] > 0
  /\ posted' = posted

Keeps == delivery' = delivery /\ posted' = posted

LEMMA AttemptKind ==
  ASSUME Inv, NEW t \in Tasks, Attempt(t)
  PROVE  Keeps \/ \E e \in Event : Claims(e) \/ Posts(e) \/ Ends(e)
  <1>1. ASSUME NEW e \in Event, Claim(t, e)
        PROVE  Claims(e)
    <2>1. delivery[e] \in Row
      BY <1>1 DEF Claim, Due, Inv, TypeOK, NoDelivery, Deliverable
    <2>2. Claimed(delivery[e]).status = "sending"
      BY <2>1 DEF Claimed, Row
    <2>3. QED
      BY <1>1, <2>2 DEF Claim, Due, Claims
  <1>2. ASSUME NEW e \in Event, ClaimMisses(t, e)
        PROVE  Keeps
    BY <1>2 DEF ClaimMisses, Keeps
  <1>3. ASSUME task[t].pc = "sending"
        PROVE  /\ task[t].sending \in Event
               /\ delivery[task[t].sending] \in Row
               /\ delivery[task[t].sending].status = "sending"
               /\ task[t].now \in Nat
    BY <1>3, SendingRow DEF Task
  <1>4. CASE DiscordPosts(t)
    <2> DEFINE e == task[t].sending
    <2>1. posted[e] < delivery[e].attempts
      BY <1>3, <1>4 DEF DiscordPosts, Inv, PostsWithinAttempts
    <2>2. posted[e] < MaxAttempts
      BY <1>3, <1>4, <2>1, ConstantsAssumption DEF DiscordPosts, Row, Inv, TypeOK
    <2>3. Posts(e)
      BY <1>3, <1>4, <2>2 DEF DiscordPosts, Posts
    <2>4. QED
      BY <1>3, <1>4, <2>3 DEF DiscordPosts
  <1>5. CASE SendSucceeds(t)
    <2> DEFINE e == task[t].sending
               r == [delivery[e] EXCEPT !.status = "sent"]
    <2>1. e \in Event /\ delivery[e] \in Row /\ delivery[e].status = "sending"
      BY <1>3, <1>5 DEF SendSucceeds
    <2>2. r.status = "sent" /\ delivery' = [delivery EXCEPT ![e] = r]
      BY <1>5, <2>1 DEF SendSucceeds, Row, Inv, TypeOK
    <2>3. posted[e] > 0
      BY <1>5 DEF SendSucceeds, Inv, ReachedPosted
    <2>4. Ends(e)
      BY <1>5, <2>1, <2>2, <2>3 DEF SendSucceeds, Ends
    <2>5. QED
      BY <2>1, <2>4
  <1>6. ASSUME NEW retryable \in BOOLEAN, SendFails(t, retryable)
        PROVE  Ends(task[t].sending) /\ task[t].sending \in Event
    <2> DEFINE e == task[t].sending
               r == Failed(delivery[e], retryable, task[t].now)
    <2>1. /\ e \in Event /\ delivery[e] \in Row /\ delivery[e].status = "sending"
          /\ task[t].now \in Nat
      BY <1>3, <1>6 DEF SendFails
    <2>2. r.status \in {"failed_retryable", "failed_permanent"}
      BY <2>1, FailedRow
    <2>3. delivery' = [delivery EXCEPT ![e] = r]
      BY <1>6 DEF SendFails
    <2> HIDE DEF r
    <2>4. QED
      BY <1>6, <2>1, <2>2, <2>3 DEF SendFails, Ends
  <1>7. QED
    BY <1>1, <1>2, <1>4, <1>5, <1>6 DEF Attempt

LEMMA StepKind ==
  ASSUME Inv, [Next]_vars
  PROVE  Keeps \/ \E e \in Event : Creates(e) \/ Claims(e) \/ Posts(e) \/ Ends(e)
  <1>1. ASSUME NEW e \in Event, NotifySends(e) \/ Backfill(e)
        PROVE  Creates(e) \/ Keeps
    <2>1. delivery[e] = NoDelivery
      BY <1>1 DEF NotifySends, Backfill, Inv, QueueUnsent
    <2>2. QED
      BY <1>1, <2>1 DEF NotifySends, Backfill, Creates, Keeps
  <1>2. ASSUME NEW t \in Tasks, Attempt(t)
        PROVE  Keeps \/ \E e \in Event : Claims(e) \/ Posts(e) \/ Ends(e)
    BY <1>2, AttemptKind
  <1>3. CASE /\ ~\E e \in Event : NotifySends(e) \/ Backfill(e)
             /\ ~\E t \in Tasks : Attempt(t)
    BY <1>3 DEF Next, Tick, Backfilling, Detect, EndChecks, NotifySkips, EndTick, SweepLists,
                Boot, Dies, EditRule, AdvanceClock, vars, Keeps
  <1>4. QED
    BY <1>1, <1>2, <1>3

(* "Nothing ever moves backward out of sent", nor out of failed_permanent. *)
THEOREM SettledIsFinal == Spec => SettledRowsStay
  <1>1. ASSUME Inv, [Next]_vars, NEW e \in Event, delivery[e].status \in Settled
        PROVE  delivery'[e] = delivery[e]
    <2>1. delivery[e] # NoDelivery /\ delivery \in [Event -> Row \union {NoDelivery}]
      BY <1>1 DEF Inv, TypeOK, Settled, NoDelivery
    <2>2. ASSUME NEW f \in Event, Creates(f) \/ Claims(f) \/ Posts(f) \/ Ends(f)
          PROVE  delivery'[e] = delivery[e]
      <3>1. CASE f = e
        BY <1>1, <2>1, <2>2, <3>1 DEF Creates, Claims, Posts, Ends, Settled, Deliverable
      <3>2. CASE f # e
        BY <2>1, <2>2, <3>2 DEF Creates, Claims, Posts, Ends
      <3>3. QED
        BY <3>1, <3>2
    <2>3. QED
      BY <1>1, <2>2, StepKind DEF Keeps
  <1>2. Inv /\ [Next]_vars
          => [\A e \in Event :
                delivery[e].status \in Settled => delivery'[e] = delivery[e]]_vars
    BY <1>1
  <1>3. QED
    BY <1>2, Invariant, PTL DEF Spec, SettledRowsStay

-----------------------------------------------------------------------------
(* A sweep's clock may be stale, never fast. *)
ClocksBehind == \A t \in Tasks : task[t].now <= clock

LEMMA RemainingBehind ==
  ASSUME Inv, ClocksBehind, NEW t \in Tasks, NEW todo
  PROVE  Remaining(t, todo).now <= clock
  BY DEF Inv, TypeOK, Task, ClocksBehind, Remaining, NoTask

LEMMA ClocksBehindNext ==
  ASSUME Inv, ClocksBehind, [Next]_vars
  PROVE  ClocksBehind'
  <1>1. /\ task \in [Tasks -> Task] /\ clock \in Nat
        /\ \A t \in Tasks : task[t].now \in Nat
        /\ NoTask.now = 0
    BY ConstantsAssumption DEF Inv, TypeOK, Task, NoTask
  <1>2. ASSUME NEW t \in Tasks, NEW r, task' = [task EXCEPT ![t] = r], r.now <= clock,
               clock' = clock
        PROVE  ClocksBehind'
    BY <1>1, <1>2 DEF ClocksBehind
  <1>3. ASSUME NEW e \in Event, NotifySends(e)
        PROVE  ClocksBehind'
    <2> DEFINE r == [NoTask EXCEPT !.pc = "ready", !.todo = {e}]
    <2>1. r.now <= clock
      BY <1>1 DEF NoTask
    <2>2. e \in Tasks /\ task' = [task EXCEPT ![e] = r] /\ clock' = clock
      BY <1>3 DEF NotifySends, Tasks
    <2> HIDE DEF r
    <2>3. QED
      BY <1>2, <2>1, <2>2
  <1>4. ASSUME NEW w \in Sweep, EndTick(w)
        PROVE  ClocksBehind'
    <2> DEFINE r == [NoTask EXCEPT !.pc = "backfill", !.now = clock]
    <2>1. r.now <= clock
      BY <1>1 DEF NoTask
    <2>2. w \in Tasks /\ task' = [task EXCEPT ![w] = r] /\ clock' = clock
      BY <1>4 DEF EndTick, Tasks
    <2> HIDE DEF r
    <2>3. QED
      BY <1>2, <2>1, <2>2
  <1>5. ASSUME NEW w \in Sweep, SweepLists(w)
        PROVE  ClocksBehind'
    <2>1. w \in Tasks
      BY DEF Tasks
    <2>2. QED
      BY <1>2, <1>5, <2>1, RemainingBehind DEF SweepLists
  <1>6. ASSUME NEW t \in Tasks, Attempt(t)
        PROVE  ClocksBehind'
    <2>1. ASSUME NEW e \in Event, Claim(t, e)
          PROVE  ClocksBehind'
      <3> DEFINE r == [pc |-> "sending", todo |-> task[t].todo \ {e},
                       sending |-> e, now |-> Now(t), reached |-> FALSE]
      <3>1. r.now <= clock
        BY <1>1 DEF Now, ClocksBehind
      <3>2. task' = [task EXCEPT ![t] = r] /\ clock' = clock
        BY <2>1 DEF Claim
      <3> HIDE DEF r
      <3>3. QED
        BY <1>2, <3>1, <3>2
    <2>2. ASSUME NEW e \in Event, ClaimMisses(t, e)
          PROVE  ClocksBehind'
      BY <1>2, <2>2, RemainingBehind DEF ClaimMisses
    <2>3. CASE DiscordPosts(t)
      <3>1. [task[t] EXCEPT !.reached = TRUE].now = task[t].now
        BY <1>1 DEF Task
      <3>2. task' = [task EXCEPT ![t] = [task[t] EXCEPT !.reached = TRUE]]
        BY <2>3 DEF DiscordPosts
      <3>3. QED
        BY <1>2, <2>3, <3>1, <3>2 DEF DiscordPosts, ClocksBehind
    <2>4. CASE SendSucceeds(t)
      BY <1>2, <2>4, RemainingBehind DEF SendSucceeds
    <2>5. ASSUME NEW retryable \in BOOLEAN, SendFails(t, retryable)
          PROVE  ClocksBehind'
      BY <1>2, <2>5, RemainingBehind DEF SendFails
    <2>6. QED
      BY <1>6, <2>1, <2>2, <2>3, <2>4, <2>5 DEF Attempt
  <1>7. CASE Dies
    BY <1>1, <1>7 DEF Dies, ClocksBehind
  <1>8. CASE AdvanceClock
    BY <1>1, <1>8 DEF AdvanceClock, ClocksBehind
  <1>9. CASE UNCHANGED <<task, clock>>
    BY <1>9 DEF ClocksBehind
  <1>10. QED
    BY <1>3, <1>4, <1>5, <1>6, <1>7, <1>8, <1>9
       DEF Next, Tick, Backfilling, Detect, EndChecks, NotifySkips, Backfill, Boot,
           EditRule, vars

LEMMA ClaimsWait ==
  ASSUME Inv, ClocksBehind, [Next]_vars, NEW e \in Event,
         delivery'[e].attempts > delivery[e].attempts
  PROVE  delivery[e].retryAt <= clock
  <1>1. /\ delivery \in [Event -> Row \union {NoDelivery}]
        /\ clock \in Nat
        /\ \A t \in Tasks : task[t].now \in Nat
        /\ delivery[e].attempts \in Nat /\ delivery[e].retryAt \in Nat
    BY ConstantsAssumption DEF Inv, TypeOK, Task, Row, NoDelivery
  <1>2. ASSUME NEW f \in Event, NEW r, delivery' = [delivery EXCEPT ![f] = r],
               r.attempts = delivery[f].attempts
        PROVE  FALSE
    BY <1>1, <1>2
  <1>3. ASSUME NEW f \in Event, NotifySends(f) \/ Backfill(f)
        PROVE  FALSE
    <2>1. delivery[f] = NoDelivery /\ NewRow.attempts = NoDelivery.attempts
      BY <1>3 DEF NotifySends, Backfill, Inv, QueueUnsent, NewRow, NoDelivery
    <2>2. QED
      BY <1>1, <1>2, <1>3, <2>1 DEF NotifySends, Backfill
  <1>4. ASSUME NEW t \in Tasks, NEW f \in Event, Claim(t, f)
        PROVE  delivery[e].retryAt <= clock
    <2>1. f = e
      BY <1>1, <1>4 DEF Claim
    <2>2. delivery[e].retryAt <= Now(t)
      BY <1>4, <2>1 DEF Claim, Due
    <2>3. Now(t) <= clock /\ Now(t) \in Nat
      BY <1>1 DEF Now, ClocksBehind
    <2>4. QED
      BY <1>1, <2>2, <2>3
  <1>5. ASSUME NEW t \in Tasks, SendSucceeds(t) \/ \E b \in BOOLEAN : SendFails(t, b)
        PROVE  FALSE
    <2>1. /\ task[t].sending \in Event
          /\ delivery[task[t].sending] \in Row
      BY <1>5, SendingRow DEF SendSucceeds, SendFails
    <2>2. CASE SendSucceeds(t)
      <3>1. [delivery[task[t].sending] EXCEPT !.status = "sent"].attempts
              = delivery[task[t].sending].attempts
        BY <2>1 DEF Row
      <3>2. delivery' = [delivery EXCEPT ![task[t].sending] =
                           [delivery[task[t].sending] EXCEPT !.status = "sent"]]
        BY <2>2 DEF SendSucceeds
      <3>3. QED
        BY <1>2, <2>1, <3>1, <3>2
    <2>3. ASSUME NEW b \in BOOLEAN, SendFails(t, b)
          PROVE  FALSE
      <3>1. Failed(delivery[task[t].sending], b, task[t].now).attempts
              = delivery[task[t].sending].attempts
        BY <2>1 DEF Row, Failed
      <3>2. delivery' = [delivery EXCEPT ![task[t].sending] =
                           Failed(delivery[task[t].sending], b, task[t].now)]
        BY <2>3 DEF SendFails
      <3>3. QED
        BY <1>2, <2>1, <3>1, <3>2
    <2>4. QED
      BY <1>5, <2>2, <2>3
  <1>6. ASSUME delivery' = delivery
        PROVE  FALSE
    BY <1>1, <1>6
  <1>7. QED
    BY <1>3, <1>4, <1>5, <1>6
       DEF Next, Tick, Backfilling, Attempt, Detect, EndChecks, NotifySkips, EndTick, SweepLists,
           ClaimMisses, DiscordPosts, Boot, Dies, EditRule, AdvanceClock, vars

(* A failed attempt is not repeated before its backoff has elapsed, though
   several sweeps list the same row and keep the clock they read at their start. *)
THEOREM BackoffIsKept == Spec => RetriesWait
  <1>1. Init => ClocksBehind
    BY ConstantsAssumption DEF Init, ClocksBehind, NoTask
  <1>2. Inv /\ ClocksBehind /\ [Next]_vars => ClocksBehind'
    BY ClocksBehindNext
  <1>3. Inv /\ ClocksBehind /\ [Next]_vars
          => [\A e \in Event :
                delivery'[e].attempts > delivery[e].attempts
                  => delivery[e].retryAt <= clock]_vars
    BY ClaimsWait
  <1>4. QED
    BY <1>1, <1>2, <1>3, Invariant, PTL DEF Spec, RetriesWait

-----------------------------------------------------------------------------
(* The refinement of Outbox. *)

Queued  == WithStatus(Deliverable \union {"sending"})
Sent    == WithStatus({"sent"})
GivenUp == WithStatus({"failed_permanent"})

(* What a step that changes one row only does to the rows with given statuses. *)
LEMMA RowsWithStatus ==
  ASSUME NEW e \in Event, NEW S,
         \A f \in Event \ {e} : delivery'[f] = delivery[f]
  PROVE  /\ delivery[e].status \in S /\ delivery'[e].status \in S
              => WithStatus(S)' = WithStatus(S)
         /\ delivery[e].status \notin S /\ delivery'[e].status \notin S
              => WithStatus(S)' = WithStatus(S)
         /\ delivery[e].status \notin S /\ delivery'[e].status \in S
              => e \notin WithStatus(S) /\ WithStatus(S)' = WithStatus(S) \union {e}
         /\ delivery[e].status \in S /\ delivery'[e].status \notin S
              => e \in WithStatus(S) /\ WithStatus(S)' = WithStatus(S) \ {e}
  <1>1. WithStatus(S) = {f \in Event : delivery[f].status \in S}
    BY DEF WithStatus
  <1>2. WithStatus(S)' = {f \in Event : delivery'[f].status \in S}
    BY DEF WithStatus
  <1>3. \A f \in Event \ {e} : delivery'[f].status = delivery[f].status
    OBVIOUS
  <1> DEFINE old(f) == delivery[f].status
             new(f) == delivery'[f].status
  <1>4. /\ \A f \in Event \ {e} : new(f) = old(f)
        /\ delivery[e].status = old(e) /\ delivery'[e].status = new(e)
        /\ WithStatus(S) = {f \in Event : old(f) \in S}
        /\ WithStatus(S)' = {f \in Event : new(f) \in S}
    BY <1>1, <1>2, <1>3
  <1> HIDE DEF old, new
  <1>5. QED
    BY <1>4

LEMMA KindRefines ==
  ASSUME Inv, NEW e \in Event, Creates(e) \/ Claims(e) \/ Posts(e) \/ Ends(e)
  PROVE  AlertOutbox!Next \/ UNCHANGED <<Queued, Sent, GivenUp, posted>>
  <1>1. delivery \in [Event -> Row \union {NoDelivery}]
    BY DEF Inv, TypeOK
  <1> DEFINE s == delivery[e].status
             ss == delivery'[e].status
  <1>2. CASE ~Posts(e)
    <2>1. /\ posted' = posted
          /\ \A f \in Event \ {e} : delivery'[f] = delivery[f]
      BY <1>1, <1>2 DEF Creates, Claims, Ends
    <2>2. \/ s = "none" /\ ss = "pending"
          \/ s \in Deliverable /\ ss = "sending"
          \/ s = "sending" /\ ss = "failed_retryable"
          \/ s = "sending" /\ ss = "failed_permanent"
          \/ s = "sending" /\ ss = "sent" /\ posted[e] > 0
      BY <1>1, <1>2 DEF Creates, Claims, Ends, NoDelivery, NewRow
    <2> HIDE DEF s, ss
    <2>3. CASE s = "none" /\ ss = "pending"
      <3>1. /\ e \notin Queued \union Sent \union GivenUp
            /\ Queued' = Queued \union {e} /\ Sent' = Sent /\ GivenUp' = GivenUp
        BY <2>1, <2>3, RowsWithStatus DEF Queued, Sent, GivenUp, WithStatus, Deliverable, s, ss
      <3>2. AlertOutbox!Queue(e)
        BY <2>1, <3>1 DEF AlertOutbox!Queue, Queued, Sent, GivenUp
      <3>3. QED
        BY <3>2 DEF AlertOutbox!Next
    <2>4. CASE \/ s \in Deliverable /\ ss = "sending"
               \/ s = "sending" /\ ss = "failed_retryable"
      <3>1. Queued' = Queued /\ Sent' = Sent /\ GivenUp' = GivenUp
        BY <2>1, <2>4, RowsWithStatus DEF Queued, Sent, GivenUp, Deliverable, s, ss
      <3>2. QED
        BY <2>1, <3>1
    <2>5. CASE s = "sending" /\ ss = "failed_permanent"
      <3>1. /\ e \in Queued
            /\ Queued' = Queued \ {e} /\ Sent' = Sent /\ GivenUp' = GivenUp \union {e}
        BY <2>1, <2>5, RowsWithStatus DEF Queued, Sent, GivenUp, Deliverable, s, ss
      <3>2. AlertOutbox!GiveUp(e)
        BY <2>1, <3>1 DEF AlertOutbox!GiveUp, Queued, Sent, GivenUp
      <3>3. QED
        BY <3>2 DEF AlertOutbox!Next
    <2>6. CASE s = "sending" /\ ss = "sent" /\ posted[e] > 0
      <3>1. /\ e \in Queued
            /\ Queued' = Queued \ {e} /\ Sent' = Sent \union {e} /\ GivenUp' = GivenUp
        BY <2>1, <2>6, RowsWithStatus DEF Queued, Sent, GivenUp, Deliverable, s, ss
      <3>2. AlertOutbox!Settle(e)
        BY <2>1, <2>6, <3>1 DEF AlertOutbox!Settle, Queued, Sent, GivenUp
      <3>3. QED
        BY <3>2 DEF AlertOutbox!Next
    <2>7. QED
      BY <2>2, <2>3, <2>4, <2>5, <2>6
  <1>3. CASE Posts(e)
    <2>1. e \in Queued /\ Queued' = Queued /\ Sent' = Sent /\ GivenUp' = GivenUp
      BY <1>3 DEF Posts, Queued, Sent, GivenUp, WithStatus
    <2>2. AlertOutbox!Post(e)
      BY <1>3, <2>1 DEF Posts, AlertOutbox!Post, Queued, Sent, GivenUp
    <2>3. QED
      BY <2>2 DEF AlertOutbox!Next
  <1>4. QED
    BY <1>2, <1>3

(* The deliveries implement Outbox: queued once, posted only until settled and
   at most _MAX_ATTEMPTS times, sent only after a post, settled for ever. *)
THEOREM DeliveriesImplementOutbox == Spec => ImplementsOutbox
  <1>1. Init => AlertOutbox!Init
    BY DEF Init, AlertOutbox!Init, WithStatus, NoDelivery, Deliverable
  <1>2. ASSUME Inv, [Next]_vars
        PROVE  AlertOutbox!Next \/ UNCHANGED <<Queued, Sent, GivenUp, posted>>
    <2>1. CASE Keeps
      BY <2>1 DEF Keeps, Queued, Sent, GivenUp, WithStatus
    <2>2. QED
      BY <1>2, <2>1, StepKind, KindRefines
  <1>3. Inv /\ [Next]_vars => [AlertOutbox!Next]_(AlertOutbox!outboxVars)
    BY <1>2 DEF AlertOutbox!outboxVars, Queued, Sent, GivenUp
  <1>4. QED
    BY <1>1, <1>3, Invariant, PTL DEF Spec, ImplementsOutbox, AlertOutbox!Spec
=============================================================================
