------------------------ MODULE PurchaseEngineProofs ------------------------
(***************************************************************************)
(* Proofs about PurchaseEngine, for every number of workers, attempts,     *)
(* products and listings, and every budget, across any number of crashes   *)
(* and restarts: first what the table and its index promise whoever        *)
(* writes, then what holds while the pid file keeps workers apart          *)
(* (ExclusivePidfile): the invariant OneWriterInv, the refinement of       *)
(* ProductSlot, the cooldown between attempts on a listing, the caps on    *)
(* what a merchant charges, and what the row of an order may say.          *)
(***************************************************************************)
EXTENDS PurchaseEngine, TLAPS

-----------------------------------------------------------------------------
(* Typing.  TypeOK is not inductive: an update of a row keeps its type only *)
(* if the row exists, which is what a coroutine past its insert knows, and  *)
(* a starting worker of the rows it listed.                                 *)

USE DEF workerVars

WritersHaveRow ==
  /\ \A a \in Attempt : task[a].pc \in PastInsert => row[a] \in Row
  /\ \A w \in Worker : \A a \in orphans[w] : row[a] \in Row

TypeInv == TypeOK /\ WritersHaveRow

LEMMA LiveTask ==
  ASSUME TypeOK, NEW a \in Attempt, task[a].pc # "none"
  PROVE  /\ task[a] \in Task
         /\ task[a].worker \in Worker /\ task[a].listing \in Listing
         /\ task[a].total \in Nat
  <1>1. task[a] \in Task
    BY DEF TypeOK, NoTask
  <1>2. QED
    BY <1>1 DEF Task

(* Moving a live coroutine to another await. *)
LEMMA MovedTask ==
  ASSUME TypeOK, NEW a \in Attempt, task[a].pc # "none", NEW pc \in Pc
  PROVE  [task EXCEPT ![a].pc = pc] \in [Attempt -> Task \union {NoTask}]
  <1>1. task[a] \in Task
    BY LiveTask
  <1>2. [task[a] EXCEPT !.pc = pc] \in Task
    BY <1>1 DEF Task
  <1>3. QED
    BY <1>2 DEF TypeOK

LEMMA RowWithStatus ==
  ASSUME NEW r \in Row, NEW s \in PurchaseStatus
  PROVE  [r EXCEPT !.status = s] \in Row
  BY DEF Row

(* A status written on an existing row keeps the table typed. *)
LEMMA StatusTyping ==
  ASSUME TypeOK, NEW a \in Attempt, row[a] \in Row, NEW s \in PurchaseStatus,
         SetStatus(a, s)
  PROVE  /\ row' \in [Attempt -> Row \union {NoRow}]
         /\ \A b \in Attempt : row[b] \in Row => row'[b] \in Row
  <1>1. [row[a] EXCEPT !.status = s] \in Row
    BY RowWithStatus
  <1>2. QED
    BY <1>1 DEF SetStatus, TypeOK

(* _finish and the other exits. *)
LEMMA FinishTyping ==
  ASSUME TypeInv, NEW a \in Attempt, task[a].pc \in PastInsert,
         NEW s \in EndStatus, Finish(a, s), orphans' = orphans
  PROVE  /\ row' \in [Attempt -> Row \union {NoRow}]
         /\ task' \in [Attempt -> Task \union {NoTask}]
         /\ WritersHaveRow'
  <1>1. row[a] \in Row
    BY DEF TypeInv, WritersHaveRow
  <1>2. /\ row' \in [Attempt -> Row \union {NoRow}]
        /\ \A b \in Attempt : row[b] \in Row => row'[b] \in Row
    BY <1>1, StatusTyping DEF Finish, TypeInv, PurchaseStatus
  <1>3. task' = [task EXCEPT ![a] = NoTask]
    BY DEF Finish
  <1>4. QED
    BY <1>2, <1>3 DEF TypeInv, TypeOK, WritersHaveRow, NoTask, PastInsert

LEMMA CoroutineTyping ==
  ASSUME TypeInv, NEW a \in Attempt, Coroutine(a)
  PROVE  TypeInv'
  <1> USE DEF TypeInv
  <1>1. CASE HotPathAccepts(a)
    <2>1. /\ task' \in [Attempt -> Task \union {NoTask}]
          /\ task' = [task EXCEPT ![a].pc = "decided"]
      BY <1>1, MovedTask DEF HotPathAccepts, Resumes, Pc
    <2>2. QED
      BY <1>1, <2>1 DEF HotPathAccepts, TypeOK, WritersHaveRow, PastInsert
  <1>2. CASE HotPathRefuses(a) \/ ClaimBlocked(a)
    BY <1>2 DEF HotPathRefuses, ClaimBlocked, TypeOK, WritersHaveRow, PastInsert, NoTask
  <1>3. CASE Claim(a)
    <2>1. /\ task' \in [Attempt -> Task \union {NoTask}]
          /\ task' = [task EXCEPT ![a].pc = "claimed"]
      BY <1>3, MovedTask DEF Claim, Resumes, Pc
    <2>2. task[a].listing \in Listing
      BY <1>3, LiveTask DEF Claim, Resumes
    <2>3. [status |-> "created", listing |-> task[a].listing, total |-> 0,
           createdAt |-> clock] \in Row
      BY <2>2, ConstantsAssumption DEF Row, PurchaseStatus, ActiveStatus, TypeOK
    <2>4. QED
      BY <1>3, <2>1, <2>3 DEF Claim, TypeOK, WritersHaveRow, PastInsert
  <1>4. CASE NoConnector(a)
    <2>1. Finish(a, "failed") /\ task[a].pc \in PastInsert
      BY <1>4 DEF NoConnector, Resumes, PastInsert
    <2>2. QED
      BY <1>4, <2>1, FinishTyping DEF NoConnector, TypeOK, EndStatus
  <1>5. CASE StartRevalidate(a)
    <2>1. /\ task' \in [Attempt -> Task \union {NoTask}]
          /\ task' = [task EXCEPT ![a].pc = "revalidating"]
      BY <1>5, MovedTask DEF StartRevalidate, Resumes, Pc
    <2>2. row[a] \in Row
      BY <1>5 DEF StartRevalidate, Resumes, WritersHaveRow, PastInsert
    <2>3. /\ row' \in [Attempt -> Row \union {NoRow}]
          /\ \A b \in Attempt : row[b] \in Row => row'[b] \in Row
      BY <1>5, <2>2, StatusTyping DEF StartRevalidate, PurchaseStatus, ActiveStatus
    <2>4. QED
      BY <1>5, <2>1, <2>2, <2>3 DEF StartRevalidate, TypeOK, WritersHaveRow
  <1>6. ASSUME NEW s \in GaveUpStatus \union {"failed"}, RevalidateRaises(a, s)
        PROVE  TypeInv'
    <2>1. Finish(a, s) /\ task[a].pc \in PastInsert
      BY <1>6 DEF RevalidateRaises, Resumes, PastInsert
    <2>2. QED
      BY <1>6, <2>1, FinishTyping DEF RevalidateRaises, TypeOK, EndStatus, GaveUpStatus
  <1>7. ASSUME NEW t \in Totals, NEW ok \in BOOLEAN, QuoteRefused(a, t, ok)
        PROVE  TypeInv'
    <2>1. Finish(a, "cancelled") /\ task[a].pc \in PastInsert
      BY <1>7 DEF QuoteRefused, Resumes, PastInsert
    <2>2. QED
      BY <1>7, <2>1, FinishTyping DEF QuoteRefused, TypeOK, EndStatus
  <1>8. ASSUME NEW t \in Totals, QuoteAccepted(a, t)
        PROVE  TypeInv'
    <2>1. t \in Nat
      BY ConstantsAssumption
    <2>2. task[a] \in Task
      BY <1>8, LiveTask DEF QuoteAccepted, Resumes
    <2>3. [task[a] EXCEPT !.pc = "notifying", !.total = t] \in Task
      BY <2>1, <2>2 DEF Task, Pc
    <2>4. /\ task' = [task EXCEPT ![a] = [task[a] EXCEPT !.pc = "notifying", !.total = t]]
          /\ task' \in [Attempt -> Task \union {NoTask}]
      BY <1>8, <2>2, <2>3 DEF QuoteAccepted, TypeOK
    <2>5. row[a] \in Row
      BY <1>8 DEF QuoteAccepted, Resumes, WritersHaveRow, PastInsert
    <2>6. /\ row' \in [Attempt -> Row \union {NoRow}]
          /\ \A b \in Attempt : row[b] \in Row => row'[b] \in Row
      BY <1>8, <2>5, StatusTyping DEF QuoteAccepted, PurchaseStatus, ActiveStatus
    <2>7. QED
      BY <1>8, <2>4, <2>5, <2>6 DEF QuoteAccepted, TypeOK, WritersHaveRow
  <1>9. CASE CallCheckout(a)
    <2>1. /\ task' \in [Attempt -> Task \union {NoTask}]
          /\ task' = [task EXCEPT ![a].pc = "checkout"]
      BY <1>9, MovedTask DEF CallCheckout, Resumes, Pc
    <2>2. [worker |-> task[a].worker, total |-> task[a].total] \in Call
      BY <1>9, LiveTask DEF CallCheckout, Resumes, Call
    <2>3. row[a] \in Row
      BY <1>9 DEF CallCheckout, Resumes, WritersHaveRow, PastInsert
    <2>4. QED
      BY <1>9, <2>1, <2>2, <2>3 DEF CallCheckout, TypeOK, WritersHaveRow
  <1>10. CASE CheckoutSucceeds(a)
    <2>1. row[a] \in Row
      BY <1>10 DEF CheckoutSucceeds, Resumes, WritersHaveRow, PastInsert
    <2>2. [row[a] EXCEPT !.status = "purchased", !.total = charged[a]] \in Row
      BY <2>1 DEF Row, PurchaseStatus, EndStatus, TypeOK
    <2>3. row' = [row EXCEPT ![a] = [row[a] EXCEPT !.status = "purchased",
                                                   !.total = charged[a]]]
      BY <1>10, <2>1 DEF CheckoutSucceeds, TypeOK
    <2>4. QED
      BY <1>10, <2>2, <2>3
         DEF CheckoutSucceeds, TypeOK, WritersHaveRow, PastInsert, NoTask
  <1>11. ASSUME NEW s \in GaveUpStatus \union {"failed"}, CheckoutFails(a, s)
         PROVE  TypeInv'
    <2>1. Finish(a, s) /\ task[a].pc \in PastInsert
      BY <1>11 DEF CheckoutFails, Resumes, PastInsert
    <2>2. QED
      BY <1>11, <2>1, FinishTyping DEF CheckoutFails, TypeOK, EndStatus, GaveUpStatus
  <1>12. CASE UpdateBlocked(a)
    BY <1>12 DEF UpdateBlocked, WithoutTasksOf, TypeOK, WritersHaveRow, PastInsert, NoTask
  <1>13. QED
    BY <1>1, <1>2, <1>3, <1>4, <1>5, <1>6, <1>7, <1>8, <1>9, <1>10, <1>11, <1>12
       DEF Coroutine

(* A reconciliation writes one existing row. *)
LEMMA ReconciledFields ==
  ASSUME TypeInv, NEW w \in Worker, NEW a \in Attempt, ReconcileRow(w, a)
  PROVE  /\ row[a] \in Row /\ row'[a] \in Row
         /\ row'[a].status = "failed" /\ row'[a].listing = row[a].listing
         /\ row'[a].createdAt = row[a].createdAt
         /\ \A b \in Attempt \ {a} : row'[b] = row[b]
         /\ row' \in [Attempt -> Row \union {NoRow}]
  <1>1. row[a] \in Row
    BY DEF ReconcileRow, TypeInv, WritersHaveRow
  <1>2. row' = [row EXCEPT ![a] = [row[a] EXCEPT !.status = "failed"]]
    BY DEF ReconcileRow, Reconciled
  <1>3. [row[a] EXCEPT !.status = "failed"] \in Row
    BY <1>1, RowWithStatus DEF PurchaseStatus, EndStatus
  <1>4. QED
    BY <1>1, <1>2, <1>3 DEF Row, TypeInv, TypeOK

LEMMA ProcessTyping ==
  ASSUME TypeInv, NEW w \in Worker, Process(w)
  PROVE  TypeInv'
  <1> USE DEF TypeInv
  <1>1. CASE Start(w)
    <2>1. \A a \in Attempt : row[a].status \in ActiveStatus => row[a] \in Row
      BY DEF TypeOK, NoRow, ActiveStatus
    <2>2. QED
      BY <1>1, <2>1 DEF Start, TypeOK, WritersHaveRow
  <1>2. CASE Stop(w) \/ EnterLoop(w)
    BY <1>2 DEF Stop, EnterLoop, TypeOK, WritersHaveRow
  <1>3. CASE Drained(w)
    BY <1>3 DEF Drained, WithoutTasksOf, TypeOK, WritersHaveRow, PastInsert, NoTask
  <1>4. CASE Crash(w)
    BY <1>4 DEF Crash, WithoutTasksOf, WithoutCallsOf, TypeOK, WritersHaveRow,
                PastInsert, NoTask
  <1>5. ASSUME NEW a \in Attempt, ReconcileRow(w, a)
        PROVE  TypeInv'
    <2>1. /\ row' \in [Attempt -> Row \union {NoRow}] /\ row'[a] \in Row
          /\ \A b \in Attempt \ {a} : row'[b] = row[b]
      BY <1>5, ReconciledFields
    <2>2. TypeOK'
      BY <1>5, <2>1 DEF ReconcileRow, TypeOK
    <2>3. WritersHaveRow'
      BY <1>5, <2>1 DEF ReconcileRow, TypeOK, WritersHaveRow
    <2>4. QED
      BY <2>2, <2>3
  <1>6. QED
    BY <1>1, <1>2, <1>3, <1>4, <1>5 DEF Process

LEMMA TypeStep ==
  ASSUME TypeInv, [Next]_vars
  PROVE  TypeInv'
  <1> USE DEF TypeInv
  <1>1. ASSUME NEW w \in Worker, NEW a \in Attempt, NEW l \in Listing,
               NEW t \in Totals, NEW ok \in BOOLEAN, TickFires(w, a, l, t, ok)
        PROVE  TypeInv'
    <2>1. [pc |-> "queued", worker |-> w, listing |-> l, total |-> t,
           eligible |-> ok] \in Task
      BY ConstantsAssumption DEF Task, Pc
    <2>2. QED
      BY <1>1, <2>1 DEF TickFires, TypeOK, WritersHaveRow, PastInsert
  <1>2. ASSUME NEW a \in Attempt, NEW t \in Totals, MerchantTakesOrder(a, t)
        PROVE  TypeInv'
    <2>1. t \in Nat
      BY ConstantsAssumption
    <2>2. QED
      BY <1>2, <2>1 DEF MerchantTakesOrder, TypeOK, WritersHaveRow
  <1>3. ASSUME NEW a \in Attempt, OrphanThreadEnds(a)
        PROVE  TypeInv'
    BY <1>3 DEF OrphanThreadEnds, TypeOK, WritersHaveRow
  <1>4. CASE FlipKillSwitch
    BY <1>4 DEF FlipKillSwitch, TypeOK, WritersHaveRow
  <1>5. CASE AdvanceClock
    BY <1>5, ConstantsAssumption DEF AdvanceClock, TypeOK, WritersHaveRow
  <1>6. CASE UNCHANGED vars
    BY <1>6 DEF vars, TypeOK, WritersHaveRow
  <1>7. QED
    BY <1>1, <1>2, <1>3, <1>4, <1>5, <1>6, CoroutineTyping, ProcessTyping DEF Next

LEMMA TypeInit == Init => TypeInv
  BY ConstantsAssumption
     DEF Init, TypeInv, TypeOK, WritersHaveRow, PastInsert, NoTask, NoRow

(* Type correctness: the statuses written are those the table's constraint
   knows, and no coroutine writes a row that does not exist. *)
THEOREM TypeCorrect == Spec => []TypeOK
  <1>1. Spec => []TypeInv
    BY TypeInit, TypeStep, PTL DEF Spec
  <1>2. TypeInv => TypeOK
    BY DEF TypeInv
  <1>3. QED
    BY <1>1, <1>2, PTL

-----------------------------------------------------------------------------
(* The unique index.  No assumption on the pid file: any number of workers    *)
(* may write at once.                                                         *)

SlotInv == TypeInv /\ OneBlockingRowPerProduct /\ ListingFollowsTask

(* What a move to another await, and a write of a status, leave alone. *)
LEMMA MovedFields ==
  ASSUME TypeOK, NEW a \in Attempt, task[a].pc # "none", NEW pc \in Pc,
         task' = [task EXCEPT ![a].pc = pc]
  PROVE  /\ task'[a].pc = pc /\ task'[a].worker = task[a].worker
         /\ task'[a].listing = task[a].listing
         /\ \A b \in Attempt \ {a} : task'[b] = task[b]
  <1>1. task[a] \in Task
    BY LiveTask
  <1>2. task' = [task EXCEPT ![a] = [task[a] EXCEPT !.pc = pc]]
    OBVIOUS
  <1>3. QED
    BY <1>1, <1>2 DEF Task, TypeOK

LEMMA StatusFields ==
  ASSUME TypeInv, NEW a \in Attempt, task[a].pc \in PastInsert,
         NEW s \in PurchaseStatus, SetStatus(a, s)
  PROVE  /\ row'[a].status = s /\ row'[a].listing = row[a].listing
         /\ \A b \in Attempt \ {a} : row'[b] = row[b]
  <1>1. row[a] \in Row
    BY DEF TypeInv, WritersHaveRow
  <1>2. row' = [row EXCEPT ![a] = [row[a] EXCEPT !.status = s]]
    BY DEF SetStatus
  <1>3. QED
    BY <1>1, <1>2 DEF Row, TypeInv, TypeOK

(* A step that writes the row of a at most, and that the index lets through. *)
GuardedWrite(a) ==
  /\ \A b \in Attempt \ {a} : row'[b] = row[b]
  /\ \/ row'[a] = row[a]
     \/ row'[a].status \notin BlockingStatus
     \/ IndexAllows(a, row'[a].listing)

LEMMA GuardedWriteKeepsSlot ==
  ASSUME OneBlockingRowPerProduct, NEW a \in Attempt, GuardedWrite(a)
  PROVE  OneBlockingRowPerProduct'
  <1>1. IndexAllows(a, row'[a].listing) =>
          \A b \in Attempt \ {a} :
            row[b].status \in BlockingStatus
              => ProductOf[row[b].listing] # ProductOf[row'[a].listing]
    BY DEF IndexAllows, BlockingRows
  <1>2. QED
    BY <1>1 DEF GuardedWrite, OneBlockingRowPerProduct

LEMMA FinishSlot ==
  ASSUME SlotInv, NEW a \in Attempt, task[a].pc \in PastInsert,
         NEW s \in EndStatus \ {"purchased"}, Finish(a, s)
  PROVE  GuardedWrite(a) /\ ListingFollowsTask'
  <1>1. /\ row'[a].status = s /\ row'[a].listing = row[a].listing
        /\ \A b \in Attempt \ {a} : row'[b] = row[b]
    BY StatusFields DEF Finish, SlotInv, PurchaseStatus
  <1>2. s \notin BlockingStatus
    BY DEF EndStatus, BlockingStatus, ActiveStatus
  <1>3. GuardedWrite(a)
    BY <1>1, <1>2 DEF GuardedWrite
  <1>4. \A b \in Attempt : task'[b] = IF b = a THEN NoTask ELSE task[b]
    BY DEF Finish, SlotInv, TypeInv, TypeOK
  <1>5. QED
    BY <1>1, <1>3, <1>4 DEF SlotInv, ListingFollowsTask, NoTask, PastInsert

LEMMA CoroutineSlot ==
  ASSUME SlotInv, NEW a \in Attempt, Coroutine(a)
  PROVE  GuardedWrite(a) /\ ListingFollowsTask'
  <1>0. TypeOK /\ TypeInv /\ OneBlockingRowPerProduct /\ ListingFollowsTask
    BY DEF SlotInv, TypeInv
  <1>1. CASE HotPathAccepts(a)
    <2>1. /\ row' = row /\ task[a].pc # "none" /\ "decided" \in Pc
          /\ task' = [task EXCEPT ![a].pc = "decided"]
      BY <1>1 DEF HotPathAccepts, Resumes, Pc
    <2>2. task'[a].pc = "decided" /\ \A b \in Attempt \ {a} : task'[b] = task[b]
      BY <1>0, <2>1, MovedFields
    <2>3. QED
      BY <1>0, <2>1, <2>2 DEF GuardedWrite, ListingFollowsTask, PastInsert
  <1>2. CASE HotPathRefuses(a) \/ ClaimBlocked(a)
    <2>1. row' = row /\ \A b \in Attempt : task'[b] = IF b = a THEN NoTask ELSE task[b]
      BY <1>0, <1>2 DEF HotPathRefuses, ClaimBlocked, TypeOK
    <2>2. QED
      BY <1>0, <2>1 DEF GuardedWrite, ListingFollowsTask, PastInsert, NoTask
  <1>3. CASE Claim(a)
    <2>1. /\ task[a].pc # "none" /\ "claimed" \in Pc
          /\ task' = [task EXCEPT ![a].pc = "claimed"]
      BY <1>3 DEF Claim, Resumes, Pc
    <2>2. /\ task'[a].listing = task[a].listing
          /\ \A b \in Attempt \ {a} : task'[b] = task[b]
      BY <1>0, <2>1, MovedFields
    <2>3. /\ row'[a].listing = task[a].listing
          /\ \A b \in Attempt \ {a} : row'[b] = row[b]
      BY <1>0, <1>3 DEF Claim, TypeOK
    <2>4. GuardedWrite(a)
      BY <1>3, <2>3 DEF Claim, GuardedWrite
    <2>5. QED
      BY <1>0, <2>2, <2>3, <2>4 DEF ListingFollowsTask
  <1>4. CASE NoConnector(a)
    BY <1>4, FinishSlot DEF NoConnector, Resumes, PastInsert, EndStatus
  <1>5. CASE StartRevalidate(a)
    <2>1. /\ task[a].pc # "none" /\ "revalidating" \in Pc /\ task[a].pc \in PastInsert
          /\ task' = [task EXCEPT ![a].pc = "revalidating"]
          /\ SetStatus(a, "validating") /\ "validating" \in PurchaseStatus
          /\ IndexAllows(a, task[a].listing)
      BY <1>5 DEF StartRevalidate, Resumes, Pc, PastInsert, PurchaseStatus, ActiveStatus
    <2>2. /\ task'[a].listing = task[a].listing
          /\ \A b \in Attempt \ {a} : task'[b] = task[b]
      BY <1>0, <2>1, MovedFields
    <2>3. /\ row'[a].listing = task[a].listing
          /\ \A b \in Attempt \ {a} : row'[b] = row[b]
      BY <1>0, <2>1, StatusFields DEF ListingFollowsTask
    <2>4. GuardedWrite(a)
      BY <2>1, <2>3 DEF GuardedWrite
    <2>5. QED
      BY <1>0, <2>2, <2>3, <2>4 DEF ListingFollowsTask
  <1>6. ASSUME NEW s \in GaveUpStatus \union {"failed"}, RevalidateRaises(a, s)
        PROVE  GuardedWrite(a) /\ ListingFollowsTask'
    BY <1>6, FinishSlot
       DEF RevalidateRaises, Resumes, PastInsert, EndStatus, GaveUpStatus
  <1>7. ASSUME NEW t \in Totals, NEW ok \in BOOLEAN, QuoteRefused(a, t, ok)
        PROVE  GuardedWrite(a) /\ ListingFollowsTask'
    BY <1>7, FinishSlot DEF QuoteRefused, Resumes, PastInsert, EndStatus
  <1>8. ASSUME NEW t \in Totals, QuoteAccepted(a, t)
        PROVE  GuardedWrite(a) /\ ListingFollowsTask'
    <2>1. /\ task[a].pc # "none" /\ task[a].pc \in PastInsert
          /\ task' = [task EXCEPT ![a] = [task[a] EXCEPT !.pc = "notifying", !.total = t]]
          /\ SetStatus(a, "checkout_started") /\ "checkout_started" \in PurchaseStatus
          /\ IndexAllows(a, task[a].listing)
      BY <1>8 DEF QuoteAccepted, Resumes, PastInsert, PurchaseStatus, ActiveStatus
    <2>2. task[a] \in Task /\ task[a].listing \in Listing
      BY <1>0, <2>1, LiveTask
    <2>3. /\ task'[a].listing = task[a].listing
          /\ \A b \in Attempt \ {a} : task'[b] = task[b]
      BY <1>0, <2>1, <2>2 DEF Task, TypeOK
    <2>4. /\ row'[a].listing = task[a].listing
          /\ \A b \in Attempt \ {a} : row'[b] = row[b]
      BY <1>0, <2>1, StatusFields DEF ListingFollowsTask
    <2>5. GuardedWrite(a)
      BY <2>1, <2>4 DEF GuardedWrite
    <2>6. QED
      BY <1>0, <2>3, <2>4, <2>5 DEF ListingFollowsTask
  <1>9. CASE CallCheckout(a)
    <2>1. /\ row' = row /\ task[a].pc # "none" /\ "checkout" \in Pc
          /\ task[a].pc \in PastInsert /\ task' = [task EXCEPT ![a].pc = "checkout"]
      BY <1>9 DEF CallCheckout, Resumes, Pc, PastInsert
    <2>2. /\ task'[a].listing = task[a].listing
          /\ \A b \in Attempt \ {a} : task'[b] = task[b]
      BY <1>0, <2>1, MovedFields
    <2>3. QED
      BY <1>0, <2>1, <2>2 DEF GuardedWrite, ListingFollowsTask
  <1>10. CASE CheckoutSucceeds(a)
    <2>1. task[a].pc # "none" /\ task[a].pc \in PastInsert /\ row[a] \in Row
      BY <1>0, <1>10 DEF CheckoutSucceeds, Resumes, PastInsert, TypeInv, WritersHaveRow
    <2>2. row' = [row EXCEPT ![a] = [row[a] EXCEPT !.status = "purchased",
                                                   !.total = charged[a]]]
      BY <1>10 DEF CheckoutSucceeds
    <2>3. /\ row'[a].listing = row[a].listing
          /\ \A b \in Attempt \ {a} : row'[b] = row[b]
      BY <1>0, <2>1, <2>2 DEF Row, TypeOK
    <2>4. row[a].listing = task[a].listing
      BY <1>0, <2>1 DEF ListingFollowsTask
    <2>5. GuardedWrite(a)
      BY <1>10, <2>3, <2>4 DEF CheckoutSucceeds, GuardedWrite
    <2>6. \A b \in Attempt : task'[b] = IF b = a THEN NoTask ELSE task[b]
      BY <1>0, <1>10 DEF CheckoutSucceeds, TypeOK
    <2>7. QED
      BY <1>0, <2>3, <2>5, <2>6 DEF ListingFollowsTask, NoTask, PastInsert
  <1>11. ASSUME NEW s \in GaveUpStatus \union {"failed"}, CheckoutFails(a, s)
         PROVE  GuardedWrite(a) /\ ListingFollowsTask'
    BY <1>11, FinishSlot
       DEF CheckoutFails, Resumes, PastInsert, EndStatus, GaveUpStatus
  <1>12. CASE UpdateBlocked(a)
    BY <1>0, <1>12 DEF UpdateBlocked, WithoutTasksOf, GuardedWrite,
                       ListingFollowsTask, PastInsert, NoTask
  <1>13. QED
    BY <1>1, <1>2, <1>3, <1>4, <1>5, <1>6, <1>7, <1>8, <1>9, <1>10, <1>11, <1>12
       DEF Coroutine

(* Every step: one guarded write, by a coroutine or a reconciliation. *)
LEMMA SlotStep ==
  ASSUME SlotInv, [Next]_vars
  PROVE  /\ ListingFollowsTask'
         /\ \/ \E a \in Attempt : GuardedWrite(a)
            \/ row' = row
  <1>0. TypeOK /\ TypeInv /\ ListingFollowsTask
    BY DEF SlotInv, TypeInv
  <1>1. ASSUME NEW w \in Worker, NEW a \in Attempt, NEW l \in Listing,
               NEW t \in Totals, NEW ok \in BOOLEAN, TickFires(w, a, l, t, ok)
        PROVE  ListingFollowsTask' /\ row' = row
    BY <1>0, <1>1 DEF TickFires, TypeOK, ListingFollowsTask, PastInsert
  <1>2. ASSUME NEW a \in Attempt, Coroutine(a)
        PROVE  ListingFollowsTask' /\ GuardedWrite(a)
    BY <1>2, CoroutineSlot
  <1>3. ASSUME NEW a \in Attempt,
               (\E t \in Totals : MerchantTakesOrder(a, t)) \/ OrphanThreadEnds(a)
        PROVE  ListingFollowsTask' /\ row' = row
    BY <1>0, <1>3 DEF MerchantTakesOrder, OrphanThreadEnds, ListingFollowsTask
  <1>4. ASSUME NEW w \in Worker, NEW a \in Attempt, ReconcileRow(w, a)
        PROVE  ListingFollowsTask' /\ GuardedWrite(a)
    <2>1. /\ row'[a].status = "failed" /\ row'[a].listing = row[a].listing
          /\ \A b \in Attempt \ {a} : row'[b] = row[b]
      BY <1>0, <1>4, ReconciledFields
    <2>2. QED
      BY <1>0, <1>4, <2>1 DEF ReconcileRow, GuardedWrite, ListingFollowsTask,
                              BlockingStatus, ActiveStatus
  <1>5. ASSUME NEW w \in Worker,
               Start(w) \/ EnterLoop(w) \/ Stop(w) \/ Drained(w) \/ Crash(w)
        PROVE  ListingFollowsTask' /\ row' = row
    BY <1>0, <1>5 DEF Start, EnterLoop, Stop, Drained, Crash, WithoutTasksOf,
                      ListingFollowsTask, PastInsert, NoTask
  <1>6. CASE FlipKillSwitch \/ AdvanceClock \/ UNCHANGED vars
    BY <1>0, <1>6 DEF FlipKillSwitch, AdvanceClock, vars, ListingFollowsTask
  <1>7. QED
    BY <1>1, <1>2, <1>3, <1>4, <1>5, <1>6 DEF Next, Process

LEMMA SlotInvariant == Spec => []SlotInv
  <1>1. Init => SlotInv
    BY TypeInit
       DEF Init, SlotInv, OneBlockingRowPerProduct, ListingFollowsTask, NoRow, NoTask,
           BlockingStatus, ActiveStatus, PastInsert
  <1>2. SlotInv /\ [Next]_vars => SlotInv'
    <2> SUFFICES ASSUME SlotInv, [Next]_vars
                 PROVE  SlotInv'
      OBVIOUS
    <2>0. TypeInv /\ TypeOK /\ OneBlockingRowPerProduct
      BY DEF SlotInv, TypeInv
    <2>1. TypeInv' /\ ListingFollowsTask'
      BY <2>0, TypeStep, SlotStep
    <2>2. CASE \E a \in Attempt : GuardedWrite(a)
      BY <2>0, <2>1, <2>2, GuardedWriteKeepsSlot DEF SlotInv
    <2>3. CASE row' = row
      BY <2>0, <2>1, <2>3 DEF SlotInv, OneBlockingRowPerProduct
    <2>4. QED
      BY <2>2, <2>3, SlotStep
  <1>3. QED
    BY <1>1, <1>2, PTL DEF Spec

(* The promise of the PurchaseAttempt table: at most one active or purchased
   row for a product, however many workers and merchants. *)
THEOREM OneRowPerProduct == Spec => []OneBlockingRowPerProduct
  <1>1. SlotInv => OneBlockingRowPerProduct
    BY DEF SlotInv
  <1>2. QED
    BY <1>1, SlotInvariant, PTL

(* Which rows may still be written, and by whom, however many workers run: a
   coroutine past its insert has not bought yet, and a row that a starting worker
   has listed is either mistaken or out of every coroutine's reach. *)
PendingInv ==
  \A a \in Attempt :
    /\ task[a].pc \in {"queued", "decided"} => row[a] = NoRow
    /\ task[a].pc \in PastInsert => row[a].status # "purchased"
    /\ \A w \in Worker : a \in orphans[w] \ mistaken =>
         task[a] = NoTask /\ row[a].status # "purchased"

(* What the step of a coroutine leaves behind. *)
Leaves(a) ==
  /\ task[a].pc \in Pc
  /\ orphans' = orphans /\ mistaken' = mistaken
  /\ \A b \in Attempt \ {a} : task'[b] = task[b] \/ task'[b] = NoTask
  /\ \/ task'[a] = NoTask
     \/ task'[a].pc = "decided" /\ task[a].pc = "queued" /\ row'[a] = row[a]
     \/ task'[a].pc \in PastInsert /\ row'[a].status \in ActiveStatus
     \/ /\ task'[a].pc \in PastInsert /\ task[a].pc \in PastInsert
        /\ row'[a] = row[a]

LEMMA CoroutineLeaves ==
  ASSUME SlotInv, NEW a \in Attempt, Coroutine(a)
  PROVE  Leaves(a)
  <1>0. TypeOK /\ TypeInv /\ task \in [Attempt -> Task \union {NoTask}]
    BY DEF SlotInv, TypeInv, TypeOK
  <1>1. CASE HotPathAccepts(a)
    BY <1>0, <1>1, MovedFields DEF HotPathAccepts, Resumes, Leaves, Pc
  <1>2. CASE HotPathRefuses(a) \/ ClaimBlocked(a) \/ NoConnector(a) \/ CheckoutSucceeds(a)
    BY <1>0, <1>2 DEF HotPathRefuses, ClaimBlocked, NoConnector, CheckoutSucceeds, Finish,
                      Resumes, Leaves, Pc
  <1>3. CASE Claim(a)
    <2>1. row'[a].status = "created"
      BY <1>0, <1>3 DEF Claim, TypeOK
    <2>2. QED
      BY <1>0, <1>3, <2>1, MovedFields
         DEF Claim, Resumes, Leaves, Pc, PastInsert, ActiveStatus
  <1>4. CASE StartRevalidate(a)
    <2>1. row'[a].status = "validating"
      BY <1>0, <1>4, StatusFields
         DEF StartRevalidate, Resumes, PastInsert, PurchaseStatus, ActiveStatus
    <2>2. QED
      BY <1>0, <1>4, <2>1, MovedFields
         DEF StartRevalidate, Resumes, Leaves, Pc, PastInsert, ActiveStatus
  <1>5. ASSUME NEW s \in GaveUpStatus \union {"failed"},
               RevalidateRaises(a, s) \/ CheckoutFails(a, s)
        PROVE  Leaves(a)
    BY <1>0, <1>5 DEF RevalidateRaises, CheckoutFails, Finish, Resumes, Leaves, Pc
  <1>6. ASSUME NEW t \in Totals, NEW ok \in BOOLEAN, QuoteRefused(a, t, ok)
        PROVE  Leaves(a)
    BY <1>0, <1>6 DEF QuoteRefused, Finish, Resumes, Leaves, Pc
  <1>7. ASSUME NEW t \in Totals, QuoteAccepted(a, t)
        PROVE  Leaves(a)
    <2>1. row'[a].status = "checkout_started"
      BY <1>0, <1>7, StatusFields
         DEF QuoteAccepted, Resumes, PastInsert, PurchaseStatus, ActiveStatus
    <2>2. task[a] \in Task
      BY <1>0, <1>7, LiveTask DEF QuoteAccepted, Resumes
    <2>3. task' = [task EXCEPT ![a] = [task[a] EXCEPT !.pc = "notifying", !.total = t]]
      BY <1>7 DEF QuoteAccepted
    <2>4. task'[a].pc = "notifying" /\ \A b \in Attempt \ {a} : task'[b] = task[b]
      BY <1>0, <2>2, <2>3 DEF Task
    <2>5. QED
      BY <1>7, <2>1, <2>4
         DEF QuoteAccepted, Resumes, Leaves, Pc, PastInsert, ActiveStatus
  <1>8. CASE CallCheckout(a)
    BY <1>0, <1>8, MovedFields DEF CallCheckout, Resumes, Leaves, Pc, PastInsert
  <1>9. CASE UpdateBlocked(a)
    BY <1>0, <1>9 DEF UpdateBlocked, WithoutTasksOf, Resumes, Leaves, Pc
  <1>10. QED
    BY <1>1, <1>2, <1>3, <1>4, <1>5, <1>6, <1>7, <1>8, <1>9 DEF Coroutine

LEMMA PendingStep ==
  ASSUME SlotInv, PendingInv, [Next]_vars
  PROVE  PendingInv'
  <1>0. TypeOK /\ TypeInv
    BY DEF SlotInv, TypeInv
  <1>1. ASSUME NEW a \in Attempt, Coroutine(a)
        PROVE  PendingInv'
    <2>1. Leaves(a) /\ \A b \in Attempt \ {a} : row'[b] = row[b]
      BY <1>1, CoroutineLeaves, CoroutineSlot DEF GuardedWrite
    <2>2. task[a] # NoTask
      BY <2>1 DEF Leaves, NoTask, Pc
    <2>3. ASSUME NEW b \in Attempt \ {a}
          PROVE  row'[b] = row[b] /\ (task'[b] = task[b] \/ task'[b] = NoTask)
      BY <2>1 DEF Leaves
    <2>4. /\ task'[a].pc \in {"queued", "decided"} => row'[a] = NoRow
          /\ task'[a].pc \in PastInsert => row'[a].status # "purchased"
      BY <2>1 DEF Leaves, PendingInv, NoTask, PastInsert, ActiveStatus
    <2>5. orphans' = orphans /\ mistaken' = mistaken
      BY <2>1 DEF Leaves
    <2>6. \A w \in Worker : a \notin orphans[w] \ mistaken
      BY <2>2 DEF PendingInv
    <2>7. NoTask.pc \notin {"queued", "decided"} /\ NoTask.pc \notin PastInsert
      BY DEF NoTask, PastInsert
    <2>8. QED
      BY <2>3, <2>4, <2>5, <2>6, <2>7 DEF PendingInv
  <1>2. ASSUME NEW w \in Worker, NEW a \in Attempt, NEW l \in Listing,
               NEW t \in Totals, NEW ok \in BOOLEAN, TickFires(w, a, l, t, ok)
        PROVE  PendingInv'
    <2>1. \A v \in Worker : a \notin orphans[v]
      BY <1>0, <1>2 DEF TickFires, TypeInv, WritersHaveRow, Row, NoRow, PurchaseStatus,
                        ActiveStatus, EndStatus
    <2>2. QED
      BY <1>0, <1>2, <2>1 DEF TickFires, PendingInv, TypeOK, PastInsert
  <1>3. ASSUME NEW w \in Worker, NEW a \in Attempt, ReconcileRow(w, a)
        PROVE  PendingInv'
    <2>1. /\ row'[a].status = "failed" /\ row[a] \in Row
          /\ \A b \in Attempt \ {a} : row'[b] = row[b]
      BY <1>0, <1>3, ReconciledFields
    <2>2. row[a] # NoRow
      BY <2>1 DEF Row, NoRow, PurchaseStatus, ActiveStatus, EndStatus
    <2>3. \A v \in Worker : orphans'[v] \subseteq orphans[v]
      BY <1>0, <1>3 DEF ReconcileRow, TypeOK
    <2>4. QED
      BY <1>3, <2>1, <2>2, <2>3 DEF ReconcileRow, PendingInv
  <1>4. ASSUME NEW w \in Worker, Start(w)
        PROVE  PendingInv'
    <2> DEFINE active == {a \in Attempt : row[a].status \in ActiveStatus}
    <2>1. /\ row' = row /\ task' = task
          /\ orphans' = [orphans EXCEPT ![w] = active]
          /\ mistaken' = mistaken \union {a \in active : task[a] # NoTask}
      BY <1>4 DEF Start
    <2>2. \A v \in Worker : orphans'[v] = IF v = w THEN active ELSE orphans[v]
      BY <1>0, <2>1 DEF TypeOK
    <2>3. QED
      BY <2>1, <2>2 DEF PendingInv, ActiveStatus
  <1>5. ASSUME NEW w \in Worker, EnterLoop(w) \/ Stop(w) \/ Drained(w) \/ Crash(w)
        PROVE  PendingInv'
    <2>1. /\ row' = row /\ mistaken' = mistaken
          /\ \A b \in Attempt : task'[b] = task[b] \/ task'[b] = NoTask
      BY <1>5 DEF EnterLoop, Stop, Drained, Crash, WithoutTasksOf
    <2>2. \A v \in Worker : orphans'[v] \subseteq orphans[v]
      BY <1>0, <1>5 DEF EnterLoop, Stop, Drained, Crash, TypeOK
    <2>3. NoTask.pc \notin {"queued", "decided"} /\ NoTask.pc \notin PastInsert
      BY DEF NoTask, PastInsert
    <2>4. QED
      BY <2>1, <2>2, <2>3 DEF PendingInv
  <1>6. CASE \/ \E a \in Attempt, t \in Totals : MerchantTakesOrder(a, t)
             \/ \E a \in Attempt : OrphanThreadEnds(a)
             \/ FlipKillSwitch \/ AdvanceClock \/ UNCHANGED vars
    BY <1>6 DEF MerchantTakesOrder, OrphanThreadEnds, FlipKillSwitch, AdvanceClock, vars,
                PendingInv
  <1>7. QED
    BY <1>1, <1>2, <1>3, <1>4, <1>5, <1>6 DEF Next, Process

LEMMA PendingInvariant == Spec => []PendingInv
  <1>1. Init => PendingInv
    BY DEF Init, PendingInv, NoTask, PastInsert
  <1>2. SlotInv /\ PendingInv /\ [Next]_vars => PendingInv'
    BY PendingStep
  <1>3. QED
    BY <1>1, <1>2, SlotInvariant, PTL DEF Spec

(* A bought product is never claimed again, none of its other attempts moves
   on, and its purchase stays on record, however many workers and merchants;
   only a start that took a live attempt for an orphan rewrites a purchase. *)
THEOREM BoughtStaysAlone == Spec => BoughtProductsStayAlone
  <1> DEFINE Alone ==
        \A a \in Attempt : row'[a] # row[a] =>
          /\ row[a].status = "purchased" => a \in mistaken
          /\ row'[a].status \in BlockingStatus =>
               ~\E b \in Attempt \ {a} :
                  /\ row[b].status = "purchased"
                  /\ ProductOf[row[b].listing] = ProductOf[row'[a].listing]
  <1>1. SlotInv /\ PendingInv /\ [Next]_vars => [Alone]_vars
    <2> SUFFICES ASSUME SlotInv, PendingInv, [Next]_vars,
                        NEW a \in Attempt, row'[a] # row[a]
                 PROVE  /\ row[a].status = "purchased" => a \in mistaken
                        /\ row'[a].status \in BlockingStatus =>
                             ~\E b \in Attempt \ {a} :
                                /\ row[b].status = "purchased"
                                /\ ProductOf[row[b].listing] = ProductOf[row'[a].listing]
      OBVIOUS
    <2>1. GuardedWrite(a)
      BY SlotStep DEF GuardedWrite
    <2>2. ASSUME row'[a].status \in BlockingStatus,
                 NEW b \in Attempt \ {a}, row[b].status = "purchased",
                 ProductOf[row[b].listing] = ProductOf[row'[a].listing]
          PROVE  FALSE
      BY <2>1, <2>2 DEF GuardedWrite, IndexAllows, BlockingRows, BlockingStatus
    <2>3. ASSUME row[a].status = "purchased"
          PROVE  a \in mistaken
      <3>1. ASSUME NEW b \in Attempt, Coroutine(b)
            PROVE  FALSE
        <4>1. a = b /\ task[a].pc \in Pc
          BY <3>1, CoroutineSlot, CoroutineLeaves DEF GuardedWrite, Leaves
        <4>2. QED
          BY <2>3, <4>1 DEF PendingInv, Pc, PastInsert, NoRow
      <3>2. ASSUME NEW w \in Worker, NEW b \in Attempt, ReconcileRow(w, b)
            PROVE  a \in mistaken
        <4>1. a = b
          BY <3>2, ReconciledFields DEF SlotInv
        <4>2. QED
          BY <2>3, <3>2, <4>1 DEF ReconcileRow, PendingInv
      <3>3. QED
        BY <3>1, <3>2 DEF Next, Process, TickFires, MerchantTakesOrder, OrphanThreadEnds,
           FlipKillSwitch, AdvanceClock, vars, Start, EnterLoop, Stop, Drained, Crash
    <2>4. QED
      BY <2>2, <2>3
  <1>2. QED
    BY <1>1, SlotInvariant, PendingInvariant, PTL DEF Spec, BoughtProductsStayAlone

-----------------------------------------------------------------------------
(* One worker at a time. *)

OneWorkerInv == SlotInv /\ OneWriterInv

-----------------------------------------------------------------------------
(* The shape of a coroutine's step, as far as rows, tasks and processes go.  *)

Ends(a) ==
  /\ task'[a] = NoTask
  /\ \/ row'[a] = row[a]
     \/ /\ task[a].pc \in PastInsert
        /\ row'[a].status \in EndStatus
        /\ row'[a].listing = row[a].listing

Decides(a) ==
  /\ task[a].pc = "queued" /\ task'[a].pc = "decided"
  /\ task'[a].worker = task[a].worker /\ task'[a].listing = task[a].listing
  /\ row'[a] = row[a]
  /\ Yielded(task[a].worker)
  /\ BlockingRows(ProductOf[task[a].listing]) = {}

Inserts(a) ==
  /\ task[a].pc = "decided" /\ task'[a].pc = "claimed"
  /\ task'[a].worker = task[a].worker /\ task'[a].listing = task[a].listing
  /\ row'[a].status = "created" /\ row'[a].listing = task[a].listing

Advances(a) ==
  /\ task[a].pc \in PastInsert /\ task'[a].pc \in PastInsert \ {"claimed"}
  /\ task'[a].worker = task[a].worker /\ task'[a].listing = task[a].listing
  /\ row'[a].status \in ActiveStatus /\ row'[a].listing = row[a].listing

Shape(a) ==
  /\ mode' = mode /\ orphans' = orphans
  /\ task[a].pc \in Pc
  /\ \A b \in Attempt \ {a} : task'[b] = task[b] /\ row'[b] = row[b]
  /\ Ends(a) \/ Decides(a) \/ Inserts(a) \/ Advances(a)

(* The index spares every write of a live coroutine. *)
LEMMA IndexSheltered ==
  ASSUME OneWorkerInv
  PROVE  IndexNeverFires
  <1> SUFFICES ASSUME NEW a \in Attempt, task[a].pc \in Pc \ {"queued"}
               PROVE  IndexAllows(a, task[a].listing)
    BY DEF IndexNeverFires
  <1>1. CASE task[a].pc = "decided"
    BY <1>1 DEF OneWorkerInv, OneWriterInv, DecidedProductFree, IndexAllows
  <1>2. CASE task[a].pc \in PastInsert
    <2>1. row[a].status \in BlockingStatus /\ row[a].listing = task[a].listing
      BY <1>2 DEF OneWorkerInv, OneWriterInv, StatusFollowsTask, ListingFollowsTask,
                  BlockingStatus
    <2>2. QED
      BY <2>1 DEF OneWorkerInv, SlotInv, OneBlockingRowPerProduct, IndexAllows,
                  BlockingRows
  <1>3. QED
    BY <1>1, <1>2 DEF Pc, PastInsert

LEMMA FinishShape ==
  ASSUME SlotInv, NEW a \in Attempt, task[a].pc \in PastInsert,
         NEW s \in EndStatus, Finish(a, s), mode' = mode, orphans' = orphans
  PROVE  Shape(a)
  <1>1. /\ row'[a].status = s /\ row'[a].listing = row[a].listing
        /\ \A b \in Attempt \ {a} : row'[b] = row[b]
    BY StatusFields DEF Finish, SlotInv, PurchaseStatus
  <1>2. \A b \in Attempt : task'[b] = IF b = a THEN NoTask ELSE task[b]
    BY DEF Finish, SlotInv, TypeInv, TypeOK
  <1>3. QED
    BY <1>1, <1>2 DEF Shape, Ends, Pc, PastInsert

LEMMA CoroutineShape ==
  ASSUME OneWorkerInv, NEW a \in Attempt, Coroutine(a)
  PROVE  Shape(a)
  <1>0. TypeOK /\ TypeInv /\ SlotInv /\ StatusFollowsTask
    BY DEF OneWorkerInv, SlotInv, TypeInv, OneWriterInv
  <1>1. CASE HotPathAccepts(a)
    <2>1. /\ task[a].pc = "queued" /\ "decided" \in Pc /\ row' = row /\ mode' = mode /\ orphans' = orphans
          /\ task' = [task EXCEPT ![a].pc = "decided"]
          /\ Yielded(task[a].worker) /\ BlockingRows(ProductOf[task[a].listing]) = {}
      BY <1>1 DEF HotPathAccepts, Resumes, Proceeds, Pc
    <2>2. /\ task'[a].pc = "decided" /\ task'[a].worker = task[a].worker
          /\ task'[a].listing = task[a].listing
          /\ \A b \in Attempt \ {a} : task'[b] = task[b]
      BY <1>0, <2>1, MovedFields
    <2>3. QED
      BY <2>1, <2>2 DEF Shape, Decides, Pc
  <1>2. CASE HotPathRefuses(a) \/ ClaimBlocked(a)
    BY <1>0, <1>2 DEF HotPathRefuses, ClaimBlocked, Resumes, TypeOK, Shape, Ends, Pc
  <1>3. CASE Claim(a)
    <2>1. /\ task[a].pc = "decided" /\ "claimed" \in Pc /\ mode' = mode /\ orphans' = orphans
          /\ task' = [task EXCEPT ![a].pc = "claimed"]
      BY <1>3 DEF Claim, Resumes, Pc
    <2>2. /\ task'[a].pc = "claimed" /\ task'[a].worker = task[a].worker
          /\ task'[a].listing = task[a].listing
          /\ \A b \in Attempt \ {a} : task'[b] = task[b]
      BY <1>0, <2>1, MovedFields
    <2>3. /\ row'[a].status = "created" /\ row'[a].listing = task[a].listing
          /\ \A b \in Attempt \ {a} : row'[b] = row[b]
      BY <1>0, <1>3 DEF Claim, TypeOK
    <2>4. QED
      BY <2>1, <2>2, <2>3 DEF Shape, Inserts, Pc
  <1>4. CASE NoConnector(a)
    BY <1>0, <1>4, FinishShape DEF NoConnector, Resumes, PastInsert, EndStatus
  <1>5. CASE StartRevalidate(a)
    <2>1. /\ task[a].pc \in PastInsert /\ task[a].pc # "none" /\ "revalidating" \in Pc
          /\ task' = [task EXCEPT ![a].pc = "revalidating"] /\ mode' = mode /\ orphans' = orphans
          /\ SetStatus(a, "validating") /\ "validating" \in PurchaseStatus
      BY <1>5 DEF StartRevalidate, Resumes, Pc, PastInsert, PurchaseStatus, ActiveStatus
    <2>2. /\ task'[a].pc = "revalidating" /\ task'[a].worker = task[a].worker
          /\ task'[a].listing = task[a].listing
          /\ \A b \in Attempt \ {a} : task'[b] = task[b]
      BY <1>0, <2>1, MovedFields
    <2>3. /\ row'[a].status = "validating" /\ row'[a].listing = row[a].listing
          /\ \A b \in Attempt \ {a} : row'[b] = row[b]
      BY <1>0, <2>1, StatusFields
    <2>4. QED
      BY <2>1, <2>2, <2>3 DEF Shape, Advances, Pc, PastInsert, ActiveStatus
  <1>6. ASSUME NEW s \in GaveUpStatus \union {"failed"}, RevalidateRaises(a, s)
        PROVE  Shape(a)
    BY <1>0, <1>6, FinishShape
       DEF RevalidateRaises, Resumes, PastInsert, EndStatus, GaveUpStatus
  <1>7. ASSUME NEW t \in Totals, NEW ok \in BOOLEAN, QuoteRefused(a, t, ok)
        PROVE  Shape(a)
    BY <1>0, <1>7, FinishShape DEF QuoteRefused, Resumes, PastInsert, EndStatus
  <1>8. ASSUME NEW t \in Totals, QuoteAccepted(a, t)
        PROVE  Shape(a)
    <2>1. /\ task[a].pc \in PastInsert /\ task[a].pc # "none" /\ mode' = mode /\ orphans' = orphans
          /\ task' = [task EXCEPT ![a] = [task[a] EXCEPT !.pc = "notifying", !.total = t]]
          /\ SetStatus(a, "checkout_started") /\ "checkout_started" \in PurchaseStatus
      BY <1>8 DEF QuoteAccepted, Resumes, PastInsert, PurchaseStatus, ActiveStatus
    <2>2. task[a] \in Task
      BY <1>0, <2>1, LiveTask
    <2>3. /\ task'[a].pc = "notifying" /\ task'[a].worker = task[a].worker
          /\ task'[a].listing = task[a].listing
          /\ \A b \in Attempt \ {a} : task'[b] = task[b]
      BY <1>0, <2>1, <2>2 DEF Task, TypeOK
    <2>4. /\ row'[a].status = "checkout_started" /\ row'[a].listing = row[a].listing
          /\ \A b \in Attempt \ {a} : row'[b] = row[b]
      BY <1>0, <2>1, StatusFields
    <2>5. QED
      BY <2>1, <2>3, <2>4 DEF Shape, Advances, Pc, PastInsert, ActiveStatus
  <1>9. CASE CallCheckout(a)
    <2>1. /\ task[a].pc = "notifying" /\ "checkout" \in Pc /\ row' = row /\ mode' = mode /\ orphans' = orphans
          /\ task' = [task EXCEPT ![a].pc = "checkout"]
      BY <1>9 DEF CallCheckout, Resumes, Pc
    <2>2. /\ task'[a].pc = "checkout" /\ task'[a].worker = task[a].worker
          /\ task'[a].listing = task[a].listing
          /\ \A b \in Attempt \ {a} : task'[b] = task[b]
      BY <1>0, <2>1, MovedFields
    <2>3. row[a].status \in ActiveStatus
      BY <1>0, <2>1 DEF StatusFollowsTask, PastInsert
    <2>4. QED
      BY <2>1, <2>2, <2>3 DEF Shape, Advances, Pc, PastInsert
  <1>10. CASE CheckoutSucceeds(a)
    <2>1. task[a].pc = "checkout" /\ task[a].pc \in PastInsert /\ mode' = mode /\ orphans' = orphans
      BY <1>10 DEF CheckoutSucceeds, Resumes, PastInsert
    <2>2. row[a] \in Row
      BY <1>0, <2>1 DEF TypeInv, WritersHaveRow
    <2>3. row' = [row EXCEPT ![a] = [row[a] EXCEPT !.status = "purchased",
                                                   !.total = charged[a]]]
      BY <1>10 DEF CheckoutSucceeds
    <2>4. /\ row'[a].status = "purchased" /\ row'[a].listing = row[a].listing
          /\ \A b \in Attempt \ {a} : row'[b] = row[b]
      BY <1>0, <2>2, <2>3 DEF Row, TypeOK
    <2>5. \A b \in Attempt : task'[b] = IF b = a THEN NoTask ELSE task[b]
      BY <1>0, <1>10 DEF CheckoutSucceeds, TypeOK
    <2>6. QED
      BY <2>1, <2>4, <2>5 DEF Shape, Ends, Pc, EndStatus
  <1>11. ASSUME NEW s \in GaveUpStatus \union {"failed"}, CheckoutFails(a, s)
         PROVE  Shape(a)
    BY <1>0, <1>11, FinishShape
       DEF CheckoutFails, Resumes, PastInsert, EndStatus, GaveUpStatus
  <1>12. CASE UpdateBlocked(a)
    BY <1>12, IndexSheltered DEF UpdateBlocked, Resumes, IndexNeverFires, Pc
  <1>13. QED
    BY <1>1, <1>2, <1>3, <1>4, <1>5, <1>6, <1>7, <1>8, <1>9, <1>10, <1>11, <1>12
       DEF Coroutine

-----------------------------------------------------------------------------
(* OneWriterInv is inductive.                                                *)

LEMMA ShapeKeepsOneWriter ==
  ASSUME OneWorkerInv, ListingFollowsTask', NEW a \in Attempt, Shape(a)
  PROVE  OneWriterInv'
  <1>0. /\ OneProcess /\ TasksInProcess /\ OneUnyielded /\ ListingFollowsTask
        /\ StatusFollowsTask /\ DecidedProductFree /\ ListedRowsActive
    BY DEF OneWorkerInv, OneWriterInv
  <1>00. /\ mode' = mode /\ orphans' = orphans /\ task[a].pc \in Pc
         /\ \A b \in Attempt \ {a} : task'[b] = task[b] /\ row'[b] = row[b]
    BY DEF Shape
  <1>01. \A b \in Attempt : task[b].pc \in Pc => task[b].worker \in Worker
    BY LiveTask DEF OneWorkerInv, SlotInv, TypeInv, Pc
  <1>1. OneProcess'
    BY <1>0, <1>00 DEF OneProcess
  <1>2. TasksInProcess'
    <2>1. task'[a].pc \in Pc => task'[a].worker = task[a].worker
      BY DEF Shape, Ends, Decides, Inserts, Advances, NoTask, Pc
    <2>2. QED
      BY <1>0, <1>00, <2>1 DEF TasksInProcess
  <1>3. OneUnyielded'
    <2>1. CASE Decides(a)
      <3>1. ASSUME NEW b \in Attempt, task[b].pc \in {"decided", "claimed"}
            PROVE  FALSE
        <4>1. task[b].worker = task[a].worker
          BY <1>0, <1>00, <1>01, <3>1 DEF OneProcess, TasksInProcess, Pc
        <4>2. QED
          BY <2>1, <3>1, <4>1 DEF Decides, Yielded
      <3>2. QED
        BY <1>00, <3>1 DEF OneUnyielded
    <2>2. CASE Ends(a) \/ Advances(a)
      <3>1. task'[a].pc \notin {"decided", "claimed"}
        BY <2>2 DEF Ends, Advances, NoTask, PastInsert
      <3>2. QED
        BY <1>0, <1>00, <3>1 DEF OneUnyielded
    <2>3. CASE Inserts(a)
      BY <1>0, <1>00, <2>3 DEF Inserts, OneUnyielded
    <2>4. QED
      BY <2>1, <2>2, <2>3 DEF Shape
  <1>4. StatusFollowsTask'
    <2>1. /\ task'[a].pc \in {"queued", "decided"} => row'[a] = NoRow
          /\ task'[a].pc \in PastInsert => row'[a].status \in ActiveStatus
      BY <1>0 DEF Shape, Ends, Decides, Inserts, Advances, StatusFollowsTask, NoTask,
                  PastInsert, ActiveStatus
    <2>2. QED
      BY <1>0, <1>00, <2>1 DEF StatusFollowsTask
  <1>5. DecidedProductFree'
    <2> SUFFICES ASSUME NEW b \in Attempt, task'[b].pc = "decided",
                        NEW c \in Attempt, row'[c].status \in BlockingStatus,
                        ProductOf[row'[c].listing] = ProductOf[task'[b].listing]
                 PROVE  FALSE
      BY DEF DecidedProductFree, BlockingRows
    <2>1. CASE Decides(a)
      <3>1. row'[c] = row[c]
        BY <1>00, <2>1 DEF Decides
      <3>2. BlockingRows(ProductOf[task'[b].listing]) = {}
        <4>1. CASE b = a
          BY <2>1, <4>1 DEF Decides
        <4>2. CASE b # a
          BY <1>0, <1>00, <4>2 DEF DecidedProductFree
        <4>3. QED
          BY <4>1, <4>2
      <3>3. QED
        BY <3>1, <3>2 DEF BlockingRows
    <2>2. CASE Inserts(a)
      <3>1. b # a /\ task[b].pc = "decided"
        BY <1>00, <2>2 DEF Inserts
      <3>2. QED
        BY <1>0, <2>2, <3>1 DEF Inserts, OneUnyielded
    <2>3. CASE Ends(a) \/ Advances(a)
      <3>1. b # a /\ task[b].pc = "decided" /\ task'[b] = task[b]
        BY <1>00, <2>3 DEF Ends, Advances, NoTask, PastInsert
      <3>2. row[c].status \in BlockingStatus /\ row'[c].listing = row[c].listing
        <4>1. CASE c # a \/ row'[a] = row[a]
          BY <1>00, <4>1
        <4>2. CASE c = a /\ row'[a] # row[a]
          BY <1>0, <2>3, <4>2
             DEF Ends, Advances, StatusFollowsTask, BlockingStatus
        <4>3. QED
          BY <4>1, <4>2
      <3>3. QED
        BY <1>0, <3>1, <3>2 DEF DecidedProductFree, BlockingRows
    <2>4. QED
      BY <2>1, <2>2, <2>3 DEF Shape
  <1>6. ListedRowsActive'
    <2>1. \A w \in Worker : mode[w] # "starting"
      BY <1>0, <1>00, <1>01 DEF OneProcess, TasksInProcess
    <2>2. QED
      BY <1>00, <2>1 DEF ListedRowsActive
  <1>7. QED
    BY <1>1, <1>2, <1>3, <1>4, <1>5, <1>6 DEF OneWriterInv

(* A worker starts when none runs: nobody's coroutine is left, until it has
   reconciled the table. *)
LEMMA NobodyLeft ==
  ASSUME ExclusivePidfile, OneWorkerInv, NEW w \in Worker,
         Start(w) \/ mode[w] = "starting"
  PROVE  \A a \in Attempt : task[a].pc \notin Pc
  <1> SUFFICES ASSUME NEW a \in Attempt, task[a].pc \in Pc
               PROVE  FALSE
    OBVIOUS
  <1>1. task[a].worker \in Worker
    BY LiveTask DEF OneWorkerInv, SlotInv, TypeInv, Pc
  <1>2. mode[task[a].worker] \in {"running", "draining"}
    BY DEF OneWorkerInv, OneWriterInv, TasksInProcess
  <1>3. QED
    BY <1>1, <1>2 DEF Start, OneWorkerInv, OneWriterInv, OneProcess

LEMMA ProcessKeepsOneWriter ==
  ASSUME ExclusivePidfile, OneWorkerInv, ListingFollowsTask',
         NEW w \in Worker, Process(w)
  PROVE  OneWriterInv'
  <1>0. /\ OneProcess /\ TasksInProcess /\ OneUnyielded /\ ListingFollowsTask
        /\ StatusFollowsTask /\ DecidedProductFree /\ ListedRowsActive
        /\ mode \in [Worker -> {"down", "starting", "running", "draining"}]
        /\ orphans \in [Worker -> SUBSET Attempt] /\ TypeInv
    BY DEF OneWorkerInv, OneWriterInv, SlotInv, TypeInv, TypeOK
  <1>1. ASSUME OneProcess', ListedRowsActive', \A a \in Attempt : task'[a].pc \notin Pc
        PROVE  OneWriterInv'
    BY <1>1 DEF OneWriterInv, TasksInProcess, OneUnyielded, StatusFollowsTask,
                DecidedProductFree, Pc, PastInsert
  <1>2. CASE Start(w)
    <2>1. \A a \in Attempt : task'[a].pc \notin Pc
      BY <1>2, NobodyLeft DEF Start
    <2>2. \A v \in Worker \ {w} : mode'[v] = "down"
      BY <1>0, <1>2 DEF Start
    <2>3. OneProcess'
      BY <2>2 DEF OneProcess
    <2>4. ListedRowsActive'
      BY <1>0, <1>2, <2>2 DEF Start, ListedRowsActive
    <2>5. QED
      BY <1>1, <2>1, <2>3, <2>4
  <1>3. ASSUME NEW a \in Attempt, ReconcileRow(w, a)
        PROVE  OneWriterInv'
    <2>1. /\ mode' = mode /\ task' = task /\ mode[w] = "starting"
          /\ orphans' = [orphans EXCEPT ![w] = @ \ {a}]
      BY <1>3 DEF ReconcileRow
    <2>2. \A b \in Attempt : task'[b].pc \notin Pc
      BY <2>1, NobodyLeft
    <2>3. \A b \in Attempt \ {a} : row'[b] = row[b]
      BY <1>0, <1>3, ReconciledFields
    <2>4. ListedRowsActive'
      BY <1>0, <2>1, <2>3 DEF ListedRowsActive, OneProcess
    <2>5. OneProcess'
      BY <1>0, <2>1 DEF OneProcess
    <2>6. QED
      BY <1>1, <2>2, <2>4, <2>5
  <1>4. CASE EnterLoop(w)
    <2>1. \A a \in Attempt : task'[a].pc \notin Pc
      BY <1>4, NobodyLeft DEF EnterLoop
    <2>2. OneProcess' /\ ListedRowsActive'
      BY <1>0, <1>4 DEF EnterLoop, OneProcess, ListedRowsActive
    <2>3. QED
      BY <1>1, <2>1, <2>2
  <1>5. CASE Stop(w)
    BY <1>0, <1>5 DEF Stop, OneWriterInv, OneProcess, TasksInProcess, OneUnyielded,
                      StatusFollowsTask, DecidedProductFree, BlockingRows,
                      ListedRowsActive
  <1>6. CASE Drained(w) \/ Crash(w)
    <2>1. \A a \in Attempt :
            \/ task'[a] = NoTask
            \/ task'[a] = task[a] /\ task[a].worker # w
      BY <1>6 DEF Drained, Crash, WithoutTasksOf
    <2>2. row' = row /\ mode' = [mode EXCEPT ![w] = "down"]
      BY <1>6 DEF Drained, Crash
    <2>3. OneProcess' /\ TasksInProcess'
      BY <1>0, <2>1, <2>2 DEF OneProcess, TasksInProcess, NoTask, Pc
    <2>4. OneUnyielded' /\ StatusFollowsTask'
      BY <1>0, <2>1, <2>2 DEF OneUnyielded, StatusFollowsTask, NoTask, PastInsert
    <2>5. DecidedProductFree'
      BY <1>0, <2>1, <2>2 DEF DecidedProductFree, BlockingRows, NoTask
    <2>6. \A v \in Worker \ {w} : orphans'[v] = orphans[v]
      BY <1>0, <1>6 DEF Drained, Crash
    <2>7. ListedRowsActive'
      BY <1>0, <2>2, <2>6 DEF ListedRowsActive
    <2>8. QED
      BY <2>3, <2>4, <2>5, <2>7 DEF OneWriterInv
  <1>7. QED
    BY <1>2, <1>3, <1>4, <1>5, <1>6 DEF Process

LEMMA OneWorkerStep ==
  ASSUME ExclusivePidfile, OneWorkerInv, SlotInv', [Next]_vars
  PROVE  OneWriterInv'
  <1>0. /\ OneProcess /\ TasksInProcess /\ OneUnyielded /\ ListingFollowsTask
        /\ StatusFollowsTask /\ DecidedProductFree /\ ListedRowsActive
        /\ TypeOK /\ ListingFollowsTask'
    BY DEF OneWorkerInv, OneWriterInv, SlotInv, TypeInv
  <1>1. ASSUME NEW w \in Worker, NEW a \in Attempt, NEW l \in Listing,
               NEW t \in Totals, NEW ok \in BOOLEAN, TickFires(w, a, l, t, ok)
        PROVE  OneWriterInv'
    <2>1. /\ row' = row /\ mode' = mode /\ orphans' = orphans
          /\ row[a] = NoRow /\ mode[w] = "running"
          /\ task'[a].pc = "queued" /\ task'[a].worker = w
          /\ \A b \in Attempt \ {a} : task'[b] = task[b]
      BY <1>0, <1>1 DEF TickFires, TypeOK
    <2>2. OneProcess' /\ TasksInProcess'
      BY <1>0, <2>1 DEF OneProcess, TasksInProcess
    <2>3. OneUnyielded' /\ StatusFollowsTask'
      BY <1>0, <2>1 DEF OneUnyielded, StatusFollowsTask, PastInsert
    <2>4. DecidedProductFree' /\ ListedRowsActive'
      BY <1>0, <2>1 DEF DecidedProductFree, BlockingRows, ListedRowsActive
    <2>5. QED
      BY <1>0, <2>2, <2>3, <2>4 DEF OneWriterInv
  <1>2. ASSUME NEW a \in Attempt, Coroutine(a)
        PROVE  OneWriterInv'
    BY <1>0, <1>2, CoroutineShape, ShapeKeepsOneWriter
  <1>3. ASSUME NEW w \in Worker, Process(w)
        PROVE  OneWriterInv'
    BY <1>0, <1>3, ProcessKeepsOneWriter
  <1>4. CASE \/ \E a \in Attempt, t \in Totals : MerchantTakesOrder(a, t)
             \/ \E a \in Attempt : OrphanThreadEnds(a)
             \/ FlipKillSwitch \/ AdvanceClock \/ UNCHANGED vars
    <2>1. row' = row /\ task' = task /\ mode' = mode /\ orphans' = orphans
      BY <1>4 DEF MerchantTakesOrder, OrphanThreadEnds, FlipKillSwitch, AdvanceClock, vars
    <2>2. QED
      BY <1>0, <2>1 DEF OneWriterInv, OneProcess, TasksInProcess, OneUnyielded,
                        StatusFollowsTask, DecidedProductFree, BlockingRows,
                        ListedRowsActive
  <1>5. QED
    BY <1>1, <1>2, <1>3, <1>4 DEF Next

(* One worker at a time: the invariant behind the two theorems that follow. *)
THEOREM OneWriter ==
  ASSUME ExclusivePidfile
  PROVE  Spec => []OneWriterInv
  <1>1. Init => OneWriterInv
    BY DEF Init, OneWriterInv, OneProcess, TasksInProcess, OneUnyielded,
           ListingFollowsTask, StatusFollowsTask, DecidedProductFree, ListedRowsActive,
           NoTask, Pc, PastInsert
  <1>2. SlotInv /\ SlotInv' /\ OneWriterInv /\ [Next]_vars => OneWriterInv'
    BY OneWorkerStep DEF OneWorkerInv
  <1>3. QED
    BY <1>1, <1>2, SlotInvariant, PTL DEF Spec

(* From its decision to its last update no write of an attempt meets the unique
   index: "no await between the check and the insert" is enough. *)
THEOREM IndexIsNeverNeeded ==
  ASSUME ExclusivePidfile
  PROVE  Spec => []IndexNeverFires
  <1>1. SlotInv /\ OneWriterInv => IndexNeverFires
    BY IndexSheltered DEF OneWorkerInv
  <1>2. QED
    BY <1>1, SlotInvariant, OneWriter, PTL

(* The outcome of an attempt is final: no late coroutine and no reconciliation
   rewrites it. *)
THEOREM OutcomesAreFinal ==
  ASSUME ExclusivePidfile
  PROVE  Spec => EndedRowsStay
  <1> DEFINE Final == \A a \in Attempt : row[a].status \in EndStatus => row'[a] = row[a]
  <1>1. SlotInv /\ OneWriterInv /\ [Next]_vars => [Final]_vars
    <2> SUFFICES ASSUME OneWorkerInv, [Next]_vars, NEW a \in Attempt,
                        row[a].status \in EndStatus
                 PROVE  row'[a] = row[a]
      BY DEF OneWorkerInv
    <2>0. TypeOK /\ StatusFollowsTask
      BY DEF OneWorkerInv, OneWriterInv, SlotInv, TypeInv
    <2>1. ASSUME NEW b \in Attempt, Coroutine(b)
          PROVE  row'[a] = row[a]
      <3>1. Shape(b)
        BY <2>1, CoroutineShape
      <3>2. a = b => row[b] # NoRow /\ row[b].status \notin ActiveStatus
        BY DEF EndStatus, ActiveStatus, NoRow
      <3>3. QED
        BY <2>0, <3>1, <3>2
           DEF Shape, Ends, Decides, Inserts, Advances, StatusFollowsTask
    <2>2. ASSUME NEW w \in Worker, NEW b \in Attempt, ReconcileRow(w, b)
          PROVE  row'[a] = row[a]
      <3>1. row[b].status \in ActiveStatus
        BY <2>2 DEF ReconcileRow, OneWorkerInv, OneWriterInv, ListedRowsActive
      <3>2. a # b
        BY <3>1 DEF EndStatus, ActiveStatus
      <3>3. QED
        BY <2>2, <3>2, ReconciledFields DEF OneWorkerInv, SlotInv
    <2>3. CASE ~\E b \in Attempt : Coroutine(b)
      BY <2>2, <2>3 DEF Next, Process, TickFires, MerchantTakesOrder, OrphanThreadEnds,
           FlipKillSwitch, AdvanceClock, vars, Start, EnterLoop, Stop, Drained, Crash
    <2>4. QED
      BY <2>1, <2>3
  <1>2. QED
    BY <1>1, SlotInvariant, OneWriter, PTL DEF Spec, EndedRowsStay

-----------------------------------------------------------------------------
(* The refinement of ProductSlot.                                            *)

LEMMA HolderIs ==
  ASSUME OneBlockingRowPerProduct, NEW a \in Attempt, NEW p \in Product,
         row[a].status \in BlockingStatus, ProductOf[row[a].listing] = p
  PROVE  BlockingRows(p) = {a} /\ HolderOf(p) = a
  <1>1. BlockingRows(p) = {a}
    BY DEF OneBlockingRowPerProduct, BlockingRows
  <1>2. QED
    BY <1>1 DEF HolderOf

(* The rows of the products a step does not touch. *)
LEMMA OthersKept ==
  ASSUME NEW a \in Attempt, NEW p \in Product,
         \A b \in Attempt \ {a} : row'[b] = row[b],
         a \notin BlockingRows(p), a \notin BlockingRows(p)'
  PROVE  /\ BlockingRows(p)' = BlockingRows(p)
         /\ HolderOf(p)' = HolderOf(p)
         /\ (p \in Bought)' <=> p \in Bought
  <1>1. BlockingRows(p)' = BlockingRows(p)
    BY DEF BlockingRows
  <1>2. HolderOf(p)' = HolderOf(p)
    BY <1>1 DEF HolderOf
  <1>3. \A b \in BlockingRows(p) : row'[b] = row[b]
    BY DEF BlockingRows
  <1>4. QED
    BY <1>1, <1>2, <1>3 DEF Bought

LEMMA RowsKeptSlotKept ==
  ASSUME row' = row
  PROVE  UNCHANGED <<Holder, Bought, Used>>
  BY DEF Holder, HolderOf, Bought, Used, BlockingRows

LEMMA InsertClaims ==
  ASSUME OneWorkerInv, NEW a \in Attempt, Shape(a), Inserts(a),
         NEW p \in Product, p = ProductOf[task[a].listing]
  PROVE  Slot!Claim(p, a)
  <1>1. /\ row[a] = NoRow /\ BlockingRows(p) = {}
        /\ \A b \in Attempt \ {a} : row'[b] = row[b]
        /\ row'[a].status = "created" /\ ProductOf[row'[a].listing] = p
    BY DEF OneWorkerInv, OneWriterInv, StatusFollowsTask, DecidedProductFree, Shape,
           Inserts
  <1>2. BlockingRows(p)' = {a}
    BY <1>1 DEF BlockingRows, BlockingStatus, ActiveStatus
  <1>3. HolderOf(p)' = a /\ HolderOf(p) = NoAttempt
    BY <1>1, <1>2 DEF HolderOf
  <1>4. ASSUME NEW q \in Product \ {p}
        PROVE  HolderOf(q)' = HolderOf(q) /\ ((q \in Bought)' <=> q \in Bought)
    <2>1. a \notin BlockingRows(q) /\ a \notin BlockingRows(q)'
      BY <1>1 DEF BlockingRows, BlockingStatus, ActiveStatus, NoRow
    <2>2. QED
      BY <1>1, <2>1, OthersKept
  <1>5. Holder' = [Holder EXCEPT ![p] = a]
    BY <1>3, <1>4 DEF Holder
  <1>6. Bought' = Bought
    <2>1. p \notin Bought /\ p \notin Bought'
      BY <1>1, <1>2 DEF Bought
    <2>2. Bought \subseteq Product /\ Bought' \subseteq Product
      BY DEF Bought
    <2>3. QED
      BY <1>4, <2>1, <2>2
  <1>7. a \notin Used /\ Used' = Used \union {a}
    BY <1>1 DEF Used, NoRow
  <1>8. Holder[p] = NoAttempt
    BY <1>1, <1>3 DEF Holder
  <1>9. QED
    BY <1>5, <1>6, <1>7, <1>8 DEF Slot!Claim

(* An attempt in flight holds its product, which is not bought. *)
LEMMA FlightHolds ==
  ASSUME SlotInv, NEW a \in Attempt, row[a].status \in ActiveStatus,
         NEW p \in Product, p = ProductOf[row[a].listing]
  PROVE  BlockingRows(p) = {a} /\ HolderOf(p) = a /\ p \notin Bought
  <1>1. BlockingRows(p) = {a} /\ HolderOf(p) = a
    BY HolderIs DEF SlotInv, BlockingStatus
  <1>2. QED
    BY <1>1 DEF Bought, ActiveStatus

(* The row of an attempt in flight takes its last status. *)
LEMMA RowSettles ==
  ASSUME SlotInv, NEW a \in Attempt, row[a].status \in ActiveStatus,
         \A b \in Attempt \ {a} : row'[b] = row[b],
         row'[a].status \in EndStatus, row'[a].listing = row[a].listing,
         NEW p \in Product, p = ProductOf[row[a].listing]
  PROVE  IF row'[a].status = "purchased" THEN Slot!Buy(p) ELSE Slot!Release(p)
  <1>1. row[a].status \in ActiveStatus /\ \A b \in Attempt \ {a} : row'[b] = row[b]
    OBVIOUS
  <1>2. BlockingRows(p) = {a} /\ HolderOf(p) = a /\ p \notin Bought
    BY <1>1, FlightHolds
  <1>3. ASSUME NEW q \in Product \ {p}
        PROVE  HolderOf(q)' = HolderOf(q) /\ ((q \in Bought)' <=> q \in Bought)
    <2>1. a \notin BlockingRows(q) /\ a \notin BlockingRows(q)'
      BY DEF BlockingRows
    <2>2. QED
      BY <1>1, <2>1, OthersKept
  <1>4. Used' = Used
    BY <1>1 DEF Used, NoRow, ActiveStatus, EndStatus
  <1>5. Bought \subseteq Product /\ Bought' \subseteq Product
    BY DEF Bought
  <1>6. a # NoAttempt
    BY ConstantsAssumption
  <1>7. CASE row'[a].status = "purchased"
    <2>1. BlockingRows(p)' = {a}
      BY <1>1, <1>2, <1>7 DEF BlockingRows, BlockingStatus
    <2>2. HolderOf(p)' = HolderOf(p)
      BY <1>2, <2>1 DEF HolderOf
    <2>3. Holder' = Holder /\ Holder[p] # NoAttempt
      BY <1>2, <1>3, <1>6, <2>2 DEF Holder
    <2>4. p \in Bought'
      BY <1>2, <1>7, <2>1 DEF Bought
    <2>5. Bought' = Bought \union {p}
      BY <1>2, <1>3, <1>5, <2>4
    <2>6. QED
      BY <1>2, <1>4, <1>7, <2>3, <2>5 DEF Slot!Buy
  <1>8. CASE row'[a].status # "purchased"
    <2>1. BlockingRows(p)' = {}
      BY <1>1, <1>2, <1>8 DEF BlockingRows, BlockingStatus, ActiveStatus, EndStatus
    <2>2. HolderOf(p)' = NoAttempt /\ p \notin Bought'
      BY <2>1 DEF HolderOf, Bought
    <2>3. Holder' = [Holder EXCEPT ![p] = NoAttempt]
      BY <1>3, <2>2 DEF Holder
    <2>4. Bought' = Bought
      BY <1>2, <1>3, <1>5, <2>2
    <2>5. Holder[p] # NoAttempt
      BY <1>2, <1>6 DEF Holder
    <2>6. QED
      BY <1>2, <1>4, <1>5, <1>8, <2>3, <2>4, <2>5 DEF Slot!Release
  <1>9. QED
    BY <1>7, <1>8

LEMMA AdvanceStutters ==
  ASSUME OneWorkerInv, NEW a \in Attempt, Shape(a), Advances(a)
  PROVE  UNCHANGED <<Holder, Bought, Used>>
  <1>1. /\ row[a].status \in ActiveStatus /\ row'[a].status \in ActiveStatus
        /\ row'[a].listing = row[a].listing
        /\ \A b \in Attempt \ {a} : row'[b] = row[b]
    BY DEF OneWorkerInv, OneWriterInv, StatusFollowsTask, Shape, Advances
  <1>2. ASSUME NEW q \in Product
        PROVE  BlockingRows(q)' = BlockingRows(q) /\ HolderOf(q)' = HolderOf(q)
    <2>1. BlockingRows(q)' = BlockingRows(q)
      BY <1>1 DEF BlockingRows, BlockingStatus
    <2>2. QED
      BY <2>1 DEF HolderOf
  <1>3. Holder' = Holder
    BY <1>2 DEF Holder
  <1>4. Bought' = Bought
    <2>1. \A b \in Attempt : row'[b].status = "purchased" <=> row[b].status = "purchased"
      BY <1>1 DEF ActiveStatus
    <2>2. QED
      BY <1>2, <2>1 DEF Bought, BlockingRows
  <1>5. Used' = Used
    BY <1>1 DEF Used, NoRow, ActiveStatus
  <1>6. QED
    BY <1>3, <1>4, <1>5

LEMMA CoroutineRefines ==
  ASSUME OneWorkerInv, SlotInv', NEW a \in Attempt, Coroutine(a)
  PROVE  Slot!Next \/ UNCHANGED <<Holder, Bought, Used>>
  <1>1. Shape(a)
    BY CoroutineShape
  <1>2. row \in [Attempt -> Row \union {NoRow}] /\ row' \in [Attempt -> Row \union {NoRow}]
    BY DEF OneWorkerInv, SlotInv, TypeInv, TypeOK
  <1>3. CASE row'[a] = row[a]
    <2>1. row' = row
      BY <1>1, <1>2, <1>3 DEF Shape
    <2>2. QED
      BY <2>1, RowsKeptSlotKept
  <1>4. CASE Inserts(a)
    <2>1. ProductOf[task[a].listing] \in Product
      BY <1>1, LiveTask, ConstantsAssumption
         DEF Shape, OneWorkerInv, SlotInv, TypeInv, Pc
    <2>2. QED
      BY <1>1, <1>4, <2>1, InsertClaims DEF Slot!Next
  <1>5. CASE Advances(a)
    BY <1>1, <1>5, AdvanceStutters
  <1>6. CASE Ends(a) /\ row'[a] # row[a]
    <2>1. row[a] \in Row
      BY <1>6 DEF Ends, OneWorkerInv, SlotInv, TypeInv, WritersHaveRow
    <2>2. ProductOf[row[a].listing] \in Product
      BY <2>1, ConstantsAssumption DEF Row
    <2>3. /\ row[a].status \in ActiveStatus /\ \A b \in Attempt \ {a} : row'[b] = row[b]
          /\ row'[a].status \in EndStatus /\ row'[a].listing = row[a].listing
      BY <1>1, <1>6 DEF Ends, Shape, OneWorkerInv, OneWriterInv, StatusFollowsTask
    <2>4. QED
      BY <2>2, <2>3, RowSettles DEF Slot!Next, OneWorkerInv
  <1>7. QED
    BY <1>1, <1>3, <1>4, <1>5, <1>6 DEF Shape, Decides

LEMMA StepRefines ==
  ASSUME OneWorkerInv, SlotInv', [Next]_vars
  PROVE  Slot!Next \/ UNCHANGED <<Holder, Bought, Used>>
  <1>1. CASE \E a \in Attempt : Coroutine(a)
    BY <1>1, CoroutineRefines
  <1>2. ASSUME NEW w \in Worker, NEW a \in Attempt, ReconcileRow(w, a)
        PROVE  Slot!Next
    <2>1. row[a].status \in ActiveStatus
      BY <1>2 DEF ReconcileRow, OneWorkerInv, OneWriterInv, ListedRowsActive
    <2>2. /\ row[a] \in Row
          /\ row'[a].status = "failed" /\ row'[a].listing = row[a].listing
          /\ \A b \in Attempt \ {a} : row'[b] = row[b]
      BY <1>2, ReconciledFields DEF OneWorkerInv, SlotInv
    <2>3. ProductOf[row[a].listing] \in Product
      BY <2>2, ConstantsAssumption DEF Row
    <2>4. Slot!Release(ProductOf[row[a].listing])
      BY <2>1, <2>2, <2>3, RowSettles DEF OneWorkerInv, EndStatus
    <2>5. QED
      BY <2>3, <2>4 DEF Slot!Next
  <1>3. CASE /\ ~\E a \in Attempt : Coroutine(a)
             /\ ~\E w \in Worker, a \in Attempt : ReconcileRow(w, a)
    <2>1. row' = row
      BY <1>3 DEF Next, Process, TickFires, MerchantTakesOrder, OrphanThreadEnds,
           FlipKillSwitch, AdvanceClock, vars, Start, EnterLoop, Stop, Drained, Crash
    <2>2. QED
      BY <2>1, RowsKeptSlotKept
  <1>4. QED
    BY <1>1, <1>2, <1>3

(* The purchase path implements ProductSlot: each of its steps claims, releases
   or buys a product as the abstract specification allows, or changes nothing
   of it. *)
THEOREM PurchasePathImplementsProductSlot ==
  ASSUME ExclusivePidfile
  PROVE  Spec => ImplementsProductSlot
  <1>1. Init => Slot!Init
    BY DEF Init, Slot!Init, Holder, HolderOf, Bought, Used, BlockingRows, NoRow,
           BlockingStatus, ActiveStatus
  <1>2. SlotInv /\ SlotInv' /\ OneWriterInv /\ [Next]_vars => [Slot!Next]_(Slot!vars)
    BY StepRefines DEF OneWorkerInv, Slot!vars
  <1>3. QED
    BY <1>1, <1>2, SlotInvariant, OneWriter, PTL DEF Spec, ImplementsProductSlot, Slot!Spec

-----------------------------------------------------------------------------
(* The cooldown.  A decision is made on the rows of its instant; it is still *)
(* right at the insert because no other coroutine comes in between.          *)

DecidedCooled ==
  \A a \in Attempt : task[a].pc = "decided" => CooledDown(task[a].listing)

CooldownInv == CooldownKept /\ DecidedCooled

\* A row keeps its listing and its time, and none appears.
Unmoved(b) ==
  /\ row'[b].listing = row[b].listing /\ row'[b].createdAt = row[b].createdAt
  /\ row[b] = NoRow <=> row'[b] = NoRow

LEMMA StatusUnmoved ==
  ASSUME TypeInv, NEW a \in Attempt, task[a].pc \in PastInsert,
         NEW s \in PurchaseStatus, SetStatus(a, s)
  PROVE  \A b \in Attempt : Unmoved(b)
  <1>1. row[a] \in Row
    BY DEF TypeInv, WritersHaveRow
  <1>2. row' = [row EXCEPT ![a] = [row[a] EXCEPT !.status = s]]
    BY DEF SetStatus
  <1>3. /\ row'[a].listing = row[a].listing /\ row'[a].createdAt = row[a].createdAt
        /\ row'[a].status \in PurchaseStatus /\ row[a].status \in PurchaseStatus
        /\ \A b \in Attempt \ {a} : row'[b] = row[b]
    BY <1>1, <1>2 DEF Row, TypeInv, TypeOK
  <1>4. row[a] # NoRow /\ row'[a] # NoRow
    BY <1>3 DEF NoRow, PurchaseStatus, ActiveStatus, EndStatus
  <1>5. QED
    BY <1>3, <1>4 DEF Unmoved

(* Every step of a coroutine but its insert leaves the times of rows alone. *)
LEMMA CoroutineUnmoved ==
  ASSUME OneWorkerInv, NEW a \in Attempt, Coroutine(a), ~Claim(a)
  PROVE  \A b \in Attempt : Unmoved(b)
  <1>0. TypeOK /\ TypeInv
    BY DEF OneWorkerInv, SlotInv, TypeInv
  <1>1. ASSUME NEW s \in EndStatus, task[a].pc \in PastInsert, Finish(a, s)
        PROVE  \A b \in Attempt : Unmoved(b)
    BY <1>0, <1>1, StatusUnmoved DEF Finish, PurchaseStatus
  <1>2. CASE NoConnector(a)
    BY <1>1, <1>2 DEF NoConnector, Resumes, PastInsert, EndStatus
  <1>3. CASE StartRevalidate(a)
    BY <1>0, <1>3, StatusUnmoved
       DEF StartRevalidate, Resumes, PastInsert, PurchaseStatus, ActiveStatus
  <1>4. ASSUME NEW s \in GaveUpStatus \union {"failed"}, RevalidateRaises(a, s)
        PROVE  \A b \in Attempt : Unmoved(b)
    BY <1>1, <1>4 DEF RevalidateRaises, Resumes, PastInsert, EndStatus, GaveUpStatus
  <1>5. ASSUME NEW t \in Totals, NEW ok \in BOOLEAN, QuoteRefused(a, t, ok)
        PROVE  \A b \in Attempt : Unmoved(b)
    BY <1>1, <1>5 DEF QuoteRefused, Resumes, PastInsert, EndStatus
  <1>6. ASSUME NEW t \in Totals, QuoteAccepted(a, t)
        PROVE  \A b \in Attempt : Unmoved(b)
    BY <1>0, <1>6, StatusUnmoved
       DEF QuoteAccepted, Resumes, PastInsert, PurchaseStatus, ActiveStatus
  <1>7. CASE CheckoutSucceeds(a)
    <2>1. row[a] \in Row
      BY <1>0, <1>7 DEF CheckoutSucceeds, Resumes, PastInsert, TypeInv, WritersHaveRow
    <2>2. row' = [row EXCEPT ![a] = [row[a] EXCEPT !.status = "purchased",
                                                   !.total = charged[a]]]
      BY <1>7 DEF CheckoutSucceeds
    <2>3. /\ row'[a].listing = row[a].listing /\ row'[a].createdAt = row[a].createdAt
          /\ row'[a].status = "purchased" /\ row[a].status \in PurchaseStatus
          /\ \A b \in Attempt \ {a} : row'[b] = row[b]
      BY <1>0, <2>1, <2>2 DEF Row, TypeOK
    <2>4. row[a] # NoRow /\ row'[a] # NoRow
      BY <2>3 DEF NoRow, PurchaseStatus, ActiveStatus, EndStatus
    <2>5. QED
      BY <2>3, <2>4 DEF Unmoved
  <1>8. ASSUME NEW s \in GaveUpStatus \union {"failed"}, CheckoutFails(a, s)
        PROVE  \A b \in Attempt : Unmoved(b)
    BY <1>1, <1>8 DEF CheckoutFails, Resumes, PastInsert, EndStatus, GaveUpStatus
  <1>9. CASE row' = row
    BY <1>9 DEF Unmoved
  <1>10. QED
    BY <1>2, <1>3, <1>4, <1>5, <1>6, <1>7, <1>8, <1>9
       DEF Coroutine, HotPathAccepts, HotPathRefuses, ClaimBlocked, CallCheckout, UpdateBlocked

LEMMA ReconciledUnmoved ==
  ASSUME TypeInv, NEW w \in Worker, NEW a \in Attempt, ReconcileRow(w, a)
  PROVE  \A b \in Attempt : Unmoved(b)
  BY ReconciledFields DEF Unmoved, Row, NoRow, PurchaseStatus, ActiveStatus, EndStatus

LEMMA Times ==
  ASSUME TypeOK, NEW b \in Attempt
  PROVE  row[b].createdAt \in Nat /\ clock \in Nat /\ CooldownSeconds \in Nat
  BY ConstantsAssumption DEF TypeOK, Row, NoRow

LEMMA UnmovedKeepsCooldown ==
  ASSUME CooldownKept, \A b \in Attempt : Unmoved(b)
  PROVE  CooldownKept'
  BY DEF CooldownKept, Unmoved

(* The one step that creates a row. *)
LEMMA ClaimKeepsCooldown ==
  ASSUME OneWorkerInv, CooldownInv, NEW a \in Attempt, Claim(a)
  PROVE  CooldownInv'
  <1>0. TypeOK /\ OneUnyielded /\ CooldownKept /\ DecidedCooled
    BY DEF OneWorkerInv, OneWriterInv, SlotInv, TypeInv, CooldownInv
  <1>1. /\ row'[a].listing = task[a].listing /\ row'[a].createdAt = clock
        /\ \A b \in Attempt \ {a} : row'[b] = row[b]
        /\ task[a].pc = "decided" /\ clock' = clock
    BY <1>0 DEF Claim, Resumes, TypeOK
  <1>2. CooldownKept'
    <2>1. CooledDown(task[a].listing)
      BY <1>0, <1>1 DEF DecidedCooled
    <2>2. \A b \in Attempt \ {a} :
            row[b].listing = row'[a].listing => row[b].createdAt + CooldownSeconds <= clock
      BY <1>1, <2>1 DEF CooledDown
    <2>3. QED
      BY <1>0, <1>1, <2>2 DEF CooldownKept
  <1>3. DecidedCooled'
    <2>1. task'[a].pc = "claimed" /\ \A b \in Attempt \ {a} : task'[b] = task[b]
      BY <1>0, <1>1, MovedFields DEF Claim, Pc
    <2>2. \A b \in Attempt : task'[b].pc # "decided"
      BY <1>0, <1>1, <2>1 DEF OneUnyielded
    <2>3. QED
      BY <2>2 DEF DecidedCooled
  <1>4. QED
    BY <1>2, <1>3 DEF CooldownInv

LEMMA CooldownStep ==
  ASSUME OneWorkerInv, CooldownInv, [Next]_vars
  PROVE  CooldownInv'
  <1>0. TypeOK /\ TypeInv /\ CooldownKept /\ DecidedCooled
    BY DEF OneWorkerInv, SlotInv, TypeInv, CooldownInv
  <1>1. ASSUME NEW a \in Attempt, Claim(a)
        PROVE  CooldownInv'
    BY <1>1, ClaimKeepsCooldown
  <1>2. ASSUME \A b \in Attempt : Unmoved(b), clock' \in Nat, clock' >= clock,
               \A b \in Attempt : task'[b].pc = "decided" =>
                 \/ task[b].pc = "decided" /\ task'[b].listing = task[b].listing
                 \/ CooledDown(task'[b].listing)
        PROVE  CooldownInv'
    <2>1. CooldownKept'
      BY <1>0, <1>2, UnmovedKeepsCooldown
    <2>2. ASSUME NEW b \in Attempt, task'[b].pc = "decided",
                 NEW c \in Attempt, row'[c].listing = task'[b].listing
          PROVE  row'[c].createdAt + CooldownSeconds <= clock'
      <3> DEFINE l == task'[b].listing
      <3>1. CooledDown(l)
        BY <1>0, <1>2, <2>2 DEF DecidedCooled
      <3>2. row'[c].listing = l
        BY <2>2
      <3> HIDE DEF l
      <3>3. row[c].listing = l /\ row'[c].createdAt = row[c].createdAt
        BY <1>2, <3>2 DEF Unmoved
      <3>4. row[c].createdAt + CooldownSeconds <= clock
        BY <3>1, <3>3 DEF CooledDown
      <3>5. QED
        BY <1>0, <1>2, <3>3, <3>4, Times
    <2>3. DecidedCooled'
      BY <2>2 DEF DecidedCooled, CooledDown
    <2>4. QED
      BY <2>1, <2>3 DEF CooldownInv
  <1>3. clock \in Nat
    BY <1>0 DEF TypeOK
  <1>4. ASSUME NEW a \in Attempt, Coroutine(a), ~Claim(a)
        PROVE  CooldownInv'
    <2>1. \A b \in Attempt : Unmoved(b)
      BY <1>4, CoroutineUnmoved
    <2>2. clock' = clock
      BY <1>4 DEF Coroutine, HotPathAccepts, HotPathRefuses, ClaimBlocked, NoConnector,
                  StartRevalidate, RevalidateRaises, QuoteRefused, QuoteAccepted,
                  CallCheckout, CheckoutSucceeds, CheckoutFails, UpdateBlocked
    <2>3. CASE HotPathAccepts(a)
      <3>1. /\ task'[a].listing = task[a].listing
            /\ \A b \in Attempt \ {a} : task'[b] = task[b]
            /\ CooledDown(task[a].listing)
        BY <1>0, <2>3, MovedFields DEF HotPathAccepts, Resumes, Pc, Proceeds
      <3>2. QED
        BY <1>2, <1>3, <2>1, <2>2, <3>1
    <2>4. CASE ~HotPathAccepts(a)
      <3>1. Shape(a)
        BY <1>4, CoroutineShape
      <3>2. ~Decides(a)
        <4>1. SUFFICES ASSUME task[a].pc = "queued", task'[a].pc = "decided"
                       PROVE  FALSE
          BY DEF Decides
        <4>2. HotPathRefuses(a)
          BY <1>4, <2>4, <4>1
             DEF Coroutine, ClaimBlocked, NoConnector, StartRevalidate, RevalidateRaises,
                 QuoteRefused, QuoteAccepted, CallCheckout, CheckoutSucceeds, CheckoutFails,
                 UpdateBlocked, Resumes
        <4>3. task'[a] = NoTask
          BY <1>0, <4>2 DEF HotPathRefuses, TypeOK
        <4>4. QED
          BY <4>1, <4>3 DEF NoTask
      <3>3. task'[a].pc = "decided" => FALSE
        BY <3>1, <3>2 DEF Shape, Ends, Inserts, Advances, NoTask, PastInsert
      <3>4. \A b \in Attempt \ {a} : task'[b] = task[b]
        BY <3>1 DEF Shape
      <3>5. QED
        BY <1>2, <1>3, <2>1, <2>2, <3>3, <3>4
    <2>5. QED
      BY <2>3, <2>4
  <1>5. ASSUME NEW w \in Worker, Process(w)
        PROVE  CooldownInv'
    <2>1. \A b \in Attempt : Unmoved(b)
      BY <1>0, <1>5, ReconciledUnmoved
         DEF Process, Start, EnterLoop, Stop, Drained, Crash, Unmoved
    <2>2. /\ clock' = clock
          /\ \A b \in Attempt : task'[b] = task[b] \/ task'[b] = NoTask
      BY <1>5 DEF Process, Start, ReconcileRow, EnterLoop, Stop, Drained, Crash,
                  WithoutTasksOf
    <2>3. QED
      BY <1>2, <1>3, <2>1, <2>2 DEF NoTask
  <1>6. ASSUME NEW w \in Worker, NEW a \in Attempt, NEW l \in Listing,
               NEW t \in Totals, NEW ok \in BOOLEAN, TickFires(w, a, l, t, ok)
        PROVE  CooldownInv'
    <2>1. /\ task'[a].pc = "queued" /\ \A b \in Attempt \ {a} : task'[b] = task[b]
          /\ row' = row /\ clock' = clock
      BY <1>0, <1>6 DEF TickFires, TypeOK
    <2>2. QED
      BY <1>2, <1>3, <2>1 DEF Unmoved
  <1>7. CASE \/ \E a \in Attempt, t \in Totals : MerchantTakesOrder(a, t)
             \/ \E a \in Attempt : OrphanThreadEnds(a)
             \/ FlipKillSwitch \/ AdvanceClock \/ UNCHANGED vars
    <2>1. row' = row /\ task' = task /\ clock' \in Nat /\ clock' >= clock
      BY <1>3, <1>7
         DEF MerchantTakesOrder, OrphanThreadEnds, FlipKillSwitch, AdvanceClock, vars
    <2>2. QED
      BY <1>2, <2>1 DEF Unmoved
  <1>8. QED
    BY <1>1, <1>4, <1>5, <1>6, <1>7 DEF Next

(* Two attempts on one listing are at least the cooldown apart, whatever
   crashes, restarts and overlapping coroutines come in between. *)
THEOREM CooldownAlwaysKept ==
  ASSUME ExclusivePidfile
  PROVE  Spec => []CooldownKept
  <1>1. Init => CooldownInv
    BY DEF Init, CooldownInv, CooldownKept, DecidedCooled, NoTask
  <1>2. SlotInv /\ OneWriterInv /\ CooldownInv /\ [Next]_vars => CooldownInv'
    BY CooldownStep DEF OneWorkerInv
  <1>3. CooldownInv => CooldownKept
    BY DEF CooldownInv
  <1>4. QED
    BY <1>1, <1>2, <1>3, SlotInvariant, OneWriter, PTL DEF Spec

-----------------------------------------------------------------------------
(* The order.  A thread may outlive its coroutine, so what is known of an    *)
(* order has to be told from the call in flight and from the row alone.      *)

WithinCaps(t, l) == t <= MaxPrice[l] /\ t <= MaxOrderEur

Order(a) ==
  /\ task[a].pc \in {"notifying", "checkout"} => row[a].status = "checkout_started"
  /\ task[a].pc = "notifying" => WithinCaps(task[a].total, row[a].listing)
  /\ call[a] # NoCall =>
       /\ task[a].pc \in {"none", "checkout"}
       /\ row[a].status \in {"checkout_started", "failed"}
       /\ WithinCaps(call[a].total, row[a].listing)
  /\ charged[a] > 0 =>
       /\ task[a].pc \in {"none", "checkout"}
       /\ row[a].status \in {"checkout_started"} \union (EndStatus \ {"cancelled"})
  /\ row[a].status = "purchased" => charged[a] > 0 /\ row[a].total = charged[a]

OrderInv == \A a \in Attempt : Order(a)

(* Losing the coroutine, the thread, or both changes nothing of an order. *)
LEMMA OrderSame ==
  ASSUME NEW b \in Attempt, Order(b), row'[b] = row[b], charged'[b] = charged[b],
         task'[b] \in {task[b], NoTask}, call'[b] \in {call[b], NoCall}
  PROVE  Order(b)'
  BY DEF Order, NoTask

(* A coroutine that has not called the merchant has no order. *)
LEMMA NotOrdered ==
  ASSUME OneWorkerInv, NEW a \in Attempt, Order(a),
         task[a].pc \in {"queued", "decided", "claimed", "revalidating", "notifying"}
  PROVE  call[a] = NoCall /\ charged[a] = 0 /\ row[a].status # "purchased"
  <1>1. charged[a] \in Nat
    BY DEF OneWorkerInv, SlotInv, TypeInv, TypeOK
  <1>2. call[a] = NoCall /\ ~(charged[a] > 0)
    BY DEF Order
  <1>3. QED
    BY <1>1, <1>2 DEF Order

(* _finish of an attempt whose order, if it has one, is not filed as cancelled. *)
LEMMA FinishOrder ==
  ASSUME OneWorkerInv, NEW a \in Attempt, Order(a), task[a].pc \in PastInsert,
         NEW s \in EndStatus \ {"purchased"}, Finish(a, s), charged' = charged,
         charged[a] > 0 => s # "cancelled",
         call'[a] = NoCall \/ (call[a] = NoCall /\ call'[a] = call[a])
  PROVE  Order(a)'
  <1>1. TypeOK /\ TypeInv
    BY DEF OneWorkerInv, SlotInv, TypeInv
  <1>2. row'[a].status = s /\ row'[a].listing = row[a].listing
    BY <1>1, StatusFields DEF Finish, PurchaseStatus
  <1>3. task'[a] = NoTask
    BY <1>1 DEF Finish, TypeOK
  <1>4. QED
    BY <1>2, <1>3 DEF Order, NoTask

LEMMA CoroutineOrder ==
  ASSUME OneWorkerInv, NEW a \in Attempt, Order(a), Coroutine(a)
  PROVE  Order(a)'
  <1>0. /\ TypeOK /\ TypeInv /\ StatusFollowsTask /\ ListingFollowsTask
        /\ charged[a] \in Nat /\ task \in [Attempt -> Task \union {NoTask}]
    BY DEF OneWorkerInv, OneWriterInv, SlotInv, TypeInv, TypeOK
  <1>1. CASE HotPathAccepts(a)
    <2>1. task'[a].pc = "decided"
      BY <1>0, <1>1, MovedFields DEF HotPathAccepts, Resumes, Pc
    <2>2. QED
      BY <1>1, <2>1, NotOrdered DEF HotPathAccepts, Resumes, Order
  <1>2. CASE HotPathRefuses(a) \/ ClaimBlocked(a)
    BY <1>0, <1>2, OrderSame DEF HotPathRefuses, ClaimBlocked
  <1>3. CASE Claim(a)
    <2>1. task'[a].pc = "claimed" /\ row'[a].status = "created"
      BY <1>0, <1>3, MovedFields DEF Claim, Resumes, Pc, TypeOK
    <2>2. QED
      BY <1>3, <2>1, NotOrdered DEF Claim, Resumes, Order
  <1>4. CASE NoConnector(a)
    <2>1. call[a] = NoCall
      BY <1>4, NotOrdered DEF NoConnector, Resumes
    <2>2. QED
      BY <1>4, <2>1, FinishOrder DEF NoConnector, Resumes, PastInsert, EndStatus
  <1>5. CASE StartRevalidate(a)
    <2>1. task'[a].pc = "revalidating"
      BY <1>0, <1>5, MovedFields DEF StartRevalidate, Resumes, Pc
    <2>2. row'[a].status = "validating"
      BY <1>0, <1>5, StatusFields
         DEF StartRevalidate, Resumes, PastInsert, PurchaseStatus, ActiveStatus
    <2>3. QED
      BY <1>5, <2>1, <2>2, NotOrdered DEF StartRevalidate, Resumes, Order
  <1>6. ASSUME NEW s \in GaveUpStatus \union {"failed"}, RevalidateRaises(a, s)
        PROVE  Order(a)'
    <2>1. call[a] = NoCall /\ charged[a] = 0
      BY <1>6, NotOrdered DEF RevalidateRaises, Resumes
    <2>2. QED
      BY <1>6, <2>1, FinishOrder
         DEF RevalidateRaises, Resumes, PastInsert, EndStatus, GaveUpStatus
  <1>7. ASSUME NEW t \in Totals, NEW ok \in BOOLEAN, QuoteRefused(a, t, ok)
        PROVE  Order(a)'
    <2>1. call[a] = NoCall /\ charged[a] = 0
      BY <1>7, NotOrdered DEF QuoteRefused, Resumes
    <2>2. QED
      BY <1>7, <2>1, FinishOrder DEF QuoteRefused, Resumes, PastInsert, EndStatus
  <1>8. ASSUME NEW t \in Totals, QuoteAccepted(a, t)
        PROVE  Order(a)'
    <2>1. task' = [task EXCEPT ![a] = [task[a] EXCEPT !.pc = "notifying", !.total = t]]
      BY <1>8 DEF QuoteAccepted
    <2>2. task[a] \in Task
      BY <1>0, <1>8, LiveTask DEF QuoteAccepted, Resumes
    <2>3. task'[a].pc = "notifying" /\ task'[a].total = t
      BY <1>0, <2>1, <2>2 DEF Task
    <2>4. row'[a].status = "checkout_started" /\ row'[a].listing = row[a].listing
      BY <1>0, <1>8, StatusFields
         DEF QuoteAccepted, Resumes, PastInsert, PurchaseStatus, ActiveStatus
    <2>5. WithinCaps(t, row[a].listing)
      BY <1>0, <1>8 DEF QuoteAccepted, QuoteAcceptable, Resumes, ListingFollowsTask,
                        PastInsert, WithinCaps
    <2>6. QED
      BY <1>8, <2>3, <2>4, <2>5, NotOrdered DEF QuoteAccepted, Resumes, Order
  <1>9. CASE CallCheckout(a)
    <2>1. task'[a].pc = "checkout"
      BY <1>0, <1>9, MovedFields DEF CallCheckout, Resumes, Pc
    <2>2. call'[a].total = task[a].total
      BY <1>0, <1>9 DEF CallCheckout, TypeOK
    <2>3. row' = row /\ charged' = charged /\ task[a].pc = "notifying"
      BY <1>9 DEF CallCheckout, Resumes
    <2>4. QED
      BY <2>1, <2>2, <2>3, NotOrdered DEF Order
  <1>10. CASE CheckoutSucceeds(a)
    <2>1. row[a] \in Row
      BY <1>0, <1>10 DEF CheckoutSucceeds, Resumes, PastInsert, TypeInv, WritersHaveRow
    <2>2. row' = [row EXCEPT ![a] = [row[a] EXCEPT !.status = "purchased",
                                                   !.total = charged[a]]]
      BY <1>10 DEF CheckoutSucceeds
    <2>3. /\ row'[a].listing = row[a].listing /\ row'[a].status = "purchased"
          /\ row'[a].total = charged[a]
      BY <1>0, <2>1, <2>2 DEF Row, TypeOK
    <2>4. /\ task'[a] = NoTask /\ call'[a] = NoCall
          /\ charged' = charged /\ charged[a] > 0
      BY <1>0, <1>10 DEF CheckoutSucceeds, TypeOK
    <2>5. QED
      BY <2>3, <2>4 DEF Order, NoTask, EndStatus
  <1>11. ASSUME NEW s \in GaveUpStatus \union {"failed"}, CheckoutFails(a, s)
         PROVE  Order(a)'
    <2>1. call'[a] = NoCall
      BY <1>0, <1>11 DEF CheckoutFails, TypeOK
    <2>2. QED
      BY <1>11, <2>1, FinishOrder
         DEF CheckoutFails, Resumes, PastInsert, EndStatus, GaveUpStatus
  <1>12. CASE UpdateBlocked(a)
    BY <1>12, OrderSame DEF UpdateBlocked, WithoutTasksOf
  <1>13. QED
    BY <1>1, <1>2, <1>3, <1>4, <1>5, <1>6, <1>7, <1>8, <1>9, <1>10, <1>11, <1>12
       DEF Coroutine

LEMMA OrderStep ==
  ASSUME ExclusivePidfile, OneWorkerInv, OrderInv, [Next]_vars
  PROVE  OrderInv'
  <1>0. TypeOK /\ TypeInv /\ StatusFollowsTask
    BY DEF OneWorkerInv, OneWriterInv, SlotInv, TypeInv
  <1> SUFFICES ASSUME NEW b \in Attempt PROVE Order(b)'
    BY DEF OrderInv
  <1>00. Order(b)
    BY DEF OrderInv
  <1>1. ASSUME NEW a \in Attempt, Coroutine(a)
        PROVE  Order(b)'
    <2>1. CASE a = b
      BY <1>00, <1>1, <2>1, CoroutineOrder
    <2>2. CASE a # b
      <3>1. row'[b] = row[b] /\ task'[b] = task[b]
        BY <1>1, <2>2, CoroutineShape DEF Shape
      <3>2. charged' = charged /\ call'[b] = call[b]
        BY <1>0, <1>1, <2>2
           DEF TypeOK, Coroutine, HotPathAccepts, HotPathRefuses, Claim, ClaimBlocked,
               NoConnector, StartRevalidate, RevalidateRaises, QuoteRefused, QuoteAccepted,
               CallCheckout, CheckoutSucceeds, CheckoutFails, UpdateBlocked
      <3>3. QED
        BY <1>00, <3>1, <3>2, OrderSame
    <2>3. QED
      BY <2>1, <2>2
  <1>2. ASSUME NEW w \in Worker, NEW a \in Attempt, NEW l \in Listing,
               NEW t \in Totals, NEW ok \in BOOLEAN, TickFires(w, a, l, t, ok)
        PROVE  Order(b)'
    <2>1. row' = row /\ call' = call /\ charged' = charged
      BY <1>2 DEF TickFires
    <2>2. CASE a = b
      <3>1. row[b].status = "none" /\ task'[b].pc = "queued" /\ task[b].pc = "none"
        BY <1>0, <1>2, <2>2 DEF TickFires, TypeOK, NoRow, NoTask
      <3>2. QED
        BY <1>00, <2>1, <3>1 DEF Order, EndStatus
    <2>3. CASE a # b
      BY <1>0, <1>00, <1>2, <2>1, <2>3, OrderSame DEF TickFires, TypeOK
    <2>4. QED
      BY <2>2, <2>3
  <1>3. ASSUME NEW a \in Attempt, NEW t \in Totals, MerchantTakesOrder(a, t)
        PROVE  Order(b)'
    <2>1. CASE a = b
      <3>1. /\ row' = row /\ task' = task /\ call' = call
            /\ call[b] # NoCall
        BY <1>0, <1>3, <2>1 DEF MerchantTakesOrder, TypeOK
      <3>2. QED
        BY <1>00, <3>1 DEF Order, EndStatus
    <2>2. CASE a # b
      BY <1>0, <1>00, <1>3, <2>2, OrderSame DEF MerchantTakesOrder, TypeOK
    <2>3. QED
      BY <2>1, <2>2
  <1>4. ASSUME NEW a \in Attempt, OrphanThreadEnds(a)
        PROVE  Order(b)'
    BY <1>0, <1>00, <1>4, OrderSame DEF OrphanThreadEnds, TypeOK
  <1>5. ASSUME NEW w \in Worker, NEW a \in Attempt, ReconcileRow(w, a)
        PROVE  Order(b)'
    <2>1. mode[w] = "starting" /\ task' = task /\ call' = call /\ charged' = charged
      BY <1>5 DEF ReconcileRow
    <2>2. task[b].pc \notin Pc
      BY <2>1, NobodyLeft
    <2>3. \/ row'[b] = row[b]
          \/ row'[b].listing = row[b].listing /\ row'[b].status = "failed"
      BY <1>0, <1>5, ReconciledFields
    <2>4. QED
      BY <1>00, <2>1, <2>2, <2>3 DEF Order, Pc, EndStatus
  <1>6. ASSUME NEW w \in Worker,
               Start(w) \/ EnterLoop(w) \/ Stop(w) \/ Drained(w) \/ Crash(w)
        PROVE  Order(b)'
    BY <1>00, <1>6, OrderSame
       DEF Start, EnterLoop, Stop, Drained, Crash, WithoutTasksOf, WithoutCallsOf
  <1>7. CASE FlipKillSwitch \/ AdvanceClock \/ UNCHANGED vars
    BY <1>00, <1>7, OrderSame DEF FlipKillSwitch, AdvanceClock, vars
  <1>8. QED
    BY <1>1, <1>2, <1>3, <1>4, <1>5, <1>6, <1>7 DEF Next, Process

LEMMA OrderInvariant ==
  ASSUME ExclusivePidfile
  PROVE  Spec => []OrderInv
  <1>1. Init => OrderInv
    BY DEF Init, OrderInv, Order, NoTask, NoRow, NoCall
  <1>2. SlotInv /\ OneWriterInv /\ OrderInv /\ [Next]_vars => OrderInv'
    BY OrderStep DEF OneWorkerInv
  <1>3. QED
    BY <1>1, <1>2, SlotInvariant, OneWriter, PTL DEF Spec

(* checkout() is called with a quote within the rule's max_price and the cap per
   order, even when the thread that orders has outlived its coroutine, and a
   purchase records what was charged. *)
THEOREM CheckoutsAreCapped ==
  ASSUME ExclusivePidfile
  PROVE  Spec => []CheckoutsWithinCaps
  <1>1. OrderInv => CheckoutsWithinCaps
    BY DEF OrderInv, Order, CheckoutsWithinCaps, WithinCaps
  <1>2. QED
    BY <1>1, OrderInvariant, PTL

(* An order that exists is never filed as cancelled, nor as one yet to come. *)
THEOREM OrdersStayOnRecord ==
  ASSUME ExclusivePidfile
  PROVE  Spec => []OrdersAreOnRecord
  <1>1. OrderInv => OrdersAreOnRecord
    BY DEF OrderInv, Order, OrdersAreOnRecord
  <1>2. QED
    BY <1>1, OrderInvariant, PTL
=============================================================================
