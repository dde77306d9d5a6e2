---------------------------- MODULE ProductSlot ----------------------------
(***************************************************************************)
(* What the purchase path promises about one product, whatever the number  *)
(* of merchants that sell it (database/models.py::PurchaseAttempt): a      *)
(* product is held by at most one attempt at a time, it is given back when *)
(* that attempt ends without a purchase, once bought it is never taken     *)
(* again, and no attempt ever gets a second chance.                        *)
(***************************************************************************)
CONSTANTS Product, Attempt, NoAttempt

VARIABLES
  holder,  \* the attempt that holds, or bought, each product
  bought,  \* products bought
  used     \* attempts that have held a product

vars == <<holder, bought, used>>

Init ==
  /\ holder = [p \in Product |-> NoAttempt]
  /\ bought = {}
  /\ used = {}

Claim(p, a) ==
  /\ holder[p] = NoAttempt
  /\ a \notin used
  /\ holder' = [holder EXCEPT ![p] = a]
  /\ used' = used \union {a}
  /\ UNCHANGED bought

\* An attempt ends without a purchase.
Release(p) ==
  /\ holder[p] # NoAttempt
  /\ p \notin bought
  /\ holder' = [holder EXCEPT ![p] = NoAttempt]
  /\ UNCHANGED <<bought, used>>

Buy(p) ==
  /\ holder[p] # NoAttempt
  /\ p \notin bought
  /\ bought' = bought \union {p}
  /\ UNCHANGED <<holder, used>>

Next ==
  \/ \E p \in Product, a \in Attempt : Claim(p, a)
  \/ \E p \in Product : Release(p) \/ Buy(p)

Spec == Init /\ [][Next]_vars
=============================================================================
