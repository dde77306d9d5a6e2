---------------------------- MODULE MCMonitoring ----------------------------
(* Instances of Monitoring for TLC: two rules on one merchant, whose backoff
   they share, and two prices. *)
EXTENDS Monitoring, TLC

CONSTANT shop

OneMerchant  == {shop}
SameMerchant == [r \in Rule |-> shop]

\* The listing of rule 1 changes, and once shows another product; the one of
\* rule 2 never changes.
Offers ==
  [r \in Rule |->
     IF r = 1
     THEN {[available |-> TRUE,  price |-> 1, matched |-> TRUE],
           [available |-> FALSE, price |-> 2, matched |-> TRUE],
           [available |-> FALSE, price |-> 2, matched |-> FALSE]}
     ELSE {[available |-> TRUE, price |-> 1, matched |-> TRUE]}]

ThreeAndOne == [r \in Rule |-> IF r = 1 THEN 3 ELSE 1]
=============================================================================
