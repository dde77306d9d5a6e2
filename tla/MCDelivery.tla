----------------------------- MODULE MCDelivery -----------------------------
(* Instances of NotificationDelivery for TLC: two alerts about one subject, so
   that the cooldown can hold the second one back. *)
EXTENDS NotificationDelivery, TLC

CONSTANTS e1, e2, s1, w1, w2

TwoEvents  == {e1, e2}
OneEvent   == {e1}
OneSubject == {s1}
TwoSweeps  == {w1, w2}
OneSweep   == {w1}

\* Events are only compared with each other, and so are sweeps.
Interchangeable == Permutations(Event) \union Permutations(Sweep)
=============================================================================
