---------------------------- MODULE MCPurchase ----------------------------
(* Instances of PurchaseEngine for TLC: a product sold by two merchants and,
   in the larger shops, a product sold by one. *)
EXTENDS PurchaseEngine, TLC

CONSTANTS l1, l2, l3, console, game

\* One product on two listings.
TwoListings == {l1, l2}
OneProduct == {console}
TwoListingsOf == [l \in TwoListings |-> console]
TwoListingsMax == (l1 :> 3) @@ (l2 :> 2)

\* Two products, the first on two listings.
ThreeListings == {l1, l2, l3}
TwoProducts == {console, game}
ThreeListingsOf == (l1 :> console) @@ (l2 :> console) @@ (l3 :> game)
ThreeListingsMax == (l1 :> 3) @@ (l2 :> 2) @@ (l3 :> 4)

\* Attempts are only compared with each other, and so are workers.
Interchangeable == Permutations(Attempt) \union Permutations(Worker)
=============================================================================
