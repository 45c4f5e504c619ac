----------------------------- MODULE MCInventory -----------------------------
(* Inventory on two products: an order that names one of them twice, a     *)
(* mutation that takes more than there is at first, and a sale.            *)
EXTENDS Inventory, TLC

CONSTANTS rice, soap, o1, m1, s1, r1, r2, k1, k2

Of(p, q) == [product |-> p, qty |-> q]

MCStock   == rice :> 1 @@ soap :> 0
MCOrdered == o1 :> <<Of(rice, 1), Of(soap, 1), Of(rice, 1)>>
MCDelta   == m1 :> Of(rice, -2)
MCBought  == s1 :> (rice :> 1 @@ soap :> 0)

(* What was bought.                                                        *)
MCReturns == {<<Of(rice, 1)>>}

(* Requests are interchangeable and so are polls; no property here is a    *)
(* liveness property.                                                      *)
AnyOne == Permutations(Requests) \cup Permutations(Polls)
=============================================================================
