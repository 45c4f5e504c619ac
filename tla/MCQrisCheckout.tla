--------------------------- MODULE MCQrisCheckout ---------------------------
(* QrisCheckout on two products, two checkouts and two polls.              *)
EXTENDS QrisCheckout, TLC

CONSTANTS s1, s2, k1, k2, rice, soap

MCStock == rice :> 2 @@ soap :> 1

Want(p, q) == [product |-> p, qty |-> q]

(* One line that leaves some stock, a cart of two lines, and one that      *)
(* names a product twice.                                                  *)
MCOrders ==
  {[cart |-> <<Want(rice, 1)>>, tender |-> "QRIS"],
   [cart |-> <<Want(rice, 2), Want(soap, 1)>>, tender |-> "CASH"],
   [cart |-> <<Want(rice, 1), Want(soap, 1)>>, tender |-> "QRIS"],
   [cart |-> <<Want(rice, 1), Want(rice, 1)>>, tender |-> "QRIS_LABEL"],
   [cart |-> <<Want(soap, 1)>>, tender |-> "QRIS_FREE"],
   [cart |-> <<Want(soap, 1)>>, tender |-> "QRIS_LABEL"]}

(* The QRIS orders: one line, and two lines that take the last soap.       *)
QrisOrders ==
  {[cart |-> <<Want(rice, 1)>>, tender |-> "QRIS"],
   [cart |-> <<Want(rice, 1), Want(soap, 1)>>, tender |-> "QRIS"]}
=============================================================================
