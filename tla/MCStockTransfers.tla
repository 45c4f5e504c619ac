-------------------------- MODULE MCStockTransfers --------------------------
(* StockTransfers on two outlets, two products, two transfers.             *)
EXTENDS StockTransfers, TLC

CONSTANTS main, branch, rice, soap, t1, t2, r1, r2

MCStock == main :> (rice :> 2 @@ soap :> 1) @@ branch :> (rice :> 0 @@ soap :> 1)

Take(p, q) == [product |-> p, qty |-> q]

(* A line each way, and two pairs of lines in opposite orders.             *)
MCPlans ==
  {[from |-> main, to |-> branch, items |-> <<Take(rice, 2)>>],
   [from |-> branch, to |-> main, items |-> <<Take(soap, 1)>>],
   [from |-> main, to |-> branch, items |-> <<Take(rice, 1), Take(soap, 1)>>],
   [from |-> main, to |-> branch, items |-> <<Take(soap, 1), Take(rice, 1)>>]}
=============================================================================
