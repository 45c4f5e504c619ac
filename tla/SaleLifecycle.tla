--------------------------- MODULE SaleLifecycle ---------------------------
(***************************************************************************)
(* What the checkout, the status poll and Midtrans promise together about  *)
(* a transaction: it is recorded once, COMPLETED or PENDING; a PENDING one *)
(* is settled only after Midtrans was paid and voided only after the       *)
(* payment failed; COMPLETED and VOID are final.                           *)
(***************************************************************************)
CONSTANT Sales

VARIABLES
  status,    \* [Sales -> "NONE" | "PENDING" | "COMPLETED" | "VOID"]
  payment    \* [Sales -> "open" | "settlement" | "failure"]

vars == <<status, payment>>

Init ==
  /\ status = [s \in Sales |-> "NONE"]
  /\ payment = [s \in Sales |-> "open"]

(* A transaction appears, paid on the spot or waiting for a QRIS payment.  *)
Appear(s) ==
  /\ status[s] = "NONE"
  /\ \E x \in {"PENDING", "COMPLETED"} : status' = [status EXCEPT ![s] = x]
  /\ UNCHANGED payment

(* Midtrans reaches its verdict, once.                                     *)
Decide(s) ==
  /\ payment[s] = "open"
  /\ \E x \in {"settlement", "failure"} : payment' = [payment EXCEPT ![s] = x]
  /\ UNCHANGED status

Settle(s) ==
  /\ status[s] = "PENDING" /\ payment[s] = "settlement"
  /\ status' = [status EXCEPT ![s] = "COMPLETED"]
  /\ UNCHANGED payment

Release(s) ==
  /\ status[s] = "PENDING" /\ payment[s] = "failure"
  /\ status' = [status EXCEPT ![s] = "VOID"]
  /\ UNCHANGED payment

Next == \E s \in Sales : Appear(s) \/ Decide(s) \/ Settle(s) \/ Release(s)

Spec == Init /\ [][Next]_vars
=============================================================================
