----------------------------- MODULE MCAccounts -----------------------------
(* Accounts with somebody who registers and somebody who is registered;    *)
(* one of them keeps working for free.                                     *)
EXTENDS Accounts, TLC

CONSTANTS a1, a2, r1, r2, cashier, manager

(* Requests are interchangeable; no liveness is checked.                   *)
AnyRequest == Permutations(Requests)
=============================================================================
