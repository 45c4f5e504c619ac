------------------------------ MODULE Inventory ------------------------------
(***************************************************************************)
(* Purchase orders, stock mutations and sales returns at work on the same  *)
(* stock and the same ledger.                                              *)
(***************************************************************************)
EXTENDS PurchaseOrders, StockMutations, SalesReturns

vars == <<moveVars, placed, returnVars>>

Init ==
  /\ MovesInit
  /\ placed = {}
  /\ status \in [Documents -> {"NONE", "PENDING", "COMPLETED"}]
  /\ \A d \in Documents : d \in Sales <=> status[d] # "NONE"
  /\ ReturnsInit

Next ==
  \/ OrderStep /\ UNCHANGED returnVars
  \/ MutationStep /\ UNCHANGED <<placed, returnVars>>
  \/ ReturnStep /\ UNCHANGED placed
  \/ \E r \in Requests : MoveStep(r) /\ UNCHANGED <<placed, returnVars>>

Spec == Init /\ [][Next]_vars

-----------------------------------------------------------------------------
Statuses(d) ==
  CASE d \in Orders    -> {"NONE", "DRAFT", "RECEIVED", "CANCELLED"}
    [] d \in Mutations -> {"NONE", "PENDING", "APPLIED", "APPROVED", "REJECTED"}
    [] d \in Sales     -> {"PENDING", "COMPLETED", "VOID"}

TypeOK ==
  /\ MovesTypeOK
  /\ \A d \in Documents : status[d] \in Statuses(d)
  /\ ReturnsTypeOK
  /\ placed \subseteq Orders

(* No mutation takes what the outlet does not have, whatever runs besides  *)
(* it (the guarded updateMany of decrementOutletStock).                    *)
StockNeverNegative == \A p \in Products : stock[p] >= 0

LinesOf(d) == IF d \in Orders THEN Ordered[d] ELSE <<Delta[d]>>
Applied    == {"RECEIVED", "APPLIED", "APPROVED"}

(* An order or a mutation that no two requests worked on at a time has     *)
(* moved its goods exactly once if its status says so, and not at all if   *)
(* it is open, cancelled or rejected.                                      *)
AppliedAsDecided ==
  \A d \in (Orders \cup Mutations) \ contested :
    ledger[d] = IF status[d] \in Applied THEN Total(LinesOf(d)) ELSE [p \in Products |-> 0]

(* What came back of a sale is at most what it sold, and once more for     *)
(* each further void by a poll that overlaps.  createSalesReturn ensures   *)
(* it except when two returns overlap or one names a product twice; the    *)
(* returns of a sale that was not paid yet come on top of its voiding.     *)
GoodsBackOncePerVoid ==
  \A s \in Sales \ (contested \cup listed), p \in Products :
    ledger[s][p] <= Bought[s][p] * (voids[s] + IF voids[s] = 0 \/ s \in unpaid THEN 1 ELSE 0)

(* The part of a stock level that the ledger's entries do not explain.     *)
Gap(p) ==
  stock[p] - InitialStock[p] - MapThenSumSet(LAMBDA d : ledger[d][p], Mutations \cup Sales \cup placed)

(* The stock is what the ledger's entries for the outlet add up to, but    *)
(* for goods that a void has put back and not logged yet, or never will.   *)
LedgerExplainsStock ==
  \A p \in Products : Gap(p) >= 0 /\ (Gap(p) > 0 => p \in torn \/ Unlogged(p))

(* The latest entry of a row names its stock, unless the row moved between *)
(* the read and the end of a reception or of a return, or between a void's *)
(* update and its entry, or such an entry is still or for ever missing.    *)
LatestEntryIsStock ==
  \A p \in Products \ (crossed \cup torn) : ~Unlogged(p) => latest[p] = stock[p]

(* A decision stands: an order or a mutation that no two requests worked   *)
(* on at a time never leaves a decided status.                             *)
DecisionsStand ==
  [][\A d \in (Orders \cup Mutations) \ contested' :
       status[d] \in Applied \cup {"CANCELLED", "REJECTED"} => status'[d] = status[d]]_vars
=============================================================================
