--------------------------- MODULE PurchaseOrders ---------------------------
(* Purchase orders: created as drafts, received once or cancelled.         *)
EXTENDS StockMoves

CONSTANT Ordered   \* [Orders -> Seq(Line)]

ASSUME OrderedAssumption ==
  Ordered \in [Orders -> {l \in Seq(Line) : \A i \in DOMAIN l : l[i].qty > 0}]

VARIABLE placed   \* the orders that name an outlet

(* createPO: one row, DRAFT by default, with an outlet or without.         *)
CreatePO(d) ==
  /\ status[d] = "NONE"
  /\ status' = [status EXCEPT ![d] = "DRAFT"]
  /\ placed' \in {placed, placed \cup {d}}
  /\ UNCHANGED <<stock, ledger, latest, req, contested, crossed>>

(* Fault: a received order is received again.                              *)
ReceiveAgain(r, d) ==
  /\ status[d] \in {"DRAFT", "RECEIVED"}
  /\ Begin(r, d, IF d \in placed THEN "receive" ELSE "receive_apart", Ordered[d], 0)

(* receivePO has read the order and found it neither received nor          *)
(* cancelled.                                                              *)
Receive(r, d) ==
  /\ status[d] = "DRAFT"
  /\ Begin(r, d, IF d \in placed THEN "receive" ELSE "receive_apart", Ordered[d], 0)

(* The transaction starts by writing RECEIVED, whatever the status is now, *)
(* and keeps the order's row locked.                                       *)
OrderFree(r) ==
  \A q \in Working(req[r].doc) \ {r} : req[q].op = "cancel" \/ req[q].next = 0

MarkReceived(r) ==
  /\ Busy(r) /\ req[r].next = 0
  /\ OrderFree(r)
  /\ req' = [req EXCEPT ![r] = [@ EXCEPT !.next = 1]]
  /\ UNCHANGED <<stock, status, ledger, latest, contested, crossed>>

FinishReceive(r) ==
  /\ req[r].op \in {"receive", "receive_apart"}
  /\ Commit(r, "RECEIVED")

(* cancelPO reads the order, refuses a received one, and updates it by id. *)
CancelPO(r, d) ==
  /\ status[d] \in {"DRAFT", "CANCELLED"}
  /\ Begin(r, d, "cancel", <<>>, 1)

FinishCancelPO(r) ==
  /\ req[r].op = "cancel"
  /\ OrderFree(r)
  /\ Commit(r, "CANCELLED")

OrderStep ==
  \/ \E d \in Orders : CreatePO(d)
  \/ /\ \/ \E r \in Requests, d \in Orders : Receive(r, d) \/ CancelPO(r, d)
        \/ \E r \in Requests : MarkReceived(r) \/ FinishReceive(r) \/ FinishCancelPO(r)
     /\ UNCHANGED placed
=============================================================================
