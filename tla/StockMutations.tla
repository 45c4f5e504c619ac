--------------------------- MODULE StockMutations ---------------------------
(* Manual stock mutations: applied at once, or asked for by warehouse      *)
(* staff and then approved or rejected.                                    *)
EXTENDS StockMoves

CONSTANT Delta   \* [Mutations -> Line]: negative for ADJUSTMENT_MINUS

ASSUME DeltaAssumption ==
  Delta \in [Mutations -> Line] /\ \A d \in Mutations : Delta[d].qty # 0

(* createStockMutation: requireStockApproval and the role decide between a *)
(* request that waits and a transaction that moves the stock.              *)
AskMutation(d) ==
  /\ status[d] = "NONE" /\ Working(d) = {}
  /\ status' = [status EXCEPT ![d] = "PENDING"]
  /\ UNCHANGED <<stock, ledger, latest, req, contested, crossed>>

Adjust(r, d) ==
  /\ status[d] = "NONE" /\ Working(d) = {}
  /\ Begin(r, d, "adjust", <<Delta[d]>>, 1)

FinishAdjust(r) == req[r].op = "adjust" /\ Commit(r, "APPLIED")

(* approveStockRequest finds the request PENDING (without a lock), moves   *)
(* the stock and updates the request by id.                                *)
ApproveRequest(r, d) ==
  /\ status[d] = "PENDING"
  /\ Begin(r, d, "approve", <<Delta[d]>>, 1)

FinishApprove(r) == req[r].op = "approve" /\ Commit(r, "APPROVED")

(* rejectStockRequest: the same, and nothing to move.                      *)
RejectRequest(r, d) ==
  /\ status[d] = "PENDING"
  /\ Begin(r, d, "reject", <<>>, 1)

FinishReject(r) == req[r].op = "reject" /\ Commit(r, "REJECTED")

MutationStep ==
  \/ \E d \in Mutations : AskMutation(d)
  \/ \E r \in Requests, d \in Mutations : Adjust(r, d) \/ ApproveRequest(r, d) \/ RejectRequest(r, d)
  \/ \E r \in Requests : FinishAdjust(r) \/ FinishApprove(r) \/ FinishReject(r)
=============================================================================
