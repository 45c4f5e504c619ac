------------------------- MODULE QrisCheckoutProofs -------------------------
(***************************************************************************)
(* Theorems about QrisCheckout for every catalog, every set of requests,   *)
(* polls and orders, and every initial stock.                              *)
(***************************************************************************)
EXTENDS QrisCheckout, Sums, TLAPS

(* What an open request has taken is there, and no two open requests have  *)
(* taken of one row: the row lock.                                         *)
LocksExclude ==
  /\ \A s \in Sales, p \in Products : held[s][p] <= stock[p]
  /\ \A s, t \in Sales, p \in Products : s # t /\ held[s][p] > 0 => held[t][p] = 0

(* A request writes in the order of the code: the transaction only after   *)
(* the whole cart, and it is visible only when the request is over.        *)
InOrder(s) ==
  /\ pc[s] # "idle" => order[s] \in Orders
  /\ pc[s] # "over" => txn[s] = "NONE"
  /\ pc[s] \in {"idle", "admitted", "checked", "reserved"} => draft[s].status = "NONE"
  /\ pc[s] \in {"idle", "admitted", "checked", "reserved", "charging"} => charge[s] = "none"
  /\ pc[s] \in {"reserved", "charging"} => held[s] = Wanted(s)
  /\ draft[s].status # "NONE" => draft[s].rows /\ held[s] = Wanted(s)

RequestsInOrder == \A s \in Sales : InOrder(s)

(* What a poll knows stays true while it acts on it: Midtrans' verdict is  *)
(* final, and a polled sale is completed only when it was paid.            *)
Knows(k) ==
  poll[k].pc # "idle" =>
    /\ poll[k].sale \in Sales
    /\ txn[poll[k].sale] # "NONE"
    /\ txn[poll[k].sale] = "COMPLETED" => charge[poll[k].sale] = "settlement"
    /\ poll[k].next \in 1..Len(Cart(poll[k].sale))
    /\ poll[k].pc = "completing" => charge[poll[k].sale] = "settlement"
    /\ poll[k].pc \in {"voiding", "restock", "log"} => charge[poll[k].sale] = "failure"
    /\ poll[k].pc \in {"restock", "log"} => txn[poll[k].sale] = "VOID"

PollsKnow == \A k \in Polls : Knows(k)

VoidMeansFailure == \A s \in Sales : txn[s] = "VOID" => charge[s] = "failure"

(* The inductive invariant.                                                *)
IInv ==
  /\ TypeOK
  /\ StockNeverNegative
  /\ LocksExclude
  /\ RequestsInOrder
  /\ PollsKnow
  /\ VoidMeansFailure
  /\ LiveSaleHasItsGoods

-----------------------------------------------------------------------------
(* What a set of a cart's lines takes from each row is a quantity.         *)
LEMMA TakenType ==
  ASSUME NEW cart \in Seq(Lines), NEW A \in SUBSET (DOMAIN cart)
  PROVE  Taken(cart, A) \in [Products -> Nat]
<1>1. ASSUME NEW p \in Products, \E i \in A : cart[i].product = p
      PROVE  cart[CHOOSE i \in A : cart[i].product = p].qty \in Nat
  <2>1. PICK j \in A : cart[j].product = p
    BY <1>1
  <2>2. (CHOOSE i \in A : cart[i].product = p) \in A
    BY <2>1
  <2>3. \A i \in DOMAIN cart : cart[i] \in Lines
    OBVIOUS
  <2> QED
    BY <2>2, <2>3 DEF Lines
<1> QED
  BY <1>1 DEF Taken

(* Applying covered lines takes from a row no more than it holds, and only *)
(* from rows that some covered line names.                                 *)
LEMMA TakenCovered ==
  ASSUME NEW cart \in Seq(Lines), NEW A \in SUBSET Covered(cart),
         stock \in [Products -> Int], StockNeverNegative,
         NEW p \in Products
  PROVE  /\ Taken(cart, A)[p] <= stock[p]
         /\ Taken(cart, A)[p] > 0 => \E i \in Covered(cart) : cart[i].product = p
<1>1. CASE \E i \in A : cart[i].product = p
  <2>1. PICK j \in A : cart[j].product = p
    BY <1>1
  <2> DEFINE c == CHOOSE i \in A : cart[i].product = p
  <2>2. c \in A /\ cart[c].product = p
    BY <2>1
  <2>3. Taken(cart, A)[p] = cart[c].qty
    BY <1>1 DEF Taken
  <2>4. cart[c].qty <= stock[cart[c].product]
    BY <2>2 DEF Covered
  <2> QED
    BY <2>2, <2>3, <2>4
<1>2. CASE ~ \E i \in A : cart[i].product = p
  <2>1. Taken(cart, A)[p] = 0
    BY <1>2 DEF Taken
  <2> QED
    BY <2>1 DEF StockNeverNegative
<1> QED
  BY <1>1, <1>2

(* A request that was sent has a cart of lines.                            *)
LEMMA CartType ==
  ASSUME TypeOK, RequestsInOrder, NEW s \in Sales, pc[s] # "idle"
  PROVE  Cart(s) \in Seq(Lines) /\ Cart(s) # <<>>
BY OrdersAssumption DEF RequestsInOrder, InOrder, Cart

(* The line a void has reached is a line of the sale's cart.               *)
LEMMA LineType ==
  ASSUME TypeOK, RequestsInOrder, PollsKnow, NEW k \in Polls, poll[k].pc # "idle"
  PROVE  poll[k].sale \in Sales /\ Line(k) \in Lines
<1>1. poll[k].sale \in Sales /\ txn[poll[k].sale] # "NONE"
      /\ poll[k].next \in 1..Len(Cart(poll[k].sale))
  BY DEF PollsKnow, Knows
<1>2. pc[poll[k].sale] # "idle"
  BY <1>1 DEF RequestsInOrder, InOrder
<1>3. Cart(poll[k].sale) \in Seq(Lines)
  BY <1>1, <1>2, CartType
<1> QED
  BY <1>1, <1>3 DEF Line

(* The steps of a poll keep its type.                                      *)
LEMMA PollType ==
  ASSUME poll \in [Polls -> PollState], NEW k \in Polls
  PROVE  /\ Done(k) => poll' \in [Polls -> PollState]
         /\ \A to \in PollSteps : Step(k, to) => poll' \in [Polls -> PollState]
         /\ poll' = [poll EXCEPT ![k] = [pc |-> "restock", sale |-> @.sale, next |-> @.next + 1]]
              => poll' \in [Polls -> PollState]
<1>1. IdlePoll \in PollState
  BY DEF IdlePoll, PollState, PollSteps
<1>2. \A to \in PollSteps :
        [pc |-> to, sale |-> poll[k].sale, next |-> poll[k].next] \in PollState
  BY DEF PollState
<1>3. poll[k].next \in Nat \ {0} /\ poll[k].sale \in Sales \cup {NoSale}
  BY DEF PollState
<1>4. [pc |-> "restock", sale |-> poll[k].sale, next |-> poll[k].next + 1] \in PollState
  BY <1>3 DEF PollState, PollSteps
<1> QED
  BY <1>1, <1>2, <1>4 DEF Done, Step

-----------------------------------------------------------------------------
(* Every step keeps the types.                                             *)
LEMMA TypeStep == IInv /\ [Next]_vars => TypeOK'
<1> SUFFICES ASSUME IInv, [Next]_vars PROVE TypeOK'
  OBVIOUS
<1> USE DEF IInv
(* The request's own variables. *)
<1>1. \A s \in Sales : \A to \in Steps : Move(s, to) => pc' \in [Sales -> Steps]
  BY DEF Move, TypeOK
<1>2. \A s \in Sales : \A r \in {"ok", "refused"} : Answer(s, r) =>
        /\ pc' \in [Sales -> Steps]
        /\ reply' \in [Sales -> {"none", "ok", "refused"}]
        /\ watching' \subseteq Sales
  BY <1>1 DEF Answer, Steps, TypeOK
<1>3. \A s \in Sales : CommitWrites(s) =>
        /\ stock' \in [Products -> Int]
        /\ txn' \in [Sales -> {"NONE", "PENDING", "COMPLETED", "VOID"}]
        /\ ledger' \in [Sales -> [Products -> Int]]
        /\ credited' \subseteq Sales
  BY DEF CommitWrites, TypeOK, Nothing, DraftState
<1>4. \A s \in Sales : End(s) =>
        /\ pc' \in [Sales -> Steps]
        /\ held' \in [Sales -> [Products -> Nat]]
        /\ draft' \in [Sales -> DraftState]
  <2>1. NoDraft \in DraftState /\ Nothing \in [Products -> Nat]
    BY DEF NoDraft, DraftState, Nothing
  <2> QED
    BY <1>1, <2>1 DEF End, Steps, TypeOK
<1>5. \A s \in Sales : ChargeUnknown(s) =>
        charge' \in [Sales -> {"none", "pending", "settlement", "failure"}]
  BY DEF ChargeUnknown, TypeOK
(* One step per action. *)
<1>6. ASSUME NEW s \in Sales, NEW o \in Orders, Admit(s, o) PROVE TypeOK'
  BY <1>1, <1>6 DEF Admit, Steps, TypeOK, committed, past
<1>7. ASSUME NEW s \in Sales, CheckStock(s) PROVE TypeOK'
  BY <1>1, <1>2, <1>7 DEF CheckStock, Steps, TypeOK, committed, past
<1>8. ASSUME NEW s \in Sales, Reserve(s) PROVE TypeOK'
  <2>1. Cart(s) \in Seq(Lines)
    BY <1>8, CartType DEF Reserve
  <2>2. \A A \in Applications(Cart(s)) : Taken(Cart(s), A) \in [Products -> Nat]
    BY <2>1, TakenType DEF Applications, Covered
  <2>3. held' \in [Sales -> [Products -> Nat]]
    BY <1>8, <2>2 DEF Reserve, TypeOK
  <2> QED
    BY <1>1, <1>2, <1>8, <2>3 DEF Reserve, Steps, TypeOK, committed, past
<1>9. ASSUME NEW s \in Sales, Reject(s) PROVE TypeOK'
  <2>1. draft' \in [Sales -> DraftState]
    BY <1>9 DEF Reject, DraftState, TypeOK
  <2> QED
    BY <1>2, <1>9, <2>1 DEF Reject, TypeOK, committed, past
<1>10. ASSUME NEW s \in Sales, Record(s) PROVE TypeOK'
  <2>1. PICK points \in BOOLEAN : draft' = [draft EXCEPT ![s] =
             [status |-> IF IsPending(order[s].tender) THEN "PENDING" ELSE "COMPLETED",
              rows |-> TRUE, points |-> points]]
    BY <1>10 DEF Record
  <2>2. draft' \in [Sales -> DraftState]
    BY <2>1 DEF DraftState, TypeOK
  <2> QED
    BY <1>1, <1>2, <1>10, <2>2 DEF Record, Steps, TypeOK, committed, past
<1>11. ASSUME NEW s \in Sales, ChargeAccepted(s) PROVE TypeOK'
  BY <1>2, <1>11 DEF ChargeAccepted, TypeOK, committed, past
<1>12. ASSUME NEW s \in Sales, ChargeFailed(s) PROVE TypeOK'
  <2>1. [status |-> "NONE", rows |-> draft[s].rows, points |-> draft[s].points] \in DraftState
    BY DEF DraftState, TypeOK
  <2>2. draft' \in [Sales -> DraftState]
    BY <1>12, <2>1 DEF ChargeFailed, TypeOK
  <2> QED
    BY <1>2, <1>12, <2>2 DEF ChargeFailed, TypeOK, committed, past
<1>13. ASSUME NEW s \in Sales, Respond(s) PROVE TypeOK'
  BY <1>3, <1>4, <1>13 DEF Respond, TypeOK, past
<1>14. ASSUME NEW s \in Sales, Disconnect(s) PROVE TypeOK'
  BY <1>3, <1>4, <1>5, <1>14 DEF Disconnect, TypeOK, past
<1>15. ASSUME NEW s \in Sales, Abort(s) PROVE TypeOK'
  BY <1>4, <1>5, <1>15 DEF Abort, TypeOK, committed, past
<1>16. ASSUME NEW s \in Sales, Pay(s) \/ Expire(s) \/ StopWatching(s) PROVE TypeOK'
  BY <1>16 DEF Pay, Expire, StopWatching, TypeOK, committed, request, past
<1>17. ASSUME NEW k \in Polls, NEW s \in Sales, StartPoll(k, s) PROVE TypeOK'
  <2>1. [pc |-> "asking", sale |-> s, next |-> 1] \in PollState
    BY DEF PollState, PollSteps
  <2> QED
    BY <1>17, <2>1 DEF StartPoll, TypeOK, committed, request, past
<1>18. ASSUME NEW k \in Polls, Ask(k) PROVE TypeOK'
  <2>1. poll' \in [Polls -> PollState]
    BY <1>18, PollType DEF Ask, PollSteps, TypeOK
  <2> QED
    BY <1>18, <2>1 DEF Ask, TypeOK, committed, request, past
<1>19. ASSUME NEW k \in Polls, Complete(k) PROVE TypeOK'
  <2>1. poll' \in [Polls -> PollState] /\ poll[k].sale \in Sales
    BY <1>19, PollType, LineType DEF Complete, TypeOK
  <2> QED
    BY <1>19, <2>1 DEF Complete, TypeOK, request, past
<1>20. ASSUME NEW k \in Polls, Void(k) PROVE TypeOK'
  <2>1. poll' \in [Polls -> PollState] /\ poll[k].sale \in Sales
    BY <1>20, PollType, LineType DEF Void, PollSteps, TypeOK
  <2> QED
    BY <1>20, <2>1 DEF Void, TypeOK, request
<1>21. ASSUME NEW k \in Polls, Restock(k) PROVE TypeOK'
  <2>1. Line(k).product \in Products /\ Line(k).qty \in Int
    BY <1>21, LineType DEF Restock, Lines
  <2>2. poll' \in [Polls -> PollState]
    BY <1>21, PollType DEF Restock, PollSteps, TypeOK
  <2> QED
    BY <1>21, <2>1, <2>2 DEF Restock, TypeOK, request, past
<1>22. ASSUME NEW k \in Polls, LogReturn(k) PROVE TypeOK'
  <2>1. poll[k].sale \in Sales /\ Line(k).product \in Products /\ Line(k).qty \in Int
    BY <1>22, LineType DEF LogReturn, Lines
  <2>2. poll' \in [Polls -> PollState]
    BY <1>22, PollType DEF LogReturn, TypeOK
  <2>3. ledger' \in [Sales -> [Products -> Int]]
    BY <1>22, <2>1 DEF LogReturn, TypeOK
  <2> QED
    BY <1>22, <2>2, <2>3 DEF LogReturn, TypeOK, request, past
<1>23. ASSUME NEW k \in Polls, Die(k) PROVE TypeOK'
  <2>1. poll' \in [Polls -> PollState] /\ poll[k].sale \in Sales
    BY <1>23, PollType, LineType DEF Die, TypeOK
  <2>2. failures' \in 0..MaxFailures
    BY <1>23, LimitAssumption DEF Die, TypeOK
  <2> QED
    BY <1>23, <2>1, <2>2 DEF Die, TypeOK, committed, request, past
<1>24. CASE UNCHANGED vars
  BY <1>24 DEF vars, committed, request, past, TypeOK
<1> QED
  BY <1>6, <1>7, <1>8, <1>9, <1>10, <1>11, <1>12, <1>13, <1>14, <1>15, <1>16, <1>17,
     <1>18, <1>19, <1>20, <1>21, <1>22, <1>23, <1>24
     DEF Next, RequestStep, ServerStep, PollStep

-----------------------------------------------------------------------------
(* Only Reserve takes goods, and only from rows nobody else holds and that *)
(* have them; a request gives back or commits what it took.                *)
LEMMA StockStep ==
  IInv /\ TypeOK' /\ [Next]_vars => StockNeverNegative' /\ LocksExclude'
<1> SUFFICES ASSUME IInv, TypeOK', [Next]_vars
             PROVE  StockNeverNegative' /\ LocksExclude'
  OBVIOUS
<1> USE DEF IInv
<1>1. ASSUME UNCHANGED <<stock, held>> PROVE StockNeverNegative' /\ LocksExclude'
  BY <1>1 DEF StockNeverNegative, LocksExclude
<1>2. \A s \in Sales, p \in Products : held[s][p] \in Nat /\ stock[p] \in Int
  BY DEF TypeOK
<1>3. ASSUME NEW s \in Sales, Reserve(s) PROVE StockNeverNegative' /\ LocksExclude'
  <2>1. Cart(s) \in Seq(Lines)
    BY <1>3, CartType DEF Reserve
  <2>2. PICK A \in Applications(Cart(s)) :
          held' = [held EXCEPT ![s] = Taken(Cart(s), A)]
    BY <1>3 DEF Reserve
  <2>3. \A p \in Products :
          /\ Taken(Cart(s), A)[p] <= stock[p]
          /\ Taken(Cart(s), A)[p] > 0 => \E i \in Covered(Cart(s)) : Cart(s)[i].product = p
    BY <2>1, TakenCovered DEF Applications, TypeOK
  <2>4. \A p \in Products : Taken(Cart(s), A)[p] > 0 => \A t \in Sales : ~(held[t][p] > 0)
    BY <1>3, <2>3 DEF Reserve, Locked
  <2>5. Taken(Cart(s), A) \in [Products -> Nat]
    BY <2>1, TakenType DEF Applications, Covered
  <2>6. stock' = stock /\ \A t \in Sales : held'[t] = IF t = s THEN Taken(Cart(s), A) ELSE held[t]
    BY <1>3, <2>2 DEF Reserve, committed, TypeOK
  <2>7. \A t \in Sales, p \in Products : held'[t][p] <= stock'[p]
    BY <2>3, <2>6 DEF LocksExclude
  <2>8. \A t, u \in Sales, p \in Products : t # u /\ held'[t][p] > 0 => held'[u][p] = 0
    BY <1>2, <2>4, <2>5, <2>6 DEF LocksExclude
  <2> QED
    BY <2>6, <2>7, <2>8 DEF StockNeverNegative, LocksExclude
<1>4. ASSUME NEW s \in Sales, CommitWrites(s), End(s)
      PROVE  StockNeverNegative' /\ LocksExclude'
  <2>1. \A p \in Products : stock'[p] = stock[p] - held[s][p]
    BY <1>4 DEF CommitWrites
  <2>2. \A t \in Sales, p \in Products : held'[t][p] = IF t = s THEN 0 ELSE held[t][p]
    BY <1>4 DEF End, Nothing, TypeOK
  <2> QED
    BY <1>2, <2>1, <2>2 DEF StockNeverNegative, LocksExclude
<1>5. ASSUME NEW s \in Sales, Abort(s) PROVE StockNeverNegative' /\ LocksExclude'
  <2>1. stock' = stock /\ \A t \in Sales, p \in Products :
                            held'[t][p] = IF t = s THEN 0 ELSE held[t][p]
    BY <1>5 DEF Abort, End, Nothing, TypeOK, committed
  <2> QED
    BY <1>2, <2>1 DEF StockNeverNegative, LocksExclude
<1>6. ASSUME NEW k \in Polls, Restock(k) PROVE StockNeverNegative' /\ LocksExclude'
  <2>1. Line(k).product \in Products /\ Line(k).qty \in Nat
    BY <1>6, LineType DEF Restock, Lines
  <2>2. PICK q \in Nat : q = Line(k).qty
    BY <2>1
  <2>3. stock' = [stock EXCEPT ![Line(k).product] = @ + q] /\ held' = held
    BY <1>6, <2>2 DEF Restock, request
  <2>4. \A p \in Products : stock'[p] >= stock[p] /\ stock'[p] \in Int
    BY <1>2, <2>1, <2>3 DEF TypeOK
  <2>5. StockNeverNegative'
    <3>1. \A p \in Products : stock[p] >= 0 /\ stock[p] \in Int
      BY DEF StockNeverNegative, TypeOK
    <3>2. \A p \in Products : stock'[p] >= 0
      BY <2>4, <3>1
    <3> QED
      BY <3>2 DEF StockNeverNegative
  <2>6. \A t \in Sales, p \in Products : held[t][p] <= stock[p]
    BY DEF LocksExclude
  <2>7. \A t \in Sales, p \in Products : held[t][p] <= stock'[p]
    BY <1>2, <2>4, <2>6
  <2> QED
    BY <2>3, <2>5, <2>7 DEF LocksExclude
<1>7. ASSUME NEW s \in Sales, Respond(s) \/ Disconnect(s)
      PROVE  StockNeverNegative' /\ LocksExclude'
  BY <1>4, <1>7 DEF Respond, Disconnect
<1>8. ASSUME NEW s \in Sales,
             \/ CheckStock(s) \/ Reject(s) \/ Record(s) \/ ChargeAccepted(s) \/ ChargeFailed(s)
             \/ Pay(s) \/ Expire(s) \/ StopWatching(s) \/ \E o \in Orders : Admit(s, o)
      PROVE  UNCHANGED <<stock, held>>
  BY <1>8 DEF CheckStock, Reject, Record, ChargeAccepted, ChargeFailed, Pay, Expire,
              StopWatching, Admit, committed, request
<1>9. ASSUME NEW k \in Polls,
             Ask(k) \/ Complete(k) \/ Void(k) \/ LogReturn(k) \/ Die(k)
               \/ \E s \in Sales : StartPoll(k, s)
      PROVE  UNCHANGED <<stock, held>>
  BY <1>9 DEF Ask, Complete, Void, LogReturn, Die, StartPoll, committed, request
<1>10. CASE UNCHANGED vars
  BY <1>1, <1>10 DEF vars, committed, request
<1> QED
  BY <1>1, <1>3, <1>5, <1>6, <1>7, <1>8, <1>9, <1>10
     DEF Next, RequestStep, ServerStep, PollStep

(* Midtrans' verdicts are final, and no order exists before it is asked.   *)
LEMMA ChargeFinal ==
  ASSUME IInv, [Next]_vars, NEW s \in Sales, charge[s] \in {"settlement", "failure"}
  PROVE  charge'[s] = charge[s]
<1> USE DEF IInv
<1>1. ASSUME NEW t \in Sales, ChargeUnknown(t), pc[t] # "over" PROVE charge'[s] = charge[s]
  BY <1>1 DEF ChargeUnknown, RequestsInOrder, InOrder, TypeOK
<1>2. ASSUME NEW t \in Sales, Disconnect(t) \/ Abort(t) PROVE charge'[s] = charge[s]
  BY <1>1, <1>2 DEF Disconnect, Abort, Unanswered
<1>3. ASSUME NEW t \in Sales, ChargeAccepted(t) \/ ChargeFailed(t) PROVE charge'[s] = charge[s]
  BY <1>3 DEF ChargeAccepted, ChargeFailed, RequestsInOrder, InOrder, TypeOK
<1>4. ASSUME NEW t \in Sales, Pay(t) \/ Expire(t) PROVE charge'[s] = charge[s]
  BY <1>4 DEF Pay, Expire, TypeOK
<1>5. ASSUME NEW t \in Sales,
             \/ CheckStock(t) \/ Reserve(t) \/ Reject(t) \/ Record(t) \/ Respond(t)
             \/ StopWatching(t) \/ \E o \in Orders : Admit(t, o)
      PROVE  charge' = charge
  BY <1>5 DEF CheckStock, Reserve, Reject, Record, Respond, StopWatching, Admit
<1>6. ASSUME NEW k \in Polls, PollStep(k) \/ Die(k) \/ \E t \in Sales : StartPoll(k, t)
      PROVE  charge' = charge
  BY <1>6 DEF PollStep, Ask, Complete, Void, Restock, LogReturn, Die, StartPoll
<1> QED
  BY <1>2, <1>3, <1>4, <1>5, <1>6 DEF Next, RequestStep, ServerStep, vars

(* A poll's sale keeps its cart and, unless the poll changes it, its       *)
(* status: only a request that is not over writes the former, and commits  *)
(* to the latter.                                                          *)
LEMMA OverIsFrozen ==
  ASSUME IInv, [Next]_vars, NEW s \in Sales, txn[s] # "NONE"
  PROVE  /\ order'[s] = order[s]
         /\ pc'[s] = pc[s]
         /\ \/ txn'[s] = txn[s]
            \/ \E k \in Polls : poll[k].sale = s /\ (Complete(k) \/ Void(k))
         /\ txn'[s] # "NONE"
<1> USE DEF IInv
<1>1. pc[s] = "over"
  BY DEF RequestsInOrder, InOrder
<1>2. ASSUME NEW t \in Sales, NEW o \in Orders, Admit(t, o)
      PROVE  order'[s] = order[s] /\ pc'[s] = pc[s] /\ txn' = txn
  BY <1>1, <1>2 DEF Admit, Move, TypeOK, committed
<1>3. ASSUME NEW t \in Sales,
             CheckStock(t) \/ Reserve(t) \/ Reject(t) \/ Record(t) \/ ChargeAccepted(t)
               \/ ChargeFailed(t)
      PROVE  order' = order /\ pc'[s] = pc[s] /\ txn' = txn
  BY <1>1, <1>3 DEF CheckStock, Reserve, Reject, Record, ChargeAccepted, ChargeFailed,
                    Answer, Move, TypeOK, committed
<1>4. ASSUME NEW t \in Sales, Respond(t) \/ Disconnect(t)
      PROVE  order' = order /\ pc'[s] = pc[s] /\ txn'[s] = txn[s]
  BY <1>1, <1>4 DEF Respond, Disconnect, CommitWrites, End, Move, Unanswered, TypeOK
<1>5. ASSUME NEW t \in Sales, Abort(t)
      PROVE  order' = order /\ pc'[s] = pc[s] /\ txn' = txn
  BY <1>1, <1>5 DEF Abort, End, Move, Unanswered, TypeOK, committed
<1>6. ASSUME NEW t \in Sales, Pay(t) \/ Expire(t) \/ StopWatching(t)
      PROVE  order' = order /\ pc' = pc /\ txn' = txn
  BY <1>6 DEF Pay, Expire, StopWatching, committed, request
<1>7. ASSUME NEW k \in Polls, Complete(k) \/ Void(k)
      PROVE  /\ order' = order /\ pc' = pc /\ txn'[s] # "NONE"
             /\ poll[k].sale # s => txn'[s] = txn[s]
  <2>1. poll[k].sale \in Sales
    BY <1>7, LineType DEF Complete, Void
  <2> QED
    BY <1>7, <2>1 DEF Complete, Void, TypeOK, request
<1>8. ASSUME NEW k \in Polls,
             Ask(k) \/ Restock(k) \/ LogReturn(k) \/ Die(k) \/ \E t \in Sales : StartPoll(k, t)
      PROVE  order' = order /\ pc' = pc /\ txn' = txn
  BY <1>8 DEF Ask, Restock, LogReturn, Die, StartPoll, committed, request
<1>9. CASE UNCHANGED vars
  BY <1>9 DEF vars, committed, request
<1> QED
  BY <1>2, <1>3, <1>4, <1>5, <1>6, <1>7, <1>8, <1>9
     DEF Next, RequestStep, ServerStep, PollStep

(* What a poll that stands still knows stays true.                         *)
LEMMA KnowsKept ==
  ASSUME IInv, [Next]_vars, NEW k \in Polls, poll'[k] = poll[k]
  PROVE  Knows(k)'
<1> SUFFICES ASSUME poll[k].pc # "idle" PROVE Knows(k)'
  BY DEF Knows
<1> DEFINE s == poll[k].sale
<1>1. Knows(k) /\ s \in Sales /\ txn[s] # "NONE"
  BY DEF IInv, PollsKnow, Knows
<1>2. Cart(s)' = Cart(s) /\ txn'[s] # "NONE"
  BY <1>1, OverIsFrozen DEF Cart
<1>3. charge[s] \in {"settlement", "failure"} => charge'[s] = charge[s]
  BY <1>1, ChargeFinal
<1>4. CASE txn'[s] = txn[s]
  BY <1>1, <1>2, <1>3, <1>4 DEF Knows
<1>5. ASSUME NEW j \in Polls, poll[j].sale = s, Complete(j) PROVE Knows(k)'
  <2>1. charge[s] = "settlement"
    BY <1>5 DEF IInv, PollsKnow, Knows, Complete
  <2>2. poll[k].pc \notin {"voiding", "restock", "log"}
    BY <1>1, <2>1 DEF Knows
  <2> QED
    BY <1>1, <1>2, <1>3, <2>1, <2>2 DEF Knows
<1>6. ASSUME NEW j \in Polls, poll[j].sale = s, Void(j) PROVE Knows(k)'
  <2>1. txn'[s] = "VOID"
    BY <1>1, <1>6 DEF Void, IInv, TypeOK
  <2> QED
    BY <1>1, <1>2, <1>3, <2>1 DEF Knows
<1> QED
  BY <1>1, <1>4, <1>5, <1>6, OverIsFrozen

(* Every step keeps what the polls know.                                   *)
LEMMA PollsStep == IInv /\ [Next]_vars => PollsKnow'
<1> SUFFICES ASSUME IInv, [Next]_vars, NEW k \in Polls PROVE Knows(k)'
  BY DEF PollsKnow
<1>1. CASE poll'[k] = poll[k]
  BY <1>1, KnowsKept
<1>2. ASSUME NEW j \in Polls, Done(j) PROVE Knows(k)'
  <2>1. poll'[k] = IF k = j THEN IdlePoll ELSE poll[k]
    BY <1>2 DEF Done, IInv, TypeOK
  <2> QED
    BY <2>1, KnowsKept DEF Knows, IdlePoll
<1>4. ASSUME NEW s \in Sales, StartPoll(k, s) PROVE Knows(k)'
  <2>1. poll'[k] = [pc |-> "asking", sale |-> s, next |-> 1]
    BY <1>4 DEF StartPoll, IInv, TypeOK
  <2>2. Cart(s) \in Seq(Lines) /\ Cart(s) # <<>>
    BY <1>4, CartType DEF StartPoll, IInv, RequestsInOrder, InOrder
  <2>3. 1 \in 1..Len(Cart(s))
    BY <2>2
  <2>4. txn' = txn /\ Cart(s)' = Cart(s)
    BY <1>4 DEF StartPoll, committed, request, Cart
  <2> QED
    BY <1>4, <2>1, <2>3, <2>4 DEF Knows, StartPoll
<1>5. ASSUME Ask(k) PROVE Knows(k)'
  <2>1. Knows(k) /\ poll[k].pc = "asking"
    BY <1>5 DEF Ask, IInv, PollsKnow
  <2>2. txn' = txn /\ charge' = charge /\ order' = order
    BY <1>5 DEF Ask, committed, request
  <2>3. CASE Done(k)
    BY <1>2, <2>3
  <2>4. ASSUME NEW to \in {"completing", "voiding"}, Step(k, to),
               to = "completing" => charge[poll[k].sale] = "settlement",
               to = "voiding" => charge[poll[k].sale] = "failure"
        PROVE  Knows(k)'
    <3>1. poll'[k] = [pc |-> to, sale |-> poll[k].sale, next |-> poll[k].next]
      BY <2>4 DEF Step, IInv, TypeOK
    <3> QED
      BY <2>1, <2>2, <2>4, <3>1 DEF Knows, Cart
  <2> QED
    BY <1>5, <2>3, <2>4 DEF Ask
<1>6. ASSUME Void(k) PROVE Knows(k)'
  <2>1. Knows(k) /\ poll[k].pc = "voiding" /\ poll[k].sale \in Sales
    BY <1>6 DEF Void, IInv, PollsKnow, Knows
  <2>2. poll'[k] = [pc |-> "restock", sale |-> poll[k].sale, next |-> poll[k].next]
    BY <1>6 DEF Void, Step, IInv, TypeOK
  <2>3. txn'[poll[k].sale] = "VOID" /\ charge' = charge /\ order' = order
    BY <1>6, <2>1 DEF Void, request, IInv, TypeOK
  <2> QED
    BY <2>1, <2>2, <2>3 DEF Knows, Cart
<1>7. ASSUME Restock(k) PROVE Knows(k)'
  <2>1. Knows(k) /\ poll[k].pc = "restock"
    BY <1>7 DEF Restock, IInv, PollsKnow
  <2>2. poll'[k] = [pc |-> "log", sale |-> poll[k].sale, next |-> poll[k].next]
    BY <1>7 DEF Restock, Step, IInv, TypeOK
  <2>3. txn' = txn /\ charge' = charge /\ order' = order
    BY <1>7 DEF Restock, request
  <2> QED
    BY <2>1, <2>2, <2>3 DEF Knows, Cart
<1>8. ASSUME LogReturn(k) PROVE Knows(k)'
  <2>1. Knows(k) /\ poll[k].pc = "log"
    BY <1>8 DEF LogReturn, IInv, PollsKnow
  <2>2. txn' = txn /\ charge' = charge /\ order' = order
    BY <1>8 DEF LogReturn, request
  <2>3. CASE Done(k)
    BY <1>2, <2>3
  <2>4. CASE ~Done(k)
    <3>1. /\ poll[k].next < Len(Cart(poll[k].sale))
          /\ poll'[k] = [pc |-> "restock", sale |-> poll[k].sale, next |-> poll[k].next + 1]
      BY <1>8, <2>4 DEF LogReturn, IInv, TypeOK
    <3>2. poll[k].next + 1 \in 1..Len(Cart(poll[k].sale))
      BY <2>1, <3>1, CartType DEF Knows, IInv, RequestsInOrder, InOrder
    <3> QED
      BY <2>1, <2>2, <3>1, <3>2 DEF Knows, Cart
  <2> QED
    BY <2>3, <2>4
<1>9. ASSUME NEW j \in Polls, j # k, PollStep(j) \/ Die(j) \/ \E s \in Sales : StartPoll(j, s)
      PROVE  poll'[k] = poll[k]
  BY <1>9 DEF PollStep, Ask, Complete, Void, Restock, LogReturn, Die, StartPoll, Step, Done,
              IInv, TypeOK
<1>10. ASSUME NEW s \in Sales,
              RequestStep(s) \/ Pay(s) \/ Expire(s) \/ StopWatching(s)
                \/ \E o \in Orders : Admit(s, o)
       PROVE  poll' = poll
  BY <1>10 DEF RequestStep, ServerStep, CheckStock, Reserve, Reject, Record, ChargeAccepted,
               ChargeFailed, Respond, Disconnect, Abort, Pay, Expire, StopWatching, Admit
<1>11. ASSUME Complete(k) \/ Die(k) PROVE Knows(k)'
  BY <1>2, <1>11 DEF Complete, Die
<1> QED
  BY <1>1, <1>4, <1>5, <1>6, <1>7, <1>8, <1>9, <1>10, <1>11 DEF Next, PollStep, vars

-----------------------------------------------------------------------------
(* What other requests and the polls do leaves a request in order.         *)
LEMMA InOrderKept ==
  ASSUME NEW s \in Sales, InOrder(s),
         pc'[s] = pc[s], order'[s] = order[s], held'[s] = held[s], draft'[s] = draft[s],
         txn'[s] = txn[s] \/ pc[s] = "over",
         charge'[s] = charge[s] \/ pc[s] \in {"answered", "over"}
  PROVE  InOrder(s)'
<1>1. Wanted(s)' = Wanted(s)
  BY DEF Wanted, Cart, Taken
<1> QED
  BY <1>1 DEF InOrder

(* Every step keeps the requests in order.                                 *)
LEMMA RequestsStep == IInv /\ [Next]_vars => RequestsInOrder'
<1> SUFFICES ASSUME IInv, [Next]_vars, NEW s \in Sales PROVE InOrder(s)'
  BY DEF RequestsInOrder
<1> USE DEF IInv
<1>1. InOrder(s)
  BY DEF RequestsInOrder
<1>2. order'[s] = order[s] => Wanted(s)' = Wanted(s)
  BY DEF Wanted, Cart, Taken
<1>3. ASSUME NEW o \in Orders, Admit(s, o) PROVE InOrder(s)'
  <2>1. /\ pc[s] = "idle" /\ pc'[s] \in {"admitted", "answered"} /\ order'[s] = o
        /\ txn' = txn /\ held' = held /\ draft' = draft /\ charge' = charge
    BY <1>3 DEF Admit, Move, TypeOK, committed
  <2> QED
    BY <1>1, <2>1 DEF InOrder
<1>4. ASSUME CheckStock(s) PROVE InOrder(s)'
  <2>1. /\ pc[s] = "admitted" /\ pc'[s] \in {"checked", "answered"}
        /\ UNCHANGED <<order, txn, held, draft, charge>>
    BY <1>4 DEF CheckStock, Answer, Move, TypeOK, committed
  <2> QED
    BY <1>1, <2>1 DEF InOrder
<1>5. ASSUME Reserve(s) PROVE InOrder(s)'
  <2>1. pc[s] = "checked" /\ UNCHANGED <<order, txn, draft, charge>>
    BY <1>5 DEF Reserve, committed
  <2>2. \/ pc'[s] = "answered"
        \/ pc'[s] = "reserved" /\ held'[s] = Wanted(s)
    BY <1>5 DEF Reserve, Answer, Move, Wanted, TypeOK
  <2> QED
    BY <1>1, <1>2, <2>1, <2>2 DEF InOrder
<1>6. ASSUME Reject(s) PROVE InOrder(s)'
  <2>1. /\ pc[s] = "reserved" /\ pc'[s] = "answered" /\ draft'[s].status = "NONE"
        /\ UNCHANGED <<order, txn, held, charge>>
    BY <1>6 DEF Reject, Answer, Move, TypeOK, committed
  <2> QED
    BY <1>1, <2>1 DEF InOrder
<1>7. ASSUME Record(s) PROVE InOrder(s)'
  <2>1. /\ pc[s] = "reserved" /\ pc'[s] \in {"charging", "answered"} /\ draft'[s].rows
        /\ UNCHANGED <<order, txn, held, charge>>
    BY <1>7 DEF Record, Answer, Move, TypeOK, committed
  <2> QED
    BY <1>1, <1>2, <2>1 DEF InOrder
<1>8. ASSUME ChargeAccepted(s) PROVE InOrder(s)'
  <2>1. pc[s] = "charging" /\ pc'[s] = "answered" /\ UNCHANGED <<order, txn, held, draft>>
    BY <1>8 DEF ChargeAccepted, Answer, Move, TypeOK, committed
  <2> QED
    BY <1>1, <1>2, <2>1 DEF InOrder
<1>9. ASSUME ChargeFailed(s) PROVE InOrder(s)'
  <2>1. /\ pc[s] = "charging" /\ pc'[s] = "answered" /\ draft'[s].status = "NONE"
        /\ UNCHANGED <<order, txn, held>>
    BY <1>9 DEF ChargeFailed, Answer, Move, TypeOK, committed
  <2> QED
    BY <1>1, <2>1 DEF InOrder
<1>10. ASSUME Respond(s) \/ Disconnect(s) \/ Abort(s) PROVE InOrder(s)'
  <2>1. pc[s] # "idle" /\ pc'[s] = "over" /\ draft'[s].status = "NONE" /\ order' = order
    BY <1>10 DEF Respond, Disconnect, Abort, Unanswered, End, Move, NoDraft, TypeOK
  <2> QED
    BY <1>1, <2>1 DEF InOrder
<1>11. ASSUME NEW t \in Sales, t # s, RequestStep(t) \/ \E o \in Orders : Admit(t, o)
       PROVE  InOrder(s)'
  <2>1. ASSUME Respond(t) \/ Disconnect(t) \/ Abort(t)
        PROVE  /\ pc'[s] = pc[s] /\ order'[s] = order[s] /\ held'[s] = held[s]
               /\ draft'[s] = draft[s] /\ txn'[s] = txn[s] /\ charge'[s] = charge[s]
    BY <1>11, <2>1 DEF Respond, Disconnect, Abort, CommitWrites, End, ChargeUnknown, Move,
                       TypeOK, committed
  <2>2. ASSUME \/ CheckStock(t) \/ Reserve(t) \/ Reject(t) \/ Record(t)
               \/ ChargeAccepted(t) \/ ChargeFailed(t) \/ \E o \in Orders : Admit(t, o)
        PROVE  /\ pc'[s] = pc[s] /\ order'[s] = order[s] /\ held'[s] = held[s]
               /\ draft'[s] = draft[s] /\ txn'[s] = txn[s] /\ charge'[s] = charge[s]
    BY <1>11, <2>2 DEF CheckStock, Reserve, Reject, Record, ChargeAccepted, ChargeFailed,
                       Admit, Answer, Move, TypeOK, committed
  <2> QED
    BY <1>1, <1>11, <2>1, <2>2, InOrderKept DEF RequestStep, ServerStep
<1>12. ASSUME NEW t \in Sales, Pay(t) \/ Expire(t) PROVE InOrder(s)'
  <2>1. /\ UNCHANGED <<pc, order, held, draft, txn>>
        /\ charge'[s] = charge[s] \/ charge[s] = "pending"
    BY <1>12 DEF Pay, Expire, TypeOK, committed, request
  <2>2. charge[s] = "pending" => pc[s] \in {"answered", "over"}
    BY <1>1 DEF InOrder, TypeOK, Steps
  <2> QED
    BY <1>1, <2>1, <2>2, InOrderKept
<1>13. ASSUME NEW k \in Polls, Complete(k) \/ Void(k) PROVE InOrder(s)'
  <2>1. poll[k].sale \in Sales /\ txn[poll[k].sale] # "NONE"
    BY <1>13 DEF Complete, Void, PollsKnow, Knows
  <2>2. txn'[s] = txn[s] \/ pc[s] = "over"
    BY <1>1, <1>13, <2>1 DEF Complete, Void, InOrder, TypeOK
  <2>3. UNCHANGED <<pc, order, held, draft, charge>>
    BY <1>13 DEF Complete, Void, request
  <2> QED
    BY <1>1, <2>2, <2>3, InOrderKept
<1>14. ASSUME \/ \E t \in Sales : StopWatching(t)
              \/ \E k \in Polls : Ask(k) \/ Restock(k) \/ LogReturn(k) \/ Die(k)
              \/ \E k \in Polls, t \in Sales : StartPoll(k, t)
              \/ UNCHANGED vars
       PROVE  InOrder(s)'
  <2>1. UNCHANGED <<pc, order, held, draft, txn, charge>>
    BY <1>14 DEF StopWatching, Ask, Restock, LogReturn, Die, StartPoll, vars, committed, request
  <2> QED
    BY <1>1, <2>1, InOrderKept
<1> QED
  BY <1>3, <1>4, <1>5, <1>6, <1>7, <1>8, <1>9, <1>10, <1>11, <1>12, <1>13, <1>14
     DEF Next, RequestStep, ServerStep, PollStep

(* Who changes the status of a sale.                                       *)
LEMMA StatusStep ==
  ASSUME IInv, [Next]_vars, NEW s \in Sales
  PROVE  \/ txn'[s] = txn[s]
         \/ (Respond(s) \/ Disconnect(s)) /\ txn[s] = "NONE" /\ txn'[s] = draft[s].status
         \/ \E k \in Polls : poll[k].sale = s /\ (Complete(k) \/ Void(k))
<1> USE DEF IInv
<1>1. ASSUME NEW t \in Sales, Respond(t) \/ Disconnect(t), t # s PROVE txn'[s] = txn[s]
  BY <1>1 DEF Respond, Disconnect, CommitWrites, TypeOK
<1>2. ASSUME Respond(s) \/ Disconnect(s) PROVE txn[s] = "NONE" /\ txn'[s] = draft[s].status
  BY <1>2 DEF Respond, Disconnect, Unanswered, CommitWrites, TypeOK, RequestsInOrder, InOrder
<1>3. ASSUME txn[s] # "NONE"
      PROVE  \/ txn'[s] = txn[s]
             \/ \E k \in Polls : poll[k].sale = s /\ (Complete(k) \/ Void(k))
  BY <1>3, OverIsFrozen
<1>4. ASSUME NEW k \in Polls, Complete(k) \/ Void(k), txn[s] = "NONE" PROVE txn'[s] = txn[s]
  BY <1>4 DEF Complete, Void, PollsKnow, Knows, TypeOK
<1>5. ASSUME NEW t \in Sales,
             \/ CheckStock(t) \/ Reserve(t) \/ Reject(t) \/ Record(t) \/ ChargeAccepted(t)
             \/ ChargeFailed(t) \/ Abort(t) \/ Pay(t) \/ Expire(t) \/ StopWatching(t)
             \/ \E o \in Orders : Admit(t, o)
      PROVE  txn' = txn
  BY <1>5 DEF CheckStock, Reserve, Reject, Record, ChargeAccepted, ChargeFailed, Abort, Pay,
              Expire, StopWatching, Admit, committed
<1>6. ASSUME NEW k \in Polls,
             Ask(k) \/ Restock(k) \/ LogReturn(k) \/ Die(k) \/ \E t \in Sales : StartPoll(k, t)
      PROVE  txn' = txn
  BY <1>6 DEF Ask, Restock, LogReturn, Die, StartPoll, committed
<1>7. CASE UNCHANGED vars
  BY <1>7 DEF vars, committed
<1> QED
  BY <1>1, <1>2, <1>3, <1>4, <1>5, <1>6, <1>7 DEF Next, RequestStep, ServerStep, PollStep

(* Every step keeps VoidMeansFailure.                                      *)
LEMMA VoidStep == IInv /\ [Next]_vars => VoidMeansFailure'
<1> SUFFICES ASSUME IInv, [Next]_vars, NEW s \in Sales, txn'[s] = "VOID"
             PROVE  charge'[s] = "failure"
  BY DEF VoidMeansFailure
<1>1. CASE txn'[s] = txn[s]
  BY <1>1, ChargeFinal DEF IInv, VoidMeansFailure
<1>2. CASE txn'[s] = draft[s].status
  BY <1>2 DEF IInv, TypeOK, DraftState
<1>3. ASSUME NEW k \in Polls, poll[k].sale = s, Complete(k) PROVE FALSE
  BY <1>3 DEF Complete, IInv, TypeOK
<1>4. ASSUME NEW k \in Polls, poll[k].sale = s, Void(k) PROVE charge'[s] = "failure"
  BY <1>4 DEF Void, IInv, PollsKnow, Knows
<1> QED
  BY <1>1, <1>2, <1>3, <1>4, StatusStep

(* Every step keeps the goods of a live sale: its request writes the rows  *)
(* with the transaction, and only the void of a sale returns them.         *)
LEMMA GoodsStep == IInv /\ [Next]_vars => LiveSaleHasItsGoods'
<1> SUFFICES ASSUME IInv, [Next]_vars, NEW s \in Sales, txn'[s] \in {"PENDING", "COMPLETED"},
                    NEW p \in Products
             PROVE  ledger'[s][p] = 0 - Wanted(s)'[p]
  BY DEF LiveSaleHasItsGoods
<1> USE DEF IInv
<1>1. order'[s] = order[s] => Wanted(s)' = Wanted(s)
  BY DEF Wanted, Cart, Taken
<1>2. ASSUME Respond(s) \/ Disconnect(s) PROVE ledger'[s][p] = 0 - Wanted(s)'[p]
  <2>1. txn'[s] = draft[s].status /\ order' = order
    BY <1>2 DEF Respond, Disconnect, CommitWrites, TypeOK
  <2>2. draft[s].rows /\ held[s] = Wanted(s)
    BY <2>1 DEF RequestsInOrder, InOrder
  <2>3. ledger'[s][p] = 0 - held[s][p]
    BY <1>2, <2>2 DEF Respond, Disconnect, CommitWrites, TypeOK
  <2> QED
    BY <1>1, <2>1, <2>2, <2>3
<1>3. CASE ~(Respond(s) \/ Disconnect(s))
  <2>1. txn[s] \in {"PENDING", "COMPLETED"}
    <3>1. ASSUME NEW k \in Polls, poll[k].sale = s, Complete(k) PROVE txn[s] \in {"PENDING", "COMPLETED"}
      BY <3>1 DEF Complete, PollsKnow, Knows, VoidMeansFailure, TypeOK
    <3>2. ASSUME NEW k \in Polls, poll[k].sale = s, Void(k) PROVE FALSE
      BY <3>2 DEF Void, TypeOK
    <3> QED
      BY <1>3, <3>1, <3>2, StatusStep
  <2>2. ledger'[s] = ledger[s]
    <3>1. ASSUME NEW t \in Sales, t # s, Respond(t) \/ Disconnect(t) PROVE ledger'[s] = ledger[s]
      BY <3>1 DEF Respond, Disconnect, CommitWrites, TypeOK
    <3>2. ASSUME NEW k \in Polls, LogReturn(k) PROVE ledger'[s] = ledger[s]
      <4>1. poll[k].sale # s
        BY <2>1, <3>2 DEF LogReturn, PollsKnow, Knows
      <4> QED
        BY <3>2, <4>1 DEF LogReturn, TypeOK
    <3>3. ASSUME NEW t \in Sales,
                 \/ CheckStock(t) \/ Reserve(t) \/ Reject(t) \/ Record(t) \/ ChargeAccepted(t)
                 \/ ChargeFailed(t) \/ Abort(t) \/ Pay(t) \/ Expire(t) \/ StopWatching(t)
                 \/ \E o \in Orders : Admit(t, o)
          PROVE  ledger' = ledger
      BY <3>3 DEF CheckStock, Reserve, Reject, Record, ChargeAccepted, ChargeFailed, Abort, Pay,
                  Expire, StopWatching, Admit, committed
    <3>4. ASSUME NEW k \in Polls,
                 \/ Ask(k) \/ Complete(k) \/ Void(k) \/ Restock(k) \/ Die(k)
                 \/ \E t \in Sales : StartPoll(k, t)
          PROVE  ledger' = ledger
      BY <3>4 DEF Ask, Complete, Void, Restock, Die, StartPoll, committed
    <3>5. CASE UNCHANGED vars
      BY <3>5 DEF vars, committed
    <3> QED
      BY <1>3, <3>1, <3>2, <3>3, <3>4, <3>5 DEF Next, RequestStep, ServerStep, PollStep
  <2>3. order'[s] = order[s]
    BY <2>1, OverIsFrozen
  <2> QED
    BY <1>1, <2>1, <2>2, <2>3 DEF LiveSaleHasItsGoods
<1> QED
  BY <1>2, <1>3

-----------------------------------------------------------------------------
(* The inductive invariant holds at the start.                             *)
LEMMA InitInv == Init => IInv
<1> SUFFICES ASSUME Init PROVE IInv
  OBVIOUS
<1>1. TypeOK
  BY StockAssumption, LimitAssumption, NoSaleAssumption
     DEF Init, TypeOK, Steps, NoOrder, NoDraft, Nothing, IdlePoll, DraftState, PollState, PollSteps
<1>2. StockNeverNegative /\ LocksExclude
  BY StockAssumption DEF Init, StockNeverNegative, LocksExclude, Nothing
<1>3. RequestsInOrder
  BY DEF Init, RequestsInOrder, InOrder, NoDraft
<1>4. PollsKnow /\ VoidMeansFailure /\ LiveSaleHasItsGoods
  BY DEF Init, PollsKnow, Knows, IdlePoll, VoidMeansFailure, LiveSaleHasItsGoods
<1> QED
  BY <1>1, <1>2, <1>3, <1>4 DEF IInv

(* The inductive invariant holds in every state.                           *)
THEOREM Invariance == Spec => []IInv
<1>1. IInv /\ [Next]_vars => IInv'
  BY TypeStep, StockStep, RequestsStep, PollsStep, VoidStep, GoodsStep DEF IInv
<1> QED
  BY InitInv, <1>1, PTL DEF Spec

(* Every variable keeps its type.                                          *)
THEOREM TypeCorrect == Spec => []TypeOK
<1>1. IInv => TypeOK
  BY DEF IInv
<1> QED
  BY Invariance, <1>1, PTL

(* No interleaving of checkouts, polls, timeouts and disconnections drives *)
(* an outlet stock row below zero.                                         *)
THEOREM StockSafe == Spec => []StockNeverNegative
<1>1. IInv => StockNeverNegative
  BY DEF IInv
<1> QED
  BY Invariance, <1>1, PTL

(* No interleaving of polls returns goods of a sale that is pending or     *)
(* paid, and no sale is recorded without the rows of its whole cart.       *)
THEOREM GoodsSafe == Spec => []LiveSaleHasItsGoods
<1>1. IInv => LiveSaleHasItsGoods
  BY DEF IInv
<1> QED
  BY Invariance, <1>1, PTL

-----------------------------------------------------------------------------
(* Midtrans' verdict, as SaleLifecycle sees it.                            *)
Payment == [s \in Sales |-> IF charge[s] \in {"settlement", "failure"} THEN charge[s] ELSE "open"]

(* A step that only moves an order between unknown and open reaches no     *)
(* verdict.                                                                *)
LEMMA PaymentKept ==
  ASSUME TypeOK, NEW t \in Sales,
         NEW c \in {"none", "pending"}, charge' = [charge EXCEPT ![t] = c],
         charge[t] \in {"none", "pending"}
  PROVE  Payment' = Payment
<1>1. \A s \in Sales : charge'[s] = IF s = t THEN c ELSE charge[s]
  BY DEF TypeOK
<1> QED
  BY <1>1 DEF Payment

(* A request ends as SaleLifecycle allows: its transaction appears, or     *)
(* nothing does.                                                           *)
LEMMA RequestRefines ==
  ASSUME IInv, NEW s \in Sales, RequestStep(s)
  PROVE  Lifecycle!Appear(s) \/ UNCHANGED <<txn, Payment>>
<1> USE DEF IInv
<1>1. InOrder(s)
  BY DEF RequestsInOrder
<1>2. CASE ServerStep(s) /\ ~Respond(s)
  <2>1. txn' = txn /\ charge' = charge
    BY <1>2 DEF ServerStep, CheckStock, Reserve, Reject, Record, committed
  <2> QED
    BY <2>1 DEF Payment
<1>3. CASE ChargeAccepted(s) \/ ChargeFailed(s)
  <2>1. PICK c \in {"none", "pending"} : txn' = txn /\ charge' = [charge EXCEPT ![s] = c]
    BY <1>3 DEF ChargeAccepted, ChargeFailed, committed
  <2>2. charge[s] = "none"
    BY <1>1, <1>3 DEF ChargeAccepted, ChargeFailed, InOrder
  <2> QED
    BY <2>1, <2>2, PaymentKept
<1>4. ASSUME pc[s] # "over", ChargeUnknown(s) PROVE Payment' = Payment
  <2>1. CASE pc[s] = "charging"
    <3>1. PICK c \in {"none", "pending"} : charge' = [charge EXCEPT ![s] = c]
      BY <1>4, <2>1 DEF ChargeUnknown
    <3> QED
      BY <1>1, <2>1, <3>1, PaymentKept DEF InOrder
  <2>2. CASE pc[s] # "charging"
    <3>1. charge' = charge
      BY <1>4, <2>2 DEF ChargeUnknown, TypeOK
    <3> QED
      BY <3>1 DEF Payment
  <2> QED
    BY <2>1, <2>2
<1>5. CASE Abort(s)
  BY <1>4, <1>5 DEF Abort, Unanswered, committed
<1>6. CASE Respond(s) \/ Disconnect(s)
  <2>1. Payment' = Payment
    <3>1. CASE Respond(s)
      BY <3>1 DEF Respond, Payment
    <3>2. CASE Disconnect(s)
      BY <1>4, <3>2 DEF Disconnect, Unanswered
    <3> QED
      BY <1>6, <3>1, <3>2
  <2>2. txn[s] = "NONE" /\ txn' = [txn EXCEPT ![s] = draft[s].status]
    BY <1>1, <1>6 DEF Respond, Disconnect, Unanswered, CommitWrites, InOrder
  <2>3. draft[s].status \in {"NONE", "PENDING", "COMPLETED"}
    BY DEF TypeOK, DraftState
  <2>4. CASE draft[s].status = "NONE"
    BY <2>1, <2>2, <2>4 DEF TypeOK
  <2>5. CASE draft[s].status # "NONE"
    BY <2>1, <2>2, <2>3, <2>5 DEF Lifecycle!Appear, Payment
  <2> QED
    BY <2>4, <2>5
<1> QED
  BY <1>2, <1>3, <1>5, <1>6 DEF RequestStep

(* A poll acts as SaleLifecycle allows, although it acts on what it read   *)
(* two statements earlier: a second verdict on a sale repeats the first.   *)
LEMMA PollRefines ==
  ASSUME IInv, NEW k \in Polls, PollStep(k)
  PROVE  \/ \E s \in Sales : Lifecycle!Settle(s) \/ Lifecycle!Release(s)
         \/ UNCHANGED <<txn, Payment>>
<1> USE DEF IInv
<1> DEFINE s == poll[k].sale
<1>1. charge' = charge
  BY DEF PollStep, Ask, Complete, Void, Restock, LogReturn
<1>2. Payment' = Payment
  BY <1>1 DEF Payment
<1>3. poll[k].pc # "idle" => s \in Sales /\ txn[s] \in {"PENDING", "COMPLETED", "VOID"}
  BY DEF PollsKnow, Knows, TypeOK
<1>4. CASE Ask(k) \/ Restock(k) \/ LogReturn(k)
  BY <1>2, <1>4 DEF Ask, Restock, LogReturn, committed
<1>5. CASE Complete(k)
  <2>1. s \in Sales /\ charge[s] = "settlement" /\ txn' = [txn EXCEPT ![s] = "COMPLETED"]
    BY <1>3, <1>5 DEF Complete, PollsKnow, Knows
  <2>2. txn[s] \in {"PENDING", "COMPLETED"}
    BY <1>3, <1>5, <2>1 DEF Complete, VoidMeansFailure
  <2>3. CASE txn[s] = "COMPLETED"
    BY <1>2, <2>1, <2>3 DEF TypeOK
  <2>4. CASE txn[s] = "PENDING"
    <3>1. Lifecycle!Settle(s)
      BY <1>2, <2>1, <2>4 DEF Lifecycle!Settle, Payment
    <3> QED
      BY <2>1, <3>1
  <2> QED
    BY <2>2, <2>3, <2>4
<1>6. CASE Void(k)
  <2>1. s \in Sales /\ charge[s] = "failure" /\ txn' = [txn EXCEPT ![s] = "VOID"]
    BY <1>3, <1>6 DEF Void, PollsKnow, Knows
  <2>2. txn[s] \in {"PENDING", "VOID"}
    BY <1>3, <1>6, <2>1 DEF Void, PollsKnow, Knows
  <2>3. CASE txn[s] = "VOID"
    BY <1>2, <2>1, <2>3 DEF TypeOK
  <2>4. CASE txn[s] = "PENDING"
    <3>1. Lifecycle!Release(s)
      BY <1>2, <2>1, <2>4 DEF Lifecycle!Release, Payment
    <3> QED
      BY <2>1, <3>1
  <2> QED
    BY <2>2, <2>3, <2>4
<1> QED
  BY <1>4, <1>5, <1>6 DEF PollStep

(* Checkout, polls and Midtrans together implement SaleLifecycle: a sale   *)
(* is recorded once, settled only after a payment, voided only after a     *)
(* failure, and what is final stays final.                                 *)
THEOREM Refinement == Spec => KeepsLifecycle
<1>1. Init => Lifecycle!Init
  BY DEF Init, Lifecycle!Init
<1>2. IInv /\ [Next]_vars => [Lifecycle!Next]_(Lifecycle!vars)
  <2> SUFFICES ASSUME IInv, [Next]_vars
               PROVE  Lifecycle!Next \/ UNCHANGED <<txn, Payment>>
    BY DEF Lifecycle!vars, Payment
  <2>1. ASSUME NEW s \in Sales, RequestStep(s)
        PROVE  Lifecycle!Next \/ UNCHANGED <<txn, Payment>>
    BY <2>1, RequestRefines DEF Lifecycle!Next
  <2>2. ASSUME NEW s \in Sales, Pay(s) \/ Expire(s) PROVE Lifecycle!Next
    <3>1. PICK x \in {"settlement", "failure"} : charge' = [charge EXCEPT ![s] = x]
      BY <2>2 DEF Pay, Expire
    <3>2. txn' = txn /\ charge[s] = "pending"
      BY <2>2 DEF Pay, Expire, committed
    <3>3. Payment[s] = "open" /\ Payment' = [Payment EXCEPT ![s] = x]
      BY <3>1, <3>2 DEF Payment, IInv, TypeOK
    <3>4. Lifecycle!Decide(s)
      BY <3>2, <3>3 DEF Lifecycle!Decide, Payment
    <3> QED
      BY <3>4 DEF Lifecycle!Next
  <2>3. ASSUME NEW k \in Polls, PollStep(k)
        PROVE  Lifecycle!Next \/ UNCHANGED <<txn, Payment>>
    BY <2>3, PollRefines DEF Lifecycle!Next
  <2>4. ASSUME \/ \E s \in Sales, o \in Orders : Admit(s, o)
               \/ \E s \in Sales : StopWatching(s)
               \/ \E k \in Polls : Die(k)
               \/ \E k \in Polls, s \in Sales : StartPoll(k, s)
               \/ UNCHANGED vars
        PROVE  UNCHANGED <<txn, Payment>>
    <3>1. txn' = txn /\ charge' = charge
      BY <2>4 DEF Admit, StopWatching, Die, StartPoll, vars, committed
    <3> QED
      BY <3>1 DEF Payment
  <2> QED
    BY <2>1, <2>2, <2>3, <2>4 DEF Next
<1> QED
  BY Invariance, <1>1, <1>2, PTL DEF Spec, KeepsLifecycle, Lifecycle!Spec

-----------------------------------------------------------------------------
(* What a void gives back, and what the ledger says of it.                 *)
OneLineEach(cart) == \A i, j \in DOMAIN cart : cart[i].product = cart[j].product => i = j

(* The statements of a sale's request in their order: its row, its ledger, *)
(* its answer.  A cart that names a product twice is never reserved.       *)
Written(s) ==
  /\ txn[s] = "NONE" => voids[s] = 0
  /\ pc[s] # "over" => ledger[s] = Nothing
  /\ pc[s] \notin {"answered", "over"} => reply[s] = "none"
  /\ pc[s] = "charging" => draft[s].status # "NONE"
  /\ pc[s] = "answered" /\ reply[s] = "ok" => draft[s].status # "NONE"
  /\ pc[s] \in {"reserved", "charging"} \/ draft[s].status # "NONE" \/ txn[s] # "NONE"
       => OneLineEach(Cart(s))

AllWritten == \A s \in Sales : Written(s)

(* The polls that have still to write that p came back from s.             *)
Owing(s, p) ==
  {k \in Polls : /\ poll[k].sale = s /\ poll[k].pc \in {"restock", "log"}
                 /\ \E i \in poll[k].next..Len(Cart(s)) : Cart(s)[i].product = p}

(* Each void but those at work gave back the cart at most once.            *)
ReturnsCounted ==
  \A s \in Recorded, p \in Products :
    /\ ledger[s][p] >= 0 - Wanted(s)[p]
    /\ ledger[s][p] <= (voids[s] - 1 - Cardinality(Owing(s, p))) * Wanted(s)[p]

(* What the polls have put back and not logged.                            *)
Unlogged(p) ==
  [k \in Polls |-> IF poll[k].pc = "log" /\ Line(k).product = p THEN Line(k).qty ELSE 0]

(* A checkout that was refused or cut off.                                 *)
CutOff == \E s \in Sales : pc[s] = "over" /\ txn[s] = "NONE" /\ reply[s] # "ok"

GapsKnown ==
  \A p \in Products :
    /\ ~CutOff => Gap(p) >= SumOver(Unlogged(p), Polls)
    /\ torn = {} => Gap(p) <= SumOver(Unlogged(p), Polls)

(* A cart without a product twice takes of each what its line says.        *)
LEMMA TakenOnce ==
  ASSUME NEW cart \in Seq(Lines), OneLineEach(cart), NEW i \in DOMAIN cart
  PROVE  Taken(cart, DOMAIN cart)[cart[i].product] = cart[i].qty
<1>1. cart[i] \in Lines
  OBVIOUS
<1>2. cart[i].product \in Products
  BY <1>1 DEF Lines
<1> DEFINE p == cart[i].product
           c == CHOOSE j \in DOMAIN cart : cart[j].product = p
<1>3. c \in DOMAIN cart /\ cart[c].product = p
  OBVIOUS
<1>4. c = i
  BY <1>3 DEF OneLineEach
<1>5. Taken(cart, DOMAIN cart)[p] = cart[c].qty
  BY <1>2 DEF Taken
<1> QED
  BY <1>4, <1>5

(* A set of applied lines that is the whole cart names no product twice.   *)
LEMMA AppliedWhole ==
  ASSUME NEW cart, DOMAIN cart \in Applications(cart)
  PROVE  OneLineEach(cart)
BY DEF Applications, OneLineEach

(* Every step keeps what is written in order.                              *)
LEMMA WrittenStep == IInv /\ AllWritten /\ [Next]_vars => AllWritten'
<1> SUFFICES ASSUME IInv, AllWritten, [Next]_vars, NEW s \in Sales PROVE Written(s)'
  BY DEF AllWritten
<1>1. Written(s) /\ InOrder(s)
  BY DEF AllWritten, IInv, RequestsInOrder
<1>2. /\ pc \in [Sales -> Steps] /\ txn \in [Sales -> {"NONE", "PENDING", "COMPLETED", "VOID"}]
      /\ ledger \in [Sales -> [Products -> Int]] /\ voids \in [Sales -> Nat]
      /\ reply \in [Sales -> {"none", "ok", "refused"}] /\ draft \in [Sales -> DraftState]
      /\ order \in [Sales -> Orders \cup {NoOrder}] /\ poll \in [Polls -> PollState]
  BY DEF IInv, TypeOK
<1>3. ASSUME UNCHANGED <<pc, txn, ledger, voids, reply, draft, order>> PROVE Written(s)'
  BY <1>1, <1>3 DEF Written, Cart, OneLineEach, Nothing
<1>4. ASSUME pc'[s] = pc[s], txn'[s] = txn[s], ledger'[s] = ledger[s], voids'[s] = voids[s],
             reply'[s] = reply[s], draft'[s] = draft[s], order'[s] = order[s]
      PROVE  Written(s)'
  BY <1>1, <1>4 DEF Written, Cart, OneLineEach, Nothing
<1>5. ASSUME NEW o \in Orders, Admit(s, o) PROVE Written(s)'
  BY <1>1, <1>2, <1>5 DEF Admit, Move, Written, InOrder, committed, past
<1>6. ASSUME CheckStock(s) PROVE Written(s)'
  BY <1>1, <1>2, <1>6 DEF CheckStock, Answer, Move, Written, InOrder, Cart, committed, past
<1>7. ASSUME Reserve(s) PROVE Written(s)'
  <2>1. /\ pc[s] = "checked" /\ UNCHANGED <<order, txn, ledger, voids, draft>>
    BY <1>7 DEF Reserve, committed, past
  <2>2. \/ pc'[s] = "answered" /\ reply'[s] = "refused"
        \/ pc'[s] = "reserved" /\ reply'[s] = reply[s] /\ OneLineEach(Cart(s))
    BY <1>2, <1>7, AppliedWhole DEF Reserve, Answer, Move
  <2> QED
    BY <1>1, <2>1, <2>2 DEF Written, InOrder, Cart
<1>8. ASSUME Reject(s) PROVE Written(s)'
  <2>1. /\ pc[s] = "reserved" /\ pc'[s] = "answered" /\ reply'[s] = "refused"
        /\ draft'[s].status = "NONE" /\ UNCHANGED <<order, txn, ledger, voids>>
    BY <1>2, <1>8 DEF Reject, Answer, Move, committed, past
  <2> QED
    BY <1>1, <2>1 DEF Written, InOrder, Cart
<1>9. ASSUME Record(s) PROVE Written(s)'
  <2>1. /\ pc[s] = "reserved" /\ draft'[s].status # "NONE"
        /\ UNCHANGED <<order, txn, ledger, voids>>
        /\ \/ pc'[s] = "charging" /\ reply'[s] = reply[s]
           \/ pc'[s] = "answered"
    BY <1>2, <1>9 DEF Record, Answer, Move, committed, past
  <2> QED
    BY <1>1, <2>1 DEF Written, InOrder, Cart
<1>10. ASSUME ChargeAccepted(s) PROVE Written(s)'
  <2>1. /\ pc[s] = "charging" /\ pc'[s] = "answered"
        /\ UNCHANGED <<order, txn, ledger, voids, draft>>
    BY <1>2, <1>10 DEF ChargeAccepted, Answer, Move, committed, past
  <2> QED
    BY <1>1, <2>1 DEF Written, InOrder, Cart
<1>11. ASSUME ChargeFailed(s) PROVE Written(s)'
  <2>1. /\ pc[s] = "charging" /\ pc'[s] = "answered" /\ reply'[s] = "refused"
        /\ draft'[s].status = "NONE" /\ UNCHANGED <<order, txn, ledger, voids>>
    BY <1>2, <1>11 DEF ChargeFailed, Answer, Move, committed, past
  <2> QED
    BY <1>1, <2>1 DEF Written, InOrder, Cart
<1>12. ASSUME Respond(s) \/ Disconnect(s) PROVE Written(s)'
  <2>1. /\ pc'[s] = "over" /\ txn'[s] = draft[s].status /\ draft'[s].status = "NONE"
        /\ UNCHANGED <<order, voids, reply>> /\ txn[s] = "NONE"
    BY <1>1, <1>2, <1>12 DEF Respond, Disconnect, Unanswered, CommitWrites, End, Move, NoDraft, past, InOrder
  <2> QED
    BY <1>1, <2>1 DEF Written, Cart
<1>13. ASSUME Abort(s) PROVE Written(s)'
  <2>1. /\ pc[s] # "over" /\ pc'[s] = "over" /\ draft'[s].status = "NONE"
        /\ UNCHANGED <<order, txn, ledger, voids, reply>>
    BY <1>2, <1>13 DEF Abort, Unanswered, End, Move, NoDraft, past, committed
  <2> QED
    BY <1>1, <2>1 DEF Written, Cart, InOrder
<1>14. ASSUME NEW t \in Sales, t # s, Respond(t) \/ Disconnect(t) \/ Abort(t) PROVE Written(s)'
  <2>1. /\ pc'[s] = pc[s] /\ txn'[s] = txn[s] /\ ledger'[s] = ledger[s] /\ voids'[s] = voids[s]
        /\ reply'[s] = reply[s] /\ draft'[s] = draft[s] /\ order'[s] = order[s]
    BY <1>2, <1>14 DEF Respond, Disconnect, Abort, CommitWrites, End, Move, past, committed
  <2> QED
    BY <1>4, <2>1
<1>15. ASSUME NEW t \in Sales, t # s,
              \/ CheckStock(t) \/ Reserve(t) \/ Reject(t) \/ Record(t)
              \/ ChargeAccepted(t) \/ ChargeFailed(t) \/ \E o \in Orders : Admit(t, o)
       PROVE  Written(s)'
  <2>1. /\ pc'[s] = pc[s] /\ reply'[s] = reply[s] /\ draft'[s] = draft[s] /\ order'[s] = order[s]
        /\ UNCHANGED <<txn, ledger, voids>>
    BY <1>2, <1>15 DEF CheckStock, Reserve, Reject, Record, ChargeAccepted, ChargeFailed, Admit,
                       Answer, Move, committed, past
  <2> QED
    BY <1>4, <2>1
<1>16. ASSUME NEW k \in Polls, Complete(k) \/ Void(k) PROVE Written(s)'
  <2>1. poll[k].sale \in Sales /\ txn[poll[k].sale] # "NONE"
    BY <1>16 DEF Complete, Void, IInv, PollsKnow, Knows
  <2>2. /\ UNCHANGED <<pc, ledger, reply, draft, order>>
        /\ txn'[s] = "NONE" => txn[s] = "NONE" /\ voids'[s] = voids[s]
        /\ txn'[s] # "NONE" => txn[s] # "NONE"
    BY <1>2, <1>16, <2>1 DEF Complete, Void, request, past
  <2> QED
    BY <1>1, <2>2 DEF Written, Cart
<1>17. ASSUME NEW k \in Polls, LogReturn(k) PROVE Written(s)'
  <2>1. poll[k].sale \in Sales /\ txn[poll[k].sale] # "NONE"
    BY <1>17 DEF LogReturn, IInv, PollsKnow, Knows
  <2>2. pc[poll[k].sale] = "over"
    BY <2>1 DEF IInv, RequestsInOrder, InOrder
  <2>3. /\ UNCHANGED <<pc, txn, voids, reply, draft, order>>
        /\ pc[s] # "over" => ledger'[s] = ledger[s]
    BY <1>2, <1>17, <2>1, <2>2 DEF LogReturn, request, past
  <2> QED
    BY <1>1, <2>3 DEF Written, Cart
<1>18. ASSUME \/ \E t \in Sales : Pay(t) \/ Expire(t) \/ StopWatching(t)
              \/ \E k \in Polls : Ask(k) \/ Restock(k) \/ Die(k)
              \/ \E k \in Polls, t \in Sales : StartPoll(k, t)
              \/ UNCHANGED vars
       PROVE  Written(s)'
  <2>1. UNCHANGED <<pc, txn, ledger, voids, reply, draft, order>>
    BY <1>18 DEF Pay, Expire, StopWatching, Ask, Restock, Die, StartPoll, vars, committed, request, past
  <2> QED
    BY <1>3, <2>1
<1> QED
  BY <1>5, <1>6, <1>7, <1>8, <1>9, <1>10, <1>11, <1>12, <1>13, <1>14, <1>15, <1>16, <1>17, <1>18
     DEF Next, RequestStep, ServerStep, PollStep

(* The steps that move no goods and log none.                              *)
Quiet ==
  /\ UNCHANGED <<stock, ledger, voids, torn>>
  /\ \A s \in Sales : txn'[s] = "NONE" <=> txn[s] = "NONE"
  /\ \A k \in Polls :
       \/ poll'[k] = poll[k]
       \/ poll[k].pc \notin {"restock", "log"} /\ poll'[k].pc \notin {"restock", "log"}

(* Which steps are not quiet.                                              *)
LEMMA NotQuiet ==
  ASSUME IInv, [Next]_vars
  PROVE  \/ Quiet
         \/ \E s \in Sales : Respond(s) \/ Disconnect(s)
         \/ \E k \in Polls : Void(k) \/ Restock(k) \/ LogReturn(k) \/ Die(k)
<1>1. ASSUME NEW s \in Sales,
             \/ CheckStock(s) \/ Reserve(s) \/ Reject(s) \/ Record(s) \/ ChargeAccepted(s)
             \/ ChargeFailed(s) \/ Abort(s) \/ Pay(s) \/ Expire(s) \/ StopWatching(s)
             \/ \E o \in Orders : Admit(s, o)
      PROVE  Quiet
  BY <1>1 DEF CheckStock, Reserve, Reject, Record, ChargeAccepted, ChargeFailed, Abort, Pay,
              Expire, StopWatching, Admit, committed, past, Quiet
<1>2. poll \in [Polls -> PollState] /\ IdlePoll.pc = "idle"
  BY DEF IInv, TypeOK, IdlePoll
<1>3. ASSUME NEW k \in Polls, Ask(k) PROVE Quiet
  <2>1. /\ UNCHANGED <<stock, ledger, voids, torn, txn>> /\ poll[k].pc = "asking"
        /\ poll'[k].pc \notin {"restock", "log"}
        /\ \A j \in Polls \ {k} : poll'[j] = poll[j]
    BY <1>2, <1>3 DEF Ask, committed, past, Step, Done
  <2> QED
    BY <2>1 DEF Quiet
<1>4. ASSUME NEW k \in Polls, NEW s \in Sales, StartPoll(k, s) PROVE Quiet
  <2>1. /\ UNCHANGED <<stock, ledger, voids, torn, txn>> /\ poll[k].pc = "idle"
        /\ poll'[k].pc = "asking"
        /\ \A j \in Polls \ {k} : poll'[j] = poll[j]
    BY <1>2, <1>4 DEF StartPoll, committed, past
  <2> QED
    BY <2>1 DEF Quiet
<1>5. ASSUME NEW k \in Polls, Complete(k) PROVE Quiet
  <2>1. poll[k].sale \in Sales /\ txn[poll[k].sale] # "NONE"
    BY <1>5 DEF Complete, IInv, PollsKnow, Knows
  <2>2. \A s \in Sales : txn'[s] = "NONE" <=> txn[s] = "NONE"
    BY <1>5, <2>1 DEF Complete, IInv, TypeOK
  <2>3. /\ UNCHANGED <<stock, ledger, voids, torn>> /\ poll[k].pc = "completing"
        /\ poll'[k].pc = "idle"
        /\ \A j \in Polls \ {k} : poll'[j] = poll[j]
    BY <1>2, <1>5 DEF Complete, past, Done
  <2> QED
    BY <2>2, <2>3 DEF Quiet
<1>6. CASE UNCHANGED vars
  BY <1>6 DEF vars, committed, past, Quiet
<1> QED
  BY <1>1, <1>3, <1>4, <1>5, <1>6 DEF Next, RequestStep, ServerStep, PollStep

(* More of what is positive is more.                                       *)
LEMMA MoreTimes ==
  ASSUME NEW a \in Int, NEW b \in Int, NEW w \in Nat, a <= b
  PROVE  a * w <= b * w
OBVIOUS

(* The counts of voids and of polls at work.                               *)
LEMMA CountTypes ==
  ASSUME TypeOK, NEW s \in Sales, NEW p \in Products
  PROVE  /\ IsFiniteSet(Owing(s, p)) /\ Cardinality(Owing(s, p)) \in Nat
         /\ voids[s] \in Nat /\ ledger[s][p] \in Int
<1>1. Owing(s, p) \subseteq Polls
  BY DEF Owing
<1>2. IsFiniteSet(Owing(s, p))
  BY <1>1, FiniteAssumption, FS_Subset
<1> QED
  BY <1>2, FS_CardinalityType DEF TypeOK

(* What a recorded sale wants is a quantity, and stays what it is.         *)
LEMMA WantedKept ==
  ASSUME IInv, [Next]_vars, NEW s \in Sales, txn[s] # "NONE"
  PROVE  /\ Wanted(s) \in [Products -> Nat] /\ Wanted(s)' = Wanted(s)
         /\ Cart(s) \in Seq(Lines) /\ Cart(s)' = Cart(s) /\ txn'[s] # "NONE" /\ pc[s] = "over"
<1>1. order'[s] = order[s] /\ txn'[s] # "NONE"
  BY OverIsFrozen
<1>2. pc[s] = "over"
  BY DEF IInv, RequestsInOrder, InOrder
<1>3. Cart(s) \in Seq(Lines)
  BY <1>2, CartType DEF IInv
<1>4. Wanted(s) \in [Products -> Nat]
  BY <1>3, TakenType DEF Wanted
<1>5. Cart(s)' = Cart(s)
  BY <1>1 DEF Cart
<1>6. Wanted(s)' = Wanted(s)
  BY <1>5 DEF Wanted, Taken
<1> QED
  BY <1>1, <1>2, <1>3, <1>4, <1>5, <1>6

(* Where no poll at work on the sale moves, the same polls owe.            *)
LEMMA OwingSame ==
  ASSUME NEW s \in Sales, NEW p \in Products, Cart(s)' = Cart(s),
         \A k \in Polls :
           \/ poll'[k] = poll[k]
           \/ poll[k].pc \notin {"restock", "log"} /\ poll'[k].pc \notin {"restock", "log"}
           \/ poll[k].sale # s /\ poll'[k].sale # s
  PROVE  Owing(s, p)' = Owing(s, p)
BY DEF Owing

(* A void counts the return of every line as owed.                         *)
LEMMA VoidCounts ==
  ASSUME IInv, ReturnsCounted, [Next]_vars, NEW s \in Sales, NEW p \in Products, txn[s] # "NONE",
         NEW k \in Polls, Void(k)
  PROVE  ledger'[s][p] <= (voids'[s] - 1 - Cardinality(Owing(s, p)')) * Wanted(s)[p]
<1>1. /\ ledger[s][p] <= (voids[s] - 1 - Cardinality(Owing(s, p))) * Wanted(s)[p]
      /\ ledger' = ledger
  BY DEF ReturnsCounted, Recorded, Void
<1>2. Wanted(s)[p] \in Nat /\ Cart(s)' = Cart(s)
  BY WantedKept
<1>3. /\ IsFiniteSet(Owing(s, p)) /\ Cardinality(Owing(s, p)) \in Nat
      /\ voids[s] \in Nat /\ ledger[s][p] \in Int
  BY CountTypes DEF IInv
<1>4. /\ poll[k].pc = "voiding" /\ poll[k].sale \in Sales
      /\ poll'[k] = [pc |-> "restock", sale |-> poll[k].sale, next |-> poll[k].next]
      /\ \A j \in Polls \ {k} : poll'[j] = poll[j]
      /\ voids'[s] = IF poll[k].sale = s THEN voids[s] + 1 ELSE voids[s]
  BY DEF Void, Step, IInv, TypeOK, PollsKnow, Knows
<1>5. CASE poll[k].sale # s
  BY <1>1, <1>2, <1>4, <1>5, OwingSame
<1>6. CASE poll[k].sale = s
  <2> DEFINE n == Cardinality(Owing(s, p))
             v == voids[s]
             w == Wanted(s)[p]
  <2>1. k \notin Owing(s, p)
    BY <1>4 DEF Owing
  <2>2. \/ Owing(s, p)' = Owing(s, p)
        \/ Owing(s, p)' = Owing(s, p) \cup {k}
    BY <1>2, <1>4, <1>6, <2>1 DEF Owing
  <2>3. Cardinality(Owing(s, p) \cup {k}) = n + 1
    BY <1>3, <2>1, FS_AddElement
  <2>4. /\ voids'[s] = v + 1
        /\ Cardinality(Owing(s, p)') = n \/ Cardinality(Owing(s, p)') = n + 1
    BY <1>4, <1>6, <2>2, <2>3
  <2>5. PICK m \in {n, n + 1} : m = Cardinality(Owing(s, p)')
    BY <2>4
  <2> HIDE DEF n, v, w
  <2>6. n \in Nat /\ v \in Nat /\ w \in Nat /\ ledger[s][p] \in Int /\ ledger[s][p] <= (v - 1 - n) * w
    BY <1>1, <1>2, <1>3 DEF n, v, w
  <2>7. v - 1 - n <= v + 1 - 1 - m /\ v - 1 - n \in Int /\ v + 1 - 1 - m \in Int
    BY <2>5, <2>6
  <2>8. (v - 1 - n) * w <= (v + 1 - 1 - m) * w
    BY <2>6, <2>7, MoreTimes
  <2>9. ledger[s][p] <= (v + 1 - 1 - m) * w
    BY <2>6, <2>7, <2>8
  <2>10. voids'[s] = v + 1
    BY <2>4
  <2>11. voids'[s] - 1 - m = v + 1 - 1 - m
    BY <2>5, <2>6, <2>10
  <2>12. ledger'[s][p] = ledger[s][p]
    BY <1>1
  <2>13. ledger'[s][p] <= (voids'[s] - 1 - m) * w
    BY <2>9, <2>11, <2>12
  <2> QED
    BY <2>5, <2>13 DEF w
<1> QED
  BY <1>5, <1>6

(* The log of a line is one return less owed.                              *)
LEMMA LogCounts ==
  ASSUME IInv, AllWritten, ReturnsCounted, [Next]_vars,
         NEW s \in Sales, NEW p \in Products, txn[s] # "NONE", NEW k \in Polls, LogReturn(k)
  PROVE  /\ ledger'[s][p] >= 0 - Wanted(s)[p]
         /\ ledger'[s][p] <= (voids'[s] - 1 - Cardinality(Owing(s, p)')) * Wanted(s)[p]
<1>1. /\ ledger[s][p] <= (voids[s] - 1 - Cardinality(Owing(s, p))) * Wanted(s)[p]
      /\ ledger[s][p] >= 0 - Wanted(s)[p]
      /\ voids' = voids
  BY DEF ReturnsCounted, Recorded, LogReturn, past
<1>2. /\ Wanted(s)[p] \in Nat /\ Cart(s)' = Cart(s) /\ Cart(s) \in Seq(Lines)
      /\ OneLineEach(Cart(s))
  BY WantedKept DEF AllWritten, Written
<1>3. /\ IsFiniteSet(Owing(s, p)) /\ Cardinality(Owing(s, p)) \in Nat
      /\ voids[s] \in Nat /\ ledger[s][p] \in Int
  BY CountTypes DEF IInv
<1>4. /\ poll[k].pc = "log" /\ poll[k].sale \in Sales
      /\ poll[k].next \in 1..Len(Cart(poll[k].sale))
      /\ \A j \in Polls \ {k} : poll'[j] = poll[j]
      /\ IF poll[k].next < Len(Cart(poll[k].sale))
           THEN poll'[k] = [pc |-> "restock", sale |-> poll[k].sale, next |-> poll[k].next + 1]
           ELSE poll'[k] = IdlePoll
      /\ ledger' = [ledger EXCEPT ![poll[k].sale][Line(k).product] = @ + Line(k).qty]
      /\ ledger \in [Sales -> [Products -> Int]]
  BY DEF LogReturn, Done, IInv, TypeOK, PollsKnow, Knows
<1>5. CASE poll[k].sale # s
  <2>1. poll'[k].sale # s
    BY <1>4, <1>5, NoSaleAssumption DEF IdlePoll
  <2>2. Owing(s, p)' = Owing(s, p)
    BY <1>2, <1>4, <1>5, <2>1, OwingSame
  <2>3. ledger'[s] = ledger[s]
    BY <1>4, <1>5
  <2> QED
    BY <1>1, <2>2, <2>3
<1>6. CASE poll[k].sale = s
  <2> DEFINE n == poll[k].next
             l == Cart(s)[n]
  <2>1. n \in DOMAIN Cart(s) /\ DOMAIN Cart(s) = 1..Len(Cart(s)) /\ Len(Cart(s)) \in Nat /\ Line(k) = l
    BY <1>2, <1>4, <1>6 DEF Line
  <2>2. l \in Lines
    BY <1>2, <2>1
  <2>3. l.product \in Products /\ l.qty \in Nat
    BY <2>2 DEF Lines
  <2>4. Wanted(s)[l.product] = l.qty
    BY <1>2, <2>1, TakenOnce DEF Wanted
  <2>5. ledger'[s][p] = IF p = l.product THEN ledger[s][p] + l.qty ELSE ledger[s][p]
    <3>1. ledger'[s] = [ledger[s] EXCEPT ![l.product] = @ + l.qty]
      BY <1>4, <1>6, <2>1
    <3>2. ledger[s] \in [Products -> Int]
      BY <1>4
    <3> HIDE DEF l
    <3> QED
      BY <2>3, <3>1, <3>2
  <2>6. k \in Owing(s, p)' <=> (n < Len(Cart(s)) /\ \E i \in (n + 1)..Len(Cart(s)) : Cart(s)[i].product = p)
    BY <1>2, <1>4, <1>6 DEF Owing, IdlePoll
  <2>7. k \in Owing(s, p) <=> \E i \in n..Len(Cart(s)) : Cart(s)[i].product = p
    BY <1>4, <1>6 DEF Owing
  <2>8. \A j \in Polls \ {k} : j \in Owing(s, p)' <=> j \in Owing(s, p)
    BY <1>2, <1>4 DEF Owing
  <2>9. Owing(s, p) \subseteq Polls /\ Owing(s, p)' \subseteq Polls
    BY DEF Owing
  <2>10. CASE p # l.product
    <3>1. k \in Owing(s, p)' <=> k \in Owing(s, p)
      <4>1. \A i \in n..Len(Cart(s)) : Cart(s)[i].product = p => i \in (n + 1)..Len(Cart(s)) /\ n < Len(Cart(s))
        BY <2>1, <2>10
      <4>2. \A i \in (n + 1)..Len(Cart(s)) : i \in n..Len(Cart(s))
        BY <2>1
      <4> HIDE DEF n
      <4> QED
        BY <2>6, <2>7, <4>1, <4>2
    <3>2. Owing(s, p)' = Owing(s, p)
      BY <2>8, <2>9, <3>1
    <3> QED
      BY <1>1, <2>5, <2>10, <3>2
  <2>11. CASE p = l.product
    <3>1. k \in Owing(s, p)
      <4>1. n \in n..Len(Cart(s)) /\ Cart(s)[n].product = p
        BY <2>1, <2>11
      <4> QED
        BY <2>7, <4>1
    <3>2. k \notin Owing(s, p)'
      <4>1. \A i \in (n + 1)..Len(Cart(s)) : i \in DOMAIN Cart(s) /\ i # n
        BY <2>1
      <4>2. \A i \in (n + 1)..Len(Cart(s)) : Cart(s)[i].product # p
        BY <1>2, <2>1, <2>11, <4>1 DEF OneLineEach
      <4> HIDE DEF n
      <4> QED
        BY <2>6, <4>2
    <3>3. Owing(s, p)' = Owing(s, p) \ {k}
      BY <2>8, <2>9, <3>1, <3>2
    <3>4. Cardinality(Owing(s, p)') = Cardinality(Owing(s, p)) - 1
      BY <1>3, <3>1, <3>3, FS_RemoveElement
    <3> DEFINE c == Cardinality(Owing(s, p))
               w == Wanted(s)[p]
               v == voids[s]
    <3>5. l.qty = w /\ ledger'[s][p] = ledger[s][p] + w /\ voids'[s] = v
      BY <1>1, <2>4, <2>5, <2>11
    <3>6. c \in Nat /\ w \in Nat /\ v \in Nat /\ ledger[s][p] \in Int
          /\ ledger[s][p] <= (v - 1 - c) * w /\ ledger[s][p] >= 0 - w
      BY <1>1, <1>2, <1>3
    <3> HIDE DEF c, w, v
    <3>7. (v - 1 - c) * w + w = (v - 1 - (c - 1)) * w
      BY <3>6
    <3>8. (v - 1 - c) * w \in Int
      BY <3>6
    <3>9. ledger[s][p] + w <= (v - 1 - (c - 1)) * w
      BY <3>6, <3>7, <3>8
    <3>10. ledger[s][p] + w >= 0 - w
      BY <3>6
    <3> QED
      BY <3>4, <3>5, <3>9, <3>10 DEF c, w
  <2> QED
    BY <2>10, <2>11
<1> QED
  BY <1>5, <1>6

(* A poll that dies leaves its returns undone.                             *)
LEMMA DeathCounts ==
  ASSUME IInv, ReturnsCounted, [Next]_vars, NEW s \in Sales, NEW p \in Products, txn[s] # "NONE",
         NEW k \in Polls, Die(k)
  PROVE  ledger[s][p] <= (voids[s] - 1 - Cardinality(Owing(s, p)')) * Wanted(s)[p]
<1>1. ledger[s][p] <= (voids[s] - 1 - Cardinality(Owing(s, p))) * Wanted(s)[p]
  BY DEF ReturnsCounted, Recorded
<1>2. Wanted(s)[p] \in Nat /\ Cart(s)' = Cart(s)
  BY WantedKept
<1>3. /\ IsFiniteSet(Owing(s, p)) /\ Cardinality(Owing(s, p)) \in Nat
      /\ voids[s] \in Nat /\ ledger[s][p] \in Int
  BY CountTypes DEF IInv
<1>4. poll'[k] = IdlePoll /\ \A j \in Polls \ {k} : poll'[j] = poll[j]
  BY DEF Die, Done, IInv, TypeOK
<1>5. Owing(s, p)' \subseteq Owing(s, p)
  BY <1>2, <1>4 DEF Owing, IdlePoll
<1> DEFINE c == Cardinality(Owing(s, p))
           d == Cardinality(Owing(s, p)')
           w == Wanted(s)[p]
           v == voids[s]
<1>6. d \in Nat /\ d <= c
  BY <1>3, <1>5, FS_Subset, FS_CardinalityType
<1> HIDE DEF c, d, w, v
<1>7. c \in Nat /\ w \in Nat /\ v \in Nat /\ ledger[s][p] \in Int /\ ledger[s][p] <= (v - 1 - c) * w
  BY <1>1, <1>2, <1>3 DEF c, w, v
<1>8. v - 1 - c <= v - 1 - d /\ v - 1 - c \in Int /\ v - 1 - d \in Int
  BY <1>6, <1>7
<1>9. (v - 1 - c) * w <= (v - 1 - d) * w
  BY <1>7, <1>8, MoreTimes
<1>10. ledger[s][p] <= (v - 1 - d) * w
  BY <1>7, <1>8, <1>9
<1> QED
  BY <1>10 DEF d, w, v

(* Every step keeps the count.                                             *)
LEMMA CountStep == IInv /\ AllWritten /\ ReturnsCounted /\ [Next]_vars => ReturnsCounted'
<1> SUFFICES ASSUME IInv, AllWritten, ReturnsCounted, [Next]_vars,
                    NEW s \in Sales, txn'[s] # "NONE", NEW p \in Products
             PROVE  /\ ledger'[s][p] >= 0 - Wanted(s)'[p]
                    /\ ledger'[s][p] <= (voids'[s] - 1 - Cardinality(Owing(s, p)')) * Wanted(s)'[p]
  BY DEF ReturnsCounted, Recorded
<1>1. CASE txn[s] = "NONE"
  <2>1. Respond(s) \/ Disconnect(s)
    <3>1. ASSUME NEW k \in Polls, poll[k].sale = s, Complete(k) \/ Void(k) PROVE FALSE
      BY <1>1, <3>1 DEF Complete, Void, IInv, PollsKnow, Knows
    <3> QED
      BY <1>1, <3>1, StatusStep
  <2>2. /\ txn'[s] = draft[s].status /\ voids' = voids /\ poll' = poll /\ order' = order /\ pc[s] # "idle"
    BY <2>1 DEF Respond, Disconnect, Unanswered, CommitWrites, past, IInv, TypeOK
  <2>3. draft[s].rows /\ held[s] = Wanted(s)
    BY <2>2 DEF IInv, RequestsInOrder, InOrder
  <2>4. Wanted(s)' = Wanted(s)
    BY <2>2 DEF Wanted, Cart, Taken
  <2>5. ledger'[s][p] = 0 - Wanted(s)[p] /\ Wanted(s)[p] \in Nat
    BY <2>1, <2>3 DEF Respond, Disconnect, CommitWrites, IInv, TypeOK
  <2>6. voids'[s] = 0
    BY <1>1, <2>2 DEF AllWritten, Written
  <2>7. Owing(s, p)' = {}
    <3>1. \A k \in Polls : poll[k].sale = s => poll[k].pc = "idle"
      BY <1>1 DEF IInv, PollsKnow, Knows
    <3> QED
      BY <2>2, <3>1 DEF Owing
  <2>8. Cardinality(Owing(s, p)') = 0
    BY <2>7, FS_EmptySet
  <2> QED
    BY <2>4, <2>5, <2>6, <2>8
<1>2. CASE txn[s] # "NONE"
  <2>1. /\ Wanted(s)' = Wanted(s) /\ Cart(s)' = Cart(s) /\ pc[s] = "over" /\ Wanted(s)[p] \in Nat
        /\ ledger[s][p] >= 0 - Wanted(s)[p]
        /\ ledger[s][p] <= (voids[s] - 1 - Cardinality(Owing(s, p))) * Wanted(s)[p]
    BY <1>2, WantedKept DEF ReturnsCounted, Recorded
  <2>2. CASE Quiet
    <3>1. Owing(s, p)' = Owing(s, p)
      BY <2>1, <2>2, OwingSame DEF Quiet
    <3> QED
      BY <2>1, <2>2, <3>1 DEF Quiet
  <2>3. ASSUME NEW t \in Sales, Respond(t) \/ Disconnect(t)
        PROVE  /\ ledger'[s][p] >= 0 - Wanted(s)'[p]
               /\ ledger'[s][p] <= (voids'[s] - 1 - Cardinality(Owing(s, p)')) * Wanted(s)'[p]
    <3>1. t # s /\ poll' = poll /\ voids' = voids
      BY <2>1, <2>3 DEF Respond, Disconnect, Unanswered, past
    <3>2. ledger'[s] = ledger[s]
      BY <2>3, <3>1 DEF Respond, Disconnect, CommitWrites, IInv, TypeOK
    <3>3. Owing(s, p)' = Owing(s, p)
      BY <2>1, <3>1, OwingSame
    <3> QED
      BY <2>1, <3>1, <3>2, <3>3
  <2>4. ASSUME NEW k \in Polls, Void(k)
        PROVE  /\ ledger'[s][p] >= 0 - Wanted(s)'[p]
               /\ ledger'[s][p] <= (voids'[s] - 1 - Cardinality(Owing(s, p)')) * Wanted(s)'[p]
    <3>1. ledger' = ledger
      BY <2>4 DEF Void
    <3> QED
      BY <1>2, <2>1, <2>4, <3>1, VoidCounts
  <2>5. ASSUME NEW k \in Polls, Restock(k)
        PROVE  /\ ledger'[s][p] >= 0 - Wanted(s)'[p]
               /\ ledger'[s][p] <= (voids'[s] - 1 - Cardinality(Owing(s, p)')) * Wanted(s)'[p]
    <3>1. /\ poll[k].pc = "restock" /\ UNCHANGED <<ledger, voids>>
          /\ poll'[k] = [pc |-> "log", sale |-> poll[k].sale, next |-> poll[k].next]
          /\ \A j \in Polls \ {k} : poll'[j] = poll[j]
      BY <2>5 DEF Restock, Step, past, IInv, TypeOK
    <3>2. Owing(s, p)' = Owing(s, p)
      BY <2>1, <3>1 DEF Owing
    <3> QED
      BY <2>1, <3>1, <3>2
  <2>6. ASSUME NEW k \in Polls, LogReturn(k)
        PROVE  /\ ledger'[s][p] >= 0 - Wanted(s)'[p]
               /\ ledger'[s][p] <= (voids'[s] - 1 - Cardinality(Owing(s, p)')) * Wanted(s)'[p]
    BY <1>2, <2>1, <2>6, LogCounts
  <2>7. ASSUME NEW k \in Polls, Die(k)
        PROVE  /\ ledger'[s][p] >= 0 - Wanted(s)'[p]
               /\ ledger'[s][p] <= (voids'[s] - 1 - Cardinality(Owing(s, p)')) * Wanted(s)'[p]
    <3>1. UNCHANGED <<ledger, voids>>
      BY <2>7 DEF Die, committed
    <3> QED
      BY <1>2, <2>1, <2>7, <3>1, DeathCounts
  <2> QED
    BY <2>2, <2>3, <2>4, <2>5, <2>6, <2>7, NotQuiet
<1> QED
  BY <1>1, <1>2

-----------------------------------------------------------------------------
(* What the ledger rows of the sales say of p.                             *)
SoldOf(p) == [s \in Sales |-> ledger[s][p]]

(* The gap is a sum over the sales.                                        *)
LEMMA GapIsSum ==
  ASSUME NEW p \in Products
  PROVE  /\ Gap(p) = stock[p] - InitialStock[p] - SumOver(SoldOf(p), Sales)
         /\ Gap(p)' = stock'[p] - InitialStock[p] - SumOver(SoldOf(p)', Sales)
<1>1. Gap(p) = stock[p] - InitialStock[p] - SumOver(SoldOf(p), Sales)
  BY Zenon DEF Gap, SoldOf, SumOver, MapThenSumSet, MapThenFoldSet
<1>2. Gap(p)' = stock'[p] - InitialStock[p] - SumOver(SoldOf(p)', Sales)
  BY Zenon DEF Gap, SoldOf, SumOver, MapThenSumSet, MapThenFoldSet
<1> QED
  BY <1>1, <1>2

(* The numbers of a gap.                                                   *)
LEMMA GapTypes ==
  ASSUME TypeOK, NEW p \in Products
  PROVE  /\ stock[p] \in Int /\ InitialStock[p] \in Int /\ SumOver(SoldOf(p), Sales) \in Int
         /\ \A s \in Sales : SoldOf(p)[s] \in Int /\ SoldOf(p)[s] = ledger[s][p]
         /\ Gap(p) \in Int
<1>1. \A s \in Sales : SoldOf(p)[s] \in Int /\ SoldOf(p)[s] = ledger[s][p]
  BY DEF TypeOK, SoldOf
<1>2. SumOver(SoldOf(p), Sales) \in Int
  BY <1>1, FiniteAssumption, SumType
<1>3. stock[p] \in Int /\ InitialStock[p] \in Int
  BY StockAssumption DEF TypeOK
<1> QED
  BY <1>1, <1>2, <1>3, GapIsSum

(* What a poll has put back and not logged is a quantity.                  *)
LEMMA UnloggedTypes ==
  ASSUME IInv, NEW p \in Products
  PROVE  /\ \A k \in Polls : Unlogged(p)[k] \in Nat
         /\ SumOver(Unlogged(p), Polls) \in Nat
<1>1. ASSUME NEW k \in Polls PROVE Unlogged(p)[k] \in Nat
  <2>1. poll[k].pc = "log" => Line(k) \in Lines
    BY LineType DEF IInv
  <2>2. poll[k].pc = "log" => Line(k).qty \in Nat
    BY <2>1 DEF Lines
  <2>3. Unlogged(p)[k] = IF poll[k].pc = "log" /\ Line(k).product = p THEN Line(k).qty ELSE 0
    BY DEF Unlogged
  <2> QED
    BY <2>2, <2>3
<1>2. SumOver(Unlogged(p), Polls) >= 0 /\ SumOver(Unlogged(p), Polls) \in Int
  BY <1>1, FiniteAssumption, SumBounds, SumType
<1> QED
  BY <1>1, <1>2

(* The same after a step.                                                  *)
LEMMA NextTypes ==
  ASSUME IInv, [Next]_vars, NEW p \in Products
  PROVE  /\ \A k \in Polls : Unlogged(p)'[k] \in Nat
         /\ SumOver(Unlogged(p)', Polls) \in Nat
         /\ \A s \in Sales : SoldOf(p)'[s] \in Int /\ SoldOf(p)'[s] = ledger'[s][p]
         /\ Gap(p)' \in Int
<1>1. IInv'
  BY TypeStep, StockStep, RequestsStep, PollsStep, VoidStep, GoodsStep DEF IInv
<1>2. ASSUME NEW k \in Polls, poll'[k].pc = "log" PROVE Line(k)'.qty \in Nat
  <2> DEFINE s == poll'[k].sale
             n == poll'[k].next
  <2>1. s \in Sales /\ txn'[s] # "NONE" /\ n \in 1..Len(order'[s].cart)
    BY <1>1, <1>2 DEF IInv, PollsKnow, Knows, Cart
  <2>2. order'[s] \in Orders
    BY <1>1, <2>1 DEF IInv, RequestsInOrder, InOrder
  <2>3. Line(k)' = order'[s].cart[n]
    BY DEF Cart, Line
  <2> HIDE DEF s, n
  <2>4. order'[s].cart \in Seq(Lines)
    BY <2>2, OrdersAssumption
  <2>5. Line(k)' \in Lines
    BY <2>1, <2>3, <2>4
  <2> QED
    BY <2>5 DEF Lines
<1>3. \A k \in Polls :
        Unlogged(p)'[k] = IF poll'[k].pc = "log" /\ Line(k)'.product = p THEN Line(k)'.qty ELSE 0
  BY DEF Unlogged
<1>4. \A k \in Polls : Unlogged(p)'[k] \in Nat
  BY <1>2, <1>3
<1>5. \A s \in Sales : SoldOf(p)'[s] \in Int /\ SoldOf(p)'[s] = ledger'[s][p]
  BY <1>1 DEF IInv, TypeOK, SoldOf
<1>6. SumOver(Unlogged(p)', Polls) >= 0 /\ SumOver(Unlogged(p)', Polls) \in Int
  BY <1>4, FiniteAssumption, SumBounds, SumType
<1>7. SumOver(SoldOf(p)', Sales) \in Int
  BY <1>5, FiniteAssumption, SumType
<1>8. stock'[p] \in Int /\ InitialStock[p] \in Int
  BY <1>1, StockAssumption DEF IInv, TypeOK
<1>9. Gap(p)' \in Int
  BY <1>7, <1>8, GapIsSum
<1> QED
  BY <1>4, <1>5, <1>6, <1>9

(* A poll that stands still at a line has put back what it had.            *)
LEMMA UnloggedKept ==
  ASSUME IInv, [Next]_vars, NEW p \in Products, NEW k \in Polls,
         poll'[k] = poll[k] \/ (poll[k].pc # "log" /\ poll'[k].pc # "log")
  PROVE  Unlogged(p)'[k] = Unlogged(p)[k]
<1>1. /\ Unlogged(p)[k] = IF poll[k].pc = "log" /\ Line(k).product = p THEN Line(k).qty ELSE 0
      /\ Unlogged(p)'[k] = IF poll'[k].pc = "log" /\ Line(k)'.product = p THEN Line(k)'.qty ELSE 0
  BY DEF Unlogged
<1>2. ASSUME poll'[k] = poll[k], poll[k].pc = "log" PROVE Line(k)' = Line(k)
  <2>1. poll[k].sale \in Sales /\ txn[poll[k].sale] # "NONE"
    BY <1>2 DEF IInv, PollsKnow, Knows
  <2>2. order'[poll[k].sale] = order[poll[k].sale]
    BY <2>1, OverIsFrozen
  <2> QED
    BY <1>2, <2>2 DEF Line, Cart
<1> QED
  BY <1>1, <1>2

(* A checkout that was cut off stays so.                                   *)
LEMMA CutOffStays ==
  ASSUME IInv, [Next]_vars, CutOff
  PROVE  CutOff'
<1>1. PICK s \in Sales : pc[s] = "over" /\ txn[s] = "NONE" /\ reply[s] # "ok"
  BY DEF CutOff
<1>2. ASSUME NEW k \in Polls, poll[k].sale = s, Complete(k) \/ Void(k) PROVE FALSE
  BY <1>1, <1>2 DEF Complete, Void, IInv, PollsKnow, Knows
<1>3. txn'[s] = "NONE"
  BY <1>1, <1>2, StatusStep DEF Respond, Disconnect, Unanswered
<1>4. pc'[s] = pc[s] /\ reply'[s] = reply[s]
  <2> USE <1>1 DEF IInv, TypeOK
  <2>1. ASSUME NEW t \in Sales, NEW o \in Orders, Admit(t, o) PROVE pc'[s] = pc[s] /\ reply'[s] = reply[s]
    BY <2>1 DEF Admit, Move
  <2>2. ASSUME NEW t \in Sales,
               \/ CheckStock(t) \/ Reserve(t) \/ Reject(t) \/ Record(t) \/ ChargeAccepted(t)
               \/ ChargeFailed(t)
        PROVE  pc'[s] = pc[s] /\ reply'[s] = reply[s]
    BY <2>2 DEF CheckStock, Reserve, Reject, Record, ChargeAccepted, ChargeFailed, Answer, Move
  <2>3. ASSUME NEW t \in Sales, Respond(t) \/ Disconnect(t) \/ Abort(t)
        PROVE  pc'[s] = pc[s] /\ reply'[s] = reply[s]
    BY <2>3 DEF Respond, Disconnect, Abort, End, Move, Unanswered
  <2>4. ASSUME \/ \E t \in Sales : Pay(t) \/ Expire(t) \/ StopWatching(t)
               \/ \E k \in Polls : PollStep(k) \/ Die(k)
               \/ \E k \in Polls, t \in Sales : StartPoll(k, t)
               \/ UNCHANGED vars
        PROVE  pc'[s] = pc[s] /\ reply'[s] = reply[s]
    BY <2>4 DEF Pay, Expire, StopWatching, PollStep, Ask, Complete, Void, Restock, LogReturn, Die,
                StartPoll, vars, request
  <2> QED
    BY <2>1, <2>2, <2>3, <2>4 DEF Next, RequestStep, ServerStep
<1> QED
  BY <1>1, <1>3, <1>4 DEF CutOff

(* The commit of a request takes what its rows say, or the request was cut *)
(* off.                                                                    *)
LEMMA CommitGap ==
  ASSUME IInv, AllWritten, [Next]_vars, NEW p \in Products,
         NEW s \in Sales, Respond(s) \/ Disconnect(s)
  PROVE  \/ Gap(p)' = Gap(p)
         \/ CutOff' /\ Gap(p)' <= Gap(p)
<1>1. /\ stock'[p] = stock[p] - held[s][p] /\ held[s][p] \in Nat
      /\ ledger'[s][p] = IF draft[s].rows THEN 0 - held[s][p] ELSE 0
      /\ \A t \in Sales \ {s} : ledger'[t][p] = ledger[t][p]
      /\ pc[s] # "over" /\ pc'[s] = "over" /\ txn'[s] = draft[s].status /\ reply' = reply
      /\ pc[s] \in Unanswered \cup {"answered"}
  BY DEF Respond, Disconnect, Unanswered, CommitWrites, End, Move, IInv, TypeOK, Nothing
<1>2. ledger[s][p] = 0
  BY <1>1 DEF AllWritten, Written, Nothing
<1>3. TypeOK /\ TypeOK'
  BY TypeStep DEF IInv
<1>4. /\ stock[p] \in Int /\ InitialStock[p] \in Int /\ SumOver(SoldOf(p), Sales) \in Int
      /\ \A t \in Sales : SoldOf(p)[t] \in Int /\ SoldOf(p)[t] = ledger[t][p]
  BY <1>3, GapTypes
<1>5. \A t \in Sales : SoldOf(p)'[t] \in Int /\ SoldOf(p)'[t] = ledger'[t][p]
  BY <1>3 DEF SoldOf, TypeOK
<1>6. SumOver(SoldOf(p)', Sales) = SumOver(SoldOf(p), Sales) + (SoldOf(p)'[s] - SoldOf(p)[s])
  <2>1. \A t \in Sales \ {s} : SoldOf(p)[t] = SoldOf(p)'[t]
    BY <1>1, <1>4, <1>5
  <2> QED
    BY <1>4, <1>5, <2>1, FiniteAssumption, SumUpdate
<1>7. SumOver(SoldOf(p)', Sales) = SumOver(SoldOf(p), Sales) + ledger'[s][p]
  BY <1>2, <1>4, <1>5, <1>6
<1>8. CASE draft[s].rows
  BY <1>1, <1>4, <1>7, <1>8, GapIsSum
<1>9. CASE ~draft[s].rows
  <2>1. draft[s].status = "NONE"
    BY <1>9 DEF IInv, RequestsInOrder, InOrder
  <2>2. reply[s] # "ok"
    BY <1>1, <2>1 DEF AllWritten, Written, Unanswered
  <2>3. CutOff'
    BY <1>1, <2>1, <2>2 DEF CutOff
  <2>4. Gap(p)' <= Gap(p)
    BY <1>1, <1>4, <1>7, <1>9, GapIsSum
  <2> QED
    BY <2>3, <2>4
<1> QED
  BY <1>8, <1>9

(* What is returned changes the gap with what is unlogged, and a death     *)
(* leaves the one without the other.                                       *)
LEMMA GapMoves ==
  ASSUME IInv, AllWritten, [Next]_vars, NEW p \in Products
  PROVE  LET u == SumOver(Unlogged(p), Polls)
             v == SumOver(Unlogged(p)', Polls)
         IN  \/ Gap(p)' - v = Gap(p) - u
             \/ CutOff' /\ v = u /\ Gap(p)' <= Gap(p)
             \/ torn' # {} /\ v <= u /\ Gap(p)' = Gap(p)
<1> DEFINE u == SumOver(Unlogged(p), Polls)
           v == SumOver(Unlogged(p)', Polls)
<1>1. /\ stock[p] \in Int /\ InitialStock[p] \in Int /\ SumOver(SoldOf(p), Sales) \in Int
      /\ \A s \in Sales : SoldOf(p)[s] \in Int /\ SoldOf(p)[s] = ledger[s][p]
      /\ Gap(p) \in Int
  BY GapTypes DEF IInv
<1>2. /\ \A k \in Polls : Unlogged(p)[k] \in Nat
      /\ u \in Nat
  BY UnloggedTypes
<1>3. \A k \in Polls : Unlogged(p)'[k] \in Nat
  BY NextTypes
<1>4. \A s \in Sales : SoldOf(p)'[s] \in Int /\ SoldOf(p)'[s] = ledger'[s][p]
  BY NextTypes
<1>5. v \in Nat
  BY NextTypes
<1>6. ASSUME NEW k \in Polls, \A j \in Polls \ {k} : poll'[j] = poll[j]
      PROVE  v = u + (Unlogged(p)'[k] - Unlogged(p)[k])
  <2>1. \A j \in Polls \ {k} : Unlogged(p)[j] = Unlogged(p)'[j]
    BY <1>6, UnloggedKept
  <2> QED
    BY <1>2, <1>3, <2>1, FiniteAssumption, SumUpdate
<1>7. ASSUME \A s \in Sales : ledger'[s][p] = ledger[s][p]
      PROVE  SumOver(SoldOf(p)', Sales) = SumOver(SoldOf(p), Sales)
  BY <1>1, <1>4, <1>7, FiniteAssumption, SumSame
<1>8. ASSUME UNCHANGED <<stock, ledger>> PROVE Gap(p)' = Gap(p)
  BY <1>7, <1>8, GapIsSum
<1>9. ASSUME \A k \in Polls : poll'[k] = poll[k] \/ (poll[k].pc # "log" /\ poll'[k].pc # "log")
       PROVE  v = u
  <2>1. \A k \in Polls : Unlogged(p)'[k] = Unlogged(p)[k]
    BY <1>9, UnloggedKept
  <2> QED
    BY <2>1, FiniteAssumption, SumSame
<1> HIDE DEF u, v
<1> SUFFICES \/ Gap(p)' - v = Gap(p) - u
             \/ CutOff' /\ v = u /\ Gap(p)' <= Gap(p)
             \/ torn' # {} /\ v <= u /\ Gap(p)' = Gap(p)
  BY DEF u, v
<1>10. CASE Quiet
  <2>1. UNCHANGED <<stock, ledger>>
    BY <1>10 DEF Quiet
  <2>2. \A k \in Polls : poll'[k] = poll[k] \/ (poll[k].pc # "log" /\ poll'[k].pc # "log")
    BY <1>10 DEF Quiet
  <2> QED
    BY <1>8, <1>9, <2>1, <2>2
<1>11. ASSUME NEW s \in Sales, Respond(s) \/ Disconnect(s)
       PROVE  \/ Gap(p)' - v = Gap(p) - u
              \/ CutOff' /\ v = u /\ Gap(p)' <= Gap(p)
  <2>1. poll' = poll
    BY <1>11 DEF Respond, Disconnect
  <2> QED
    BY <1>9, <1>11, <2>1, CommitGap
<1>12. ASSUME NEW k \in Polls, Void(k) PROVE Gap(p)' - v = Gap(p) - u
  <2>1. UNCHANGED <<stock, ledger>>
    BY <1>12 DEF Void
  <2>2. \A j \in Polls : poll'[j] = poll[j] \/ (poll[j].pc # "log" /\ poll'[j].pc # "log")
    BY <1>12 DEF Void, Step, IInv, TypeOK
  <2> QED
    BY <1>8, <1>9, <2>1, <2>2
<1>13. ASSUME NEW k \in Polls, Restock(k) PROVE Gap(p)' - v = Gap(p) - u
  <2> DEFINE l == Line(k)
  <2>1. l \in Lines
    BY <1>13, LineType DEF IInv, Restock
  <2>2. l.product \in Products /\ l.qty \in Nat
    BY <2>1 DEF Lines
  <2>3. /\ poll[k].pc = "restock"
        /\ poll'[k] = [pc |-> "log", sale |-> poll[k].sale, next |-> poll[k].next]
        /\ \A j \in Polls \ {k} : poll'[j] = poll[j]
        /\ UNCHANGED <<ledger, order>>
    BY <1>13 DEF Restock, Step, request, IInv, TypeOK
  <2>4. Line(k)' = l
    BY <2>3 DEF Line, Cart
  <2>5. /\ Unlogged(p)[k] = 0
        /\ Unlogged(p)'[k] = IF l.product = p THEN l.qty ELSE 0
    BY <2>3, <2>4 DEF Unlogged
  <2>6. stock' = [stock EXCEPT ![l.product] = @ + l.qty] /\ stock \in [Products -> Int]
    BY <1>13 DEF Restock, IInv, TypeOK
  <2> HIDE DEF l
  <2>7. stock'[p] = stock[p] + (IF l.product = p THEN l.qty ELSE 0)
    BY <1>1, <2>2, <2>6
  <2>8. v = u + (IF l.product = p THEN l.qty ELSE 0)
    BY <1>2, <1>6, <2>2, <2>3, <2>5
  <2>9. SumOver(SoldOf(p)', Sales) = SumOver(SoldOf(p), Sales)
    BY <1>7, <2>3
  <2> QED
    BY <1>1, <1>2, <2>2, <2>7, <2>8, <2>9, GapIsSum
<1>14. ASSUME NEW k \in Polls, LogReturn(k) PROVE Gap(p)' - v = Gap(p) - u
  <2> DEFINE l == Line(k)
             t == poll[k].sale
             q == IF l.product = p THEN l.qty ELSE 0
  <2>1. l \in Lines /\ t \in Sales
    BY <1>14, LineType DEF IInv, LogReturn
  <2>2. l.product \in Products /\ l.qty \in Nat
    BY <2>1 DEF Lines
  <2>3. /\ poll[k].pc = "log" /\ poll'[k].pc # "log"
        /\ \A j \in Polls \ {k} : poll'[j] = poll[j]
        /\ stock' = stock
    BY <1>14 DEF LogReturn, Done, IdlePoll, IInv, TypeOK
  <2>4. Unlogged(p)[k] = q /\ Unlogged(p)'[k] = 0
    BY <2>3 DEF Unlogged
  <2>5. /\ ledger' = [ledger EXCEPT ![t][l.product] = @ + l.qty]
        /\ ledger \in [Sales -> [Products -> Int]]
    BY <1>14 DEF LogReturn, IInv, TypeOK
  <2>6. ledger'[t] = [ledger[t] EXCEPT ![l.product] = @ + l.qty] /\ ledger[t] \in [Products -> Int]
        /\ \A s \in Sales \ {t} : ledger'[s] = ledger[s]
    <3> HIDE DEF l, t
    <3> QED
      BY <2>1, <2>5
  <2>7. q \in Nat
    BY <2>2
  <2>8. ledger'[t][p] = ledger[t][p] + q
    <3> HIDE DEF l, t
    <3> QED
      BY <2>2, <2>6
  <2> HIDE DEF l, t, q
  <2>9. v = u + (0 - q)
    BY <1>2, <1>6, <2>3, <2>4
  <2>10. \A s \in Sales \ {t} : SoldOf(p)[s] = SoldOf(p)'[s]
    BY <1>1, <1>4, <2>6
  <2>11. SumOver(SoldOf(p)', Sales) = SumOver(SoldOf(p), Sales) + (SoldOf(p)'[t] - SoldOf(p)[t])
    BY <1>1, <1>4, <2>1, <2>10, FiniteAssumption, SumUpdate
  <2>12. SumOver(SoldOf(p)', Sales) = SumOver(SoldOf(p), Sales) + q
    BY <1>1, <1>4, <2>1, <2>7, <2>8, <2>11
  <2> QED
    BY <1>1, <1>2, <2>3, <2>7, <2>9, <2>12, GapIsSum
<1>15. ASSUME NEW k \in Polls, Die(k)
       PROVE  \/ Gap(p)' - v = Gap(p) - u
              \/ torn' # {} /\ v <= u /\ Gap(p)' = Gap(p)
  <2>1. /\ UNCHANGED <<stock, ledger>> /\ poll'[k].pc = "idle"
        /\ \A j \in Polls \ {k} : poll'[j] = poll[j]
        /\ poll[k].pc = "log" => torn' # {}
    BY <1>15 DEF Die, Done, IdlePoll, committed, IInv, TypeOK
  <2>2. Unlogged(p)'[k] = 0
    BY <2>1 DEF Unlogged
  <2>3. v = u + (0 - Unlogged(p)[k])
    BY <1>6, <2>1, <2>2
  <2>4. v <= u
    BY <1>2, <2>3
  <2>5. Gap(p)' = Gap(p)
    BY <1>8, <2>1
  <2>6. CASE poll[k].pc = "log"
    BY <2>1, <2>4, <2>5, <2>6
  <2>7. CASE poll[k].pc # "log"
    <3>1. v = u
      BY <1>9, <2>1, <2>7
    <3> QED
      BY <2>5, <3>1
  <2> QED
    BY <2>6, <2>7
<1> QED
  BY <1>10, <1>11, <1>12, <1>13, <1>14, <1>15, NotQuiet

(* Every step keeps the gaps known.                                        *)
LEMMA GapStep == IInv /\ AllWritten /\ GapsKnown /\ [Next]_vars => GapsKnown'
<1> SUFFICES ASSUME IInv, AllWritten, GapsKnown, [Next]_vars, NEW p \in Products
             PROVE  /\ ~CutOff' => Gap(p)' >= SumOver(Unlogged(p)', Polls)
                    /\ torn' = {} => Gap(p)' <= SumOver(Unlogged(p)', Polls)
  BY DEF GapsKnown
<1>1. Gap(p) \in Int /\ SumOver(Unlogged(p), Polls) \in Int
  BY GapTypes, UnloggedTypes DEF IInv
<1>2. Gap(p)' \in Int /\ SumOver(Unlogged(p)', Polls) \in Int
  BY NextTypes
<1>3. torn # {} => torn' # {}
  BY NotQuiet DEF Quiet, Respond, Disconnect, Void, Restock, LogReturn, Die, past
<1>4. CutOff => CutOff'
  BY CutOffStays
<1>5. /\ ~CutOff => Gap(p) >= SumOver(Unlogged(p), Polls)
      /\ torn = {} => Gap(p) <= SumOver(Unlogged(p), Polls)
  BY DEF GapsKnown
<1> DEFINE u == SumOver(Unlogged(p), Polls)
           v == SumOver(Unlogged(p)', Polls)
<1>6. \/ Gap(p)' - v = Gap(p) - u
      \/ CutOff' /\ v = u /\ Gap(p)' <= Gap(p)
      \/ torn' # {} /\ v <= u /\ Gap(p)' = Gap(p)
  BY GapMoves
<1> QED
  BY <1>1, <1>2, <1>3, <1>4, <1>5, <1>6

(* No goods have moved at the start.                                       *)
LEMMA InitCounts == Init => AllWritten /\ ReturnsCounted /\ GapsKnown
<1> SUFFICES ASSUME Init PROVE AllWritten /\ ReturnsCounted /\ GapsKnown
  OBVIOUS
<1>1. AllWritten
  BY DEF Init, AllWritten, Written, NoDraft
<1>2. ReturnsCounted
  BY DEF Init, ReturnsCounted, Recorded
<1>3. IInv
  BY InitInv
<1>4. ASSUME NEW p \in Products PROVE Gap(p) = 0 /\ SumOver(Unlogged(p), Polls) = 0
  <2>1. SumOver(SoldOf(p), Sales) = 0
    <3>1. \A s \in Sales : SoldOf(p)[s] = 0
      BY DEF Init, SoldOf, Nothing
    <3> QED
      BY <3>1, FiniteAssumption, SumZero
  <2>2. SumOver(Unlogged(p), Polls) = 0
    <3>1. \A k \in Polls : Unlogged(p)[k] = 0
      BY DEF Init, Unlogged, IdlePoll
    <3> QED
      BY <3>1, FiniteAssumption, SumZero
  <2>3. stock[p] = InitialStock[p] /\ InitialStock[p] \in Int
    BY StockAssumption DEF Init
  <2> QED
    BY <2>1, <2>2, <2>3, GapIsSum
<1>5. GapsKnown
  BY <1>4 DEF GapsKnown
<1> QED
  BY <1>1, <1>2, <1>5

(* The inductive invariant of what comes back and of what is missing.      *)
THEOREM Accounting == Spec => [](IInv /\ AllWritten /\ ReturnsCounted /\ GapsKnown)
<1>1. Init => IInv /\ AllWritten /\ ReturnsCounted /\ GapsKnown
  BY InitInv, InitCounts
<1>2. (IInv /\ AllWritten /\ ReturnsCounted /\ GapsKnown) /\ [Next]_vars
        => (IInv /\ AllWritten /\ ReturnsCounted /\ GapsKnown)'
  <2>1. IInv /\ [Next]_vars => IInv'
    BY TypeStep, StockStep, RequestsStep, PollsStep, VoidStep, GoodsStep DEF IInv
  <2> QED
    BY <2>1, WrittenStep, CountStep, GapStep
<1> QED
  BY <1>1, <1>2, PTL DEF Spec

(* However polls overlap and die, a sale's goods come back only through    *)
(* its voids, and at most once for each of them.                           *)
THEOREM ReturnsSafe == Spec => []ReturnsMatchVoids
<1>1. ASSUME IInv, ReturnsCounted, NEW s \in Sales, txn[s] # "NONE", NEW p \in Products
      PROVE  /\ ledger[s][p] >= 0 - Wanted(s)[p]
             /\ ledger[s][p] <= (voids[s] - 1) * Wanted(s)[p]
  <2>1. Wanted(s)[p] \in Nat
    <3>1. pc[s] # "idle"
      BY <1>1 DEF IInv, RequestsInOrder, InOrder
    <3>2. Cart(s) \in Seq(Lines)
      BY <1>1, <3>1, CartType DEF IInv
    <3>3. Wanted(s) \in [Products -> Nat]
      BY <3>2, TakenType DEF Wanted
    <3> QED
      BY <1>1, <3>3
  <2>2. /\ Cardinality(Owing(s, p)) \in Nat /\ voids[s] \in Nat /\ ledger[s][p] \in Int
    BY <1>1, CountTypes DEF IInv
  <2>3. /\ ledger[s][p] >= 0 - Wanted(s)[p]
        /\ ledger[s][p] <= (voids[s] - 1 - Cardinality(Owing(s, p))) * Wanted(s)[p]
    BY <1>1 DEF ReturnsCounted, Recorded
  <2> DEFINE a == voids[s] - 1 - Cardinality(Owing(s, p))
             b == voids[s] - 1
             w == Wanted(s)[p]
  <2>4. a \in Int /\ b \in Int /\ a <= b /\ w \in Nat /\ ledger[s][p] <= a * w
    BY <2>1, <2>2, <2>3
  <2> HIDE DEF a, b, w
  <2>5. a * w <= b * w
    BY <2>4, MoreTimes
  <2>6. ledger[s][p] <= b * w
    BY <2>2, <2>4, <2>5
  <2> QED
    BY <2>3, <2>6 DEF b, w
<1>2. IInv /\ ReturnsCounted => ReturnsMatchVoids
  BY <1>1 DEF ReturnsMatchVoids, Recorded
<1> QED
  BY Accounting, <1>2, PTL

(* Goods are missing without a row only after a refused or cut off         *)
(* checkout, and in excess only while or after a void stands between a     *)
(* line's increment and its row.                                           *)
THEOREM GapsSafe == Spec => []StockGapsHaveCauses
<1>1. ASSUME IInv, GapsKnown, NEW p \in Products
      PROVE  /\ Gap(p) < 0 => CutOff
             /\ Gap(p) > 0 => \/ torn # {}
                              \/ \E k \in Polls : poll[k].pc = "log" /\ Line(k).product = p
  <2>1. Gap(p) \in Int /\ SumOver(Unlogged(p), Polls) \in Nat
    BY <1>1, GapTypes, UnloggedTypes DEF IInv
  <2>2. /\ ~CutOff => Gap(p) >= SumOver(Unlogged(p), Polls)
        /\ torn = {} => Gap(p) <= SumOver(Unlogged(p), Polls)
    BY <1>1 DEF GapsKnown
  <2>3. SumOver(Unlogged(p), Polls) > 0 => \E k \in Polls : poll[k].pc = "log" /\ Line(k).product = p
    <3> SUFFICES ASSUME ~ \E k \in Polls : poll[k].pc = "log" /\ Line(k).product = p
                 PROVE  SumOver(Unlogged(p), Polls) = 0
      OBVIOUS
    <3>1. \A k \in Polls : Unlogged(p)[k] = 0
      BY DEF Unlogged
    <3> QED
      BY <3>1, FiniteAssumption, SumZero
  <2> QED
    BY <2>1, <2>2, <2>3
<1>2. IInv /\ GapsKnown => StockGapsHaveCauses
  BY <1>1 DEF StockGapsHaveCauses, CutOff
<1> QED
  BY Accounting, <1>2, PTL
=============================================================================
