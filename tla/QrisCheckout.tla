---------------------------- MODULE QrisCheckout ----------------------------
(***************************************************************************)
(* POS checkout, its QRIS payment and the status poll that settles or      *)
(* voids it, for one tenant and one outlet.                                *)
(*                                                                         *)
(* A checkout is a POST request: tenantMiddleware opens one database       *)
(* transaction for the request (the "pinned" one) and commits it when the  *)
(* response ends, whatever the response says and also when the client goes *)
(* away first.  A poll is a GET request: each of its statements commits on *)
(* its own, although the code wraps them in prisma.$transaction.           *)
(*                                                                         *)
(* What is committed (stock, txn, ledger, credited) is kept apart from     *)
(* what an open request has written (held, draft): no other request sees   *)
(* held and draft, and a row in held is locked until the request ends.     *)
(***************************************************************************)
EXTENDS Integers, Sequences, FiniteSets, FiniteSetsExt

CONSTANTS
  Products,       \* products of the outlet's catalog
  Sales,          \* checkout requests; the transaction a request records has its name
  Polls,          \* GET /transactions/status requests that may run at a time
  Orders,         \* what a cashier may send: [cart, tender]
  NoSale,         \* what an idle poll is about
  InitialStock,   \* outlet_stocks rows at the start: [Products -> Nat]
  MonthlyLimit,   \* transactions per month of the tenant's tier
  MaxFailures     \* bound on polls that die half-way

(* QRIS_FREE is a QRIS order whose grand total is 0 (a 100% discount), and *)
(* QRIS_LABEL one that names QRIS but lists its payments in other methods. *)
Tenders == {"CASH", "QRIS", "QRIS_FREE", "QRIS_LABEL"}
Lines   == [product : Products, qty : Nat \ {0}]

(* checkoutSchema asks for at least one line and for positive quantities;  *)
(* two lines may name the same product.                                    *)
ASSUME OrdersAssumption == Orders \subseteq [cart : Seq(Lines) \ {<<>>}, tender : Tenders]
ASSUME StockAssumption  == InitialStock \in [Products -> Nat]
ASSUME LimitAssumption  == MonthlyLimit \in Nat /\ MaxFailures \in Nat
ASSUME NoSaleAssumption == NoSale \notin Sales
ASSUME FiniteAssumption == IsFiniteSet(Sales) /\ IsFiniteSet(Polls)

VARIABLES
  stock,     \* [Products -> Int]: outlet_stocks, committed
  txn,       \* [Sales -> status]: transactions, committed; "NONE" is no row
  ledger,    \* [Sales -> [Products -> Int]]: sum of the quantity column of the
             \* sale's stock_ledgers rows, committed
  credited,  \* sales whose loyalty points were added to a customer, committed
  pc,        \* [Sales -> step of the checkout request]
  order,     \* [Sales -> what the cashier sent]
  held,      \* [Sales -> [Products -> Nat]]: decrements not committed yet
  draft,     \* [Sales -> [status, rows, points]]: the rest of what the open
             \* request has written
  reply,     \* [Sales -> what the client was told]
  charge,    \* [Sales -> state of the order at Midtrans]
  watching,  \* sales whose status a page of the POS keeps polling
  poll,      \* [Polls -> [pc, sale, next]]
  voids,     \* [Sales -> Nat]: how often the sale was voided (history)
  torn,      \* sales with a void that died half-way (history)
  failures   \* polls that died so far (bounded by MaxFailures)

committed == <<stock, txn, ledger, credited>>
request   == <<pc, order, held, draft, reply>>
past      == <<voids, torn, failures>>
vars      == <<committed, request, charge, watching, poll, past>>

-----------------------------------------------------------------------------
NoOrder  == [cart |-> <<>>, tender |-> "CASH"]
NoDraft  == [status |-> "NONE", rows |-> FALSE, points |-> FALSE]
Nothing  == [p \in Products |-> 0]
IdlePoll == [pc |-> "idle", sale |-> NoSale, next |-> 1]

Cart(s) == order[s].cart

(* hasQrisPayment: the transaction is created PENDING.                     *)
IsPending(tender) == tender \in {"QRIS", "QRIS_FREE"}

(* qrisPayment > 0: finalizeQrisCheckout asks Midtrans for a charge.       *)
IsCharged(tender) == tender \in {"QRIS", "QRIS_LABEL"}

(* Rows of the transactions table: what checkTransactionLimit counts.      *)
Recorded == {s \in Sales : txn[s] # "NONE"}

(* A row decremented by an open request is locked until the request ends.  *)
Locked(p) == \E s \in Sales : held[s][p] > 0

(* The lines whose row satisfies stock >= quantity in decrementOutletStockBulk. *)
Covered(cart) == {i \in DOMAIN cart : cart[i].qty <= stock[cart[i].product]}

(* UPDATE ... FROM VALUES applies one of the lines that match a row: the   *)
(* sets of lines it may apply.                                             *)
Applications(cart) ==
  {A \in SUBSET Covered(cart) :
     /\ \A i, j \in A : cart[i].product = cart[j].product => i = j
     /\ \A i \in Covered(cart) : \E j \in A : cart[i].product = cart[j].product}

(* What applying the lines A takes from each row.                          *)
Taken(cart, A) ==
  [p \in Products |-> IF \E i \in A : cart[i].product = p
                        THEN cart[CHOOSE i \in A : cart[i].product = p].qty
                        ELSE 0]

-----------------------------------------------------------------------------
Init ==
  /\ stock = InitialStock
  /\ txn = [s \in Sales |-> "NONE"]
  /\ ledger = [s \in Sales |-> Nothing]
  /\ credited = {}
  /\ pc = [s \in Sales |-> "idle"]
  /\ order = [s \in Sales |-> NoOrder]
  /\ held = [s \in Sales |-> Nothing]
  /\ draft = [s \in Sales |-> NoDraft]
  /\ reply = [s \in Sales |-> "none"]
  /\ charge = [s \in Sales |-> "none"]
  /\ watching = {}
  /\ poll = [k \in Polls |-> IdlePoll]
  /\ voids = [s \in Sales |-> 0]
  /\ torn = {}
  /\ failures = 0

-----------------------------------------------------------------------------
(* The checkout request.                                                   *)

Move(s, to) == pc' = [pc EXCEPT ![s] = to]

(* The controller answers; after a success the POS starts polling a QRIS   *)
(* sale.                                                                   *)
Answer(s, r) ==
  /\ Move(s, "answered")
  /\ reply' = [reply EXCEPT ![s] = r]
  /\ watching' = IF r = "ok" /\ IsPending(order[s].tender) THEN watching \cup {s} ELSE watching

(* checkTransactionLimit on another connection: only committed             *)
(* transactions are counted.                                               *)
Admit(s, o) ==
  /\ pc[s] = "idle"
  /\ order' = [order EXCEPT ![s] = o]
  /\ IF Cardinality(Recorded) < MonthlyLimit
       THEN Move(s, "admitted") /\ UNCHANGED reply
       ELSE Move(s, "answered") /\ reply' = [reply EXCEPT ![s] = "refused"]
  /\ UNCHANGED <<committed, held, draft, charge, watching, poll, past>>

(* Products, prices and stock levels are read and each line is compared    *)
(* with the level read, without a lock.                                    *)
CheckStock(s) ==
  /\ pc[s] = "admitted"
  /\ IF Covered(Cart(s)) = DOMAIN Cart(s)
       THEN Move(s, "checked") /\ UNCHANGED <<reply, watching>>
       ELSE Answer(s, "refused")
  /\ UNCHANGED <<committed, order, held, draft, charge, poll, past>>

(* Fault: the rows are read without waiting for their locks.               *)
ReserveUnlocked(s) ==
  /\ pc[s] = "checked"
  /\ \E A \in Applications(Cart(s)) :
       /\ held' = [held EXCEPT ![s] = Taken(Cart(s), A)]
       /\ IF A = DOMAIN Cart(s)
            THEN Move(s, "reserved") /\ UNCHANGED <<reply, watching>>
            ELSE Answer(s, "refused")
  /\ UNCHANGED <<committed, order, draft, charge, poll, past>>

(* decrementOutletStockBulk waits for the rows it wants; when it updated   *)
(* fewer rows than there are lines it throws, and what it updated stays    *)
(* written in the request's transaction.                                   *)
Reserve(s) ==
  /\ pc[s] = "checked"
  /\ \A i \in Covered(Cart(s)) : ~Locked(Cart(s)[i].product)
  /\ \E A \in Applications(Cart(s)) :
       /\ held' = [held EXCEPT ![s] = Taken(Cart(s), A)]
       /\ IF A = DOMAIN Cart(s)
            THEN Move(s, "reserved") /\ UNCHANGED <<reply, watching>>
            ELSE Answer(s, "refused")
  /\ UNCHANGED <<committed, order, draft, charge, poll, past>>

(* The payments fall short of the total, the customer is unknown, or, after *)
(* the customer's points were added, the shift is not open.                *)
Reject(s) ==
  /\ pc[s] = "reserved"
  /\ \E points \in BOOLEAN : draft' = [draft EXCEPT ![s] = [status |-> "NONE", rows |-> FALSE, points |-> points]]
  /\ Answer(s, "refused")
  /\ UNCHANGED <<committed, order, held, charge, poll, past>>

(* Fault: the SALE rows of a QRIS sale are left for its settlement.        *)
RecordWithoutRows(s) ==
  /\ pc[s] = "reserved"
  /\ draft' = [draft EXCEPT ![s] =
                 [status |-> IF IsPending(order[s].tender) THEN "PENDING" ELSE "COMPLETED",
                  rows   |-> ~IsPending(order[s].tender),
                  points |-> FALSE]]
  /\ IF IsCharged(order[s].tender)
       THEN Move(s, "charging") /\ UNCHANGED <<reply, watching>>
       ELSE Answer(s, "ok")
  /\ UNCHANGED <<committed, order, held, charge, poll, past>>

(* The transaction, its items and payments, its SALE ledger rows and the   *)
(* customer's points are written.                                          *)
Record(s) ==
  /\ pc[s] = "reserved"
  /\ \E points \in BOOLEAN :
       draft' = [draft EXCEPT ![s] =
                   [status |-> IF IsPending(order[s].tender) THEN "PENDING" ELSE "COMPLETED",
                    rows   |-> TRUE,
                    points |-> points]]
  /\ IF IsCharged(order[s].tender)
       THEN Move(s, "charging") /\ UNCHANGED <<reply, watching>>
       ELSE Answer(s, "ok")
  /\ UNCHANGED <<committed, order, held, charge, poll, past>>

(* createQrisCharge returned a QR code.                                    *)
ChargeAccepted(s) ==
  /\ pc[s] = "charging"
  /\ Answer(s, "ok")
  /\ charge' = [charge EXCEPT ![s] = "pending"]
  /\ UNCHANGED <<committed, order, held, draft, poll, past>>

(* createQrisCharge threw (Midtrans may have opened the order all the      *)
(* same): the transaction row is deleted, and nothing else.                *)
ChargeFailed(s) ==
  /\ pc[s] = "charging"
  /\ draft' = [draft EXCEPT ![s] = [status |-> "NONE", rows |-> @.rows, points |-> @.points]]
  /\ Answer(s, "refused")
  /\ \E c \in {"none", "pending"} : charge' = [charge EXCEPT ![s] = c]
  /\ UNCHANGED <<committed, order, held, poll, past>>

(* The request's transaction commits with what it has written.             *)
CommitWrites(s) ==
  /\ stock' = [p \in Products |-> stock[p] - held[s][p]]
  /\ txn' = [txn EXCEPT ![s] = draft[s].status]
  /\ ledger' = [ledger EXCEPT ![s] =
                  IF draft[s].rows THEN [p \in Products |-> 0 - held[s][p]] ELSE Nothing]
  /\ credited' = IF draft[s].points THEN credited \cup {s} ELSE credited

(* Fault: the rows stay locked when the request is over.                   *)
EndLocked(s) ==
  /\ Move(s, "over")
  /\ draft' = [draft EXCEPT ![s] = NoDraft]
  /\ UNCHANGED held

(* The request is over; its locks are released.                            *)
End(s) ==
  /\ Move(s, "over")
  /\ held' = [held EXCEPT ![s] = Nothing]
  /\ draft' = [draft EXCEPT ![s] = NoDraft]

(* The response, success or error, is sent: res 'finish' resolves the      *)
(* callback and the transaction commits.                                   *)
Respond(s) ==
  /\ pc[s] = "answered"
  /\ CommitWrites(s)
  /\ End(s)
  /\ UNCHANGED <<order, reply, charge, watching, poll, past>>

(* What Midtrans has when a request stops while it waits for the charge.   *)
ChargeUnknown(s) ==
  \E c \in IF pc[s] = "charging" THEN {"none", "pending"} ELSE {charge[s]} :
    charge' = [charge EXCEPT ![s] = c]

Unanswered == {"admitted", "checked", "reserved", "charging"}

(* The client's connection closes before the response: res 'close'         *)
(* resolves the callback too, so the transaction commits where it is; the  *)
(* handler's later statements fail on the closed transaction.              *)
Disconnect(s) ==
  /\ pc[s] \in Unanswered
  /\ CommitWrites(s)
  /\ End(s)
  /\ ChargeUnknown(s)
  /\ UNCHANGED <<order, reply, watching, poll, past>>

(* The process stops, PostgreSQL picks the request as a deadlock victim,   *)
(* or the pinned transaction reaches its 120 s timeout: rollback.  The     *)
(* response may already have been sent.                                    *)
Abort(s) ==
  /\ pc[s] \in Unanswered \cup {"answered"}
  /\ End(s)
  /\ ChargeUnknown(s)
  /\ UNCHANGED <<committed, order, reply, watching, poll, past>>

-----------------------------------------------------------------------------
(* Midtrans: an order is paid by the customer who was shown its QR code,   *)
(* or expires, is cancelled or denied; both are final.                     *)

Pay(s) ==
  /\ charge[s] = "pending" /\ reply[s] = "ok"
  /\ charge' = [charge EXCEPT ![s] = "settlement"]
  /\ UNCHANGED <<committed, request, watching, poll, past>>

Expire(s) ==
  /\ charge[s] = "pending"
  /\ charge' = [charge EXCEPT ![s] = "failure"]
  /\ UNCHANGED <<committed, request, watching, poll, past>>

-----------------------------------------------------------------------------
(* The status poll.                                                        *)

Step(k, to) == poll' = [poll EXCEPT ![k] = [pc |-> to, sale |-> @.sale, next |-> @.next]]
Done(k)     == poll' = [poll EXCEPT ![k] = IdlePoll]

(* Fault: a sale that is not PENDING is checked with Midtrans as well.     *)
StartPollAlways(k, s) ==
  /\ poll[k].pc = "idle"
  /\ txn[s] # "NONE"
  /\ poll' = [poll EXCEPT ![k] = [pc |-> "asking", sale |-> s, next |-> 1]]
  /\ UNCHANGED <<committed, request, charge, watching, past>>

(* getTransactionForStatusPolling reads the sale; only a PENDING one goes  *)
(* on to Midtrans.                                                         *)
StartPoll(k, s) ==
  /\ poll[k].pc = "idle"
  /\ txn[s] = "PENDING"
  /\ poll' = [poll EXCEPT ![k] = [pc |-> "asking", sale |-> s, next |-> 1]]
  /\ UNCHANGED <<committed, request, charge, watching, past>>

(* Fault: an order that is still open counts as failed.                    *)
AskEager(k) ==
  /\ poll[k].pc = "asking"
  /\ IF charge[poll[k].sale] = "settlement" THEN Step(k, "completing") ELSE Step(k, "voiding")
  /\ UNCHANGED <<committed, request, charge, watching, past>>

(* Fault: "expire" is missing from QRIS_FAILURE_STATUSES.                  *)
AskForgetful(k) ==
  /\ poll[k].pc = "asking"
  /\ IF charge[poll[k].sale] = "settlement" THEN Step(k, "completing") ELSE Done(k)
  /\ UNCHANGED <<committed, request, charge, watching, past>>

(* syncPendingQrisFromMidtrans: the answer decides; an order Midtrans does *)
(* not know is an error, reported as PENDING.                              *)
Ask(k) ==
  /\ poll[k].pc = "asking"
  /\ \/ charge[poll[k].sale] = "settlement" /\ Step(k, "completing")
     \/ charge[poll[k].sale] = "failure" /\ Step(k, "voiding")
     \/ charge[poll[k].sale] \in {"none", "pending"} /\ Done(k)
  /\ UNCHANGED <<committed, request, charge, watching, past>>

(* completeQrisSettlement: an update that does not look at the status.     *)
Complete(k) ==
  /\ poll[k].pc = "completing"
  /\ txn' = [txn EXCEPT ![poll[k].sale] = "COMPLETED"]
  /\ Done(k)
  /\ UNCHANGED <<stock, ledger, credited, request, charge, watching, past>>

(* Fault: Midtrans' word for the status is stored.                         *)
VoidAsCancelled(k) ==
  /\ poll[k].pc = "voiding"
  /\ txn' = [txn EXCEPT ![poll[k].sale] = "CANCELLED"]
  /\ voids' = [voids EXCEPT ![poll[k].sale] = @ + 1]
  /\ Step(k, "restock")
  /\ UNCHANGED <<stock, ledger, credited, request, charge, watching, torn, failures>>

(* voidQrisTransaction, first statement: the status, unconditionally.      *)
Void(k) ==
  /\ poll[k].pc = "voiding"
  /\ txn' = [txn EXCEPT ![poll[k].sale] = "VOID"]
  /\ voids' = [voids EXCEPT ![poll[k].sale] = @ + 1]
  /\ Step(k, "restock")
  /\ UNCHANGED <<stock, ledger, credited, request, charge, watching, torn, failures>>

(* The line the poll has reached, and the product it puts back.            *)
Line(k) == Cart(poll[k].sale)[poll[k].next]

(* incrementOutletStock of that line, its own transaction; it waits for    *)
(* the row.                                                                *)
Restock(k) ==
  /\ poll[k].pc = "restock"
  /\ ~Locked(Line(k).product)
  /\ stock' = [stock EXCEPT ![Line(k).product] = @ + Line(k).qty]
  /\ Step(k, "log")
  /\ UNCHANGED <<txn, ledger, credited, request, charge, watching, past>>

(* Fault: the loop does not advance to the next line.                      *)
LogReturnAgain(k) ==
  /\ poll[k].pc = "log"
  /\ ledger' = [ledger EXCEPT ![poll[k].sale][Line(k).product] = @ + Line(k).qty]
  /\ IF poll[k].next < Len(Cart(poll[k].sale)) THEN Step(k, "restock") ELSE Done(k)
  /\ UNCHANGED <<stock, txn, credited, request, charge, watching, past>>

(* Fault: only the first line of the sale is returned.                     *)
LogReturnFirst(k) ==
  /\ poll[k].pc = "log"
  /\ ledger' = [ledger EXCEPT ![poll[k].sale][Line(k).product] = @ + Line(k).qty]
  /\ Done(k)
  /\ UNCHANGED <<stock, txn, credited, request, charge, watching, past>>

(* The RETURN ledger row of that line, another transaction; then the next  *)
(* line.                                                                   *)
LogReturn(k) ==
  /\ poll[k].pc = "log"
  /\ ledger' = [ledger EXCEPT ![poll[k].sale][Line(k).product] = @ + Line(k).qty]
  /\ IF poll[k].next < Len(Cart(poll[k].sale))
       THEN poll' = [poll EXCEPT ![k] = [pc |-> "restock", sale |-> @.sale, next |-> @.next + 1]]
       ELSE Done(k)
  /\ UNCHANGED <<stock, txn, credited, request, charge, watching, past>>

(* A statement of the poll fails (no free connection, lock wait past the   *)
(* 30 s timeout) or the process stops: what was committed stays.           *)
Die(k) ==
  /\ poll[k].pc # "idle"
  /\ failures < MaxFailures
  /\ failures' = failures + 1
  /\ torn' = IF poll[k].pc \in {"restock", "log"} THEN torn \cup {poll[k].sale} ELSE torn
  /\ Done(k)
  /\ UNCHANGED <<committed, request, charge, watching, voids>>

(* The cashier cancels the QRIS dialog or leaves the page: the polling     *)
(* interval is cleared, and the server is told nothing.                    *)
StopWatching(s) ==
  /\ s \in watching
  /\ watching' = watching \ {s}
  /\ UNCHANGED <<committed, request, charge, poll, past>>

-----------------------------------------------------------------------------
(* What the server does by itself, and the rest of a request's life.       *)
ServerStep(s) == CheckStock(s) \/ Reserve(s) \/ Reject(s) \/ Record(s) \/ Respond(s)

RequestStep(s) ==
  ServerStep(s) \/ ChargeAccepted(s) \/ ChargeFailed(s) \/ Disconnect(s) \/ Abort(s)

PollStep(k) == Ask(k) \/ Complete(k) \/ Void(k) \/ Restock(k) \/ LogReturn(k)

Next ==
  \/ \E s \in Sales, o \in Orders : Admit(s, o)
  \/ \E s \in Sales : RequestStep(s)
  \/ \E s \in Sales : Pay(s) \/ Expire(s) \/ StopWatching(s)
  \/ \E k \in Polls, s \in Sales : StartPoll(k, s)
  \/ \E k \in Polls : PollStep(k) \/ Die(k)

Spec == Init /\ [][Next]_vars

(* A request and a poll that run go on when the rows they wait for are     *)
(* free; the pinned transaction's timeout ends a request that Midtrans     *)
(* never answers, and is assumed of no other request; a watched sale is    *)
(* polled every three seconds, whatever other pages poll.  Nobody is bound *)
(* to send a checkout, to pay, to let an order expire or to fail.          *)
Fairness ==
  /\ \A s \in Sales : WF_vars(ServerStep(s)) /\ WF_vars(pc[s] = "charging" /\ Abort(s))
  /\ \A k \in Polls : WF_vars(PollStep(k))
  /\ \A s \in Sales : SF_vars(s \in watching /\ \E k \in Polls : StartPoll(k, s))

FairSpec == Spec /\ Fairness

-----------------------------------------------------------------------------
Steps      == {"idle", "admitted", "checked", "reserved", "charging", "answered", "over"}
DraftState == [status : {"NONE", "PENDING", "COMPLETED"}, rows : BOOLEAN, points : BOOLEAN]
PollSteps  == {"idle", "asking", "completing", "voiding", "restock", "log"}
PollState  == [pc : PollSteps, sale : Sales \cup {NoSale}, next : Nat \ {0}]

TypeOK ==
  /\ stock \in [Products -> Int]
  /\ txn \in [Sales -> {"NONE", "PENDING", "COMPLETED", "VOID"}]
  /\ ledger \in [Sales -> [Products -> Int]]
  /\ credited \subseteq Sales
  /\ pc \in [Sales -> Steps]
  /\ order \in [Sales -> Orders \cup {NoOrder}]
  /\ held \in [Sales -> [Products -> Nat]]
  /\ draft \in [Sales -> DraftState]
  /\ reply \in [Sales -> {"none", "ok", "refused"}]
  /\ charge \in [Sales -> {"none", "pending", "settlement", "failure"}]
  /\ watching \subseteq Sales
  /\ poll \in [Polls -> PollState]
  /\ voids \in [Sales -> Nat]
  /\ torn \subseteq Sales
  /\ failures \in 0..MaxFailures

(* What the sale's cart asks of each product (a recorded sale has no two   *)
(* lines of one product).                                                  *)
Wanted(s) == Taken(Cart(s), DOMAIN Cart(s))

(* Whatever requests overlap, and although levels are checked before they  *)
(* are locked, no outlet stock row goes below zero (the guarded UPDATE of  *)
(* decrementOutletStockBulk).                                              *)
StockNeverNegative == \A p \in Products : stock[p] >= 0

(* A sale that is waiting for its payment or is paid has exactly the goods *)
(* of its cart out of stock: one SALE row per line and nothing returned,   *)
(* however many polls ran.                                                 *)
LiveSaleHasItsGoods ==
  \A s \in Sales : txn[s] \in {"PENDING", "COMPLETED"} =>
                     \A p \in Products : ledger[s][p] = 0 - Wanted(s)[p]

(* Goods come back only through a void, at most once for each void: with   *)
(* polls that do not overlap, never more than was sold.                    *)
ReturnsMatchVoids ==
  \A s \in Recorded, p \in Products :
    /\ ledger[s][p] >= 0 - Wanted(s)[p]
    /\ ledger[s][p] <= (voids[s] - 1) * Wanted(s)[p]

(* The part of a stock level that no ledger row explains.                  *)
Gap(p) == stock[p] - InitialStock[p] - MapThenSumSet(LAMBDA s : ledger[s][p], Sales)

(* Goods are missing without a ledger row only after a checkout that was   *)
(* refused or cut off, and in excess only while or after a void stands     *)
(* between a line's increment and its row.                                 *)
StockGapsHaveCauses ==
  \A p \in Products :
    /\ Gap(p) < 0 => \E s \in Sales : pc[s] = "over" /\ txn[s] = "NONE" /\ reply[s] # "ok"
    /\ Gap(p) > 0 => \/ torn # {}
                     \/ \E k \in Polls : poll[k].pc = "log" /\ Line(k).product = p

(* The statuses, as SaleLifecycle promises them.                           *)
Lifecycle == INSTANCE SaleLifecycle WITH
  status  <- txn,
  payment <- [s \in Sales |-> IF charge[s] \in {"settlement", "failure"}
                                THEN charge[s] ELSE "open"]

(* Every step keeps the promise of SaleLifecycle: polls that act on a      *)
(* status read earlier never undo a final one.                             *)
KeepsLifecycle == Lifecycle!Spec

(* Every checkout request ends, also one that waits for the row of another *)
(* whose charge Midtrans never answers.                                    *)
EveryRequestEnds == \A s \in Sales : pc[s] # "idle" ~> pc[s] = "over"

(* Once Midtrans has decided, a sale that stays watched is settled.        *)
WatchedSaleIsDecided ==
  \A s \in Sales : txn[s] = "PENDING" /\ charge[s] \in {"settlement", "failure"}
                     ~> txn[s] # "PENDING" \/ s \notin watching

(* A voided sale gets its goods back, unless the void died half-way.       *)
VoidReturnsTheGoods ==
  \A s \in Sales : txn[s] = "VOID"
                     ~> s \in torn \/ \A p \in Products : ledger[s][p] >= 0

-----------------------------------------------------------------------------
(* What the documentation says and the code does not do.                   *)

(* README.md:21, "ACID Checkout": a checkout that records no transaction   *)
(* leaves the stock as it was.                                             *)
RefusalsChangeNothing ==
  (Recorded = {} /\ \A s \in Sales : pc[s] \in {"idle", "over"}) => stock = InitialStock

(* "rolls back QRIS transaction when Midtrans charge fails": stock ledger  *)
(* rows belong to a transaction that exists.                               *)
LedgerRowsHaveTheirSale == \A s \in Sales : ledger[s] # Nothing => txn[s] # "NONE"

(* A sale the cashier was told succeeded is recorded once the request is   *)
(* over.                                                                   *)
AcknowledgedSaleIsRecorded ==
  \A s \in Sales : pc[s] = "over" /\ reply[s] = "ok" => txn[s] # "NONE"

(* A void gives back what the sale took, not more.                         *)
RestockedAtMostOnce == \A s \in Sales, p \in Products : ledger[s][p] <= 0

(* README.md:31, "strict backend usage limits".                            *)
QuotaIsStrict == Cardinality(Recorded) <= MonthlyLimit

(* README.md:22, "auto-rollback/restock if transaction expires or is       *)
(* cancelled".                                                             *)
ExpiredSaleIsReleased ==
  \A s \in Sales : txn[s] = "PENDING" /\ charge[s] = "failure" ~> txn[s] = "VOID"
=============================================================================
