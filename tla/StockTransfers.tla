--------------------------- MODULE StockTransfers ---------------------------
(***************************************************************************)
(* Stock transfers between the outlets of a tenant.  Each operation is a   *)
(* write request whose work runs in one READ COMMITTED transaction: it     *)
(* reads the transfer and its status without a lock, moves the goods line  *)
(* by line (each line locks its stock row), sets the status without        *)
(* looking at it again, and commits.                                       *)
(*                                                                         *)
(* Who may act is left out: any request may be refused for its role, which *)
(* changes nothing.  The outlets of a plan are active.                     *)
(***************************************************************************)
EXTENDS Integers, Sequences, FiniteSets, FiniteSetsExt

CONSTANTS
  Outlets, Products,
  Transfers,      \* transfer identifiers
  Requests,       \* requests that may run at a time
  Plans,          \* what may be asked: [from, to, items]
  NoPlan,         \* the plan of a transfer nobody asked for
  NoTransfer,     \* what an idle request is about
  InitialStock    \* [Outlets -> [Products -> Nat]]

Item == [product : Products, qty : Nat \ {0}]

(* createTransferSchema and createTransfer: at least one line, positive    *)
(* quantities, no product twice, two outlets.                              *)
Lists == {l \in Seq(Item) \ {<<>>} :
            \A i, j \in DOMAIN l : l[i].product = l[j].product => i = j}

ASSUME PlansAssumption ==
  /\ Plans \subseteq [from : Outlets, to : Outlets, items : Lists]
  /\ \A plan \in Plans : plan.from # plan.to
ASSUME NamesAssumption == NoTransfer \notin Transfers /\ NoPlan \notin Plans
ASSUME StockAssumption == InitialStock \in [Outlets -> [Products -> Nat]]
ASSUME FiniteAssumption == IsFiniteSet(Outlets) /\ IsFiniteSet(Transfers)

VARIABLES
  stock,      \* outlet_stocks, committed
  status,     \* [Transfers -> status]; "NONE" is no row
  plan,       \* [Transfers -> what was asked]
  ledger,     \* [Transfers -> [Outlets -> [Products -> Int]]]: the sum of the
              \* quantities of the transfer's ledger rows
  req,        \* [Requests -> [op, transfer, next]]; lines before next are done
  contested   \* transfers that two requests worked on at a time (history)

vars == <<stock, status, plan, ledger, req, contested>>

-----------------------------------------------------------------------------
(* What a request does once it has read the status: "draft" and "ship"     *)
(* create a transfer, "recall" and "withdraw" cancel one.                  *)
Operations == {"draft", "ship", "approve", "receive", "recall", "withdraw"}
Moving     == {"ship", "approve", "receive", "recall"}

Idle == [op |-> "idle", transfer |-> NoTransfer, next |-> 1]

(* Which outlet's stock an operation moves, and in which direction.        *)
Side(op, asked) == IF op = "receive" THEN asked.to ELSE asked.from
Sign(op)        == IF op \in {"ship", "approve"} THEN -1 ELSE 1

(* Fault: a cancelled shipment is a status of its own.                     *)
ResultReturned(op) ==
  CASE op = "draft"               -> "DRAFT"
    [] op \in {"ship", "approve"} -> "IN_TRANSIT"
    [] op = "receive"             -> "COMPLETED"
    [] op = "recall"              -> "RETURNED"
    [] OTHER                      -> "CANCELLED"

(* The status it leaves.                                                   *)
Result(op) ==
  CASE op = "draft"               -> "DRAFT"
    [] op \in {"ship", "approve"} -> "IN_TRANSIT"
    [] op = "receive"             -> "COMPLETED"
    [] OTHER                      -> "CANCELLED"

Asked(r)  == plan[req[r].transfer]
Items(r)  == IF req[r].op \in Moving THEN Asked(r).items ELSE <<>>
Outlet(r) == Side(req[r].op, Asked(r))
Line(r)   == Items(r)[req[r].next]

Working(t) == {r \in Requests : req[r].transfer = t}

(* The stock rows that request r has updated and keeps locked.             *)
Holds(r, o, p) ==
  /\ req[r].op \in Moving
  /\ Outlet(r) = o
  /\ \E i \in 1..(req[r].next - 1) : Items(r)[i].product = p

(* What a plan moves of each product.                                      *)
Load(asked) == [p \in Products |->
  IF \E i \in DOMAIN asked.items : asked.items[i].product = p
    THEN asked.items[CHOOSE i \in DOMAIN asked.items : asked.items[i].product = p].qty
    ELSE 0]

-----------------------------------------------------------------------------
Init ==
  /\ stock = InitialStock
  /\ status = [t \in Transfers |-> "NONE"]
  /\ plan = [t \in Transfers |-> NoPlan]
  /\ ledger = [t \in Transfers |-> [o \in Outlets |-> [p \in Products |-> 0]]]
  /\ req = [r \in Requests |-> Idle]
  /\ contested = {}

(* A request starts on a transfer.                                         *)
Begin(r, t, op) ==
  /\ req[r].op = "idle"
  /\ req' = [req EXCEPT ![r] = [op |-> op, transfer |-> t, next |-> 1]]
  /\ contested' = IF Working(t) = {} THEN contested ELSE contested \cup {t}
  /\ UNCHANGED <<stock, status, ledger>>

(* createTransfer: requireStockApproval decides between a draft and goods  *)
(* that leave at once.                                                     *)
Create(r, t, asked) ==
  /\ status[t] = "NONE" /\ Working(t) = {}
  /\ \E op \in {"draft", "ship"} : Begin(r, t, op)
  /\ plan' = [plan EXCEPT ![t] = asked]

Approve(r, t) ==
  /\ status[t] = "DRAFT"
  /\ Begin(r, t, "approve")
  /\ UNCHANGED plan

(* Fault: completeTransfer accepts a draft as well.                        *)
CompleteDraft(r, t) ==
  /\ status[t] \in {"DRAFT", "IN_TRANSIT"}
  /\ Begin(r, t, "receive")
  /\ UNCHANGED plan

Complete(r, t) ==
  /\ status[t] = "IN_TRANSIT"
  /\ Begin(r, t, "receive")
  /\ UNCHANGED plan

(* cancelTransfer: goods on their way go back, a draft is only closed.     *)
Cancel(r, t) ==
  /\ \/ status[t] = "IN_TRANSIT" /\ Begin(r, t, "recall")
     \/ status[t] = "DRAFT" /\ Begin(r, t, "withdraw")
  /\ UNCHANGED plan

-----------------------------------------------------------------------------
(* r waits for q: the row of its next line is locked by q.                 *)
WaitsFor(r, q) ==
  /\ q # r
  /\ req[r].next \in DOMAIN Items(r)
  /\ Holds(q, Outlet(r), Line(r).product)

Blocked(r) == \E q \in Requests : WaitsFor(r, q)

Enough(r) == Sign(req[r].op) = 1 \/ stock[Outlet(r)][Line(r).product] >= Line(r).qty

(* Fault: the decrement does not ask for enough stock.                     *)
MoveUnguarded(r) ==
  /\ req[r].next \in DOMAIN Items(r)
  /\ ~Blocked(r)
  /\ req' = [req EXCEPT ![r] = [op |-> @.op, transfer |-> @.transfer, next |-> @.next + 1]]
  /\ UNCHANGED <<stock, status, plan, ledger, contested>>

(* decrementOutletStock (guarded) or incrementOutletStock of the next      *)
(* line, and its ledger row, once the row is free.                         *)
Move(r) ==
  /\ req[r].next \in DOMAIN Items(r)
  /\ ~Blocked(r)
  /\ Enough(r)
  /\ req' = [req EXCEPT ![r] = [op |-> @.op, transfer |-> @.transfer, next |-> @.next + 1]]
  /\ UNCHANGED <<stock, status, plan, ledger, contested>>

(* The request is over and its locks are released.                         *)
Leave(r) == req' = [req EXCEPT ![r] = Idle]

(* No row has enough stock: decrementOutletStock throws and the            *)
(* transaction rolls back.                                                 *)
Refuse(r) ==
  /\ req[r].next \in DOMAIN Items(r)
  /\ ~Enough(r)
  /\ Leave(r)
  /\ UNCHANGED <<stock, status, plan, ledger, contested>>

(* Fault: a cancellation puts the goods where they were going.             *)
FinishAtTarget(r) ==
  LET o    == IF req[r].op = "recall" THEN Asked(r).to ELSE Outlet(r)
      move == [p \in Products |-> IF req[r].op \in Moving
                                    THEN Sign(req[r].op) * Load(Asked(r))[p] ELSE 0]
      t    == req[r].transfer
  IN
  /\ req[r].op # "idle" /\ req[r].next = Len(Items(r)) + 1
  /\ stock' = [stock EXCEPT ![o] = [p \in Products |-> stock[o][p] + move[p]]]
  /\ ledger' = [ledger EXCEPT ![t] = [@ EXCEPT ![o] = [p \in Products |-> ledger[t][o][p] + move[p]]]]
  /\ status' = [status EXCEPT ![t] = Result(req[r].op)]
  /\ Leave(r)
  /\ UNCHANGED <<plan, contested>>

(* The status is set, unconditionally, and everything commits.             *)
Finish(r) ==
  LET o    == Outlet(r)
      move == [p \in Products |-> IF req[r].op \in Moving
                                    THEN Sign(req[r].op) * Load(Asked(r))[p] ELSE 0]
      t    == req[r].transfer
  IN
  /\ req[r].op # "idle" /\ req[r].next = Len(Items(r)) + 1
  /\ stock' = [stock EXCEPT ![o] = [p \in Products |-> stock[o][p] + move[p]]]
  /\ ledger' = [ledger EXCEPT ![t] = [@ EXCEPT ![o] = [p \in Products |-> ledger[t][o][p] + move[p]]]]
  /\ status' = [status EXCEPT ![t] = Result(req[r].op)]
  /\ Leave(r)
  /\ UNCHANGED <<plan, contested>>

(* Requests that wait for each other in a circle: PostgreSQL rolls one     *)
(* back.                                                                   *)
InCycle(r) ==
  \E S \in SUBSET Requests :
    /\ r \in S
    /\ \A q \in S : (\E w \in S : WaitsFor(q, w)) /\ (\E w \in S : WaitsFor(w, q))

(* Fault: cycles of waits are not found.                                   *)
VictimNever(r) ==
  /\ FALSE
  /\ Leave(r)
  /\ UNCHANGED <<stock, status, plan, ledger, contested>>

Victim(r) ==
  /\ InCycle(r)
  /\ Leave(r)
  /\ UNCHANGED <<stock, status, plan, ledger, contested>>

(* The role is not allowed, the transaction's 30 s are over, the           *)
(* connection is lost or the process stops: rollback.                      *)
Abort(r) ==
  /\ req[r].op # "idle"
  /\ Leave(r)
  /\ UNCHANGED <<stock, status, plan, ledger, contested>>

-----------------------------------------------------------------------------
Open(r, t) ==
  (\E asked \in Plans : Create(r, t, asked)) \/ Approve(r, t) \/ Complete(r, t) \/ Cancel(r, t)

Work(r) == Move(r) \/ Refuse(r) \/ Finish(r)

Next ==
  \/ \E r \in Requests, t \in Transfers : Open(r, t)
  \/ \E r \in Requests : Work(r) \/ Victim(r) \/ Abort(r)

Spec == Init /\ [][Next]_vars

(* Statements that can run are run, a request that waits for a row is      *)
(* queued for it and so gets it before later ones get it again and again,  *)
(* and the database breaks cycles of waits.  Nobody is bound to act on a   *)
(* transfer, and a request is not bound to time out.                       *)
Fairness == \A r \in Requests : SF_vars(Work(r)) /\ WF_vars(Victim(r))

FairSpec == Spec /\ Fairness

-----------------------------------------------------------------------------
Statuses == {"NONE", "DRAFT", "IN_TRANSIT", "COMPLETED", "CANCELLED"}
ReqState == [op : Operations \cup {"idle"}, transfer : Transfers \cup {NoTransfer}, next : Nat \ {0}]

TypeOK ==
  /\ stock \in [Outlets -> [Products -> Int]]
  /\ status \in [Transfers -> Statuses]
  /\ plan \in [Transfers -> Plans \cup {NoPlan}]
  /\ ledger \in [Transfers -> [Outlets -> [Products -> Int]]]
  /\ req \in [Requests -> ReqState]
  /\ contested \subseteq Transfers

(* However transfers overlap, no outlet ships what it does not have (the   *)
(* guarded updateMany of decrementOutletStock).                            *)
StockNeverNegative == \A o \in Outlets, p \in Products : stock[o][p] >= 0

(* The goods a transfer has left at an outlet, by its status: gone from    *)
(* the source from the moment it is on its way, arrived when completed.    *)
Due(t, o) ==
  [p \in Products |->
     CASE status[t] \in {"IN_TRANSIT", "COMPLETED"} /\ o = plan[t].from -> 0 - Load(plan[t])[p]
       [] status[t] = "COMPLETED" /\ o = plan[t].to -> Load(plan[t])[p]
       [] OTHER -> 0]

(* A transfer no two requests worked on at a time has moved exactly what   *)
(* its status says, at both outlets.                                       *)
UncontestedTransfersBalance ==
  \A t \in Transfers \ contested, o \in Outlets : ledger[t][o] = Due(t, o)

Transit(t, p) == IF status[t] = "IN_TRANSIT" THEN Load(plan[t])[p] ELSE 0

(* Goods in the outlets and on their way are what they were at the start.  *)
GoodsConserved ==
  \A p \in Products :
    MapThenSumSet(LAMBDA o : stock[o][p], Outlets) + MapThenSumSet(LAMBDA t : Transit(t, p), Transfers)
      = MapThenSumSet(LAMBDA o : InitialStock[o][p], Outlets)

(* Only transfers that were worked on twice at a time lose or create goods. *)
ConservedUnlessContested == contested = {} => GoodsConserved

(* A transfer that is never worked on twice at a time takes only the steps *)
(* draft, in transit, completed, or cancelled before that.                 *)
UncontestedLifecycle ==
  [][\A t \in Transfers \ contested' :
       \/ status'[t] = status[t]
       \/ <<status[t], status'[t]>> \in
            {<<"NONE", "DRAFT">>, <<"NONE", "IN_TRANSIT">>, <<"DRAFT", "IN_TRANSIT">>,
             <<"DRAFT", "CANCELLED">>, <<"IN_TRANSIT", "COMPLETED">>,
             <<"IN_TRANSIT", "CANCELLED">>}]_vars

(* Every request ends, although two transfers may list their products in   *)
(* opposite orders and wait for each other.                                *)
EveryRequestEnds == \A r \in Requests : req[r].op # "idle" ~> req[r].op = "idle"

-----------------------------------------------------------------------------
(* What the code's messages and comments say and the code does not do.     *)

(* transferService.ts:353, "Transfer yang sudah selesai atau dibatalkan    *)
(* tidak bisa diubah": a completed or cancelled transfer stays so.         *)
FinalTransfersStay ==
  [][\A t \in Transfers : status[t] \in {"COMPLETED", "CANCELLED"} => status'[t] = status[t]]_vars

(* transferService.ts:312, "langsung dibatalkan (karena tidak ada mutasi   *)
(* stok)", and :313: no goods are missing because of a cancelled transfer. *)
CancelledTransfersMovedNothing ==
  \A t \in Transfers : status[t] = "CANCELLED" =>
    \A o \in Outlets, p \in Products : ledger[t][o][p] = 0
=============================================================================
