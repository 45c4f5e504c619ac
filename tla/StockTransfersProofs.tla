------------------------ MODULE StockTransfersProofs ------------------------
(***************************************************************************)
(* Theorems about StockTransfers for every set of outlets, products,       *)
(* transfers, requests and plans, and every initial stock.                 *)
(***************************************************************************)
EXTENDS StockTransfers, Sums, TLAPS

(* A request that runs is about a planned transfer and has not gone past   *)
(* the last line.                                                          *)
OnItsWay(r) ==
  req[r].op # "idle" =>
    /\ req[r].transfer \in Transfers
    /\ plan[req[r].transfer] \in Plans
    /\ req[r].next <= Len(Items(r)) + 1

RequestsOnTheirWay == \A r \in Requests : OnItsWay(r)

(* A transfer that exists has a plan.                                      *)
TransfersPlanned == \A t \in Transfers : status[t] # "NONE" => plan[t] \in Plans

(* No two requests hold one stock row.                                     *)
RowsAreExclusive ==
  \A r, q \in Requests, o \in Outlets, p \in Products :
    Holds(r, o, p) /\ Holds(q, o, p) => r = q

(* The stock of a row a request ships from is enough until it commits.     *)
ShipmentsCovered ==
  \A r \in Requests, o \in Outlets, p \in Products :
    Holds(r, o, p) /\ Sign(req[r].op) = -1 => stock[o][p] >= Load(Asked(r))[p]

(* The inductive invariant.                                                *)
IInv ==
  /\ TypeOK
  /\ RequestsOnTheirWay
  /\ TransfersPlanned
  /\ RowsAreExclusive
  /\ ShipmentsCovered
  /\ StockNeverNegative

-----------------------------------------------------------------------------
(* The lines of a plan.                                                    *)
LEMMA PlanType ==
  ASSUME NEW asked \in Plans
  PROVE  /\ asked.from \in Outlets /\ asked.to \in Outlets
         /\ asked.items \in Seq(Item)
         /\ \A i, j \in DOMAIN asked.items :
              asked.items[i].product = asked.items[j].product => i = j
BY PlansAssumption DEF Lists

(* What a plan moves of a product is the quantity of the product's line.   *)
LEMMA LoadOfLine ==
  ASSUME NEW asked \in Plans, NEW i \in DOMAIN asked.items
  PROVE  /\ asked.items[i] \in Item
         /\ Load(asked)[asked.items[i].product] = asked.items[i].qty
<1> DEFINE p == asked.items[i].product
           c == CHOOSE j \in DOMAIN asked.items : asked.items[j].product = p
<1>1. asked.items[i] \in Item /\ p \in Products
  <2>1. asked.items[i] \in Item
    BY PlanType
  <2> QED
    BY <2>1 DEF Item
<1>2. c \in DOMAIN asked.items /\ asked.items[c].product = p
  OBVIOUS
<1>3. c = i
  BY <1>2, PlanType
<1>4. Load(asked)[p] = asked.items[c].qty
  BY <1>1, <1>2 DEF Load
<1> QED
  BY <1>1, <1>3, <1>4

(* A plan moves a natural number of each product, none of what it does not *)
(* list.                                                                   *)
LEMMA LoadType ==
  ASSUME NEW asked \in Plans, NEW p \in Products
  PROVE  /\ Load(asked)[p] \in Nat
         /\ (~ \E i \in DOMAIN asked.items : asked.items[i].product = p) => Load(asked)[p] = 0
<1>1. CASE \E i \in DOMAIN asked.items : asked.items[i].product = p
  <2>1. PICK i \in DOMAIN asked.items : asked.items[i].product = p
    BY <1>1
  <2>2. Load(asked)[p] = asked.items[i].qty /\ asked.items[i] \in Item
    BY <2>1, LoadOfLine
  <2> QED
    BY <2>2, <1>1 DEF Item
<1>2. CASE ~ \E i \in DOMAIN asked.items : asked.items[i].product = p
  BY <1>2 DEF Load
<1> QED
  BY <1>1, <1>2

(* A request that still has a line moves stock, of an outlet, and the line *)
(* is one of its plan's.                                                   *)
LEMMA NextLine ==
  ASSUME TypeOK, RequestsOnTheirWay, NEW r \in Requests, req[r].next \in DOMAIN Items(r)
  PROVE  /\ req[r].op \in Moving /\ Items(r) = Asked(r).items /\ Asked(r) \in Plans
         /\ req[r].next \in DOMAIN Asked(r).items
         /\ Line(r) \in Item /\ Outlet(r) \in Outlets
         /\ Load(Asked(r))[Line(r).product] = Line(r).qty
<1>1. req[r].op \in Moving /\ Items(r) = Asked(r).items
  BY DEF Items
<1>2. Asked(r) \in Plans
  BY <1>1 DEF RequestsOnTheirWay, OnItsWay, Asked, Moving
<1>3. Outlet(r) \in Outlets
  BY <1>2, PlanType DEF Outlet, Side
<1> QED
  BY <1>1, <1>2, <1>3, LoadOfLine DEF Line

(* A step that changes neither a request nor its plan changes nothing of   *)
(* what it holds.                                                          *)
LEMMA HoldsFrame ==
  ASSUME NEW r, req'[r] = req[r], req[r].op \in Moving => plan'[req[r].transfer] = plan[req[r].transfer],
         NEW o, NEW p
  PROVE  Holds(r, o, p)' <=> Holds(r, o, p)
BY DEF Holds, Outlet, Items, Asked

-----------------------------------------------------------------------------
(* At first nobody has asked for a transfer.                               *)
LEMMA InitIInv == Init => IInv
<1> SUFFICES ASSUME Init PROVE IInv
  OBVIOUS
<1>1. TypeOK
  BY StockAssumption DEF Init, TypeOK, ReqState, Idle, Statuses
<1>2. \A r \in Requests : req[r].op = "idle"
  BY DEF Init, Idle
<1>3. \A r \in Requests, o \in Outlets, p \in Products : ~Holds(r, o, p)
  BY <1>2 DEF Holds, Moving
<1>4. RequestsOnTheirWay /\ TransfersPlanned
  BY <1>2 DEF RequestsOnTheirWay, OnItsWay, TransfersPlanned, Init
<1>5. RowsAreExclusive /\ ShipmentsCovered
  BY <1>3 DEF RowsAreExclusive, ShipmentsCovered
<1>6. StockNeverNegative
  BY StockAssumption DEF Init, StockNeverNegative
<1> QED
  BY <1>1, <1>4, <1>5, <1>6 DEF IInv

(* A request that begins holds nothing, and the others hold what they held.*)
LEMMA BeginIInv ==
  ASSUME IInv, NEW r \in Requests, NEW t \in Transfers, NEW op \in Operations,
         Begin(r, t, op),
         plan' \in [Transfers -> Plans \cup {NoPlan}],
         plan'[t] \in Plans,
         \A u \in Transfers : u # t \/ Working(t) # {} => plan'[u] = plan[u]
  PROVE  IInv'
<1> USE DEF IInv
<1>1. /\ req' = [req EXCEPT ![r] = [op |-> op, transfer |-> t, next |-> 1]]
      /\ req \in [Requests -> ReqState] /\ contested' \subseteq Transfers
      /\ UNCHANGED <<stock, status, ledger>>
  BY DEF Begin, TypeOK
<1>2. \A q \in Requests : req[q].op # "idle" =>
        q # r /\ req'[q] = req[q] /\ plan'[req[q].transfer] = plan[req[q].transfer]
  <2> SUFFICES ASSUME NEW q \in Requests, req[q].op # "idle"
               PROVE  q # r /\ req'[q] = req[q] /\ plan'[req[q].transfer] = plan[req[q].transfer]
    OBVIOUS
  <2>1. q # r /\ req'[q] = req[q] /\ req[q].transfer \in Transfers
    BY <1>1 DEF Begin, RequestsOnTheirWay, OnItsWay
  <2>2. req[q].transfer = t => q \in Working(t)
    BY DEF Working
  <2> QED
    BY <2>1, <2>2
<1>3. \A q \in Requests : req'[q] = req[q] \/ (q = r /\ req'[q] = [op |-> op, transfer |-> t, next |-> 1])
  BY <1>1
<1>4. TypeOK'
  <2>1. req' \in [Requests -> ReqState]
    BY <1>1 DEF ReqState
  <2> QED
    BY <1>1, <2>1 DEF TypeOK
<1>5. RequestsOnTheirWay'
  <2> SUFFICES ASSUME NEW q \in Requests PROVE OnItsWay(q)'
    BY DEF RequestsOnTheirWay
  <2>1. CASE q = r
    <3>1. req'[r] = [op |-> op, transfer |-> t, next |-> 1]
      BY <1>1
    <3>2. Items(r)' \in Seq(Item)
      BY <3>1, PlanType DEF Items, Asked
    <3> QED
      BY <2>1, <3>1, <3>2 DEF OnItsWay
  <2>2. CASE q # r /\ req[q].op # "idle"
    <3>1. OnItsWay(q) /\ req'[q] = req[q] /\ plan'[req[q].transfer] = plan[req[q].transfer]
      BY <2>2, <1>2 DEF RequestsOnTheirWay
    <3>2. Items(q)' = Items(q)
      BY <3>1 DEF Items, Asked
    <3> QED
      BY <3>1, <3>2 DEF OnItsWay
  <2>3. CASE q # r /\ req[q].op = "idle"
    BY <2>3, <1>3 DEF OnItsWay
  <2> QED
    BY <2>1, <2>2, <2>3
<1>6. TransfersPlanned'
  BY <1>1 DEF TransfersPlanned
<1>7. ASSUME NEW q \in Requests, NEW o \in Outlets, NEW p \in Products, Holds(q, o, p)'
      PROVE  /\ Holds(q, o, p) /\ req'[q] = req[q]
             /\ plan'[req[q].transfer] = plan[req[q].transfer]
  <2>1. q # r
    <3>1. req'[r].next = 1
      BY <1>1
    <3> QED
      BY <1>7, <3>1 DEF Holds
  <2>2. req'[q] = req[q]
    BY <2>1, <1>3
  <2>3. req[q].op # "idle"
    BY <1>7, <2>2 DEF Holds, Moving
  <2> QED
    BY <1>7, <1>2, <2>2, <2>3, HoldsFrame
<1>8. RowsAreExclusive'
  BY <1>7 DEF RowsAreExclusive
<1>9. ShipmentsCovered'
  <2> SUFFICES ASSUME NEW q \in Requests, NEW o \in Outlets, NEW p \in Products,
                      Holds(q, o, p)', Sign(req[q].op)' = -1
               PROVE  stock'[o][p] >= Load(Asked(q)')[p]
    BY DEF ShipmentsCovered, Load
  <2>1. Holds(q, o, p) /\ req'[q] = req[q] /\ Asked(q)' = Asked(q)
    BY <1>7 DEF Asked
  <2> QED
    BY <2>1, <1>1 DEF ShipmentsCovered, Sign
<1>10. StockNeverNegative'
  BY <1>1 DEF StockNeverNegative
<1> QED
  BY <1>4, <1>5, <1>6, <1>8, <1>9, <1>10

(* The lock keeps rows exclusive, and the guard covers what is taken.      *)
LEMMA MoveIInv ==
  ASSUME IInv, NEW r \in Requests, Move(r)
  PROVE  IInv'
<1> USE DEF IInv
<1>1. /\ req' = [req EXCEPT ![r] = [op |-> @.op, transfer |-> @.transfer, next |-> @.next + 1]]
      /\ req \in [Requests -> ReqState]
      /\ UNCHANGED <<stock, status, plan, ledger, contested>>
      /\ req[r].next \in DOMAIN Items(r) /\ ~Blocked(r) /\ Enough(r)
  BY DEF Move, TypeOK
<1>2. \A q \in Requests : /\ req'[q].op = req[q].op /\ req'[q].transfer = req[q].transfer
                          /\ q # r => req'[q] = req[q]
  BY <1>1 DEF ReqState
<1>3. req'[r].next = req[r].next + 1 /\ req[r].next \in Nat \ {0}
  BY <1>1 DEF ReqState
<1>4. \A q \in Requests : Items(q)' = Items(q) /\ Asked(q)' = Asked(q) /\ Outlet(q)' = Outlet(q)
  BY <1>1, <1>2 DEF Items, Asked, Outlet
<1>5. /\ req[r].op \in Moving /\ Items(r) = Asked(r).items /\ Asked(r) \in Plans
      /\ req[r].next \in DOMAIN Asked(r).items
      /\ Line(r) \in Item /\ Outlet(r) \in Outlets
      /\ Load(Asked(r))[Line(r).product] = Line(r).qty
  BY <1>1, NextLine
<1>6. TypeOK'
  <2>1. req' \in [Requests -> ReqState]
    BY <1>1 DEF ReqState
  <2> QED
    BY <1>1, <2>1 DEF TypeOK
<1>7. RequestsOnTheirWay'
  <2> SUFFICES ASSUME NEW q \in Requests PROVE OnItsWay(q)'
    BY DEF RequestsOnTheirWay
  <2>1. OnItsWay(q)
    BY DEF RequestsOnTheirWay
  <2>2. CASE q = r
    <3>1. req[r].next <= Len(Items(r)) /\ Len(Items(r)) \in Nat
      BY <1>1, <1>5, PlanType
    <3> QED
      BY <2>1, <2>2, <3>1, <1>1, <1>2, <1>3, <1>4 DEF OnItsWay
  <2>3. CASE q # r
    BY <2>1, <2>3, <1>1, <1>2, <1>4 DEF OnItsWay
  <2> QED
    BY <2>2, <2>3
<1>8. ASSUME NEW q \in Requests, NEW o \in Outlets, NEW p \in Products, Holds(q, o, p)'
      PROVE  Holds(q, o, p) \/ (q = r /\ o = Outlet(r) /\ p = Line(r).product)
  <2>1. CASE q # r
    BY <1>8, <2>1, <1>2, <1>4 DEF Holds
  <2>2. CASE q = r
    <3>1. PICK i \in 1..(req'[r].next - 1) : Items(r)[i].product = p
      BY <1>8, <2>2, <1>4 DEF Holds
    <3>2. Outlet(r) = o
      BY <1>8, <2>2, <1>4 DEF Holds
    <3>3. i = req[r].next \/ i \in 1..(req[r].next - 1)
      BY <3>1, <1>3
    <3> QED
      BY <2>2, <3>1, <3>2, <3>3, <1>5 DEF Holds, Line
  <2> QED
    BY <2>1, <2>2
<1>9. \A q \in Requests : q # r => ~Holds(q, Outlet(r), Line(r).product)
  BY <1>1 DEF Blocked, WaitsFor
<1>10. RowsAreExclusive'
  BY <1>8, <1>9 DEF RowsAreExclusive
<1>11. ShipmentsCovered'
  <2> SUFFICES ASSUME NEW q \in Requests, NEW o \in Outlets, NEW p \in Products,
                      Holds(q, o, p)', Sign(req[q].op)' = -1
               PROVE  stock'[o][p] >= Load(Asked(q)')[p]
    BY DEF ShipmentsCovered, Load
  <2>1. Asked(q)' = Asked(q) /\ Sign(req[q].op) = -1 /\ stock' = stock
    BY <1>1, <1>2, <1>4 DEF Sign
  <2>2. CASE Holds(q, o, p)
    BY <2>1, <2>2 DEF ShipmentsCovered
  <2>3. CASE q = r /\ o = Outlet(r) /\ p = Line(r).product
    BY <2>1, <2>3, <1>1, <1>5 DEF Enough
  <2> QED
    BY <1>8, <2>2, <2>3
<1>12. TransfersPlanned' /\ StockNeverNegative'
  BY <1>1 DEF TransfersPlanned, StockNeverNegative
<1> QED
  BY <1>6, <1>7, <1>10, <1>11, <1>12

(* When a request is over, the others hold what they held.                 *)
LEMMA LeaveHolds ==
  ASSUME TypeOK, NEW r \in Requests, Leave(r), plan' = plan
  PROVE  /\ req' \in [Requests -> ReqState]
         /\ req'[r].op = "idle"
         /\ \A q \in Requests : q # r =>
              req'[q] = req[q] /\ Asked(q)' = Asked(q) /\ Items(q)' = Items(q)
         /\ \A q \in Requests, o \in Outlets, p \in Products :
              Holds(q, o, p)' => q # r /\ Holds(q, o, p)
<1>1. req \in [Requests -> ReqState] /\ req' = [req EXCEPT ![r] = Idle] /\ Idle \in ReqState
  BY DEF TypeOK, Leave, Idle, ReqState
<1>2. req'[r].op = "idle"
  BY <1>1 DEF Idle
<1>3. \A q \in Requests : q # r =>
         req'[q] = req[q] /\ Asked(q)' = Asked(q) /\ Items(q)' = Items(q)
  BY <1>1 DEF Asked, Items
<1>4. \A q \in Requests, o \in Outlets, p \in Products :
        Holds(q, o, p)' => q # r /\ Holds(q, o, p)
  BY <1>2, <1>3, HoldsFrame DEF Holds, Moving
<1> QED
  BY <1>1, <1>2, <1>3, <1>4

(* A request that ends takes nobody off their way.                         *)
LEMMA LeaveOnTheirWay ==
  ASSUME TypeOK, RequestsOnTheirWay, NEW r \in Requests, Leave(r), plan' = plan
  PROVE  RequestsOnTheirWay'
<1> SUFFICES ASSUME NEW q \in Requests PROVE OnItsWay(q)'
  BY DEF RequestsOnTheirWay
<1>1. CASE q = r
  BY <1>1, LeaveHolds DEF OnItsWay
<1>2. CASE q # r
  BY <1>2, LeaveHolds DEF OnItsWay, RequestsOnTheirWay
<1> QED
  BY <1>1, <1>2

(* Leaving without a commit.                                               *)
LEMMA RollbackIInv ==
  ASSUME IInv, NEW r \in Requests, Leave(r), UNCHANGED <<stock, status, plan, ledger, contested>>
  PROVE  IInv'
<1> USE DEF IInv
<1>1. TypeOK'
  BY LeaveHolds DEF TypeOK
<1>2. RequestsOnTheirWay'
  BY LeaveOnTheirWay
<1>3. TransfersPlanned' /\ StockNeverNegative'
  BY DEF TransfersPlanned, StockNeverNegative
<1>4. RowsAreExclusive'
  BY LeaveHolds DEF RowsAreExclusive
<1>5. ShipmentsCovered'
  <2> SUFFICES ASSUME NEW q \in Requests, NEW o \in Outlets, NEW p \in Products,
                      Holds(q, o, p)', Sign(req[q].op)' = -1
               PROVE  stock'[o][p] >= Load(Asked(q)')[p]
    BY DEF ShipmentsCovered, Load
  <2>1. Holds(q, o, p) /\ req'[q] = req[q] /\ Asked(q)' = Asked(q)
    BY LeaveHolds
  <2> QED
    BY <2>1 DEF ShipmentsCovered, Sign
<1> QED
  BY <1>1, <1>2, <1>3, <1>4, <1>5

(* A row the request has finished with: what it moves keeps the row        *)
(* non-negative, and touches no row another request holds.                 *)
LEMMA MovedRow ==
  ASSUME IInv, NEW r \in Requests, req[r].op \in Moving, req[r].next = Len(Items(r)) + 1,
         NEW p \in Products
  PROVE  /\ Asked(r) \in Plans /\ Outlet(r) \in Outlets
         /\ Load(Asked(r))[p] \in Nat
         /\ stock[Outlet(r)][p] + Sign(req[r].op) * Load(Asked(r))[p] \in Nat
         /\ Load(Asked(r))[p] # 0 => Holds(r, Outlet(r), p)
<1> USE DEF IInv
<1>1. Asked(r) \in Plans /\ Items(r) = Asked(r).items
  BY DEF RequestsOnTheirWay, OnItsWay, Asked, Items, Moving
<1>2. Outlet(r) \in Outlets /\ Asked(r).items \in Seq(Item)
  BY <1>1, PlanType DEF Outlet, Side
<1>3. Load(Asked(r))[p] \in Nat
  BY <1>1, LoadType
<1>4. Load(Asked(r))[p] # 0 => Holds(r, Outlet(r), p)
  <2> SUFFICES ASSUME Load(Asked(r))[p] # 0 PROVE Holds(r, Outlet(r), p)
    OBVIOUS
  <2>1. PICK i \in DOMAIN Asked(r).items : Asked(r).items[i].product = p
    BY <1>1, LoadType
  <2>2. i \in 1..(req[r].next - 1)
    BY <1>1, <1>2
  <2> QED
    BY <1>1, <2>1, <2>2 DEF Holds
<1>5. stock[Outlet(r)][p] \in Int /\ stock[Outlet(r)][p] >= 0
  BY <1>2 DEF TypeOK, StockNeverNegative
<1>6. stock[Outlet(r)][p] + Sign(req[r].op) * Load(Asked(r))[p] \in Nat
  <2>1. CASE Sign(req[r].op) = 1
    BY <2>1, <1>3, <1>5
  <2>2. CASE Sign(req[r].op) = -1
    <3>1. Load(Asked(r))[p] # 0 => stock[Outlet(r)][p] >= Load(Asked(r))[p]
      BY <2>2, <1>2, <1>4 DEF ShipmentsCovered
    <3> QED
      BY <2>2, <3>1, <1>3, <1>5
  <2> QED
    BY <2>1, <2>2 DEF Sign
<1> QED
  BY <1>1, <1>2, <1>3, <1>4, <1>6

(* The commit.                                                             *)
LEMMA FinishIInv ==
  ASSUME IInv, NEW r \in Requests, Finish(r)
  PROVE  IInv'
<1> USE DEF IInv
<1> DEFINE o == Outlet(r)
           t == req[r].transfer
           move == [p \in Products |-> IF req[r].op \in Moving
                                         THEN Sign(req[r].op) * Load(Asked(r))[p] ELSE 0]
<1>1. /\ req[r].op # "idle" /\ req[r].next = Len(Items(r)) + 1
      /\ stock' = [stock EXCEPT ![o] = [p \in Products |-> stock[o][p] + move[p]]]
      /\ ledger' = [ledger EXCEPT ![t] = [@ EXCEPT ![o] = [p \in Products |-> ledger[t][o][p] + move[p]]]]
      /\ status' = [status EXCEPT ![t] = Result(req[r].op)]
      /\ Leave(r) /\ UNCHANGED <<plan, contested>>
  BY DEF Finish
<1>2. t \in Transfers /\ Asked(r) \in Plans /\ o \in Outlets
  <2>1. t \in Transfers /\ plan[t] \in Plans
    BY <1>1 DEF RequestsOnTheirWay, OnItsWay
  <2> QED
    BY <2>1, PlanType DEF Asked, Outlet, Side
<1>3. move \in [Products -> Int]
  <2> SUFFICES ASSUME NEW p \in Products, req[r].op \in Moving
               PROVE  Sign(req[r].op) * Load(Asked(r))[p] \in Int
    OBVIOUS
  <2>1. Load(Asked(r))[p] \in Nat /\ Sign(req[r].op) \in {1, -1}
    BY <1>2, LoadType DEF Sign
  <2> QED
    BY <2>1
<1>4. \A p \in Products : /\ stock[o][p] + move[p] \in Nat
                          /\ move[p] # 0 => Holds(r, o, p)
  <2> SUFFICES ASSUME NEW p \in Products
               PROVE  stock[o][p] + move[p] \in Nat /\ (move[p] # 0 => Holds(r, o, p))
    OBVIOUS
  <2>1. CASE req[r].op \in Moving
    <3>1. /\ Load(Asked(r))[p] \in Nat
          /\ stock[o][p] + Sign(req[r].op) * Load(Asked(r))[p] \in Nat
          /\ Load(Asked(r))[p] # 0 => Holds(r, o, p)
      BY <1>1, <2>1, MovedRow
    <3>2. Sign(req[r].op) \in {1, -1} /\ move[p] = Sign(req[r].op) * Load(Asked(r))[p]
      BY <2>1 DEF Sign
    <3>3. Load(Asked(r))[p] = 0 => move[p] = 0
      BY <3>2
    <3> QED
      BY <3>1, <3>2, <3>3
  <2>2. CASE req[r].op \notin Moving
    <3>1. move[p] = 0 /\ stock[o][p] \in Int /\ stock[o][p] >= 0
      BY <2>2, <1>2 DEF TypeOK, StockNeverNegative
    <3> QED
      BY <3>1
  <2> QED
    BY <2>1, <2>2
<1> HIDE DEF o, t, move
<1>5. stock' \in [Outlets -> [Products -> Int]]
      /\ \A u \in Outlets, p \in Products :
           stock'[u][p] = IF u = o THEN stock[o][p] + move[p] ELSE stock[u][p]
  BY <1>1, <1>2, <1>3, <1>4 DEF TypeOK
<1>6. StockNeverNegative'
  BY <1>4, <1>5 DEF StockNeverNegative
<1>7. ledger' \in [Transfers -> [Outlets -> [Products -> Int]]]
  <2>1. ledger[t] \in [Outlets -> [Products -> Int]]
    BY <1>2 DEF TypeOK
  <2>2. [p \in Products |-> ledger[t][o][p] + move[p]] \in [Products -> Int]
    BY <1>2, <1>3, <2>1
  <2>3. [ledger[t] EXCEPT ![o] = [p \in Products |-> ledger[t][o][p] + move[p]]]
          \in [Outlets -> [Products -> Int]]
    BY <2>1, <2>2
  <2> QED
    BY <1>1, <2>3 DEF TypeOK
<1>8. Result(req[r].op) \in Statuses
  BY DEF Result, Statuses
<1>9. status' \in [Transfers -> Statuses]
  BY <1>1, <1>8 DEF TypeOK
<1>10. TypeOK'
  BY <1>1, <1>5, <1>7, <1>9, LeaveHolds DEF TypeOK
<1>11. RequestsOnTheirWay'
  BY <1>1, LeaveOnTheirWay
<1>12. TransfersPlanned'
  <2>1. plan[t] \in Plans
    BY <1>2 DEF Asked, t
  <2> QED
    BY <1>1, <2>1 DEF TransfersPlanned, TypeOK
<1>13. RowsAreExclusive'
  BY <1>1, LeaveHolds DEF RowsAreExclusive
<1>14. ShipmentsCovered'
  <2> SUFFICES ASSUME NEW q \in Requests, NEW u \in Outlets, NEW p \in Products,
                      Holds(q, u, p)', Sign(req[q].op)' = -1
               PROVE  stock'[u][p] >= Load(Asked(q)')[p]
    BY DEF ShipmentsCovered, Load
  <2>1. q # r /\ Holds(q, u, p) /\ req'[q] = req[q] /\ Asked(q)' = Asked(q)
    BY <1>1, LeaveHolds
  <2>2. u = o => move[p] = 0
    BY <2>1, <1>4 DEF RowsAreExclusive
  <2>3. stock'[u][p] = stock[u][p]
    BY <1>5, <2>2 DEF TypeOK
  <2> QED
    BY <2>1, <2>3 DEF ShipmentsCovered, Sign
<1> QED
  BY <1>6, <1>10, <1>11, <1>12, <1>13, <1>14

-----------------------------------------------------------------------------
(* Every step keeps the inductive invariant.                               *)
LEMMA NextIInv == IInv /\ [Next]_vars => IInv'
<1> SUFFICES ASSUME IInv, [Next]_vars PROVE IInv'
  OBVIOUS
<1>1. ASSUME NEW r \in Requests, NEW t \in Transfers, NEW asked \in Plans, Create(r, t, asked)
      PROVE  IInv'
  <2>1. PICK op \in {"draft", "ship"} : Begin(r, t, op)
    BY <1>1 DEF Create
  <2>2. plan' = [plan EXCEPT ![t] = asked] /\ Working(t) = {}
    BY <1>1 DEF Create
  <2>3. plan \in [Transfers -> Plans \cup {NoPlan}]
    BY DEF IInv, TypeOK
  <2>4. \A u \in Transfers : u # t \/ Working(t) # {} => plan'[u] = plan[u]
    BY <2>2, <2>3
  <2> QED
    BY <2>1, <2>2, <2>3, <2>4, BeginIInv DEF Operations
<1>2. ASSUME NEW r \in Requests, NEW t \in Transfers, NEW op \in Operations,
             status[t] # "NONE", Begin(r, t, op), plan' = plan
      PROVE  IInv'
  <2>1. plan \in [Transfers -> Plans \cup {NoPlan}] /\ plan[t] \in Plans
    BY <1>2 DEF IInv, TypeOK, TransfersPlanned
  <2> QED
    BY <1>2, <2>1, BeginIInv
<1>3. ASSUME NEW r \in Requests, NEW t \in Transfers, Approve(r, t)
      PROVE  IInv'
  BY <1>2, <1>3 DEF Approve, Operations
<1>4. ASSUME NEW r \in Requests, NEW t \in Transfers, Complete(r, t)
      PROVE  IInv'
  BY <1>2, <1>4 DEF Complete, Operations
<1>5. ASSUME NEW r \in Requests, NEW t \in Transfers, Cancel(r, t)
      PROVE  IInv'
  BY <1>2, <1>5 DEF Cancel, Operations
<1>6. ASSUME NEW r \in Requests, Work(r)
      PROVE  IInv'
  BY <1>6, MoveIInv, RollbackIInv, FinishIInv DEF Work, Refuse
<1>7. ASSUME NEW r \in Requests, Victim(r) \/ Abort(r)
      PROVE  IInv'
  BY <1>7, RollbackIInv DEF Victim, Abort
<1>8. CASE UNCHANGED vars
  <2>1. /\ UNCHANGED <<stock, status, plan, ledger, req, contested>>
        /\ \A r \in Requests : Items(r)' = Items(r) /\ Asked(r)' = Asked(r)
    BY <1>8 DEF vars, Items, Asked
  <2>2. \A r \in Requests, o \in Outlets, p \in Products : Holds(r, o, p)' <=> Holds(r, o, p)
    BY <2>1, HoldsFrame
  <2>3. TypeOK' /\ RequestsOnTheirWay' /\ TransfersPlanned' /\ StockNeverNegative'
    BY <2>1 DEF IInv, TypeOK, RequestsOnTheirWay, OnItsWay, TransfersPlanned, StockNeverNegative
  <2>4. RowsAreExclusive'
    BY <2>2 DEF IInv, RowsAreExclusive
  <2>5. ShipmentsCovered'
    <3> SUFFICES ASSUME NEW q \in Requests, NEW o \in Outlets, NEW p \in Products,
                        Holds(q, o, p)', Sign(req[q].op)' = -1
                 PROVE  stock'[o][p] >= Load(Asked(q)')[p]
      BY DEF ShipmentsCovered, Load
    <3> QED
      BY <2>1, <2>2 DEF IInv, ShipmentsCovered, Sign
  <2> QED
    BY <2>3, <2>4, <2>5 DEF IInv
<1> QED
  BY <1>1, <1>3, <1>4, <1>5, <1>6, <1>7, <1>8 DEF Next, Open

(* Transfers of any number of lines between any outlets, handled by any    *)
(* number of requests at a time, keep the inductive invariant.             *)
THEOREM TransfersInvariance == Spec => []IInv
<1> QED
  BY InitIInv, NextIInv, PTL DEF Spec

(* The state stays well typed.                                             *)
THEOREM TransfersTypeCorrect == Spec => []TypeOK
<1>1. IInv => TypeOK
  BY DEF IInv
<1> QED
  BY <1>1, TransfersInvariance, PTL

(* No outlet ever ships what it does not have: the guarded updateMany of   *)
(* decrementOutletStock and the locks of the rows it updates suffice,      *)
(* however requests overlap.                                               *)
THEOREM TransfersStockSafe == Spec => []StockNeverNegative
<1>1. IInv => StockNeverNegative
  BY DEF IInv
<1> QED
  BY <1>1, TransfersInvariance, PTL

-----------------------------------------------------------------------------
(* The status a request read, while nobody else worked on its transfer.    *)
Read(op) ==
  CASE op \in {"draft", "ship"}       -> "NONE"
    [] op \in {"approve", "withdraw"} -> "DRAFT"
    [] OTHER                          -> "IN_TRANSIT"

(* An uncontested transfer has at most one request, and what that request  *)
(* read still holds.                                                       *)
ReadsHold ==
  \A r \in Requests :
    req[r].op # "idle" /\ req[r].transfer \notin contested =>
      /\ Working(req[r].transfer) = {r}
      /\ status[req[r].transfer] = Read(req[r].op)

BalanceInv == IInv /\ ReadsHold /\ UncontestedTransfersBalance

(* What the request that finishes does to its transfer.                    *)
LEMMA FinishUncontested ==
  ASSUME IInv, ReadsHold, NEW r \in Requests, Finish(r), req[r].transfer \notin contested
  PROVE  /\ req[r].transfer \in Transfers /\ req[r].op \in Operations
         /\ status[req[r].transfer] = Read(req[r].op)
         /\ status'[req[r].transfer] = Result(req[r].op)
<1> QED
  BY DEF IInv, ReadsHold, Finish, TypeOK, ReqState, RequestsOnTheirWay, OnItsWay

(* Nothing has moved at first, and nobody has read anything.               *)
LEMMA BalanceInit == Init => ReadsHold /\ UncontestedTransfersBalance
<1> SUFFICES ASSUME Init PROVE ReadsHold /\ UncontestedTransfersBalance
  OBVIOUS
<1>1. ReadsHold
  BY DEF Init, ReadsHold, Idle
<1>2. UncontestedTransfersBalance
  <2> SUFFICES ASSUME NEW t \in Transfers, NEW o \in Outlets
               PROVE  ledger[t][o] = Due(t, o)
    BY DEF UncontestedTransfersBalance
  <2>1. ledger[t][o] = [p \in Products |-> 0] /\ status[t] = "NONE"
    BY DEF Init
  <2> QED
    BY <2>1 DEF Due
<1> QED
  BY <1>1, <1>2

(* A request that begins on a transfer somebody works on contests it.      *)
LEMMA BeginReads ==
  ASSUME IInv, ReadsHold, NEW r \in Requests, NEW t \in Transfers, NEW op \in Operations,
         Begin(r, t, op), status[t] = Read(op)
  PROVE  ReadsHold'
<1>1. /\ req[r].op = "idle" /\ req \in [Requests -> ReqState]
      /\ req' = [req EXCEPT ![r] = [op |-> op, transfer |-> t, next |-> 1]]
      /\ contested' = IF Working(t) = {} THEN contested ELSE contested \cup {t}
      /\ status' = status
  BY DEF Begin, IInv, TypeOK
<1>2. req'[r] = [op |-> op, transfer |-> t, next |-> 1]
      /\ \A q \in Requests : q # r => req'[q] = req[q]
  BY <1>1
<1> SUFFICES ASSUME NEW q \in Requests, req'[q].op # "idle", req'[q].transfer \notin contested'
             PROVE  /\ Working(req[q].transfer)' = {q}
                    /\ status'[req'[q].transfer] = Read(req'[q].op)
  BY DEF ReadsHold, Read
<1>3. CASE q = r
  <2>1. Working(t) = {} /\ req'[q].transfer = t
    BY <1>1, <1>2, <1>3
  <2>2. Working(t)' = {r}
    BY <2>1, <1>2 DEF Working
  <2> QED
    BY <1>1, <1>2, <1>3, <2>1, <2>2
<1>4. CASE q # r
  <2>1. req'[q] = req[q] /\ req[q].op # "idle" /\ req[q].transfer \notin contested
    BY <1>1, <1>2, <1>4
  <2>2. Working(req[q].transfer) = {q} /\ status[req[q].transfer] = Read(req[q].op)
    BY <2>1 DEF ReadsHold
  <2>3. req[q].transfer # t
    BY <1>1, <2>1, <2>2
  <2>4. Working(req[q].transfer)' = Working(req[q].transfer)
    BY <1>2, <2>1, <2>2, <2>3 DEF Working
  <2> QED
    BY <1>1, <2>1, <2>2, <2>4
<1> QED
  BY <1>3, <1>4

(* A request that leaves takes nothing from what the others read.          *)
LEMMA LeaveReads ==
  ASSUME IInv, ReadsHold, NEW r \in Requests, req[r].op # "idle", Leave(r), contested' = contested,
         \A t \in Transfers : t # req[r].transfer => status'[t] = status[t]
  PROVE  ReadsHold'
<1>1. req \in [Requests -> ReqState] /\ req' = [req EXCEPT ![r] = Idle]
  BY DEF IInv, TypeOK, Leave
<1>2. req'[r] = Idle /\ \A q \in Requests : q # r => req'[q] = req[q]
  BY <1>1
<1> SUFFICES ASSUME NEW q \in Requests, req'[q].op # "idle", req'[q].transfer \notin contested'
             PROVE  /\ Working(req[q].transfer)' = {q}
                    /\ status'[req'[q].transfer] = Read(req'[q].op)
  BY DEF ReadsHold, Read
<1>3. q # r /\ req'[q] = req[q]
  BY <1>2 DEF Idle
<1>4. /\ Working(req[q].transfer) = {q} /\ status[req[q].transfer] = Read(req[q].op)
      /\ req[q].transfer \in Transfers
  BY <1>3 DEF ReadsHold, IInv, RequestsOnTheirWay, OnItsWay
<1>5. req[q].transfer # req[r].transfer
  BY <1>3, <1>4 DEF Working
<1>6. Working(req[q].transfer)' = {q}
  <2>1. NoTransfer # req[q].transfer
    BY <1>4, NamesAssumption
  <2> QED
    BY <1>2, <1>3, <1>4, <2>1 DEF Working, Idle
<1> QED
  BY <1>3, <1>4, <1>5, <1>6

(* Moving a line changes no status that somebody has read.                 *)
LEMMA MoveReads ==
  ASSUME IInv, ReadsHold, NEW r \in Requests, Move(r)
  PROVE  ReadsHold'
<1>1. /\ req \in [Requests -> ReqState] /\ UNCHANGED <<status, contested>>
      /\ req' = [req EXCEPT ![r] = [op |-> @.op, transfer |-> @.transfer, next |-> @.next + 1]]
  BY DEF Move, IInv, TypeOK
<1>2. \A q \in Requests : req'[q].op = req[q].op /\ req'[q].transfer = req[q].transfer
  BY <1>1 DEF ReqState
<1>3. \A t \in Transfers : Working(t)' = Working(t)
  BY <1>2 DEF Working
<1> QED
  BY <1>1, <1>2, <1>3 DEF ReadsHold, Read, IInv, RequestsOnTheirWay, OnItsWay

(* The commit of a transfer nobody else worked on brings its ledger from   *)
(* what the status read says to what the new status says.                  *)
LEMMA FinishBalance ==
  ASSUME IInv, ReadsHold, UncontestedTransfersBalance, NEW r \in Requests, Finish(r)
  PROVE  UncontestedTransfersBalance'
<1> SUFFICES ASSUME NEW u \in Transfers, u \notin contested', NEW x \in Outlets
             PROVE  ledger'[u][x] = Due(u, x)'
  BY DEF UncontestedTransfersBalance
<1> DEFINE o == Outlet(r)
           t == req[r].transfer
           move == [p \in Products |-> IF req[r].op \in Moving
                                         THEN Sign(req[r].op) * Load(Asked(r))[p] ELSE 0]
<1>1. /\ req[r].op # "idle"
      /\ ledger' = [ledger EXCEPT ![t] = [@ EXCEPT ![o] = [p \in Products |-> ledger[t][o][p] + move[p]]]]
      /\ status' = [status EXCEPT ![t] = Result(req[r].op)]
      /\ UNCHANGED <<plan, contested>>
      /\ status \in [Transfers -> Statuses]
      /\ ledger \in [Transfers -> [Outlets -> [Products -> Int]]]
  BY DEF Finish, IInv, TypeOK
<1>2. ledger[u][x] = Due(u, x)
  BY <1>1 DEF UncontestedTransfersBalance
<1>3. CASE u # t
  <2>1. ledger'[u] = ledger[u] /\ status'[u] = status[u] /\ plan'[u] = plan[u]
    BY <1>1, <1>3
  <2> QED
    BY <2>1, <1>2 DEF Due, Load
<1>4. CASE u = t
  <2>1. /\ t \in Transfers /\ req[r].op \in Operations
        /\ status[t] = Read(req[r].op) /\ status'[t] = Result(req[r].op)
    BY <1>1, <1>4, FinishUncontested
  <2>2. plan[t] \in Plans /\ plan'[t] = plan[t] /\ Asked(r) = plan[t]
    BY <1>1 DEF IInv, RequestsOnTheirWay, OnItsWay, Asked
  <2>3. plan[t].from \in Outlets /\ plan[t].to \in Outlets /\ plan[t].from # plan[t].to
    BY <2>2, PlanType, PlansAssumption
  <2>4. \A p \in Products : Load(plan[t])[p] \in Nat
    BY <2>2, LoadType
  <2>5. \A p \in Products : Due(t, x)[p] = CASE status[t] \in {"IN_TRANSIT", "COMPLETED"} /\ x = plan[t].from -> 0 - Load(plan[t])[p]
                                 [] status[t] = "COMPLETED" /\ x = plan[t].to -> Load(plan[t])[p]
                                 [] OTHER -> 0
    BY DEF Due
  <2> DEFINE L == Load(plan[t])
  <2>6. Due(u, x)' = [p \in Products |->
          CASE status'[t] \in {"IN_TRANSIT", "COMPLETED"} /\ x = plan[t].from -> 0 - L[p]
            [] status'[t] = "COMPLETED" /\ x = plan[t].to -> L[p]
            [] OTHER -> 0]
    <3>1. plan'[u] = plan[t] /\ status'[u] = status'[t]
      BY <1>4, <2>2
    <3> QED
      BY <3>1 DEF Due
  <2>7. o = (IF req[r].op = "receive" THEN plan[t].to ELSE plan[t].from)
    BY <2>2 DEF Outlet, Side
  <2>8. ledger'[t][x] = [p \in Products |-> ledger[t][x][p] + (IF x = o THEN move[p] ELSE 0)]
    <3>1. ledger[t][x] \in [Products -> Int]
      BY <1>1, <2>1
    <3>2. CASE x = o
      BY <1>1, <2>1, <3>2
    <3>3. CASE x # o
      <4>1. ledger'[t][x] = ledger[t][x]
        BY <1>1, <2>1, <3>3
      <4>2. \A p \in Products : ledger[t][x][p] + 0 = ledger[t][x][p]
        BY <3>1
      <4> QED
        BY <3>1, <3>3, <4>1, <4>2
    <3> QED
      BY <3>2, <3>3
  <2>9. \A p \in Products : move[p] = IF req[r].op \in Moving THEN Sign(req[r].op) * L[p] ELSE 0
    BY <2>2
  <2>10. \A p \in Products : ledger[t][x][p] = Due(t, x)[p]
    BY <1>2, <1>4
  <2> HIDE DEF o, t, move, L
  <2>11. ASSUME NEW p \in Products
         PROVE  ledger[t][x][p] + (IF x = o THEN move[p] ELSE 0) =
                  CASE status'[t] \in {"IN_TRANSIT", "COMPLETED"} /\ x = plan[t].from -> 0 - L[p]
                    [] status'[t] = "COMPLETED" /\ x = plan[t].to -> L[p]
                    [] OTHER -> 0
    <3>1. L[p] \in Nat
      BY <2>4 DEF L
    <3>2. ledger[t][x][p] =
            CASE status[t] \in {"IN_TRANSIT", "COMPLETED"} /\ x = plan[t].from -> 0 - L[p]
              [] status[t] = "COMPLETED" /\ x = plan[t].to -> L[p]
              [] OTHER -> 0
      BY <2>5, <2>10 DEF L
    <3>3. move[p] = CASE req[r].op \in {"ship", "approve"} -> 0 - L[p]
                      [] req[r].op \in {"receive", "recall"} -> L[p]
                      [] OTHER -> 0
      BY <2>1, <2>9, <3>1 DEF Moving, Sign, Operations
    <3>4. CASE req[r].op \in {"draft", "ship"}
      BY <3>4, <2>1, <2>3, <2>7, <3>1, <3>2, <3>3 DEF Read, Result
    <3>5. CASE req[r].op \in {"approve", "withdraw"}
      BY <3>5, <2>1, <2>3, <2>7, <3>1, <3>2, <3>3 DEF Read, Result
    <3>6. CASE req[r].op \in {"receive", "recall"}
      BY <3>6, <2>1, <2>3, <2>7, <3>1, <3>2, <3>3 DEF Read, Result
    <3> QED
      BY <2>1, <3>4, <3>5, <3>6 DEF Operations
  <2> QED
    BY <1>4, <2>6, <2>8, <2>11
<1> QED
  BY <1>3, <1>4

(* Only a commit changes ledgers and statuses.                             *)
LEMMA OthersBalance ==
  ASSUME UncontestedTransfersBalance, UNCHANGED <<status, ledger>>, contested \subseteq contested',
         \A t \in Transfers : status[t] # "NONE" => plan'[t] = plan[t]
  PROVE  UncontestedTransfersBalance'
<1> SUFFICES ASSUME NEW t \in Transfers, t \notin contested', NEW o \in Outlets
             PROVE  ledger'[t][o] = Due(t, o)'
  BY DEF UncontestedTransfersBalance
<1>1. ledger[t][o] = Due(t, o)
  BY DEF UncontestedTransfersBalance
<1>2. Due(t, o)' = Due(t, o)
  <2>1. CASE status[t] = "NONE"
    BY <2>1 DEF Due
  <2>2. CASE status[t] # "NONE"
    <3>1. plan'[t] = plan[t] /\ status'[t] = status[t]
      BY <2>2
    <3> QED
      BY <3>1 DEF Due
  <2> QED
    BY <2>1, <2>2
<1> QED
  BY <1>1, <1>2

(* Every step keeps what uncontested requests read and what uncontested    *)
(* transfers have moved.                                                   *)
LEMMA BalanceNext == BalanceInv /\ [Next]_vars => BalanceInv'
<1> SUFFICES ASSUME BalanceInv, [Next]_vars PROVE ReadsHold' /\ UncontestedTransfersBalance'
  BY NextIInv DEF BalanceInv
<1> USE DEF BalanceInv
<1>1. ASSUME NEW r \in Requests, NEW t \in Transfers, NEW op \in Operations,
             Begin(r, t, op), status[t] = Read(op),
             \A u \in Transfers : status[u] # "NONE" => plan'[u] = plan[u]
      PROVE  ReadsHold' /\ UncontestedTransfersBalance'
  <2>1. UNCHANGED <<status, ledger>> /\ contested \subseteq contested'
    BY <1>1 DEF Begin
  <2> QED
    BY <1>1, <2>1, BeginReads, OthersBalance
<1>2. ASSUME NEW r \in Requests, NEW t \in Transfers, NEW asked \in Plans, Create(r, t, asked)
      PROVE  ReadsHold' /\ UncontestedTransfersBalance'
  <2>1. PICK op \in {"draft", "ship"} : Begin(r, t, op)
    BY <1>2 DEF Create
  <2>2. status[t] = Read(op) /\ op \in Operations
    BY <1>2 DEF Create, Read, Operations
  <2>3. \A u \in Transfers : status[u] # "NONE" => plan'[u] = plan[u]
    BY <1>2 DEF Create, IInv, TypeOK
  <2> QED
    BY <1>1, <2>1, <2>2, <2>3
<1>3. ASSUME NEW r \in Requests, NEW t \in Transfers, Approve(r, t) \/ Complete(r, t) \/ Cancel(r, t)
      PROVE  ReadsHold' /\ UncontestedTransfersBalance'
  <2>1. PICK op \in {"approve", "receive", "recall", "withdraw"} :
          Begin(r, t, op) /\ status[t] = Read(op)
    BY <1>3 DEF Approve, Complete, Cancel, Read
  <2>2. op \in Operations /\ plan' = plan
    BY <1>3 DEF Approve, Complete, Cancel, Operations
  <2> QED
    BY <1>1, <2>1, <2>2
<1>4. ASSUME NEW r \in Requests, Move(r)
      PROVE  ReadsHold' /\ UncontestedTransfersBalance'
  BY <1>4, MoveReads, OthersBalance DEF Move
<1>5. ASSUME NEW r \in Requests, Finish(r)
      PROVE  ReadsHold' /\ UncontestedTransfersBalance'
  <2>1. \A t \in Transfers : t # req[r].transfer => status'[t] = status[t]
    BY <1>5 DEF Finish, IInv, TypeOK
  <2> QED
    BY <1>5, <2>1, LeaveReads, FinishBalance DEF Finish
<1>6. ASSUME NEW r \in Requests, req[r].op # "idle", Leave(r),
             UNCHANGED <<stock, status, plan, ledger, contested>>
      PROVE  ReadsHold' /\ UncontestedTransfersBalance'
  BY <1>6, LeaveReads, OthersBalance
<1>7. ASSUME NEW r \in Requests, Refuse(r)
      PROVE  ReadsHold' /\ UncontestedTransfersBalance'
  <2>1. req[r].op # "idle"
    BY <1>7 DEF Refuse, Items, Moving
  <2> QED
    BY <1>6, <1>7, <2>1 DEF Refuse
<1>8. ASSUME NEW r \in Requests, Victim(r)
      PROVE  ReadsHold' /\ UncontestedTransfersBalance'
  <2>1. req[r].op # "idle"
    <3>1. PICK q : WaitsFor(r, q)
      BY <1>8 DEF Victim, InCycle
    <3> QED
      BY <3>1 DEF WaitsFor, Items, Moving
  <2> QED
    BY <1>6, <1>8, <2>1 DEF Victim
<1>9. ASSUME NEW r \in Requests, Abort(r)
      PROVE  ReadsHold' /\ UncontestedTransfersBalance'
  BY <1>6, <1>9 DEF Abort
<1>10. CASE UNCHANGED vars
  <2>1. UncontestedTransfersBalance'
    BY <1>10, OthersBalance DEF vars
  <2>2. ReadsHold'
    BY <1>10 DEF vars, ReadsHold, Working, Read
  <2> QED
    BY <2>1, <2>2
<1> QED
  BY <1>2, <1>3, <1>4, <1>5, <1>7, <1>8, <1>9, <1>10 DEF Next, Open, Work

(* What uncontested requests read stays so until they commit, and their    *)
(* transfers are balanced.                                                 *)
THEOREM TransfersBalanced == Spec => []BalanceInv
<1>1. Init => BalanceInv
  BY InitIInv, BalanceInit DEF BalanceInv
<1> QED
  BY <1>1, BalanceNext, PTL DEF Spec

(* A transfer that no two requests ever worked on at a time has moved      *)
(* exactly the goods its status says, at every outlet: what the statuses   *)
(* read without a lock are enough for as long as requests do not overlap.  *)
THEOREM TransfersBalance == Spec => []UncontestedTransfersBalance
<1>1. BalanceInv => UncontestedTransfersBalance
  BY DEF BalanceInv
<1> QED
  BY <1>1, TransfersBalanced, PTL

(* Such a transfer goes from draft to in transit to completed, or is       *)
(* cancelled before that, and never leaves a final status.                 *)
THEOREM TransfersLifecycle == Spec => UncontestedLifecycle
<1> DEFINE Allowed ==
      \A t \in Transfers \ contested' :
       \/ status'[t] = status[t]
       \/ <<status[t], status'[t]>> \in
            {<<"NONE", "DRAFT">>, <<"NONE", "IN_TRANSIT">>, <<"DRAFT", "IN_TRANSIT">>,
             <<"DRAFT", "CANCELLED">>, <<"IN_TRANSIT", "COMPLETED">>,
             <<"IN_TRANSIT", "CANCELLED">>}
<1>1. BalanceInv /\ [Next]_vars => [Allowed]_vars
  <2> SUFFICES ASSUME BalanceInv, Next PROVE Allowed
    OBVIOUS
  <2>1. CASE status' = status
    BY <2>1
  <2>2. ASSUME NEW r \in Requests, Finish(r)
        PROVE  Allowed
    <3> SUFFICES ASSUME NEW t \in Transfers \ contested', status'[t] # status[t]
                 PROVE  <<status[t], status'[t]>> \in
                          {<<"NONE", "DRAFT">>, <<"NONE", "IN_TRANSIT">>, <<"DRAFT", "IN_TRANSIT">>,
                           <<"DRAFT", "CANCELLED">>, <<"IN_TRANSIT", "COMPLETED">>,
                           <<"IN_TRANSIT", "CANCELLED">>}
      OBVIOUS
    <3>1. t = req[r].transfer /\ contested' = contested
      BY <2>2 DEF Finish, BalanceInv, IInv, TypeOK
    <3>2. req[r].op \in Operations /\ status[t] = Read(req[r].op) /\ status'[t] = Result(req[r].op)
      BY <2>2, <3>1, FinishUncontested DEF BalanceInv
    <3> QED
      BY <3>2 DEF Operations, Read, Result
  <2>3. (\E r \in Requests : Finish(r)) \/ status' = status
    BY DEF Next, Open, Work, Create, Approve, Complete, Cancel, Begin, Move, Refuse, Victim, Abort
  <2> QED
    BY <2>1, <2>2, <2>3
<1> HIDE DEF Allowed
<1>2. Spec => [][Allowed]_vars
  BY <1>1, TransfersBalanced, PTL DEF Spec
<1> QED
  BY <1>2 DEF UncontestedLifecycle, Allowed

-----------------------------------------------------------------------------
(* The units of p in each outlet, and on their way for each transfer.      *)
OnShelf(p) == [o \in Outlets |-> stock[o][p]]
OnRoad(p)  == [t \in Transfers |-> Transit(t, p)]
AtStart(p) == [o \in Outlets |-> InitialStock[o][p]]

Goods(p)   == SumOver(OnShelf(p), Outlets) + SumOver(OnRoad(p), Transfers)
Opening(p) == SumOver(AtStart(p), Outlets)

AllGoods == contested = {} => \A p \in Products : Goods(p) = Opening(p)

ConservedInv == BalanceInv /\ AllGoods

(* The goods of the module are these sums.                                 *)
LEMMA GoodsAreSums == AllGoods => ConservedUnlessContested
<1>1. ASSUME NEW p \in Products
      PROVE  MapThenSumSet(LAMBDA o : stock[o][p], Outlets) = SumOver(OnShelf(p), Outlets)
  BY Zenon DEF OnShelf, SumOver, MapThenSumSet, MapThenFoldSet
<1>2. ASSUME NEW p \in Products
      PROVE  MapThenSumSet(LAMBDA t : Transit(t, p), Transfers) = SumOver(OnRoad(p), Transfers)
  BY Zenon DEF OnRoad, SumOver, MapThenSumSet, MapThenFoldSet
<1>3. ASSUME NEW p \in Products
      PROVE  MapThenSumSet(LAMBDA o : InitialStock[o][p], Outlets) = SumOver(AtStart(p), Outlets)
  BY Zenon DEF AtStart, SumOver, MapThenSumSet, MapThenFoldSet
<1> QED
  BY <1>1, <1>2, <1>3, Zenon DEF AllGoods, ConservedUnlessContested, GoodsConserved, Goods, Opening

(* The two sums after a step.                                              *)
LEMMA GoodsNext ==
  ASSUME NEW p \in Products
  PROVE  Goods(p)' = SumOver(OnShelf(p)', Outlets) + SumOver(OnRoad(p)', Transfers)
BY Zenon DEF Goods, SumOver, MapThenSumSet, MapThenFoldSet

(* The values that are summed are integers.                                *)
LEMMA GoodsTypes ==
  ASSUME IInv, NEW p \in Products
  PROVE  /\ \A o \in Outlets : OnShelf(p)[o] \in Int
         /\ \A t \in Transfers : OnRoad(p)[t] \in Int
         /\ SumOver(OnShelf(p), Outlets) \in Int /\ SumOver(OnRoad(p), Transfers) \in Int
<1>1. \A o \in Outlets : OnShelf(p)[o] \in Int
  BY DEF IInv, TypeOK, OnShelf
<1>2. ASSUME NEW t \in Transfers PROVE OnRoad(p)[t] \in Int
  <2>1. CASE status[t] = "IN_TRANSIT"
    BY <2>1, LoadType DEF IInv, TransfersPlanned, OnRoad, Transit
  <2>2. CASE status[t] # "IN_TRANSIT"
    BY <2>2 DEF OnRoad, Transit
  <2> QED
    BY <2>1, <2>2
<1>3. SumOver(OnShelf(p), Outlets) \in Int
  BY <1>1, SumType, FiniteAssumption
<1>4. SumOver(OnRoad(p), Transfers) \in Int
  BY <1>2, SumType, FiniteAssumption
<1> QED
  BY <1>1, <1>2, <1>3, <1>4

(* At first nothing is on its way.                                         *)
LEMMA GoodsInit == Init => AllGoods
<1> SUFFICES ASSUME Init, NEW p \in Products PROVE Goods(p) = Opening(p)
  BY DEF AllGoods
<1>1. OnShelf(p) = AtStart(p)
  BY DEF Init, OnShelf, AtStart
<1>2. \A t \in Transfers : OnRoad(p)[t] = 0
  BY DEF Init, OnRoad, Transit
<1>3. SumOver(OnRoad(p), Transfers) = 0
  BY <1>2, SumZero, FiniteAssumption
<1>4. SumOver(OnShelf(p), Outlets) \in Int
  BY GoodsTypes, InitIInv
<1> QED
  BY <1>1, <1>3, <1>4 DEF Goods, Opening

(* Only a commit moves goods.                                              *)
LEMMA OthersGoods ==
  ASSUME AllGoods, UNCHANGED <<stock, status>>, contested \subseteq contested',
         \A t \in Transfers : status[t] # "NONE" => plan'[t] = plan[t]
  PROVE  AllGoods'
<1> SUFFICES ASSUME contested' = {}, NEW p \in Products PROVE Goods(p)' = Opening(p)
  BY DEF AllGoods, Opening, AtStart
<1>1. OnShelf(p)' = OnShelf(p)
  BY DEF OnShelf
<1>2. \A t \in Transfers : Transit(t, p)' = Transit(t, p)
  <2> SUFFICES ASSUME NEW t \in Transfers PROVE Transit(t, p)' = Transit(t, p)
    OBVIOUS
  <2>1. CASE status[t] = "IN_TRANSIT"
    <3>1. plan'[t] = plan[t] /\ status'[t] = status[t]
      BY <2>1
    <3> QED
      BY <3>1 DEF Transit
  <2>2. CASE status[t] # "IN_TRANSIT"
    BY <2>2 DEF Transit
  <2> QED
    BY <2>1, <2>2
<1>3. OnRoad(p)' = OnRoad(p)
  BY <1>2 DEF OnRoad
<1>4. Goods(p)' = Goods(p)
  BY <1>1, <1>3, GoodsNext DEF Goods
<1>5. Goods(p) = Opening(p)
  BY DEF AllGoods
<1> QED
  BY <1>4, <1>5

(* The commit of the only request on a transfer: what its outlet loses is  *)
(* on the way afterwards, and what is no longer on the way arrives.        *)
LEMMA FinishGoods ==
  ASSUME IInv, IInv', ReadsHold, AllGoods, NEW r \in Requests, Finish(r)
  PROVE  AllGoods'
<1> SUFFICES ASSUME contested' = {}, NEW p \in Products PROVE Goods(p)' = Opening(p)
  BY DEF AllGoods, Opening, AtStart
<1> DEFINE o == Outlet(r)
           t == req[r].transfer
           L == Load(plan[t])[p]
           move == [q \in Products |-> IF req[r].op \in Moving
                                         THEN Sign(req[r].op) * Load(Asked(r))[q] ELSE 0]
           gain == IF req[r].op \in Moving THEN Sign(req[r].op) * L ELSE 0
<1>1. /\ stock' = [stock EXCEPT ![o] = [q \in Products |-> stock[o][q] + move[q]]]
      /\ status' = [status EXCEPT ![t] = Result(req[r].op)]
      /\ UNCHANGED <<plan, contested>>
      /\ status \in [Transfers -> Statuses]
      /\ stock \in [Outlets -> [Products -> Int]]
  BY DEF Finish, IInv, TypeOK
<1>2. /\ t \in Transfers /\ req[r].op \in Operations
      /\ status[t] = Read(req[r].op) /\ status'[t] = Result(req[r].op)
  BY <1>1, FinishUncontested
<1>3. plan[t] \in Plans /\ Asked(r) = plan[t] /\ req[r].op # "idle"
  BY DEF IInv, RequestsOnTheirWay, OnItsWay, Asked, Finish
<1>4. o \in Outlets
  BY <1>3, PlanType DEF Outlet, Side
<1>5. L \in Nat
  BY <1>3, LoadType
<1>6. move[p] = gain
  BY <1>3
<1>7. OnShelf(p)'[o] - OnShelf(p)[o] = gain /\ \A x \in Outlets \ {o} : OnShelf(p)[x] = OnShelf(p)'[x]
  <2>1. stock'[o][p] = stock[o][p] + move[p] /\ stock[o][p] \in Int
    BY <1>1, <1>4
  <2>2. gain \in Int
    BY <1>5 DEF Sign
  <2>3. OnShelf(p)'[o] = stock'[o][p] /\ OnShelf(p)[o] = stock[o][p]
    BY <1>4 DEF OnShelf
  <2>4. \A x \in Outlets \ {o} : stock'[x] = stock[x]
    BY <1>1
  <2>5. \A x \in Outlets \ {o} : OnShelf(p)[x] = OnShelf(p)'[x]
    BY <2>4 DEF OnShelf
  <2> HIDE DEF gain, move, o
  <2> QED
    BY <2>1, <2>2, <2>3, <2>5, <1>6
<1>8. OnRoad(p)'[t] - OnRoad(p)[t] = 0 - gain /\ \A x \in Transfers \ {t} : OnRoad(p)[x] = OnRoad(p)'[x]
  <2>1. OnRoad(p)[t] = IF Read(req[r].op) = "IN_TRANSIT" THEN L ELSE 0
    BY <1>2 DEF OnRoad, Transit
  <2>2. OnRoad(p)'[t] = IF Result(req[r].op) = "IN_TRANSIT" THEN L ELSE 0
    <3>1. OnRoad(p)'[t] = IF status'[t] = "IN_TRANSIT" THEN Load(plan'[t])[p] ELSE 0
      BY <1>2 DEF OnRoad, Transit, Load
    <3>2. plan'[t] = plan[t]
      BY <1>1
    <3> QED
      BY <1>2, <3>1, <3>2
  <2>3. \A x \in Transfers \ {t} : status'[x] = status[x] /\ plan'[x] = plan[x]
    BY <1>1
  <2>4. \A x \in Transfers \ {t} : OnRoad(p)[x] = OnRoad(p)'[x]
    BY <2>3 DEF OnRoad, Transit, Load
  <2>5. gain = CASE req[r].op \in {"ship", "approve"} -> 0 - L
                 [] req[r].op \in {"receive", "recall"} -> L
                 [] OTHER -> 0
    BY <1>2, <1>5 DEF Moving, Sign, Operations
  <2> HIDE DEF gain, L, t
  <2> QED
    BY <2>1, <2>2, <2>4, <2>5, <1>2, <1>5 DEF Read, Result, Operations
<1> HIDE DEF gain, move, o, t, L
<1>9. gain \in Int
  BY <1>5 DEF gain, Sign
<1>10. /\ \A x \in Outlets : OnShelf(p)[x] \in Int /\ OnShelf(p)'[x] \in Int
       /\ \A x \in Transfers : OnRoad(p)[x] \in Int /\ OnRoad(p)'[x] \in Int
       /\ SumOver(OnShelf(p), Outlets) \in Int /\ SumOver(OnRoad(p), Transfers) \in Int
  <2>1. \A x \in Outlets : OnShelf(p)'[x] \in Int
    BY DEF IInv, TypeOK, OnShelf
  <2>2. \A x \in Transfers \ {t} : OnRoad(p)'[x] \in Int
    BY <1>8, GoodsTypes
  <2>3. OnRoad(p)'[t] \in Int
    <3>1. OnRoad(p)'[t] = IF status'[t] = "IN_TRANSIT" THEN Load(plan'[t])[p] ELSE 0
      BY <1>2 DEF OnRoad, Transit, Load
    <3>2. Load(plan'[t])[p] = L
      BY <1>1 DEF L
    <3> QED
      BY <1>5, <3>1, <3>2
  <2> QED
    BY <2>1, <2>2, <2>3, GoodsTypes
<1>11. SumOver(OnShelf(p)', Outlets) = SumOver(OnShelf(p), Outlets) + (OnShelf(p)'[o] - OnShelf(p)[o])
  BY <1>4, <1>7, <1>10, SumUpdate, FiniteAssumption
<1>12. SumOver(OnRoad(p)', Transfers) = SumOver(OnRoad(p), Transfers) + (OnRoad(p)'[t] - OnRoad(p)[t])
  BY <1>2, <1>8, <1>10, SumUpdate, FiniteAssumption
<1>13. Goods(p) = Opening(p)
  BY <1>1 DEF AllGoods
<1> QED
  BY <1>7, <1>8, <1>9, <1>10, <1>11, <1>12, <1>13, GoodsNext DEF Goods

(* As long as no transfer was worked on twice at a time, every step keeps  *)
(* the goods of the tenant.                                                *)
LEMMA GoodsStep == ConservedInv /\ [Next]_vars => ConservedInv'
<1> SUFFICES ASSUME ConservedInv, [Next]_vars PROVE AllGoods'
  BY BalanceNext DEF ConservedInv
<1> USE DEF ConservedInv, BalanceInv
<1>1. ASSUME NEW r \in Requests, NEW t \in Transfers, NEW asked \in Plans, Create(r, t, asked)
      PROVE  AllGoods'
  <2>1. \A u \in Transfers : status[u] # "NONE" => plan'[u] = plan[u]
    BY <1>1 DEF Create, IInv, TypeOK
  <2> QED
    BY <1>1, <2>1, OthersGoods DEF Create, Begin
<1>2. ASSUME NEW r \in Requests, NEW t \in Transfers, Approve(r, t) \/ Complete(r, t) \/ Cancel(r, t)
      PROVE  AllGoods'
  BY <1>2, OthersGoods DEF Approve, Complete, Cancel, Begin
<1>3. ASSUME NEW r \in Requests, Finish(r)
      PROVE  AllGoods'
  BY <1>3, FinishGoods, NextIInv
<1>4. ASSUME NEW r \in Requests, Move(r) \/ Refuse(r) \/ Victim(r) \/ Abort(r)
      PROVE  AllGoods'
  BY <1>4, OthersGoods DEF Move, Refuse, Victim, Abort
<1>5. CASE UNCHANGED vars
  BY <1>5, OthersGoods DEF vars
<1> QED
  BY <1>1, <1>2, <1>3, <1>4, <1>5 DEF Next, Open, Work

(* Until two requests work on one transfer at a time, the goods in all     *)
(* outlets and on their way together are what they were at the start: a    *)
(* transfer neither loses nor creates goods, whatever fails in between.    *)
THEOREM TransfersConserve == Spec => []ConservedUnlessContested
<1>1. Init => ConservedInv
  BY InitIInv, BalanceInit, GoodsInit DEF ConservedInv, BalanceInv
<1>2. ConservedInv => ConservedUnlessContested
  BY GoodsAreSums DEF ConservedInv
<1> QED
  BY <1>1, <1>2, GoodsStep, PTL DEF Spec
=============================================================================
