----------------------------- MODULE StockMoves -----------------------------
(***************************************************************************)
(* How documents (purchase orders, stock mutations, sales returns) move    *)
(* the stock of an outlet.  A write request reads its document without a   *)
(* lock, then runs one READ COMMITTED transaction that moves the goods     *)
(* line by line and writes a ledger entry for each line.  Two ways of      *)
(* moving exist in the code:                                               *)
(*   - incrementOutletStock and decrementOutletStock update the row first  *)
(*     and take stockBefore and stockAfter from the row they have locked;  *)
(*   - receivePO and createSalesReturn read the row, and upsert it after.  *)
(* Rows of other outlets are rows nothing here touches.                    *)
(***************************************************************************)
EXTENDS Integers, Sequences, FiniteSets, FiniteSetsExt

CONSTANTS
  Products, Requests,
  Polls,                      \* status polls that may run at a time
  Orders, Mutations, Sales,   \* purchase orders, stock mutations, sales
  NoDocument,
  InitialStock                \* [Products -> Nat]

Documents == Orders \cup Mutations \cup Sales
Line      == [product : Products, qty : Int]

ASSUME DocumentsAssumption ==
  /\ IsFiniteSet(Documents) /\ NoDocument \notin Documents
  /\ Orders \cap Mutations = {} /\ Orders \cap Sales = {} /\ Mutations \cap Sales = {}
ASSUME PollsAssumption == IsFiniteSet(Polls)
ASSUME StockAssumption == InitialStock \in [Products -> Nat]

VARIABLES
  stock,       \* outlet_stocks of the outlet, committed
  status,      \* [Documents -> status]
  ledger,      \* [Documents -> [Products -> Int]]: sum of its entries, committed
  latest,      \* [Products -> Int]: stockAfter of the row's latest entry
  req,         \* [Requests -> ReqState]
  poll,        \* [Polls -> PollState]: the polls of SalesReturns
  contested,   \* documents that two requests worked on at a time (history)
  crossed      \* rows that moved between another's read or update of them and
               \* its commit or its ledger entry (history)

moveVars == <<stock, status, ledger, latest, req, contested, crossed>>

-----------------------------------------------------------------------------
NotSeen == [seen |-> FALSE, level |-> 0]

(* next = 0: the status has still to be written; lines before next are     *)
(* moved.  after[p] is the stockAfter of the request's last entry for p.   *)
Idle ==
  [op |-> "idle", doc |-> NoDocument, lines |-> <<>>, next |-> 1,
   read |-> NotSeen, after |-> [p \in Products |-> 0]]

(* The operations that read a row before they lock it.                     *)
Careless == {"receive", "receive_apart", "return"}

(* What a list of lines moves of each product.                             *)
Total(lines) == [p \in Products |->
  MapThenSumSet(LAMBDA i : IF lines[i].product = p THEN lines[i].qty ELSE 0, DOMAIN lines)]

Busy(r)     == req[r].op # "idle"
Working(d)  == {r \in Requests : req[r].doc = d}
AtLine(r)   == req[r].next \in DOMAIN req[r].lines
Current(r)  == req[r].lines[req[r].next]
Done(r)     == SubSeq(req[r].lines, 1, req[r].next - 1)
Touches(r)  == {req[r].lines[i].product : i \in DOMAIN req[r].lines}

(* A purchase order without an outlet writes ledger entries and moves no   *)
(* stock.                                                                  *)
Apart(r) == req[r].op = "receive_apart"

(* The rows r has updated in its transaction and keeps locked.             *)
Holds(r, p) == ~Apart(r) /\ \E i \in 1..(req[r].next - 1) : req[r].lines[i].product = p

(* receivePO writes the cost price of a product before it reads the stock: *)
(* the products whose row in products it keeps locked.                     *)
Prices(r, p) ==
  /\ req[r].op \in {"receive", "receive_apart"}
  /\ \/ \E i \in 1..(req[r].next - 1) : req[r].lines[i].product = p
     \/ req[r].read.seen /\ Current(r).product = p

(* r has read the row of p and not locked it yet.                          *)
Watches(r, p) == ~Apart(r) /\ req[r].read.seen /\ Current(r).product = p

(* A poll has put goods back on the row of p and committed it, and its     *)
(* ledger entry has still to be written.                                   *)
Unlogged(p) == \E k \in Polls : p \in poll[k].open

RowFree(r, p)   == \A q \in Requests \ {r} : ~Holds(q, p)
PriceFree(r, p) ==
  req[r].op \in {"receive", "receive_apart"} => \A q \in Requests \ {r} : ~Prices(q, p)

(* Fault: a second line for a product does not see the first.              *)
LevelCommitted(r, p) == stock[p]

(* What r reads of a row: the committed level and its own moves.           *)
Level(r, p) == stock[p] + Total(Done(r))[p]

-----------------------------------------------------------------------------
MovesInit ==
  /\ stock = InitialStock
  /\ latest = InitialStock
  /\ ledger = [d \in Documents |-> [p \in Products |-> 0]]
  /\ req = [r \in Requests |-> Idle]
  /\ contested = {}
  /\ crossed = {}

(* A request has read document d and starts on it; from = 0 when its       *)
(* transaction writes the status first.                                    *)
Begin(r, d, op, lines, from) ==
  /\ ~Busy(r)
  /\ req' = [req EXCEPT ![r] = [Idle EXCEPT !.op = op, !.doc = d, !.lines = lines, !.next = from]]
  /\ contested' = IF Working(d) = {} THEN contested ELSE contested \cup {d}
  /\ UNCHANGED <<stock, status, ledger, latest, crossed>>

(* The unlocked read of stockBefore.                                       *)
Look(r) ==
  LET p == Current(r).product IN
  /\ req[r].op \in Careless /\ AtLine(r) /\ ~req[r].read.seen
  /\ PriceFree(r, p)
  /\ req' = [req EXCEPT ![r] = [@ EXCEPT !.read =
               [seen |-> TRUE, level |-> IF Apart(r) THEN 0 ELSE Level(r, p)]]]
  /\ crossed' = IF ~Apart(r) /\ ~RowFree(r, p) THEN crossed \cup {p} ELSE crossed
  /\ UNCHANGED <<stock, status, ledger, latest, contested>>

(* Fault: the decrement does not ask for enough stock.                     *)
EnoughAlways(r) == TRUE

Enough(r) == req[r].op \in Careless \/ Level(r, Current(r).product) + Current(r).qty >= 0

(* The current line is moved, and its entry names this level.              *)
Moved(r, level) ==
  [req[r] EXCEPT !.next = @ + 1, !.read = NotSeen, !.after[Current(r).product] = level]

(* The row is updated, once it is free, and the ledger entry written with  *)
(* the level that was read: before the update, or from the locked row.     *)
Put(r) ==
  LET p      == Current(r).product
      before == IF req[r].op \in Careless THEN req[r].read.level ELSE Level(r, p)
  IN
  /\ AtLine(r) /\ (req[r].op \in Careless => req[r].read.seen)
  /\ Apart(r) \/ RowFree(r, p)
  /\ Enough(r)
  /\ req' = [req EXCEPT ![r] = Moved(r, before + Current(r).qty)]
  /\ crossed' = IF ~Apart(r) /\ \E q \in Requests \ {r} : Watches(q, p)
                  THEN crossed \cup {p} ELSE crossed
  /\ UNCHANGED <<stock, status, ledger, latest, contested>>

(* The transaction is over and its locks are released.                     *)
Leave(r) == req' = [req EXCEPT ![r] = Idle]

(* decrementOutletStock finds too little stock and throws: rollback.       *)
Refuse(r) ==
  /\ AtLine(r) /\ ~Enough(r) /\ RowFree(r, Current(r).product)
  /\ Leave(r)
  /\ UNCHANGED <<stock, status, ledger, latest, contested, crossed>>

(* What the transaction moved is on the rows now.                          *)
Crosses(r) == {p \in Touches(r) : ~Apart(r) /\ Unlogged(p)}

(* Fault: an order without an outlet moves the stock as well.              *)
CommitApart(r, result) ==
  LET d     == req[r].doc
      goods == Total(req[r].lines)
  IN
  /\ Busy(r) /\ req[r].next = Len(req[r].lines) + 1
  /\ status' = [status EXCEPT ![d] = result]
  /\ ledger' = [ledger EXCEPT ![d] = [p \in Products |-> @[p] + goods[p]]]
  /\ stock' = [p \in Products |-> stock[p] + goods[p]]
  /\ latest' = [p \in Products |-> IF p \in Touches(r) THEN req[r].after[p] ELSE latest[p]]
  /\ crossed' = crossed \cup Crosses(r)
  /\ Leave(r)
  /\ UNCHANGED contested

(* Every line is moved: the transaction commits with this status.          *)
Commit(r, result) ==
  LET d     == req[r].doc
      goods == Total(req[r].lines)
  IN
  /\ Busy(r) /\ req[r].next = Len(req[r].lines) + 1
  /\ status' = [status EXCEPT ![d] = result]
  /\ ledger' = [ledger EXCEPT ![d] = [p \in Products |-> @[p] + goods[p]]]
  /\ IF Apart(r)
       THEN UNCHANGED <<stock, latest>>
       ELSE /\ stock' = [p \in Products |-> stock[p] + goods[p]]
            /\ latest' = [p \in Products |-> IF p \in Touches(r) THEN req[r].after[p] ELSE latest[p]]
  /\ crossed' = crossed \cup Crosses(r)
  /\ Leave(r)
  /\ UNCHANGED contested

(* A timeout, a lost connection, a deadlock the database breaks or a crash *)
(* rolls the transaction back.                                             *)
Abort(r) ==
  /\ Busy(r)
  /\ Leave(r)
  /\ UNCHANGED <<stock, status, ledger, latest, contested, crossed>>

MoveStep(r) == Look(r) \/ Put(r) \/ Refuse(r) \/ Abort(r)

-----------------------------------------------------------------------------
Operations == Careless \cup {"cancel", "approve", "adjust", "reject"}

ReqState ==
  [op : Operations \cup {"idle"}, doc : Documents \cup {NoDocument}, lines : Seq(Line),
   next : Nat, read : [seen : BOOLEAN, level : Int], after : [Products -> Int]]

MovesTypeOK ==
  /\ stock \in [Products -> Int]
  /\ latest \in [Products -> Int]
  /\ ledger \in [Documents -> [Products -> Int]]
  /\ req \in [Requests -> ReqState]
  /\ contested \subseteq Documents
  /\ crossed \subseteq Products
=============================================================================
