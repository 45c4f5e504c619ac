---------------------------- MODULE SalesReturns ----------------------------
(* Returns of sold goods, and the status polls that settle or void a sale. *)
(* A poll is a GET request: each of its statements commits by itself, and  *)
(* it acts on a status that it read before it asked Midtrans.              *)
EXTENDS StockMoves

CONSTANTS
  Bought,       \* [Sales -> [Products -> Nat]]
  ReturnLists   \* the lists of lines a cashier may enter

ASSUME BoughtAssumption ==
  Bought \in [Sales -> [Products -> Nat]] /\ \A s \in Sales : \E p \in Products : Bought[s][p] > 0
ASSUME ReturnListsAssumption ==
  ReturnLists \subseteq {l \in Seq(Line) \ {<<>>} : \A i \in DOMAIN l : l[i].qty > 0}

VARIABLES
  returned,   \* [Sales -> [Products -> Nat]]: sales_return_items, committed
  failed,     \* sales whose payment Midtrans reports as expired, cancelled or
              \* denied, once it is decided; those of the others settle
  listed,     \* sales with a return that names a product twice (history)
  unpaid,     \* sales that were returned while PENDING (history)
  voids,      \* [Sales -> Nat]: how often the sale was voided (history)
  torn        \* rows that a poll put goods back on without the entry (history)

marks      == <<listed, unpaid>>
pollVars   == <<poll, failed, voids, torn>>
returnVars == <<returned, marks, pollVars>>

NoPoll == [step |-> "idle", sale |-> NoDocument, left |-> {}, open |-> {}, level |-> 0]

ReturnsInit ==
  /\ returned = [s \in Sales |-> [p \in Products |-> 0]]
  /\ listed = {} /\ unpaid = {} /\ torn = {}
  /\ poll = [k \in Polls |-> NoPoll]
  /\ failed \in SUBSET {s \in Sales : status[s] = "PENDING"}
  /\ voids = [s \in Sales |-> 0]

Twice(lines) == \E i, j \in DOMAIN lines : i # j /\ lines[i].product = lines[j].product

(* Fault: earlier returns are not looked at.                               *)
ReturnAgain(r, s, lines) ==
  /\ status[s] # "VOID"
  /\ \A i \in DOMAIN lines : lines[i].qty <= Bought[s][lines[i].product]
  /\ Begin(r, s, "return", lines, 1)
  /\ listed' = IF Twice(lines) THEN listed \cup {s} ELSE listed
  /\ unpaid' = IF status[s] = "PENDING" THEN unpaid \cup {s} ELSE unpaid
  /\ UNCHANGED <<returned, pollVars>>

(* createSalesReturn checks each line against what was bought and what     *)
(* earlier returns have taken back.                                        *)
Return(r, s, lines) ==
  /\ status[s] # "VOID"
  /\ \A i \in DOMAIN lines : lines[i].qty <= Bought[s][lines[i].product] - returned[s][lines[i].product]
  /\ Begin(r, s, "return", lines, 1)
  /\ listed' = IF Twice(lines) THEN listed \cup {s} ELSE listed
  /\ unpaid' = IF status[s] = "PENDING" THEN unpaid \cup {s} ELSE unpaid
  /\ UNCHANGED <<returned, pollVars>>

FinishReturn(r) ==
  LET s == req[r].doc IN
  /\ req[r].op = "return"
  /\ Commit(r, status[s])
  /\ returned' = [returned EXCEPT ![s] = [p \in Products |-> @[p] + Total(req[r].lines)[p]]]
  /\ UNCHANGED <<marks, pollVars>>

-----------------------------------------------------------------------------
Become(k, value) == poll' = [poll EXCEPT ![k] = value]

(* getTransactionForStatusPolling reads the sale PENDING and Midtrans has  *)
(* decided; an order that is still open leaves everything as it is.        *)
StartPoll(k, s) ==
  /\ poll[k].step = "idle" /\ status[s] = "PENDING"
  /\ Become(k, [NoPoll EXCEPT !.step = IF s \in failed THEN "voiding" ELSE "settling", !.sale = s])
  /\ UNCHANGED <<stock, status, ledger, latest, req, contested, crossed,
                 returned, failed, marks, voids, torn>>

(* completeQrisSettlement writes COMPLETED, whatever the status is now.    *)
SettleSale(k) ==
  /\ poll[k].step = "settling"
  /\ status' = [status EXCEPT ![poll[k].sale] = "COMPLETED"]
  /\ Become(k, NoPoll)
  /\ UNCHANGED <<stock, ledger, latest, req, contested, crossed,
                 returned, failed, marks, voids, torn>>

(* voidQrisTransaction writes VOID, whatever the status is now, and goes   *)
(* on with the sale's items.                                               *)
VoidSale(k) ==
  LET s == poll[k].sale IN
  /\ poll[k].step = "voiding"
  /\ status' = [status EXCEPT ![s] = "VOID"]
  /\ voids' = [voids EXCEPT ![s] = @ + 1]
  /\ Become(k, [poll[k] EXCEPT !.step = "back", !.left = {p \in Products : Bought[s][p] > 0}])
  /\ UNCHANGED <<stock, ledger, latest, req, contested, crossed,
                 returned, failed, marks, torn>>

(* incrementOutletStock of one item, once its row is free: it commits and  *)
(* tells the level it found.                                               *)
Restock(k, p) ==
  LET level == stock[p] + Bought[poll[k].sale][p] IN
  /\ poll[k].step = "back" /\ poll[k].open = {} /\ p \in poll[k].left
  /\ \A q \in Requests : ~Holds(q, p)
  /\ stock' = [stock EXCEPT ![p] = level]
  /\ Become(k, [poll[k] EXCEPT !.left = @ \ {p}, !.open = {p}, !.level = level])
  /\ crossed' = IF Unlogged(p) \/ \E q \in Requests : Watches(q, p)
                  THEN crossed \cup {p} ELSE crossed
  /\ UNCHANGED <<status, ledger, latest, req, contested, returned, failed, marks, voids, torn>>

(* The RETURN row of that item, with the level told before; then the next  *)
(* item.                                                                   *)
LogReturn(k) ==
  LET s == poll[k].sale
      p == CHOOSE x \in poll[k].open : TRUE
  IN
  /\ poll[k].step = "back" /\ poll[k].open # {}
  /\ ledger' = [ledger EXCEPT ![s][p] = @ + Bought[s][p]]
  /\ latest' = [latest EXCEPT ![p] = poll[k].level]
  /\ Become(k, IF poll[k].left = {} THEN NoPoll ELSE [poll[k] EXCEPT !.open = {}])
  /\ UNCHANGED <<stock, status, req, contested, crossed, returned, failed, marks, voids, torn>>

(* A statement of the poll fails (no free connection, a row that stays     *)
(* locked) or the process stops: what it committed stays.                  *)
Die(k) ==
  /\ poll[k].step # "idle"
  /\ torn' = torn \cup poll[k].open
  /\ Become(k, NoPoll)
  /\ UNCHANGED <<stock, status, ledger, latest, req, contested, crossed,
                 returned, failed, marks, voids>>

PollStep(k) ==
  \/ \E s \in Sales : StartPoll(k, s)
  \/ \E p \in Products : Restock(k, p)
  \/ SettleSale(k) \/ VoidSale(k) \/ LogReturn(k) \/ Die(k)

ReturnStep ==
  \/ \E r \in Requests, s \in Sales, lines \in ReturnLists : Return(r, s, lines)
  \/ \E r \in Requests : FinishReturn(r)
  \/ \E k \in Polls : PollStep(k)

-----------------------------------------------------------------------------
PollState ==
  [step : {"idle", "settling", "voiding", "back"}, sale : Sales \cup {NoDocument},
   left : SUBSET Products, open : SUBSET Products, level : Int]

ReturnsTypeOK ==
  /\ returned \in [Sales -> [Products -> Nat]]
  /\ poll \in [Polls -> PollState]
  /\ failed \subseteq Sales /\ listed \subseteq Sales /\ unpaid \subseteq Sales
  /\ voids \in [Sales -> Nat] /\ torn \subseteq Products
=============================================================================
