-------------------------- MODULE InventoryProofs --------------------------
(***************************************************************************)
(* Theorems about Inventory for every set of products, documents and       *)
(* requests, every initial stock, and every list of lines.                 *)
(***************************************************************************)
EXTENDS Inventory, Sums

Nothing == [p \in Products |-> 0]

(* What line i of a list moves of product p.                               *)
Part(lines, p) ==
  [i \in DOMAIN lines |-> IF lines[i].product = p THEN lines[i].qty ELSE 0]

-----------------------------------------------------------------------------
(* What a list of lines moves of each product.                             *)
LEMMA TotalIsSum ==
  ASSUME NEW lines, NEW p \in Products
  PROVE  Total(lines)[p] = SumOver(Part(lines, p), DOMAIN lines)
BY DEF Total, Part, SumOver, MapThenSumSet, MapThenFoldSet

(* A list has finitely many lines, and each moves an integer.              *)
LEMMA LinesFinite ==
  ASSUME NEW lines \in Seq(Line), NEW p \in Products
  PROVE  /\ IsFiniteSet(DOMAIN lines)
         /\ \A i \in DOMAIN lines : Part(lines, p)[i] \in Int
<1>1. DOMAIN lines = 1..Len(lines) /\ Len(lines) \in Nat
  OBVIOUS
<1>2. IsFiniteSet(1..Len(lines))
  BY <1>1, FS_Interval
<1>3. \A i \in DOMAIN lines : lines[i] \in Line
  OBVIOUS
<1> QED
  BY <1>1, <1>2, <1>3 DEF Part, Line

(* A list of lines moves an integer of each product.                       *)
LEMMA TotalType ==
  ASSUME NEW lines \in Seq(Line)
  PROVE  Total(lines) \in [Products -> Int]
<1>1. ASSUME NEW p \in Products PROVE Total(lines)[p] \in Int
  <2>1. SumOver(Part(lines, p), DOMAIN lines) \in Int
    BY LinesFinite, SumType
  <2> QED
    BY <2>1, TotalIsSum
<1>2. Total(lines) = [p \in Products |-> Total(lines)[p]]
  BY DEF Total
<1> QED
  BY <1>1, <1>2

(* No lines move nothing.                                                  *)
LEMMA TotalEmpty == Total(<<>>) = Nothing
<1>1. ASSUME NEW p \in Products PROVE Total(<<>>)[p] = 0
  <2>1. DOMAIN <<>> = {}
    OBVIOUS
  <2> QED
    BY <2>1, TotalIsSum, SumEmpty
<1>2. Total(<<>>) = [p \in Products |-> Total(<<>>)[p]]
  BY DEF Total
<1> QED
  BY <1>1, <1>2 DEF Nothing

(* Goods that no line names do not move.                                   *)
LEMMA TotalUnnamed ==
  ASSUME NEW lines \in Seq(Line), NEW p \in Products, \A i \in DOMAIN lines : lines[i].product # p
  PROVE  Total(lines)[p] = 0
<1>1. \A i \in DOMAIN lines : Part(lines, p)[i] = 0
  BY DEF Part
<1>2. SumOver(Part(lines, p), DOMAIN lines) = 0
  BY <1>1, LinesFinite, SumZero
<1> QED
  BY <1>2, TotalIsSum

(* Lines of positive quantities move at least what each of them moves.     *)
LEMMA TotalPositive ==
  ASSUME NEW lines \in Seq(Line), NEW p \in Products, \A i \in DOMAIN lines : lines[i].qty > 0
  PROVE  Total(lines)[p] >= 0
<1>1. \A i \in DOMAIN lines : Part(lines, p)[i] \in Nat
  <2>1. \A i \in DOMAIN lines : lines[i] \in Line
    OBVIOUS
  <2> QED
    BY <2>1 DEF Part, Line
<1>2. SumOver(Part(lines, p), DOMAIN lines) >= 0
  BY <1>1, LinesFinite, SumBounds
<1> QED
  BY <1>2, TotalIsSum

(* One more line moves its quantity.                                       *)
LEMMA TotalNext ==
  ASSUME NEW lines \in Seq(Line), NEW n \in DOMAIN lines, NEW p \in Products
  PROVE  Total(SubSeq(lines, 1, n))[p]
           = Total(SubSeq(lines, 1, n - 1))[p] + IF lines[n].product = p THEN lines[n].qty ELSE 0
<1> DEFINE long  == SubSeq(lines, 1, n)
           short == SubSeq(lines, 1, n - 1)
<1>1. n \in Nat /\ n >= 1 /\ n <= Len(lines)
  OBVIOUS
<1>2. long \in Seq(Line) /\ DOMAIN long = 1..n /\ \A i \in 1..n : long[i] = lines[i]
  BY <1>1
<1>3. short \in Seq(Line) /\ DOMAIN short = 1..(n - 1) /\ \A i \in 1..(n - 1) : short[i] = lines[i]
  BY <1>1
<1> HIDE DEF long, short
<1>4. DOMAIN long = DOMAIN short \cup {n} /\ n \notin DOMAIN short
  BY <1>1, <1>2, <1>3
<1>5. \A i \in DOMAIN short : Part(long, p)[i] = Part(short, p)[i]
  BY <1>1, <1>2, <1>3 DEF Part
<1>6. IsFiniteSet(DOMAIN short) /\ \A i \in DOMAIN long : Part(long, p)[i] \in Int
  BY <1>2, <1>3, LinesFinite
<1>7. SumOver(Part(long, p), DOMAIN long) = SumOver(Part(long, p), DOMAIN short) + Part(long, p)[n]
  BY <1>4, <1>6, SumAdd
<1>8. SumOver(Part(long, p), DOMAIN short) = SumOver(Part(short, p), DOMAIN short)
  BY <1>5, <1>6, SumSame
<1>9. Part(long, p)[n] = IF lines[n].product = p THEN lines[n].qty ELSE 0
  BY <1>1, <1>2 DEF Part
<1> QED
  BY <1>7, <1>8, <1>9, TotalIsSum DEF long, short

(* A list that names no product twice moves of each what its line says.    *)
LEMMA TotalOnce ==
  ASSUME NEW lines \in Seq(Line), ~Twice(lines), NEW i \in DOMAIN lines
  PROVE  Total(lines)[lines[i].product] = lines[i].qty
<1> DEFINE p == lines[i].product
<1>1. p \in Products /\ lines[i].qty \in Int
  <2>1. lines[i] \in Line
    OBVIOUS
  <2> QED
    BY <2>1 DEF Line
<1>2. \A j \in DOMAIN lines \ {i} : Part(lines, p)[j] = 0
  BY DEF Twice, Part
<1>3. Part(lines, p)[i] = lines[i].qty
  BY DEF Part
<1> HIDE DEF p
<1>4. IsFiniteSet(DOMAIN lines \ {i})
  BY <1>1, LinesFinite, FS_RemoveElement
<1>5. SumOver(Part(lines, p), DOMAIN lines \ {i}) = 0
  BY <1>2, <1>4, SumZero
<1>6. SumOver(Part(lines, p), DOMAIN lines) = Part(lines, p)[i] + 0
  BY <1>1, <1>5, LinesFinite, SumTakeOut
<1> QED
  BY <1>1, <1>3, <1>6, TotalIsSum DEF p

(* A single line.                                                          *)
LEMMA TotalOne ==
  ASSUME NEW l \in Line, NEW p \in Products
  PROVE  Total(<<l>>)[p] = IF l.product = p THEN l.qty ELSE 0
<1>1. <<l>> \in Seq(Line) /\ DOMAIN <<l>> = {1} /\ <<l>>[1] = l
  OBVIOUS
<1>2. CASE l.product = p
  BY <1>1, <1>2, TotalOnce DEF Twice
<1>3. CASE l.product # p
  BY <1>1, <1>3, TotalUnnamed
<1> QED
  BY <1>2, <1>3

-----------------------------------------------------------------------------
(* The inductive invariant.                                                *)
OneStatusEach == status = [d \in Documents |-> status[d]]

(* What a request works on, and with which lines.                          *)
Sane(r) ==
  LET q == req[r] IN
  /\ q.op = "idle" => q = Idle
  /\ q.op \in {"receive", "receive_apart", "cancel"} => q.doc \in Orders /\ status[q.doc] # "NONE"
  /\ q.op \in {"receive", "receive_apart"} => q.lines = Ordered[q.doc]
  /\ q.op = "receive" => q.doc \in placed
  /\ q.op = "receive_apart" => q.doc \notin placed
  /\ q.op \in {"adjust", "approve", "reject"} => q.doc \in Mutations
  /\ q.op \in {"adjust", "approve"} => q.lines = <<Delta[q.doc]>>
  /\ q.op \in {"cancel", "reject"} => q.lines = <<>>
  /\ q.op = "return" => q.doc \in Sales /\ q.lines \in ReturnLists
  /\ q.next <= Len(q.lines) + 1
  /\ q.read.seen => q.op \in Careless /\ q.next \in DOMAIN q.lines

RequestsSane == \A r \in Requests : Sane(r)

(* Two requests never keep one row locked.                                 *)
RowsExclude == \A r, q \in Requests, p \in Products : Holds(r, p) /\ Holds(q, p) => r = q

(* A row that one request has read and another moves is a crossed one.     *)
WatchedRowsCross ==
  \A r, q \in Requests, p \in Products : r # q /\ Watches(r, p) /\ Holds(q, p) => p \in crossed

(* Who keeps a row locked has not taken more than there is.                *)
HeldRowsSuffice == \A r \in Requests, p \in Products : Holds(r, p) => Level(r, p) >= 0

(* What a request has read or written of a row that nobody crossed holds.  *)
LevelsKnown ==
  \A r \in Requests, p \in Products \ crossed :
    /\ Holds(r, p) => req[r].after[p] = Level(r, p)
    /\ Watches(r, p) => req[r].read.level = Level(r, p)

(* A row that two polls have put goods back on, and not logged, is crossed. *)
BacksCross ==
  \A k, j \in Polls, p \in Products : k # j /\ p \in poll[k].open /\ p \in poll[j].open => p \in crossed

(* What a poll was told of a row that nobody crossed holds.                *)
BacksKnown == \A k \in Polls, p \in Products \ crossed : p \in poll[k].open => poll[k].level = stock[p]

(* The part of the invariant that is about rows, and who works on them.    *)
Rows ==
  /\ RowsExclude /\ WatchedRowsCross /\ BacksCross
  /\ StockNeverNegative /\ HeldRowsSuffice
  /\ LevelsKnown /\ BacksKnown /\ LatestEntryIsStock

OneAtATime ==
  \A r, q \in Requests : Busy(r) /\ r # q /\ req[q].doc = req[r].doc => req[r].doc \in contested

FoundAt(op) ==
  IF op \in {"receive", "receive_apart"} THEN {"DRAFT"}
  ELSE IF op = "cancel" THEN {"DRAFT", "CANCELLED"}
  ELSE IF op = "adjust" THEN {"NONE"} ELSE {"PENDING"}

(* The status a request has found stands while it works alone.             *)
StatusStands ==
  \A r \in Requests :
    req[r].doc \in (Orders \cup Mutations) \ contested => status[req[r].doc] \in FoundAt(req[r].op)

UnwrittenIsUnmoved == \A d \in Orders : status[d] = "NONE" => ledger[d] = Nothing

(* The polls that have still to log what their void gives back.            *)
Owing(s, p) == {k \in Polls : poll[k].sale = s /\ p \in poll[k].left \cup poll[k].open}

(* A sale's entries are its returns, and what each void has logged.        *)
SaleEntries ==
  \A s \in Sales, p \in Products :
    ledger[s][p] <= returned[s][p] + (voids[s] - Cardinality(Owing(s, p))) * Bought[s][p]

(* Nothing of an unpaid or void sale is returned, but for those noted.     *)
UnpaidUnreturned ==
  \A s \in Sales \ unpaid : status[s] \in {"PENDING", "VOID"} => returned[s] = Nothing /\ Working(s) = {}

Remains(s, p) == Bought[s][p] - returned[s][p]

(* A return that works alone takes back no more than what remains.         *)
ReturnsFit ==
  \A s \in Sales \ (contested \cup listed) :
    /\ \A p \in Products : Remains(s, p) >= 0
    /\ \A r \in Working(s) :
         /\ ~Twice(req[r].lines)
         /\ \A i \in DOMAIN req[r].lines : req[r].lines[i].qty <= Remains(s, req[r].lines[i].product)

(* What a poll knows of the sale it works on.                              *)
Knows(k) ==
  LET q == poll[k] IN
  /\ q.step = "idle" => q = NoPoll
  /\ q.step # "idle" => q.sale \in Sales
  /\ q.step = "settling" => q.sale \notin failed
  /\ q.step \in {"voiding", "back"} => q.sale \in failed
  /\ q.step # "back" => q.left = {} /\ q.open = {}
  /\ q.open # {} => \E p \in Products : q.open = {p}
  /\ q.left \cap q.open = {}

(* Midtrans' verdict decides what becomes of a sale.                       *)
VerdictsStand ==
  \A s \in Sales :
    /\ status[s] \in IF s \in failed THEN {"PENDING", "VOID"} ELSE {"PENDING", "COMPLETED"}
    /\ voids[s] > 0 => status[s] = "VOID"

(* The part of the invariant that is about polls.                          *)
PollsSound == (\A k \in Polls : Knows(k)) /\ VerdictsStand

Entries(p) == SumOver([d \in Documents |-> ledger[d][p]], Mutations \cup Sales \cup placed)

(* What polls have put back on the row of p and not logged yet.            *)
Backs(p)   == [k \in Polls |-> IF p \in poll[k].open THEN Bought[poll[k].sale][p] ELSE 0]
Surplus(p) == SumOver(Backs(p), Polls)

(* The stock is what the ledger says, what polls have not logged yet and   *)
(* what they never will.                                                   *)
Explained ==
  \A p \in Products :
    /\ stock[p] >= InitialStock[p] + Entries(p) + Surplus(p)
    /\ p \notin torn => stock[p] = InitialStock[p] + Entries(p) + Surplus(p)

(* The part of the invariant that is about documents.                      *)
Papers ==
  /\ OneAtATime /\ StatusStands /\ AppliedAsDecided /\ UnwrittenIsUnmoved
  /\ SaleEntries /\ UnpaidUnreturned /\ ReturnsFit

IInv ==
  /\ TypeOK /\ OneStatusEach /\ RequestsSane
  /\ Rows /\ Papers /\ PollsSound /\ Explained

-----------------------------------------------------------------------------
(* The lines of a careless operation bring goods, those of any other are   *)
(* at most one.                                                            *)
LEMMA RequestLines ==
  ASSUME TypeOK, RequestsSane, NEW r \in Requests
  PROVE  /\ req[r] \in ReqState
         /\ req[r].lines \in Seq(Line) /\ req[r].next \in Nat /\ req[r].after \in [Products -> Int]
         /\ req[r].op \in Operations \cup {"idle"} /\ req[r].doc \in Documents \cup {NoDocument}
         /\ req[r].read \in [seen : BOOLEAN, level : Int]
         /\ Busy(r) => req[r].doc \in Documents
         /\ ~Busy(r) => req[r] = Idle
         /\ req[r].op \in Careless => \A i \in DOMAIN req[r].lines : req[r].lines[i].qty > 0
<1>1. req[r] \in ReqState
  BY DEF TypeOK, MovesTypeOK
<1>2. Sane(r)
  BY DEF RequestsSane
<1>3. ASSUME req[r].op \in Careless, NEW i \in DOMAIN req[r].lines
      PROVE  req[r].lines[i].qty > 0
  <2>1. CASE req[r].op = "return"
    BY <1>2, <1>3, <2>1, ReturnListsAssumption DEF Sane
  <2>2. CASE req[r].op \in {"receive", "receive_apart"}
    <3>1. req[r].doc \in Orders /\ req[r].lines = Ordered[req[r].doc]
      BY <1>2, <2>2 DEF Sane
    <3> QED
      BY <1>3, <3>1, OrderedAssumption
  <2> QED
    BY <1>3, <2>1, <2>2 DEF Careless
<1>4. Busy(r) => req[r].doc \in Documents
  BY <1>1, <1>2 DEF Busy, Sane, Documents, ReqState, Operations, Careless
<1>5. ~Busy(r) => req[r] = Idle
  BY <1>2 DEF Busy, Sane
<1> QED
  BY <1>1, <1>3, <1>4, <1>5 DEF ReqState

(* The lines that are moved already.                                       *)
LEMMA DoneLines ==
  ASSUME TypeOK, RequestsSane, NEW r \in Requests
  PROVE  /\ Done(r) \in Seq(Line)
         /\ \A i \in DOMAIN Done(r) : i \in DOMAIN req[r].lines /\ Done(r)[i] = req[r].lines[i]
         /\ \A p \in Products : Total(Done(r))[p] \in Int
         /\ \A p \in Products :
              (\A i \in 1..(req[r].next - 1) : req[r].lines[i].product # p) => Total(Done(r))[p] = 0
         /\ req[r].op \in Careless => \A p \in Products : Total(Done(r))[p] >= 0
         /\ req[r].next = Len(req[r].lines) + 1 => Done(r) = req[r].lines
<1>1. /\ req[r].lines \in Seq(Line) /\ req[r].next \in Nat
      /\ req[r].op \in Careless => \A i \in DOMAIN req[r].lines : req[r].lines[i].qty > 0
  BY RequestLines
<1>2. req[r].next <= Len(req[r].lines) + 1
  BY DEF RequestsSane, Sane
<1>3. /\ Done(r) \in Seq(Line) /\ DOMAIN Done(r) = 1..(req[r].next - 1)
      /\ \A i \in DOMAIN Done(r) : i \in DOMAIN req[r].lines /\ Done(r)[i] = req[r].lines[i]
      /\ req[r].next = Len(req[r].lines) + 1 => Done(r) = req[r].lines
  <2> DEFINE lines == req[r].lines
             n     == req[r].next - 1
  <2>1. lines \in Seq(Line) /\ n \in Int /\ n <= Len(lines) /\ Done(r) = SubSeq(lines, 1, n)
    BY <1>1, <1>2 DEF Done
  <2>2. DOMAIN lines = 1..Len(lines) /\ Len(lines) \in Nat
    BY <1>1
  <2> HIDE DEF lines, n
  <2>3. /\ SubSeq(lines, 1, n) \in Seq(Line) /\ DOMAIN SubSeq(lines, 1, n) = 1..n
        /\ \A i \in 1..n : i \in DOMAIN lines /\ SubSeq(lines, 1, n)[i] = lines[i]
    BY <2>1, <2>2
  <2>4. n = Len(lines) => SubSeq(lines, 1, n) = lines
    BY <2>1
  <2> QED
    BY <1>1, <2>1, <2>3, <2>4 DEF lines, n
<1>4. \A p \in Products : Total(Done(r))[p] \in Int
  BY <1>3, TotalType
<1>5. \A p \in Products :
        (\A i \in 1..(req[r].next - 1) : req[r].lines[i].product # p) => Total(Done(r))[p] = 0
  <2> SUFFICES ASSUME NEW p \in Products, \A i \in 1..(req[r].next - 1) : req[r].lines[i].product # p
               PROVE  Total(Done(r))[p] = 0
    OBVIOUS
  <2>1. \A i \in DOMAIN Done(r) : Done(r)[i].product # p
    BY <1>3
  <2> QED
    BY <1>3, <2>1, TotalUnnamed
<1>6. req[r].op \in Careless => \A p \in Products : Total(Done(r))[p] >= 0
  BY <1>1, <1>3, TotalPositive
<1> QED
  BY <1>3, <1>4, <1>5, <1>6

-----------------------------------------------------------------------------
(* Another request's part in the rows is as it was.                        *)
LEMMA OthersStay ==
  ASSUME NEW q \in Requests, req'[q] = req[q], NEW p \in Products
  PROVE  /\ Holds(q, p)' <=> Holds(q, p)
         /\ Watches(q, p)' <=> Watches(q, p)
         /\ stock'[p] = stock[p] => Level(q, p)' = Level(q, p)
         /\ req'[q].after[p] = req[q].after[p] /\ req'[q].read.level = req[q].read.level
BY DEF Holds, Watches, Level, Done, Apart, Current

(* The polls' part in the rows is as it was, or rows are crossed.          *)
LEMMA PollRows ==
  ASSUME Rows, UNCHANGED <<stock, latest, poll, torn>>, crossed \subseteq crossed'
  PROVE  StockNeverNegative' /\ LatestEntryIsStock' /\ BacksCross' /\ BacksKnown'
BY DEF Rows, StockNeverNegative, LatestEntryIsStock, BacksCross, BacksKnown, Unlogged

(* A request that starts, or leaves without a commit, has no rows.         *)
LEMMA RowsQuiet ==
  ASSUME Rows, NEW r \in Requests, UNCHANGED <<stock, latest, crossed, poll, torn>>,
         \A q \in Requests \ {r} : req'[q] = req[q],
         req'[r].next \in {0, 1}, ~req'[r].read.seen
  PROVE  Rows'
<1>1. \A p \in Products : ~Holds(r, p)' /\ ~Watches(r, p)'
  BY DEF Holds, Watches
<1>2. ASSUME NEW q \in Requests, NEW p \in Products, Holds(q, p)' \/ Watches(q, p)'
      PROVE  /\ Holds(q, p)' <=> Holds(q, p)
             /\ Watches(q, p)' <=> Watches(q, p)
             /\ Level(q, p)' = Level(q, p)
             /\ req'[q].after[p] = req[q].after[p] /\ req'[q].read.level = req[q].read.level
  <2>1. q # r
    BY <1>1, <1>2
  <2> QED
    BY <2>1, OthersStay
<1>3. RowsExclude'
  BY <1>2 DEF Rows, RowsExclude
<1>4. WatchedRowsCross'
  BY <1>2 DEF Rows, WatchedRowsCross
<1>5. HeldRowsSuffice'
  BY <1>2 DEF Rows, HeldRowsSuffice
<1>6. LevelsKnown'
  BY <1>2 DEF Rows, LevelsKnown
<1>7. StockNeverNegative' /\ LatestEntryIsStock' /\ BacksCross' /\ BacksKnown'
  BY PollRows DEF Rows
<1> QED
  BY <1>3, <1>4, <1>5, <1>6, <1>7 DEF Rows

(* A request reads a row: what it read is known, or the row is crossed.    *)
LEMMA RowsLook ==
  ASSUME TypeOK, RequestsSane, Rows, NEW r \in Requests, Look(r), UNCHANGED <<poll, torn>>
  PROVE  Rows'
<1> DEFINE p == Current(r).product
           read == [seen |-> TRUE, level |-> IF Apart(r) THEN 0 ELSE Level(r, p)]
<1>1. /\ req' = [req EXCEPT ![r] = [@ EXCEPT !.read = read]]
      /\ AtLine(r)
      /\ crossed' = IF ~Apart(r) /\ ~RowFree(r, p) THEN crossed \cup {p} ELSE crossed
      /\ UNCHANGED <<stock, latest>>
  BY DEF Look
<1>2. req \in [Requests -> ReqState] /\ req[r] \in ReqState
  BY DEF TypeOK, MovesTypeOK
<1>3. req'[r] = [req[r] EXCEPT !.read = read] /\ \A q \in Requests \ {r} : req'[q] = req[q]
  BY <1>1, <1>2
<1>4. /\ req'[r].op = req[r].op /\ req'[r].lines = req[r].lines /\ req'[r].next = req[r].next
      /\ req'[r].after = req[r].after /\ req'[r].read = read
  BY <1>2, <1>3 DEF ReqState
<1> HIDE DEF p, read
<1>5. ASSUME NEW x \in Products
      PROVE  /\ Holds(r, x)' <=> Holds(r, x)
             /\ Level(r, x)' = Level(r, x)
             /\ Watches(r, x)' => x = p /\ ~Apart(r)
  BY <1>1, <1>4 DEF Holds, Watches, Level, Done, Apart, Current, p, read
<1>6. ASSUME NEW q \in Requests, NEW x \in Products
      PROVE  /\ Holds(q, x)' <=> Holds(q, x)
             /\ Level(q, x)' = Level(q, x)
             /\ req'[q].after[x] = req[q].after[x]
             /\ q # r => (Watches(q, x)' <=> Watches(q, x)) /\ req'[q].read.level = req[q].read.level
  <2>1. CASE q = r
    BY <2>1, <1>4, <1>5
  <2>2. CASE q # r
    BY <2>2, <1>1, <1>3, OthersStay
  <2> QED
    BY <2>1, <2>2
<1>7. RowsExclude'
  BY <1>6 DEF Rows, RowsExclude
<1>8. WatchedRowsCross'
  <2> SUFFICES ASSUME NEW q \in Requests, NEW o \in Requests, NEW x \in Products,
                      q # o, Watches(q, x)', Holds(o, x)'
               PROVE  x \in crossed'
    BY DEF WatchedRowsCross
  <2>1. CASE q = r
    BY <2>1, <1>1, <1>5, <1>6 DEF RowFree
  <2>2. CASE q # r
    BY <2>2, <1>1, <1>6 DEF Rows, WatchedRowsCross
  <2> QED
    BY <2>1, <2>2
<1>9. HeldRowsSuffice'
  BY <1>6 DEF Rows, HeldRowsSuffice
<1>10. LevelsKnown'
  <2> SUFFICES ASSUME NEW q \in Requests, NEW x \in Products, x \notin crossed'
               PROVE  /\ Holds(q, x)' => req'[q].after[x] = Level(q, x)'
                      /\ Watches(q, x)' => req'[q].read.level = Level(q, x)'
    BY DEF LevelsKnown
  <2>1. x \notin crossed
    BY <1>1
  <2>2. CASE q = r
    BY <2>1, <2>2, <1>4, <1>5, <1>6 DEF Rows, LevelsKnown, read
  <2>3. CASE q # r
    BY <2>1, <2>3, <1>6 DEF Rows, LevelsKnown
  <2> QED
    BY <2>2, <2>3
<1>11. StockNeverNegative' /\ LatestEntryIsStock' /\ BacksCross' /\ BacksKnown'
  BY <1>1, PollRows
<1> QED
  BY <1>7, <1>8, <1>9, <1>10, <1>11 DEF Rows

(* A request moves a row that nobody else keeps locked.                    *)
LEMMA RowsPut ==
  ASSUME TypeOK, RequestsSane, Rows, NEW r \in Requests, Put(r), UNCHANGED <<poll, torn>>
  PROVE  Rows'
<1> DEFINE l == Current(r)
           p == l.product
           before == IF req[r].op \in Careless THEN req[r].read.level ELSE Level(r, p)
<1>1. /\ req' = [req EXCEPT ![r] = Moved(r, before + l.qty)]
      /\ AtLine(r) /\ (req[r].op \in Careless => req[r].read.seen)
      /\ Apart(r) \/ RowFree(r, p)
      /\ Enough(r)
      /\ crossed' = IF ~Apart(r) /\ \E q \in Requests \ {r} : Watches(q, p) THEN crossed \cup {p} ELSE crossed
      /\ UNCHANGED <<stock, latest>>
  BY DEF Put
<1>2. /\ req \in [Requests -> ReqState] /\ req[r] \in ReqState
      /\ req[r].lines \in Seq(Line) /\ req[r].next \in Nat /\ req[r].after \in [Products -> Int]
      /\ req[r].next \in DOMAIN req[r].lines
  BY <1>1, RequestLines DEF TypeOK, MovesTypeOK, AtLine
<1>3. /\ l = req[r].lines[req[r].next] /\ l \in Line /\ p = l.product /\ p \in Products /\ l.qty \in Int
      /\ req[r].op \in Careless => req[r].read.seen
      /\ req[r].op \in Careless => before = req[r].read.level
      /\ req[r].op \notin Careless => before = Level(r, p)
  <2>1. req[r].lines[req[r].next] \in Line
    BY <1>2
  <2> QED
    BY <1>1, <2>1 DEF Current, Line
<1> HIDE DEF l, p, before
<1>4. req'[r] = Moved(r, before + l.qty) /\ \A q \in Requests \ {r} : req'[q] = req[q]
  BY <1>1, <1>2
<1>5. /\ req'[r].op = req[r].op /\ req'[r].lines = req[r].lines /\ req'[r].next = req[r].next + 1
      /\ req'[r].read = NotSeen
      /\ req'[r].after = [req[r].after EXCEPT ![p] = before + l.qty]
  BY <1>2, <1>3, <1>4 DEF Moved, ReqState, l
<1>6. ASSUME NEW x \in Products
      PROVE  /\ Holds(r, x)' <=> ~Apart(r) /\ (Holds(r, x) \/ x = p)
             /\ ~Watches(r, x)'
             /\ req'[r].after[x] = IF x = p THEN before + l.qty ELSE req[r].after[x]
  BY <1>2, <1>3, <1>5 DEF Holds, Watches, Apart, NotSeen, p
<1>7. ASSUME NEW x \in Products
      PROVE  Level(r, x)' = Level(r, x) + IF x = p THEN l.qty ELSE 0
  <2>1. Done(r)' = SubSeq(req[r].lines, 1, req[r].next)
    BY <1>2, <1>5 DEF Done
  <2>2. Total(Done(r)')[x] = Total(Done(r))[x] + IF x = p THEN l.qty ELSE 0
    <3>1. Total(SubSeq(req[r].lines, 1, req[r].next))[x]
            = Total(SubSeq(req[r].lines, 1, req[r].next - 1))[x] + IF l.product = x THEN l.qty ELSE 0
      BY <1>2, <1>3, TotalNext
    <3>2. Done(r) = SubSeq(req[r].lines, 1, req[r].next - 1)
      BY DEF Done
    <3> QED
      BY <1>3, <2>1, <3>1, <3>2
  <2>3. Level(r, x)' = stock[x] + Total(Done(r)')[x]
    BY <1>1 DEF Level
  <2>4. stock[x] \in Int /\ Total(Done(r))[x] \in Int
    BY DoneLines DEF TypeOK, MovesTypeOK
  <2> QED
    BY <1>3, <2>2, <2>3, <2>4 DEF Level
<1>8. ASSUME NEW q \in Requests \ {r}, NEW x \in Products
      PROVE  /\ Holds(q, x)' <=> Holds(q, x)
             /\ Watches(q, x)' <=> Watches(q, x)
             /\ Level(q, x)' = Level(q, x)
             /\ req'[q].after[x] = req[q].after[x] /\ req'[q].read.level = req[q].read.level
  BY <1>1, <1>4, OthersStay
<1>9. \A x \in Products : Holds(r, x) => ~Apart(r)
  BY DEF Holds
<1>10. RowsExclude'
  <2>1. ASSUME NEW q \in Requests \ {r}, NEW x \in Products, Holds(r, x)', Holds(q, x)'
        PROVE  FALSE
    BY <1>1, <1>6, <1>8, <2>1 DEF Rows, RowsExclude, RowFree
  <2>2. ASSUME NEW q \in Requests \ {r}, NEW o \in Requests \ {r}, NEW x \in Products, Holds(o, x)', Holds(q, x)'
        PROVE  o = q
    BY <1>8, <2>2 DEF Rows, RowsExclude
  <2> QED
    BY <2>1, <2>2 DEF RowsExclude
<1>11. WatchedRowsCross'
  <2> SUFFICES ASSUME NEW q \in Requests, NEW o \in Requests, NEW x \in Products,
                      q # o, Watches(q, x)', Holds(o, x)'
               PROVE  x \in crossed'
    BY DEF WatchedRowsCross
  <2>1. q # r
    BY <1>6
  <2>2. CASE o = r
    BY <2>1, <2>2, <1>1, <1>6, <1>8 DEF Rows, WatchedRowsCross
  <2>3. CASE o # r
    BY <2>1, <2>3, <1>1, <1>8 DEF Rows, WatchedRowsCross
  <2> QED
    BY <2>2, <2>3
<1>12. \A x \in Products : Level(r, x) \in Int
  BY DoneLines DEF Level, TypeOK, MovesTypeOK
<1>13. HeldRowsSuffice'
  <2> SUFFICES ASSUME NEW q \in Requests, NEW x \in Products, Holds(q, x)'
               PROVE  Level(q, x)' >= 0
    BY DEF HeldRowsSuffice
  <2>1. CASE q # r
    BY <2>1, <1>8 DEF Rows, HeldRowsSuffice
  <2>2. CASE q = r /\ x # p
    BY <2>2, <1>6, <1>7, <1>12 DEF Rows, HeldRowsSuffice
  <2>3. CASE q = r /\ x = p
    <3>1. CASE req[r].op \in Careless
      <4>1. l.qty > 0 /\ Total(Done(r))[p] >= 0
        BY <1>2, <1>3, <3>1, RequestLines, DoneLines
      <4>2. stock[p] >= 0 /\ stock[p] \in Int /\ Total(Done(r))[p] \in Int
        BY <1>3, DoneLines DEF Rows, StockNeverNegative, TypeOK, MovesTypeOK
      <4>3. Level(r, p) >= 0
        BY <4>1, <4>2 DEF Level
      <4> QED
        BY <2>3, <4>1, <4>3, <1>3, <1>7, <1>12
    <3>2. CASE req[r].op \notin Careless
      BY <1>1, <1>3, <1>7, <1>12, <2>3, <3>2 DEF Enough, l, p
    <3> QED
      BY <3>1, <3>2
  <2> QED
    BY <2>1, <2>2, <2>3
<1>14. LevelsKnown'
  <2> SUFFICES ASSUME NEW q \in Requests, NEW x \in Products, x \notin crossed'
               PROVE  /\ Holds(q, x)' => req'[q].after[x] = Level(q, x)'
                      /\ Watches(q, x)' => req'[q].read.level = Level(q, x)'
    BY DEF LevelsKnown
  <2>1. x \notin crossed
    BY <1>1
  <2>2. CASE q # r
    BY <2>1, <2>2, <1>8 DEF Rows, LevelsKnown
  <2>3. CASE q = r /\ x # p
    BY <2>1, <2>3, <1>6, <1>7, <1>12 DEF Rows, LevelsKnown
  <2>4. CASE q = r /\ x = p
    <3> SUFFICES ASSUME Holds(r, x)' PROVE before = Level(r, p)
      <4>1. ~Watches(q, x)'
        BY <2>4, <1>6
      <4>2. req'[q].after[x] = before + l.qty
        BY <2>4, <1>6
      <4>3. Level(q, x)' = Level(r, p) + l.qty
        BY <2>4, <1>7
      <4> QED
        BY <2>4, <4>1, <4>2, <4>3
    <3>1. CASE req[r].op \in Careless
      <4>1. ~Apart(r)
        BY <1>6
      <4>2. Watches(r, p)
        BY <1>3, <3>1, <4>1 DEF Watches, l
      <4> QED
        BY <1>3, <2>1, <2>4, <3>1, <4>2 DEF Rows, LevelsKnown
    <3>2. CASE req[r].op \notin Careless
      BY <1>3, <3>2
    <3> QED
      BY <3>1, <3>2
  <2> QED
    BY <2>2, <2>3, <2>4
<1>15. StockNeverNegative' /\ LatestEntryIsStock' /\ BacksCross' /\ BacksKnown'
  BY <1>1, PollRows
<1> QED
  BY <1>10, <1>11, <1>13, <1>14, <1>15 DEF Rows

(* What a commit does, product by product.                                 *)
LEMMA CommitEffect ==
  ASSUME TypeOK, OneStatusEach, RequestsSane, NEW r \in Requests, NEW result, Commit(r, result)
  PROVE  /\ req[r].doc \in Documents /\ req' = [req EXCEPT ![r] = Idle]
         /\ req[r].next = Len(req[r].lines) + 1 /\ Done(r) = req[r].lines
         /\ status' = [status EXCEPT ![req[r].doc] = result]
         /\ \A p \in Products : Total(req[r].lines)[p] \in Int
         /\ \A d \in Documents, p \in Products :
              ledger'[d][p] = ledger[d][p] + IF d = req[r].doc THEN Total(req[r].lines)[p] ELSE 0
         /\ \A p \in Products : stock'[p] = stock[p] + IF Apart(r) THEN 0 ELSE Total(req[r].lines)[p]
         /\ \A p \in Products :
              latest'[p] = IF ~Apart(r) /\ p \in Touches(r) THEN req[r].after[p] ELSE latest[p]
         /\ ledger' \in [Documents -> [Products -> Int]]
         /\ stock' \in [Products -> Int] /\ latest' \in [Products -> Int]
         /\ contested' = contested /\ crossed' = crossed \cup Crosses(r)
         /\ Crosses(r) \subseteq Products
<1> DEFINE d == req[r].doc
           goods == Total(req[r].lines)
<1>1. /\ req[r].lines \in Seq(Line) /\ d \in Documents /\ req[r].after \in [Products -> Int]
      /\ req[r].next = Len(req[r].lines) + 1 /\ Done(r) = req[r].lines
  BY RequestLines, DoneLines DEF Commit
<1>2. goods \in [Products -> Int]
  BY <1>1, TotalType
<1>3. /\ stock \in [Products -> Int] /\ latest \in [Products -> Int]
      /\ ledger \in [Documents -> [Products -> Int]]
  BY DEF TypeOK, MovesTypeOK
<1>4. /\ status' = [status EXCEPT ![d] = result]
      /\ ledger' = [ledger EXCEPT ![d] = [p \in Products |-> ledger[d][p] + goods[p]]]
      /\ Apart(r) => UNCHANGED <<stock, latest>>
      /\ ~Apart(r) => stock' = [p \in Products |-> stock[p] + goods[p]]
      /\ ~Apart(r) => latest' = [p \in Products |-> IF p \in Touches(r) THEN req[r].after[p] ELSE latest[p]]
      /\ req' = [req EXCEPT ![r] = Idle]
      /\ contested' = contested /\ crossed' = crossed \cup Crosses(r)
  BY DEF Commit, Leave
<1> HIDE DEF d, goods
<1>5. ledger'[d] = [p \in Products |-> ledger[d][p] + goods[p]] /\ \A e \in Documents \ {d} : ledger'[e] = ledger[e]
  BY <1>1, <1>3, <1>4
<1>6. ledger' \in [Documents -> [Products -> Int]]
  <2>1. [p \in Products |-> ledger[d][p] + goods[p]] \in [Products -> Int]
    BY <1>1, <1>2, <1>3
  <2> QED
    BY <1>3, <1>4, <2>1
<1>7. stock' \in [Products -> Int] /\ latest' \in [Products -> Int]
  <2>1. CASE Apart(r)
    BY <1>3, <1>4, <2>1
  <2>2. CASE ~Apart(r)
    <3>1. [p \in Products |-> stock[p] + goods[p]] \in [Products -> Int]
      BY <1>2, <1>3
    <3>2. [p \in Products |-> IF p \in Touches(r) THEN req[r].after[p] ELSE latest[p]] \in [Products -> Int]
      BY <1>1, <1>3
    <3> QED
      BY <1>4, <2>2, <3>1, <3>2
  <2> QED
    BY <2>1, <2>2
<1>8. \A e \in Documents, p \in Products : ledger'[e][p] = ledger[e][p] + IF e = d THEN goods[p] ELSE 0
  BY <1>2, <1>3, <1>5
<1>9. \A p \in Products : stock'[p] = stock[p] + IF Apart(r) THEN 0 ELSE goods[p]
  BY <1>2, <1>3, <1>4
<1>10. Crosses(r) \subseteq Products
  <2>1. \A i \in DOMAIN req[r].lines : req[r].lines[i] \in Line
    BY <1>1
  <2>2. \A i \in DOMAIN req[r].lines : req[r].lines[i].product \in Products
    BY <2>1 DEF Line
  <2> QED
    BY <2>2 DEF Crosses, Touches
<1> QED
  BY <1>1, <1>2, <1>4, <1>6, <1>7, <1>8, <1>9, <1>10 DEF d, goods

(* The commit of a request puts on its rows what it took or brought.       *)
LEMMA RowsCommit ==
  ASSUME TypeOK, OneStatusEach, RequestsSane, Rows, NEW r \in Requests, NEW result, Commit(r, result),
         UNCHANGED <<poll, torn>>
  PROVE  Rows'
<1> DEFINE goods == Total(req[r].lines)
<1>1. /\ req[r].next = Len(req[r].lines) + 1 /\ Done(r) = req[r].lines
      /\ req' = [req EXCEPT ![r] = Idle] /\ crossed' = crossed \cup Crosses(r)
      /\ \A p \in Products : goods[p] \in Int
      /\ \A p \in Products : stock'[p] = stock[p] + IF Apart(r) THEN 0 ELSE goods[p]
      /\ \A p \in Products :
           latest'[p] = IF ~Apart(r) /\ p \in Touches(r) THEN req[r].after[p] ELSE latest[p]
  BY CommitEffect
<1> HIDE DEF goods
<1>2. req[r].lines \in Seq(Line) /\ stock \in [Products -> Int] /\ req \in [Requests -> ReqState]
  BY RequestLines DEF TypeOK, MovesTypeOK
<1>3. req'[r] = Idle /\ \A q \in Requests \ {r} : req'[q] = req[q]
  BY <1>1, <1>2
<1>4. \A p \in Products : ~Holds(r, p)' /\ ~Watches(r, p)'
  BY <1>3 DEF Holds, Watches, Idle, NotSeen
<1>5. \A p \in Products : Holds(r, p) <=> ~Apart(r) /\ p \in Touches(r)
  BY <1>1, <1>2 DEF Holds, Touches
<1>6. ASSUME NEW p \in Products, ~Holds(r, p)
      PROVE  stock'[p] = stock[p] /\ latest'[p] = latest[p]
  <2>1. CASE Apart(r)
    BY <1>1, <1>2, <2>1
  <2>2. CASE ~Apart(r)
    <3>1. p \notin Touches(r)
      BY <1>5, <1>6, <2>2
    <3>2. goods[p] = 0
      BY <1>2, <3>1, TotalUnnamed DEF Touches, goods
    <3> QED
      BY <1>1, <1>2, <3>1, <3>2
  <2> QED
    BY <2>1, <2>2
<1>7. ASSUME NEW p \in Products, Holds(r, p)
      PROVE  stock'[p] = Level(r, p) /\ latest'[p] = req[r].after[p]
  BY <1>1, <1>5, <1>7 DEF Level, goods
<1>8. ASSUME NEW q \in Requests, NEW p \in Products, Holds(q, p)' \/ (Watches(q, p)' /\ p \notin crossed)
      PROVE  /\ Holds(q, p)' <=> Holds(q, p)
             /\ Watches(q, p)' <=> Watches(q, p)
             /\ Level(q, p)' = Level(q, p)
             /\ req'[q].after[p] = req[q].after[p] /\ req'[q].read.level = req[q].read.level
  <2>1. q # r
    BY <1>4, <1>8
  <2>2. (Holds(q, p)' <=> Holds(q, p)) /\ (Watches(q, p)' <=> Watches(q, p))
    BY <1>3, <2>1, OthersStay
  <2>3. ~Holds(r, p)
    BY <1>8, <2>1, <2>2 DEF Rows, RowsExclude, WatchedRowsCross
  <2>4. stock'[p] = stock[p]
    BY <1>6, <2>3
  <2> QED
    BY <1>3, <2>1, <2>4, OthersStay
<1>9. RowsExclude'
  BY <1>8 DEF Rows, RowsExclude
<1>10. WatchedRowsCross'
  <2> SUFFICES ASSUME NEW q \in Requests, NEW o \in Requests, NEW p \in Products,
                      q # o, Watches(q, p)', Holds(o, p)', p \notin crossed
               PROVE  FALSE
    BY <1>1 DEF WatchedRowsCross
  <2> QED
    BY <1>8 DEF Rows, WatchedRowsCross
<1>11. HeldRowsSuffice'
  BY <1>8 DEF Rows, HeldRowsSuffice
<1>12. LevelsKnown'
  BY <1>1, <1>8 DEF Rows, LevelsKnown
<1>15. \A p \in Products : Holds(r, p) /\ Unlogged(p) => p \in crossed'
  BY <1>1, <1>5 DEF Crosses
<1>16. BacksCross'
  BY <1>1 DEF Rows, BacksCross
<1>17. BacksKnown'
  <2> SUFFICES ASSUME NEW k \in Polls, NEW p \in Products \ crossed', p \in poll[k].open
               PROVE  poll[k].level = stock'[p]
    BY DEF BacksKnown
  <2>1. p \notin crossed /\ ~Holds(r, p)
    BY <1>1, <1>15 DEF Unlogged
  <2> QED
    BY <1>6, <2>1 DEF Rows, BacksKnown
<1>13. StockNeverNegative'
  <2> SUFFICES ASSUME NEW p \in Products PROVE stock'[p] >= 0
    BY DEF StockNeverNegative
  <2> QED
    BY <1>6, <1>7 DEF Rows, StockNeverNegative, HeldRowsSuffice
<1>14. LatestEntryIsStock'
  <2> SUFFICES ASSUME NEW p \in Products, p \notin crossed, p \notin torn, ~Unlogged(p)
               PROVE  latest'[p] = stock'[p]
    BY <1>1 DEF LatestEntryIsStock, Unlogged
  <2> QED
    BY <1>6, <1>7 DEF Rows, LatestEntryIsStock, LevelsKnown
<1> QED
  BY <1>9, <1>10, <1>11, <1>12, <1>13, <1>14, <1>16, <1>17 DEF Rows

(* Nothing moves: polls begin, end or die.                                 *)
LEMMA RowsStay ==
  ASSUME Rows, UNCHANGED <<stock, req, latest, crossed>>, torn \subseteq torn',
         \A k \in Polls, p \in Products :
           p \in poll'[k].open => p \in poll[k].open /\ poll'[k].level = poll[k].level,
         \A p \in Products \ torn' : Unlogged(p) => Unlogged(p)'
  PROVE  Rows'
<1>1. \A q \in Requests, p \in Products :
        /\ Holds(q, p)' <=> Holds(q, p)
        /\ Watches(q, p)' <=> Watches(q, p)
        /\ Level(q, p)' = Level(q, p)
  BY OthersStay
<1>2. RowsExclude' /\ WatchedRowsCross' /\ HeldRowsSuffice' /\ LevelsKnown'
  BY <1>1 DEF Rows, RowsExclude, WatchedRowsCross, HeldRowsSuffice, LevelsKnown
<1>3. BacksCross' /\ BacksKnown'
  BY DEF Rows, BacksCross, BacksKnown
<1>4. StockNeverNegative' /\ LatestEntryIsStock'
  BY DEF Rows, StockNeverNegative, LatestEntryIsStock
<1> QED
  BY <1>2, <1>3, <1>4 DEF Rows

(* A poll puts goods back on a row that nobody keeps locked.               *)
LEMMA RowsRestock ==
  ASSUME TypeOK, Rows, NEW k \in Polls, NEW p \in Products, Restock(k, p), poll[k].sale \in Sales
  PROVE  Rows'
<1> DEFINE level == stock[p] + Bought[poll[k].sale][p]
<1>1. /\ UNCHANGED <<req, latest, torn>>
      /\ poll' = [poll EXCEPT ![k] = [poll[k] EXCEPT !.left = @ \ {p}, !.open = {p}, !.level = level]]
      /\ stock' = [stock EXCEPT ![p] = level]
      /\ \A q \in Requests : ~Holds(q, p)
      /\ crossed' = IF Unlogged(p) \/ \E q \in Requests : Watches(q, p) THEN crossed \cup {p} ELSE crossed
  BY DEF Restock, Become
<1>2. stock \in [Products -> Int] /\ poll \in [Polls -> PollState] /\ poll[k] \in PollState
  BY DEF TypeOK, MovesTypeOK, ReturnsTypeOK
<1>3. Bought[poll[k].sale][p] \in Nat /\ level \in Int /\ level >= stock[p]
  BY <1>2, BoughtAssumption
<1> HIDE DEF level
<1>4. /\ stock'[p] = level /\ \A x \in Products \ {p} : stock'[x] = stock[x]
      /\ poll'[k].open = {p} /\ poll'[k].level = level /\ \A j \in Polls \ {k} : poll'[j] = poll[j]
  BY <1>1, <1>2 DEF PollState
<1>5. ASSUME NEW q \in Requests, NEW x \in Products, Holds(q, x)' \/ (Watches(q, x)' /\ x \notin crossed')
      PROVE  /\ Holds(q, x)' <=> Holds(q, x)
             /\ Watches(q, x)' <=> Watches(q, x)
             /\ Level(q, x)' = Level(q, x)
             /\ req'[q].after[x] = req[q].after[x] /\ req'[q].read.level = req[q].read.level
  <2>1. (Holds(q, x)' <=> Holds(q, x)) /\ (Watches(q, x)' <=> Watches(q, x))
    BY <1>1, OthersStay
  <2>2. x # p
    BY <1>1, <1>5, <2>1
  <2> QED
    BY <1>1, <1>4, <2>2, OthersStay
<1>6. crossed \subseteq crossed'
  BY <1>1
<1>7. RowsExclude'
  BY <1>5 DEF Rows, RowsExclude
<1>8. WatchedRowsCross'
  BY <1>5, <1>6 DEF Rows, WatchedRowsCross
<1>9. HeldRowsSuffice'
  BY <1>5 DEF Rows, HeldRowsSuffice
<1>10. LevelsKnown'
  BY <1>5, <1>6 DEF Rows, LevelsKnown
<1>11. BacksCross'
  <2> SUFFICES ASSUME NEW i \in Polls, NEW j \in Polls, NEW x \in Products, i # j,
                      x \in poll'[i].open, x \in poll'[j].open, x \notin crossed'
               PROVE  FALSE
    BY DEF BacksCross
  <2>1. i # k /\ j # k
    BY <1>1, <1>4, <1>6 DEF Unlogged
  <2> QED
    BY <1>4, <1>6, <2>1 DEF Rows, BacksCross
<1>12. BacksKnown'
  <2> SUFFICES ASSUME NEW j \in Polls, NEW x \in Products, x \notin crossed', x \in poll'[j].open
               PROVE  poll'[j].level = stock'[x]
    BY DEF BacksKnown
  <2>1. CASE j = k
    BY <1>4, <2>1
  <2>2. CASE j # k
    BY <1>1, <1>4, <1>6, <2>2 DEF Rows, BacksKnown, Unlogged
  <2> QED
    BY <2>1, <2>2
<1>13. StockNeverNegative'
  BY <1>2, <1>3, <1>4 DEF Rows, StockNeverNegative
<1>14. LatestEntryIsStock'
  <2> SUFFICES ASSUME NEW x \in Products, x \notin crossed', x \notin torn, ~Unlogged(x)'
               PROVE  latest[x] = stock'[x]
    BY <1>1 DEF LatestEntryIsStock
  <2>1. x # p
    BY <1>4 DEF Unlogged
  <2>2. ~Unlogged(x)
    BY <1>4, <2>1 DEF Unlogged, Restock
  <2> QED
    BY <1>4, <1>6, <2>1, <2>2 DEF Rows, LatestEntryIsStock
<1> QED
  BY <1>7, <1>8, <1>9, <1>10, <1>11, <1>12, <1>13, <1>14 DEF Rows

-----------------------------------------------------------------------------
(* The three ways in which a step changes a request.                       *)
LEMMA BeginEffect ==
  ASSUME TypeOK, RequestsSane, NEW r \in Requests, NEW d \in Documents, NEW op \in Operations,
         NEW lines \in Seq(Line), NEW from \in {0, 1}, Begin(r, d, op, lines, from)
  PROVE  /\ ~Busy(r) /\ req[r] = Idle
         /\ req' \in [Requests -> ReqState]
         /\ \A q \in Requests \ {r} : req'[q] = req[q]
         /\ req'[r].op = op /\ req'[r].doc = d /\ req'[r].lines = lines
         /\ req'[r].next = from /\ req'[r].read = NotSeen
         /\ contested' = IF Working(d) = {} THEN contested ELSE contested \cup {d}
         /\ UNCHANGED <<stock, status, ledger, latest, crossed>>
<1> DEFINE new == [Idle EXCEPT !.op = op, !.doc = d, !.lines = lines, !.next = from]
<1>1. /\ ~Busy(r) /\ req' = [req EXCEPT ![r] = new]
      /\ contested' = IF Working(d) = {} THEN contested ELSE contested \cup {d}
      /\ UNCHANGED <<stock, status, ledger, latest, crossed>>
  BY DEF Begin
<1>2. new \in ReqState /\ new.op = op /\ new.doc = d /\ new.lines = lines /\ new.next = from /\ new.read = NotSeen
  <2>1. Idle \in ReqState
    BY DEF Idle, ReqState, NotSeen
  <2>2. Idle.read = NotSeen
    BY DEF Idle
  <2>3. from \in Nat
    OBVIOUS
  <2> QED
    BY <2>1, <2>2, <2>3 DEF ReqState
<1> HIDE DEF new
<1>3. req \in [Requests -> ReqState]
  BY DEF TypeOK, MovesTypeOK
<1>4. req'[r] = new /\ \A q \in Requests \ {r} : req'[q] = req[q]
  BY <1>1, <1>3
<1>5. req[r] = Idle
  BY <1>1, RequestLines
<1>6. req' \in [Requests -> ReqState]
  BY <1>1, <1>2, <1>3
<1> QED
  BY <1>1, <1>2, <1>4, <1>5, <1>6

(* What the end of a transaction leaves of its request.                    *)
LEMMA LeaveEffect ==
  ASSUME TypeOK, NEW r \in Requests, Leave(r)
  PROVE  /\ req' \in [Requests -> ReqState]
         /\ req'[r] = Idle /\ \A q \in Requests \ {r} : req'[q] = req[q]
<1>1. Idle \in ReqState
  BY DEF Idle, ReqState, NotSeen
<1>2. req \in [Requests -> ReqState]
  BY DEF TypeOK, MovesTypeOK
<1> QED
  BY <1>1, <1>2 DEF Leave

(* Look, Put and MarkReceived: a request goes on with what it does.        *)
GoesOn(r) ==
  /\ req' \in [Requests -> ReqState]
  /\ \A q \in Requests \ {r} : req'[q] = req[q]
  /\ req'[r].op = req[r].op /\ req'[r].doc = req[r].doc /\ req'[r].lines = req[r].lines
  /\ UNCHANGED <<stock, status, ledger, contested, latest>>
  /\ crossed' \subseteq Products
  /\ Sane(r)'

(* The read of a row leaves the request at the same line.                  *)
LEMMA LookGoesOn ==
  ASSUME TypeOK, RequestsSane, NEW r \in Requests, Look(r), UNCHANGED placed
  PROVE  GoesOn(r)
<1> DEFINE p == Current(r).product
           read == [seen |-> TRUE, level |-> IF Apart(r) THEN 0 ELSE Level(r, p)]
<1>1. /\ req' = [req EXCEPT ![r] = [req[r] EXCEPT !.read = read]]
      /\ AtLine(r) /\ req[r].op \in Careless
      /\ crossed' = IF ~Apart(r) /\ ~RowFree(r, p) THEN crossed \cup {p} ELSE crossed
      /\ UNCHANGED <<stock, status, ledger, latest, contested>>
  BY DEF Look
<1>2. /\ req \in [Requests -> ReqState] /\ req[r] \in ReqState /\ req[r].lines \in Seq(Line)
      /\ stock \in [Products -> Int] /\ crossed \subseteq Products
  BY RequestLines DEF TypeOK, MovesTypeOK
<1>3. p \in Products
  <2>1. req[r].lines[req[r].next] \in Line
    BY <1>1, <1>2 DEF AtLine
  <2> QED
    BY <2>1 DEF Current, Line
<1>4. read \in [seen : BOOLEAN, level : Int]
  BY <1>2, <1>3, DoneLines DEF Level
<1> HIDE DEF p, read
<1>5. req'[r] = [req[r] EXCEPT !.read = read] /\ \A q \in Requests \ {r} : req'[q] = req[q]
  BY <1>1, <1>2
<1>6. [req[r] EXCEPT !.read = read] \in ReqState
  BY <1>2, <1>4 DEF ReqState
<1>7. req' \in [Requests -> ReqState]
  BY <1>1, <1>2, <1>6
<1>8. /\ req'[r].op = req[r].op /\ req'[r].doc = req[r].doc /\ req'[r].lines = req[r].lines
      /\ req'[r].next = req[r].next
  BY <1>2, <1>5 DEF ReqState
<1>9. Sane(r)'
  <2>1. Sane(r)
    BY DEF RequestsSane
  <2>2. req[r].op # "idle"
    BY <1>1 DEF Careless
  <2> QED
    BY <1>1, <1>8, <2>1, <2>2 DEF Sane, AtLine
<1> QED
  BY <1>1, <1>2, <1>3, <1>5, <1>7, <1>8, <1>9 DEF GoesOn

(* The move of a row takes the request to the next line.                   *)
LEMMA PutGoesOn ==
  ASSUME TypeOK, RequestsSane, NEW r \in Requests, Put(r), UNCHANGED placed
  PROVE  GoesOn(r)
<1> DEFINE p      == Current(r).product
           before == IF req[r].op \in Careless THEN req[r].read.level ELSE Level(r, p)
           level  == before + Current(r).qty
<1>1. /\ req' = [req EXCEPT ![r] = Moved(r, level)]
      /\ AtLine(r)
      /\ crossed' = IF ~Apart(r) /\ \E q \in Requests \ {r} : Watches(q, p) THEN crossed \cup {p} ELSE crossed
      /\ UNCHANGED <<stock, status, ledger, latest, contested>>
  BY DEF Put
<1>2. /\ req \in [Requests -> ReqState] /\ req[r] \in ReqState /\ req[r].lines \in Seq(Line)
      /\ req[r].after \in [Products -> Int] /\ req[r].next \in Nat
      /\ req[r].read \in [seen : BOOLEAN, level : Int]
      /\ stock \in [Products -> Int] /\ crossed \subseteq Products
  BY RequestLines DEF TypeOK, MovesTypeOK
<1>3. p \in Products /\ Current(r).qty \in Int
  <2>1. req[r].lines[req[r].next] \in Line
    BY <1>1, <1>2 DEF AtLine
  <2> QED
    BY <2>1 DEF Current, Line
<1>4. level \in Int
  <2>1. Level(r, p) \in Int
    BY <1>2, <1>3, DoneLines DEF Level
  <2> QED
    BY <1>2, <1>3, <2>1
<1> HIDE DEF level, before
<1>5. req'[r] = Moved(r, level) /\ \A q \in Requests \ {r} : req'[q] = req[q]
  BY <1>1, <1>2
<1>6. Moved(r, level) \in ReqState
  <2>1. [req[r].after EXCEPT ![p] = level] \in [Products -> Int]
    BY <1>2, <1>3, <1>4
  <2>2. NotSeen \in [seen : BOOLEAN, level : Int]
    BY DEF NotSeen
  <2>3. req[r].next + 1 \in Nat
    BY <1>2
  <2>4. Moved(r, level) = [req[r] EXCEPT !.next = req[r].next + 1, !.read = NotSeen,
                                         !.after = [req[r].after EXCEPT ![p] = level]]
    BY <1>2 DEF Moved, ReqState
  <2> HIDE DEF p
  <2> QED
    BY <1>2, <2>1, <2>2, <2>3, <2>4 DEF ReqState
<1>7. req' \in [Requests -> ReqState]
  BY <1>1, <1>2, <1>6
<1>8. /\ req'[r].op = req[r].op /\ req'[r].doc = req[r].doc /\ req'[r].lines = req[r].lines
      /\ req'[r].next = req[r].next + 1 /\ req'[r].read = NotSeen
  BY <1>2, <1>5 DEF Moved, ReqState
<1>9. Sane(r)'
  <2>1. Sane(r)
    BY DEF RequestsSane
  <2>2. req[r].next <= Len(req[r].lines) /\ req[r].lines # <<>>
    BY <1>1, <1>2 DEF AtLine
  <2>3. req[r].op # "idle"
    BY <2>1, <2>2 DEF Sane, Idle
  <2>4. Len(req[r].lines) \in Nat
    BY <1>2
  <2> QED
    BY <1>1, <1>2, <1>8, <2>1, <2>2, <2>3, <2>4 DEF Sane, NotSeen
<1> QED
  BY <1>1, <1>2, <1>3, <1>5, <1>7, <1>8, <1>9 DEF GoesOn

(* The write of the status takes a reception to its first line.            *)
LEMMA MarkGoesOn ==
  ASSUME TypeOK, RequestsSane, NEW r \in Requests, MarkReceived(r), UNCHANGED placed
  PROVE  GoesOn(r) /\ req'[r].next = 1 /\ ~req'[r].read.seen
<1>1. /\ req' = [req EXCEPT ![r] = [req[r] EXCEPT !.next = 1]]
      /\ Busy(r) /\ req[r].next = 0
      /\ UNCHANGED <<stock, status, ledger, latest, contested, crossed>>
  BY DEF MarkReceived
<1>2. /\ req \in [Requests -> ReqState] /\ req[r] \in ReqState /\ req[r].lines \in Seq(Line)
      /\ crossed \subseteq Products
  BY RequestLines DEF TypeOK, MovesTypeOK
<1>3. req'[r] = [req[r] EXCEPT !.next = 1] /\ \A q \in Requests \ {r} : req'[q] = req[q]
  BY <1>1, <1>2
<1>4. /\ req'[r] \in ReqState
      /\ req'[r].op = req[r].op /\ req'[r].doc = req[r].doc /\ req'[r].lines = req[r].lines
      /\ req'[r].next = 1 /\ req'[r].read = req[r].read
  <2> DEFINE new == [req[r] EXCEPT !.next = 1]
  <2>1. new \in ReqState
    BY <1>2 DEF ReqState
  <2>2. /\ new.op = req[r].op /\ new.doc = req[r].doc /\ new.lines = req[r].lines
        /\ new.next = 1 /\ new.read = req[r].read
    BY <1>2 DEF ReqState
  <2>3. req'[r] = new
    BY <1>3
  <2> HIDE DEF new
  <2> QED
    BY <2>1, <2>2, <2>3
<1>5. req' \in [Requests -> ReqState]
  BY <1>1, <1>2, <1>3, <1>4
<1>6. Sane(r) /\ ~req[r].read.seen
  <2>1. Sane(r)
    BY DEF RequestsSane
  <2>2. req[r].next \notin DOMAIN req[r].lines
    BY <1>1, <1>2
  <2> QED
    BY <2>1, <2>2 DEF Sane
<1>7. Sane(r)'
  <2>1. Len(req[r].lines) \in Nat
    BY <1>2
  <2> QED
    BY <1>1, <1>4, <1>6, <2>1 DEF Sane, Busy
<1> QED
  BY <1>1, <1>2, <1>3, <1>4, <1>5, <1>6, <1>7 DEF GoesOn

-----------------------------------------------------------------------------
(* What a request is at stays sane when others write other things.         *)
LEMMA SaneKept ==
  ASSUME NEW q \in Requests, Sane(q), req'[q] = req[q],
         \A d \in Orders : status[d] # "NONE" => status'[d] # "NONE" /\ (d \in placed' <=> d \in placed)
  PROVE  Sane(q)'
BY DEF Sane

(* Who works on a document is the same while no request changes documents. *)
LEMMA SameWork ==
  ASSUME \A q \in Requests : req'[q].op = req[q].op /\ req'[q].doc = req[q].doc /\ req'[q].lines = req[q].lines
  PROVE  /\ \A d \in Documents : Working(d)' = Working(d)
         /\ \A q \in Requests : Busy(q)' <=> Busy(q)
BY DEF Working, Busy

(* The entries add up to the same where the ledger is the same.            *)
LEMMA EntriesSame ==
  ASSUME UNCHANGED <<ledger, placed>>, NEW p \in Products
  PROVE  Entries(p)' = Entries(p)
BY DEF Entries

(* What no poll does leaves alone what is said of polls.                   *)
LEMMA PollsApart ==
  ASSUME PollsSound, UNCHANGED pollVars, \A s \in Sales : status'[s] = status[s]
  PROVE  /\ PollsSound'
         /\ \A s \in Sales, p \in Products : Owing(s, p)' = Owing(s, p)
         /\ \A p \in Products : Surplus(p)' = Surplus(p)
<1>1. UNCHANGED <<poll, failed, voids, torn>>
  BY DEF pollVars
<1>2. \A k \in Polls : Knows(k) => Knows(k)'
  BY <1>1 DEF Knows
<1>3. VerdictsStand'
  BY <1>1 DEF PollsSound, VerdictsStand
<1>4. \A s \in Sales, p \in Products : Owing(s, p)' = Owing(s, p)
  BY <1>1 DEF Owing
<1>5. \A p \in Products : Surplus(p)' = Surplus(p)
  BY <1>1 DEF Surplus, Backs
<1> QED
  BY <1>2, <1>3, <1>4, <1>5 DEF PollsSound

(* The stock stays explained where neither it, the ledger nor a poll moves. *)
LEMMA ExplainedSame ==
  ASSUME Explained, UNCHANGED <<stock, ledger, placed, torn>>,
         \A p \in Products : Surplus(p)' = Surplus(p)
  PROVE  Explained'
BY EntriesSame DEF Explained

(* A request goes on.                                                      *)
LEMMA GoesOnInv ==
  ASSUME IInv, NEW r \in Requests, GoesOn(r), Rows', UNCHANGED <<placed, returnVars>>
  PROVE  IInv'
<1>1. /\ UNCHANGED <<stock, status, ledger, contested, latest, placed, returned, listed, unpaid>>
      /\ UNCHANGED <<poll, failed, voids, torn, pollVars>>
      /\ \A q \in Requests : req'[q].op = req[q].op /\ req'[q].doc = req[q].doc /\ req'[q].lines = req[q].lines
      /\ \A q \in Requests \ {r} : req'[q] = req[q]
  BY DEF GoesOn, returnVars, marks, pollVars
<1>2. /\ \A d \in Documents : Working(d)' = Working(d)
      /\ \A q \in Requests : Busy(q)' <=> Busy(q)
  BY <1>1, SameWork
<1>3. TypeOK' /\ OneStatusEach'
  BY <1>1 DEF IInv, TypeOK, MovesTypeOK, ReturnsTypeOK, OneStatusEach, GoesOn
<1>4. RequestsSane'
  <2> SUFFICES ASSUME NEW q \in Requests PROVE Sane(q)'
    BY DEF RequestsSane
  <2>1. CASE q = r
    BY <2>1 DEF GoesOn
  <2>2. CASE q # r
    BY <1>1, <2>2, SaneKept DEF IInv, RequestsSane
  <2> QED
    BY <2>1, <2>2
<1>7. /\ PollsSound'
      /\ \A s \in Sales, p \in Products : Owing(s, p)' = Owing(s, p)
      /\ \A p \in Products : Surplus(p)' = Surplus(p)
  BY <1>1, PollsApart DEF IInv
<1>5. Papers'
  <2>1. OneAtATime' /\ StatusStands'
    BY <1>1, <1>2 DEF IInv, Papers, OneAtATime, StatusStands
  <2>2. AppliedAsDecided' /\ UnwrittenIsUnmoved' /\ SaleEntries'
    BY <1>1, <1>7 DEF IInv, Papers, AppliedAsDecided, UnwrittenIsUnmoved, SaleEntries
  <2>3. \A s \in Sales : Working(s)' = Working(s) /\ Working(s) \subseteq Requests
    BY <1>2 DEF Documents, Working
  <2>4. UnpaidUnreturned'
    BY <1>1, <2>3 DEF IInv, Papers, UnpaidUnreturned
  <2>5. ReturnsFit'
    BY <1>1, <2>3 DEF IInv, Papers, ReturnsFit, Remains
  <2> QED
    BY <2>1, <2>2, <2>4, <2>5 DEF Papers
<1>6. Explained'
  BY <1>1, <1>7, ExplainedSame DEF IInv
<1> QED
  BY <1>3, <1>4, <1>5, <1>6, <1>7 DEF IInv

(* A request gives up.                                                     *)
LEMMA LeaveInv ==
  ASSUME IInv, NEW r \in Requests, Leave(r),
         UNCHANGED <<stock, status, ledger, latest, contested, crossed, placed, returnVars>>
  PROVE  IInv'
<1>0. UNCHANGED <<returned, listed, unpaid, poll, failed, voids, torn, pollVars>>
  BY DEF returnVars, marks, pollVars
<1>9. /\ PollsSound'
      /\ \A s \in Sales, p \in Products : Owing(s, p)' = Owing(s, p)
      /\ \A p \in Products : Surplus(p)' = Surplus(p)
  BY <1>0, PollsApart DEF IInv
<1>1. /\ req' \in [Requests -> ReqState]
      /\ req'[r] = Idle /\ \A q \in Requests \ {r} : req'[q] = req[q]
  BY LeaveEffect DEF IInv
<1>2. TypeOK' /\ OneStatusEach'
  BY <1>0, <1>1 DEF IInv, TypeOK, MovesTypeOK, ReturnsTypeOK, OneStatusEach
<1>3. RequestsSane'
  <2> SUFFICES ASSUME NEW q \in Requests PROVE Sane(q)'
    BY DEF RequestsSane
  <2>1. CASE q = r
    <3>1. Len(<<>>) = 0
      OBVIOUS
    <3> QED
      BY <1>1, <2>1, <3>1 DEF Sane, Idle, NotSeen
  <2>2. CASE q # r
    BY <1>1, <2>2, SaneKept DEF IInv, RequestsSane
  <2> QED
    BY <2>1, <2>2
<1>4. Rows'
  BY <1>0, <1>1, RowsQuiet DEF IInv, Idle, NotSeen
<1>5. NoDocument \notin Documents /\ req'[r].doc = NoDocument /\ ~Busy(r)'
  BY <1>1, DocumentsAssumption DEF Idle, Busy
<1>6. ASSUME NEW d \in Documents PROVE Working(d)' = Working(d) \ {r}
  BY <1>1, <1>5 DEF Working
<1>7. Papers'
  <2>1. OneAtATime'
    <3> SUFFICES ASSUME NEW a \in Requests, NEW b \in Requests,
                        Busy(a)', a # b, req'[b].doc = req'[a].doc, req'[a].doc \notin contested
                 PROVE  FALSE
      BY DEF OneAtATime
    <3>1. a # r /\ req'[a] = req[a] /\ Busy(a)
      BY <1>1, <1>5 DEF Busy
    <3>2. req[a].doc \in Documents
      BY <3>1, RequestLines DEF IInv
    <3>3. b # r
      BY <1>5, <3>1, <3>2
    <3> QED
      BY <1>1, <3>1, <3>3 DEF IInv, Papers, OneAtATime
  <2>2. StatusStands'
    <3> SUFFICES ASSUME NEW a \in Requests, req'[a].doc \in (Orders \cup Mutations) \ contested
                 PROVE  status[req'[a].doc] \in FoundAt(req'[a].op)
      BY DEF StatusStands
    <3>1. a # r
      BY <1>5 DEF Documents
    <3> QED
      BY <1>1, <3>1 DEF IInv, Papers, StatusStands
  <2>3. AppliedAsDecided' /\ UnwrittenIsUnmoved' /\ SaleEntries'
    BY <1>0, <1>9 DEF IInv, Papers, AppliedAsDecided, UnwrittenIsUnmoved, SaleEntries
  <2>4. \A s \in Sales : Working(s)' = Working(s) \ {r} /\ Working(s) \subseteq Requests
    BY <1>6 DEF Documents, Working
  <2>5. UnpaidUnreturned'
    BY <1>0, <2>4 DEF IInv, Papers, UnpaidUnreturned
  <2>6. ReturnsFit'
    BY <1>0, <1>1, <2>4 DEF IInv, Papers, ReturnsFit, Remains
  <2> QED
    BY <2>1, <2>2, <2>3, <2>5, <2>6 DEF Papers
<1>8. Explained'
  BY <1>0, <1>9, ExplainedSame DEF IInv
<1> QED
  BY <1>2, <1>3, <1>4, <1>7, <1>8, <1>9 DEF IInv

(* A request starts on a document.  What a return has to be like is left   *)
(* to the return.                                                          *)
LEMMA BeginInv ==
  ASSUME IInv, NEW r \in Requests, NEW d \in Documents, NEW op \in Operations,
         NEW lines \in Seq(Line), NEW from \in {0, 1}, Begin(r, d, op, lines, from),
         Sane(r)', UNCHANGED <<placed, returned, pollVars>>,
         d \in Orders \cup Mutations => status[d] \in FoundAt(op),
         op # "idle", listed' \subseteq Sales, unpaid' \subseteq Sales,
         UnpaidUnreturned', ReturnsFit'
  PROVE  IInv'
<1>0. UNCHANGED <<poll, failed, voids, torn>>
  BY DEF pollVars
<1>1. /\ req' \in [Requests -> ReqState] /\ req[r] = Idle
      /\ \A q \in Requests \ {r} : req'[q] = req[q]
      /\ req'[r].op = op /\ req'[r].doc = d
      /\ req'[r].next \in {0, 1} /\ ~req'[r].read.seen
      /\ contested' = IF Working(d) = {} THEN contested ELSE contested \cup {d}
      /\ UNCHANGED <<stock, status, ledger, latest, crossed>>
  BY BeginEffect DEF IInv, NotSeen
<1>2. TypeOK' /\ OneStatusEach'
  BY <1>0, <1>1 DEF IInv, TypeOK, MovesTypeOK, ReturnsTypeOK, OneStatusEach
<1>3. RequestsSane'
  <2> SUFFICES ASSUME NEW q \in Requests PROVE Sane(q)'
    BY DEF RequestsSane
  <2>1. CASE q = r
    BY <2>1
  <2>2. CASE q # r
    BY <1>1, <2>2, SaneKept DEF IInv, RequestsSane
  <2> QED
    BY <2>1, <2>2
<1>4. Rows'
  BY <1>0, <1>1, RowsQuiet DEF IInv
<1>5. ASSUME NEW a \in Requests, a # r, req'[a].doc = d PROVE d \in contested'
  BY <1>1, <1>5 DEF Working
<1>6. OneAtATime'
  <2> SUFFICES ASSUME NEW a \in Requests, NEW b \in Requests,
                      Busy(a)', a # b, req'[b].doc = req'[a].doc, req'[a].doc \notin contested'
               PROVE  FALSE
    BY DEF OneAtATime
  <2>1. a # r /\ b # r
    BY <1>1, <1>5
  <2>2. Busy(a) /\ req[b].doc = req[a].doc /\ req[a].doc \notin contested
    BY <1>1, <2>1 DEF Busy
  <2> QED
    BY <2>2 DEF IInv, Papers, OneAtATime
<1>7. StatusStands'
  <2> SUFFICES ASSUME NEW a \in Requests, req'[a].doc \in (Orders \cup Mutations) \ contested'
               PROVE  status[req'[a].doc] \in FoundAt(req'[a].op)
    BY <1>1 DEF StatusStands
  <2>1. CASE a = r
    BY <1>1, <2>1
  <2>2. CASE a # r
    BY <1>1, <2>2 DEF IInv, Papers, StatusStands
  <2> QED
    BY <2>1, <2>2
<1>10. /\ PollsSound'
       /\ \A s \in Sales, p \in Products : Owing(s, p)' = Owing(s, p)
       /\ \A p \in Products : Surplus(p)' = Surplus(p)
  BY <1>1, PollsApart DEF IInv
<1>8. AppliedAsDecided' /\ UnwrittenIsUnmoved' /\ SaleEntries'
  BY <1>0, <1>1, <1>10 DEF IInv, Papers, AppliedAsDecided, UnwrittenIsUnmoved, SaleEntries
<1>9. Explained'
  BY <1>0, <1>1, <1>10, ExplainedSame DEF IInv
<1> QED
  BY <1>2, <1>3, <1>4, <1>6, <1>7, <1>8, <1>9, <1>10 DEF IInv, Papers

-----------------------------------------------------------------------------
(* There are finitely many documents.                                      *)
LEMMA EntriesFinite ==
  ASSUME NEW S \in SUBSET Documents
  PROVE  IsFiniteSet(S)
BY DocumentsAssumption, FS_Subset

(* The entries add up to an integer.                                       *)
LEMMA EntriesType ==
  ASSUME TypeOK, NEW p \in Products
  PROVE  Entries(p) \in Int
<1> DEFINE D == Mutations \cup Sales \cup placed
           f == [d \in Documents |-> ledger[d][p]]
<1>1. D \in SUBSET Documents /\ \A d \in Documents : f[d] \in Int
  BY DEF TypeOK, MovesTypeOK, Documents
<1>2. Entries(p) = SumOver(f, D)
  BY DEF Entries
<1> HIDE DEF D, f
<1> QED
  BY <1>1, <1>2, EntriesFinite, SumType

(* The entries grow by what one document's entries grow by, if it counts.  *)
LEMMA EntriesGrow ==
  ASSUME TypeOK, ledger' \in [Documents -> [Products -> Int]], placed' = placed,
         NEW d \in Documents, NEW goods, NEW p \in Products, goods[p] \in Int,
         \A e \in Documents : ledger'[e][p] = ledger[e][p] + IF e = d THEN goods[p] ELSE 0
  PROVE  /\ Entries(p) \in Int
         /\ Entries(p)' = Entries(p) + IF d \in Mutations \cup Sales \cup placed THEN goods[p] ELSE 0
<1> DEFINE D == Mutations \cup Sales \cup placed
           f == [e \in Documents |-> ledger[e][p]]
           g == [e \in Documents |-> ledger'[e][p]]
<1>1. D \in SUBSET Documents /\ IsFiniteSet(D)
  <2>1. D \in SUBSET Documents
    BY DEF TypeOK, Documents
  <2> HIDE DEF D
  <2> QED
    BY <2>1, EntriesFinite
<1>2. \A e \in Documents : ledger[e][p] \in Int /\ ledger'[e][p] \in Int
  BY DEF TypeOK, MovesTypeOK
<1>3. \A e \in D : f[e] \in Int /\ g[e] \in Int
  BY <1>1, <1>2
<1>4. \A e \in D : g[e] = f[e] + IF e = d THEN goods[p] ELSE 0
  BY <1>1
<1>5. Entries(p) = SumOver(f, D) /\ Entries(p)' = SumOver(g, D)
  BY DEF Entries
<1> HIDE DEF D, f, g
<1>6. SumOver(f, D) \in Int
  BY <1>1, <1>3, SumType
<1>7. CASE d \in D
  <2>1. \A e \in D \ {d} : f[e] = g[e]
    BY <1>3, <1>4
  <2>2. SumOver(g, D) = SumOver(f, D) + (g[d] - f[d])
    BY <1>1, <1>3, <1>7, <2>1, SumUpdate
  <2>3. g[d] - f[d] = goods[p]
    BY <1>3, <1>4, <1>7
  <2> QED
    BY <1>5, <1>6, <1>7, <2>2, <2>3 DEF D
<1>8. CASE d \notin D
  <2>1. \A e \in D : f[e] = g[e]
    BY <1>3, <1>4, <1>8
  <2>2. SumOver(f, D) = SumOver(g, D)
    BY <1>1, <2>1, SumSame
  <2> QED
    BY <1>5, <1>6, <1>8, <2>2 DEF D
<1> QED
  BY <1>7, <1>8

(* What polls have not logged yet is a number of goods.                    *)
LEMMA SurplusType ==
  ASSUME TypeOK, PollsSound, NEW p \in Products
  PROVE  /\ \A k \in Polls : Backs(p)[k] \in Nat
         /\ Surplus(p) \in Int /\ Surplus(p) >= 0
<1>1. ASSUME NEW k \in Polls PROVE Backs(p)[k] \in Nat
  <2>1. CASE p \in poll[k].open
    <3>1. poll[k].sale \in Sales
      BY <2>1 DEF PollsSound, Knows
    <3> QED
      BY <2>1, <3>1, BoughtAssumption DEF Backs
  <2>2. CASE p \notin poll[k].open
    BY <2>2 DEF Backs
  <2> QED
    BY <2>1, <2>2
<1>2. \A k \in Polls : Backs(p)[k] \in Int
  BY <1>1
<1> QED
  BY <1>1, <1>2, PollsAssumption, SumType, SumBounds DEF Surplus

(* A transaction commits.  What is said of sales is left to returns.       *)
LEMMA CommitInv ==
  ASSUME IInv, NEW r \in Requests, NEW result \in Statuses(req[r].doc), Commit(r, result),
         result # "NONE", UNCHANGED <<placed, listed, unpaid, pollVars>>,
         req[r].doc \in Sales => result = status[req[r].doc],
         req[r].doc \in Orders \cup Mutations =>
           req[r].lines = (IF result \in Applied THEN LinesOf(req[r].doc) ELSE <<>>),
         returned' \in [Sales -> [Products -> Nat]],
         SaleEntries', UnpaidUnreturned', ReturnsFit'
  PROVE  IInv'
<1> DEFINE d     == req[r].doc
           goods == Total(req[r].lines)
<1>1. /\ d \in Documents /\ req' = [req EXCEPT ![r] = Idle]
      /\ status' = [status EXCEPT ![d] = result]
      /\ \A p \in Products : goods[p] \in Int
      /\ \A e \in Documents, p \in Products :
           ledger'[e][p] = ledger[e][p] + IF e = d THEN goods[p] ELSE 0
      /\ \A p \in Products : stock'[p] = stock[p] + IF Apart(r) THEN 0 ELSE goods[p]
      /\ ledger' \in [Documents -> [Products -> Int]]
      /\ stock' \in [Products -> Int] /\ latest' \in [Products -> Int]
      /\ contested' = contested /\ crossed' \subseteq Products
  <2>1. crossed \subseteq Products
    BY DEF IInv, TypeOK, MovesTypeOK
  <2> QED
    BY <2>1, CommitEffect DEF IInv
<1>0. UNCHANGED <<poll, failed, voids, torn>>
  BY DEF pollVars
<1>2. /\ req' \in [Requests -> ReqState]
      /\ req'[r] = Idle /\ \A q \in Requests \ {r} : req'[q] = req[q]
  BY <1>1, LeaveEffect DEF IInv, Leave
<1>3. Sane(r) /\ Busy(r) /\ stock \in [Products -> Int] /\ ledger \in [Documents -> [Products -> Int]]
  BY DEF IInv, TypeOK, MovesTypeOK, RequestsSane, Commit
<1>4. /\ \A e \in Documents : status'[e] = IF e = d THEN result ELSE status[e]
      /\ OneStatusEach'
  BY <1>1 DEF IInv, OneStatusEach
<1>5. TypeOK'
  <2>1. \A e \in Documents : status'[e] \in Statuses(e)
    BY <1>4 DEF IInv, TypeOK
  <2>2. MovesTypeOK'
    BY <1>1, <1>2 DEF IInv, TypeOK, MovesTypeOK
  <2>3. ReturnsTypeOK'
    BY <1>0 DEF IInv, TypeOK, ReturnsTypeOK
  <2> QED
    BY <2>1, <2>2, <2>3 DEF IInv, TypeOK
<1>6. RequestsSane'
  <2> SUFFICES ASSUME NEW q \in Requests PROVE Sane(q)'
    BY DEF RequestsSane
  <2>1. CASE q = r
    <3>1. Len(<<>>) = 0
      OBVIOUS
    <3> QED
      BY <1>2, <2>1, <3>1 DEF Sane, Idle, NotSeen
  <2>2. CASE q # r
    <3>1. \A e \in Orders : status[e] # "NONE" => status'[e] # "NONE" /\ (e \in placed' <=> e \in placed)
      BY <1>4 DEF Documents
    <3> QED
      BY <1>2, <2>2, <3>1, SaneKept DEF IInv, RequestsSane
  <2> QED
    BY <2>1, <2>2
<1>7. Rows'
  BY <1>0, RowsCommit DEF IInv
<1>14. /\ PollsSound'
       /\ \A p \in Products : Surplus(p)' = Surplus(p) /\ Surplus(p) \in Int
  <2>1. \A s \in Sales : status'[s] = status[s]
    BY <1>4 DEF Documents
  <2> QED
    BY <2>1, PollsApart, SurplusType DEF IInv
<1>8. NoDocument \notin Documents /\ req'[r].doc = NoDocument /\ ~Busy(r)'
  BY <1>2, DocumentsAssumption DEF Idle, Busy
<1> HIDE DEF goods
<1>9. OneAtATime'
  <2> SUFFICES ASSUME NEW a \in Requests, NEW b \in Requests,
                      Busy(a)', a # b, req'[b].doc = req'[a].doc, req'[a].doc \notin contested
               PROVE  FALSE
    BY <1>1 DEF OneAtATime
  <2>1. a # r /\ req'[a] = req[a] /\ Busy(a)
    BY <1>2, <1>8 DEF Busy
  <2>2. req[a].doc \in Documents
    BY <2>1, RequestLines DEF IInv
  <2>3. b # r
    BY <1>8, <2>1, <2>2
  <2> QED
    BY <1>2, <2>1, <2>3 DEF IInv, Papers, OneAtATime
<1>10. StatusStands'
  <2> SUFFICES ASSUME NEW a \in Requests, req'[a].doc \in (Orders \cup Mutations) \ contested
               PROVE  status'[req'[a].doc] \in FoundAt(req'[a].op)
    BY <1>1 DEF StatusStands
  <2>1. a # r /\ req'[a] = req[a]
    BY <1>2, <1>8 DEF Documents
  <2>2. req[a].doc # d
    BY <1>3, <2>1 DEF IInv, Papers, OneAtATime
  <2>3. req[a].doc \in Documents
    BY <2>1 DEF Documents
  <2> QED
    BY <1>4, <2>1, <2>2, <2>3 DEF IInv, Papers, StatusStands
<1>11. AppliedAsDecided'
  <2> SUFFICES ASSUME NEW e \in (Orders \cup Mutations) \ contested
               PROVE  ledger'[e] = IF status'[e] \in Applied THEN Total(LinesOf(e)) ELSE [p \in Products |-> 0]
    BY <1>1 DEF AppliedAsDecided
  <2>1. e \in Documents
    BY DEF Documents
  <2>2. /\ ledger[e] = IF status[e] \in Applied THEN Total(LinesOf(e)) ELSE [p \in Products |-> 0]
        /\ ledger[e] \in [Products -> Int] /\ ledger'[e] \in [Products -> Int]
    BY <1>1, <1>3, <2>1 DEF IInv, Papers, AppliedAsDecided
  <2>3. CASE e # d
    <3>1. \A p \in Products : ledger'[e][p] = ledger[e][p]
      BY <1>1, <2>1, <2>2, <2>3
    <3>2. ledger'[e] = ledger[e]
      BY <2>2, <3>1
    <3> QED
      BY <1>4, <2>1, <2>2, <2>3, <3>2
  <2>4. CASE e = d
    <3>1. status[d] \in FoundAt(req[r].op)
      BY <2>4 DEF IInv, Papers, StatusStands
    <3>2. status[d] \notin Applied
      BY <3>1 DEF FoundAt, Applied
    <3>3. \A p \in Products : ledger'[d][p] = goods[p]
      BY <1>1, <2>2, <2>4, <3>2
    <3>4. goods = [p \in Products |-> goods[p]]
      BY DEF goods, Total
    <3>5. ledger'[d] = goods
      BY <2>2, <2>4, <3>3, <3>4
    <3>6. req[r].lines = IF result \in Applied THEN LinesOf(d) ELSE <<>>
      BY <2>4
    <3>7. req[r].lines = <<>> => goods = [p \in Products |-> 0]
      BY TotalEmpty DEF goods, Nothing
    <3>8. status'[d] = result
      BY <1>1, <1>4
    <3> HIDE DEF d
    <3> QED
      BY <2>4, <3>5, <3>6, <3>7, <3>8 DEF goods
  <2> QED
    BY <2>3, <2>4
<1>12. UnwrittenIsUnmoved'
  <2> SUFFICES ASSUME NEW e \in Orders, status'[e] = "NONE" PROVE ledger'[e] = Nothing
    BY DEF UnwrittenIsUnmoved
  <2>1. e \in Documents
    BY DEF Documents
  <2>2. e # d /\ status[e] = "NONE"
    BY <1>4, <2>1
  <2>3. ledger[e] = Nothing
    BY <2>2 DEF IInv, Papers, UnwrittenIsUnmoved
  <2>4. \A p \in Products : ledger'[e][p] = 0
    BY <1>1, <1>3, <2>1, <2>2, <2>3 DEF Nothing
  <2> QED
    BY <1>1, <2>1, <2>4 DEF Nothing
<1>13. Explained'
  <2> SUFFICES ASSUME NEW p \in Products
               PROVE  /\ stock'[p] >= InitialStock[p] + Entries(p)' + Surplus(p)
                      /\ p \notin torn => stock'[p] = InitialStock[p] + Entries(p)' + Surplus(p)
    BY <1>0, <1>14 DEF Explained
  <2>1. /\ Entries(p) \in Int
        /\ Entries(p)' = Entries(p) + IF d \in Mutations \cup Sales \cup placed THEN goods[p] ELSE 0
    <3>1. /\ TypeOK /\ placed' = placed /\ d \in Documents /\ goods[p] \in Int
          /\ ledger' \in [Documents -> [Products -> Int]]
          /\ \A e \in Documents : ledger'[e][p] = ledger[e][p] + IF e = d THEN goods[p] ELSE 0
      BY <1>1 DEF IInv
    <3> HIDE DEF d
    <3> QED
      BY <3>1, EntriesGrow
  <2>2. /\ stock[p] >= InitialStock[p] + Entries(p) + Surplus(p)
        /\ p \notin torn => stock[p] = InitialStock[p] + Entries(p) + Surplus(p)
        /\ InitialStock[p] \in Int /\ Surplus(p) \in Int
    BY <1>14, StockAssumption DEF IInv, Explained
  <2>3. CASE Apart(r)
    <3>1. d \in Orders /\ d \notin placed
      BY <1>3, <2>3 DEF Sane, Apart
    <3>2. d \notin Mutations \cup Sales \cup placed
      BY <3>1, DocumentsAssumption
    <3> HIDE DEF d
    <3> QED
      BY <1>1, <1>3, <2>1, <2>2, <2>3, <3>2
  <2>4. CASE ~Apart(r) /\ d \in Mutations \cup Sales \cup placed
    BY <1>1, <1>3, <2>1, <2>2, <2>4
  <2>5. CASE ~Apart(r) /\ d \notin Mutations \cup Sales \cup placed
    <3>1. req[r].op = "cancel"
      <4>1. req[r].op \in Operations
        BY <1>3, RequestLines DEF IInv, Busy
      <4> QED
        BY <1>3, <2>5, <4>1 DEF Sane, Apart, Operations, Careless
    <3>2. goods[p] = 0
      BY <1>3, <3>1, TotalEmpty DEF Sane, goods, Nothing
    <3> QED
      BY <1>1, <1>3, <2>1, <2>2, <2>5, <3>2
  <2> QED
    BY <2>3, <2>4, <2>5
<1> QED
  BY <1>4, <1>5, <1>6, <1>7, <1>9, <1>10, <1>11, <1>12, <1>13, <1>14 DEF IInv, Papers

-----------------------------------------------------------------------------
(* What happens to orders and mutations leaves the sales alone.            *)
LEMMA SalesApart ==
  ASSUME Papers, UNCHANGED <<returned, listed, unpaid, poll, voids>>, contested \subseteq contested',
         \A s \in Sales : status'[s] = status[s] /\ ledger'[s] = ledger[s],
         \A q \in Requests : req'[q].doc \in Sales => req'[q] = req[q]
  PROVE  SaleEntries' /\ UnpaidUnreturned' /\ ReturnsFit'
<1>1. SaleEntries'
  BY DEF Papers, SaleEntries, Owing
<1>2. \A s \in Sales : Working(s)' \subseteq Working(s)
  BY DEF Working
<1>3. UnpaidUnreturned'
  BY <1>2 DEF Papers, UnpaidUnreturned
<1>4. ReturnsFit'
  <2> SUFFICES ASSUME NEW s \in Sales \ (contested' \cup listed)
               PROVE  /\ \A p \in Products : Remains(s, p) >= 0
                      /\ \A r \in Working(s)' :
                           /\ ~Twice(req'[r].lines)
                           /\ \A i \in DOMAIN req'[r].lines :
                                req'[r].lines[i].qty <= Remains(s, req'[r].lines[i].product)
    BY DEF ReturnsFit, Remains
  <2>1. \A r \in Working(s)' : r \in Working(s) /\ req'[r] = req[r]
    BY <1>2 DEF Working
  <2> QED
    BY <2>1 DEF Papers, ReturnsFit
<1> QED
  BY <1>1, <1>3, <1>4

(* A request starts on an order or a mutation.                             *)
LEMMA BeginDocument ==
  ASSUME IInv, NEW r \in Requests, NEW d \in Orders \cup Mutations, NEW op \in Operations,
         NEW lines \in Seq(Line), NEW from \in {0, 1}, Begin(r, d, op, lines, from),
         Sane(r)', UNCHANGED <<placed, returnVars>>, status[d] \in FoundAt(op)
  PROVE  IInv'
<1>1. d \in Documents /\ d \notin Sales /\ op # "idle"
  BY DocumentsAssumption DEF Documents, Operations, Careless
<1>2. /\ UNCHANGED <<returned, listed, unpaid, poll, voids, pollVars>>
      /\ listed \subseteq Sales /\ unpaid \subseteq Sales
  BY DEF returnVars, marks, pollVars, IInv, TypeOK, ReturnsTypeOK
<1>3. /\ \A q \in Requests \ {r} : req'[q] = req[q]
      /\ req'[r].doc = d /\ contested \subseteq contested'
      /\ UNCHANGED <<status, ledger>>
  BY <1>1, BeginEffect DEF IInv
<1>4. SaleEntries' /\ UnpaidUnreturned' /\ ReturnsFit'
  BY <1>1, <1>2, <1>3, SalesApart DEF IInv
<1> QED
  BY <1>1, <1>2, <1>4, BeginInv

(* A request commits what it decided of an order or a mutation.            *)
LEMMA CommitDocument ==
  ASSUME IInv, NEW r \in Requests, NEW result \in Statuses(req[r].doc), Commit(r, result),
         result # "NONE", UNCHANGED <<placed, returnVars>>,
         req[r].doc \in Orders \cup Mutations,
         req[r].lines = IF result \in Applied THEN LinesOf(req[r].doc) ELSE <<>>
  PROVE  IInv'
<1>1. /\ UNCHANGED <<returned, listed, unpaid, poll, voids, pollVars>>
      /\ returned \in [Sales -> [Products -> Nat]]
  BY DEF returnVars, marks, pollVars, IInv, TypeOK, ReturnsTypeOK
<1>2. /\ req' = [req EXCEPT ![r] = Idle] /\ status' = [status EXCEPT ![req[r].doc] = result]
      /\ \A d \in Documents, p \in Products :
           ledger'[d][p] = ledger[d][p] + IF d = req[r].doc THEN Total(req[r].lines)[p] ELSE 0
      /\ ledger' \in [Documents -> [Products -> Int]] /\ contested' = contested
  BY CommitEffect DEF IInv
<1>3. ledger \in [Documents -> [Products -> Int]] /\ req \in [Requests -> ReqState]
  BY DEF IInv, TypeOK, MovesTypeOK
<1>4. ASSUME NEW s \in Sales PROVE status'[s] = status[s] /\ ledger'[s] = ledger[s]
  <2>1. s \in Documents /\ s # req[r].doc
    BY DocumentsAssumption DEF Documents
  <2>2. \A p \in Products : ledger'[s][p] = ledger[s][p]
    BY <1>2, <1>3, <2>1
  <2>3. ledger'[s] = ledger[s]
    BY <1>2, <1>3, <2>1, <2>2
  <2> QED
    BY <1>2, <2>1, <2>3
<1>5. \A q \in Requests : req'[q].doc \in Sales => req'[q] = req[q]
  <2>1. Idle.doc \notin Sales
    BY DocumentsAssumption DEF Idle, Documents
  <2> QED
    BY <1>2, <1>3, <2>1
<1>6. SaleEntries' /\ UnpaidUnreturned' /\ ReturnsFit'
  BY <1>1, <1>2, <1>4, <1>5, SalesApart DEF IInv
<1>7. returned' \in [Sales -> [Products -> Nat]] /\ UNCHANGED <<placed, listed, unpaid, pollVars>>
  BY <1>1
<1>8. req[r].doc \notin Sales
  BY DocumentsAssumption
<1> QED
  BY <1>6, <1>7, <1>8, CommitInv

-----------------------------------------------------------------------------
(* A status is written.                                                    *)
LEMMA StatusWritten ==
  ASSUME TypeOK, OneStatusEach, NEW d \in Documents, NEW value \in Statuses(d),
         status' = [status EXCEPT ![d] = value]
  PROVE  /\ OneStatusEach'
         /\ \A e \in Documents : status'[e] = IF e = d THEN value ELSE status[e]
         /\ \A e \in Documents : status'[e] \in Statuses(e)
BY DEF OneStatusEach, TypeOK

(* An order or a mutation that nobody works on is written down.            *)
LEMMA WrittenInv ==
  ASSUME IInv, NEW d \in Orders \cup Mutations, NEW value \in Statuses(d) \ ({"NONE"} \cup Applied),
         status[d] = "NONE", Working(d) = {},
         status' = [status EXCEPT ![d] = value], placed' \in SUBSET Orders,
         placed \subseteq placed', placed' \subseteq placed \cup {d},
         UNCHANGED <<stock, ledger, latest, req, contested, crossed, returnVars>>
  PROVE  IInv'
<1>0. UNCHANGED <<returned, listed, unpaid, poll, failed, voids, torn, pollVars>>
  BY DEF returnVars, marks, pollVars
<1>1. d \in Documents /\ d \notin Sales
  BY DocumentsAssumption DEF Documents
<1>2. /\ OneStatusEach'
      /\ \A e \in Documents : status'[e] = IF e = d THEN value ELSE status[e]
      /\ \A e \in Documents : status'[e] \in Statuses(e)
  BY <1>1, StatusWritten DEF IInv
<1>3. TypeOK'
  BY <1>0, <1>2 DEF IInv, TypeOK, MovesTypeOK, ReturnsTypeOK
<1>4. RequestsSane'
  <2>1. \A e \in Orders : status[e] # "NONE" => status'[e] # "NONE" /\ (e \in placed' <=> e \in placed)
    BY <1>2 DEF Documents
  <2> QED
    BY <2>1, SaneKept DEF IInv, RequestsSane
<1>5. Rows'
  BY <1>0, RowsStay DEF IInv, Unlogged
<1>6. OneAtATime'
  BY DEF IInv, Papers, OneAtATime, Busy
<1>7. StatusStands'
  <2> SUFFICES ASSUME NEW a \in Requests, req[a].doc \in (Orders \cup Mutations) \ contested
               PROVE  status'[req[a].doc] \in FoundAt(req[a].op)
    BY DEF StatusStands
  <2>1. req[a].doc # d /\ req[a].doc \in Documents
    BY DEF Working, Documents
  <2> QED
    BY <1>2, <2>1 DEF IInv, Papers, StatusStands
<1>8. AppliedAsDecided'
  <2> SUFFICES ASSUME NEW e \in (Orders \cup Mutations) \ contested
               PROVE  ledger[e] = IF status'[e] \in Applied THEN Total(LinesOf(e)) ELSE [p \in Products |-> 0]
    BY DEF AppliedAsDecided
  <2>1. status'[e] \in Applied <=> status[e] \in Applied
    BY <1>2 DEF Documents, Applied
  <2> QED
    BY <2>1 DEF IInv, Papers, AppliedAsDecided
<1>9. UnwrittenIsUnmoved'
  BY <1>2 DEF IInv, Papers, UnwrittenIsUnmoved, Documents
<1>10. SaleEntries' /\ UnpaidUnreturned' /\ ReturnsFit'
  BY <1>0, <1>1, <1>2, SalesApart DEF IInv, Documents
<1>13. PollsSound' /\ \A p \in Products : Surplus(p)' = Surplus(p)
  BY <1>0, <1>1, <1>2, PollsApart DEF IInv, Documents
<1>11. ASSUME NEW p \in Products PROVE Entries(p)' = Entries(p)
  <2> DEFINE D == Mutations \cup Sales \cup placed
             f == [e \in Documents |-> ledger[e][p]]
  <2>1. D \in SUBSET Documents
    BY DEF IInv, TypeOK, Documents
  <2>2. IsFiniteSet(D) /\ \A e \in D \cup {d} : f[e] \in Int
    BY <1>1, <2>1, EntriesFinite DEF IInv, TypeOK, MovesTypeOK
  <2>3. Entries(p) = SumOver(f, D) /\ Entries(p)' = SumOver(f, Mutations \cup Sales \cup placed')
    BY DEF Entries
  <2>4. CASE d \in D \/ d \notin placed'
    <3>1. placed' = placed \/ (Mutations \cup Sales \cup placed') = D
      BY <2>4
    <3> QED
      BY <2>3, <3>1
  <2>5. CASE d \notin D /\ d \in placed'
    <3>1. d \in Orders /\ ledger[d] = Nothing
      BY <2>5 DEF IInv, Papers, UnwrittenIsUnmoved
    <3>2. f[d] = 0
      BY <1>1, <3>1 DEF Nothing
    <3>3. (Mutations \cup Sales \cup placed') = D \cup {d}
      BY <2>5
    <3> HIDE DEF f, D
    <3>4. SumOver(f, D \cup {d}) = SumOver(f, D) + 0
      BY <2>2, <2>5, <3>2, SumAdd
    <3>5. SumOver(f, D) \in Int
      BY <2>2, SumType
    <3>6. SumOver(f, D \cup {d}) = SumOver(f, D)
      BY <3>4, <3>5
    <3> QED
      BY <2>3, <3>3, <3>6
  <2> QED
    BY <2>4, <2>5
<1>12. Explained'
  BY <1>0, <1>11, <1>13 DEF IInv, Explained
<1> QED
  BY <1>2, <1>3, <1>4, <1>5, <1>6, <1>7, <1>8, <1>9, <1>10, <1>12, <1>13 DEF IInv, Papers

(* The statuses of each kind of document.                                  *)
LEMMA StatusesOf ==
  /\ \A d \in Orders : Statuses(d) = {"NONE", "DRAFT", "RECEIVED", "CANCELLED"}
  /\ \A d \in Mutations : Statuses(d) = {"NONE", "PENDING", "APPLIED", "APPROVED", "REJECTED"}
  /\ \A d \in Sales : Statuses(d) = {"PENDING", "COMPLETED", "VOID"}
BY DocumentsAssumption DEF Statuses

(* The operations on purchase orders.                                      *)
LEMMA OrderSteps ==
  ASSUME IInv, OrderStep, UNCHANGED returnVars
  PROVE  IInv'
<1>1. ASSUME NEW d \in Orders, CreatePO(d) PROVE IInv'
  <2>1. \A q \in Requests : req[q].doc # d
    <3> SUFFICES ASSUME NEW q \in Requests, req[q].doc = d PROVE FALSE
      OBVIOUS
    <3>1. status[d] = "NONE" /\ d \in Documents
      BY <1>1 DEF CreatePO, Documents
    <3>2. Busy(q)
      BY <3>1, RequestLines, DocumentsAssumption DEF IInv, Idle
    <3>3. Sane(q) /\ req[q].op \in Operations
      BY <3>2, RequestLines DEF IInv, RequestsSane, Busy
    <3> QED
      BY <3>1, <3>3, DocumentsAssumption DEF Sane, Operations, Careless
  <2>2. Working(d) = {}
    BY <2>1 DEF Working
  <2>3. "DRAFT" \in Statuses(d) \ ({"NONE"} \cup Applied)
    BY StatusesOf DEF Applied
  <2>4. placed \subseteq Orders
    BY DEF IInv, TypeOK
  <2> QED
    BY <1>1, <2>2, <2>3, <2>4, WrittenInv DEF CreatePO
<1>2. ASSUME NEW r \in Requests, NEW d \in Orders, Receive(r, d), UNCHANGED placed PROVE IInv'
  <2> DEFINE op == IF d \in placed THEN "receive" ELSE "receive_apart"
  <2>1. /\ op \in Operations /\ d \in Documents /\ Ordered[d] \in Seq(Line)
        /\ Begin(r, d, op, Ordered[d], 0) /\ status[d] = "DRAFT"
    BY <1>2, OrderedAssumption DEF Receive, Operations, Careless, Documents
  <2>2. \/ op = "receive" /\ d \in placed
        \/ op = "receive_apart" /\ d \notin placed
    OBVIOUS
  <2> HIDE DEF op
  <2>3. /\ req'[r].op = op /\ req'[r].doc = d /\ req'[r].lines = Ordered[d]
        /\ req'[r].next = 0 /\ req'[r].read = NotSeen /\ status' = status
    BY <2>1, BeginEffect DEF IInv
  <2>4. Sane(r)'
    <3>1. Len(Ordered[d]) \in Nat
      BY <2>1
    <3> QED
      BY <1>2, <2>1, <2>2, <2>3, <3>1 DEF Sane, NotSeen
  <2>5. status[d] \in FoundAt(op)
    BY <2>1, <2>2 DEF FoundAt
  <2> QED
    BY <1>2, <2>1, <2>4, <2>5, BeginDocument
<1>3. ASSUME NEW r \in Requests, NEW d \in Orders, CancelPO(r, d), UNCHANGED placed PROVE IInv'
  <2> DEFINE lines == <<>>
             from  == 1
  <2>1. /\ "cancel" \in Operations /\ d \in Documents /\ lines \in Seq(Line)
        /\ Begin(r, d, "cancel", lines, from) /\ status[d] \in {"DRAFT", "CANCELLED"}
        /\ from \in {0, 1}
    BY <1>3 DEF CancelPO, Operations, Documents
  <2>0. lines = <<>> /\ Len(lines) = 0 /\ from = 1
    OBVIOUS
  <2> HIDE DEF lines, from
  <2>2. /\ req'[r].op = "cancel" /\ req'[r].doc = d /\ req'[r].lines = lines
        /\ req'[r].next = from /\ req'[r].read = NotSeen /\ status' = status
    BY <2>1, BeginEffect DEF IInv
  <2>3. Sane(r)'
    BY <2>1, <2>2, <2>0 DEF Sane, NotSeen
  <2>4. status[d] \in FoundAt("cancel")
    BY <2>1 DEF FoundAt
  <2> QED
    BY <1>3, <2>1, <2>3, <2>4, BeginDocument
<1>4. ASSUME NEW r \in Requests, MarkReceived(r), UNCHANGED placed PROVE IInv'
  <2>1. GoesOn(r) /\ req'[r].next = 1 /\ ~req'[r].read.seen
    BY <1>4, MarkGoesOn DEF IInv
  <2>2. Rows'
    BY <1>4, <2>1, RowsQuiet DEF IInv, GoesOn, MarkReceived, returnVars, pollVars
  <2> QED
    BY <1>4, <2>1, <2>2, GoesOnInv
<1>5. ASSUME NEW r \in Requests, FinishReceive(r), UNCHANGED placed PROVE IInv'
  <2>1. Commit(r, "RECEIVED") /\ req[r].doc \in Orders /\ req[r].lines = Ordered[req[r].doc]
    BY <1>5 DEF FinishReceive, IInv, RequestsSane, Sane
  <2>2. "RECEIVED" \in Statuses(req[r].doc) /\ "RECEIVED" \in Applied /\ LinesOf(req[r].doc) = Ordered[req[r].doc]
    BY <2>1, StatusesOf DEF Applied, LinesOf
  <2> QED
    BY <1>5, <2>1, <2>2, CommitDocument
<1>6. ASSUME NEW r \in Requests, FinishCancelPO(r), UNCHANGED placed PROVE IInv'
  <2>1. Commit(r, "CANCELLED") /\ req[r].doc \in Orders /\ req[r].lines = <<>>
    BY <1>6 DEF FinishCancelPO, IInv, RequestsSane, Sane
  <2>2. "CANCELLED" \in Statuses(req[r].doc) /\ "CANCELLED" \notin Applied
    BY <2>1, StatusesOf DEF Applied
  <2> QED
    BY <1>6, <2>1, <2>2, CommitDocument
<1> QED
  BY <1>1, <1>2, <1>3, <1>4, <1>5, <1>6 DEF OrderStep

(* The operations on stock mutations.                                      *)
LEMMA MutationSteps ==
  ASSUME IInv, MutationStep, UNCHANGED <<placed, returnVars>>
  PROVE  IInv'
<1>1. ASSUME NEW d \in Mutations, AskMutation(d) PROVE IInv'
  <2>1. "PENDING" \in Statuses(d) \ ({"NONE"} \cup Applied)
    BY StatusesOf DEF Applied
  <2>2. placed \subseteq Orders
    BY DEF IInv, TypeOK
  <2> QED
    BY <1>1, <2>1, <2>2, WrittenInv DEF AskMutation
<1>2. ASSUME NEW r \in Requests, NEW d \in Mutations, NEW op \in {"adjust", "approve"},
             Begin(r, d, op, <<Delta[d]>>, 1), status[d] \in FoundAt(op)
      PROVE  IInv'
  <2> DEFINE lines == <<Delta[d]>>
             from  == 1
  <2>1. /\ op \in Operations /\ d \in Documents /\ lines \in Seq(Line)
        /\ Begin(r, d, op, lines, from)
        /\ from \in {0, 1}
    BY <1>2, DeltaAssumption DEF Operations, Documents
  <2>0. lines = <<Delta[d]>> /\ Len(lines) = 1 /\ from = 1
    OBVIOUS
  <2> HIDE DEF lines, from
  <2>2. /\ req'[r].op = op /\ req'[r].doc = d /\ req'[r].lines = lines
        /\ req'[r].next = from /\ req'[r].read = NotSeen
    BY <1>2, <2>1, BeginEffect DEF IInv
  <2>3. Sane(r)'
    BY <2>1, <2>2, <2>0 DEF Sane, NotSeen
  <2> QED
    BY <1>2, <2>1, <2>3, BeginDocument
<1>3. ASSUME NEW r \in Requests, NEW d \in Mutations, Adjust(r, d) PROVE IInv'
  BY <1>2, <1>3 DEF Adjust, FoundAt
<1>4. ASSUME NEW r \in Requests, NEW d \in Mutations, ApproveRequest(r, d) PROVE IInv'
  BY <1>2, <1>4 DEF ApproveRequest, FoundAt
<1>5. ASSUME NEW r \in Requests, NEW d \in Mutations, RejectRequest(r, d) PROVE IInv'
  <2> DEFINE lines == <<>>
             from  == 1
  <2>1. /\ "reject" \in Operations /\ d \in Documents /\ lines \in Seq(Line)
        /\ Begin(r, d, "reject", lines, from) /\ status[d] = "PENDING"
        /\ from \in {0, 1}
    BY <1>5 DEF RejectRequest, Operations, Documents
  <2>0. lines = <<>> /\ Len(lines) = 0 /\ from = 1
    OBVIOUS
  <2> HIDE DEF lines, from
  <2>2. /\ req'[r].op = "reject" /\ req'[r].doc = d /\ req'[r].lines = lines
        /\ req'[r].next = from /\ req'[r].read = NotSeen
    BY <2>1, BeginEffect DEF IInv
  <2>3. Sane(r)'
    BY <2>1, <2>2, <2>0 DEF Sane, NotSeen
  <2>4. status[d] \in FoundAt("reject")
    BY <2>1 DEF FoundAt
  <2> QED
    BY <2>1, <2>3, <2>4, BeginDocument
<1>6. ASSUME NEW r \in Requests, NEW result \in {"APPLIED", "APPROVED"},
             req[r].op \in {"adjust", "approve"}, Commit(r, result)
      PROVE  IInv'
  <2>1. req[r].doc \in Mutations /\ req[r].lines = <<Delta[req[r].doc]>>
    BY <1>6 DEF IInv, RequestsSane, Sane
  <2>2. result \in Statuses(req[r].doc) /\ result \in Applied /\ LinesOf(req[r].doc) = <<Delta[req[r].doc]>>
    BY <2>1, StatusesOf, DocumentsAssumption DEF Applied, LinesOf
  <2> QED
    BY <1>6, <2>1, <2>2, CommitDocument
<1>7. ASSUME NEW r \in Requests, FinishAdjust(r) \/ FinishApprove(r) PROVE IInv'
  BY <1>6, <1>7 DEF FinishAdjust, FinishApprove
<1>8. ASSUME NEW r \in Requests, FinishReject(r) PROVE IInv'
  <2>1. Commit(r, "REJECTED") /\ req[r].doc \in Mutations /\ req[r].lines = <<>>
    BY <1>8 DEF FinishReject, IInv, RequestsSane, Sane
  <2>2. "REJECTED" \in Statuses(req[r].doc) /\ "REJECTED" \notin Applied
    BY <2>1, StatusesOf DEF Applied
  <2> QED
    BY <2>1, <2>2, CommitDocument
<1> QED
  BY <1>1, <1>3, <1>4, <1>5, <1>7, <1>8 DEF MutationStep

-----------------------------------------------------------------------------
(* Finitely many polls owe entries.                                        *)
LEMMA OwingType ==
  ASSUME NEW s \in Sales, NEW p \in Products
  PROVE  IsFiniteSet(Owing(s, p)) /\ Cardinality(Owing(s, p)) \in Nat
<1>1. Owing(s, p) \subseteq Polls
  BY DEF Owing
<1>2. IsFiniteSet(Owing(s, p))
  BY <1>1, PollsAssumption, FS_Subset
<1> QED
  BY <1>2, FS_CardinalityType

(* A return starts.                                                        *)
LEMMA ReturnStarts ==
  ASSUME IInv, NEW r \in Requests, NEW s \in Sales, NEW lines \in ReturnLists,
         Return(r, s, lines), UNCHANGED placed
  PROVE  IInv'
<1>1. /\ "return" \in Operations /\ "return" # "idle" /\ s \in Documents /\ lines \in Seq(Line)
      /\ Begin(r, s, "return", lines, 1) /\ status[s] # "VOID"
      /\ \A i \in DOMAIN lines : lines[i].qty <= Remains(s, lines[i].product)
      /\ listed' = IF Twice(lines) THEN listed \cup {s} ELSE listed
      /\ unpaid' = IF status[s] = "PENDING" THEN unpaid \cup {s} ELSE unpaid
      /\ returned' = returned /\ UNCHANGED pollVars
  BY ReturnListsAssumption DEF Return, Operations, Careless, Documents, Remains
<1>2. /\ req'[r].op = "return" /\ req'[r].doc = s /\ req'[r].lines = lines
      /\ req'[r].next = 1 /\ req'[r].read = NotSeen /\ req[r] = Idle
      /\ \A q \in Requests \ {r} : req'[q] = req[q]
      /\ contested' = IF Working(s) = {} THEN contested ELSE contested \cup {s}
      /\ UNCHANGED <<status, ledger>>
  BY <1>1, BeginEffect DEF IInv
<1>3. Sane(r)'
  <2>1. Len(lines) \in Nat
    BY <1>1
  <2> QED
    BY <1>2, <2>1 DEF Sane, NotSeen
<1>4. listed' \subseteq Sales /\ unpaid' \subseteq Sales
  BY <1>1 DEF IInv, TypeOK, ReturnsTypeOK
<1>5. \A t \in Sales \ {s} : Working(t)' = Working(t)
  <2>1. NoDocument \notin Sales
    BY DocumentsAssumption DEF Documents
  <2> QED
    BY <1>2, <2>1 DEF Working, Idle
<1>6. UnpaidUnreturned'
  <2> SUFFICES ASSUME NEW t \in Sales \ unpaid', status[t] \in {"PENDING", "VOID"}
               PROVE  returned[t] = Nothing /\ Working(t)' = {}
    BY <1>1, <1>2 DEF UnpaidUnreturned
  <2>1. t # s /\ t \notin unpaid
    BY <1>1
  <2> QED
    BY <1>5, <2>1 DEF IInv, Papers, UnpaidUnreturned
<1>7. ReturnsFit'
  <2> SUFFICES ASSUME NEW t \in Sales \ (contested' \cup listed')
               PROVE  /\ \A p \in Products : Remains(t, p) >= 0
                      /\ \A q \in Working(t)' :
                           /\ ~Twice(req'[q].lines)
                           /\ \A i \in DOMAIN req'[q].lines :
                                req'[q].lines[i].qty <= Remains(t, req'[q].lines[i].product)
    BY <1>1 DEF ReturnsFit, Remains
  <2>1. t \notin contested /\ t \notin listed
    BY <1>1, <1>2
  <2>2. /\ \A p \in Products : Remains(t, p) >= 0
        /\ \A q \in Working(t) :
             /\ ~Twice(req[q].lines)
             /\ \A i \in DOMAIN req[q].lines : req[q].lines[i].qty <= Remains(t, req[q].lines[i].product)
    BY <2>1 DEF IInv, Papers, ReturnsFit
  <2>3. CASE t # s
    <3>1. \A q \in Working(t)' : q \in Working(t) /\ req'[q] = req[q]
      BY <1>2, <1>5, <2>3 DEF Working
    <3> QED
      BY <2>2, <3>1
  <2>4. CASE t = s
    <3>1. Working(s) = {} /\ ~Twice(lines)
      BY <1>1, <1>2, <2>4
    <3>2. \A q \in Working(s)' : q = r
      BY <1>2, <3>1 DEF Working
    <3> QED
      BY <1>1, <1>2, <2>2, <2>4, <3>1, <3>2
  <2> QED
    BY <2>3, <2>4
<1>8. s \in Orders \cup Mutations => status[s] \in FoundAt("return")
  BY DocumentsAssumption
<1> QED
  BY <1>1, <1>3, <1>4, <1>6, <1>7, <1>8, BeginInv

(* A return commits.                                                       *)
LEMMA ReturnEnds ==
  ASSUME IInv, NEW r \in Requests, FinishReturn(r), UNCHANGED placed
  PROVE  IInv'
<1> DEFINE s     == req[r].doc
           lines == req[r].lines
           goods == Total(lines)
<1>1. /\ req[r].op = "return" /\ Commit(r, status[s])
      /\ returned' = [returned EXCEPT ![s] = [p \in Products |-> returned[s][p] + goods[p]]]
      /\ UNCHANGED <<listed, unpaid, poll, voids, pollVars>>
  BY DEF FinishReturn, marks, pollVars
<1>2. /\ s \in Sales /\ s \in Documents /\ lines \in Seq(Line)
      /\ \A i \in DOMAIN lines : lines[i].qty > 0
      /\ returned \in [Sales -> [Products -> Nat]]
      /\ ledger \in [Documents -> [Products -> Int]]
      /\ req \in [Requests -> ReqState]
  BY <1>1, RequestLines
     DEF IInv, RequestsSane, Sane, Careless, Documents, TypeOK, MovesTypeOK, ReturnsTypeOK
<1>3. /\ req' = [req EXCEPT ![r] = Idle]
      /\ status' = [status EXCEPT ![s] = status[s]]
      /\ \A d \in Documents, p \in Products :
           ledger'[d][p] = ledger[d][p] + IF d = s THEN goods[p] ELSE 0
      /\ contested' = contested
  BY <1>1, CommitEffect DEF IInv
<1>4. goods \in [Products -> Nat]
  <2>1. goods \in [Products -> Int]
    BY <1>2, TotalType
  <2>2. \A p \in Products : goods[p] >= 0
    BY <1>2, TotalPositive
  <2> HIDE DEF goods
  <2> QED
    BY <2>1, <2>2
<1>5. \A d \in Documents : status'[d] = status[d]
  BY <1>3 DEF IInv, OneStatusEach
<1>6. status[s] \in Statuses(s) /\ status[s] # "NONE"
  <2>1. status[s] \in Statuses(s)
    BY <1>2 DEF IInv, TypeOK
  <2> HIDE DEF s
  <2> QED
    BY <1>2, <2>1, StatusesOf
<1>7. r \in Working(s)
  BY DEF Working
<1> HIDE DEF s, lines, goods
<1>8. /\ \A t \in Sales, p \in Products :
           returned'[t][p] = returned[t][p] + IF t = s THEN goods[p] ELSE 0
      /\ returned' \in [Sales -> [Products -> Nat]]
      /\ \A t \in Sales \ {s} : returned'[t] = returned[t]
  <2>1. [p \in Products |-> returned[s][p] + goods[p]] \in [Products -> Nat]
    BY <1>2, <1>4
  <2>2. returned' \in [Sales -> [Products -> Nat]]
    BY <1>1, <1>2, <2>1
  <2>3. \A t \in Sales : returned'[t] = IF t = s THEN [p \in Products |-> returned[s][p] + goods[p]] ELSE returned[t]
    BY <1>1, <1>2
  <2>4. ASSUME NEW t \in Sales, NEW p \in Products
        PROVE  returned'[t][p] = returned[t][p] + IF t = s THEN goods[p] ELSE 0
    <3>1. returned[t][p] \in Nat
      BY <1>2
    <3>2. CASE t = s
      BY <2>3, <3>2
    <3>3. CASE t # s
      <4>1. returned'[t][p] = returned[t][p]
        BY <2>3, <3>3
      <4> QED
        BY <3>1, <3>3, <4>1
    <3> QED
      BY <3>2, <3>3
  <2> QED
    BY <2>2, <2>3, <2>4
<1>9. SaleEntries'
  <2> DEFINE Logged(t, p) == (voids[t] - Cardinality(Owing(t, p))) * Bought[t][p]
  <2> SUFFICES ASSUME NEW t \in Sales, NEW p \in Products
               PROVE  ledger'[t][p] <= returned'[t][p] + Logged(t, p)
    BY <1>1 DEF SaleEntries, Owing
  <2>1. /\ t \in Documents /\ returned[t][p] \in Int /\ goods[p] \in Int /\ ledger[t][p] \in Int
        /\ Logged(t, p) \in Int
    <3>1. Bought[t][p] \in Int /\ voids[t] - Cardinality(Owing(t, p)) \in Int
      BY OwingType, BoughtAssumption DEF IInv, TypeOK, ReturnsTypeOK
    <3> QED
      BY <1>2, <1>4, <3>1 DEF Documents
  <2>2. ledger[t][p] <= returned[t][p] + Logged(t, p)
    BY DEF IInv, Papers, SaleEntries
  <2> HIDE DEF Logged
  <2> QED
    BY <1>3, <1>8, <2>1, <2>2
<1>10. \A t \in Sales : Working(t)' = Working(t) \ {r}
  <2>1. Idle.doc \notin Sales
    BY DocumentsAssumption DEF Idle, Documents
  <2> QED
    BY <1>2, <1>3, <2>1 DEF Working
<1>11. UnpaidUnreturned'
  <2> SUFFICES ASSUME NEW t \in Sales \ unpaid, status'[t] \in {"PENDING", "VOID"}
               PROVE  returned'[t] = Nothing /\ Working(t)' = {}
    BY <1>1 DEF UnpaidUnreturned
  <2>1. returned[t] = Nothing /\ Working(t) = {}
    BY <1>5 DEF IInv, Papers, UnpaidUnreturned, Documents
  <2>2. t # s
    BY <1>7, <2>1
  <2> QED
    BY <1>8, <1>10, <2>1, <2>2
<1>12. ReturnsFit'
  <2> DEFINE Left(t, p) == Bought[t][p] - returned'[t][p]
  <2> SUFFICES ASSUME NEW t \in Sales \ (contested \cup listed)
               PROVE  /\ \A p \in Products : Left(t, p) >= 0
                      /\ \A q \in Working(t)' :
                           /\ ~Twice(req'[q].lines)
                           /\ \A i \in DOMAIN req'[q].lines :
                                req'[q].lines[i].qty <= Left(t, req'[q].lines[i].product)
    BY <1>1, <1>3 DEF ReturnsFit, Remains
  <2>1. /\ \A p \in Products : Remains(t, p) >= 0
        /\ \A q \in Working(t) :
             /\ ~Twice(req[q].lines)
             /\ \A i \in DOMAIN req[q].lines : req[q].lines[i].qty <= Remains(t, req[q].lines[i].product)
    BY DEF IInv, Papers, ReturnsFit
  <2>2. CASE t # s
    <3>1. \A p \in Products : Left(t, p) = Remains(t, p)
      BY <1>8, <2>2 DEF Remains
    <3>2. \A q \in Working(t)' : q \in Working(t) /\ req'[q] = req[q]
      BY <1>2, <1>3, <1>10 DEF Working
    <3>3. ASSUME NEW q \in Working(t)', NEW i \in DOMAIN req[q].lines
          PROVE  req[q].lines[i].product \in Products
      <4>1. req[q].lines \in Seq(Line)
        BY <3>2, RequestLines DEF IInv, Working
      <4>2. req[q].lines[i] \in Line
        BY <4>1
      <4> QED
        BY <4>2 DEF Line
    <3>4. ASSUME NEW q \in Working(t)', NEW i \in DOMAIN req'[q].lines
          PROVE  req'[q].lines[i].qty <= Left(t, req'[q].lines[i].product)
      <4>1. req[q].lines[i].qty <= Remains(t, req[q].lines[i].product)
        BY <2>1, <3>2, <3>4
      <4>2. req[q].lines[i].product \in Products
        BY <3>2, <3>3, <3>4
      <4> HIDE DEF Left
      <4> QED
        BY <3>1, <3>2, <4>1, <4>2
    <3> QED
      BY <2>1, <3>1, <3>2, <3>4
  <2>3. CASE t = s
    <3>1. \A q \in Working(s) : q = r
      BY <1>1, <2>3 DEF IInv, Papers, OneAtATime, Working, Busy, s
    <3>2. Working(t)' = {}
      BY <1>10, <2>3, <3>1
    <3>3. ~Twice(lines) /\ \A i \in DOMAIN lines : lines[i].qty <= Remains(s, lines[i].product)
      BY <1>7, <2>1, <2>3 DEF lines
    <3>4. ASSUME NEW p \in Products PROVE goods[p] <= Remains(s, p)
      <4>1. CASE \E i \in DOMAIN lines : lines[i].product = p
        <5>1. PICK i \in DOMAIN lines : lines[i].product = p
          BY <4>1
        <5>2. goods[p] = lines[i].qty
          BY <1>2, <3>3, <5>1, TotalOnce DEF goods
        <5> QED
          BY <3>3, <5>1, <5>2
      <4>2. CASE ~ \E i \in DOMAIN lines : lines[i].product = p
        <5>1. goods[p] = 0
          BY <1>2, <4>2, TotalUnnamed DEF goods
        <5> QED
          BY <2>1, <2>3, <5>1
      <4> QED
        BY <4>1, <4>2
    <3>5. ASSUME NEW p \in Products PROVE Left(t, p) >= 0
      <4>1. Left(t, p) = Bought[t][p] - (returned[t][p] + goods[p])
        BY <1>8, <2>3 DEF Remains
      <4>2. Bought[t][p] \in Int /\ returned[t][p] \in Int /\ goods[p] \in Int
        BY <1>2, <1>4, BoughtAssumption
      <4>3. goods[p] <= Bought[t][p] - returned[t][p]
        BY <2>3, <3>4 DEF Remains
      <4> QED
        BY <4>1, <4>2, <4>3
    <3> QED
      BY <3>2, <3>5
  <2> QED
    BY <2>2, <2>3
<1>13. req[r].doc \in Orders \cup Mutations =>
         req[r].lines = IF status[s] \in Applied THEN LinesOf(req[r].doc) ELSE <<>>
  BY <1>2, DocumentsAssumption DEF s
<1>14. s \in Sales => status[s] = status[s]
  OBVIOUS
<1> QED
  BY <1>1, <1>6, <1>8, <1>9, <1>11, <1>12, <1>13, <1>14, CommitInv DEF s

-----------------------------------------------------------------------------
(* What the steps of a poll have in common.                                *)
LEMMA PollInv ==
  ASSUME IInv, UNCHANGED <<req, contested, placed, returned, failed, marks>>,
         stock' \in [Products -> Int], latest' \in [Products -> Int],
         ledger' \in [Documents -> [Products -> Int]], crossed' \subseteq Products,
         poll' \in [Polls -> PollState], voids' \in [Sales -> Nat], torn' \subseteq Products,
         OneStatusEach', \A d \in Documents : status'[d] \in Statuses(d),
         \A d \in Orders \cup Mutations : status'[d] = status[d] /\ ledger'[d] = ledger[d],
         \A s \in Sales : status'[s] \in {"PENDING", "VOID"} => status[s] \in {"PENDING", "VOID"},
         Rows', SaleEntries', PollsSound', Explained'
  PROVE  IInv'
<1>1. UNCHANGED <<listed, unpaid>>
  BY DEF marks
<1>2. TypeOK'
  BY <1>1 DEF IInv, TypeOK, MovesTypeOK, ReturnsTypeOK
<1>3. RequestsSane'
  BY SaneKept DEF IInv, RequestsSane
<1>4. OneAtATime' /\ StatusStands' /\ AppliedAsDecided' /\ UnwrittenIsUnmoved'
  <2>1. OneAtATime'
    BY DEF IInv, Papers, OneAtATime, Busy
  <2>2. StatusStands'
    BY DEF IInv, Papers, StatusStands
  <2>3. AppliedAsDecided'
    BY DEF IInv, Papers, AppliedAsDecided
  <2>4. UnwrittenIsUnmoved'
    BY DEF IInv, Papers, UnwrittenIsUnmoved
  <2> QED
    BY <2>1, <2>2, <2>3, <2>4
<1>5. UnpaidUnreturned'
  <2>1. \A s \in Sales : Working(s)' = Working(s)
    BY DEF Working
  <2> QED
    BY <1>1, <2>1 DEF IInv, Papers, UnpaidUnreturned
<1>6. ReturnsFit'
  BY <1>1 DEF IInv, Papers, ReturnsFit, Remains, Working
<1> QED
  BY <1>2, <1>3, <1>4, <1>5, <1>6 DEF IInv, Papers

(* What a step of poll k leaves of the others.                             *)
LEMMA BecomeEffect ==
  ASSUME TypeOK, NEW k \in Polls, NEW value \in PollState, Become(k, value)
  PROVE  /\ poll' \in [Polls -> PollState] /\ poll'[k] = value
         /\ \A j \in Polls \ {k} : poll'[j] = poll[j]
BY DEF TypeOK, ReturnsTypeOK, Become

(* The idle poll.                                                          *)
LEMMA NoPollIs ==
  /\ NoPoll \in PollState /\ NoPoll.step = "idle" /\ NoPoll.sale = NoDocument
  /\ NoPoll.left = {} /\ NoPoll.open = {}
BY DEF NoPoll, PollState

(* What the other polls know stays so.                                     *)
LEMMA OthersKnow ==
  ASSUME \A j \in Polls : Knows(j), NEW k \in Polls, \A j \in Polls \ {k} : poll'[j] = poll[j],
         failed' = failed, Knows(k)', VerdictsStand'
  PROVE  PollsSound'
BY DEF PollsSound, Knows

(* Who owes what stays so but for the poll that steps.                     *)
LEMMA OwingMoves ==
  ASSUME NEW k \in Polls, \A j \in Polls \ {k} : poll'[j] = poll[j],
         NEW s \in Sales, NEW p \in Products
  PROVE  /\ k \in Owing(s, p)' <=> poll'[k].sale = s /\ p \in poll'[k].left \cup poll'[k].open
         /\ k \in Owing(s, p) <=> poll[k].sale = s /\ p \in poll[k].left \cup poll[k].open
         /\ Owing(s, p)' \ {k} = Owing(s, p) \ {k}
         /\ (k \in Owing(s, p)' <=> k \in Owing(s, p)) => Owing(s, p)' = Owing(s, p)
BY DEF Owing

(* The entries of a sale are bounded by what its voids owe no more.        *)
LEMMA SaleEntriesKept ==
  ASSUME IInv, UNCHANGED <<ledger, returned, voids>>,
         \A s \in Sales, p \in Products : Owing(s, p)' \subseteq Owing(s, p)
  PROVE  SaleEntries'
<1> SUFFICES ASSUME NEW s \in Sales, NEW p \in Products
             PROVE  ledger[s][p] <= returned[s][p] + (voids[s] - Cardinality(Owing(s, p)')) * Bought[s][p]
  BY DEF SaleEntries
<1> DEFINE c == Cardinality(Owing(s, p))
           d == Cardinality(Owing(s, p)')
           B == Bought[s][p]
<1>1. c \in Nat /\ IsFiniteSet(Owing(s, p))
  BY OwingType
<1>2. d \in Nat /\ d <= c
  BY <1>1, FS_Subset, FS_CardinalityType
<1>3. B \in Nat /\ voids[s] \in Nat /\ returned[s][p] \in Nat /\ s \in Documents
  BY BoughtAssumption DEF IInv, TypeOK, ReturnsTypeOK, Documents
<1>4. ledger[s][p] <= returned[s][p] + (voids[s] - c) * B /\ ledger[s][p] \in Int
  BY <1>3 DEF IInv, Papers, SaleEntries, TypeOK, MovesTypeOK
<1> HIDE DEF c, d, B
<1>5. (voids[s] - d) * B = (voids[s] - c) * B + (c - d) * B
  BY <1>1, <1>2, <1>3
<1>6. (c - d) * B >= 0
  BY <1>1, <1>2, <1>3
<1>7. (voids[s] - c) * B \in Int /\ (c - d) * B \in Int
  BY <1>1, <1>2, <1>3
<1>8. ledger[s][p] <= returned[s][p] + (voids[s] - d) * B
  BY <1>3, <1>4, <1>5, <1>6, <1>7
<1> QED
  BY <1>8 DEF d, B

(* What is on its way changes as much as what one poll has under way.      *)
LEMMA SurplusMoves ==
  ASSUME TypeOK, PollsSound, PollsSound', NEW k \in Polls, \A j \in Polls \ {k} : poll'[j] = poll[j],
         NEW p \in Products
  PROVE  /\ Surplus(p)' = Surplus(p) + (Backs(p)'[k] - Backs(p)[k])
         /\ Surplus(p) \in Int /\ Backs(p)[k] \in Nat /\ Backs(p)'[k] \in Nat
<1>1. \A j \in Polls : Backs(p)[j] \in Nat
  BY SurplusType
<1>2. \A j \in Polls \ {k} : Backs(p)[j] = Backs(p)'[j]
  BY DEF Backs
<1>3. Backs(p)'[k] \in Nat
  <2>1. CASE p \in poll'[k].open
    <3>1. poll'[k].sale \in Sales
      BY <2>1 DEF PollsSound, Knows
    <3> QED
      BY <2>1, <3>1, BoughtAssumption DEF Backs
  <2>2. CASE p \notin poll'[k].open
    BY <2>2 DEF Backs
  <2> QED
    BY <2>1, <2>2
<1> DEFINE f == Backs(p)
           g == Backs(p)'
<1>4. \A j \in Polls : f[j] \in Int /\ g[j] \in Int
  BY <1>1, <1>2, <1>3
<1>5. \A j \in Polls \ {k} : f[j] = g[j]
  BY <1>2
<1>6. Surplus(p) = SumOver(f, Polls) /\ Surplus(p)' = SumOver(g, Polls)
  BY DEF Surplus
<1>7. f[k] \in Nat /\ g[k] \in Nat
  BY <1>1, <1>3
<1> HIDE DEF f, g
<1>8. SumOver(g, Polls) = SumOver(f, Polls) + (g[k] - f[k])
  BY <1>4, <1>5, PollsAssumption, SumUpdate
<1>9. SumOver(f, Polls) \in Int
  BY <1>4, PollsAssumption, SumType
<1> QED
  BY <1>6, <1>7, <1>8, <1>9 DEF f, g

(* The ledger entry of what a poll has put back on a row.                  *)
LEMMA RowsLog ==
  ASSUME TypeOK, Rows, NEW k \in Polls, NEW p \in Products, poll[k].open = {p},
         UNCHANGED <<stock, req, crossed, torn>>, poll'[k].open = {},
         \A j \in Polls \ {k} : poll'[j] = poll[j],
         latest' = [latest EXCEPT ![p] = poll[k].level]
  PROVE  Rows'
<1>1. \A q \in Requests, x \in Products :
        /\ Holds(q, x)' <=> Holds(q, x)
        /\ Watches(q, x)' <=> Watches(q, x)
        /\ Level(q, x)' = Level(q, x)
  BY OthersStay
<1>2. RowsExclude' /\ WatchedRowsCross' /\ HeldRowsSuffice' /\ LevelsKnown'
  BY <1>1 DEF Rows, RowsExclude, WatchedRowsCross, HeldRowsSuffice, LevelsKnown
<1>3. \A j \in Polls, x \in Products : x \in poll'[j].open => j # k /\ poll'[j] = poll[j]
  OBVIOUS
<1>4. BacksCross' /\ BacksKnown'
  BY <1>3 DEF Rows, BacksCross, BacksKnown
<1>5. StockNeverNegative'
  BY DEF Rows, StockNeverNegative
<1>6. LatestEntryIsStock'
  <2> SUFFICES ASSUME NEW x \in Products, x \notin crossed, x \notin torn, ~Unlogged(x)'
               PROVE  latest'[x] = stock[x]
    BY DEF LatestEntryIsStock
  <2>1. latest \in [Products -> Int]
    BY DEF TypeOK, MovesTypeOK
  <2>2. CASE x = p
    BY <2>1, <2>2 DEF Rows, BacksKnown
  <2>3. CASE x # p
    <3>1. ~Unlogged(x)
      BY <2>3 DEF Unlogged
    <3> QED
      BY <2>1, <2>3, <3>1 DEF Rows, LatestEntryIsStock
  <2> QED
    BY <2>2, <2>3
<1> QED
  BY <1>2, <1>4, <1>5, <1>6 DEF Rows

(* A poll that has nothing under way changes no sum.                       *)
LEMMA ExplainedQuiet ==
  ASSUME IInv, UNCHANGED <<stock, ledger, placed, torn>>, PollsSound', NEW k \in Polls,
         \A j \in Polls \ {k} : poll'[j] = poll[j], poll[k].open = {}, poll'[k].open = {}
  PROVE  Explained'
<1>1. \A p \in Products : Backs(p)'[k] = 0 /\ Backs(p)[k] = 0
  BY DEF Backs
<1>2. \A p \in Products : Surplus(p)' = Surplus(p)
  BY <1>1, SurplusMoves DEF IInv
<1> QED
  BY <1>2, ExplainedSame DEF IInv

(* A poll finds the sale pending, and knows what Midtrans decided.         *)
LEMMA StartPollInv ==
  ASSUME IInv, NEW k \in Polls, NEW s \in Sales, StartPoll(k, s), UNCHANGED placed
  PROVE  IInv'
<1> DEFINE step  == IF s \in failed THEN "voiding" ELSE "settling"
           value == [NoPoll EXCEPT !.step = step, !.sale = s]
<1>1. /\ poll[k].step = "idle" /\ status[s] = "PENDING" /\ Become(k, value)
      /\ UNCHANGED <<stock, status, ledger, latest, req, contested, crossed, returned, failed, marks, voids, torn>>
  BY DEF StartPoll
<1>2. step \in {"voiding", "settling"} /\ (step = "voiding" <=> s \in failed)
  OBVIOUS
<1> HIDE DEF step
<1>3. /\ value \in PollState /\ value.step = step /\ value.sale = s
      /\ value.left = {} /\ value.open = {}
  BY <1>2, NoPollIs DEF PollState
<1> HIDE DEF value
<1>4. /\ poll' \in [Polls -> PollState] /\ poll'[k] = value
      /\ \A j \in Polls \ {k} : poll'[j] = poll[j]
  BY <1>1, <1>3, BecomeEffect DEF IInv
<1>5. poll[k].open = {} /\ poll[k].left = {}
  BY <1>1 DEF IInv, PollsSound, Knows
<1>6. PollsSound'
  <2>1. Knows(k)'
    BY <1>1, <1>2, <1>3, <1>4 DEF Knows
  <2>2. VerdictsStand'
    BY <1>1 DEF IInv, PollsSound, VerdictsStand
  <2> QED
    BY <1>1, <1>4, <2>1, <2>2, OthersKnow DEF IInv, PollsSound
<1>7. Rows'
  <2>1. \A j \in Polls, p \in Products : p \in poll'[j].open <=> p \in poll[j].open
    BY <1>3, <1>4, <1>5
  <2>2. \A j \in Polls, p \in Products : p \in poll'[j].open => poll'[j].level = poll[j].level
    BY <1>3, <1>4
  <2>3. \A p \in Products : Unlogged(p) => Unlogged(p)'
    BY <2>1 DEF Unlogged
  <2> QED
    BY <1>1, <2>1, <2>2, <2>3, RowsStay DEF IInv
<1>8. SaleEntries'
  <2>1. \A t \in Sales, p \in Products : Owing(t, p)' \subseteq Owing(t, p)
    BY <1>3, <1>4, <1>5 DEF Owing
  <2> QED
    BY <1>1, <2>1, SaleEntriesKept
<1>9. Explained'
  BY <1>1, <1>3, <1>4, <1>5, <1>6, ExplainedQuiet
<1>10. /\ stock' \in [Products -> Int] /\ latest' \in [Products -> Int]
       /\ ledger' \in [Documents -> [Products -> Int]] /\ crossed' \subseteq Products
       /\ voids' \in [Sales -> Nat] /\ torn' \subseteq Products
       /\ OneStatusEach' /\ \A d \in Documents : status'[d] \in Statuses(d)
  BY <1>1 DEF IInv, TypeOK, MovesTypeOK, ReturnsTypeOK, OneStatusEach
<1> QED
  BY <1>1, <1>4, <1>6, <1>7, <1>8, <1>9, <1>10, PollInv

(* What the write of a sale's status does to the statuses.                 *)
LEMMA VerdictWritten ==
  ASSUME IInv, NEW s \in Sales, NEW result \in {"COMPLETED", "VOID"},
         status' = [status EXCEPT ![s] = result]
  PROVE  /\ status'[s] = result /\ \A d \in Documents \ {s} : status'[d] = status[d]
         /\ OneStatusEach' /\ \A d \in Documents : status'[d] \in Statuses(d)
         /\ s \in Documents /\ \A d \in Orders \cup Mutations : status'[d] = status[d]
<1>1. status = [d \in Documents |-> status[d]] /\ s \in Documents
  BY DEF IInv, OneStatusEach, Documents
<1>2. status'[s] = result /\ \A d \in Documents \ {s} : status'[d] = status[d]
  BY <1>1
<1>3. status' = [d \in Documents |-> status'[d]]
  BY <1>1
<1>4. \A d \in Orders \cup Mutations : d \in Documents \ {s}
  BY DocumentsAssumption DEF Documents
<1>5. result \in Statuses(s)
  BY StatusesOf
<1> QED
  BY <1>1, <1>2, <1>3, <1>4, <1>5 DEF IInv, TypeOK, OneStatusEach

(* A poll completes a sale.                                                *)
LEMMA SettleInv ==
  ASSUME IInv, NEW k \in Polls, SettleSale(k), UNCHANGED placed
  PROVE  IInv'
<1> DEFINE s == poll[k].sale
<1>1. /\ poll[k].step = "settling" /\ Become(k, NoPoll)
      /\ status' = [status EXCEPT ![s] = "COMPLETED"]
      /\ UNCHANGED <<stock, ledger, latest, req, contested, crossed, returned, failed, marks, voids, torn>>
  BY DEF SettleSale
<1>2. s \in Sales /\ s \notin failed /\ poll[k].open = {} /\ poll[k].left = {}
  BY <1>1 DEF IInv, PollsSound, Knows
<1> HIDE DEF s
<1>3. /\ poll' \in [Polls -> PollState] /\ poll'[k] = NoPoll
      /\ \A j \in Polls \ {k} : poll'[j] = poll[j]
  BY <1>1, NoPollIs, BecomeEffect DEF IInv
<1>4. /\ status'[s] = "COMPLETED" /\ \A d \in Documents \ {s} : status'[d] = status[d]
      /\ OneStatusEach' /\ \A d \in Documents : status'[d] \in Statuses(d)
      /\ \A d \in Orders \cup Mutations : status'[d] = status[d]
  BY <1>1, <1>2, VerdictWritten
<1>5. PollsSound'
  <2>1. Knows(k)'
    BY <1>3, NoPollIs DEF Knows
  <2>2. VerdictsStand'
    BY <1>1, <1>2, <1>4 DEF IInv, PollsSound, VerdictsStand, Documents, TypeOK, ReturnsTypeOK
  <2> QED
    BY <1>1, <1>3, <2>1, <2>2, OthersKnow DEF IInv, PollsSound
<1>6. Rows'
  <2>1. \A j \in Polls, p \in Products : p \in poll'[j].open <=> p \in poll[j].open
    BY <1>2, <1>3, NoPollIs
  <2>2. \A j \in Polls, p \in Products : p \in poll'[j].open => poll'[j].level = poll[j].level
    BY <1>3, NoPollIs
  <2>3. \A p \in Products : Unlogged(p) => Unlogged(p)'
    BY <2>1 DEF Unlogged
  <2> QED
    BY <1>1, <2>1, <2>2, <2>3, RowsStay DEF IInv
<1>7. SaleEntries'
  <2>1. \A t \in Sales, p \in Products : Owing(t, p)' \subseteq Owing(t, p)
    BY <1>3, NoPollIs DEF Owing
  <2> QED
    BY <1>1, <2>1, SaleEntriesKept
<1>8. Explained'
  BY <1>1, <1>2, <1>3, <1>5, NoPollIs, ExplainedQuiet
<1>9. /\ stock' \in [Products -> Int] /\ latest' \in [Products -> Int]
      /\ ledger' \in [Documents -> [Products -> Int]] /\ crossed' \subseteq Products
      /\ voids' \in [Sales -> Nat] /\ torn' \subseteq Products
  BY <1>1 DEF IInv, TypeOK, MovesTypeOK, ReturnsTypeOK
<1>10. \A t \in Sales : status'[t] \in {"PENDING", "VOID"} => status[t] \in {"PENDING", "VOID"}
  BY <1>2, <1>4 DEF Documents
<1> QED
  BY <1>1, <1>3, <1>4, <1>5, <1>6, <1>7, <1>8, <1>9, <1>10, PollInv

(* A poll voids a sale, and owes the entries of all of its goods.          *)
LEMMA VoidInv ==
  ASSUME IInv, NEW k \in Polls, VoidSale(k), UNCHANGED placed
  PROVE  IInv'
<1> DEFINE s     == poll[k].sale
           goods == {p \in Products : Bought[s][p] > 0}
           value == [poll[k] EXCEPT !.step = "back", !.left = goods]
<1>1. /\ poll[k].step = "voiding" /\ Become(k, value)
      /\ status' = [status EXCEPT ![s] = "VOID"]
      /\ voids' = [voids EXCEPT ![s] = voids[s] + 1]
      /\ UNCHANGED <<stock, ledger, latest, req, contested, crossed, returned, failed, marks, torn>>
  BY DEF VoidSale
<1>2. s \in Sales /\ s \in failed /\ poll[k].open = {} /\ poll[k].left = {} /\ poll[k] \in PollState
  BY <1>1 DEF IInv, PollsSound, Knows, TypeOK, ReturnsTypeOK
<1>3. /\ value \in PollState /\ value.step = "back" /\ value.sale = s
      /\ value.left = goods /\ value.open = {}
  BY <1>2 DEF PollState
<1>4. \A p \in Products : p \in goods <=> Bought[s][p] > 0
  OBVIOUS
<1> HIDE DEF s, goods, value
<1>5. /\ poll' \in [Polls -> PollState] /\ poll'[k] = value
      /\ \A j \in Polls \ {k} : poll'[j] = poll[j]
  BY <1>1, <1>3, BecomeEffect DEF IInv
<1>6. /\ status'[s] = "VOID" /\ \A d \in Documents \ {s} : status'[d] = status[d]
      /\ OneStatusEach' /\ \A d \in Documents : status'[d] \in Statuses(d)
      /\ \A d \in Orders \cup Mutations : status'[d] = status[d]
  BY <1>1, <1>2, VerdictWritten
<1>7. /\ voids \in [Sales -> Nat] /\ voids' \in [Sales -> Nat]
      /\ voids'[s] = voids[s] + 1 /\ \A t \in Sales \ {s} : voids'[t] = voids[t]
  BY <1>1, <1>2 DEF IInv, TypeOK, ReturnsTypeOK
<1>8. PollsSound'
  <2>1. Knows(k)'
    BY <1>1, <1>2, <1>3, <1>5 DEF Knows
  <2>2. VerdictsStand'
    BY <1>1, <1>2, <1>6, <1>7 DEF IInv, PollsSound, VerdictsStand, Documents
  <2> QED
    BY <1>1, <1>5, <2>1, <2>2, OthersKnow DEF IInv, PollsSound
<1>9. Rows'
  <2>1. \A j \in Polls, p \in Products : p \in poll'[j].open <=> p \in poll[j].open
    BY <1>2, <1>3, <1>5
  <2>2. \A j \in Polls, p \in Products : p \in poll'[j].open => poll'[j].level = poll[j].level
    BY <1>3, <1>5
  <2>3. \A p \in Products : Unlogged(p) => Unlogged(p)'
    BY <2>1 DEF Unlogged
  <2> QED
    BY <1>1, <2>1, <2>2, <2>3, RowsStay DEF IInv
<1>10. SaleEntries'
  <2> SUFFICES ASSUME NEW t \in Sales, NEW p \in Products
               PROVE  ledger[t][p] <= returned[t][p] + (voids'[t] - Cardinality(Owing(t, p)')) * Bought[t][p]
    BY <1>1 DEF SaleEntries
  <2>1. ledger[t][p] <= returned[t][p] + (voids[t] - Cardinality(Owing(t, p))) * Bought[t][p]
    BY DEF IInv, Papers, SaleEntries
  <2>2. /\ k \in Owing(t, p)' <=> t = s /\ Bought[s][p] > 0
        /\ k \notin Owing(t, p)
        /\ Owing(t, p)' \ {k} = Owing(t, p) \ {k}
    BY <1>2, <1>3, <1>4, <1>5, OwingMoves
  <2>3. CASE t # s
    <3>1. Owing(t, p)' = Owing(t, p)
      BY <2>2, <2>3
    <3> QED
      BY <1>7, <2>1, <2>3, <3>1
  <2>4. CASE t = s /\ Bought[s][p] > 0
    <3>1. Owing(t, p)' = Owing(t, p) \cup {k} /\ k \notin Owing(t, p)
      BY <2>2, <2>4
    <3>2. /\ Cardinality(Owing(t, p)') = Cardinality(Owing(t, p)) + 1
          /\ Cardinality(Owing(t, p)) \in Nat
      BY <3>1, OwingType, FS_AddElement
    <3>3. voids'[t] - Cardinality(Owing(t, p)') = voids[t] - Cardinality(Owing(t, p))
      BY <1>7, <2>4, <3>2
    <3>4. (voids'[t] - Cardinality(Owing(t, p)')) * Bought[t][p]
            = (voids[t] - Cardinality(Owing(t, p))) * Bought[t][p]
      BY <3>3
    <3> QED
      BY <2>1, <3>4
  <2>5. CASE t = s /\ ~(Bought[s][p] > 0)
    <3>0. Bought[t][p] \in Nat
      BY BoughtAssumption
    <3>1. Owing(t, p)' = Owing(t, p) /\ Bought[t][p] = 0
      BY <2>2, <2>5, <3>0
    <3>2. voids'[t] - Cardinality(Owing(t, p)) \in Int /\ voids[t] - Cardinality(Owing(t, p)) \in Int
      BY <1>7, OwingType
    <3>3. \A n \in Int : n * 0 = 0
      OBVIOUS
    <3> QED
      BY <2>1, <3>1, <3>2, <3>3
  <2> QED
    BY <2>3, <2>4, <2>5
<1>11. Explained'
  BY <1>1, <1>2, <1>3, <1>5, <1>8, ExplainedQuiet
<1>12. /\ stock' \in [Products -> Int] /\ latest' \in [Products -> Int]
       /\ ledger' \in [Documents -> [Products -> Int]] /\ crossed' \subseteq Products
       /\ torn' \subseteq Products
  BY <1>1 DEF IInv, TypeOK, MovesTypeOK, ReturnsTypeOK
<1>13. \A t \in Sales : status'[t] \in {"PENDING", "VOID"} => status[t] \in {"PENDING", "VOID"}
  BY <1>2, <1>6 DEF Documents, IInv, PollsSound, VerdictsStand
<1> QED
  BY <1>1, <1>5, <1>6, <1>7, <1>8, <1>9, <1>10, <1>11, <1>12, <1>13, PollInv

(* A poll puts goods back, and owes their entry.                           *)
LEMMA RestockInv ==
  ASSUME IInv, NEW k \in Polls, NEW p \in Products, Restock(k, p), UNCHANGED placed
  PROVE  IInv'
<1> DEFINE s     == poll[k].sale
           level == stock[p] + Bought[s][p]
           value == [poll[k] EXCEPT !.left = poll[k].left \ {p}, !.open = {p}, !.level = level]
<1>1. /\ poll[k].step = "back" /\ poll[k].open = {} /\ p \in poll[k].left
      /\ stock' = [stock EXCEPT ![p] = level] /\ Become(k, value)
      /\ crossed' \subseteq crossed \cup {p}
      /\ UNCHANGED <<status, ledger, latest, req, contested, returned, failed, marks, voids, torn>>
  BY DEF Restock
<1>2. s \in Sales /\ s \in failed /\ poll[k] \in PollState /\ stock \in [Products -> Int]
  BY <1>1 DEF IInv, PollsSound, Knows, TypeOK, ReturnsTypeOK, MovesTypeOK
<1>3. Bought[s][p] \in Nat /\ level \in Int
  BY <1>2, BoughtAssumption
<1>4. level = stock[p] + Bought[s][p]
  OBVIOUS
<1>5. /\ value \in PollState /\ value.step = "back" /\ value.sale = s
      /\ value.left = poll[k].left \ {p} /\ value.open = {p}
  <2> HIDE DEF level
  <2> QED
    BY <1>1, <1>2, <1>3 DEF PollState
<1>6. s = poll[k].sale
  OBVIOUS
<1> HIDE DEF s, level, value
<1>7. /\ poll' \in [Polls -> PollState] /\ poll'[k] = value
      /\ \A j \in Polls \ {k} : poll'[j] = poll[j]
  BY <1>1, <1>5, BecomeEffect DEF IInv
<1>8. PollsSound'
  <2>1. Knows(k)'
    BY <1>1, <1>2, <1>5, <1>7 DEF Knows
  <2>2. VerdictsStand'
    BY <1>1 DEF IInv, PollsSound, VerdictsStand
  <2> QED
    BY <1>1, <1>7, <2>1, <2>2, OthersKnow DEF IInv, PollsSound
<1>9. Rows'
  BY <1>2, <1>6, RowsRestock DEF IInv
<1>10. SaleEntries'
  <2>1. \A t \in Sales, x \in Products : Owing(t, x)' \subseteq Owing(t, x)
    BY <1>1, <1>5, <1>6, <1>7 DEF Owing
  <2> QED
    BY <1>1, <2>1, SaleEntriesKept
<1>11. Explained'
  <2> SUFFICES ASSUME NEW x \in Products
               PROVE  /\ stock'[x] >= InitialStock[x] + Entries(x)' + Surplus(x)'
                      /\ x \notin torn => stock'[x] = InitialStock[x] + Entries(x)' + Surplus(x)'
    BY <1>1 DEF Explained
  <2>1. Entries(x)' = Entries(x)
    BY <1>1, EntriesSame
  <2>2. /\ stock[x] >= InitialStock[x] + Entries(x) + Surplus(x)
        /\ x \notin torn => stock[x] = InitialStock[x] + Entries(x) + Surplus(x)
    BY DEF IInv, Explained
  <2>3. /\ Surplus(x)' = Surplus(x) + (Backs(x)'[k] - Backs(x)[k])
        /\ Surplus(x) \in Int
    BY <1>7, <1>8, SurplusMoves DEF IInv
  <2>4. Backs(x)[k] = 0
    BY <1>1 DEF Backs
  <2>5. Backs(x)'[k] = IF x = p THEN Bought[s][p] ELSE 0
    BY <1>5, <1>7 DEF Backs
  <2>6. stock'[x] = stock[x] + IF x = p THEN Bought[s][p] ELSE 0
    BY <1>1, <1>2, <1>3, <1>4
  <2>7. stock[x] \in Int /\ InitialStock[x] \in Int
    BY <1>2, StockAssumption
  <2>8. Entries(x) \in Int
    BY EntriesType DEF IInv
  <2> QED
    BY <1>3, <2>1, <2>2, <2>3, <2>4, <2>5, <2>6, <2>7, <2>8
<1>12. /\ stock' \in [Products -> Int] /\ latest' \in [Products -> Int]
       /\ ledger' \in [Documents -> [Products -> Int]] /\ crossed' \subseteq Products
       /\ voids' \in [Sales -> Nat] /\ torn' \subseteq Products
       /\ OneStatusEach' /\ \A d \in Documents : status'[d] \in Statuses(d)
  BY <1>1, <1>2, <1>3 DEF IInv, TypeOK, MovesTypeOK, ReturnsTypeOK, OneStatusEach
<1> QED
  BY <1>1, <1>7, <1>8, <1>9, <1>10, <1>11, <1>12, PollInv

(* A poll writes the entry of what it has put back.                        *)
LEMMA LogInv ==
  ASSUME IInv, NEW k \in Polls, LogReturn(k), UNCHANGED placed
  PROVE  IInv'
<1> DEFINE s     == poll[k].sale
           value == IF poll[k].left = {} THEN NoPoll ELSE [poll[k] EXCEPT !.open = {}]
           grown(p) == [ledger[s] EXCEPT ![p] = ledger[s][p] + Bought[s][p]]
<1>1. PICK p \in Products : poll[k].open = {p}
  BY DEF LogReturn, IInv, PollsSound, Knows
<1>2. p = CHOOSE x \in poll[k].open : TRUE
  BY <1>1
<1>3. /\ poll[k].step = "back" /\ Become(k, value)
      /\ ledger' = [ledger EXCEPT ![s] = grown(p)]
      /\ latest' = [latest EXCEPT ![p] = poll[k].level]
      /\ UNCHANGED <<stock, status, req, contested, crossed, returned, failed, marks, voids, torn>>
  BY <1>2 DEF LogReturn
<1>4. /\ s \in Sales /\ s \in failed /\ poll[k] \in PollState /\ p \notin poll[k].left
      /\ s \in Documents /\ poll[k].level \in Int /\ Bought[s][p] \in Nat
      /\ ledger \in [Documents -> [Products -> Int]] /\ latest \in [Products -> Int]
  BY <1>1, <1>3, BoughtAssumption
     DEF IInv, PollsSound, Knows, TypeOK, ReturnsTypeOK, MovesTypeOK, PollState, Documents
<1>5. /\ value \in PollState /\ value.open = {} /\ value.left = poll[k].left
      /\ value.step \in {"idle", "back"} /\ (value.step = "idle" => value = NoPoll)
      /\ value.step = "back" => value.sale = s
      /\ value.left # {} => value.sale = s
  <2>1. CASE poll[k].left = {}
    BY <2>1, NoPollIs
  <2>2. CASE poll[k].left # {}
    BY <1>3, <1>4, <2>2 DEF PollState
  <2> QED
    BY <2>1, <2>2
<1>6. s = poll[k].sale
  OBVIOUS
<1>7. grown(p) \in [Products -> Int] /\ \A x \in Products :
        grown(p)[x] = ledger[s][x] + IF x = p THEN Bought[s][p] ELSE 0
  <2> DEFINE row == ledger[s]
  <2>1. row \in [Products -> Int]
    BY <1>4
  <2> HIDE DEF row
  <2>2. /\ [row EXCEPT ![p] = row[p] + Bought[s][p]] \in [Products -> Int]
        /\ \A x \in Products : [row EXCEPT ![p] = row[p] + Bought[s][p]][x]
                                 = row[x] + IF x = p THEN Bought[s][p] ELSE 0
    BY <1>4, <2>1
  <2> QED
    BY <2>2 DEF row
<1> HIDE DEF s, value, grown
<1>8. /\ ledger' \in [Documents -> [Products -> Int]]
      /\ \A d \in Documents : ledger'[d] = IF d = s THEN grown(p) ELSE ledger[d]
  BY <1>3, <1>4, <1>7
<1>9. \A d \in Documents, x \in Products :
        ledger'[d][x] = ledger[d][x] + IF d = s THEN (IF x = p THEN Bought[s][p] ELSE 0) ELSE 0
  <2> SUFFICES ASSUME NEW d \in Documents, NEW x \in Products
               PROVE  ledger'[d][x] = ledger[d][x] + IF d = s THEN (IF x = p THEN Bought[s][p] ELSE 0) ELSE 0
    OBVIOUS
  <2>1. ledger[d][x] \in Int
    BY <1>4
  <2>2. CASE d = s
    BY <1>7, <1>8, <2>2
  <2>3. CASE d # s
    <3>1. ledger'[d][x] = ledger[d][x]
      BY <1>8, <2>3
    <3> QED
      BY <2>1, <2>3, <3>1
  <2> QED
    BY <2>2, <2>3
<1>10. /\ poll' \in [Polls -> PollState] /\ poll'[k] = value
       /\ \A j \in Polls \ {k} : poll'[j] = poll[j]
  BY <1>3, <1>5, BecomeEffect DEF IInv
<1>11. PollsSound'
  <2>1. Knows(k)'
    BY <1>3, <1>4, <1>5, <1>10, NoPollIs DEF Knows
  <2>2. VerdictsStand'
    BY <1>3 DEF IInv, PollsSound, VerdictsStand
  <2> QED
    BY <1>3, <1>10, <2>1, <2>2, OthersKnow DEF IInv, PollsSound
<1>12. Rows'
  <2>1. poll'[k].open = {}
    BY <1>5, <1>10
  <2> QED
    BY <1>1, <1>3, <1>10, <2>1, RowsLog DEF IInv
<1>13. SaleEntries'
  <2> SUFFICES ASSUME NEW t \in Sales, NEW x \in Products
               PROVE  ledger'[t][x] <= returned[t][x] + (voids[t] - Cardinality(Owing(t, x)')) * Bought[t][x]
    BY <1>3 DEF SaleEntries
  <2> DEFINE B == Bought[t][x]
             c == Cardinality(Owing(t, x))
             v == voids[t]
  <2>1. ledger[t][x] <= returned[t][x] + (v - c) * B
    BY DEF IInv, Papers, SaleEntries
  <2>2. /\ k \in Owing(t, x)' <=> t = s /\ x \in poll[k].left
        /\ k \in Owing(t, x) <=> t = s /\ (x \in poll[k].left \/ x = p)
        /\ Owing(t, x)' \ {k} = Owing(t, x) \ {k}
    <3>1. /\ k \in Owing(t, x)' <=> poll'[k].sale = t /\ x \in poll'[k].left \cup poll'[k].open
          /\ k \in Owing(t, x) <=> poll[k].sale = t /\ x \in poll[k].left \cup poll[k].open
          /\ Owing(t, x)' \ {k} = Owing(t, x) \ {k}
      BY <1>10, OwingMoves
    <3> QED
      BY <1>1, <1>5, <1>6, <1>10, <3>1
  <2>3. /\ t \in Documents /\ ledger[t][x] \in Int /\ B \in Nat /\ c \in Nat /\ v \in Nat
        /\ returned[t][x] \in Nat
    BY <1>4, BoughtAssumption, OwingType DEF Documents, IInv, TypeOK, ReturnsTypeOK
  <2>4. CASE ~(t = s /\ x = p)
    <3>1. Owing(t, x)' = Owing(t, x)
      BY <2>2, <2>4
    <3>2. ledger'[t][x] = ledger[t][x]
      BY <1>9, <2>3, <2>4
    <3> QED
      BY <2>1, <3>1, <3>2
  <2>5. CASE t = s /\ x = p
    <3>1. k \in Owing(t, x) /\ Owing(t, x)' = Owing(t, x) \ {k}
      BY <1>4, <2>2, <2>5
    <3>2. Cardinality(Owing(t, x)') = c - 1
      BY <3>1, OwingType, FS_RemoveElement
    <3>3. ledger'[t][x] = ledger[t][x] + B
      BY <1>9, <2>3, <2>5
    <3> HIDE DEF B, c, v
    <3>4. (v - (c - 1)) * B = (v - c) * B + B /\ (v - c) * B \in Int
      BY <2>3
    <3>5. ledger'[t][x] <= returned[t][x] + (v - (c - 1)) * B
      BY <2>1, <2>3, <3>3, <3>4
    <3> QED
      BY <3>2, <3>5 DEF B, v
  <2> QED
    BY <2>4, <2>5
<1>14. Explained'
  <2> SUFFICES ASSUME NEW x \in Products
               PROVE  /\ stock[x] >= InitialStock[x] + Entries(x)' + Surplus(x)'
                      /\ x \notin torn => stock[x] = InitialStock[x] + Entries(x)' + Surplus(x)'
    BY <1>3 DEF Explained
  <2> DEFINE goods == [y \in Products |-> IF y = p THEN Bought[s][p] ELSE 0]
  <2>1. goods[x] \in Int /\ goods[x] = IF x = p THEN Bought[s][p] ELSE 0
    BY <1>4
  <2> HIDE DEF goods
  <2>2. \A e \in Documents : ledger'[e][x] = ledger[e][x] + IF e = s THEN goods[x] ELSE 0
    BY <1>9, <2>1
  <2>3. /\ Entries(x) \in Int
        /\ Entries(x)' = Entries(x) + IF s \in Mutations \cup Sales \cup placed THEN goods[x] ELSE 0
    BY <1>4, <1>8, <2>1, <2>2, EntriesGrow DEF IInv
  <2>4. /\ stock[x] >= InitialStock[x] + Entries(x) + Surplus(x)
        /\ x \notin torn => stock[x] = InitialStock[x] + Entries(x) + Surplus(x)
    BY DEF IInv, Explained
  <2>5. /\ Surplus(x)' = Surplus(x) + (Backs(x)'[k] - Backs(x)[k])
        /\ Surplus(x) \in Int
    BY <1>10, <1>11, SurplusMoves DEF IInv
  <2>6. Backs(x)'[k] = 0
    BY <1>5, <1>10 DEF Backs
  <2>7. Backs(x)[k] = goods[x]
    BY <1>1, <1>6, <2>1 DEF Backs
  <2>8. stock[x] \in Int /\ InitialStock[x] \in Int
    BY StockAssumption DEF IInv, TypeOK, MovesTypeOK
  <2>9. Entries(x)' + Surplus(x)' = Entries(x) + Surplus(x)
    BY <1>4, <2>1, <2>3, <2>5, <2>6, <2>7
  <2>10. Entries(x)' \in Int /\ Surplus(x)' \in Int
    BY <2>1, <2>3, <2>5, <2>6, <2>7
  <2> QED
    BY <2>3, <2>4, <2>5, <2>8, <2>9, <2>10
<1>15. /\ stock' \in [Products -> Int] /\ latest' \in [Products -> Int] /\ crossed' \subseteq Products
       /\ voids' \in [Sales -> Nat] /\ torn' \subseteq Products
       /\ OneStatusEach' /\ \A d \in Documents : status'[d] \in Statuses(d)
  BY <1>3, <1>4 DEF IInv, TypeOK, MovesTypeOK, ReturnsTypeOK, OneStatusEach
<1>16. \A d \in Orders \cup Mutations : status'[d] = status[d] /\ ledger'[d] = ledger[d]
  BY <1>3, <1>4, <1>8, DocumentsAssumption DEF Documents
<1> QED
  BY <1>3, <1>8, <1>10, <1>11, <1>12, <1>13, <1>14, <1>15, <1>16, PollInv

(* A poll dies: what it has put back is never logged.                      *)
LEMMA DieInv ==
  ASSUME IInv, NEW k \in Polls, Die(k), UNCHANGED placed
  PROVE  IInv'
<1>1. /\ torn' = torn \cup poll[k].open /\ Become(k, NoPoll)
      /\ UNCHANGED <<stock, status, ledger, latest, req, contested, crossed, returned, failed, marks, voids>>
  BY DEF Die
<1>2. poll[k] \in PollState /\ poll[k].open \subseteq Products
  BY DEF IInv, TypeOK, ReturnsTypeOK, PollState
<1>3. /\ poll' \in [Polls -> PollState] /\ poll'[k] = NoPoll
      /\ \A j \in Polls \ {k} : poll'[j] = poll[j]
  BY <1>1, NoPollIs, BecomeEffect DEF IInv
<1>4. PollsSound'
  <2>1. Knows(k)'
    BY <1>3, NoPollIs DEF Knows
  <2>2. VerdictsStand'
    BY <1>1 DEF IInv, PollsSound, VerdictsStand
  <2> QED
    BY <1>1, <1>3, <2>1, <2>2, OthersKnow DEF IInv, PollsSound
<1>5. Rows'
  <2>1. \A j \in Polls, p \in Products : p \in poll'[j].open => p \in poll[j].open /\ poll'[j].level = poll[j].level
    BY <1>3, NoPollIs
  <2>2. \A p \in Products \ torn' : Unlogged(p) => Unlogged(p)'
    BY <1>1, <1>3 DEF Unlogged
  <2> QED
    BY <1>1, <2>1, <2>2, RowsStay DEF IInv
<1>6. SaleEntries'
  <2>1. \A t \in Sales, p \in Products : Owing(t, p)' \subseteq Owing(t, p)
    BY <1>3, NoPollIs DEF Owing
  <2> QED
    BY <1>1, <2>1, SaleEntriesKept
<1>7. Explained'
  <2> SUFFICES ASSUME NEW x \in Products
               PROVE  /\ stock[x] >= InitialStock[x] + Entries(x) + Surplus(x)'
                      /\ x \notin torn' => stock[x] = InitialStock[x] + Entries(x) + Surplus(x)'
    BY <1>1, EntriesSame DEF Explained
  <2>1. /\ stock[x] >= InitialStock[x] + Entries(x) + Surplus(x)
        /\ x \notin torn => stock[x] = InitialStock[x] + Entries(x) + Surplus(x)
    BY DEF IInv, Explained
  <2>2. /\ Surplus(x)' = Surplus(x) + (Backs(x)'[k] - Backs(x)[k])
        /\ Surplus(x) \in Int /\ Backs(x)[k] \in Nat
    BY <1>3, <1>4, SurplusMoves DEF IInv
  <2>3. Backs(x)'[k] = 0
    BY <1>3, NoPollIs DEF Backs
  <2>4. x \notin torn' => Backs(x)[k] = 0
    BY <1>1 DEF Backs
  <2>5. stock[x] \in Int /\ InitialStock[x] \in Int
    BY StockAssumption DEF IInv, TypeOK, MovesTypeOK
  <2>6. Entries(x) \in Int
    BY EntriesType DEF IInv
  <2>7. Surplus(x)' <= Surplus(x) /\ Surplus(x)' \in Int
    BY <2>2, <2>3
  <2>8. x \notin torn' => x \notin torn /\ Surplus(x)' = Surplus(x)
    BY <1>1, <2>2, <2>3, <2>4
  <2> QED
    BY <2>1, <2>2, <2>5, <2>6, <2>7, <2>8
<1>8. /\ stock' \in [Products -> Int] /\ latest' \in [Products -> Int]
      /\ ledger' \in [Documents -> [Products -> Int]] /\ crossed' \subseteq Products
      /\ voids' \in [Sales -> Nat] /\ torn' \subseteq Products
      /\ OneStatusEach' /\ \A d \in Documents : status'[d] \in Statuses(d)
  BY <1>1, <1>2 DEF IInv, TypeOK, MovesTypeOK, ReturnsTypeOK, OneStatusEach
<1> QED
  BY <1>1, <1>3, <1>4, <1>5, <1>6, <1>7, <1>8, PollInv

(* A poll takes a step.                                                    *)
LEMMA PollSteps ==
  ASSUME IInv, NEW k \in Polls, PollStep(k), UNCHANGED placed
  PROVE  IInv'
BY StartPollInv, SettleInv, VoidInv, RestockInv, LogInv, DieInv DEF PollStep

(* A request moves on, or gives up.                                        *)
LEMMA MoveSteps ==
  ASSUME IInv, NEW r \in Requests, MoveStep(r), UNCHANGED <<placed, returnVars>>
  PROVE  IInv'
<1>0. UNCHANGED <<poll, torn>>
  BY DEF returnVars, pollVars
<1>1. CASE Look(r)
  BY <1>0, <1>1, LookGoesOn, RowsLook, GoesOnInv DEF IInv
<1>2. CASE Put(r)
  BY <1>0, <1>2, PutGoesOn, RowsPut, GoesOnInv DEF IInv
<1>3. CASE Refuse(r) \/ Abort(r)
  BY <1>3, LeaveInv DEF Refuse, Abort
<1> QED
  BY <1>1, <1>2, <1>3 DEF MoveStep

-----------------------------------------------------------------------------
(* At the start nothing has moved and nobody works.                        *)
LEMMA StartInv == Init => IInv
<1> SUFFICES ASSUME Init PROVE IInv
  OBVIOUS
<1> USE DEF Init, MovesInit, ReturnsInit
<1>1. Nothing \in [Products -> Int] /\ \A p \in Products : Nothing[p] = 0
  BY DEF Nothing
<1>2. /\ \A r \in Requests : req[r] = Idle
      /\ Idle.op = "idle" /\ Idle.doc = NoDocument /\ Idle.lines = <<>> /\ Idle.next = 1
      /\ Idle.read = NotSeen /\ ~Idle.read.seen /\ NoDocument \notin Documents
  BY DocumentsAssumption DEF Idle, NotSeen
<1>3. Idle \in ReqState
  <2>1. [p \in Products |-> 0] \in [Products -> Int] /\ <<>> \in Seq(Line)
    OBVIOUS
  <2> QED
    BY <2>1 DEF Idle, ReqState, NotSeen
<1>4. \A d \in Documents : status[d] \in Statuses(d)
  <2>1. \A d \in Documents : d \in Sales => status[d] \in {"PENDING", "COMPLETED"}
    BY DEF Documents
  <2>2. \A d \in Orders \cup Mutations : status[d] = "NONE"
    BY DocumentsAssumption DEF Documents
  <2> QED
    BY <2>1, <2>2, StatusesOf DEF Documents
<1>5. TypeOK
  <2>1. stock \in [Products -> Int] /\ latest \in [Products -> Int]
    BY StockAssumption
  <2>2. ledger \in [Documents -> [Products -> Int]]
    BY <1>1 DEF Nothing
  <2>3. req \in [Requests -> ReqState]
    BY <1>3
  <2>4. returned \in [Sales -> [Products -> Nat]] /\ voids \in [Sales -> Nat]
    OBVIOUS
  <2>5. poll \in [Polls -> PollState] /\ failed \subseteq Sales
    BY NoPollIs
  <2> QED
    BY <1>4, <2>1, <2>2, <2>3, <2>4, <2>5 DEF TypeOK, MovesTypeOK, ReturnsTypeOK
<1>6. OneStatusEach
  BY DEF OneStatusEach
<1>7. RequestsSane
  <2>1. Len(<<>>) = 0
    OBVIOUS
  <2> QED
    BY <1>2, <2>1 DEF RequestsSane, Sane
<1>8. Rows
  <2>1. \A r \in Requests, p \in Products : ~Holds(r, p) /\ ~Watches(r, p)
    BY <1>2 DEF Holds, Watches
  <2>2. RowsExclude /\ WatchedRowsCross /\ HeldRowsSuffice /\ LevelsKnown
    BY <2>1 DEF RowsExclude, WatchedRowsCross, HeldRowsSuffice, LevelsKnown
  <2>3. StockNeverNegative /\ LatestEntryIsStock
    BY StockAssumption DEF StockNeverNegative, LatestEntryIsStock
  <2>4. BacksCross /\ BacksKnown
    BY NoPollIs DEF BacksCross, BacksKnown
  <2> QED
    BY <2>2, <2>3, <2>4 DEF Rows
<1>9. \A d \in Documents : Working(d) = {} /\ ledger[d] = Nothing
  BY <1>2 DEF Working, Nothing
<1>10. Papers
  <2>1. OneAtATime /\ StatusStands
    BY <1>2 DEF OneAtATime, StatusStands, Busy, Documents
  <2>2. AppliedAsDecided
    BY <1>9 DEF AppliedAsDecided, Applied, Nothing, Documents
  <2>3. UnwrittenIsUnmoved
    BY <1>9 DEF UnwrittenIsUnmoved, Documents
  <2>4. SaleEntries
    <3> SUFFICES ASSUME NEW s \in Sales, NEW p \in Products
                 PROVE  ledger[s][p] <= returned[s][p] + (voids[s] - Cardinality(Owing(s, p))) * Bought[s][p]
      BY DEF SaleEntries
    <3>1. Owing(s, p) = {}
      BY NoPollIs DEF Owing
    <3>2. Cardinality(Owing(s, p)) = 0
      BY <3>1, FS_EmptySet
    <3>3. s \in Documents /\ ledger[s][p] = 0 /\ returned[s][p] = 0 /\ voids[s] = 0 /\ Bought[s][p] \in Int
      BY <1>1, <1>9, BoughtAssumption DEF Documents
    <3>4. (0 - 0) * Bought[s][p] = 0
      BY <3>3
    <3> QED
      BY <3>2, <3>3, <3>4
  <2>5. UnpaidUnreturned
    BY <1>9 DEF UnpaidUnreturned, Nothing, Documents
  <2>6. ReturnsFit
    BY <1>9, BoughtAssumption DEF ReturnsFit, Remains, Documents
  <2> QED
    BY <2>1, <2>2, <2>3, <2>4, <2>5, <2>6 DEF Papers
<1>11. PollsSound
  <2>1. \A k \in Polls : Knows(k)
    BY NoPollIs DEF Knows
  <2>2. VerdictsStand
    BY DEF VerdictsStand, Documents
  <2> QED
    BY <2>1, <2>2 DEF PollsSound
<1>12. Explained
  <2> SUFFICES ASSUME NEW p \in Products
               PROVE  stock[p] = InitialStock[p] + Entries(p) + Surplus(p) /\ stock[p] \in Int
    BY DEF Explained
  <2> DEFINE D == Mutations \cup Sales \cup placed
             f == [d \in Documents |-> ledger[d][p]]
             g == Backs(p)
  <2>1. D \in SUBSET Documents /\ \A d \in D : f[d] = 0
    BY <1>1, <1>9 DEF Documents
  <2>2. \A k \in Polls : g[k] = 0
    BY NoPollIs DEF Backs
  <2>3. Entries(p) = SumOver(f, D) /\ Surplus(p) = SumOver(g, Polls)
    BY DEF Entries, Surplus
  <2> HIDE DEF D, f, g
  <2>4. SumOver(f, D) = 0
    BY <2>1, EntriesFinite, SumZero
  <2>5. SumOver(g, Polls) = 0
    BY <2>2, PollsAssumption, SumZero
  <2> QED
    BY <2>3, <2>4, <2>5, StockAssumption
<1> QED
  BY <1>5, <1>6, <1>7, <1>8, <1>10, <1>11, <1>12 DEF IInv

(* A step that changes nothing.                                            *)
LEMMA StutterInv ==
  ASSUME IInv, UNCHANGED vars
  PROVE  IInv'
<1>1. UNCHANGED <<stock, status, ledger, latest, req, contested, crossed, placed, returned, listed, unpaid>>
  BY DEF vars, moveVars, returnVars, marks
<1>2. UNCHANGED <<poll, failed, voids, torn, pollVars>>
  BY DEF vars, returnVars, pollVars
<1>3. TypeOK' /\ OneStatusEach' /\ RequestsSane'
  <2>1. TypeOK'
    BY <1>1, <1>2 DEF IInv, TypeOK, MovesTypeOK, ReturnsTypeOK
  <2>2. OneStatusEach'
    BY <1>1 DEF IInv, OneStatusEach
  <2>3. RequestsSane'
    BY <1>1, SaneKept DEF IInv, RequestsSane
  <2> QED
    BY <2>1, <2>2, <2>3
<1>4. Rows'
  <2>1. \A p \in Products : Unlogged(p) => Unlogged(p)'
    BY <1>2 DEF Unlogged
  <2> QED
    BY <1>1, <1>2, <2>1, RowsStay DEF IInv
<1>5. OneAtATime' /\ StatusStands' /\ AppliedAsDecided' /\ UnwrittenIsUnmoved'
  BY <1>1 DEF IInv, Papers, OneAtATime, Busy, StatusStands, AppliedAsDecided, UnwrittenIsUnmoved
<1>6. /\ PollsSound'
      /\ \A s \in Sales, p \in Products : Owing(s, p)' = Owing(s, p)
      /\ \A p \in Products : Surplus(p)' = Surplus(p)
  BY <1>1, <1>2, PollsApart DEF IInv
<1>7. SaleEntries' /\ UnpaidUnreturned' /\ ReturnsFit'
  <2>1. SaleEntries'
    BY <1>1, <1>2, <1>6, SaleEntriesKept
  <2>2. UnpaidUnreturned'
    BY <1>1 DEF IInv, Papers, UnpaidUnreturned, Working
  <2>3. ReturnsFit'
    BY <1>1 DEF IInv, Papers, ReturnsFit, Remains, Working
  <2> QED
    BY <2>1, <2>2, <2>3
<1>8. Explained'
  BY <1>1, <1>2, <1>6, ExplainedSame DEF IInv
<1> QED
  BY <1>3, <1>4, <1>5, <1>6, <1>7, <1>8 DEF IInv, Papers

(* Every step keeps the invariant.                                         *)
LEMMA StepInv == IInv /\ [Next]_vars => IInv'
<1> SUFFICES ASSUME IInv, [Next]_vars PROVE IInv'
  OBVIOUS
<1>1. CASE OrderStep /\ UNCHANGED returnVars
  BY <1>1, OrderSteps
<1>2. CASE MutationStep /\ UNCHANGED <<placed, returnVars>>
  BY <1>2, MutationSteps
<1>3. CASE ReturnStep /\ UNCHANGED placed
  BY <1>3, ReturnStarts, ReturnEnds, PollSteps DEF ReturnStep
<1>4. CASE \E r \in Requests : MoveStep(r) /\ UNCHANGED <<placed, returnVars>>
  BY <1>4, MoveSteps
<1>5. CASE UNCHANGED vars
  BY <1>5, StutterInv
<1> QED
  BY <1>1, <1>2, <1>3, <1>4, <1>5 DEF Next

(* The invariant holds in every state.                                     *)
THEOREM InventoryInvariant == Spec => []IInv
<1> QED
  BY StartInv, StepInv, PTL DEF Spec

-----------------------------------------------------------------------------
(* The variables keep their types, and a status is one of those of its     *)
(* kind of document.                                                       *)
THEOREM InventoryTypes == Spec => []TypeOK
<1>1. IInv => TypeOK
  BY DEF IInv
<1> QED
  BY <1>1, InventoryInvariant, PTL

(* No mutation, reception or return drives an outlet's stock below zero,   *)
(* however many requests are at work on the same rows.                     *)
THEOREM NeverNegative == Spec => []StockNeverNegative
<1>1. IInv => StockNeverNegative
  BY DEF IInv, Rows
<1> QED
  BY <1>1, InventoryInvariant, PTL

(* An order or a mutation that no two requests work on at a time moves its *)
(* goods once when it is applied, and never otherwise.                     *)
THEOREM AppliedOnce == Spec => []AppliedAsDecided
<1>1. IInv => AppliedAsDecided
  BY DEF IInv, Papers
<1> QED
  BY <1>1, InventoryInvariant, PTL

(* The latest entry of a row names the row's stock, but for the rows that  *)
(* moved between another's read or update and its entry, and for those     *)
(* whose entry a void has still to write, or never writes.                 *)
THEOREM LatestNamesStock == Spec => []LatestEntryIsStock
<1>1. IInv => LatestEntryIsStock
  BY DEF IInv, Rows
<1> QED
  BY <1>1, InventoryInvariant, PTL

(* What comes back of a sale is at most what it sold, once more for each   *)
(* further void of overlapping polls, unless two returns overlap or one    *)
(* names a product twice; what was returned unpaid comes on top.           *)
THEOREM BackOncePerVoid == Spec => []GoodsBackOncePerVoid
<1>1. ASSUME IInv PROVE GoodsBackOncePerVoid
  <2> DEFINE extra(s) == IF voids[s] = 0 \/ s \in unpaid THEN 1 ELSE 0
  <2> SUFFICES ASSUME NEW s \in Sales \ (contested \cup listed), NEW p \in Products
               PROVE  ledger[s][p] <= Bought[s][p] * (voids[s] + extra(s))
    BY DEF GoodsBackOncePerVoid
  <2> DEFINE B == Bought[s][p]
             c == Cardinality(Owing(s, p))
             v == voids[s]
             x == extra(s)
  <2>1. ledger[s][p] <= returned[s][p] + (v - c) * B
    BY <1>1 DEF IInv, Papers, SaleEntries
  <2>2. /\ B \in Nat /\ c \in Nat /\ v \in Nat /\ returned[s][p] \in Nat
        /\ s \in Documents /\ ledger[s][p] \in Int
    BY <1>1, BoughtAssumption, OwingType DEF IInv, TypeOK, ReturnsTypeOK, MovesTypeOK, Documents
  <2>3. B - returned[s][p] >= 0
    BY <1>1 DEF IInv, Papers, ReturnsFit, Remains
  <2>4. x = 0 => returned[s][p] = 0
    <3>1. x = 0 => s \notin unpaid /\ v > 0
      BY <2>2
    <3> QED
      BY <1>1, <3>1 DEF IInv, PollsSound, VerdictsStand, Papers, UnpaidUnreturned, Nothing
  <2>5. x \in {0, 1}
    OBVIOUS
  <2> HIDE DEF B, c, v, x, extra
  <2>6. (v - c) * B = B * v - c * B /\ c * B >= 0 /\ B * v \in Int /\ c * B \in Int
    BY <2>2
  <2>7. B * (v + x) = B * v + (IF x = 1 THEN B ELSE 0)
    BY <2>2, <2>5
  <2>8. ledger[s][p] <= B * (v + x)
    BY <2>1, <2>2, <2>3, <2>4, <2>5, <2>6, <2>7
  <2> QED
    BY <2>8 DEF B, v, x
<1> QED
  BY <1>1, InventoryInvariant, PTL

(* The entries of the ledger account for every unit of the stock, but for  *)
(* what a void has put back and not logged yet, or never will.             *)
THEOREM LedgerExplains == Spec => []LedgerExplainsStock
<1> DEFINE Column(p, S) == [d \in S |-> ledger[d][p]]
           D            == Mutations \cup Sales \cup placed
<1>1. ASSUME NEW p \in Products, NEW S
      PROVE  MapThenSumSet(LAMBDA d : ledger[d][p], S) = SumOver(Column(p, S), S)
  BY Zenon DEF SumOver, MapThenSumSet, MapThenFoldSet
<1>2. ASSUME IInv, NEW p \in Products
      PROVE  SumOver(Column(p, D), D) = Entries(p)
  <2>1. D \in SUBSET Documents /\ ledger \in [Documents -> [Products -> Int]]
    BY <1>2 DEF IInv, TypeOK, MovesTypeOK, Documents
  <2>2. \A d \in D : Column(p, D)[d] = Column(p, Documents)[d] /\ Column(p, D)[d] \in Int
    BY <2>1
  <2>3. Entries(p) = SumOver(Column(p, Documents), D)
    BY DEF Entries
  <2> HIDE DEF Column, D
  <2> QED
    BY <2>1, <2>2, <2>3, EntriesFinite, SumSame
<1>3. ASSUME IInv PROVE LedgerExplainsStock
  <2> SUFFICES ASSUME NEW p \in Products
               PROVE  Gap(p) >= 0 /\ (Gap(p) > 0 => p \in torn \/ Unlogged(p))
    BY DEF LedgerExplainsStock
  <2>1. MapThenSumSet(LAMBDA d : ledger[d][p], D) = SumOver(Column(p, D), D)
    BY <1>1
  <2>2. Gap(p) = stock[p] - InitialStock[p] - MapThenSumSet(LAMBDA d : ledger[d][p], D)
    BY DEF Gap
  <2> HIDE DEF D, Column
  <2>3. Gap(p) = stock[p] - InitialStock[p] - Entries(p)
    BY <1>2, <1>3, <2>1, <2>2
  <2>4. /\ stock[p] \in Int /\ InitialStock[p] \in Int
        /\ Entries(p) \in Int /\ Surplus(p) \in Int /\ Surplus(p) >= 0
    BY <1>3, StockAssumption, EntriesType, SurplusType DEF IInv, TypeOK, MovesTypeOK
  <2>5. ~Unlogged(p) => Surplus(p) = 0
    <3>1. ~Unlogged(p) => \A k \in Polls : Backs(p)[k] = 0
      BY DEF Unlogged, Backs
    <3> QED
      BY <3>1, PollsAssumption, SumZero DEF Surplus
  <2> QED
    BY <1>3, <2>3, <2>4, <2>5 DEF IInv, Explained
<1> QED
  BY <1>3, InventoryInvariant, PTL

(* A commit leaves the decisions alone: the document it decides is open,   *)
(* or is cancelled and is cancelled again.                                 *)
LEMMA CommitDecides ==
  ASSUME IInv, NEW r \in Requests, NEW result, Commit(r, result),
         NEW d \in (Orders \cup Mutations) \ contested',
         status[d] \in Applied \cup {"CANCELLED", "REJECTED"},
         \/ req[r].op \in {"receive", "receive_apart", "adjust", "approve", "reject"}
         \/ req[r].op = "cancel" /\ result = "CANCELLED"
         \/ req[r].op = "return"
  PROVE  status'[d] = status[d]
<1>1. /\ status' = [status EXCEPT ![req[r].doc] = result] /\ contested' = contested
      /\ req[r].doc \in Documents /\ d \in Documents
  BY CommitEffect DEF IInv, Documents
<1>2. status = [e \in Documents |-> status[e]]
  BY DEF IInv, OneStatusEach
<1>3. CASE req[r].doc # d
  BY <1>1, <1>2, <1>3
<1>4. CASE req[r].doc = d
  <2>1. status[d] \in FoundAt(req[r].op)
    BY <1>1, <1>4 DEF IInv, Papers, StatusStands
  <2>2. req[r].op # "return"
    BY <1>4, DocumentsAssumption DEF IInv, RequestsSane, Sane
  <2>3. req[r].op = "cancel" /\ result = "CANCELLED" /\ status[d] = "CANCELLED"
    BY <2>1, <2>2 DEF FoundAt, Applied
  <2> QED
    BY <1>1, <1>2, <1>4, <2>3
<1> QED
  BY <1>3, <1>4

(* An order or a mutation that no two requests work on at a time keeps the *)
(* status it was decided with.                                             *)
THEOREM DecisionsAreFinal == Spec => DecisionsStand
<1>1. ASSUME IInv, [Next]_vars
      PROVE  \A d \in (Orders \cup Mutations) \ contested' :
               status[d] \in Applied \cup {"CANCELLED", "REJECTED"} => status'[d] = status[d]
  <2> SUFFICES ASSUME NEW d \in (Orders \cup Mutations) \ contested',
                      status[d] \in Applied \cup {"CANCELLED", "REJECTED"}
               PROVE  status'[d] = status[d]
    OBVIOUS
  <2>1. /\ status = [e \in Documents |-> status[e]]
        /\ d \in Documents /\ d \notin Sales /\ status[d] \notin {"NONE", "PENDING"}
    BY <1>1, DocumentsAssumption DEF IInv, OneStatusEach, Documents, Applied
  <2>2. CASE UNCHANGED status
    BY <2>2
  <2>3. ASSUME NEW e \in Documents, NEW value, e # d, status' = [status EXCEPT ![e] = value]
        PROVE  status'[d] = status[d]
    BY <2>1, <2>3
  <2>4. CASE OrderStep
    <3>1. ASSUME NEW e \in Orders, CreatePO(e) PROVE status'[d] = status[d]
      BY <2>1, <2>3, <3>1 DEF CreatePO, Documents
    <3>2. ASSUME NEW r \in Requests, FinishReceive(r) \/ FinishCancelPO(r) PROVE status'[d] = status[d]
      BY <1>1, <3>2, CommitDecides DEF FinishReceive, FinishCancelPO
    <3>3. ASSUME NEW r \in Requests, NEW e \in Orders, Receive(r, e) \/ CancelPO(r, e) \/ MarkReceived(r)
          PROVE  UNCHANGED status
      BY <3>3 DEF Receive, CancelPO, MarkReceived, Begin
    <3> QED
      BY <2>2, <2>4, <3>1, <3>2, <3>3 DEF OrderStep, MarkReceived
  <2>5. CASE MutationStep
    <3>1. ASSUME NEW e \in Mutations, AskMutation(e) PROVE status'[d] = status[d]
      BY <2>1, <2>3, <3>1 DEF AskMutation, Documents
    <3>2. ASSUME NEW r \in Requests, FinishAdjust(r) \/ FinishApprove(r) \/ FinishReject(r)
          PROVE  status'[d] = status[d]
      BY <1>1, <3>2, CommitDecides DEF FinishAdjust, FinishApprove, FinishReject
    <3>3. ASSUME NEW r \in Requests, NEW e \in Mutations,
                 Adjust(r, e) \/ ApproveRequest(r, e) \/ RejectRequest(r, e)
          PROVE  UNCHANGED status
      BY <3>3 DEF Adjust, ApproveRequest, RejectRequest, Begin
    <3> QED
      BY <2>2, <2>5, <3>1, <3>2, <3>3 DEF MutationStep
  <2>6. CASE ReturnStep
    <3>1. ASSUME NEW k \in Polls, PollStep(k) PROVE status'[d] = status[d]
      <4>1. CASE SettleSale(k) \/ VoidSale(k)
        <5>1. poll[k].sale \in Sales /\ poll[k].sale \in Documents
          BY <1>1, <4>1 DEF SettleSale, VoidSale, IInv, PollsSound, Knows, Documents
        <5> QED
          BY <2>1, <2>3, <4>1, <5>1 DEF SettleSale, VoidSale
      <4>2. CASE ~(SettleSale(k) \/ VoidSale(k))
        BY <2>2, <3>1, <4>2 DEF PollStep, StartPoll, Restock, LogReturn, Die
      <4> QED
        BY <4>1, <4>2
    <3>2. ASSUME NEW r \in Requests, FinishReturn(r) PROVE status'[d] = status[d]
      BY <1>1, <3>2, CommitDecides DEF FinishReturn
    <3>3. ASSUME NEW r \in Requests, NEW s \in Sales, NEW lines \in ReturnLists, Return(r, s, lines)
          PROVE  UNCHANGED status
      BY <3>3 DEF Return, Begin
    <3> QED
      BY <2>2, <2>6, <3>1, <3>2, <3>3 DEF ReturnStep
  <2>7. CASE \E r \in Requests : MoveStep(r)
    BY <2>2, <2>7 DEF MoveStep, Look, Put, Refuse, Abort
  <2>8. CASE UNCHANGED vars
    BY <2>2, <2>8 DEF vars, moveVars
  <2> QED
    BY <1>1, <2>4, <2>5, <2>6, <2>7, <2>8 DEF Next
<1> QED
  BY <1>1, InventoryInvariant, PTL DEF Spec, DecisionsStand
=============================================================================
