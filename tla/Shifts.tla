------------------------------- MODULE Shifts -------------------------------
(***************************************************************************)
(* Cashier shifts, the sales made in them, and the branches they are held  *)
(* at.  Every operation checks something in one statement and writes in a  *)
(* later one; nothing is locked in between.                                *)
(*                                                                         *)
(* Cash is counted as the set of sales whose grand total goes into a sum.  *)
(* Sales without a cash payment are left out.                              *)
(***************************************************************************)
EXTENDS FiniteSets

CONSTANTS
  Users, Branches, Main,
  TenantWide,    \* users who may name any outlet, or none
  Access,        \* [Users -> SUBSET outlets]: the outlets of the others
  ShiftIds, Sales, Requests,
  Nobody, NoOutlet, NoShift, NoSale

Outlets == Branches \cup {Main}

ASSUME AccessAssumption ==
  /\ Main \notin Branches /\ NoOutlet \notin Outlets
  /\ TenantWide \subseteq Users
  /\ Access \in [Users -> SUBSET Outlets]
ASSUME NamesAssumption == Nobody \notin Users /\ NoShift \notin ShiftIds /\ NoSale \notin Sales

VARIABLES
  shift,     \* [ShiftIds -> [status, user, outlet, counted]]
  sale,      \* [Sales -> [shift, method, during]], committed; during is the
             \* shift its cashier has open when it commits (history)
  outlet,    \* [Outlets -> "active" | "inactive" | "deleted"]
  req,       \* [Requests -> [op, step, user, outlet, shift, sale, method, seen]]
  met        \* which operations overlapped, and on what (history)

vars == <<shift, sale, outlet, req, met>>

-----------------------------------------------------------------------------
NoRow   == [status |-> "NONE", user |-> Nobody, outlet |-> NoOutlet, counted |-> {}]
NotSold == [shift |-> NoShift, method |-> "NONE", during |-> NoShift]
Idle    == [op |-> "idle", step |-> "check", user |-> Nobody, outlet |-> NoOutlet,
            shift |-> NoShift, sale |-> NoSale, method |-> "NONE", seen |-> {}]

Busy(r) == req[r].op # "idle"

OpenAt(o)   == {x \in ShiftIds : shift[x].status = "OPEN" /\ shift[x].outlet = o}
OpenFor(u)  == {x \in ShiftIds : shift[x].status = "OPEN" /\ shift[x].user = u}
CashSales(x) == {s \in Sales : sale[s].shift = x /\ sale[s].method = "CASH"}

(* authMiddleware: the outlet a request of u works at.  Tenant-wide users  *)
(* may name none; the others work at one of theirs, named or not.          *)
Carries(u) ==
  IF u \in TenantWide THEN Outlets \cup {NoOutlet}
  ELSE IF Access[u] = {} THEN {NoOutlet} ELSE Access[u]

(* tenantMiddleware: an outlet that is named must be active.               *)
Passes(o) == o # NoOutlet => outlet[o] = "active"

(* The overlaps that matter: of requests of a user, and at an outlet.      *)
OfUser   == {{"open"}, {"close"}, {"close", "sell"}}
AtOutlet == {{"open", "shut"}}
Kind(op) == IF op \in {"deactivate", "delete"} THEN "shut" ELSE op

Begin(r, new) ==
  LET pairs == {<<{Kind(new.op), Kind(req[q].op)}, q>> : q \in {q \in Requests : Busy(q)}} IN
  /\ ~Busy(r)
  /\ req' = [req EXCEPT ![r] = new]
  /\ met' = met
       \cup {<<m[1], new.user>> : m \in {m \in pairs : m[1] \in OfUser /\ req[m[2]].user = new.user}}
       \cup {<<m[1], new.outlet>> : m \in {m \in pairs : m[1] \in AtOutlet /\ req[m[2]].outlet = new.outlet}}
  /\ UNCHANGED <<shift, sale, outlet>>

Leave(r) == req' = [req EXCEPT ![r] = Idle]

(* The check passes, or the request is refused.                            *)
Decide(r, ok, seen) ==
  /\ req' = [req EXCEPT ![r] = IF ok THEN [@ EXCEPT !.step = "write", !.seen = seen] ELSE Idle]
  /\ UNCHANGED <<shift, sale, outlet, met>>

Checking(r, op) == req[r].op = op /\ req[r].step = "check"
Writing(r, op)  == req[r].op = op /\ req[r].step = "write"

-----------------------------------------------------------------------------
Init ==
  /\ shift = [x \in ShiftIds |-> NoRow]
  /\ sale = [s \in Sales |-> NotSold]
  /\ outlet = [o \in Outlets |-> "active"]
  /\ req = [r \in Requests |-> Idle]
  /\ met = {}

(* openShift: at an outlet; no open shift of the user is found; create.    *)
Open(r, u, o) ==
  /\ o # NoOutlet /\ Passes(o)
  /\ Begin(r, [Idle EXCEPT !.op = "open", !.user = u, !.outlet = o])

(* Fault: an open shift is not looked for.                                 *)
CheckOpenNothing(r) ==
  /\ Checking(r, "open")
  /\ Decide(r, TRUE, {})

CheckOpen(r) ==
  /\ Checking(r, "open")
  /\ Decide(r, OpenFor(req[r].user) = {}, {})

WriteOpen(r, x) ==
  /\ Writing(r, "open")
  /\ shift[x] = NoRow
  /\ shift' = [shift EXCEPT ![x] =
       [status |-> "OPEN", user |-> req[r].user, outlet |-> req[r].outlet, counted |-> {}]]
  /\ Leave(r)
  /\ UNCHANGED <<sale, outlet, met>>

(* closeShift: the open shift of the user is read with its cash sales, and *)
(* updated by id.  Any outlet the cashier may name will do.                *)
Close(r, u, o, x) ==
  /\ Passes(o)
  /\ shift[x].user = u
  /\ Begin(r, [Idle EXCEPT !.op = "close", !.user = u, !.shift = x])

(* Fault: a closed shift is closed again.                                  *)
CheckCloseAgain(r) ==
  LET x == req[r].shift IN
  /\ Checking(r, "close")
  /\ Decide(r, shift[x].status # "NONE", CashSales(x))

CheckClose(r) ==
  LET x == req[r].shift IN
  /\ Checking(r, "close")
  /\ Decide(r, shift[x].status = "OPEN", CashSales(x))

WriteClose(r) ==
  /\ Writing(r, "close")
  /\ shift' = [shift EXCEPT ![req[r].shift] = [@ EXCEPT !.status = "CLOSED", !.counted = req[r].seen]]
  /\ Leave(r)
  /\ UNCHANGED <<sale, outlet, met>>

(* A checkout may name a shift (the POS page names none): it is looked for *)
(* in the pinned transaction, which commits with the answer.               *)
Sell(r, u, o, x, s, method) ==
  /\ o # NoOutlet /\ Passes(o)
  /\ sale[s] = NotSold /\ \A q \in Requests : req[q].sale # s
  /\ x # NoShift => shift[x].user = u
  /\ Begin(r, [Idle EXCEPT !.op = "sell", !.user = u, !.outlet = o, !.shift = x,
                           !.sale = s, !.method = method])

(* Fault: the shift may be closed.                                         *)
CheckSellInAnyShift(r) ==
  LET x == req[r].shift IN
  /\ Checking(r, "sell")
  /\ Decide(r, x # NoShift => shift[x].outlet = req[r].outlet, {})

CheckSell(r) ==
  LET x == req[r].shift IN
  /\ Checking(r, "sell")
  /\ Decide(r, x # NoShift => shift[x].status = "OPEN" /\ shift[x].outlet = req[r].outlet, {})

WriteSell(r) ==
  /\ Writing(r, "sell")
  /\ \E x \in OpenFor(req[r].user) \cup {NoShift} :
       /\ x = NoShift <=> OpenFor(req[r].user) = {}
       /\ sale' = [sale EXCEPT ![req[r].sale] =
                     [shift |-> req[r].shift, method |-> req[r].method, during |-> x]]
  /\ Leave(r)
  /\ UNCHANGED <<shift, outlet, met>>

(* updateOutlet with isActive = false, and deleteOutlet: a branch that     *)
(* exists, where no shift is open.                                         *)
Shut(r, op, o) ==
  /\ o \in Branches /\ outlet[o] # "deleted"
  /\ Begin(r, [Idle EXCEPT !.op = op, !.outlet = o])

(* Fault: open shifts are not looked for.                                  *)
CheckShutNothing(r) ==
  /\ Checking(r, "deactivate") \/ Checking(r, "delete")
  /\ Decide(r, TRUE, {})

CheckShut(r) ==
  /\ Checking(r, "deactivate") \/ Checking(r, "delete")
  /\ Decide(r, OpenAt(req[r].outlet) = {}, {})

(* deletedAt is never taken back.                                          *)
SetOutlet(o, value) == outlet' = [outlet EXCEPT ![o] = IF @ = "deleted" THEN @ ELSE value]

WriteShut(r) ==
  /\ \/ Writing(r, "deactivate") /\ SetOutlet(req[r].outlet, "inactive")
     \/ Writing(r, "delete") /\ SetOutlet(req[r].outlet, "deleted")
  /\ Leave(r)
  /\ UNCHANGED <<shift, sale, met>>

(* updateOutlet with isActive = true checks nothing.                       *)
Reactivate(o) ==
  /\ o \in Branches /\ outlet[o] # "deleted"
  /\ SetOutlet(o, "active")
  /\ UNCHANGED <<shift, sale, req, met>>

(* downgradeToFree makes every branch inactive, whatever happens there.    *)
Downgrade ==
  /\ outlet' = [o \in Outlets |-> IF o \in Branches /\ outlet[o] = "active" THEN "inactive" ELSE outlet[o]]
  /\ met' = met \cup {<<{"downgrade"}, o>> : o \in Branches}
  /\ UNCHANGED <<shift, sale, req>>

(* A request that ends before it writes.                                   *)
Abort(r) == Busy(r) /\ Leave(r) /\ UNCHANGED <<shift, sale, outlet, met>>

-----------------------------------------------------------------------------
Ask(r) ==
  \/ \E u \in Users : \E o \in Carries(u) :
       \/ Open(r, u, o)
       \/ \E x \in ShiftIds : Close(r, u, o, x)
       \/ \E x \in ShiftIds \cup {NoShift}, s \in Sales, method \in {"CASH", "SPLIT"} : Sell(r, u, o, x, s, method)
  \/ \E o \in Branches, op \in {"deactivate", "delete"} : Shut(r, op, o)

Check(r) == CheckOpen(r) \/ CheckClose(r) \/ CheckSell(r) \/ CheckShut(r)
Write(r) == (\E x \in ShiftIds : WriteOpen(r, x)) \/ WriteClose(r) \/ WriteSell(r) \/ WriteShut(r)

Next ==
  \/ \E r \in Requests : Ask(r) \/ Check(r) \/ Write(r) \/ Abort(r)
  \/ \E o \in Branches : Reactivate(o)
  \/ Downgrade

Spec == Init /\ [][Next]_vars

-----------------------------------------------------------------------------
Row == [status : {"NONE", "OPEN", "CLOSED"}, user : Users \cup {Nobody},
        outlet : Outlets \cup {NoOutlet}, counted : SUBSET Sales]
ReqState ==
  [op : {"idle", "open", "close", "sell", "deactivate", "delete"}, step : {"check", "write"},
   user : Users \cup {Nobody}, outlet : Outlets \cup {NoOutlet}, shift : ShiftIds \cup {NoShift},
   sale : Sales \cup {NoSale}, method : {"NONE", "CASH", "SPLIT"}, seen : SUBSET Sales]

TypeOK ==
  /\ shift \in [ShiftIds -> Row]
  /\ sale \in [Sales -> [shift : ShiftIds \cup {NoShift}, method : {"NONE", "CASH", "SPLIT"},
                         during : ShiftIds \cup {NoShift}]]
  /\ outlet \in [Outlets -> {"active", "inactive", "deleted"}]
  /\ req \in [Requests -> ReqState]
  /\ met \subseteq (SUBSET {"open", "close", "sell", "shut", "downgrade"}) \X (Users \cup Outlets)

(* A cashier has one open shift at most, unless two of their requests to   *)
(* open one overlapped (openShift creates what it did not find).           *)
OneOpenShift ==
  \A x, y \in ShiftIds :
    /\ shift[x].status = "OPEN" /\ shift[y].status = "OPEN"
    /\ shift[x].user = shift[y].user
    /\ <<{"open"}, shift[x].user>> \notin met
    => x = y

(* The cash a closed shift expects is that of all the CASH sales that name *)
(* it, and of no others, unless one was made while the shift was closing.  *)
ClosedShiftsCountTheirCash ==
  \A x \in ShiftIds :
    shift[x].status = "CLOSED" /\ <<{"close", "sell"}, shift[x].user>> \notin met
      => shift[x].counted = CashSales(x)

(* A branch with an open shift is active, so that its cashier can sell and *)
(* can close the shift (the outlet of a request must be active): unless it *)
(* was shut while the shift was being opened, or by a downgrade.           *)
OpenShiftsAreAtActiveOutlets ==
  \A x \in ShiftIds :
    LET o == shift[x].outlet IN
    shift[x].status = "OPEN" /\ (\A m \in AtOutlet \cup {{"downgrade"}} : <<m, o>> \notin met)
      => outlet[o] = "active"

(* The reconciliation of a closed shift stands, unless two requests to     *)
(* close overlapped (the second one overwrites it).                        *)
ClosedShiftsStand ==
  [][\A x \in ShiftIds :
       shift[x].status = "CLOSED" /\ <<{"close"}, shift[x].user>> \notin met' => shift'[x] = shift[x]]_vars

-----------------------------------------------------------------------------
(* What a comment says and the code does not do.                           *)

(* schema.prisma:401, cashExpected is "Expected total cash (float + cash   *)
(* sales)": with one request at a time, a closed shift expects the cash of *)
(* every CASH sale its cashier made in it.                                 *)
ExpectedCashIsFloatPlusCashSales ==
  \A x \in ShiftIds :
    shift[x].status = "CLOSED" /\ met = {}
      => {s \in Sales : sale[s].during = x /\ sale[s].method = "CASH"} \subseteq shift[x].counted
=============================================================================
