---------------------------- MODULE ShiftsProofs ----------------------------
(***************************************************************************)
(* Theorems about Shifts: the four properties its run checks, for any      *)
(* numbers of users, branches, shifts, sales and requests.                 *)
(*                                                                         *)
(* Nothing is locked between a check and the write that relies on it, so   *)
(* the invariant says what a request that is about to write may still      *)
(* rely on: what its check found, unless a request it conflicts with was   *)
(* under way at the same time.  Two such requests are on record in met     *)
(* (Apart), since the later of them begins while the earlier is busy.      *)
(***************************************************************************)
EXTENDS Shifts, TLAPS

Shutting == {"deactivate", "delete"}

(* What a request knows of the rows it is about to write.                  *)
Sound(q) ==
  /\ q.op \in {"open", "close", "sell"} => q.user \in Users
  /\ q.op = "open" =>
       /\ q.outlet \in Outlets
       /\ (\A m \in AtOutlet \cup {{"downgrade"}} : <<m, q.outlet>> \notin met)
            => outlet[q.outlet] = "active"
       /\ q.step = "write" /\ <<{"open"}, q.user>> \notin met => OpenFor(q.user) = {}
  /\ q.op = "close" =>
       /\ q.shift \in ShiftIds /\ shift[q.shift].user = q.user
       /\ q.step = "write" /\ <<{"close"}, q.user>> \notin met => shift[q.shift].status = "OPEN"
       /\ q.step = "write" /\ <<{"close", "sell"}, q.user>> \notin met => q.seen = CashSales(q.shift)
  /\ q.op = "sell" =>
       /\ q.sale \in Sales /\ sale[q.sale] = NotSold
       /\ q.shift # NoShift => shift[q.shift].user = q.user
       /\ q.shift # NoShift /\ q.step = "write" /\ <<{"close", "sell"}, q.user>> \notin met
            => shift[q.shift].status = "OPEN"
  /\ q.op \in Shutting =>
       /\ q.outlet \in Branches
       /\ q.step = "write" /\ <<{"open", "shut"}, q.outlet>> \notin met => OpenAt(q.outlet) = {}

(* Two requests that conflict are on record in m.                          *)
Apart(p, q, m) ==
  /\ p.op = "open" /\ q.op = "open" /\ p.user = q.user => <<{"open"}, p.user>> \in m
  /\ p.op = "close" /\ q.op = "close" /\ p.user = q.user => <<{"close"}, p.user>> \in m
  /\ p.op = "close" /\ q.op = "sell" /\ p.user = q.user => <<{"close", "sell"}, p.user>> \in m
  /\ p.op = "open" /\ q.op \in Shutting /\ p.outlet = q.outlet
       => <<{"open", "shut"}, p.outlet>> \in m
  /\ p.op = "sell" /\ q.op = "sell" => p.sale # q.sale

AllSound == \A r \in Requests : Sound(req[r])
AllApart == \A q, r \in Requests : q # r => Apart(req[q], req[r], met)

Safe ==
  /\ OneOpenShift /\ ClosedShiftsCountTheirCash /\ OpenShiftsAreAtActiveOutlets
  /\ outlet[Main] = "active"
  /\ \A x \in ShiftIds : shift[x].status = "OPEN" => shift[x].outlet \in Outlets

IInv == TypeOK /\ AllSound /\ AllApart /\ Safe

-----------------------------------------------------------------------------
(* A request that does nothing has found nothing.                          *)
LEMMA IdleIsSound == Idle \in ReqState /\ Sound(Idle)
  BY DEF Idle, ReqState, Sound, Shutting

(* At first there are no shifts, sales or requests.                        *)
LEMMA InitIInv == Init => IInv
<1> SUFFICES ASSUME Init PROVE IInv
  OBVIOUS
<1>1. TypeOK
  BY IdleIsSound DEF Init, TypeOK, NoRow, NotSold, Row
<1>2. AllSound /\ AllApart
  BY IdleIsSound DEF Init, AllSound, AllApart, Apart, Idle, Shutting
<1>3. Safe
  BY DEF Init, Safe, NoRow, OneOpenShift, ClosedShiftsCountTheirCash, OpenShiftsAreAtActiveOutlets, Outlets
<1> QED BY <1>1, <1>2, <1>3 DEF IInv

-----------------------------------------------------------------------------
(* A step that only replaces a request by a sound one, on record with the  *)
(* others.                                                                 *)
LEMMA OnlyTheRequest ==
  ASSUME IInv, NEW r \in Requests, NEW new \in ReqState, Sound(new),
         req' = [req EXCEPT ![r] = new], UNCHANGED <<shift, sale, outlet>>,
         met \subseteq met',
         met' \subseteq (SUBSET {"open", "close", "sell", "shut", "downgrade"}) \X (Users \cup Outlets),
         \A q \in Requests \ {r} : Apart(new, req[q], met') /\ Apart(req[q], new, met')
  PROVE  IInv'
<1>1. TypeOK'
  BY DEF IInv, TypeOK
<1>2. Sound(new)'
  BY DEF Sound, OpenFor, OpenAt, CashSales
<1>3. AllSound'
  <2> SUFFICES ASSUME NEW q \in Requests, q # r PROVE Sound(req[q])'
    BY <1>2 DEF AllSound, IInv, TypeOK
  <2>1. Sound(req[q]) /\ req'[q] = req[q]
    BY DEF IInv, AllSound, TypeOK
  <2> QED BY <2>1 DEF Sound, OpenFor, OpenAt, CashSales
<1>4. AllApart'
  <2> SUFFICES ASSUME NEW p \in Requests, NEW q \in Requests, p # q
               PROVE  Apart(req'[p], req'[q], met')
    BY DEF AllApart
  <2>1. CASE p = r \/ q = r
    BY <2>1 DEF IInv, TypeOK
  <2>2. CASE p # r /\ q # r
    <3>1. Apart(req[p], req[q], met) /\ req'[p] = req[p] /\ req'[q] = req[q]
      BY <2>2 DEF IInv, TypeOK, AllApart
    <3> QED BY <3>1 DEF Apart
  <2> QED BY <2>1, <2>2
<1>5. Safe'
  BY DEF IInv, Safe, OneOpenShift, ClosedShiftsCountTheirCash, OpenShiftsAreAtActiveOutlets, CashSales
<1> QED BY <1>1, <1>3, <1>4, <1>5 DEF IInv

(* The request is gone.                                                    *)
LEMMA LeaveIInv ==
  ASSUME IInv, NEW r \in Requests, Leave(r), UNCHANGED <<shift, sale, outlet, met>>
  PROVE  IInv'
<1>1. \A q \in Requests \ {r} : Apart(Idle, req[q], met') /\ Apart(req[q], Idle, met')
  BY DEF Apart, Idle, Shutting
<1> QED BY <1>1, IdleIsSound, OnlyTheRequest DEF Leave, IInv, TypeOK

(* A request begins: its conflicts with those under way go on record.      *)
LEMMA BeginIInv ==
  ASSUME IInv, NEW r \in Requests, NEW new \in ReqState, Sound(new), Begin(r, new),
         new.op # "idle",
         new.op = "sell" => \A q \in Requests : req[q].sale # new.sale
  PROVE  IInv'
<1> DEFINE pairs == {<<{Kind(new.op), Kind(req[q].op)}, q>> : q \in {q \in Requests : Busy(q)}}
           ofUser == {<<m[1], new.user>> : m \in {m \in pairs : m[1] \in OfUser /\ req[m[2]].user = new.user}}
           atOutlet == {<<m[1], new.outlet>> : m \in {m \in pairs : m[1] \in AtOutlet /\ req[m[2]].outlet = new.outlet}}
<1>1. met' = met \cup ofUser \cup atOutlet
  BY DEF Begin
<1>2. ASSUME NEW q \in Requests, Busy(q)
      PROVE  LET k == {Kind(new.op), Kind(req[q].op)} IN
             /\ k \in OfUser /\ req[q].user = new.user => <<k, new.user>> \in met'
             /\ k \in AtOutlet /\ req[q].outlet = new.outlet => <<k, new.outlet>> \in met'
  <2> DEFINE m == <<{Kind(new.op), Kind(req[q].op)}, q>>
  <2>1. m \in pairs
    BY <1>2
  <2>2. m[1] = {Kind(new.op), Kind(req[q].op)} /\ m[2] = q
    OBVIOUS
  <2> HIDE DEF m
  <2> QED BY <2>1, <2>2, <1>1
<1>3. ASSUME NEW q \in Requests \ {r}
      PROVE  Apart(new, req[q], met') /\ Apart(req[q], new, met')
  <2>1. CASE ~Busy(q)
    BY <2>1 DEF Busy, Apart, Shutting
  <2>2. CASE Busy(q)
    <3>1. new.op = "open" /\ req[q].op = "open" /\ new.user = req[q].user
            => <<{"open"}, new.user>> \in met'
      BY <1>2, <2>2 DEF Kind, OfUser
    <3>2. new.op = "close" /\ req[q].op = "close" /\ new.user = req[q].user
            => <<{"close"}, new.user>> \in met'
      BY <1>2, <2>2 DEF Kind, OfUser
    <3>3. {new.op, req[q].op} = {"close", "sell"} /\ new.user = req[q].user
            => <<{"close", "sell"}, new.user>> \in met'
      <4> SUFFICES ASSUME {new.op, req[q].op} = {"close", "sell"}, new.user = req[q].user
                   PROVE  <<{"close", "sell"}, new.user>> \in met'
        OBVIOUS
      <4>1. Kind(new.op) = new.op /\ Kind(req[q].op) = req[q].op
        BY DEF Kind
      <4> QED BY <4>1, <1>2, <2>2 DEF OfUser
    <3>4. ASSUME \/ new.op = "open" /\ req[q].op \in Shutting
                 \/ req[q].op = "open" /\ new.op \in Shutting,
                 new.outlet = req[q].outlet
          PROVE  <<{"open", "shut"}, new.outlet>> \in met'
      <4>1. {Kind(new.op), Kind(req[q].op)} = {"open", "shut"}
        BY <3>4 DEF Kind, Shutting
      <4> QED BY <3>4, <4>1, <1>2, <2>2 DEF AtOutlet
    <3>5. new.op = "sell" /\ req[q].op = "sell" => new.sale # req[q].sale
      OBVIOUS
    <3> QED BY <3>1, <3>2, <3>3, <3>4, <3>5 DEF Apart
  <2> QED BY <2>1, <2>2
<1>4. met' \subseteq (SUBSET {"open", "close", "sell", "shut", "downgrade"}) \X (Users \cup Outlets)
  <2>1. met \subseteq (SUBSET {"open", "close", "sell", "shut", "downgrade"}) \X (Users \cup Outlets)
    BY DEF IInv, TypeOK
  <2>2. ASSUME NEW e \in ofUser
        PROVE  e \in (SUBSET {"open", "close", "sell", "shut", "downgrade"}) \X (Users \cup Outlets)
    <3>1. PICK q \in Requests : e = <<{Kind(new.op), Kind(req[q].op)}, new.user>> /\ e[1] \in OfUser
      BY <2>2
    <3>2. "shut" \notin e[1] /\ e[1] \subseteq {"open", "close", "sell"}
      BY <3>1 DEF OfUser
    <3>3. new.op \in {"open", "close", "sell"}
      BY <3>1, <3>2 DEF Kind
    <3> QED BY <3>1, <3>2, <3>3 DEF Sound
  <2>3. ASSUME NEW e \in atOutlet
        PROVE  e \in (SUBSET {"open", "close", "sell", "shut", "downgrade"}) \X (Users \cup Outlets)
    <3>1. PICK q \in Requests : e = <<{Kind(new.op), Kind(req[q].op)}, new.outlet>> /\ e[1] \in AtOutlet
      BY <2>3
    <3>2. new.op \in {"open", "deactivate", "delete"}
      <4>1. e[1] = {Kind(new.op), Kind(req[q].op)} /\ e[1] = {"open", "shut"}
        BY <3>1 DEF AtOutlet
      <4>2. Kind(new.op) \in {"open", "shut"}
        BY <4>1
      <4> QED BY <4>2 DEF Kind, ReqState
    <3>3. new.outlet \in Outlets
      BY <3>2 DEF Sound, Shutting, Outlets
    <3> QED BY <3>1, <3>3 DEF AtOutlet
  <2> QED BY <1>1, <2>1, <2>2, <2>3
<1>5. /\ req' = [req EXCEPT ![r] = new] /\ UNCHANGED <<shift, sale, outlet>>
      /\ met \subseteq met'
  BY <1>1 DEF Begin
<1> QED BY <1>3, <1>4, <1>5, OnlyTheRequest

(* A request that arrives has found nothing yet.                           *)
LEMMA AskIInv ==
  ASSUME IInv, NEW r \in Requests, Ask(r)
  PROVE  IInv'
<1>1. ASSUME NEW u \in Users, NEW o \in Carries(u)
      PROVE  o \in Outlets \cup {NoOutlet}
  BY <1>1, AccessAssumption DEF Carries
<1>2. ASSUME NEW u \in Users, NEW o \in Carries(u), Open(r, u, o)
      PROVE  IInv'
  <2> DEFINE new == [Idle EXCEPT !.op = "open", !.user = u, !.outlet = o]
  <2>1. new \in ReqState /\ new.op = "open" /\ Begin(r, new)
    BY <1>1, <1>2 DEF Open, Idle, ReqState
  <2>2. Sound(new)
    BY <1>1, <1>2 DEF Sound, Open, Passes, Idle, Shutting
  <2> HIDE DEF new
  <2> QED BY <2>1, <2>2, BeginIInv
<1>3. ASSUME NEW u \in Users, NEW o \in Carries(u), NEW x \in ShiftIds, Close(r, u, o, x)
      PROVE  IInv'
  <2> DEFINE new == [Idle EXCEPT !.op = "close", !.user = u, !.shift = x]
  <2>1. new \in ReqState /\ new.op = "close" /\ Begin(r, new)
    BY <1>3 DEF Close, Idle, ReqState
  <2>2. Sound(new)
    BY <1>3 DEF Sound, Close, Idle, Shutting
  <2> HIDE DEF new
  <2> QED BY <2>1, <2>2, BeginIInv
<1>4. ASSUME NEW u \in Users, NEW o \in Carries(u), NEW x \in ShiftIds \cup {NoShift},
             NEW s \in Sales, NEW method \in {"CASH", "SPLIT"}, Sell(r, u, o, x, s, method)
      PROVE  IInv'
  <2> DEFINE new == [Idle EXCEPT !.op = "sell", !.user = u, !.outlet = o, !.shift = x,
                                 !.sale = s, !.method = method]
  <2>1. new \in ReqState /\ new.op = "sell" /\ Begin(r, new)
    BY <1>1, <1>4 DEF Sell, Idle, ReqState
  <2>2. Sound(new)
    BY <1>4 DEF Sound, Sell, Idle, Shutting
  <2>3. \A q \in Requests : req[q].sale # new.sale
    BY <1>4 DEF Sell, Idle
  <2> HIDE DEF new
  <2> QED BY <2>1, <2>2, <2>3, BeginIInv
<1>5. ASSUME NEW o \in Branches, NEW op \in Shutting, Shut(r, op, o)
      PROVE  IInv'
  <2> DEFINE new == [Idle EXCEPT !.op = op, !.outlet = o]
  <2>1. new \in ReqState /\ new.op = op /\ Begin(r, new)
    BY <1>5 DEF Shut, Idle, ReqState, Shutting, Outlets
  <2>2. Sound(new)
    BY <1>5 DEF Sound, Idle, Shutting
  <2> HIDE DEF new
  <2> QED BY <2>1, <2>2, BeginIInv DEF Shutting
<1> QED BY <1>2, <1>3, <1>4, <1>5 DEF Ask, Shutting

-----------------------------------------------------------------------------
(* A check that passes: the request goes on with what it has seen.         *)
LEMMA GrantIInv ==
  ASSUME IInv, NEW r \in Requests, NEW new \in ReqState, Sound(new),
         req' = [req EXCEPT ![r] = new], UNCHANGED <<shift, sale, outlet, met>>,
         new.op = req[r].op, new.user = req[r].user, new.outlet = req[r].outlet,
         new.sale = req[r].sale
  PROVE  IInv'
<1>1. \A q \in Requests \ {r} : Apart(new, req[q], met') /\ Apart(req[q], new, met')
  <2> TAKE q \in Requests \ {r}
  <2>1. Apart(req[r], req[q], met) /\ Apart(req[q], req[r], met)
    BY DEF IInv, AllApart
  <2> QED BY <2>1 DEF Apart
<1> QED BY <1>1, OnlyTheRequest DEF IInv, TypeOK

(* What a check finds is so when it is found.                              *)
LEMMA CheckIInv ==
  ASSUME IInv, NEW r \in Requests, Check(r)
  PROVE  IInv'
<1> DEFINE with(seen) == [req[r] EXCEPT !.step = "write", !.seen = seen]
<1>1. req[r] \in ReqState /\ Sound(req[r])
  BY DEF IInv, TypeOK, AllSound
<1>2. ASSUME NEW seen \in SUBSET Sales, Sound(with(seen)),
             req' = [req EXCEPT ![r] = with(seen)], UNCHANGED <<shift, sale, outlet, met>>
      PROVE  IInv'
  <2> PICK new \in ReqState : new = with(seen)
    BY <1>1 DEF ReqState
  <2> QED BY <1>1, <1>2, GrantIInv DEF ReqState
<1>3. CASE req' = [req EXCEPT ![r] = Idle] /\ UNCHANGED <<shift, sale, outlet, met>>
  BY <1>3, LeaveIInv DEF Leave
<1>4. CASE CheckOpen(r)
  <2>1. SUFFICES ASSUME OpenFor(req[r].user) = {}
        PROVE  IInv'
    BY <1>3, <1>4 DEF CheckOpen, Decide
  <2>2. Sound(with({}))
    BY <1>1, <1>4, <2>1 DEF CheckOpen, Checking, Sound, ReqState, OpenFor, Shutting
  <2> QED BY <1>2, <1>4, <2>1, <2>2 DEF CheckOpen, Decide
<1>5. CASE CheckClose(r)
  <2>1. SUFFICES ASSUME shift[req[r].shift].status = "OPEN"
        PROVE  IInv'
    BY <1>3, <1>5 DEF CheckClose, Decide
  <2> PICK seen \in SUBSET Sales : seen = CashSales(req[r].shift)
    BY DEF CashSales
  <2>2. Sound(with(seen))
    BY <1>1, <1>5, <2>1 DEF CheckClose, Checking, Sound, ReqState, CashSales, Shutting
  <2> QED BY <1>2, <1>5, <2>1, <2>2 DEF CheckClose, Decide
<1>6. CASE CheckSell(r)
  <2>1. SUFFICES ASSUME req[r].shift # NoShift => shift[req[r].shift].status = "OPEN"
        PROVE  IInv'
    BY <1>3, <1>6 DEF CheckSell, Decide
  <2>2. Sound(with({}))
    BY <1>1, <1>6, <2>1 DEF CheckSell, Checking, Sound, ReqState, Shutting
  <2>3. \/ req' = [req EXCEPT ![r] = with({})]
        \/ req' = [req EXCEPT ![r] = Idle]
    BY <1>6 DEF CheckSell, Decide
  <2>4. UNCHANGED <<shift, sale, outlet, met>>
    BY <1>6 DEF CheckSell, Decide
  <2> QED BY <1>2, <1>3, <2>2, <2>3, <2>4
<1>7. CASE CheckShut(r)
  <2>1. SUFFICES ASSUME OpenAt(req[r].outlet) = {}
        PROVE  IInv'
    BY <1>3, <1>7 DEF CheckShut, Decide
  <2>2. Sound(with({}))
    BY <1>1, <1>7, <2>1 DEF CheckShut, Checking, Sound, ReqState, OpenAt, Shutting
  <2> QED BY <1>2, <1>7, <2>1, <2>2 DEF CheckShut, Decide
<1> QED BY <1>4, <1>5, <1>6, <1>7 DEF Check

-----------------------------------------------------------------------------
(* A request that ends overlaps nobody any more.                           *)
LEMMA LeaveApart ==
  ASSUME IInv, NEW r \in Requests, Leave(r), met \subseteq met'
  PROVE  AllApart' /\ req' \in [Requests -> ReqState]
<1>1. req' = [req EXCEPT ![r] = Idle] /\ req \in [Requests -> ReqState]
  BY DEF Leave, IInv, TypeOK
<1>2. ASSUME NEW p \in Requests, NEW q \in Requests, p # q
      PROVE  Apart(req'[p], req'[q], met')
  <2>1. Apart(req[p], req[q], met)
    BY <1>2 DEF IInv, AllApart
  <2>2. CASE p = r \/ q = r
    BY <1>1, <2>2 DEF Apart, Idle, Shutting
  <2>3. CASE p # r /\ q # r
    <3>1. req'[p] = req[p] /\ req'[q] = req[q]
      BY <1>1, <2>3
    <3> QED BY <2>1, <3>1 DEF Apart
  <2> QED BY <2>2, <2>3
<1> QED BY <1>1, <1>2, IdleIsSound DEF AllApart

(* Soundness of the requests that are left when r has gone.                *)
LEMMA LeaveSound ==
  ASSUME IInv, NEW r \in Requests, Leave(r),
         \A q \in Requests \ {r} : Sound(req[q])'
  PROVE  AllSound'
<1>1. req'[r] = Idle
  BY DEF Leave, IInv, TypeOK
<1>2. Sound(req[r])'
  BY <1>1 DEF Sound, Idle, Shutting
<1> QED BY <1>2 DEF AllSound

(* Opening a shift: no other is open, or an overlap was recorded.          *)
LEMMA WriteOpenIInv ==
  ASSUME IInv, NEW r \in Requests, NEW x \in ShiftIds, WriteOpen(r, x)
  PROVE  IInv'
<1> DEFINE u == req[r].user
           new == [status |-> "OPEN", user |-> req[r].user, outlet |-> req[r].outlet, counted |-> {}]
<1>1. /\ Sound(req[r]) /\ req[r] \in ReqState /\ Writing(r, "open") /\ Leave(r)
      /\ shift[x] = NoRow /\ shift' = [shift EXCEPT ![x] = new]
      /\ UNCHANGED <<sale, outlet, met>>
  BY DEF WriteOpen, IInv, AllSound, TypeOK
<1>2. /\ u \in Users /\ req[r].outlet \in Outlets
      /\ <<{"open"}, u>> \notin met => OpenFor(u) = {}
      /\ (\A m \in AtOutlet \cup {{"downgrade"}} : <<m, req[r].outlet>> \notin met)
           => outlet[req[r].outlet] = "active"
  BY <1>1 DEF Sound, Writing
<1>3. shift \in [ShiftIds -> Row] /\ new \in Row
  BY <1>2 DEF IInv, TypeOK, Row
<1>4. TypeOK'
  BY <1>1, <1>3, LeaveApart DEF IInv, TypeOK
<1>5. ASSUME NEW q \in Requests \ {r} PROVE Sound(req[q])'
  <2>1. /\ Sound(req[q]) /\ req'[q] = req[q] /\ req[q] \in ReqState
        /\ Apart(req[r], req[q], met)
    BY <1>1 DEF IInv, AllSound, AllApart, TypeOK, Leave
  <2>2. x \notin ShiftIds \/ (req[q].op \in {"close", "sell"} => req[q].shift # x)
    BY <1>1, <2>1, NamesAssumption DEF Sound, NoRow
  <2>3. \A y \in ShiftIds : y # x => shift'[y] = shift[y]
    BY <1>1, <1>3
  <2>4. shift'[x] = new
    BY <1>1, <1>3
  <2>5. CASE req[q].op = "open"
    <3>1. req[q].user = u => <<{"open"}, u>> \in met
      BY <1>1, <2>1, <2>5 DEF Apart, Writing
    <3>2. req[q].user # u => OpenFor(req[q].user)' \subseteq OpenFor(req[q].user)
      BY <2>1, <2>3, <2>4 DEF OpenFor
    <3> QED BY <1>1, <2>1, <2>5, <3>1, <3>2 DEF Sound, Shutting
  <2>6. CASE req[q].op \in {"close", "sell"}
    BY <1>1, <2>1, <2>2, <2>3, <2>6, NamesAssumption DEF Sound, Shutting, CashSales, ReqState
  <2>7. CASE req[q].op \in Shutting
    <3>1. req[q].outlet = req[r].outlet => <<{"open", "shut"}, req[q].outlet>> \in met
      BY <1>1, <2>1, <2>7 DEF Apart, Writing
    <3>2. req[q].outlet # req[r].outlet => OpenAt(req[q].outlet)' \subseteq OpenAt(req[q].outlet)
      BY <2>1, <2>3, <2>4 DEF OpenAt
    <3> QED BY <1>1, <2>1, <2>7, <3>1, <3>2 DEF Sound, Shutting
  <2>8. CASE req[q].op = "idle"
    BY <2>1, <2>8 DEF Sound, Shutting
  <2> QED BY <2>1, <2>5, <2>6, <2>7, <2>8 DEF ReqState, Shutting
<1>6. Safe'
  <2>1. Safe
    BY DEF IInv
  <2>2. OneOpenShift'
    BY <1>1, <1>2, <1>3, <2>1 DEF Safe, OneOpenShift, OpenFor
  <2>3. ClosedShiftsCountTheirCash'
    BY <1>1, <1>3, <2>1 DEF Safe, ClosedShiftsCountTheirCash, CashSales
  <2>4. OpenShiftsAreAtActiveOutlets'
    BY <1>1, <1>2, <1>3, <2>1 DEF Safe, OpenShiftsAreAtActiveOutlets
  <2> QED BY <1>1, <1>2, <1>3, <2>1, <2>2, <2>3, <2>4 DEF Safe
<1> QED BY <1>1, <1>4, <1>5, <1>6, LeaveSound, LeaveApart DEF IInv

(* Closing a shift counts the cash of the sales in it.                     *)
LEMMA WriteCloseIInv ==
  ASSUME IInv, NEW r \in Requests, WriteClose(r)
  PROVE  IInv'
<1> DEFINE x == req[r].shift
           u == req[r].user
<1>1. /\ Sound(req[r]) /\ req[r] \in ReqState /\ Writing(r, "close") /\ Leave(r)
      /\ shift' = [shift EXCEPT ![x] = [shift[x] EXCEPT !.status = "CLOSED", !.counted = req[r].seen]]
      /\ UNCHANGED <<sale, outlet, met>>
  BY DEF WriteClose, IInv, AllSound, TypeOK
<1>2. /\ x \in ShiftIds /\ shift[x].user = u
      /\ <<{"close", "sell"}, u>> \notin met => req[r].seen = CashSales(x)
  BY <1>1 DEF Sound, Writing
<1>3. shift \in [ShiftIds -> Row]
  BY DEF IInv, TypeOK
<1>4. /\ shift'[x].status = "CLOSED" /\ shift'[x].counted = req[r].seen
      /\ shift'[x].user = u /\ shift'[x].outlet = shift[x].outlet
      /\ shift'[x] \in Row
      /\ \A y \in ShiftIds : y # x => shift'[y] = shift[y]
  BY <1>1, <1>2, <1>3 DEF Row, ReqState
<1>5. TypeOK'
  <2>1. shift' \in [ShiftIds -> Row]
    BY <1>1, <1>3, <1>4
  <2> QED BY <1>1, <2>1, LeaveApart DEF IInv, TypeOK
<1>6. /\ \A v : OpenFor(v)' \subseteq OpenFor(v)
      /\ \A o : OpenAt(o)' \subseteq OpenAt(o)
  BY <1>2, <1>4 DEF OpenFor, OpenAt
<1>7. ASSUME NEW q \in Requests \ {r} PROVE Sound(req[q])'
  <2>1. /\ Sound(req[q]) /\ req'[q] = req[q] /\ req[q] \in ReqState
        /\ Apart(req[r], req[q], met)
    BY <1>1 DEF IInv, AllSound, AllApart, TypeOK, Leave
  <2>2. req[q].op \in {"close", "sell"} /\ req[q].shift = x /\ req[q].shift # NoShift => req[q].user = u
    BY <1>2, <2>1 DEF Sound
  <2>3. CASE req[q].op = "close"
    <3>1. req[q].shift = x => <<{"close"}, req[q].user>> \in met
      BY <1>1, <1>2, <2>1, <2>3 DEF Apart, Writing, Sound
    <3> QED BY <1>1, <1>2, <1>4, <2>1, <2>3, <3>1 DEF Sound, Shutting, CashSales
  <2>4. CASE req[q].op = "sell"
    <3>1. req[q].shift = x /\ req[q].shift # NoShift => <<{"close", "sell"}, req[q].user>> \in met
      BY <1>1, <2>1, <2>2, <2>4 DEF Apart, Writing
    <3> QED BY <1>1, <1>2, <1>4, <2>1, <2>4, <3>1 DEF Sound, Shutting, ReqState
  <2>5. CASE req[q].op \in {"open", "idle"} \cup Shutting
    BY <1>1, <1>6, <2>1, <2>5 DEF Sound, Shutting
  <2> QED BY <2>1, <2>3, <2>4, <2>5 DEF ReqState, Shutting
<1>8. Safe'
  <2>1. Safe
    BY DEF IInv
  <2>2. OneOpenShift'
    BY <1>1, <1>4, <2>1 DEF Safe, OneOpenShift
  <2>3. ClosedShiftsCountTheirCash'
    <3>1. \A y \in ShiftIds : CashSales(y)' = CashSales(y)
      BY <1>1 DEF CashSales
    <3> SUFFICES ASSUME NEW y \in ShiftIds, shift'[y].status = "CLOSED",
                        <<{"close", "sell"}, shift'[y].user>> \notin met
                 PROVE  shift'[y].counted = CashSales(y)
      BY <1>1, <3>1 DEF ClosedShiftsCountTheirCash
    <3>2. CASE y = x
      BY <1>2, <1>4, <3>2
    <3>3. CASE y # x
      BY <1>4, <2>1, <3>3 DEF Safe, ClosedShiftsCountTheirCash
    <3> QED BY <3>2, <3>3
  <2>4. OpenShiftsAreAtActiveOutlets'
    BY <1>1, <1>4, <2>1 DEF Safe, OpenShiftsAreAtActiveOutlets
  <2> QED BY <1>1, <1>4, <2>1, <2>2, <2>3, <2>4 DEF Safe
<1> QED BY <1>1, <1>5, <1>7, <1>8, LeaveSound, LeaveApart DEF IInv

(* Recording a sale: its shift is open, or an overlap was recorded.        *)
LEMMA WriteSellIInv ==
  ASSUME IInv, NEW r \in Requests, WriteSell(r)
  PROVE  IInv'
<1> DEFINE s == req[r].sale
           x == req[r].shift
           u == req[r].user
<1>1. /\ Sound(req[r]) /\ req[r] \in ReqState /\ Writing(r, "sell") /\ Leave(r)
      /\ UNCHANGED <<shift, outlet, met>>
  BY DEF WriteSell, IInv, AllSound, TypeOK
<1>2. /\ s \in Sales /\ sale[s] = NotSold
      /\ x # NoShift => shift[x].user = u
      /\ x # NoShift /\ <<{"close", "sell"}, u>> \notin met => shift[x].status = "OPEN"
  BY <1>1 DEF Sound, Writing
<1>3. PICK y \in ShiftIds \cup {NoShift} :
        sale' = [sale EXCEPT ![s] = [shift |-> x, method |-> req[r].method, during |-> y]]
  BY DEF WriteSell, OpenFor
<1>4. TypeOK'
  BY <1>1, <1>3, LeaveApart DEF IInv, TypeOK, ReqState
<1>5. /\ \A t \in Sales : t # s => sale'[t] = sale[t]
      /\ sale'[s].shift = x
  BY <1>2, <1>3 DEF IInv, TypeOK
<1>6. \A z \in ShiftIds : z # x => CashSales(z)' = CashSales(z)
  BY <1>2, <1>5, NamesAssumption DEF CashSales, NotSold
<1>7. ASSUME NEW q \in Requests \ {r} PROVE Sound(req[q])'
  <2>1. /\ Sound(req[q]) /\ req'[q] = req[q] /\ req[q] \in ReqState
        /\ Apart(req[r], req[q], met) /\ Apart(req[q], req[r], met)
    BY <1>1 DEF IInv, AllSound, AllApart, TypeOK, Leave
  <2>2. CASE req[q].op = "close"
    <3>1. req[q].shift = x => <<{"close", "sell"}, req[q].user>> \in met
      BY <1>1, <1>2, <2>1, <2>2, NamesAssumption DEF Apart, Writing, Sound
    <3> QED BY <1>1, <1>6, <2>1, <2>2, <3>1 DEF Sound, Shutting
  <2>3. CASE req[q].op = "sell"
    BY <1>1, <1>5, <2>1, <2>3 DEF Sound, Shutting, Apart, Writing
  <2>4. CASE req[q].op \in {"open", "idle"} \cup Shutting
    BY <1>1, <2>1, <2>4 DEF Sound, Shutting, OpenFor, OpenAt
  <2> QED BY <2>1, <2>2, <2>3, <2>4 DEF ReqState, Shutting
<1>8. Safe'
  BY <1>1, <1>2, <1>6, NamesAssumption
     DEF IInv, Safe, OneOpenShift, ClosedShiftsCountTheirCash, OpenShiftsAreAtActiveOutlets
<1> QED BY <1>1, <1>4, <1>7, <1>8, LeaveSound, LeaveApart DEF IInv

(* Closing a branch: no shift is open, or an overlap was recorded.         *)
LEMMA WriteShutIInv ==
  ASSUME IInv, NEW r \in Requests, WriteShut(r)
  PROVE  IInv'
<1> DEFINE o == req[r].outlet
<1>1. /\ Sound(req[r]) /\ req[r].op \in Shutting /\ req[r].step = "write" /\ Leave(r)
      /\ UNCHANGED <<shift, sale, met>>
  BY DEF WriteShut, Writing, Shutting, IInv, AllSound
<1>2. o \in Branches /\ (<<{"open", "shut"}, o>> \notin met => OpenAt(o) = {})
  BY <1>1 DEF Sound, Shutting
<1>3. /\ outlet' \in [Outlets -> {"active", "inactive", "deleted"}]
      /\ \A p \in Outlets : p # o => outlet'[p] = outlet[p]
  BY <1>2 DEF WriteShut, SetOutlet, IInv, TypeOK, Outlets
<1>4. TypeOK'
  BY <1>1, <1>3, LeaveApart DEF IInv, TypeOK
<1>5. ASSUME NEW q \in Requests \ {r} PROVE Sound(req[q])'
  <2>1. Sound(req[q]) /\ req'[q] = req[q] /\ Apart(req[q], req[r], met)
    BY <1>1 DEF IInv, AllSound, AllApart, TypeOK, Leave
  <2>2. req[q].op = "open" /\ req[q].outlet = o => <<{"open", "shut"}, o>> \in met
    BY <1>1, <2>1 DEF Apart
  <2>3. CASE req[q].op = "open"
    <3>1. req[q].outlet # o => outlet'[req[q].outlet] = outlet[req[q].outlet]
      BY <1>3, <2>1, <2>3 DEF Sound
    <3> QED BY <1>1, <2>1, <2>2, <2>3, <3>1 DEF Sound, OpenFor, AtOutlet, Shutting
  <2>4. CASE req[q].op # "open"
    BY <1>1, <2>1, <2>4 DEF Sound, OpenAt, CashSales
  <2> QED BY <2>3, <2>4
<1>6. Safe'
  <2>1. Safe /\ Main \in Outlets /\ Main # o /\ shift \in [ShiftIds -> Row]
    BY <1>2, AccessAssumption DEF IInv, TypeOK, Outlets
  <2>2. OpenShiftsAreAtActiveOutlets'
    <3> SUFFICES ASSUME NEW y \in ShiftIds, shift[y].status = "OPEN",
                        \A m \in AtOutlet \cup {{"downgrade"}} : <<m, shift[y].outlet>> \notin met
                 PROVE  outlet'[shift[y].outlet] = "active"
      BY <1>1 DEF OpenShiftsAreAtActiveOutlets
    <3>1. outlet[shift[y].outlet] = "active" /\ shift[y].outlet # o
      BY <1>2, <2>1 DEF Safe, OpenShiftsAreAtActiveOutlets, AtOutlet, OpenAt
    <3>2. shift[y].outlet \in Outlets
      BY <3>1, <2>1 DEF Safe
    <3> QED BY <1>3, <3>1, <3>2
  <2> QED BY <1>1, <1>3, <2>1, <2>2 DEF Safe, OneOpenShift, ClosedShiftsCountTheirCash, CashSales
<1> QED BY <1>1, <1>4, <1>5, <1>6, LeaveSound, LeaveApart DEF IInv

(* An outlet that opens again disturbs nobody.                             *)
LEMMA ReactivateIInv ==
  ASSUME IInv, NEW o \in Branches, Reactivate(o)
  PROVE  IInv'
<1>1. /\ UNCHANGED <<shift, sale, req, met>> /\ outlet[o] # "deleted"
      /\ outlet' = [outlet EXCEPT ![o] = "active"] /\ Main # o /\ Main \in Outlets
  BY AccessAssumption DEF Reactivate, SetOutlet, Outlets
<1>2. outlet \in [Outlets -> {"active", "inactive", "deleted"}]
  BY DEF IInv, TypeOK
<1>3. TypeOK' /\ \A p \in Outlets : outlet[p] = "active" => outlet'[p] = "active"
  BY <1>1, <1>2 DEF IInv, TypeOK
<1>4. AllSound' /\ AllApart'
  BY <1>1, <1>3 DEF IInv, AllSound, AllApart, Sound, OpenFor, OpenAt, CashSales
<1>5. Safe'
  BY <1>1, <1>3
     DEF IInv, Safe, OneOpenShift, ClosedShiftsCountTheirCash, OpenShiftsAreAtActiveOutlets, CashSales
<1> QED BY <1>3, <1>4, <1>5 DEF IInv

(* A downgrade closes branches with open shifts, and is recorded.          *)
LEMMA DowngradeIInv ==
  ASSUME IInv, Downgrade
  PROVE  IInv'
<1>1. /\ UNCHANGED <<shift, sale, req>>
      /\ met' = met \cup {<<{"downgrade"}, o>> : o \in Branches}
      /\ Main \notin Branches /\ Main \in Outlets
  BY AccessAssumption DEF Downgrade, Outlets
<1>2. /\ outlet' \in [Outlets -> {"active", "inactive", "deleted"}]
      /\ \A o \in Outlets \ Branches : outlet'[o] = outlet[o]
  BY DEF Downgrade, IInv, TypeOK
<1>3. met \subseteq met' /\ \A o \in Branches : <<{"downgrade"}, o>> \in met'
  BY <1>1
<1>4. TypeOK'
  BY <1>1, <1>2 DEF IInv, TypeOK, Outlets
<1>5. AllApart'
  BY <1>1, <1>3 DEF IInv, AllApart, Apart
<1>6. ASSUME NEW q \in Requests PROVE Sound(req[q])'
  <2>1. Sound(req[q]) /\ req'[q] = req[q]
    BY <1>1 DEF IInv, AllSound
  <2>2. CASE req[q].op = "open"
    BY <1>1, <1>2, <1>3, <2>1, <2>2 DEF Sound, OpenFor, Shutting
  <2>3. CASE req[q].op # "open"
    BY <1>1, <1>3, <2>1, <2>3 DEF Sound, OpenAt, CashSales
  <2> QED BY <2>2, <2>3
<1>7. Safe'
  <2>1. Safe
    BY DEF IInv
  <2>2. OneOpenShift' /\ ClosedShiftsCountTheirCash'
    BY <1>1, <1>3, <2>1 DEF Safe, OneOpenShift, ClosedShiftsCountTheirCash, CashSales
  <2>3. OpenShiftsAreAtActiveOutlets'
    BY <1>1, <1>2, <1>3, <2>1 DEF Safe, OpenShiftsAreAtActiveOutlets
  <2> QED BY <1>1, <1>2, <2>1, <2>2, <2>3 DEF Safe
<1> QED BY <1>4, <1>5, <1>6, <1>7 DEF IInv, AllSound

-----------------------------------------------------------------------------
(* Every step keeps the invariant.                                         *)
LEMMA NextIInv == IInv /\ [Next]_vars => IInv'
<1> SUFFICES ASSUME IInv, [Next]_vars PROVE IInv'
  OBVIOUS
<1>1. CASE UNCHANGED vars
  <2>1. TypeOK' /\ AllApart'
    BY <1>1 DEF vars, IInv, TypeOK, AllApart
  <2>2. AllSound'
    BY <1>1 DEF vars, IInv, AllSound, Sound, OpenFor, OpenAt, CashSales
  <2>3. Safe'
    BY <1>1 DEF vars, IInv, Safe, CashSales, OneOpenShift, ClosedShiftsCountTheirCash,
                OpenShiftsAreAtActiveOutlets
  <2> QED BY <2>1, <2>2, <2>3 DEF IInv
<1>2. ASSUME NEW r \in Requests, Ask(r) \/ Check(r) \/ Write(r) \/ Abort(r)
      PROVE  IInv'
  <2>1. CASE Ask(r) \/ Check(r)
    BY <2>1, AskIInv, CheckIInv
  <2>2. CASE Write(r)
    BY <2>2, WriteOpenIInv, WriteCloseIInv, WriteSellIInv, WriteShutIInv DEF Write
  <2>3. CASE Abort(r)
    BY <2>3, LeaveIInv DEF Abort
  <2> QED BY <1>2, <2>1, <2>2, <2>3
<1> QED BY <1>1, <1>2, ReactivateIInv, DowngradeIInv DEF Next

(* The requests, rows and overlaps on record keep their types.             *)
THEOREM ShiftsTypeCorrect == Spec => []TypeOK
<1>1. IInv => TypeOK
  BY DEF IInv
<1> QED BY InitIInv, NextIInv, <1>1, PTL DEF Spec

(* openShift creates what it did not find: a cashier has two open shifts   *)
(* only when two of their requests to open one overlapped.                 *)
THEOREM ShiftsOneOpenShift == Spec => []OneOpenShift
<1>1. IInv => OneOpenShift
  BY DEF IInv, Safe
<1> QED BY InitIInv, NextIInv, <1>1, PTL DEF Spec

(* closeShift: the cash a closed shift expects is that of all the CASH     *)
(* sales that name it, unless one overlapped the closing.                  *)
THEOREM ShiftsCountTheirCash == Spec => []ClosedShiftsCountTheirCash
<1>1. IInv => ClosedShiftsCountTheirCash
  BY DEF IInv, Safe
<1> QED BY InitIInv, NextIInv, <1>1, PTL DEF Spec

(* Outlet checks: a branch with an open shift is active, unless it was     *)
(* shut while the shift was being opened, or by a downgrade.               *)
THEOREM ShiftsAreAtActiveOutlets == Spec => []OpenShiftsAreAtActiveOutlets
<1>1. IInv => OpenShiftsAreAtActiveOutlets
  BY DEF IInv, Safe
<1> QED BY InitIInv, NextIInv, <1>1, PTL DEF Spec

(* closeShift updates by id: a closed shift changes only when two requests *)
(* to close one overlapped.                                                *)
THEOREM ShiftsClosedStand == Spec => ClosedShiftsStand
<1> DEFINE Stands == \A x \in ShiftIds :
             shift[x].status = "CLOSED" /\ <<{"close"}, shift[x].user>> \notin met' => shift'[x] = shift[x]
<1>1. IInv /\ [Next]_vars => [Stands]_vars
  <2> SUFFICES ASSUME IInv, Next, NEW x \in ShiftIds, shift[x].status = "CLOSED",
                      <<{"close"}, shift[x].user>> \notin met'
               PROVE  shift'[x] = shift[x]
    OBVIOUS
  <2>1. ASSUME NEW r \in Requests, NEW y \in ShiftIds, WriteOpen(r, y)
        PROVE  shift'[x] = shift[x]
    BY <2>1 DEF WriteOpen, NoRow, IInv, TypeOK
  <2>2. ASSUME NEW r \in Requests, WriteClose(r)
        PROVE  shift'[x] = shift[x]
    <3>1. Sound(req[r]) /\ Writing(r, "close") /\ met' = met
      BY <2>2 DEF IInv, AllSound, WriteClose
    <3>2. req[r].shift # x
      BY <3>1 DEF Sound, Writing
    <3> QED BY <2>2, <3>2 DEF WriteClose, IInv, TypeOK
  <2>3. CASE UNCHANGED shift
    BY <2>3
  <2>4. ASSUME NEW r \in Requests, Ask(r) \/ Check(r) \/ Abort(r)
        PROVE  UNCHANGED shift
    <3>1. CASE Ask(r)
      <4>1. ASSUME NEW new, Begin(r, new)
            PROVE  UNCHANGED shift
        BY <4>1 DEF Begin
      <4>2. \E new : Begin(r, new)
        BY <3>1 DEF Ask, Open, Close, Sell, Shut
      <4> QED BY <4>1, <4>2
    <3>2. CASE Check(r)
      <4>1. ASSUME NEW ok, NEW seen, Decide(r, ok, seen)
            PROVE  UNCHANGED shift
        BY <4>1 DEF Decide
      <4>2. \E ok, seen : Decide(r, ok, seen)
        BY <3>2 DEF Check, CheckOpen, CheckClose, CheckSell, CheckShut
      <4> QED BY <4>1, <4>2
    <3> QED BY <2>4, <3>1, <3>2 DEF Abort
  <2>5. ASSUME NEW r \in Requests, WriteSell(r) \/ WriteShut(r)
        PROVE  UNCHANGED shift
    BY <2>5 DEF WriteSell, WriteShut
  <2>6. ASSUME Downgrade \/ \E o \in Branches : Reactivate(o)
        PROVE  UNCHANGED shift
    BY <2>6 DEF Downgrade, Reactivate
  <2> QED BY <2>1, <2>2, <2>3, <2>4, <2>5, <2>6 DEF Next, Write
<1> HIDE DEF Stands
<1>2. Spec => [][Stands]_vars
  BY InitIInv, NextIInv, <1>1, PTL DEF Spec
<1> QED BY <1>2 DEF ClosedShiftsStand, Stands
=============================================================================
