--------------------------- MODULE AccountsProofs ---------------------------
(***************************************************************************)
(* Theorems about Accounts, for any numbers of addresses, roles, requests  *)
(* and links.                                                              *)
(*                                                                         *)
(* The invariant has a part for each property (Linked, Roled, Slow,        *)
(* Spared), which speaks of the requests between their read and their      *)
(* write, and one that all of them need: nobody works on an account that   *)
(* is not there (Away).                                                    *)
(***************************************************************************)
EXTENDS Accounts, FiniteSetTheorems, WellFoundedInduction, TLAPS

Account == [row : {"none", "here", "gone"}, approval : {"PENDING", "APPROVED"},
            verified : BOOLEAN, link : 0..MaxLinks, roles : SUBSET Roles]
Asked == [op : Ops, step : Steps, who : SUBSET Addresses, link : 0..MaxLinks,
          role : Roles \cup {NoRole}, locks : BOOLEAN, seen : SUBSET Roles]
FreeType == [state : {"none", "looked", "two", "done"}, let : SUBSET Addresses]

Typed ==
  /\ account \in [Addresses -> Account]
  /\ inbox \in [Addresses -> SUBSET (1..MaxLinks)]
  /\ req \in [Requests -> Asked]
  /\ dead \subseteq Addresses /\ hasty \subseteq Addresses /\ both \subseteq Addresses
  /\ free \in FreeType

(* Each operation has its steps, and an update has a role to give.         *)
Stepping(q) ==
  /\ q.step \in {"issue", "send"} <=> q.op \in {"register", "resend"}
  /\ q.step \in {"roles", "create"} <=> q.op = "update"
  /\ q.step = "send" => q.link > 0
  /\ q.op = "update" => q.role \in Roles

(* Nobody works on an account that is not there, but for a registration    *)
(* that may yet delete it.                                                 *)
Away ==
  \A a \in Addresses :
    /\ account[a].row = "none" => \A r \in Requests : a \notin req[r].who
    /\ ~Here(a) =>
         /\ ~account[a].verified /\ inbox[a] = {}
         /\ \A r \in Requests : a \in req[r].who => req[r].op = "register"

Basic == Typed /\ Away /\ \A r \in Requests : Stepping(req[r])

-----------------------------------------------------------------------------
(* The links of an account that is not verified: the stored one is the     *)
(* newest, and it is delivered or on its way.                              *)
Carries(r, a) == req[r].step = "send" /\ a \in req[r].who

Linked(a) ==
  Here(a) /\ ~account[a].verified =>
    /\ \A l \in inbox[a] : l <= account[a].link
    /\ \A r \in Requests : Carries(r, a) => req[r].link <= account[a].link
    /\ \/ a \in dead \/ account[a].link = 0 \/ account[a].link \in inbox[a]
       \/ \E r \in Requests : Carries(r, a) /\ req[r].link = account[a].link

(* Who is about to give an account another role has seen the one it has,   *)
(* and is the only one.                                                    *)
Gives(r, a) == At(r, "update", "create") /\ a \in req[r].who

Roled(a) ==
  /\ Here(a) => Cardinality(account[a].roles) = 1
  /\ \A r \in Requests : Gives(r, a) =>
       /\ req[r].seen = account[a].roles
       /\ \A q \in Requests \ {r} : ~Gives(q, a)

(* Who is verified while a registration mails has been hasty.              *)
Slow(a) == account[a].verified /\ Registering(a) => a \in hasty

(* Those a downgrade is about to suspend, and those it leaves.             *)
Spares(r) == Approved \ (free.let \cup req[r].who)

Spared ==
  /\ \A r, q \in Requests :
       free.state = "looked" /\ req[r].op = "downgrade" /\ req[q].op = "downgrade" => q = r
  /\ \A r \in Requests :
       req[r].op = "downgrade" => free.state # "done" /\ (free.state = "looked" => Cardinality(Spares(r)) <= FreeStaff)
  /\ FreeStaffAfterDowngrade

AccountsIInv ==
  /\ Basic /\ Spared
  /\ \A a \in Addresses : Linked(a) /\ Slow(a)
  /\ \A a \in Addresses \ both : Roled(a)

-----------------------------------------------------------------------------
(* A finite set of numbers has a largest one.                              *)
LEMMA MaxIsLargest ==
  ASSUME NEW m \in Nat, NEW S \in SUBSET (0..m), S # {}
  PROVE  Max(S) \in S /\ \A n \in S : n <= Max(S)
<1> DEFINE T == {m - n : n \in S}
<1>1. T \subseteq Nat /\ T # {}
  <2>1. \A n \in S : n \in 0..m /\ m - n \in Nat
    OBVIOUS
  <2> QED BY <2>1
<1>2. PICK x \in T : \A y \in T : ~(<<y, x>> \in OpToRel(<, Nat))
  <2> HIDE DEF T
  <2> QED BY <1>1, WFMin, NatLessThanWellFounded
<1>3. \A y \in T : x <= y
  <2> HIDE DEF T
  <2> TAKE y \in T
  <2>1. x \in Nat /\ y \in Nat
    BY <1>1
  <2>2. ~(y < x)
    BY <1>2, <2>1 DEF OpToRel
  <2> QED BY <2>1, <2>2
<1>4. PICK k \in S : x = m - k
  OBVIOUS
<1>5. \A n \in S : k >= n
  <2> TAKE n \in S
  <2>1. m - k <= m - n /\ n \in Nat /\ k \in Nat
    BY <1>3, <1>4
  <2> QED BY <2>1
<1> QED BY <1>5 DEF Max

(* issueEmailVerificationToken: a new link is newer than all others.       *)
LEMMA NewLinkIsNewest ==
  ASSUME Typed, NEW a \in Addresses
  PROVE  /\ NewLink(a) \in Nat \ {0}
         /\ account[a].link < NewLink(a) /\ \A l \in inbox[a] : l < NewLink(a)
<1> DEFINE S == inbox[a] \cup {account[a].link}
<1>1. S \in SUBSET (0..MaxLinks) /\ S # {}
  BY StaffAssumption DEF Typed, Account
<1>2. Max(S) \in S /\ \A n \in S : n <= Max(S)
  BY <1>1, MaxIsLargest, StaffAssumption
<1>3. Max(S) \in Nat
  BY <1>1, <1>2, StaffAssumption
<1>4. NewLink(a) = Max(S) + 1
  BY DEF NewLink
<1>5. account[a].link \in Nat /\ account[a].link <= Max(S) /\ \A l \in inbox[a] : l \in Nat /\ l <= Max(S)
  BY <1>1, <1>2, StaffAssumption
<1> HIDE DEF S
<1> QED BY <1>3, <1>4, <1>5

(* An account that has not been registered, or was removed.                *)
LEMMA NoneType ==
  /\ None \in Account /\ None.link = 0 /\ ~None.verified /\ None.approval = "PENDING"
  /\ \A row \in {"none", "here", "gone"} : [None EXCEPT !.row = row] \in Account
<1>1. None \in Account /\ None.link = 0 /\ ~None.verified /\ None.approval = "PENDING"
  BY StaffAssumption DEF None, Account
<1> QED BY <1>1 DEF Account

(* A request that does nothing.                                            *)
LEMMA IdleType == Idle \in Asked /\ Stepping(Idle) /\ Idle.who = {} /\ Idle.op = "idle" /\ Idle.step = "idle"
  BY StaffAssumption DEF Idle, Asked, Ops, Steps, Stepping

(* Fewer than those who may stay may stay.                                 *)
LEMMA Fewer ==
  ASSUME NEW S, NEW T, T \subseteq Addresses, S \subseteq T, Cardinality(T) <= FreeStaff
  PROVE  Cardinality(S) <= FreeStaff
<1>1. IsFiniteSet(T) /\ IsFiniteSet(S) /\ Cardinality(S) <= Cardinality(T)
  BY StaffAssumption, FS_Subset
<1>2. Cardinality(S) \in Nat /\ Cardinality(T) \in Nat
  BY <1>1, FS_CardinalityType
<1> QED BY <1>1, <1>2, StaffAssumption

(* What lets nobody in and suspends those it wants to suspend.             *)
LEMMA SparedStays ==
  ASSUME Spared, free'.state = free.state, Approved' \ free'.let \subseteq Approved \ free.let,
         \A r \in Requests : req'[r].op = "downgrade" =>
           req[r].op = "downgrade" /\ Approved' \cap req[r].who \subseteq req'[r].who
  PROVE  Spared'
<1>1. Approved \subseteq Addresses
  BY DEF Approved
<1>2. free.state = "done" => Cardinality(Approved' \ free'.let) <= FreeStaff
  BY <1>1, Fewer DEF Spared, FreeStaffAfterDowngrade
<1>3. ASSUME NEW r \in Requests, req'[r].op = "downgrade", free.state = "looked"
      PROVE  Cardinality(Approved' \ (free'.let \cup req'[r].who)) <= FreeStaff
  <2>1. Approved' \ (free'.let \cup req'[r].who) \subseteq Approved \ (free.let \cup req[r].who)
    BY <1>3
  <2>2. Cardinality(Approved \ (free.let \cup req[r].who)) <= FreeStaff
    BY <1>3 DEF Spared, Spares
  <2> QED BY <1>1, <2>1, <2>2, Fewer
<1>4. FreeStaffAfterDowngrade'
  BY <1>2 DEF FreeStaffAfterDowngrade
<1>5. \A r, q \in Requests :
        free'.state = "looked" /\ req'[r].op = "downgrade" /\ req'[q].op = "downgrade" => q = r
  BY DEF Spared
<1>6. \A r \in Requests :
        req'[r].op = "downgrade" =>
          free'.state # "done" /\ (free'.state = "looked" => Cardinality(Approved' \ (free'.let \cup req'[r].who)) <= FreeStaff)
  BY <1>3 DEF Spared
<1> QED BY <1>4, <1>5, <1>6 DEF Spared, Spares

(* The invariant holds at the start.                                       *)
LEMMA AccountsInit == Init => AccountsIInv
<1> SUFFICES ASSUME Init PROVE AccountsIInv
  OBVIOUS
<1>1. Basic
  BY NoneType, IdleType DEF Init, Basic, Typed, Away, Here, None, FreeType
<1>2. Spared
  BY IdleType DEF Init, Spared, FreeStaffAfterDowngrade
<1>3. \A a \in Addresses : Linked(a) /\ Slow(a) /\ Roled(a)
  BY IdleType DEF Init, Linked, Slow, Roled, Here, None, Gives, At, Registering
<1> QED BY <1>1, <1>2, <1>3 DEF AccountsIInv

-----------------------------------------------------------------------------
(* A request begins, on accounts that are there.                           *)
LEMMA BeginIInv ==
  ASSUME AccountsIInv, NEW r \in Requests, NEW new \in Asked, Stepping(new),
         Begin(r, new), UNCHANGED <<account, inbox, dead, hasty, both>>, free' \in FreeType,
         \A a \in new.who : Here(a), new.step \notin {"send", "create"}, new.op # "register"
  PROVE  /\ Basic' /\ \A a \in Addresses : Linked(a)' /\ Slow(a)'
         /\ \A a \in Addresses \ both : Roled(a)'
<1>1. /\ req' = [req EXCEPT ![r] = new] /\ req[r] = Idle
      /\ req'[r] = new /\ \A q \in Requests \ {r} : req'[q] = req[q]
  BY DEF Begin, AccountsIInv, Basic, Typed
<1>2. Basic'
  BY <1>1 DEF AccountsIInv, Basic, Typed, Away, Here
<1>3. \A a \in Addresses, q \in Requests : (Carries(q, a)' <=> Carries(q, a)) /\ (Gives(q, a)' <=> Gives(q, a))
  BY <1>1, IdleType DEF Carries, Gives, At
<1>4. \A a \in Addresses : Registering(a)' => Registering(a)
  BY <1>1 DEF Registering
<1>5. ASSUME NEW a \in Addresses PROVE Linked(a)'
  <2>1. \A q \in Requests : Carries(q, a) => req'[q] = req[q]
    BY <1>1, IdleType DEF Carries
  <2> QED BY <1>3, <2>1 DEF AccountsIInv, Linked, Here
<1>6. ASSUME NEW a \in Addresses PROVE Slow(a)'
  BY <1>4 DEF AccountsIInv, Slow
<1>7. ASSUME NEW a \in Addresses \ both PROVE Roled(a)'
  <2>1. \A q \in Requests : Gives(q, a) => req'[q] = req[q]
    BY <1>1, IdleType DEF Gives, At
  <2> QED BY <1>3, <2>1 DEF AccountsIInv, Roled, Here
<1> QED BY <1>2, <1>5, <1>6, <1>7

(* A request ends without doing more.  Whose newest link it had stays      *)
(* without one.                                                            *)
LEMMA LeaveIInv ==
  ASSUME AccountsIInv, NEW r \in Requests, Leave(r), Undelivered(r),
         UNCHANGED <<account, inbox, hasty, both, free>>
  PROVE  AccountsIInv'
<1>1. /\ req' = [req EXCEPT ![r] = Idle]
      /\ req'[r] = Idle /\ \A q \in Requests \ {r} : req'[q] = req[q]
  BY DEF Leave, AccountsIInv, Basic, Typed
<1>2. dead \subseteq dead' /\ dead' \subseteq Addresses
  BY DEF Undelivered, AccountsIInv, Basic, Typed, Asked
<1>3. Basic'
  BY <1>1, <1>2, IdleType DEF AccountsIInv, Basic, Typed, Away, Here
<1>4. \A a \in Addresses, q \in Requests :
        (Carries(q, a)' => Carries(q, a) /\ q # r) /\ (Gives(q, a)' => Gives(q, a) /\ q # r)
  BY <1>1, IdleType DEF Carries, Gives, At
<1>5. ASSUME NEW a \in Addresses PROVE Linked(a)'
  <2> SUFFICES ASSUME Here(a), ~account[a].verified PROVE Linked(a)'
    BY DEF Linked, Here
  <2>1. Linked(a)
    BY DEF AccountsIInv
  <2>2. \A q \in Requests : Carries(q, a)' => req'[q].link <= account[a].link
    BY <1>1, <1>4, <2>1 DEF Linked
  <2>3. ASSUME NEW q \in Requests, Carries(q, a), req[q].link = account[a].link, a \notin dead'
        PROVE  Carries(q, a)' /\ req'[q].link = account[a].link
    <3>1. q # r
      BY <2>3 DEF Undelivered, Carries
    <3> QED BY <1>1, <2>3, <3>1 DEF Carries
  <2> QED BY <1>2, <2>1, <2>2, <2>3 DEF Linked
<1>6. ASSUME NEW a \in Addresses PROVE Slow(a)'
  BY <1>1, IdleType DEF AccountsIInv, Slow, Registering
<1>7. ASSUME NEW a \in Addresses \ both PROVE Roled(a)'
  BY <1>1, <1>4 DEF AccountsIInv, Roled, Here
<1>8. Spared'
  <2>1. Approved' = Approved
    BY DEF Approved, Here
  <2> QED BY <1>1, <2>1, IdleType, SparedStays DEF AccountsIInv
<1> QED BY <1>3, <1>5, <1>6, <1>7, <1>8 DEF AccountsIInv

(* An account is deleted or dismissed, and nobody works on it any more.    *)
LEMMA RemoveIInv ==
  ASSUME AccountsIInv, NEW r \in Requests, NEW a \in Addresses, NEW row \in {"none", "gone"},
         Remove(r, a, row), free' = free, req[r].step = "send" => req[r].who = {a}
  PROVE  AccountsIInv'
<1> DEFINE less(q) == [req[q] EXCEPT !.who = req[q].who \ {a}]
<1>1. \A q \in Requests : req[q] \in Asked /\ Stepping(req[q])
  BY DEF AccountsIInv, Basic, Typed
<1>2. \A q \in Requests \ {r} : req'[q] = less(q) \/ (req'[q] = req[q] /\ row = "gone" /\ req[q].op = "register")
  BY DEF Remove, Forgets
<1>3. \A q \in Requests :
        /\ less(q) \in Asked /\ Stepping(less(q)) /\ less(q).who = req[q].who \ {a}
        /\ less(q).op = req[q].op /\ less(q).step = req[q].step
        /\ less(q).link = req[q].link /\ less(q).seen = req[q].seen
  BY <1>1 DEF Asked, Stepping
<1> HIDE DEF less
<1>4. req'[r] = Idle
  BY DEF Remove
<1>5. \A q \in Requests : req'[q] \in Asked /\ Stepping(req'[q]) /\ req'[q].who \subseteq req[q].who
  BY <1>1, <1>2, <1>3, <1>4, IdleType
<1>6. \A q \in Requests :
        req'[q].who # {} =>
          /\ req'[q].op = req[q].op /\ req'[q].step = req[q].step /\ req'[q].link = req[q].link
          /\ req'[q].seen = req[q].seen /\ \A b \in Addresses \ {a} : b \in req'[q].who <=> b \in req[q].who
  BY <1>2, <1>3, <1>4, IdleType
<1>7. /\ account' \in [Addresses -> Account] /\ account'[a] = [None EXCEPT !.row = row]
      /\ inbox' \in [Addresses -> SUBSET (1..MaxLinks)] /\ inbox'[a] = {}
      /\ \A b \in Addresses \ {a} : account'[b] = account[b] /\ inbox'[b] = inbox[b]
      /\ dead' = dead \ {a} /\ hasty' = hasty \ {a} /\ both' = both \ {a}
  BY NoneType DEF Remove, AccountsIInv, Basic, Typed
<1>8. account'[a].row = row /\ ~account'[a].verified /\ ~Here(a)'
  BY <1>7 DEF None, Here
<1>9. Typed'
  BY <1>5, <1>7 DEF Remove, AccountsIInv, Basic, Typed
<1>10. Away'
  <2>1. ASSUME NEW q \in Requests PROVE a \in req'[q].who => row = "gone" /\ req'[q].op = "register"
    BY <1>2, <1>3, <1>4, IdleType
  <2>2. ASSUME NEW b \in Addresses \ {a}, NEW q \in Requests
        PROVE  b \in req'[q].who => b \in req[q].who /\ req'[q].op = req[q].op
    BY <1>5, <1>6
  <2> SUFFICES ASSUME NEW b \in Addresses
               PROVE  /\ account'[b].row = "none" => \A q \in Requests : b \notin req'[q].who
                      /\ account'[b].row # "here" =>
                           /\ ~account'[b].verified /\ inbox'[b] = {}
                           /\ \A q \in Requests : b \in req'[q].who => req'[q].op = "register"
    BY DEF Away, Here
  <2>3. CASE b = a
    BY <1>7, <1>8, <2>1, <2>3
  <2>4. CASE b # a
    BY <1>7, <2>2, <2>4 DEF AccountsIInv, Basic, Away, Here
  <2> QED BY <2>3, <2>4
<1>11. ASSUME NEW b \in Addresses PROVE Linked(b)' /\ Slow(b)' /\ (b \notin both' => Roled(b)')
  <2>1. CASE b = a
    <3>1. \A q \in Requests : a \in req'[q].who => req'[q].op = "register"
      BY <1>8, <1>10 DEF Away
    <3>2. \A q \in Requests : ~Gives(q, a)'
      BY <3>1 DEF Gives, At
    <3> QED BY <1>8, <2>1, <3>2 DEF Linked, Slow, Roled
  <2>2. CASE b # a
    <3>1. /\ account'[b] = account[b] /\ inbox'[b] = inbox[b]
          /\ b \in dead' <=> b \in dead
          /\ b \in hasty' <=> b \in hasty
          /\ b \in both' <=> b \in both
      BY <1>7, <2>2
    <3>2. \A q \in Requests \ {r} :
            /\ req'[q].op = req[q].op /\ req'[q].step = req[q].step /\ req'[q].link = req[q].link
            /\ req'[q].seen = req[q].seen /\ (b \in req'[q].who <=> b \in req[q].who)
      BY <1>2, <1>3, <2>2
    <3>3. b \notin req'[r].who
      BY <1>4, IdleType
    <3>4. b \in req[r].who => req[r].step # "send"
      BY <2>2
    <3> QED BY <3>1, <3>2, <3>3, <3>4 DEF AccountsIInv, Linked, Slow, Roled, Carries, Gives, At, Registering, Here
  <2> QED BY <2>1, <2>2
<1>12. Spared'
  <2>1. Approved' = Approved \ {a}
    BY <1>7, <1>8 DEF Approved, Here
  <2>2. \A q \in Requests : req'[q].op = "downgrade" => req[q].op = "downgrade" /\ req[q].who \ {a} \subseteq req'[q].who
    BY <1>2, <1>3, <1>4, IdleType
  <2> QED BY <2>1, <2>2, SparedStays DEF AccountsIInv
<1> QED BY <1>5, <1>9, <1>10, <1>11, <1>12 DEF AccountsIInv, Basic

(* A new account: nobody has worked on it, and none of its links is known. *)
LEMMA InsertIInv ==
  ASSUME AccountsIInv, NEW a \in Addresses, NEW new \in Account, NEW who \in SUBSET {a},
         Insert(a, new), new.row = "here", new.link = 0, \E role \in Roles : new.roles = {role},
         \/ new.verified /\ req' = req
         \/ ~new.verified /\ \E r \in Requests :
              Begin(r, [Idle EXCEPT !.op = "register", !.step = "issue", !.who = {a}]),
         free' = LetIn(who), new.approval = "APPROVED" => who = {a}
  PROVE  AccountsIInv'
<1> DEFINE reg == [Idle EXCEPT !.op = "register", !.step = "issue", !.who = {a}]
<1>1. reg \in Asked /\ Stepping(reg) /\ reg.who = {a} /\ reg.op = "register" /\ reg.step = "issue"
  BY IdleType DEF Asked, Ops, Steps, Stepping
<1>2. req' = req \/ (~new.verified /\ \E r \in Requests : req' = [req EXCEPT ![r] = reg] /\ req[r] = Idle)
  BY DEF Begin
<1> HIDE DEF reg
<1>3. /\ account[a].row = "none" /\ account'[a] = new /\ account' \in [Addresses -> Account]
      /\ \A b \in Addresses \ {a} : account'[b] = account[b]
      /\ UNCHANGED <<inbox, dead, hasty, both>>
  BY DEF Insert, AccountsIInv, Basic, Typed
<1>4. /\ req \in [Requests -> Asked] /\ \A q \in Requests : Stepping(req[q])
      /\ \A q \in Requests : a \notin req[q].who
      /\ inbox[a] = {}
  BY <1>3 DEF AccountsIInv, Basic, Typed, Away, Here
<1>5. /\ req' \in [Requests -> Asked] /\ \A q \in Requests : Stepping(req'[q])
      /\ \A q \in Requests :
           \/ req'[q] = req[q]
           \/ req'[q] = reg /\ req[q] = Idle /\ ~new.verified
  BY <1>1, <1>2, <1>4
<1>6. free' \in FreeType /\ free'.state = free.state /\ free.let \subseteq free'.let
      /\ (free.state \in {"looked", "done"} => free'.let = free.let \cup who)
  BY DEF LetIn, AccountsIInv, Basic, Typed, FreeType
<1>7. Basic'
  <2>1. Typed'
    BY <1>3, <1>5, <1>6 DEF AccountsIInv, Basic, Typed
  <2>2. Away'
    <3> SUFFICES ASSUME NEW b \in Addresses
                 PROVE  /\ account'[b].row = "none" => \A q \in Requests : b \notin req'[q].who
                        /\ account'[b].row # "here" =>
                             /\ ~account'[b].verified /\ inbox'[b] = {}
                             /\ \A q \in Requests : b \in req'[q].who => req'[q].op = "register"
      BY DEF Away, Here
    <3>1. CASE b = a
      BY <1>3, <3>1
    <3>2. CASE b # a
      <4>1. \A q \in Requests : b \in req'[q].who => req'[q] = req[q]
        BY <1>1, <1>5, <3>2
      <4> QED BY <1>3, <3>2, <4>1 DEF AccountsIInv, Basic, Away, Here
    <3> QED BY <3>1, <3>2
  <2> QED BY <1>5, <2>1, <2>2 DEF Basic
<1>8. ASSUME NEW b \in Addresses PROVE Linked(b)' /\ Slow(b)' /\ (b \notin both' => Roled(b)')
  <2>1. CASE b = a
    <3>1. \A q \in Requests : ~Carries(q, a)' /\ ~Gives(q, a)'
      BY <1>1, <1>4, <1>5 DEF Carries, Gives, At
    <3>2. Linked(a)'
      BY <1>3, <1>4, <3>1 DEF Linked
    <3>3. Slow(a)'
      BY <1>3, <1>4, <1>5 DEF Slow, Registering
    <3>4. Roled(a)'
      BY <1>3, <3>1, FS_Singleton DEF Roled
    <3> QED BY <2>1, <3>2, <3>3, <3>4
  <2>2. CASE b # a
    <3>1. \A q \in Requests : b \in req'[q].who => req'[q] = req[q]
      BY <1>1, <1>5, <2>2
    <3>2. \A q \in Requests : b \in req[q].who => req'[q] = req[q]
      BY <1>5, IdleType
    <3> QED BY <1>3, <2>2, <3>1, <3>2 DEF AccountsIInv, Linked, Slow, Roled, Carries, Gives, At, Registering, Here
  <2> QED BY <2>1, <2>2
<1>9. Spared'
  <2>1. Approved' \subseteq Approved \cup who
    BY <1>3 DEF Approved, Here, Account
  <2>2. \A q \in Requests : req'[q].op = "downgrade" => req'[q] = req[q]
    BY <1>1, <1>5
  <2>3. CASE free.state \in {"looked", "done"}
    <3>1. Approved' \ free'.let \subseteq Approved \ free.let
      BY <1>6, <2>1, <2>3
    <3>2. \A q \in Requests : a \notin req[q].who
      BY <1>4
    <3> DEFINE Kept(q) == Approved' \cap req[q].who \subseteq req'[q].who
    <3>3. \A q \in Requests : req'[q].op = "downgrade" => req[q].op = "downgrade" /\ Kept(q)
      BY <2>2
    <3> QED BY <1>6, <3>1, <3>3, SparedStays DEF AccountsIInv
  <2>4. CASE free.state \notin {"looked", "done"}
    BY <1>6, <2>2, <2>4 DEF AccountsIInv, Spared, FreeStaffAfterDowngrade
  <2> QED BY <2>3, <2>4
<1> QED BY <1>7, <1>8, <1>9 DEF AccountsIInv

(* issueEmailVerificationToken.                                            *)
LEMMA IssueIInv ==
  ASSUME AccountsIInv, NEW r \in Requests, NEW a \in Addresses, Issue(r, a)
  PROVE  AccountsIInv'
<1> PICK l : l = NewLink(a)
  OBVIOUS
<1>1. l \in 1..MaxLinks /\ account[a].link < l /\ \A k \in inbox[a] : k < l
  BY NewLinkIsNewest, StaffAssumption DEF Issue, AccountsIInv, Basic
<1> DEFINE new == [req[r] EXCEPT !.step = "send", !.link = l]
           row == [account[a] EXCEPT !.link = l]
<1>2. /\ req[r].step = "issue" /\ req[r].who = {a} /\ Here(a) /\ UNCHANGED <<inbox, past>>
      /\ req' = [req EXCEPT ![r] = new] /\ account' = [account EXCEPT ![a] = row]
  BY DEF Issue, IsAt
<1>3. req[r] \in Asked /\ Stepping(req[r]) /\ account[a] \in Account
  BY DEF AccountsIInv, Basic, Typed
<1>4. new \in Asked /\ Stepping(new) /\ new.who = {a} /\ new.op = req[r].op /\ new.step = "send" /\ new.link = l
  <2>1. l \in 0..MaxLinks /\ l > 0 /\ "send" \in Steps
    BY <1>1, StaffAssumption DEF Steps
  <2>2. new \in Asked /\ new.who = {a} /\ new.op = req[r].op /\ new.step = "send" /\ new.link = l
    BY <1>2, <1>3, <2>1 DEF Asked
  <2>3. req[r].op \in {"register", "resend"}
    BY <1>2, <1>3 DEF Stepping
  <2> HIDE DEF new
  <2> QED BY <2>1, <2>2, <2>3 DEF Stepping
<1>5. row \in Account /\ row.row = "here" /\ row.verified = account[a].verified
      /\ row.approval = account[a].approval /\ row.roles = account[a].roles /\ row.link = l
  BY <1>1, <1>2, <1>3, StaffAssumption DEF Account, Here
<1> HIDE DEF new, row
<1>6. /\ req'[r] = new /\ account'[a] = row
      /\ \A q \in Requests \ {r} : req'[q] = req[q]
      /\ \A b \in Addresses \ {a} : account'[b] = account[b]
      /\ \A b \in Addresses : account'[b].row = account[b].row /\ account'[b].verified = account[b].verified
           /\ account'[b].approval = account[b].approval /\ account'[b].roles = account[b].roles
  BY <1>2, <1>4, <1>5 DEF AccountsIInv, Basic, Typed, Here
<1>7. \A q \in Requests : req'[q].who = req[q].who /\ req'[q].op = req[q].op
  BY <1>2, <1>4, <1>6
<1>8. Basic'
  <2>1. Typed'
    BY <1>2, <1>4, <1>5 DEF AccountsIInv, Basic, Typed, past
  <2>2. Away'
    BY <1>2, <1>6, <1>7 DEF AccountsIInv, Basic, Away, Here
  <2> QED BY <1>4, <1>6, <2>1, <2>2 DEF AccountsIInv, Basic
<1>9. ASSUME NEW b \in Addresses PROVE Linked(b)'
  <2>1. CASE b = a
    <3> SUFFICES ASSUME ~account[a].verified PROVE Linked(a)'
      BY <1>6, <2>1 DEF Linked
    <3>1. \A q \in Requests : Carries(q, a) => req[q].link <= account[a].link /\ req[q].link \in Nat
      BY <1>2, StaffAssumption DEF AccountsIInv, Linked, Basic, Typed, Asked
    <3>2. \A q \in Requests : Carries(q, a)' => req'[q].link <= l
      BY <1>1, <1>3, <1>4, <1>6, <3>1, StaffAssumption DEF Carries, Account
    <3>3. \A k \in inbox'[a] : k <= l
      <4>1. inbox'[a] = inbox[a] /\ inbox[a] \subseteq Nat
        BY <1>2, StaffAssumption DEF AccountsIInv, Basic, Typed
      <4> QED BY <1>1, <4>1, StaffAssumption
    <3>4. Carries(r, a)' /\ req'[r].link = l
      BY <1>4, <1>6 DEF Carries
    <3> QED BY <1>5, <1>6, <3>2, <3>3, <3>4 DEF Linked
  <2>2. CASE b # a
    <3>1. \A q \in Requests : b \in req'[q].who => req'[q] = req[q]
      BY <1>4, <1>6, <2>2
    <3>2. \A q \in Requests : b \in req[q].who => req'[q] = req[q]
      BY <1>2, <1>6, <2>2
    <3> QED BY <1>2, <1>6, <2>2, <3>1, <3>2 DEF AccountsIInv, Linked, Carries, Here, past
  <2> QED BY <2>1, <2>2
<1>10. ASSUME NEW b \in Addresses PROVE Slow(b)' /\ (b \notin both' => Roled(b)')
  <2>1. \A q \in Requests : Gives(q, b)' => Gives(q, b) /\ req'[q] = req[q]
    BY <1>4, <1>6 DEF Gives, At
  <2>2. Slow(b)'
    BY <1>2, <1>6, <1>7 DEF AccountsIInv, Slow, Registering, past
  <2>3. b \notin both' => Roled(b)'
    BY <1>2, <1>6, <2>1 DEF AccountsIInv, Roled, Here, past
  <2> QED BY <2>2, <2>3
<1>11. Spared'
  <2>1. Approved' = Approved
    BY <1>6 DEF Approved, Here
  <2> QED BY <1>2, <1>7, <2>1, SparedStays DEF AccountsIInv, past
<1> QED BY <1>8, <1>9, <1>10, <1>11 DEF AccountsIInv

(* The mail is delivered.                                                  *)
LEMMA SendIInv ==
  ASSUME AccountsIInv, NEW r \in Requests, NEW a \in Addresses, Send(r, a)
  PROVE  AccountsIInv'
<1>1. /\ req[r].step = "send" /\ req[r].who = {a} /\ Here(a) /\ UNCHANGED <<account, hasty, both, free>>
      /\ req' = [req EXCEPT ![r] = Idle] /\ inbox' = [inbox EXCEPT ![a] = inbox[a] \cup {req[r].link}]
      /\ dead' = IF req[r].link = account[a].link THEN dead \ {a} ELSE dead
  BY DEF Send, IsAt, Leave
<1>2. /\ req'[r] = Idle /\ \A q \in Requests \ {r} : req'[q] = req[q]
      /\ inbox'[a] = inbox[a] \cup {req[r].link} /\ \A b \in Addresses \ {a} : inbox'[b] = inbox[b]
      /\ req[r].link \in 1..MaxLinks
  BY <1>1, StaffAssumption DEF AccountsIInv, Basic, Typed, Asked, Stepping
<1>3. Basic'
  <2>1. Typed'
    BY <1>1, <1>2, IdleType DEF AccountsIInv, Basic, Typed
  <2>2. Away'
    BY <1>1, <1>2, IdleType DEF AccountsIInv, Basic, Away, Here
  <2> QED BY <1>2, <2>1, <2>2, IdleType DEF AccountsIInv, Basic
<1>4. \A b \in Addresses, q \in Requests :
        (Carries(q, b)' => Carries(q, b) /\ q # r) /\ (Gives(q, b)' => Gives(q, b) /\ q # r)
  BY <1>2, IdleType DEF Carries, Gives, At
<1>5. ASSUME NEW b \in Addresses PROVE Linked(b)'
  <2> SUFFICES ASSUME Here(b), ~account[b].verified PROVE Linked(b)'
    BY <1>1 DEF Linked, Here
  <2>1. Linked(b) /\ Carries(r, a)
    BY <1>1 DEF AccountsIInv, Carries
  <2>2. \A l \in inbox'[b] : l <= account[b].link
    BY <1>2, <2>1 DEF Linked
  <2>3. \A q \in Requests : Carries(q, b)' => req'[q].link <= account[b].link
    BY <1>2, <1>4, <2>1 DEF Linked
  <2>4. CASE b = a /\ req[r].link = account[a].link
    <3>1. account[b].link \in inbox'[b]
      BY <1>2, <2>4
    <3> QED BY <1>1, <2>2, <2>3, <3>1 DEF Linked
  <2>5. CASE ~(b = a /\ req[r].link = account[a].link)
    <3>1. \A q \in Requests :
            Carries(q, b) /\ req[q].link = account[b].link => Carries(q, b)' /\ req'[q].link = account[b].link
      BY <1>1, <1>2, <2>5 DEF Carries
    <3>2. inbox[b] \subseteq inbox'[b] /\ (b \in dead => b \in dead')
      BY <1>1, <1>2, <2>5
    <3> QED BY <1>1, <2>1, <2>2, <2>3, <3>1, <3>2 DEF Linked
  <2> QED BY <2>4, <2>5
<1>6. ASSUME NEW b \in Addresses PROVE Slow(b)'
  BY <1>1, <1>2, IdleType DEF AccountsIInv, Slow, Registering
<1>7. ASSUME NEW b \in Addresses \ both PROVE Roled(b)'
  BY <1>1, <1>2, <1>4 DEF AccountsIInv, Roled, Here
<1>8. Spared'
  <2>1. Approved' = Approved
    BY <1>1 DEF Approved, Here
  <2> QED BY <1>1, <1>2, <2>1, IdleType, SparedStays DEF AccountsIInv
<1> QED BY <1>1, <1>3, <1>5, <1>6, <1>7, <1>8 DEF AccountsIInv

(* The address is verified, by a link or by Google.                        *)
LEMMA VerifiedIInv ==
  ASSUME AccountsIInv, NEW a \in Addresses, NEW link \in 0..MaxLinks, Verified(a, link)
  PROVE  AccountsIInv'
<1> DEFINE new == [account[a] EXCEPT !.verified = TRUE, !.link = link]
<1>1. /\ Here(a) /\ account' = [account EXCEPT ![a] = new]
      /\ inbox' = [inbox EXCEPT ![a] = {}] /\ dead' = dead \ {a}
      /\ hasty' = IF Registering(a) THEN hasty \cup {a} ELSE hasty
      /\ UNCHANGED <<req, both, free>>
  BY DEF Verified
<1>2. new \in Account /\ new.verified /\ new.row = account[a].row
      /\ new.roles = account[a].roles /\ new.approval = account[a].approval
  BY DEF AccountsIInv, Basic, Typed, Account
<1> HIDE DEF new
<1>3. /\ account'[a] = new /\ inbox'[a] = {}
      /\ \A b \in Addresses \ {a} : account'[b] = account[b] /\ inbox'[b] = inbox[b]
      /\ \A b \in Addresses : account'[b].row = account[b].row
           /\ account'[b].roles = account[b].roles /\ account'[b].approval = account[b].approval
      /\ account' \in [Addresses -> Account]
  BY <1>1, <1>2 DEF AccountsIInv, Basic, Typed
<1>4. Basic'
  <2>1. Typed'
    BY <1>1, <1>3 DEF AccountsIInv, Basic, Typed
  <2>2. Away'
    BY <1>1, <1>3 DEF AccountsIInv, Basic, Away, Here
  <2> QED BY <1>1, <2>1, <2>2 DEF AccountsIInv, Basic
<1>5. ASSUME NEW b \in Addresses PROVE Linked(b)' /\ Slow(b)'
  <2>1. CASE b = a
    BY <1>1, <1>2, <1>3, <2>1 DEF Linked, Slow, Registering
  <2>2. CASE b # a
    BY <1>1, <1>3, <2>2 DEF AccountsIInv, Linked, Slow, Registering, Carries, Here
  <2> QED BY <2>1, <2>2
<1>6. ASSUME NEW b \in Addresses \ both PROVE Roled(b)'
  BY <1>1, <1>3 DEF AccountsIInv, Roled, Gives, At, Here
<1>7. Spared'
  <2>1. Approved' = Approved
    BY <1>3 DEF Approved, Here
  <2> QED BY <1>1, <2>1, SparedStays DEF AccountsIInv
<1> QED BY <1>1, <1>4, <1>5, <1>6, <1>7 DEF AccountsIInv

-----------------------------------------------------------------------------
(* updateStaff: the roles it sees.                                         *)
LEMMA UpdateRolesIInv ==
  ASSUME AccountsIInv, NEW r \in Requests, NEW a \in Addresses, UpdateRoles(r, a)
  PROVE  AccountsIInv'
<1> DEFINE new == [req[r] EXCEPT !.step = "create", !.seen = account[a].roles]
<1>1. /\ req[r].op = "update" /\ req[r].step = "roles" /\ req[r].who = {a}
      /\ req' = [req EXCEPT ![r] = new]
      /\ both' = IF Changing(r, a) THEN both \cup {a} ELSE both
      /\ UNCHANGED <<account, inbox, dead, hasty, free>>
  BY DEF UpdateRoles, At
<1>2. req[r] \in Asked /\ Stepping(req[r]) /\ account[a].roles \subseteq Roles
  BY DEF AccountsIInv, Basic, Typed, Account
<1>3. new \in Asked /\ new.step = "create" /\ new.seen = account[a].roles
      /\ new.who = {a} /\ new.op = "update" /\ new.role = req[r].role
  BY <1>1, <1>2 DEF Asked, Steps
<1> HIDE DEF new
<1>4. Stepping(new)
  BY <1>1, <1>2, <1>3 DEF Stepping
<1>5. req'[r] = new /\ \A q \in Requests \ {r} : req'[q] = req[q]
  BY <1>1 DEF AccountsIInv, Basic, Typed
<1>6. \A q \in Requests : req'[q].who = req[q].who /\ req'[q].op = req[q].op
  BY <1>1, <1>3, <1>5
<1>7. Basic'
  <2>1. Typed'
    BY <1>1, <1>3 DEF AccountsIInv, Basic, Typed
  <2>2. Away'
    BY <1>1, <1>6 DEF AccountsIInv, Basic, Away, Here
  <2> QED BY <1>4, <1>5, <2>1, <2>2 DEF AccountsIInv, Basic
<1>8. ASSUME NEW b \in Addresses PROVE Linked(b)' /\ Slow(b)'
  <2>1. \A q \in Requests : (Carries(q, b)' <=> Carries(q, b)) /\ (Carries(q, b) => req'[q] = req[q])
    BY <1>1, <1>3, <1>5 DEF Carries
  <2>2. Linked(b)'
    BY <1>1, <2>1 DEF AccountsIInv, Linked, Here
  <2>3. Slow(b)'
    BY <1>1, <1>6 DEF AccountsIInv, Slow, Registering
  <2> QED BY <2>2, <2>3
<1>9. ASSUME NEW b \in Addresses \ both' PROVE Roled(b)'
  <2>1. Roled(b)
    BY <1>1 DEF AccountsIInv
  <2>2. CASE b # a
    <3>1. \A q \in Requests : (Gives(q, b)' <=> Gives(q, b)) /\ (Gives(q, b) => req'[q] = req[q])
      BY <1>1, <1>3, <1>5, <2>2 DEF Gives, At
    <3> QED BY <1>1, <2>1, <3>1 DEF Roled, Here
  <2>3. CASE b = a
    <3>1. \A q \in Requests \ {r} : ~Gives(q, a)
      BY <1>1, <1>9, <2>3 DEF Changing, Gives
    <3>2. \A q \in Requests \ {r} : ~Gives(q, a)'
      BY <1>5, <3>1 DEF Gives, At
    <3> QED BY <1>1, <1>3, <1>5, <2>1, <2>3, <3>2 DEF Roled, Here
  <2> QED BY <2>2, <2>3
<1>10. Spared'
  <2>1. Approved' = Approved
    BY <1>1 DEF Approved, Here
  <2> QED BY <1>1, <1>6, <2>1, SparedStays DEF AccountsIInv
<1> QED BY <1>7, <1>8, <1>9, <1>10 DEF AccountsIInv

(* updateStaff: the new role.                                              *)
LEMMA UpdateDoneIInv ==
  ASSUME AccountsIInv, NEW r \in Requests, NEW a \in Addresses, UpdateDone(r, a)
  PROVE  AccountsIInv'
<1> DEFINE others == account[a].roles \ req[r].seen
           roles == IF req[r].role \in others THEN account[a].roles ELSE others \cup {req[r].role}
           new == [account[a] EXCEPT !.roles = roles]
<1>1. /\ req[r].op = "update" /\ req[r].step = "create" /\ req[r].who = {a}
      /\ account' = [account EXCEPT ![a] = new] /\ req' = [req EXCEPT ![r] = Idle]
      /\ UNCHANGED <<inbox, past>>
  BY DEF UpdateDone, At, Leave, AccountsIInv, Basic, Typed, Account
<1>2. req[r] \in Asked /\ Stepping(req[r]) /\ account[a] \in Account
  BY DEF AccountsIInv, Basic, Typed
<1>3. roles \subseteq Roles
  BY <1>1, <1>2 DEF Account, Stepping
<1>4. others = {} => roles = {req[r].role}
  OBVIOUS
<1> HIDE DEF roles
<1>5. new \in Account /\ new.roles = roles /\ new.row = account[a].row /\ new.link = account[a].link
      /\ new.verified = account[a].verified /\ new.approval = account[a].approval
  BY <1>2, <1>3 DEF Account
<1> HIDE DEF new
<1>6. /\ req'[r] = Idle /\ \A q \in Requests \ {r} : req'[q] = req[q]
      /\ account'[a] = new /\ \A b \in Addresses \ {a} : account'[b] = account[b]
      /\ \A b \in Addresses : account'[b].row = account[b].row /\ account'[b].link = account[b].link
           /\ account'[b].verified = account[b].verified /\ account'[b].approval = account[b].approval
  BY <1>1, <1>5 DEF AccountsIInv, Basic, Typed
<1>7. Basic'
  <2>1. Typed'
    BY <1>1, <1>5, IdleType DEF AccountsIInv, Basic, Typed, past
  <2>2. Away'
    BY <1>1, <1>6, IdleType DEF AccountsIInv, Basic, Away, Here
  <2> QED BY <1>6, <2>1, <2>2, IdleType DEF AccountsIInv, Basic
<1>8. ASSUME NEW b \in Addresses PROVE Linked(b)' /\ Slow(b)'
  <2>1. \A q \in Requests : (Carries(q, b)' <=> Carries(q, b)) /\ (Carries(q, b) => req'[q] = req[q])
    BY <1>1, <1>6, IdleType DEF Carries
  <2>2. Linked(b)'
    BY <1>1, <1>6, <2>1 DEF AccountsIInv, Linked, Here, past
  <2>3. Slow(b)'
    BY <1>1, <1>6, IdleType DEF AccountsIInv, Slow, Registering, past
  <2> QED BY <2>2, <2>3
<1>9. ASSUME NEW b \in Addresses \ both' PROVE Roled(b)'
  <2>1. Roled(b)
    BY <1>1, <1>9 DEF AccountsIInv, past
  <2>2. CASE b # a
    <3>1. \A q \in Requests : (Gives(q, b)' <=> Gives(q, b)) /\ (Gives(q, b) => req'[q] = req[q])
      BY <1>1, <1>6, <2>2, IdleType DEF Gives, At
    <3> QED BY <1>6, <2>1, <2>2, <3>1 DEF Roled, Here
  <2>3. CASE b = a
    <3>1. Gives(r, a)
      BY <1>1 DEF Gives, At
    <3>2. req[r].seen = account[a].roles /\ \A q \in Requests \ {r} : ~Gives(q, a)
      BY <2>1, <2>3, <3>1 DEF Roled
    <3>3. account'[a].roles = {req[r].role}
      BY <1>4, <1>5, <1>6, <3>2
    <3>4. \A q \in Requests : ~Gives(q, a)'
      BY <1>6, <3>2, IdleType DEF Gives, At
    <3> QED BY <2>3, <3>3, <3>4, FS_Singleton DEF Roled
  <2> QED BY <2>2, <2>3
<1>10. Spared'
  <2>1. Approved' = Approved
    BY <1>6 DEF Approved, Here
  <2> QED BY <1>1, <1>6, <2>1, IdleType, SparedStays DEF AccountsIInv, past
<1> QED BY <1>7, <1>8, <1>9, <1>10 DEF AccountsIInv

-----------------------------------------------------------------------------
(* What a decision about accounts changes is their approval.               *)
LEMMA WriteKeeps ==
  ASSUME AccountsIInv, NEW r \in Requests, NEW op \in {"approve", "bulk", "downgrade"},
         NEW who \in SUBSET Addresses, NEW value \in {"PENDING", "APPROVED"},
         Write(r, op, who, value), free' \in FreeType
  PROVE  /\ Basic' /\ \A a \in Addresses : Linked(a)' /\ Slow(a)'
         /\ \A a \in Addresses \ both' : Roled(a)'
         /\ req'[r] = Idle /\ \A q \in Requests \ {r} : req'[q] = req[q]
         /\ Approved' = IF value = "PENDING" THEN Approved \ who ELSE Approved \cup {a \in who : Here(a)}
<1> DEFINE new(a) == [account[a] EXCEPT !.approval = value]
<1>1. /\ req[r].op = op /\ req[r].step = "write"
      /\ account' = [a \in Addresses |-> IF a \in who THEN new(a) ELSE account[a]]
      /\ req' = [req EXCEPT ![r] = Idle] /\ UNCHANGED <<inbox, dead, hasty, both>>
  BY DEF Write, At, Leave
<1>2. \A a \in Addresses :
        /\ new(a) \in Account /\ new(a).row = account[a].row /\ new(a).verified = account[a].verified
        /\ new(a).link = account[a].link /\ new(a).roles = account[a].roles /\ new(a).approval = value
  BY DEF AccountsIInv, Basic, Typed, Account
<1> HIDE DEF new
<1>3. /\ req'[r] = Idle /\ \A q \in Requests \ {r} : req'[q] = req[q]
      /\ account' \in [Addresses -> Account]
      /\ \A a \in Addresses :
           /\ account'[a].row = account[a].row /\ account'[a].verified = account[a].verified
           /\ account'[a].link = account[a].link /\ account'[a].roles = account[a].roles
           /\ account'[a].approval = IF a \in who THEN value ELSE account[a].approval
  BY <1>1, <1>2 DEF AccountsIInv, Basic, Typed
<1>4. Basic'
  <2>1. Typed'
    BY <1>1, <1>3, IdleType DEF AccountsIInv, Basic, Typed
  <2>2. Away'
    BY <1>1, <1>3, IdleType DEF AccountsIInv, Basic, Away, Here
  <2> QED BY <1>3, <2>1, <2>2, IdleType DEF AccountsIInv, Basic
<1>5. ASSUME NEW a \in Addresses PROVE Linked(a)' /\ Slow(a)' /\ (a \notin both' => Roled(a)')
  <2>1. \A q \in Requests :
          /\ Carries(q, a)' <=> Carries(q, a)
          /\ Gives(q, a)' <=> Gives(q, a)
          /\ Carries(q, a) \/ Gives(q, a) => req'[q] = req[q]
    BY <1>1, <1>3, IdleType DEF Carries, Gives, At
  <2>2. Linked(a)'
    BY <1>1, <1>3, <2>1 DEF AccountsIInv, Linked, Here
  <2>3. Slow(a)'
    BY <1>1, <1>3, IdleType DEF AccountsIInv, Slow, Registering
  <2>4. a \notin both' => Roled(a)'
    BY <1>1, <1>3, <2>1 DEF AccountsIInv, Roled, Here
  <2> QED BY <2>2, <2>3, <2>4
<1>6. Approved' = IF value = "PENDING" THEN Approved \ who ELSE Approved \cup {a \in who : Here(a)}
  BY <1>3 DEF Approved, Here
<1> QED BY <1>3, <1>4, <1>5, <1>6

(* approveStaff and bulkApproveStaff: who is let in is counted.            *)
LEMMA ApproveIInv ==
  ASSUME AccountsIInv, NEW r \in Requests, Approve(r)
  PROVE  AccountsIInv'
<1> DEFINE who == {a \in req[r].who : req[r].op = "bulk" => account[a].approval = "PENDING"}
<1>1. PICK op \in {"approve", "bulk"} : Write(r, op, who, "APPROVED") /\ free' = LetIn(who \ Approved)
  BY DEF Approve
<1>2. who \in SUBSET Addresses
  BY DEF AccountsIInv, Basic, Typed, Asked
<1> HIDE DEF who
<1>3. free' \in FreeType /\ free'.state = free.state
      /\ free'.let = IF free.state \in {"looked", "done"} THEN free.let \cup (who \ Approved) ELSE free.let
  BY <1>1, <1>2 DEF LetIn, AccountsIInv, Basic, Typed, FreeType
<1>4. /\ Basic' /\ \A a \in Addresses : Linked(a)' /\ Slow(a)'
      /\ \A a \in Addresses \ both' : Roled(a)'
      /\ req'[r] = Idle /\ \A q \in Requests \ {r} : req'[q] = req[q]
      /\ Approved' = Approved \cup {a \in who : Here(a)}
  <2> DEFINE value == "APPROVED"
  <2>1. /\ op \in {"approve", "bulk", "downgrade"} /\ value \in {"PENDING", "APPROVED"} /\ value # "PENDING"
        /\ Write(r, op, who, value) /\ free' \in FreeType
    BY <1>1, <1>3
  <2> HIDE DEF value
  <2> QED BY <1>2, <2>1, WriteKeeps
<1>5. Spared'
  <2>1. CASE free.state \in {"looked", "done"}
    <3>1. Approved' \ free'.let \subseteq Approved \ free.let
      BY <1>3, <1>4, <2>1
    <3> QED BY <1>3, <1>4, <3>1, IdleType, SparedStays DEF AccountsIInv
  <2>2. CASE free.state \notin {"looked", "done"}
    BY <1>3, <1>4, <2>2, IdleType DEF AccountsIInv, Spared, FreeStaffAfterDowngrade
  <2> QED BY <2>1, <2>2
<1> QED BY <1>4, <1>5 DEF AccountsIInv

(* downgradeToFree: the others are suspended.                              *)
LEMMA SuspendIInv ==
  ASSUME AccountsIInv, NEW r \in Requests, Suspend(r)
  PROVE  AccountsIInv'
<1>1. Write(r, "downgrade", req[r].who, "PENDING") /\ req[r].op = "downgrade" /\ req[r].who \in SUBSET Addresses
  BY DEF Suspend, Write, At, AccountsIInv, Basic, Typed, Asked
<1>2. free' \in FreeType /\ free'.let = free.let /\ free'.state = IF free.state = "looked" THEN "done" ELSE free.state
  BY DEF Suspend, Done, AccountsIInv, Basic, Typed, FreeType
<1>3. /\ Basic' /\ \A a \in Addresses : Linked(a)' /\ Slow(a)'
      /\ \A a \in Addresses \ both' : Roled(a)'
      /\ req'[r] = Idle /\ \A q \in Requests \ {r} : req'[q] = req[q]
      /\ Approved' = Approved \ req[r].who
  BY <1>1, <1>2, WriteKeeps
<1>4. free.state # "done"
  BY <1>1 DEF AccountsIInv, Spared
<1>5. CASE free.state = "looked"
  <2>1. \A q \in Requests : req'[q].op # "downgrade"
    BY <1>1, <1>3, <1>5, IdleType DEF AccountsIInv, Spared
  <2>2. Cardinality(Spares(r)) <= FreeStaff
    BY <1>1, <1>5 DEF AccountsIInv, Spared
  <2>3. Approved' \ free'.let = Spares(r)
    BY <1>2, <1>3 DEF Spares
  <2>4. FreeStaffAfterDowngrade'
    BY <2>2, <2>3 DEF FreeStaffAfterDowngrade
  <2>5. Spared'
    BY <2>1, <2>4 DEF Spared
  <2> QED BY <1>3, <2>5 DEF AccountsIInv
<1>6. CASE free.state # "looked"
  <2>1. Spared'
    BY <1>2, <1>4, <1>6 DEF Spared, FreeStaffAfterDowngrade
  <2> QED BY <1>3, <2>1 DEF AccountsIInv
<1> QED BY <1>5, <1>6

(* downgradeToFree: those who stay are few enough.                         *)
LEMMA LookIInv ==
  ASSUME AccountsIInv, NEW r \in Requests, LookAtStaff(r)
  PROVE  AccountsIInv'
<1>1. PICK keep \in SUBSET Approved :
        /\ Cardinality(keep) = FreeStaff \/ (keep = Approved /\ Cardinality(keep) < FreeStaff)
        /\ Begin(r, [Idle EXCEPT !.op = "downgrade", !.step = "write", !.who = Approved \ keep])
  BY DEF LookAtStaff
<1> DEFINE new == [Idle EXCEPT !.op = "downgrade", !.step = "write", !.who = Approved \ keep]
<1>2. Approved \subseteq Addresses /\ \A a \in Approved : Here(a)
  BY DEF Approved
<1>3. new \in Asked /\ Stepping(new) /\ new.who = Approved \ keep /\ new.op = "downgrade" /\ new.step = "write"
  BY <1>2, IdleType DEF Asked, Ops, Steps, Stepping
<1>4. Begin(r, new)
  BY <1>1
<1> HIDE DEF new
<1>5. /\ free' = [state |-> IF \E q \in Requests : req[q].op = "downgrade" THEN "two" ELSE "looked", let |-> {}]
      /\ UNCHANGED <<account, inbox, dead, hasty, both>>
  BY DEF LookAtStaff
<1>6. /\ free' \in FreeType /\ free'.let = {} /\ free'.state # "done"
      /\ free'.state = "looked" => \A q \in Requests : req[q].op # "downgrade"
  BY <1>5 DEF FreeType
<1>7. /\ Basic' /\ \A a \in Addresses : Linked(a)' /\ Slow(a)'
      /\ \A a \in Addresses \ both : Roled(a)'
  <2>1. (\A a \in new.who : Here(a)) /\ new.step \notin {"send", "create"} /\ new.op # "register"
    BY <1>2, <1>3
  <2>2. new \in Asked /\ Stepping(new) /\ free' \in FreeType /\ UNCHANGED <<account, inbox, dead, hasty, both>>
    BY <1>3, <1>5, <1>6
  <2> QED BY <1>4, <2>1, <2>2, BeginIInv
<1>8. req'[r] = new /\ \A q \in Requests \ {r} : req'[q] = req[q]
  BY <1>4 DEF Begin, AccountsIInv, Basic, Typed
<1>9. Spared'
  <2>1. Cardinality(keep) <= FreeStaff
    <3>1. IsFiniteSet(keep)
      BY <1>2, StaffAssumption, FS_Subset
    <3>2. Cardinality(keep) \in Nat
      BY <3>1, FS_CardinalityType
    <3> QED BY <1>1, <3>2, StaffAssumption
  <2>2. Approved' = Approved
    BY <1>5 DEF Approved, Here
  <2>3. Spares(r)' = keep
    BY <1>3, <1>6, <1>8, <2>2 DEF Spares
  <2>4. free'.state = "looked" => \A q \in Requests : req'[q].op = "downgrade" => q = r
    BY <1>6, <1>8
  <2>5. ASSUME NEW q \in Requests, req'[q].op = "downgrade", free'.state = "looked"
        PROVE  Cardinality(Spares(q)') <= FreeStaff
    BY <2>1, <2>3, <2>4, <2>5
  <2> QED BY <1>6, <2>4, <2>5 DEF Spared, FreeStaffAfterDowngrade
<1> QED BY <1>5, <1>7, <1>9 DEF AccountsIInv

(* Every step keeps the invariant.                                         *)
LEMMA AccountsNext == AccountsIInv /\ [Next]_vars => AccountsIInv'
<1> SUFFICES ASSUME AccountsIInv, [Next]_vars PROVE AccountsIInv'
  OBVIOUS
<1>1. CASE UNCHANGED vars
  <2>1. UNCHANGED <<account, inbox, req, dead, hasty, both, free>>
    BY <1>1 DEF vars, past
  <2>2. Basic'
    BY <2>1 DEF AccountsIInv, Basic, Typed, Away, Here
  <2>3. Approved' = Approved
    BY <2>1 DEF Approved, Here
  <2>4. Spared'
    BY <2>1, <2>3, SparedStays DEF AccountsIInv
  <2>5. \A a \in Addresses : Linked(a)' /\ Slow(a)' /\ (a \notin both' => Roled(a)')
    BY <2>1 DEF AccountsIInv, Linked, Slow, Roled, Carries, Gives, At, Registering, Here
  <2> QED BY <2>2, <2>4, <2>5 DEF AccountsIInv
<1>2. ASSUME NEW r \in Requests, NEW a \in Applicants, Mail(r, a)
      PROVE  AccountsIInv'
  <2>1. a \in Addresses
    BY DEF Addresses
  <2>2. CASE Register(r, a)
    <3> DEFINE new == [None EXCEPT !.row = "here", !.roles = {Cashier}]
    <3>1. new \in Account /\ new.row = "here" /\ new.link = 0 /\ new.roles = {Cashier}
          /\ ~new.verified /\ new.approval # "APPROVED"
      BY NoneType, RolesAssumption DEF Account
    <3>2. Insert(a, new) /\ Begin(r, [Idle EXCEPT !.op = "register", !.step = "issue", !.who = {a}])
      BY <2>2 DEF Register
    <3> HIDE DEF new
    <3>3. free' = LetIn({})
      BY <2>2 DEF Register, LetIn, AccountsIInv, Basic, Typed, FreeType
    <3>4. {} \in SUBSET {a} /\ \E role \in Roles : new.roles = {role}
      BY <3>1, RolesAssumption
    <3> QED BY <2>1, <3>1, <3>2, <3>3, <3>4, InsertIInv
  <2>3. CASE Resend(r, a)
    <3> DEFINE new == [Idle EXCEPT !.op = "resend", !.step = "issue", !.who = {a}]
    <3>1. new \in Asked /\ Stepping(new) /\ new.who = {a} /\ new.op = "resend" /\ new.step = "issue"
      BY <2>1, IdleType DEF Asked, Ops, Steps, Stepping
    <3>2. Begin(r, new) /\ UNCHANGED <<account, inbox, dead, hasty, both, free>> /\ Here(a)
      BY <2>3 DEF Resend, past
    <3> HIDE DEF new
    <3>3. (\A b \in new.who : Here(b)) /\ new.step \notin {"send", "create"} /\ new.op # "register"
      BY <3>1, <3>2
    <3>4. /\ Basic' /\ \A b \in Addresses : Linked(b)' /\ Slow(b)'
          /\ \A b \in Addresses \ both : Roled(b)'
      BY <3>1, <3>2, <3>3, BeginIInv DEF AccountsIInv, Basic, Typed
    <3>5. Approved' = Approved /\ \A q \in Requests : req'[q] = req[q] \/ req'[q] = new
      BY <3>2 DEF Approved, Here, Begin, AccountsIInv, Basic, Typed
    <3>6. Spared'
      BY <3>1, <3>2, <3>5, SparedStays DEF AccountsIInv
    <3> QED BY <3>2, <3>4, <3>6 DEF AccountsIInv
  <2>4. CASE SendFails(r, a)
    <3>1. CASE Remove(r, a, "none")
      BY <2>1, <2>4, <3>1, RemoveIInv DEF SendFails, IsAt
    <3>2. CASE ~Remove(r, a, "none")
      BY <2>4, <3>2, LeaveIInv DEF SendFails
    <3> QED BY <3>1, <3>2
  <2> QED BY <1>2, <2>1, <2>2, <2>3, <2>4, IssueIInv, SendIInv DEF Mail
<1>3. ASSUME NEW a \in Applicants, Verify(a) \/ GoogleLogin(a)
      PROVE  AccountsIInv'
  <2>1. a \in Addresses
    BY DEF Addresses
  <2>2. 0 \in 0..MaxLinks /\ account[a].link \in 0..MaxLinks
    BY <2>1, StaffAssumption DEF AccountsIInv, Basic, Typed, Account
  <2> QED BY <1>3, <2>1, <2>2, VerifiedIInv DEF Verify, GoogleLogin
<1>4. ASSUME NEW a \in Hires, NEW role \in Roles, CreateStaff(a, role)
      PROVE  AccountsIInv'
  <2> DEFINE new == [row |-> "here", approval |-> "APPROVED", verified |-> TRUE, link |-> 0, roles |-> {role}]
  <2>1. a \in Addresses
    BY DEF Addresses
  <2>2. new \in Account /\ new.row = "here" /\ new.link = 0 /\ new.roles = {role} /\ new.verified
    BY StaffAssumption DEF Account
  <2>3. Insert(a, new) /\ free' = LetIn({a}) /\ req' = req
    BY <1>4 DEF CreateStaff
  <2> HIDE DEF new
  <2>4. {a} \in SUBSET {a} /\ \E x \in Roles : new.roles = {x}
    BY <2>2
  <2> QED BY <2>1, <2>2, <2>3, <2>4, InsertIInv
<1>5. ASSUME NEW r \in Requests, NEW a \in Movers, ChangeRole(r, a)
      PROVE  AccountsIInv'
  <2>1. a \in Addresses
    BY StaffAssumption
  <2>2. ASSUME NEW role \in Roles, NEW locks \in BOOLEAN, Update(r, a, role, locks)
        PROVE  AccountsIInv'
    <3> DEFINE new == [Idle EXCEPT !.op = "update", !.step = "roles", !.who = {a}, !.role = role, !.locks = locks]
    <3>1. new \in Asked /\ Stepping(new) /\ new.who = {a} /\ new.op = "update" /\ new.step = "roles"
      BY <2>1, IdleType DEF Asked, Ops, Steps, Stepping
    <3>2. Begin(r, new) /\ UNCHANGED <<account, inbox, dead, hasty, both, free>> /\ Here(a)
      BY <2>2 DEF Update, past
    <3> HIDE DEF new
    <3>3. (\A b \in new.who : Here(b)) /\ new.step \notin {"send", "create"} /\ new.op # "register"
      BY <3>1, <3>2
    <3>4. /\ Basic' /\ \A b \in Addresses : Linked(b)' /\ Slow(b)'
          /\ \A b \in Addresses \ both : Roled(b)'
      BY <3>1, <3>2, <3>3, BeginIInv DEF AccountsIInv, Basic, Typed
    <3>5. Approved' = Approved /\ \A q \in Requests : req'[q] = req[q] \/ req'[q] = new
      BY <3>2 DEF Approved, Here, Begin, AccountsIInv, Basic, Typed
    <3>6. Spared'
      BY <3>1, <3>2, <3>5, SparedStays DEF AccountsIInv
    <3> QED BY <3>2, <3>4, <3>6 DEF AccountsIInv
  <2> QED BY <1>5, <2>1, <2>2, UpdateRolesIInv, UpdateDoneIInv DEF ChangeRole
<1>6. ASSUME NEW r \in Requests, NEW op \in {"approve", "bulk", "dismiss"}, NEW who \in SUBSET Addresses,
             Decide(r, op, who)
      PROVE  AccountsIInv'
  <2> DEFINE new == [Idle EXCEPT !.op = op, !.step = "write", !.who = who]
  <2>1. new \in Asked /\ Stepping(new) /\ new.who = who /\ new.op = op /\ new.step = "write"
    BY IdleType DEF Asked, Ops, Steps, Stepping
  <2>2. Begin(r, new) /\ UNCHANGED <<account, inbox, dead, hasty, both, free>> /\ \A a \in who : Here(a)
    BY <1>6 DEF Decide, past
  <2> HIDE DEF new
  <2>3. (\A b \in new.who : Here(b)) /\ new.step \notin {"send", "create"} /\ new.op \notin {"register", "downgrade"}
    BY <2>1, <2>2
  <2>4. /\ Basic' /\ \A b \in Addresses : Linked(b)' /\ Slow(b)'
        /\ \A b \in Addresses \ both : Roled(b)'
    BY <2>1, <2>2, <2>3, BeginIInv DEF AccountsIInv, Basic, Typed
  <2>5. Approved' = Approved /\ \A q \in Requests : req'[q] = req[q] \/ req'[q] = new
    BY <2>2 DEF Approved, Here, Begin, AccountsIInv, Basic, Typed
  <2>6. Spared'
    BY <2>2, <2>3, <2>5, SparedStays DEF AccountsIInv
  <2> QED BY <2>2, <2>4, <2>6 DEF AccountsIInv
<1>7. ASSUME NEW r \in Requests, Dismiss(r)
      PROVE  AccountsIInv'
  <2> PICK a \in req[r].who : Remove(r, a, "gone")
    BY <1>7 DEF Dismiss
  <2>1. a \in Addresses /\ req[r].step = "write" /\ free' = free
    BY <1>7 DEF Dismiss, At, AccountsIInv, Basic, Typed, Asked
  <2> QED BY <2>1, RemoveIInv
<1>8. ASSUME NEW r \in Requests, Abort(r)
      PROVE  AccountsIInv'
  BY <1>8, LeaveIInv DEF Abort
<1> QED
  BY <1>1, <1>2, <1>3, <1>4, <1>5, <1>6, <1>7, <1>8, ApproveIInv, SuspendIInv, LookIInv DEF Next

-----------------------------------------------------------------------------
(* Every variable keeps its type.                                          *)
THEOREM AccountsTypeCorrect == Spec => []TypeOK
<1>1. AccountsIInv => TypeOK
  BY DEF AccountsIInv, Basic, Typed, TypeOK, Account, Asked, FreeType
<1> QED BY AccountsInit, AccountsNext, <1>1, PTL DEF Spec

(* updateStaff: an account has exactly one role, in whatever order changes *)
(* of it run, unless two of them overlap.                                  *)
THEOREM AccountsOneRole == Spec => []OneRole
<1>1. AccountsIInv => OneRole
  BY DEF AccountsIInv, OneRole, Roled
<1> QED BY AccountsInit, AccountsNext, <1>1, PTL DEF Spec

(* issueEmailVerificationToken and verifyEmailToken: the newest of the     *)
(* links that came is the one that is stored.                              *)
THEOREM AccountsLatestLink == Spec => []LatestLinkWorks
<1>1. AccountsIInv => LatestLinkWorks
  <2> SUFFICES ASSUME AccountsIInv, NEW a \in Addresses \ dead,
                      Here(a), ~account[a].verified, inbox[a] # {}, ~Mailing(a)
               PROVE  Max(inbox[a]) = account[a].link
    BY DEF LatestLinkWorks
  <2>1. Linked(a) /\ inbox[a] \subseteq 1..MaxLinks /\ account[a].link \in 0..MaxLinks
    BY DEF AccountsIInv, Basic, Typed, Account
  <2>2. \A r \in Requests : ~Carries(r, a)
    BY DEF Carries, Mailing, AccountsIInv, Basic, Stepping
  <2>3. account[a].link # 0
    BY <2>1, StaffAssumption DEF Linked
  <2>4. account[a].link \in inbox[a]
    BY <2>1, <2>2, <2>3 DEF Linked
  <2>5. inbox[a] \in SUBSET (0..MaxLinks)
    BY <2>1, StaffAssumption
  <2>6. Max(inbox[a]) \in inbox[a] /\ \A l \in inbox[a] : l <= Max(inbox[a])
    BY <2>5, MaxIsLargest, StaffAssumption
  <2>7. Max(inbox[a]) <= account[a].link /\ account[a].link <= Max(inbox[a]) /\ Max(inbox[a]) \in 0..MaxLinks
    BY <2>1, <2>4, <2>5, <2>6 DEF Linked
  <2> QED BY <2>1, <2>7, StaffAssumption
<1> QED BY AccountsInit, AccountsNext, <1>1, PTL DEF Spec

(* downgradeToFree: it suspends enough, whoever is approved, dismissed or  *)
(* hired between its read and its write.                                   *)
THEOREM AccountsFreeStaff == Spec => []FreeStaffAfterDowngrade
<1>1. AccountsIInv => FreeStaffAfterDowngrade
  BY DEF AccountsIInv, Spared
<1> QED BY AccountsInit, AccountsNext, <1>1, PTL DEF Spec

(* registerStaff takes back what it has created, and no account that was   *)
(* verified after its mail had gone out.                                   *)
THEOREM AccountsVerifiedStay == Spec => VerifiedAccountsStay
<1> DEFINE Stay == \A a \in Addresses \ hasty : account[a].verified => account'[a].row # "none"
<1>1. AccountsIInv /\ [Next]_vars => [Stay]_vars
  <2> SUFFICES ASSUME AccountsIInv, Next, NEW a \in Addresses \ hasty, account[a].verified,
                      account'[a].row = "none"
               PROVE  FALSE
    OBVIOUS
  <2>1. account[a].row = "here" /\ account \in [Addresses -> Account] /\ ~Registering(a)
    BY DEF AccountsIInv, Basic, Typed, Away, Here, Slow
  <2>2. account' # account
    BY <2>1
  <2>3. ASSUME NEW b \in Addresses, NEW new, account' = [account EXCEPT ![b] = new], new.row # "none" PROVE FALSE
    BY <2>1, <2>3
  <2>4. ASSUME NEW r \in Requests, NEW b \in Applicants, Mail(r, b) PROVE FALSE
    <3>1. b \in Addresses
      BY DEF Addresses
    <3>2. CASE Register(r, b)
      <4> DEFINE new == [None EXCEPT !.row = "here", !.roles = {Cashier}]
      <4>1. account' = [account EXCEPT ![b] = new] /\ new.row = "here"
        BY <3>2, NoneType DEF Register, Insert, Account
      <4> HIDE DEF new
      <4> QED BY <2>3, <3>1, <4>1
    <3>3. CASE Issue(r, b)
      BY <2>1, <3>3 DEF Issue
    <3>4. CASE SendFails(r, b) /\ Remove(r, b, "none")
      <4>1. b # a
        <5>1. (req[r].op = "register" /\ req[r].who = {b}) \/ account' = account
          BY <3>4 DEF SendFails, IsAt
        <5> QED BY <2>1, <2>2, <5>1 DEF Registering
      <4> QED BY <2>1, <3>4, <4>1 DEF Remove
    <3> QED BY <2>2, <2>4, <3>2, <3>3, <3>4 DEF Mail, Resend, Send, SendFails
  <2>5. ASSUME NEW b \in Applicants, Verify(b) \/ GoogleLogin(b) PROVE FALSE
    BY <2>1, <2>5 DEF Verify, GoogleLogin, Verified
  <2>6. ASSUME NEW b \in Hires, NEW role \in Roles, CreateStaff(b, role) PROVE FALSE
    BY <2>1, <2>6 DEF CreateStaff, Insert
  <2>7. ASSUME NEW r \in Requests, NEW b \in Movers, ChangeRole(r, b) PROVE FALSE
    <3>1. UpdateDone(r, b)
      BY <2>2, <2>7 DEF ChangeRole, Update, UpdateRoles
    <3> PICK roles : account' = [account EXCEPT ![b] = [account[b] EXCEPT !.roles = roles]]
      BY <2>1, <3>1 DEF UpdateDone
    <3> QED BY <2>1 DEF Account
  <2>8. ASSUME NEW r \in Requests, Approve(r) \/ Suspend(r) PROVE FALSE
    <3>1. account'[a] = account[a] \/ \E value : account'[a] = [account[a] EXCEPT !.approval = value]
      BY <2>8 DEF Approve, Suspend, Write
    <3>2. account[a] \in Account
      BY <2>1
    <3> QED BY <2>1, <3>1, <3>2 DEF Account
  <2>9. ASSUME NEW r \in Requests, Dismiss(r) PROVE FALSE
    BY <2>1, <2>9 DEF Dismiss, Remove, None
  <2> QED BY <2>2, <2>4, <2>5, <2>6, <2>7, <2>8, <2>9 DEF Next, Decide, LookAtStaff, Abort
<1> QED BY AccountsInit, AccountsNext, <1>1, PTL DEF Spec, VerifiedAccountsStay
=============================================================================
