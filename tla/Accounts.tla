------------------------------ MODULE Accounts ------------------------------
(***************************************************************************)
(* The accounts of one tenant's staff, one for each e-mail address: how    *)
(* they register and verify the address, how they are approved, suspended  *)
(* and dismissed, and which role they have.                                *)
(*                                                                         *)
(* A registration is committed before its mail is sent, and taken back     *)
(* when the mail fails.  The operations of the staff page read the account *)
(* in one statement and write it by id in later ones.                      *)
(*                                                                         *)
(* Names, outlets and isActive are left out; of an update that has a name  *)
(* or isActive in it the model keeps that it locks the account's row.      *)
(* Links do not run out here (in the code, after 24 hours).                *)
(***************************************************************************)
EXTENDS Naturals, FiniteSets, FiniteSetsExt

CONSTANTS
  Applicants, Hires,   \* addresses that register, and that are registered
  Roles, Requests,
  Cashier,      \* the role of those who register themselves
  NoRole,
  FreeStaff,    \* who keep working after a downgrade: the two oldest
  MaxLinks,     \* bound: verification links per account
  Movers        \* bound: accounts whose role is changed

Addresses == Applicants \cup Hires

ASSUME RolesAssumption == Cashier \in Roles /\ NoRole \notin Roles
ASSUME StaffAssumption ==
  FreeStaff \in Nat /\ MaxLinks \in Nat /\ IsFiniteSet(Addresses) /\ Movers \subseteq Addresses

VARIABLES
  account,   \* [Addresses -> [row, approval, verified, link, roles]]
  inbox,     \* [Addresses -> the links that have been delivered there]
  req,       \* [Requests -> [op, step, who, link, role, locks, seen]]
  dead,      \* history: addresses whose newest link was not delivered
  hasty,     \* history: accounts verified while their registration mailed
  both,      \* history: accounts with overlapping changes of the role
  free       \* history: the latest downgrade, and the staff let in since

past == <<dead, hasty, both, free>>
vars == <<account, inbox, req, past>>

-----------------------------------------------------------------------------
None == [row |-> "none", approval |-> "PENDING", verified |-> FALSE, link |-> 0, roles |-> {}]
Idle == [op |-> "idle", step |-> "idle", who |-> {}, link |-> 0, role |-> NoRole,
         locks |-> FALSE, seen |-> {}]

Here(a)         == account[a].row = "here"
Approved        == {a \in Addresses : Here(a) /\ account[a].approval = "APPROVED"}
At(r, op, step) == req[r].op = op /\ req[r].step = step
Begin(r, new)   == req[r] = Idle /\ req' = [req EXCEPT ![r] = new]
Leave(r)        == req' = [req EXCEPT ![r] = Idle]

Registering(a) == \E r \in Requests : req[r].op = "register" /\ a \in req[r].who
Mailing(a)     == \E r \in Requests : req[r].op \in {"register", "resend"} /\ a \in req[r].who
Changing(r, a) == \E q \in Requests \ {r} : At(q, "update", "create") /\ a \in req[q].who

(* Only an update keeps a row of users locked over several statements.     *)
Locked(r, who) == \E q \in Requests \ {r} : req[q].locks /\ req[q].who \cap who # {}

(* The row is deleted ("none") or has a deletedAt ("gone"), and nobody     *)
(* looks at the rest of it any more; only a registration may yet delete a  *)
(* row that is gone.  The request is over.                                 *)
Forgets(q, row) == row = "none" \/ req[q].op # "register"
Remove(r, a, row) ==
  /\ account' = [account EXCEPT ![a] = [None EXCEPT !.row = row]]
  /\ inbox' = [inbox EXCEPT ![a] = {}]
  /\ req' = [q \in Requests |-> IF q = r THEN Idle
                               ELSE IF Forgets(q, row) THEN [req[q] EXCEPT !.who = @ \ {a}] ELSE req[q]]
  /\ dead' = dead \ {a} /\ hasty' = hasty \ {a} /\ both' = both \ {a}

(* A new row: nothing has happened to it.                                  *)
Insert(a, new) ==
  /\ account[a].row = "none"
  /\ account' = [account EXCEPT ![a] = new]
  /\ UNCHANGED <<inbox, dead, hasty, both>>

Init ==
  /\ account = [a \in Addresses |-> None]
  /\ inbox = [a \in Addresses |-> {}]
  /\ req = [r \in Requests |-> Idle]
  /\ dead = {} /\ hasty = {} /\ both = {}
  /\ free = [state |-> "none", let |-> {}]

-----------------------------------------------------------------------------
(* registerStaff: the transaction that creates the account.  The address   *)
(* of a dismissed account is taken for good (email is unique).             *)
Register(r, a) ==
  /\ Insert(a, [None EXCEPT !.row = "here", !.roles = {Cashier}])
  /\ Begin(r, [Idle EXCEPT !.op = "register", !.step = "issue", !.who = {a}])
  /\ UNCHANGED free

(* resendVerificationEmail, and a second registration (handleDuplicate-    *)
(* RegistrationEmail): the account is not verified yet.                    *)
Resend(r, a) ==
  /\ Here(a) /\ ~account[a].verified
  /\ Begin(r, [Idle EXCEPT !.op = "resend", !.step = "issue", !.who = {a}])
  /\ UNCHANGED <<account, inbox, past>>

NewLink(a) == Max(inbox[a] \cup {account[a].link}) + 1
IsAt(r, a, step) == req[r].step = step /\ req[r].who = {a}

(* Fault: the new link is mailed and not stored.                           *)
IssueUnstored(r, a) ==
  /\ IsAt(r, a, "issue") /\ Here(a) /\ NewLink(a) <= MaxLinks
  /\ req' = [req EXCEPT ![r] = [@ EXCEPT !.step = "send", !.link = NewLink(a)]]
  /\ UNCHANGED <<account, inbox, past>>

(* issueEmailVerificationToken: the new link replaces the old one before   *)
(* it is mailed.                                                           *)
Issue(r, a) ==
  /\ IsAt(r, a, "issue") /\ Here(a) /\ NewLink(a) <= MaxLinks
  /\ account' = [account EXCEPT ![a].link = NewLink(a)]
  /\ req' = [req EXCEPT ![r] = [@ EXCEPT !.step = "send", !.link = NewLink(a)]]
  /\ UNCHANGED <<inbox, past>>

Send(r, a) ==
  /\ IsAt(r, a, "send") /\ Here(a)
  /\ inbox' = [inbox EXCEPT ![a] = @ \cup {req[r].link}]
  /\ Leave(r)
  /\ dead' = IF req[r].link = account[a].link THEN dead \ {a} ELSE dead
  /\ UNCHANGED <<account, hasty, both, free>>

(* The link of r was the newest one and is not delivered.                  *)
Undelivered(r) ==
  dead' = dead \cup {a \in req[r].who : req[r].step = "send" /\ req[r].link = account[a].link /\ ~account[a].verified}

(* Fault: a mail that fails takes the account away, whoever asked for it.  *)
SendFailsForAll(r, a) ==
  /\ IsAt(r, a, "issue") \/ IsAt(r, a, "send")
  /\ Remove(r, a, "none")
  /\ UNCHANGED free

(* The link cannot be stored, or the mail cannot be sent: a registration   *)
(* deletes its account, whatever has become of it.                         *)
SendFails(r, a) ==
  /\ IsAt(r, a, "issue") \/ IsAt(r, a, "send")
  /\ \/ req[r].op = "register" /\ Remove(r, a, "none")
     \/ req[r].op = "resend" /\ Leave(r) /\ Undelivered(r) /\ UNCHANGED <<account, inbox, hasty, both>>
  /\ UNCHANGED free

(* The links of the inbox are of no more use.                              *)
Verified(a, link) ==
  /\ Here(a) /\ ~account[a].verified
  /\ account' = [account EXCEPT ![a] = [@ EXCEPT !.verified = TRUE, !.link = link]]
  /\ inbox' = [inbox EXCEPT ![a] = {}] /\ dead' = dead \ {a}
  /\ hasty' = IF Registering(a) THEN hasty \cup {a} ELSE hasty
  /\ UNCHANGED <<req, both, free>>

(* verifyEmailToken: a link of the inbox that is the stored one.           *)
Verify(a) == account[a].link \in inbox[a] /\ Verified(a, 0)

(* loginWithGoogle takes Google's word for the address.                    *)
GoogleLogin(a) == Verified(a, account[a].link)

-----------------------------------------------------------------------------
LetIn(who) == IF free.state \in {"looked", "done"} THEN [free EXCEPT !.let = @ \cup who] ELSE free

(* createStaff: an account that may work at once.                          *)
CreateStaff(a, role) ==
  /\ Insert(a, [row |-> "here", approval |-> "APPROVED", verified |-> TRUE, link |-> 0, roles |-> {role}])
  /\ free' = LetIn({a})
  /\ UNCHANGED req

(* updateStaff reads the account, and locks its row by an update if the    *)
(* request has a name or isActive in it (it waits if need be).             *)
Update(r, a, role, locks) ==
  /\ Here(a) /\ (locks => ~Locked(r, {a}))
  /\ Begin(r, [Idle EXCEPT !.op = "update", !.step = "roles", !.who = {a}, !.role = role, !.locks = locks])
  /\ UNCHANGED <<account, inbox, past>>

(* It deletes the roles it sees, and then creates the new one; a change of *)
(* the role that is not committed yet is not seen.                         *)
UpdateRoles(r, a) ==
  /\ At(r, "update", "roles") /\ req[r].who = {a}
  /\ req' = [req EXCEPT ![r] = [@ EXCEPT !.step = "create", !.seen = account[a].roles]]
  /\ both' = IF Changing(r, a) THEN both \cup {a} ELSE both
  /\ UNCHANGED <<account, inbox, dead, hasty, free>>

(* Fault: the new role is added to the old ones.                           *)
UpdateAdds(r, a) ==
  /\ At(r, "update", "create") /\ req[r].who = {a}
  /\ account' = [account EXCEPT ![a].roles = @ \cup {req[r].role}]
  /\ Leave(r)
  /\ UNCHANGED <<inbox, past>>

(* The commit.  An account has a role once (@@unique): the creation fails  *)
(* when another update has given the same role meanwhile.                  *)
UpdateDone(r, a) ==
  LET others == account[a].roles \ req[r].seen IN
  /\ At(r, "update", "create") /\ req[r].who = {a}
  /\ account' = [account EXCEPT ![a].roles = IF req[r].role \in others THEN @ ELSE others \cup {req[r].role}]
  /\ Leave(r)
  /\ UNCHANGED <<inbox, past>>

-----------------------------------------------------------------------------
(* approveStaff (whatever the status), rejectStaff and deleteStaff find an *)
(* account; bulkApproveStaff finds pending ones.                           *)
Decide(r, op, who) ==
  /\ who # {} /\ \A a \in who : Here(a)
  /\ IF op = "bulk" THEN \A a \in who : account[a].approval = "PENDING" ELSE Cardinality(who) = 1
  /\ Begin(r, [Idle EXCEPT !.op = op, !.step = "write", !.who = who])
  /\ UNCHANGED <<account, inbox, past>>

(* They write by id.                                                       *)
Write(r, op, who, value) ==
  /\ At(r, op, "write") /\ ~Locked(r, req[r].who)
  /\ account' = [a \in Addresses |-> IF a \in who THEN [account[a] EXCEPT !.approval = value] ELSE account[a]]
  /\ Leave(r)
  /\ UNCHANGED <<inbox, dead, hasty, both>>

(* Only the bulk approval looks at the status again.                       *)
Approve(r) ==
  LET who == {a \in req[r].who : req[r].op = "bulk" => account[a].approval = "PENDING"} IN
  /\ \E op \in {"approve", "bulk"} : Write(r, op, who, "APPROVED")
  /\ free' = LetIn(who \ Approved)

(* rejectStaff differs from deleteStaff in the status it leaves behind.    *)
Dismiss(r) ==
  /\ At(r, "dismiss", "write") /\ ~Locked(r, req[r].who)
  /\ \E a \in req[r].who : Remove(r, a, "gone")
  /\ UNCHANGED free

(* downgradeToFree reads the approved staff, and suspends all but the      *)
(* oldest.  Which ones are the oldest is left open.                        *)
LookAtStaff(r) ==
  /\ \E keep \in SUBSET Approved :
       /\ Cardinality(keep) = FreeStaff \/ (keep = Approved /\ Cardinality(keep) < FreeStaff)
       /\ Begin(r, [Idle EXCEPT !.op = "downgrade", !.step = "write", !.who = Approved \ keep])
  /\ free' = [state |-> IF \E q \in Requests : req[q].op = "downgrade" THEN "two" ELSE "looked", let |-> {}]
  /\ UNCHANGED <<account, inbox, dead, hasty, both>>

Done == [free EXCEPT !.state = IF @ = "looked" THEN "done" ELSE @]

(* Fault: the first of those to suspend is kept.                           *)
SuspendTooFew(r) ==
  /\ \E a \in Addresses : Write(r, "downgrade", req[r].who \ {a}, "PENDING")
  /\ free' = Done

Suspend(r) ==
  /\ Write(r, "downgrade", req[r].who, "PENDING")
  /\ free' = Done

(* The process or the connection fails, or a role that does not exist      *)
(* refuses the update.  What a mailing has committed stays: the account,   *)
(* and the link that was not mailed.                                       *)
Abort(r) ==
  /\ req[r] # Idle /\ Leave(r)
  /\ Undelivered(r)
  /\ UNCHANGED <<account, inbox, hasty, both, free>>

-----------------------------------------------------------------------------
Mail(r, a) == Register(r, a) \/ Resend(r, a) \/ Issue(r, a) \/ Send(r, a) \/ SendFails(r, a)

ChangeRole(r, a) ==
  \/ \E role \in Roles, locks \in BOOLEAN : Update(r, a, role, locks)
  \/ UpdateRoles(r, a) \/ UpdateDone(r, a)

Next ==
  \/ \E r \in Requests, a \in Applicants : Mail(r, a)
  \/ \E a \in Applicants : Verify(a) \/ GoogleLogin(a)
  \/ \E a \in Hires, role \in Roles : CreateStaff(a, role)
  \/ \E r \in Requests, a \in Movers : ChangeRole(r, a)
  \/ \E r \in Requests :
       \/ \E op \in {"approve", "bulk", "dismiss"}, who \in SUBSET Addresses : Decide(r, op, who)
       \/ Approve(r) \/ Dismiss(r) \/ LookAtStaff(r) \/ Suspend(r) \/ Abort(r)

Spec == Init /\ [][Next]_vars

-----------------------------------------------------------------------------
Ops   == {"idle", "register", "resend", "update", "approve", "bulk", "dismiss", "downgrade"}
Steps == {"idle", "issue", "send", "roles", "create", "write"}

TypeOK ==
  /\ account \in [Addresses ->
       [row : {"none", "here", "gone"}, approval : {"PENDING", "APPROVED"},
        verified : BOOLEAN, link : 0..MaxLinks, roles : SUBSET Roles]]
  /\ inbox \in [Addresses -> SUBSET (1..MaxLinks)]
  /\ req \in [Requests ->
       [op : Ops, step : Steps, who : SUBSET Addresses, link : 0..MaxLinks,
        role : Roles \cup {NoRole}, locks : BOOLEAN, seen : SUBSET Roles]]
  /\ \A s \in {dead, hasty, both, free.let} : s \subseteq Addresses
  /\ free.state \in {"none", "looked", "two", "done"}

(* An account has exactly one role, unless two changes of it overlapped    *)
(* (each deletes the roles it sees): the database only knows that no role  *)
(* is given twice.                                                         *)
OneRole == \A a \in Addresses \ both : Here(a) => Cardinality(account[a].roles) = 1

(* The newest link somebody has received verifies the address, unless a    *)
(* newer one was stored and could not be delivered.                        *)
LatestLinkWorks ==
  \A a \in Addresses \ dead :
    Here(a) /\ ~account[a].verified /\ inbox[a] # {} /\ ~Mailing(a) => Max(inbox[a]) = account[a].link

(* A verified account is never removed from the table, unless it was       *)
(* verified while its registration was still mailing: a registration whose *)
(* mail fails deletes what it has created.                                 *)
VerifiedAccountsStay ==
  [][\A a \in Addresses \ hasty : account[a].verified => account'[a].row # "none"]_vars

(* After a downgrade no more staff is approved than the free plan keeps,   *)
(* but for those let in since it looked; unless two downgrades overlapped. *)
FreeStaffAfterDowngrade == free.state = "done" => Cardinality(Approved \ free.let) <= FreeStaff
=============================================================================
