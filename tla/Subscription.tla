---------------------------- MODULE Subscription ----------------------------
(***************************************************************************)
(* The plan (tier) of one tenant, its invoices, and the branches the plan  *)
(* allows.  The tier is decided by people: the owner's downgrade, an       *)
(* override of the platform, the operator's script.  It is also adjusted   *)
(* to the latest PAID invoice by reconcileTenantSubscription, which every  *)
(* creation of a branch or a product runs first, reading and writing in    *)
(* separate transactions; only a platform admin's creations skip it, and   *)
(* the limit.                                                              *)
(*                                                                         *)
(* Dates are abstracted: a subscription never expires, runs, or is past;   *)
(* of payments and downgrades the model keeps the order.                   *)
(***************************************************************************)
EXTENDS Naturals, FiniteSets

CONSTANTS
  Branches, Invoices, Requests,
  InvoiceTier,       \* [Invoices -> paid tiers]
  FreeOutlets, GrowthOutlets,   \* TIER_LIMITS: maxOutlets, with the main one
  NoInvoice

Tiers == {"FREE", "GROWTH", "ENTERPRISE"}

ASSUME TierAssumption ==
  InvoiceTier \in [Invoices -> Tiers \ {"FREE"}] /\ NoInvoice \notin Invoices
ASSUME LimitsAssumption ==
  /\ FreeOutlets \in Nat \ {0} /\ GrowthOutlets \in Nat /\ FreeOutlets <= GrowthOutlets
  /\ IsFiniteSet(Branches)

VARIABLES
  tier, expires,
  invoice,     \* [Invoices -> "none" | "PENDING" | "PAID"]
  latest,      \* the PAID invoice that was paid last, or NoInvoice
  downgraded,  \* the PAID invoices with a DOWNGRADE in the history after them
  branch,      \* [Branches -> "none" | "active" | "inactive"]
  req,         \* [Requests -> [step, invoice, plan, stale]]
  down,        \* what the downgrade under way has written and not committed
  since,       \* history: what happened since the last decision of a person
  best, full,  \* history: the highest tier so far; whether creations overlapped
  exempt       \* history: the branches that a platform admin has created

tenant  == <<tier, expires>>
bills   == <<invoice, latest, downgraded>>
history == <<since, best, full, exempt>>
vars    == <<tier, expires, invoice, latest, downgraded, branch, req, down, since, best, full, exempt>>

-----------------------------------------------------------------------------
Rank == [t \in Tiers |-> CASE t = "FREE" -> 0 [] t = "GROWTH" -> 1 [] OTHER -> 2]
Higher(t, u) == IF Rank[t] < Rank[u] THEN u ELSE t

Idle == [step |-> "idle", invoice |-> NoInvoice, plan |-> "none", stale |-> FALSE]

Paid     == {i \in Invoices : invoice[i] = "PAID"}
Open     == {b \in Branches : branch[b] = "active"}
Existing == {b \in Branches : branch[b] # "none"}

(* A downgrade has written the tier, and keeps the tenant's row locked; it *)
(* has shut the branches (and keeps theirs).                               *)
Locked == \E r \in Requests : req[r].step \in {"outlets", "record", "finish"}
Shuts  == \E r \in Requests : req[r].step \in {"record", "finish"}

(* Of a downgrade: the branches it shuts, the invoices its entry in the    *)
(* history comes after, and (history) the branches created since it shut   *)
(* the others.                                                             *)
NoDowngrade == [shut |-> {}, noted |-> {}, late |-> {}]

(* getSubscriptionDetails, buildUsageMetric: outlets are counted with the  *)
(* main one, active or not; ENTERPRISE has no limit.                       *)
Fits(n, t) ==
  /\ t = "FREE" => n <= FreeOutlets
  /\ t = "GROWTH" => n <= GrowthOutlets

(* Fault: a plan that is full takes one more.                              *)
RoomForOneMore(t) == Fits(Cardinality(Existing) + 1, t)
Room(t) == Fits(Cardinality(Existing) + 2, t)

(* Requests between a read and the write it decides have been overtaken.   *)
Overtaken(steps) ==
  [q \in Requests |-> IF req[q].step \in steps THEN [req[q] EXCEPT !.stale = TRUE] ELSE req[q]]
Reconciling == {"history", "apply"}

(* A person decides on the tier, the owner by a downgrade (history).       *)
Nothing(by) == [by |-> by, applied |-> [i \in Invoices |-> 0], loose |-> FALSE, reopened |-> {}]
Reopened(b) == IF since.by = "downgrade" THEN [since EXCEPT !.reopened = @ \cup {b}] ELSE since
Decided(by) == since' = Nothing(by)

(* checkSubscriptionStatus: an expired tenant cannot write, but a platform *)
(* admin can in its place.  So the guard matters only where being a        *)
(* platform admin makes a difference later.                                *)
MayWrite == expires # "past"

Begin(r, new) == req[r] = Idle /\ req' = [req EXCEPT ![r] = new]

-----------------------------------------------------------------------------
Init ==
  /\ tier = "FREE" /\ expires = "never"
  /\ invoice = [i \in Invoices |-> "none"] /\ latest = NoInvoice /\ downgraded = {}
  /\ branch = [b \in Branches |-> "none"]
  /\ req = [r \in Requests |-> Idle] /\ down = NoDowngrade
  /\ since = Nothing("other") /\ best = "FREE" /\ full = FALSE /\ exempt = {}

(* createSubscriptionUpgradeInvoice.  (The notification of its payment     *)
(* changes nothing: processSubscriptionMidtransWebhook runs without a      *)
(* tenant, so its look-up of the invoice throws.)                          *)
Upgrade(i) ==
  /\ invoice[i] = "none"
  /\ invoice' = [invoice EXCEPT ![i] = "PENDING"]
  /\ UNCHANGED <<tenant, latest, downgraded, branch, req, down, history>>

(* The subscription runs out.                                              *)
Lapse ==
  /\ expires = "running" /\ expires' = "past"
  /\ UNCHANGED <<tier, bills, branch, req, down, history>>

-----------------------------------------------------------------------------
(* A request that creates a branch.  One that creates a product does the   *)
(* same up to the limit, and then goes on with products (Abort).           *)
AskBranch(r) ==
  /\ MayWrite
  /\ Begin(r, [Idle EXCEPT !.step = "look"])
  /\ UNCHANGED <<tenant, bills, branch, down, history>>

(* The same from a platform admin (bypassLimits): neither reconciliation   *)
(* nor limit, whatever the subscription.                                   *)
AskAsAdmin(r) ==
  /\ Begin(r, [Idle EXCEPT !.step = "create"])
  /\ UNCHANGED <<tenant, bills, branch, down, history>>

At(r, step) == req[r].step = step
Goto(r, step) == req' = [req EXCEPT ![r].step = step]
GotoWith(r, step, i) == req' = [req EXCEPT ![r] = [Idle EXCEPT !.step = step, !.invoice = i]]

(* Fault: the latest invoice is applied whatever the tier is.              *)
NeedsAlways(i) == Rank[InvoiceTier[i]] >= Rank[tier]
Needs(i) == Rank[InvoiceTier[i]] > Rank[tier]

(* reconcileTenantSubscription reads the latest PAID invoice with its      *)
(* tenant; below the tier of the invoice there may be something to do.     *)
Look(r) ==
  /\ At(r, "look")
  /\ IF latest # NoInvoice /\ Needs(latest)
       THEN GotoWith(r, "history", latest)
       ELSE GotoWith(r, "limit", NoInvoice)
  /\ UNCHANGED <<tenant, bills, branch, down, history>>

(* Fault: the history is not looked at.                                    *)
ReadNoHistory(r) ==
  /\ At(r, "history")
  /\ Goto(r, "apply")
  /\ UNCHANGED <<tenant, bills, branch, down, history>>

(* A downgrade after the payment stands.                                   *)
ReadHistory(r) ==
  /\ At(r, "history")
  /\ IF req[r].invoice \in downgraded THEN GotoWith(r, "limit", NoInvoice) ELSE Goto(r, "apply")
  /\ UNCHANGED <<tenant, bills, branch, down, history>>

(* applyPaidSubscriptionInvoice with what was read: the tier is written    *)
(* without another look.                                                   *)
Apply(r) ==
  LET i == req[r].invoice IN
  /\ At(r, "apply") /\ ~Locked
  /\ tier' = InvoiceTier[i] /\ expires' = "running"
  /\ req' = [Overtaken(Reconciling) EXCEPT ![r] = [Idle EXCEPT !.step = "limit"]]
  /\ since' = IF req[r].stale THEN [since EXCEPT !.loose = TRUE]
              ELSE [since EXCEPT !.applied[i] = IF @ < 2 THEN @ + 1 ELSE @]
  /\ best' = Higher(best, InvoiceTier[i])
  /\ UNCHANGED <<bills, branch, down, full, exempt>>

(* getSubscriptionDetails reads the plan, and then counts.                 *)
ReadTier(r) ==
  /\ At(r, "limit")
  /\ req' = [req EXCEPT ![r].step = "count", ![r].plan = tier]
  /\ UNCHANGED <<tenant, bills, branch, down, history>>

CountOutlets(r) ==
  /\ At(r, "count")
  /\ IF Room(req[r].plan) THEN Goto(r, "create") ELSE req' = [req EXCEPT ![r] = Idle]
  /\ UNCHANGED <<tenant, bills, branch, down, history>>

(* createBranch, in a transaction of its own: another creation's count is  *)
(* stale then.  A branch counts as reopened when the plan that had room    *)
(* for it is not the tenant's any more, or was not asked (history).        *)
CreateBranch(r, b) ==
  LET admin == req[r].plan = "none" IN
  /\ At(r, "create") /\ branch[b] = "none"
  /\ branch' = [branch EXCEPT ![b] = "active"]
  /\ req' = [Overtaken(IF admin THEN {} ELSE {"create"}) EXCEPT ![r] = Idle]
  /\ since' = IF req[r].plan # tier THEN Reopened(b) ELSE since
  /\ full' = (full \/ (~admin /\ req[r].stale))
  /\ exempt' = IF admin THEN exempt \cup {b} ELSE exempt
  /\ down' = IF Shuts THEN [down EXCEPT !.late = @ \cup {b}] ELSE down
  /\ UNCHANGED <<tenant, bills, best>>

-----------------------------------------------------------------------------
(* downgradeToFree compares the tier the middleware has read.              *)
AskDowngrade(r) ==
  /\ tier # "FREE"
  /\ Begin(r, [Idle EXCEPT !.step = "down"])
  /\ UNCHANGED <<tenant, bills, branch, down, history>>

(* In the pinned transaction: the tier, the branches that exist by now,    *)
(* and the history.                                                        *)
DropTier(r) ==
  /\ At(r, "down") /\ ~Locked
  /\ Goto(r, "outlets")
  /\ UNCHANGED <<tenant, bills, branch, down, history>>

(* Fault: the branches are left alone.                                     *)
ShutNone(r) ==
  /\ At(r, "outlets")
  /\ Goto(r, "record")
  /\ UNCHANGED <<tenant, bills, branch, down, history>>

ShutBranches(r) ==
  /\ At(r, "outlets")
  /\ Goto(r, "record")
  /\ down' = [down EXCEPT !.shut = Existing]
  /\ UNCHANGED <<tenant, bills, branch, history>>

Record(r) ==
  /\ At(r, "record")
  /\ Goto(r, "finish")
  /\ down' = [down EXCEPT !.noted = Paid]
  /\ UNCHANGED <<tenant, bills, branch, history>>

(* The answer is sent, or the client has gone away: the transaction        *)
(* commits what it has written so far.  It is the owner's decision when    *)
(* that is all of it, and no invoice was paid after the entry.             *)
Downgrade(r) ==
  /\ req[r].step \in {"outlets", "record", "finish"}
  /\ tier' = "FREE" /\ expires' = "never"
  /\ branch' = [b \in Branches |-> IF b \in down.shut THEN "inactive" ELSE branch[b]]
  /\ downgraded' = downgraded \cup down.noted
  /\ req' = [Overtaken(Reconciling) EXCEPT ![r] = Idle]
  /\ down' = NoDowngrade
  /\ since' = IF At(r, "finish") /\ Paid \subseteq down.noted
              THEN [Nothing("downgrade") EXCEPT !.reopened = Open \cap down.late]
              ELSE Nothing("other")
  /\ UNCHANGED <<invoice, latest, best, full, exempt>>

(* The platform's override: a DOWNGRADE is recorded only for FREE.         *)
Override(t, e) ==
  /\ ~Locked
  /\ tier' = t /\ expires' = e
  /\ downgraded' = IF t = "FREE" /\ tier # "FREE" THEN Paid ELSE downgraded
  /\ req' = Overtaken(Reconciling)
  /\ Decided("other")
  /\ best' = Higher(best, t)
  /\ UNCHANGED <<invoice, latest, branch, down, full, exempt>>

(* The operator's script, --set-growth-active: it reads, sets the tenant,  *)
(* and then marks a pending invoice it has read as PAID.                   *)
AskScript(r) ==
  /\ \E i \in {i \in Invoices : invoice[i] = "PENDING"} \cup {NoInvoice} :
       /\ i = NoInvoice => \A j \in Invoices : invoice[j] # "PENDING"
       /\ Begin(r, [Idle EXCEPT !.step = "set", !.invoice = i])
  /\ UNCHANGED <<tenant, bills, branch, down, history>>

SetGrowth(r) ==
  /\ At(r, "set") /\ ~Locked
  /\ tier' = "GROWTH" /\ expires' = "running"
  /\ req' = [Overtaken(Reconciling) EXCEPT ![r] = IF @.invoice = NoInvoice THEN Idle ELSE [@ EXCEPT !.step = "pay"]]
  /\ Decided("other")
  /\ best' = Higher(best, "GROWTH")
  /\ UNCHANGED <<bills, branch, down, full, exempt>>

(* Fault: the date of the payment is set, and the status left.             *)
PayDateOnly(r) ==
  LET i == req[r].invoice IN
  /\ At(r, "pay")
  /\ latest' = i
  /\ downgraded' = downgraded \ {i}
  /\ req' = [Overtaken(Reconciling) EXCEPT ![r] = Idle]
  /\ Decided("other")
  /\ UNCHANGED <<tenant, invoice, branch, down, best, full, exempt>>

Pay(r) ==
  LET i == req[r].invoice IN
  /\ At(r, "pay")
  /\ invoice' = [invoice EXCEPT ![i] = "PAID"]
  /\ latest' = i
  /\ downgraded' = downgraded \ {i}
  /\ req' = [Overtaken(Reconciling) EXCEPT ![r] = Idle]
  /\ Decided("other")
  /\ UNCHANGED <<tenant, branch, down, best, full, exempt>>

(* --reset-free tells the history nothing.                                 *)
ResetFree ==
  /\ ~Locked
  /\ tier' = "FREE" /\ expires' = "never"
  /\ req' = Overtaken(Reconciling)
  /\ Decided("other")
  /\ UNCHANGED <<bills, branch, down, best, full, exempt>>

(* updateOutlet (whatever the plan allows) and deleteOutlet, where no      *)
(* shift is open; they wait for a downgrade that is shutting the branch.   *)
SetBranch(b, value) ==
  /\ branch[b] # "none" /\ b \notin down.shut
  /\ branch' = [branch EXCEPT ![b] = value]
  /\ since' = IF value = "active" THEN Reopened(b) ELSE [since EXCEPT !.reopened = @ \ {b}]
  /\ exempt' = IF value = "none" THEN exempt \ {b} ELSE exempt
  /\ UNCHANGED <<tenant, bills, req, down, best, full>>

(* A request or a script ends before its next write, or a downgrade takes  *)
(* too long: it is rolled back.                                            *)
Abort(r) ==
  /\ req[r] # Idle /\ req' = [req EXCEPT ![r] = Idle]
  /\ down' = IF req[r].step \in {"outlets", "record", "finish"} THEN NoDowngrade ELSE down
  /\ UNCHANGED <<tenant, bills, branch, history>>

-----------------------------------------------------------------------------
Reconcile(r) == Look(r) \/ ReadHistory(r) \/ Apply(r)
CheckLimit(r) == ReadTier(r) \/ CountOutlets(r)
DowngradeToFree(r) == DropTier(r) \/ ShutBranches(r) \/ Record(r) \/ Downgrade(r)

Next ==
  \/ \E i \in Invoices : Upgrade(i)
  \/ \E r \in Requests :
       \/ AskBranch(r) \/ Reconcile(r) \/ CheckLimit(r)
       \/ AskAsAdmin(r) \/ \E b \in Branches : CreateBranch(r, b)
       \/ AskDowngrade(r) \/ DowngradeToFree(r)
       \/ AskScript(r) \/ SetGrowth(r) \/ Pay(r)
       \/ Abort(r)
  \/ \E t \in Tiers, e \in {"never", "running", "past"} : Override(t, e)
  \/ \E b \in Branches, value \in {"none", "active", "inactive"} : SetBranch(b, value)
  \/ ResetFree \/ Lapse

Spec == Init /\ [][Next]_vars

-----------------------------------------------------------------------------
Steps == {"idle", "look", "history", "apply", "limit", "count", "create",
          "down", "outlets", "record", "finish", "set", "pay"}

TypeOK ==
  /\ tier \in Tiers /\ expires \in {"never", "running", "past"}
  /\ invoice \in [Invoices -> {"none", "PENDING", "PAID"}]
  /\ latest \in {NoInvoice} \cup Paid
  /\ downgraded \subseteq Paid
  /\ branch \in [Branches -> {"none", "active", "inactive"}]
  /\ req \in [Requests -> [step : Steps, invoice : Invoices \cup {NoInvoice},
                           plan : Tiers \cup {"none"}, stale : BOOLEAN]]
  /\ down \in [shut : SUBSET Branches, noted : SUBSET Paid, late : SUBSET Branches]
  /\ since \in [by : {"downgrade", "other"}, applied : [Invoices -> 0..2],
                loose : BOOLEAN, reopened : SUBSET Branches]
  /\ best \in Tiers /\ full \in BOOLEAN /\ exempt \subseteq Branches

(* The owner's downgrade stands until a person decides otherwise, although *)
(* the invoice paid before is still the latest one: unless a               *)
(* reconciliation had read the old tier and writes after the downgrade.    *)
DowngradeStands == since.by = "downgrade" /\ ~since.loose => tier = "FREE"

(* One invoice extends the subscription at most once between two decisions *)
(* of a person, however many creations reconcile, unless the               *)
(* reconciliations overlapped.                                             *)
InvoiceAppliedOnce == ~since.loose => \A i \in Invoices : since.applied[i] <= 1

(* The tenant has no more outlets than the best plan it has had allows,    *)
(* not counting those that a platform admin has created, unless two        *)
(* creations overlapped.                                                   *)
OutletsWithinPlan == ~full => Fits(Cardinality(Existing \ exempt) + 1, best)

(* After the owner's downgrade no branch is active but those that were     *)
(* reactivated (nothing checks the plan then), that a platform admin has   *)
(* created since, that found room in the plan before, or that were created *)
(* between the update that shut the others and its commit.  (An override   *)
(* to FREE leaves the branches as they are.)                               *)
DowngradeShutsBranches ==
  since.by = "downgrade" /\ tier = "FREE" => Open \subseteq since.reopened
=============================================================================
