------------------------- MODULE SubscriptionProofs -------------------------
(***************************************************************************)
(* Theorems about Subscription, for any numbers of invoices, branches and  *)
(* requests.                                                               *)
(*                                                                         *)
(* A reconciliation writes what an earlier read has decided.  The          *)
(* invariant says what such a request may still rely on when nothing has   *)
(* overtaken it: its invoice is paid and above the plan (Needs), and after *)
(* a downgrade of the owner none is left that would write.                 *)
(***************************************************************************)
EXTENDS Subscription, FiniteSetTheorems, TLAPS

Asked == [step : Steps, invoice : Invoices \cup {NoInvoice}, plan : Tiers \cup {"none"}, stale : BOOLEAN]
Down  == [shut : SUBSET Branches, noted : SUBSET Paid, late : SUBSET Branches]

(* The branches that a limit was asked for.                                *)
Measured == Existing \ exempt

(* What a request may rely on.                                             *)
Sound(q) ==
  /\ q.step \in Reconciling =>
       /\ q.invoice \in Invoices /\ invoice[q.invoice] = "PAID"
       /\ ~q.stale => Needs(q.invoice)
  /\ q.step = "pay" => q.invoice \in Invoices
  /\ q.step = "apply" /\ since.by = "downgrade" => q.stale
  /\ q.step = "count" => q.plan \in Tiers /\ Rank[q.plan] <= Rank[best]
  /\ q.step = "create" /\ q.plan # "none" /\ ~q.stale /\ ~full => Fits(Cardinality(Measured) + 2, best)

AllSound == \A r \in Requests : Sound(req[r])

(* The plan only rises between two decisions, so an invoice that has been  *)
(* applied is not above it any more.                                       *)
Rises ==
  /\ since.by = "downgrade" => \A i \in Invoices : invoice[i] = "PAID" => i \in downgraded
  /\ ~since.loose => \A i \in Invoices : since.applied[i] > 0 => Rank[InvoiceTier[i]] <= Rank[tier]
  /\ Rank[tier] <= Rank[best]

Safe == DowngradeStands /\ InvoiceAppliedOnce /\ OutletsWithinPlan

(* A downgrade keeps the branches it shuts from being deleted.             *)
ShutExist == down.shut \subseteq Existing

IInv == TypeOK /\ ShutExist /\ AllSound /\ Rises /\ Safe

-----------------------------------------------------------------------------
(* The tiers have ranks from 0 to 2.                                       *)
LEMMA Ranks ==
  /\ Rank \in [Tiers -> 0..2]
  /\ \A t \in Tiers : (Rank[t] = 0 <=> t = "FREE") /\ (Rank[t] = 1 <=> t = "GROWTH")
  BY DEF Rank, Tiers

(* What fits a plan fits a higher one, and so does less.                   *)
LEMMA FitsMore ==
  ASSUME NEW m \in Nat, NEW n \in Nat, m <= n, NEW t \in Tiers, NEW u \in Tiers,
         Rank[t] <= Rank[u], Fits(n, t)
  PROVE  Fits(m, u)
  BY Ranks, LimitsAssumption DEF Fits, Tiers

(* The higher of two tiers is at least either.                             *)
LEMMA HigherIsHigher ==
  ASSUME NEW t \in Tiers, NEW u \in Tiers
  PROVE  Higher(t, u) \in Tiers /\ Rank[t] <= Rank[Higher(t, u)] /\ Rank[u] <= Rank[Higher(t, u)]
  BY Ranks DEF Higher

(* There are finitely many branches.                                       *)
LEMMA Counts ==
  /\ IsFiniteSet(Existing) /\ Cardinality(Existing) \in Nat
  /\ IsFiniteSet(Measured) /\ Cardinality(Measured) \in Nat
  /\ Cardinality(Measured) <= Cardinality(Existing)
<1>1. IsFiniteSet(Existing)
  BY LimitsAssumption, FS_Subset DEF Existing
<1>2. Measured \subseteq Existing
  BY DEF Measured
<1> QED BY <1>1, <1>2, FS_Subset, FS_CardinalityType

(* Overtaking changes nothing of a request but that it is stale.           *)
LEMMA OvertakenType ==
  ASSUME req \in [Requests -> Asked], NEW S
  PROVE  /\ Overtaken(S) \in [Requests -> Asked]
         /\ \A q \in Requests :
              /\ Overtaken(S)[q].step = req[q].step /\ Overtaken(S)[q].invoice = req[q].invoice
              /\ Overtaken(S)[q].plan = req[q].plan
              /\ Overtaken(S)[q].stale <=> req[q].stale \/ req[q].step \in S
<1> SUFFICES ASSUME NEW q \in Requests
             PROVE  /\ Overtaken(S)[q] \in Asked
                    /\ Overtaken(S)[q].step = req[q].step /\ Overtaken(S)[q].invoice = req[q].invoice
                    /\ Overtaken(S)[q].plan = req[q].plan
                    /\ Overtaken(S)[q].stale <=> req[q].stale \/ req[q].step \in S
  BY DEF Overtaken
<1>1. Overtaken(S)[q] = IF req[q].step \in S THEN [req[q] EXCEPT !.stale = TRUE] ELSE req[q]
  BY DEF Overtaken
<1>2. req[q] \in Asked
  OBVIOUS
<1>3. CASE req[q].step \in S
  BY <1>1, <1>2, <1>3 DEF Asked
<1>4. CASE req[q].step \notin S
  BY <1>1, <1>2, <1>4
<1> QED BY <1>3, <1>4

(* A request that does nothing knows nothing.                              *)
LEMMA IdleIsSound == Idle \in Asked /\ Sound(Idle) /\ Sound([Idle EXCEPT !.step = "limit"])
  BY DEF Idle, Asked, Steps, Sound, Reconciling

Since == [by : {"downgrade", "other"}, applied : [Invoices -> 0..2],
          loose : BOOLEAN, reopened : SUBSET Branches]

(* What has happened since a decision that was just made.                  *)
LEMMA NothingType ==
  ASSUME NEW by \in {"downgrade", "other"}
  PROVE  Nothing(by) \in Since
<1>1. [i \in Invoices |-> 0] \in [Invoices -> 0..2]
  OBVIOUS
<1> QED BY <1>1 DEF Nothing, Since

(* At first there are no invoices and no requests.                         *)
LEMMA InitIInv == Init => IInv
<1> SUFFICES ASSUME Init PROVE IInv
  OBVIOUS
<1>1. TypeOK
  <2>1. since \in Since
    BY NothingType DEF Init
  <2>2. down \in Down
    BY DEF Init, NoDowngrade, Down
  <2> QED BY <2>1, <2>2, IdleIsSound DEF Init, TypeOK, Asked, Down, Paid, Tiers, Since
<1>2. AllSound
  BY IdleIsSound DEF Init, AllSound
<1>3. Rises
  BY Ranks DEF Init, Rises, Nothing, Tiers
<1>4. Measured = {}
  BY DEF Init, Existing, Measured
<1>5. OutletsWithinPlan
  BY <1>4, FS_EmptySet, LimitsAssumption DEF Init, OutletsWithinPlan, Measured, Fits
<1>6. DowngradeStands /\ InvoiceAppliedOnce
  BY DEF Init, DowngradeStands, InvoiceAppliedOnce, Nothing
<1>7. ShutExist
  BY DEF Init, NoDowngrade, ShutExist
<1> QED BY <1>1, <1>2, <1>3, <1>5, <1>6, <1>7 DEF IInv, Safe

-----------------------------------------------------------------------------
(* A step that only replaces a request by a sound one.                     *)
LEMMA OnlyTheRequest ==
  ASSUME IInv, NEW r \in Requests, NEW new \in Asked, Sound(new),
         req' = [req EXCEPT ![r] = new], down' \in Down, down'.shut \subseteq Existing,
         UNCHANGED <<tenant, bills, branch, history>>
  PROVE  IInv'
<1>1. /\ UNCHANGED <<tier, expires, invoice, latest, downgraded, branch, since, best, full, exempt>>
      /\ Paid' = Paid /\ Existing' = Existing /\ Measured' = Measured
  BY DEF tenant, bills, history, Paid, Existing, Measured
<1>2. TypeOK'
  BY <1>1 DEF IInv, TypeOK, Asked, Down
<1>3. AllSound'
  <2> SUFFICES ASSUME NEW q \in Requests PROVE Sound(req[q])'
    BY DEF AllSound
  <2>1. Sound(req'[q])
    BY DEF IInv, TypeOK, AllSound
  <2> QED BY <1>1, <2>1 DEF Sound, Needs
<1>4. Rises' /\ Safe'
  BY <1>1 DEF IInv, Rises, Safe, DowngradeStands, InvoiceAppliedOnce, OutletsWithinPlan
<1> QED BY <1>1, <1>2, <1>3, <1>4 DEF IInv, ShutExist

(* Steps that only read, or write what is not yet committed: what they     *)
(* found is so when they find it.                                          *)
LEMMA ReadsIInv ==
  ASSUME IInv, NEW r \in Requests,
         \/ AskBranch(r) \/ AskAsAdmin(r) \/ Look(r) \/ ReadHistory(r) \/ CheckLimit(r)
         \/ AskDowngrade(r) \/ DropTier(r) \/ ShutBranches(r) \/ Record(r) \/ AskScript(r) \/ Abort(r)
  PROVE  IInv'
<1> USE DEF Asked, Steps
<1>1. /\ req \in [Requests -> Asked] /\ req[r] \in Asked /\ Sound(req[r]) /\ NoInvoice \notin Invoices
      /\ down \in Down /\ down.shut \subseteq Existing
  BY TierAssumption DEF IInv, TypeOK, AllSound, Down, ShutExist
<1>2. CASE AskBranch(r)
  <2> DEFINE new == [Idle EXCEPT !.step = "look"]
  <2>1. new \in Asked /\ Sound(new) /\ req' = [req EXCEPT ![r] = new]
    BY <1>2 DEF AskBranch, Begin, Idle, Sound, Reconciling
  <2> HIDE DEF new
  <2> QED BY <1>1, <1>2, <2>1, OnlyTheRequest DEF AskBranch
<1>3. CASE AskAsAdmin(r)
  <2> DEFINE new == [Idle EXCEPT !.step = "create"]
  <2>1. new \in Asked /\ Sound(new) /\ req' = [req EXCEPT ![r] = new]
    BY <1>3 DEF AskAsAdmin, Begin, Idle, Sound, Reconciling
  <2> HIDE DEF new
  <2> QED BY <1>1, <1>3, <2>1, OnlyTheRequest DEF AskAsAdmin
<1>4. CASE Look(r)
  <2>1. CASE latest # NoInvoice /\ Needs(latest)
    <3> PICK new : new = [Idle EXCEPT !.step = "history", !.invoice = latest]
      OBVIOUS
    <3>1. latest \in Invoices /\ invoice[latest] = "PAID"
      BY <2>1 DEF IInv, TypeOK, Paid
    <3>2. /\ new \in Asked /\ req' = [req EXCEPT ![r] = new]
          /\ new.step = "history" /\ new.invoice = latest /\ new.stale = FALSE
      BY <1>4, <2>1, <3>1 DEF Look, GotoWith, Idle
    <3>3. Sound(new)
      BY <2>1, <3>1, <3>2 DEF Sound
    <3> QED BY <1>1, <1>4, <3>2, <3>3, OnlyTheRequest DEF Look
  <2>2. CASE ~(latest # NoInvoice /\ Needs(latest))
    <3> DEFINE new == [Idle EXCEPT !.step = "limit", !.invoice = NoInvoice]
    <3>1. new \in Asked /\ Sound(new) /\ req' = [req EXCEPT ![r] = new]
      BY <1>4, <2>2 DEF Look, GotoWith, Idle, Sound, Reconciling
    <3> HIDE DEF new
    <3> QED BY <1>1, <1>4, <3>1, OnlyTheRequest DEF Look
  <2> QED BY <2>1, <2>2
<1>5. CASE ReadHistory(r)
  <2>1. CASE req[r].invoice \in downgraded
    <3> DEFINE new == [Idle EXCEPT !.step = "limit", !.invoice = NoInvoice]
    <3>1. new \in Asked /\ Sound(new) /\ req' = [req EXCEPT ![r] = new]
      BY <1>5, <2>1 DEF ReadHistory, GotoWith, Idle, Sound, Reconciling
    <3> HIDE DEF new
    <3> QED BY <1>1, <1>5, <3>1, OnlyTheRequest DEF ReadHistory
  <2>2. CASE req[r].invoice \notin downgraded
    <3> PICK new : new = [req[r] EXCEPT !.step = "apply"]
      OBVIOUS
    <3>1. /\ new \in Asked /\ new.step = "apply"
          /\ new.invoice = req[r].invoice /\ new.stale = req[r].stale
      BY <1>1
    <3>2. req' = [req EXCEPT ![r] = new] /\ req[r].step = "history"
      BY <1>5, <2>2 DEF ReadHistory, Goto, At
    <3>3. since.by # "downgrade"
      BY <1>1, <2>2, <3>2 DEF IInv, Rises, Sound, Reconciling
    <3>4. Sound(new)
      BY <1>1, <3>1, <3>2, <3>3 DEF Sound, Reconciling
    <3> QED BY <1>1, <1>5, <3>1, <3>2, <3>4, OnlyTheRequest DEF ReadHistory
  <2> QED BY <2>1, <2>2
<1>6. CASE ReadTier(r)
  <2> PICK new : new = [req[r] EXCEPT !.step = "count", !.plan = tier]
    OBVIOUS
  <2>1. tier \in Tiers /\ Rank[tier] <= Rank[best]
    BY DEF IInv, TypeOK, Rises
  <2>2. new \in Asked /\ new.step = "count" /\ new.plan = tier
    BY <1>1, <2>1
  <2>3. req' = [req EXCEPT ![r] = new]
    BY <1>1, <1>6 DEF ReadTier
  <2>4. Sound(new)
    BY <2>1, <2>2 DEF Sound, Reconciling
  <2> QED BY <1>1, <1>6, <2>2, <2>3, <2>4, OnlyTheRequest DEF ReadTier
<1>7. CASE CountOutlets(r)
  <2>1. CASE Room(req[r].plan)
    <3> PICK new : new = [req[r] EXCEPT !.step = "create"]
      OBVIOUS
    <3>1. new \in Asked /\ new.step = "create" /\ req' = [req EXCEPT ![r] = new]
      BY <1>1, <1>7, <2>1 DEF CountOutlets, Goto
    <3>2. req[r].plan \in Tiers /\ best \in Tiers /\ Rank[req[r].plan] <= Rank[best]
      BY <1>1, <1>7 DEF CountOutlets, At, Sound, IInv, TypeOK
    <3>3. Fits(Cardinality(Measured) + 2, best)
      BY <2>1, <3>2, FitsMore, Counts DEF Room
    <3>4. Sound(new)
      BY <3>1, <3>3 DEF Sound, Reconciling
    <3> QED BY <1>1, <1>7, <3>1, <3>4, OnlyTheRequest DEF CountOutlets
  <2>2. CASE ~Room(req[r].plan)
    BY <1>1, <1>7, <2>2, IdleIsSound, OnlyTheRequest DEF CountOutlets
  <2> QED BY <2>1, <2>2
<1>8. CASE AskDowngrade(r)
  <2> DEFINE new == [Idle EXCEPT !.step = "down"]
  <2>1. new \in Asked /\ Sound(new) /\ req' = [req EXCEPT ![r] = new]
    BY <1>8 DEF AskDowngrade, Begin, Idle, Sound, Reconciling
  <2> HIDE DEF new
  <2> QED BY <1>1, <1>8, <2>1, OnlyTheRequest DEF AskDowngrade
<1>9. CASE DropTier(r) \/ ShutBranches(r) \/ Record(r)
  <2> PICK step \in {"outlets", "record", "finish"} : Goto(r, step)
    BY <1>9 DEF DropTier, ShutBranches, Record
  <2> PICK new : new = [req[r] EXCEPT !.step = step]
    OBVIOUS
  <2>1. new \in Asked /\ new.step = step /\ req' = [req EXCEPT ![r] = new]
    BY <1>1 DEF Goto
  <2>2. Sound(new)
    BY <2>1 DEF Sound, Reconciling
  <2>3. Existing \in SUBSET Branches /\ Paid \in SUBSET Paid
    BY DEF Existing
  <2>4. down' \in Down /\ down'.shut \subseteq Existing
    BY <1>1, <1>9, <2>3 DEF DropTier, ShutBranches, Record, bills, Paid, Down
  <2>5. UNCHANGED <<tenant, bills, branch, history>>
    BY <1>9 DEF DropTier, ShutBranches, Record
  <2> QED BY <2>1, <2>2, <2>4, <2>5, OnlyTheRequest
<1>10. CASE AskScript(r)
  <2> PICK i \in Invoices \cup {NoInvoice} : Begin(r, [Idle EXCEPT !.step = "set", !.invoice = i])
    BY <1>10 DEF AskScript
  <2> DEFINE new == [Idle EXCEPT !.step = "set", !.invoice = i]
  <2>1. new \in Asked /\ Sound(new) /\ req' = [req EXCEPT ![r] = new]
    BY DEF Begin, Idle, Sound, Reconciling
  <2> HIDE DEF new
  <2> QED BY <1>1, <1>10, <2>1, OnlyTheRequest DEF AskScript
<1>11. CASE Abort(r)
  <2>1. NoDowngrade \in Down
    BY DEF NoDowngrade, Down
  <2>2. down' \in Down /\ down'.shut \subseteq Existing
    BY <1>1, <1>11, <2>1 DEF Abort, NoDowngrade
  <2> QED BY <1>11, <2>2, IdleIsSound, OnlyTheRequest DEF Abort
<1> QED BY <1>2, <1>3, <1>4, <1>5, <1>6, <1>7, <1>8, <1>9, <1>10, <1>11 DEF CheckLimit

-----------------------------------------------------------------------------
(* A decision of a person overtakes the reconciliations: they are stale.   *)
LEMMA DecisionIInv ==
  ASSUME IInv, NEW by \in {"downgrade", "other"},
         since' \in Since, since'.by = by, since'.loose = FALSE, \A i \in Invoices : since'.applied[i] = 0,
         tier' \in Tiers, expires' \in {"never", "running", "past"}, best' \in Tiers,
         Rank[best] <= Rank[best'], Rank[tier'] <= Rank[best'],
         invoice' \in [Invoices -> {"none", "PENDING", "PAID"}],
         Paid \subseteq Paid', latest' \in {NoInvoice} \cup Paid', downgraded' \subseteq Paid',
         by = "downgrade" => tier' = "FREE" /\ Paid' \subseteq downgraded',
         branch' \in [Branches -> {"none", "active", "inactive"}], Existing' = Existing,
         down' \in Down', down'.shut \subseteq Existing,
         UNCHANGED <<full, exempt>>,
         req' \in [Requests -> Asked],
         \A q \in Requests :
           \/ req'[q] = Idle
           \/ req[q].step = "set" /\ req'[q].step = "pay" /\ req'[q].invoice \in Invoices
           \/ /\ req'[q].step = req[q].step /\ req'[q].invoice = req[q].invoice /\ req'[q].plan = req[q].plan
              /\ req[q].stale \/ req[q].step \in Reconciling => req'[q].stale
  PROVE  IInv'
<1>2. TypeOK'
  BY DEF IInv, TypeOK, Since, Asked, Down
<1>1. Measured' = Measured /\ \A i \in Invoices : invoice[i] = "PAID" => invoice'[i] = "PAID"
  BY DEF Measured, Paid
<1>3. ASSUME NEW q \in Requests PROVE Sound(req[q])'
  <2>1. Sound(req[q]) /\ req[q] \in Asked
    BY DEF IInv, TypeOK, AllSound, Asked
  <2>2. CASE req'[q] = Idle
    BY <2>2 DEF Sound, Idle, Reconciling
  <2>3. CASE req'[q].step = "pay" /\ req'[q].invoice \in Invoices
    BY <2>3 DEF Sound, Reconciling
  <2>4. CASE /\ req'[q].step = req[q].step /\ req'[q].invoice = req[q].invoice /\ req'[q].plan = req[q].plan
             /\ req[q].stale \/ req[q].step \in Reconciling => req'[q].stale
    <3>1. /\ req'[q].step = "create" /\ req'[q].plan # "none" /\ ~req'[q].stale /\ ~full
          => Fits(Cardinality(Measured) + 2, best')
      <4> SUFFICES ASSUME req'[q].step = "create", req'[q].plan # "none", ~req'[q].stale, ~full
                   PROVE  Fits(Cardinality(Measured) + 2, best')
        OBVIOUS
      <4>1. Fits(Cardinality(Measured) + 2, best)
        BY <2>1, <2>4 DEF Sound
      <4> QED BY <4>1, FitsMore, Counts DEF IInv, TypeOK
    <3>2. req'[q].step = "count" => req'[q].plan \in Tiers /\ Rank[req'[q].plan] <= Rank[best']
      BY <2>1, <2>4, Ranks DEF Sound, IInv, TypeOK
    <3> QED BY <1>1, <2>1, <2>4, <3>1, <3>2 DEF Sound, Reconciling
  <2> QED BY <2>2, <2>3, <2>4
<1>4. Rises'
  BY DEF Rises, Paid
<1>5. Safe'
  <2>1. OutletsWithinPlan'
    BY <1>1, FitsMore, Counts DEF IInv, TypeOK, Safe, OutletsWithinPlan, Measured
  <2> QED BY <2>1 DEF Safe, DowngradeStands, InvoiceAppliedOnce
<1> QED BY <1>2, <1>3, <1>4, <1>5 DEF IInv, AllSound, ShutExist

(* Decisions and the script overtake the requests that have read.          *)
LEMMA DecisionsIInv ==
  ASSUME IInv,
         \/ \E r \in Requests : Downgrade(r) \/ SetGrowth(r) \/ Pay(r)
         \/ \E t \in Tiers, e \in {"never", "running", "past"} : Override(t, e)
         \/ ResetFree
  PROVE  IInv'
<1> USE DEF Asked
<1>1. /\ req \in [Requests -> Asked] /\ tier \in Tiers /\ best \in Tiers /\ Rank[tier] <= Rank[best]
      /\ invoice \in [Invoices -> {"none", "PENDING", "PAID"}]
      /\ latest \in {NoInvoice} \cup Paid /\ downgraded \subseteq Paid
      /\ branch \in [Branches -> {"none", "active", "inactive"}] /\ down \in Down
      /\ down.shut \subseteq Existing /\ {"FREE", "GROWTH"} \subseteq Tiers
  BY DEF IInv, TypeOK, Rises, Tiers, Down, ShutExist
<1>2. /\ Overtaken(Reconciling) \in [Requests -> Asked]
      /\ \A q \in Requests :
           /\ Overtaken(Reconciling)[q].step = req[q].step /\ Overtaken(Reconciling)[q].invoice = req[q].invoice
           /\ Overtaken(Reconciling)[q].plan = req[q].plan
           /\ Overtaken(Reconciling)[q].stale <=> req[q].stale \/ req[q].step \in Reconciling
  BY <1>1, OvertakenType
<1>0. \A by \in {"downgrade", "other"} :
        /\ Nothing(by) \in Since /\ Nothing(by).by = by /\ Nothing(by).loose = FALSE
        /\ \A i \in Invoices : Nothing(by).applied[i] = 0
  BY NothingType DEF Nothing
<1>3. ASSUME NEW r \in Requests, Downgrade(r) PROVE IInv'
  <2> DEFINE by == IF At(r, "finish") /\ Paid \subseteq down.noted THEN "downgrade" ELSE "other"
  <2>1. PICK o : o = Overtaken(Reconciling)
    OBVIOUS
  <2>2. /\ tier' = "FREE" /\ expires' = "never" /\ downgraded' = downgraded \cup down.noted
        /\ req' = [o EXCEPT ![r] = Idle] /\ down' = NoDowngrade
        /\ branch' = [b \in Branches |-> IF b \in down.shut THEN "inactive" ELSE branch[b]]
        /\ UNCHANGED <<invoice, latest, best, full, exempt>>
    BY <1>3, <2>1 DEF Downgrade
  <2>3. /\ since' \in Since /\ since'.by = by /\ since'.loose = FALSE
        /\ \A i \in Invoices : since'.applied[i] = 0
    <3>1. CASE At(r, "finish") /\ Paid \subseteq down.noted
      <4>1. since' = [Nothing("downgrade") EXCEPT !.reopened = Open \cap down.late]
        BY <1>3, <3>1 DEF Downgrade
      <4>2. Open \cap down.late \in SUBSET Branches
        BY DEF Open
      <4> QED BY <1>0, <3>1, <4>1, <4>2 DEF Since
    <3>2. CASE ~(At(r, "finish") /\ Paid \subseteq down.noted)
      BY <1>0, <1>3, <3>2 DEF Downgrade
    <3> QED BY <3>1, <3>2
  <2>4. Paid' = Paid /\ down.noted \subseteq Paid /\ NoDowngrade \in Down' /\ NoDowngrade.shut = {}
    BY <1>1, <2>2 DEF Paid, Down, NoDowngrade
  <2>5. branch' \in [Branches -> {"none", "active", "inactive"}]
    BY <1>1, <2>2
  <2>6. Existing' = Existing
    <3>1. \A b \in down.shut : branch[b] # "none"
      BY <1>1 DEF Existing
    <3> QED BY <1>1, <2>2, <3>1 DEF Existing
  <2>7. req' \in [Requests -> Asked] /\ req'[r] = Idle /\ \A q \in Requests : q # r => req'[q] = o[q]
    BY <1>2, <2>1, <2>2, IdleIsSound
  <2>8. ASSUME NEW q \in Requests
        PROVE  \/ req'[q] = Idle
               \/ /\ req'[q].step = req[q].step /\ req'[q].invoice = req[q].invoice
                  /\ req'[q].plan = req[q].plan
                  /\ req[q].stale \/ req[q].step \in Reconciling => req'[q].stale
    BY <1>2, <2>1, <2>7
  <2>9. Rank["FREE"] <= Rank[best]
    BY <1>1, Ranks
  <2>10. by \in {"downgrade", "other"} /\ (by = "downgrade" => Paid \subseteq down.noted)
    OBVIOUS
  <2> HIDE DEF by
  <2>11. /\ Paid \subseteq Paid' /\ latest' \in {NoInvoice} \cup Paid' /\ downgraded' \subseteq Paid'
         /\ by = "downgrade" => tier' = "FREE" /\ Paid' \subseteq downgraded'
         /\ invoice' \in [Invoices -> {"none", "PENDING", "PAID"}] /\ tier' \in Tiers /\ best' \in Tiers
         /\ Rank[best] <= Rank[best'] /\ Rank[tier'] <= Rank[best'] /\ down' \in Down' /\ down'.shut \subseteq Existing
    BY <1>1, <2>2, <2>4, <2>9, <2>10, Ranks
  <2> QED BY <2>2, <2>3, <2>5, <2>6, <2>7, <2>8, <2>10, <2>11, DecisionIInv
<1>4. ASSUME NEW r \in Requests, SetGrowth(r) PROVE IInv'
  <2>1. PICK o : o = Overtaken(Reconciling)
    OBVIOUS
  <2>2. /\ tier' = "GROWTH" /\ expires' = "running" /\ Decided("other")
        /\ best' = Higher(best, "GROWTH") /\ req[r].step = "set"
        /\ req' = [o EXCEPT ![r] = IF o[r].invoice = NoInvoice THEN Idle ELSE [o[r] EXCEPT !.step = "pay"]]
        /\ UNCHANGED <<bills, branch, down, full, exempt>>
    BY <1>4, <2>1 DEF SetGrowth, At
  <2>3. req'[r] = Idle \/ (req'[r] \in Asked /\ req'[r].step = "pay" /\ req'[r].invoice \in Invoices)
    <3>1. o[r] \in Asked /\ o \in [Requests -> Asked]
      BY <1>2, <2>1
    <3>2. CASE o[r].invoice = NoInvoice
      BY <2>2, <3>1, <3>2
    <3>3. CASE o[r].invoice # NoInvoice
      BY <2>2, <3>1, <3>3 DEF Steps
    <3> QED BY <3>2, <3>3
  <2>4. /\ req' \in [Requests -> Asked]
        /\ \A q \in Requests : q # r => req'[q] = o[q]
    BY <1>2, <2>1, <2>2, <2>3, IdleIsSound
  <2>5. /\ best' \in Tiers /\ Rank[best] <= Rank[best'] /\ Rank[tier'] <= Rank[best']
    BY <1>1, <2>2, HigherIsHigher
  <2>6. ASSUME NEW q \in Requests
        PROVE  \/ req'[q] = Idle
               \/ req[q].step = "set" /\ req'[q].step = "pay" /\ req'[q].invoice \in Invoices
               \/ /\ req'[q].step = req[q].step /\ req'[q].invoice = req[q].invoice
                  /\ req'[q].plan = req[q].plan
                  /\ req[q].stale \/ req[q].step \in Reconciling => req'[q].stale
    <3>1. CASE q = r
      BY <2>2, <2>3, <3>1
    <3>2. CASE q # r
      BY <1>2, <2>1, <2>4, <3>2
    <3> QED BY <3>1, <3>2
  <2>7. /\ UNCHANGED <<invoice, latest, downgraded, branch, full, exempt>> /\ Existing' = Existing
        /\ Paid' = Paid /\ down' \in Down' /\ down'.shut \subseteq Existing
    BY <1>1, <2>2 DEF bills, Existing, Paid, Down
  <2> QED BY <1>0, <1>1, <2>2, <2>4, <2>5, <2>6, <2>7, DecisionIInv DEF Decided
<1>5. ASSUME NEW r \in Requests, Pay(r) PROVE IInv'
  <2> DEFINE i == req[r].invoice
  <2>1. PICK o : o = Overtaken(Reconciling)
    OBVIOUS
  <2>2. /\ invoice' = [invoice EXCEPT ![i] = "PAID"] /\ latest' = i /\ downgraded' = downgraded \ {i}
        /\ Decided("other") /\ req[r].step = "pay"
        /\ req' = [o EXCEPT ![r] = Idle]
        /\ UNCHANGED <<tenant, branch, down, best, full, exempt>>
    BY <1>5, <2>1 DEF Pay, At
  <2>3. i \in Invoices
    BY <2>2 DEF IInv, AllSound, Sound
  <2>4. /\ req' \in [Requests -> Asked] /\ req'[r] = Idle
        /\ \A q \in Requests : q # r => req'[q] = o[q]
    BY <1>2, <2>1, <2>2, IdleIsSound
  <2>5. ASSUME NEW q \in Requests
        PROVE  \/ req'[q] = Idle
               \/ /\ req'[q].step = req[q].step /\ req'[q].invoice = req[q].invoice
                  /\ req'[q].plan = req[q].plan
                  /\ req[q].stale \/ req[q].step \in Reconciling => req'[q].stale
    BY <1>2, <2>1, <2>4
  <2>6. /\ invoice' \in [Invoices -> {"none", "PENDING", "PAID"}] /\ Paid' = Paid \cup {i}
        /\ Paid \subseteq Paid' /\ latest' \in {NoInvoice} \cup Paid' /\ downgraded' \subseteq Paid'
    BY <1>1, <2>2, <2>3 DEF Paid
  <2>7. /\ UNCHANGED <<tier, expires, best, branch, full, exempt>> /\ Existing' = Existing
        /\ expires' \in {"never", "running", "past"} /\ down' \in Down' /\ down'.shut \subseteq Existing
    BY <1>1, <2>2, <2>6 DEF tenant, Existing, IInv, TypeOK, Down
  <2>8. Rank[best] <= Rank[best']
    BY <1>1, <2>7, Ranks
  <2> QED BY <1>0, <1>1, <2>2, <2>4, <2>5, <2>6, <2>7, <2>8, DecisionIInv DEF Decided
<1>6. ASSUME NEW t \in Tiers, NEW e \in {"never", "running", "past"}, Override(t, e) PROVE IInv'
  <2>1. /\ tier' = t /\ expires' = e /\ Decided("other") /\ req' = Overtaken(Reconciling)
        /\ best' = Higher(best, t)
        /\ downgraded' \subseteq Paid /\ Paid' = Paid /\ down' \in Down'
        /\ down'.shut \subseteq Existing
        /\ UNCHANGED <<invoice, latest, branch, full, exempt>> /\ Existing' = Existing
    BY <1>1, <1>6 DEF Override, Existing, Paid, Down
  <2>2. /\ best' \in Tiers /\ Rank[best] <= Rank[best'] /\ Rank[tier'] <= Rank[best']
    BY <1>1, <2>1, HigherIsHigher
  <2>3. /\ since' \in Since /\ since'.by = "other" /\ since'.loose = FALSE
        /\ \A i \in Invoices : since'.applied[i] = 0
    BY <1>0, <2>1 DEF Decided
  <2>4. /\ invoice' \in [Invoices -> {"none", "PENDING", "PAID"}] /\ tier' \in Tiers
        /\ expires' \in {"never", "running", "past"} /\ Paid \subseteq Paid'
        /\ latest' \in {NoInvoice} \cup Paid' /\ downgraded' \subseteq Paid'
        /\ branch' \in [Branches -> {"none", "active", "inactive"}]
    BY <1>1, <2>1
  <2>5. req' \in [Requests -> Asked]
    BY <1>2, <2>1
  <2>6. ASSUME NEW q \in Requests
        PROVE  /\ req'[q].step = req[q].step /\ req'[q].invoice = req[q].invoice
               /\ req'[q].plan = req[q].plan
               /\ req[q].stale \/ req[q].step \in Reconciling => req'[q].stale
    BY <1>2, <2>1
  <2>7. down' \in Down' /\ down'.shut \subseteq Existing /\ Existing' = Existing /\ UNCHANGED <<full, exempt>>
    BY <2>1
  <2> QED BY <2>2, <2>3, <2>4, <2>5, <2>6, <2>7, DecisionIInv
<1>7. CASE ResetFree
  <2>1. /\ tier' = "FREE" /\ expires' = "never" /\ Decided("other") /\ req' = Overtaken(Reconciling)
        /\ UNCHANGED <<invoice, latest, downgraded, branch, best, full, exempt>> /\ Existing' = Existing
        /\ Paid' = Paid /\ down' \in Down' /\ down'.shut \subseteq Existing
    BY <1>1, <1>7 DEF ResetFree, bills, Existing, Paid, Down
  <2>2. Rank[best] <= Rank[best'] /\ Rank[tier'] <= Rank[best']
    BY <1>1, <2>1, Ranks
  <2> QED BY <1>0, <1>1, <1>2, <2>1, <2>2, DecisionIInv DEF Decided
<1> QED BY <1>3, <1>4, <1>5, <1>6, <1>7

-----------------------------------------------------------------------------
(* A reconciliation writes: the others that have read are overtaken.       *)
LEMMA ApplyIInv ==
  ASSUME IInv, NEW r \in Requests, Apply(r)
  PROVE  IInv'
<1> DEFINE i == req[r].invoice
<1>1. PICK o : o = Overtaken(Reconciling)
  OBVIOUS
<1>2. /\ o \in [Requests -> Asked]
      /\ \A q \in Requests :
           /\ o[q].step = req[q].step /\ o[q].invoice = req[q].invoice /\ o[q].plan = req[q].plan
           /\ o[q].stale <=> req[q].stale \/ req[q].step \in Reconciling
  BY <1>1, OvertakenType DEF IInv, TypeOK, Asked
<1>3. /\ req[r].step = "apply" /\ tier' = InvoiceTier[i] /\ expires' = "running"
      /\ req' = [o EXCEPT ![r] = [Idle EXCEPT !.step = "limit"]]
      /\ since' = IF req[r].stale THEN [since EXCEPT !.loose = TRUE]
                  ELSE [since EXCEPT !.applied[i] = IF since.applied[i] < 2 THEN since.applied[i] + 1 ELSE since.applied[i]]
      /\ best' = Higher(best, InvoiceTier[i])
      /\ UNCHANGED <<invoice, latest, downgraded, branch, down, full, exempt>>
  BY <1>1 DEF Apply, At, bills
<1>4. /\ i \in Invoices /\ invoice[i] = "PAID" /\ (~req[r].stale => Needs(i))
      /\ since.by = "downgrade" => req[r].stale
  BY <1>3 DEF IInv, AllSound, Sound, Reconciling
<1>5. /\ tier \in Tiers /\ best \in Tiers /\ tier' \in Tiers /\ best' \in Tiers
      /\ Rank[best] <= Rank[best'] /\ Rank[tier'] <= Rank[best'] /\ since \in Since
  BY <1>3, <1>4, HigherIsHigher, TierAssumption DEF IInv, TypeOK, Since
<1>6. /\ since' \in Since /\ since'.by = since.by
      /\ req[r].stale => since'.loose
      /\ ~req[r].stale => /\ ~since'.loose => ~since.loose
                          /\ \A j \in Invoices : j # i => since'.applied[j] = since.applied[j]
                          /\ since.applied[i] = 0 => since'.applied[i] = 1
  <2>1. CASE req[r].stale
    BY <1>3, <1>5, <2>1 DEF Since
  <2>2. CASE ~req[r].stale
    <3> DEFINE f == [since.applied EXCEPT ![i] = IF since.applied[i] < 2 THEN since.applied[i] + 1 ELSE since.applied[i]]
    <3>1. since' = [since EXCEPT !.applied = f]
      BY <1>3, <2>2
    <3>2. /\ f \in [Invoices -> 0..2] /\ \A j \in Invoices : j # i => f[j] = since.applied[j]
          /\ since.applied[i] = 0 => f[i] = 1
      BY <1>4, <1>5 DEF Since
    <3> HIDE DEF f
    <3> QED BY <1>5, <2>2, <3>1, <3>2 DEF Since
  <2> QED BY <2>1, <2>2
<1>7. /\ req' \in [Requests -> Asked] /\ req'[r] = [Idle EXCEPT !.step = "limit"]
      /\ \A q \in Requests : q # r => req'[q] = o[q]
  BY <1>2, <1>3 DEF Asked, Steps, Idle
<1>8. TypeOK' /\ ShutExist'
  <2>1. Paid' = Paid /\ Existing' = Existing
    BY <1>3 DEF Paid, Existing
  <2> QED BY <1>3, <1>5, <1>6, <1>7, <2>1 DEF IInv, TypeOK, Since, Asked, ShutExist
<1>9. ASSUME NEW q \in Requests PROVE Sound(req[q])'
  <2>1. CASE q = r
    BY <1>7, <2>1 DEF Sound, Idle, Reconciling
  <2>2. CASE q # r
    <3>1. Sound(req[q]) /\ req'[q] = o[q]
      BY <1>7, <2>2 DEF IInv, AllSound
    <3>2. Measured' = Measured
      BY <1>3 DEF Existing, Measured
    <3>3. /\ req'[q].step = "create" /\ req'[q].plan # "none" /\ ~req'[q].stale /\ ~full
          => Fits(Cardinality(Measured) + 2, best')
      <4> SUFFICES ASSUME req'[q].step = "create", req'[q].plan # "none", ~req'[q].stale, ~full
                   PROVE  Fits(Cardinality(Measured) + 2, best')
        OBVIOUS
      <4>1. Fits(Cardinality(Measured) + 2, best)
        BY <1>2, <3>1 DEF Sound
      <4> QED BY <1>5, <4>1, FitsMore, Counts
    <3>4. req'[q].step = "count" => req'[q].plan \in Tiers /\ Rank[req'[q].plan] <= Rank[best']
      BY <1>2, <1>5, <3>1, Ranks DEF Sound
    <3> QED BY <1>2, <1>3, <1>6, <3>1, <3>2, <3>3, <3>4 DEF Sound, Reconciling
  <2> QED BY <2>1, <2>2
<1>10. Rises' /\ InvoiceAppliedOnce'
  <2>1. CASE req[r].stale
    BY <1>3, <1>5, <1>6, <2>1 DEF IInv, Rises, InvoiceAppliedOnce
  <2>2. CASE ~req[r].stale
    <3>1. Rank[tier] < Rank[InvoiceTier[i]] /\ Rank[tier] \in Int /\ Rank[InvoiceTier[i]] \in Int
      BY <1>3, <1>4, <1>5, <2>2, Ranks DEF Needs
    <3>2. ~since.loose => since.applied[i] = 0
      BY <1>4, <1>5, <3>1 DEF IInv, Rises, Since
    <3>3. ASSUME ~since'.loose, NEW j \in Invoices
          PROVE  since'.applied[j] <= 1 /\ (since'.applied[j] > 0 => Rank[InvoiceTier[j]] <= Rank[tier'])
      <4>1. CASE j = i
        BY <1>3, <1>6, <2>2, <3>1, <3>2, <3>3, <4>1
      <4>2. CASE j # i
        <5>1. since'.applied[j] = since.applied[j]
          BY <1>6, <2>2, <4>2
        <5>3. ~since.loose
          BY <1>6, <2>2, <3>3
        <5>2. Rank[InvoiceTier[j]] \in Int
          BY Ranks, TierAssumption
        <5> QED BY <1>3, <3>1, <5>1, <5>2, <5>3 DEF IInv, Rises, Safe, InvoiceAppliedOnce
      <4> QED BY <4>1, <4>2
    <3>4. since'.by # "downgrade"
      BY <1>4, <1>6, <2>2
    <3> QED BY <1>5, <3>3, <3>4 DEF Rises, InvoiceAppliedOnce
  <2> QED BY <2>1, <2>2
<1>11. DowngradeStands'
  BY <1>4, <1>6 DEF DowngradeStands
<1>12. OutletsWithinPlan'
  <2>1. Measured' = Measured
    BY <1>3 DEF Existing, Measured
  <2> SUFFICES ASSUME ~full' PROVE Fits(Cardinality(Measured') + 1, best')
    BY DEF OutletsWithinPlan, Measured
  <2>2. Fits(Cardinality(Measured) + 1, best)
    BY <1>3 DEF IInv, Safe, OutletsWithinPlan, Measured
  <2> QED BY <1>5, <2>1, <2>2, FitsMore, Counts
<1> QED BY <1>8, <1>9, <1>10, <1>11, <1>12 DEF IInv, AllSound, Safe

-----------------------------------------------------------------------------
(* A creation overtakes the others that have found room; a platform        *)
(* admin's is not measured.                                                *)
LEMMA CreateBranchIInv ==
  ASSUME IInv, NEW r \in Requests, NEW b \in Branches, CreateBranch(r, b)
  PROVE  IInv'
<1> DEFINE admin == req[r].plan = "none"
           S     == IF admin THEN {} ELSE {"create"}
<1>1. PICK o : o = Overtaken(S)
  OBVIOUS
<1>2. /\ o \in [Requests -> Asked]
      /\ \A q \in Requests :
           /\ o[q].step = req[q].step /\ o[q].invoice = req[q].invoice /\ o[q].plan = req[q].plan
           /\ o[q].stale <=> req[q].stale \/ req[q].step \in S
  <2> HIDE DEF S
  <2> QED BY <1>1, OvertakenType DEF IInv, TypeOK, Asked
<1>3. /\ req[r].step = "create" /\ branch[b] = "none"
      /\ branch' = [branch EXCEPT ![b] = "active"] /\ req' = [o EXCEPT ![r] = Idle]
      /\ since' = IF req[r].plan # tier THEN Reopened(b) ELSE since
      /\ full' = (full \/ (~admin /\ req[r].stale))
      /\ exempt' = IF admin THEN exempt \cup {b} ELSE exempt
      /\ down' = IF Shuts THEN [down EXCEPT !.late = down.late \cup {b}] ELSE down
      /\ UNCHANGED <<tier, expires, invoice, latest, downgraded, best>>
  BY <1>1 DEF CreateBranch, At, tenant, bills
<1>4. /\ req' \in [Requests -> Asked] /\ req'[r] = Idle
      /\ \A q \in Requests : q # r => req'[q] = o[q]
  BY <1>2, <1>3, IdleIsSound
<1>5. since' \in Since /\ since'.by = since.by /\ since'.applied = since.applied
      /\ (since'.loose <=> since.loose)
  BY <1>3 DEF Reopened, Since, IInv, TypeOK
<1>6. Paid' = Paid /\ Existing' = Existing \cup {b} /\ b \notin Existing
  BY <1>3 DEF Paid, Existing, IInv, TypeOK
<1>7. down' \in Down /\ down'.shut = down.shut
  BY <1>3 DEF IInv, TypeOK, Down
<1>8. TypeOK' /\ ShutExist'
  BY <1>3, <1>4, <1>5, <1>6, <1>7 DEF IInv, TypeOK, Since, Asked, Down, ShutExist
<1>9. /\ Cardinality(Measured') \in Nat
      /\ admin => Cardinality(Measured') <= Cardinality(Measured)
      /\ ~admin => Cardinality(Measured') <= Cardinality(Measured) + 1
  <2>1. CASE admin
    <3>1. Measured' \subseteq Measured
      BY <1>3, <1>6, <2>1 DEF Measured
    <3> QED BY <2>1, <3>1, Counts, FS_Subset, FS_CardinalityType
  <2>2. CASE ~admin
    <3>1. Measured' \subseteq Measured \cup {b}
      BY <1>3, <1>6, <2>2 DEF Measured
    <3>2. /\ IsFiniteSet(Measured \cup {b})
          /\ Cardinality(Measured \cup {b}) \in {Cardinality(Measured), Cardinality(Measured) + 1}
      BY Counts, FS_AddElement
    <3>3. /\ IsFiniteSet(Measured') /\ Cardinality(Measured') <= Cardinality(Measured \cup {b})
          /\ Cardinality(Measured') \in Nat
      BY <3>1, <3>2, FS_Subset, FS_CardinalityType
    <3> QED BY <2>2, <3>2, <3>3, Counts
  <2> QED BY <2>1, <2>2
<1>10. best \in Tiers /\ Rank[best] <= Rank[best]
  BY Ranks DEF IInv, TypeOK
<1>11. ASSUME NEW q \in Requests PROVE Sound(req[q])'
  <2>1. CASE q = r
    BY <1>4, <2>1 DEF Sound, Idle, Reconciling
  <2>2. CASE q # r
    <3>1. Sound(req[q]) /\ req'[q] = o[q]
      BY <1>4, <2>2 DEF IInv, AllSound
    <3>2. /\ o[q].step = "create" /\ o[q].plan # "none" /\ ~o[q].stale /\ ~full'
          => Fits(Cardinality(Measured') + 2, best)
      <4> SUFFICES ASSUME o[q].step = "create", o[q].plan # "none", ~o[q].stale, ~full'
                   PROVE  Fits(Cardinality(Measured') + 2, best)
        OBVIOUS
      <4>1. admin /\ ~full /\ ~req[q].stale /\ req[q].plan # "none"
        BY <1>2, <1>3
      <4>2. Fits(Cardinality(Measured) + 2, best)
        BY <1>2, <3>1, <4>1 DEF Sound
      <4> QED BY <1>9, <1>10, <4>1, <4>2, FitsMore, Counts
    <3> QED BY <1>2, <1>3, <1>5, <3>1, <3>2 DEF Sound, Reconciling, Needs
  <2> QED BY <2>1, <2>2
<1>12. Rises' /\ DowngradeStands' /\ InvoiceAppliedOnce'
  BY <1>3, <1>5 DEF IInv, Rises, Safe, DowngradeStands, InvoiceAppliedOnce
<1>13. OutletsWithinPlan'
  <2> SUFFICES ASSUME ~full' PROVE Fits(Cardinality(Measured') + 1, best)
    BY <1>3 DEF OutletsWithinPlan, Measured
  <2>1. CASE admin
    <3>1. Fits(Cardinality(Measured) + 1, best)
      BY <1>3 DEF IInv, Safe, OutletsWithinPlan, Measured
    <3> QED BY <1>9, <1>10, <2>1, <3>1, FitsMore, Counts
  <2>2. CASE ~admin
    <3>1. Fits(Cardinality(Measured) + 2, best)
      BY <1>3, <2>2 DEF IInv, AllSound, Sound
    <3> QED BY <1>9, <1>10, <2>2, <3>1, FitsMore, Counts
  <2> QED BY <2>1, <2>2
<1> QED BY <1>8, <1>11, <1>12, <1>13 DEF IInv, AllSound, Safe

(* Branches are changed or deleted, never added.                           *)
LEMMA SetBranchIInv ==
  ASSUME IInv, NEW b \in Branches, NEW value \in {"none", "active", "inactive"}, SetBranch(b, value)
  PROVE  IInv'
<1>1. /\ branch[b] # "none" /\ branch' = [branch EXCEPT ![b] = value] /\ b \notin down.shut
      /\ since' = IF value = "active" THEN Reopened(b) ELSE [since EXCEPT !.reopened = since.reopened \ {b}]
      /\ exempt' = IF value = "none" THEN exempt \ {b} ELSE exempt
      /\ UNCHANGED <<tier, expires, invoice, latest, downgraded, req, down, best, full>>
  BY DEF SetBranch, tenant, bills
<1>2. since' \in Since /\ since'.by = since.by /\ since'.applied = since.applied
      /\ (since'.loose <=> since.loose)
  BY <1>1 DEF Reopened, Since, IInv, TypeOK
<1>3. /\ Paid' = Paid /\ Existing' \subseteq Existing /\ Existing \ Existing' \subseteq {b}
      /\ value = "none" => b \notin Existing'
  BY <1>1 DEF Paid, Existing, IInv, TypeOK
<1>4. TypeOK' /\ ShutExist'
  BY <1>1, <1>2, <1>3 DEF IInv, TypeOK, Since, ShutExist
<1>5. /\ Cardinality(Measured') \in Nat /\ Cardinality(Measured') <= Cardinality(Measured)
      /\ Cardinality(Measured) \in Nat
  <2>1. Measured' \subseteq Measured
    BY <1>1, <1>3 DEF Measured
  <2> QED BY <2>1, Counts, FS_Subset, FS_CardinalityType
<1>6. best \in Tiers /\ Rank[best] <= Rank[best]
  BY Ranks DEF IInv, TypeOK
<1>7. ASSUME NEW q \in Requests PROVE Sound(req[q])'
  <2>1. Sound(req[q])
    BY DEF IInv, AllSound
  <2>2. Fits(Cardinality(Measured) + 2, best) => Fits(Cardinality(Measured') + 2, best)
    BY <1>5, <1>6, FitsMore
  <2> QED BY <1>1, <1>2, <2>1, <2>2 DEF Sound, Needs
<1>8. Rises' /\ DowngradeStands' /\ InvoiceAppliedOnce'
  BY <1>1, <1>2 DEF IInv, Rises, Safe, DowngradeStands, InvoiceAppliedOnce
<1>9. OutletsWithinPlan'
  <2>1. ~full /\ Fits(Cardinality(Measured) + 1, best) => Fits(Cardinality(Measured') + 1, best)
    BY <1>5, <1>6, FitsMore
  <2> QED BY <1>1, <2>1 DEF IInv, Safe, OutletsWithinPlan, Measured
<1> QED BY <1>4, <1>7, <1>8, <1>9 DEF IInv, AllSound, Safe

(* Orders and time leave tier and branches alone.                          *)
LEMMA BillsIInv ==
  ASSUME IInv, Lapse \/ \E i \in Invoices : Upgrade(i)
  PROVE  IInv'
<1>1. /\ invoice' \in [Invoices -> {"none", "PENDING", "PAID"}]
      /\ \A i \in Invoices : invoice'[i] = "PAID" <=> invoice[i] = "PAID"
      /\ expires' \in {"never", "running", "past"}
      /\ UNCHANGED <<tier, latest, downgraded, branch, req, down, since, best, full, exempt>>
  BY DEF Lapse, Upgrade, IInv, TypeOK, tenant, bills, history
<1>2. Paid' = Paid /\ Existing' = Existing /\ Measured' = Measured
  BY <1>1 DEF Paid, Existing, Measured
<1>3. TypeOK' /\ ShutExist'
  BY <1>1, <1>2 DEF IInv, TypeOK, ShutExist
<1>4. AllSound'
  BY <1>1, <1>2 DEF IInv, AllSound, Sound, Needs
<1>5. Rises' /\ Safe'
  BY <1>1, <1>2 DEF IInv, Rises, Safe, DowngradeStands, InvoiceAppliedOnce, OutletsWithinPlan
<1> QED BY <1>3, <1>4, <1>5 DEF IInv

(* Every step keeps the invariant.                                         *)
LEMMA NextIInv == IInv /\ [Next]_vars => IInv'
<1> SUFFICES ASSUME IInv, [Next]_vars PROVE IInv'
  OBVIOUS
<1>1. CASE UNCHANGED vars
  BY <1>1 DEF vars, IInv, TypeOK, ShutExist, AllSound, Sound, Needs, Rises, Safe, Paid, Existing, Measured,
              DowngradeStands, InvoiceAppliedOnce, OutletsWithinPlan
<1>2. CASE Next
  BY <1>2, ReadsIInv, DecisionsIInv, ApplyIInv, CreateBranchIInv, SetBranchIInv, BillsIInv
     DEF Next, Reconcile, DowngradeToFree
<1> QED BY <1>1, <1>2

(* Plan, invoices, branches and requests keep their types; the invoice     *)
(* that was paid last is PAID.                                             *)
THEOREM SubscriptionTypeCorrect == Spec => []TypeOK
<1>1. IInv => TypeOK
  BY DEF IInv
<1> QED BY InitIInv, NextIInv, <1>1, PTL DEF Spec

(* downgradeToFree against reconcileTenantSubscription: the downgrade of   *)
(* the owner stands, unless a reconciliation was between its read and its  *)
(* write.                                                                  *)
THEOREM SubscriptionDowngradeStands == Spec => []DowngradeStands
<1>1. IInv => DowngradeStands
  BY DEF IInv, Safe
<1> QED BY InitIInv, NextIInv, <1>1, PTL DEF Spec

(* applyPaidSubscriptionInvoice: an invoice extends the subscription once  *)
(* between two decisions, unless reconciliations overlapped.               *)
THEOREM SubscriptionInvoiceAppliedOnce == Spec => []InvoiceAppliedOnce
<1>1. IInv => InvoiceAppliedOnce
  BY DEF IInv, Safe
<1> QED BY InitIInv, NextIInv, <1>1, PTL DEF Spec

(* checkOutletLimit: the outlets fit the best plan so far, for any limits  *)
(* that grow with the plan and however many a platform admin adds, unless  *)
(* two creations overlapped.                                               *)
THEOREM SubscriptionOutletsWithinPlan == Spec => []OutletsWithinPlan
<1>1. IInv => OutletsWithinPlan
  BY DEF IInv, Safe
<1> QED BY InitIInv, NextIInv, <1>1, PTL DEF Spec

-----------------------------------------------------------------------------
(* The plan a downgrade leaves has room for the main outlet only, so only  *)
(* creations that another plan had room for, or that asked for none, are   *)
(* still to come; and at most one downgrade is under way.                  *)
Holding == {"outlets", "record", "finish"}
Alone   == \A p, q \in Requests : req[p].step \in Holding /\ req[q].step \in Holding => p = q
AllShut == Shuts => Existing \subseteq down.shut \cup down.late
HadRoom == \A r \in Requests : req[r].step = "create" => req[r].plan # "FREE"

Shut == Alone /\ AllShut /\ HadRoom /\ DowngradeShutsBranches

(* What no step but a downgrade's own disturbs: the others' requests.      *)
LEMMA StepsShut ==
  ASSUME FreeOutlets = 1, IInv, Shut, NEW r \in Requests,
         \/ AskBranch(r) \/ AskAsAdmin(r) \/ Look(r) \/ ReadHistory(r) \/ CheckLimit(r)
         \/ AskDowngrade(r) \/ DropTier(r) \/ ShutBranches(r) \/ Record(r) \/ AskScript(r) \/ Abort(r)
  PROVE  Shut'
<1> USE DEF Asked
<1>1. req \in [Requests -> Asked]
  BY DEF IInv, TypeOK
<1>2. UNCHANGED <<tier, branch, since>>
  BY DEF AskBranch, AskAsAdmin, Look, ReadHistory, CheckLimit, ReadTier, CountOutlets, AskDowngrade, DropTier,
         ShutBranches, Record, AskScript, Abort, tenant, history
<1>3. \A q \in Requests \ {r} : req'[q] = req[q]
  BY <1>1 DEF AskBranch, AskAsAdmin, Look, ReadHistory, CheckLimit, ReadTier, CountOutlets, AskDowngrade, DropTier,
              ShutBranches, Record, AskScript, Abort, Begin, Goto, GotoWith
<1>4. DowngradeShutsBranches' /\ Existing' = Existing
  BY <1>2 DEF Shut, DowngradeShutsBranches, Open, Existing
<1>5. CASE \/ AskBranch(r) \/ AskAsAdmin(r) \/ Look(r) \/ ReadHistory(r) \/ CheckLimit(r)
           \/ AskDowngrade(r) \/ AskScript(r)
  <2>1. down' = down /\ req[r].step \notin Holding
    <3>1. CASE AskBranch(r) \/ AskAsAdmin(r) \/ AskDowngrade(r) \/ AskScript(r)
      <4>1. req[r] = Idle /\ down' = down
        BY <3>1 DEF AskBranch, AskAsAdmin, AskDowngrade, AskScript, Begin
      <4> QED BY <4>1 DEF Idle, Holding
    <3>2. CASE Look(r) \/ ReadHistory(r) \/ CheckLimit(r)
      BY <3>2 DEF Look, ReadHistory, CheckLimit, ReadTier, CountOutlets, At, Holding
    <3> QED BY <1>5, <3>1, <3>2
  <2>2. /\ req'[r].step \in {"idle", "look", "history", "apply", "limit", "count", "create", "down", "set"}
        /\ req'[r].step = "create" => req'[r].plan # "FREE"
    <3>1. CASE AskBranch(r) \/ AskAsAdmin(r) \/ AskDowngrade(r)
      BY <1>1, <1>5, <3>1 DEF AskBranch, AskAsAdmin, AskDowngrade, Begin, Idle
    <3>2. CASE AskScript(r)
      BY <1>1, <1>5, <3>2 DEF AskScript, Begin, Idle
    <3>3. CASE Look(r)
      BY <1>1, <3>3 DEF Look, GotoWith, Idle
    <3>4. CASE ReadHistory(r)
      BY <1>1, <3>4 DEF ReadHistory, Goto, GotoWith, Idle
    <3>5. CASE ReadTier(r)
      BY <1>1, <3>5 DEF ReadTier
    <3>6. CASE CountOutlets(r)
      <4>1. CASE Room(req[r].plan)
        <5>1. req[r].plan # "FREE"
          BY <4>1, Counts DEF Room, Fits
        <5> QED BY <1>1, <3>6, <4>1, <5>1 DEF CountOutlets, Goto
      <4>2. CASE ~Room(req[r].plan)
        BY <1>1, <3>6, <4>2 DEF CountOutlets, Idle
      <4> QED BY <4>1, <4>2
    <3> QED BY <1>5, <3>1, <3>2, <3>3, <3>4, <3>5, <3>6 DEF CheckLimit
  <2>3. Alone' /\ HadRoom'
    BY <1>3, <2>1, <2>2 DEF Shut, Alone, HadRoom, Holding
  <2>4. Shuts' => Shuts
    BY <1>3, <2>2 DEF Shuts
  <2> QED BY <1>4, <2>1, <2>3, <2>4 DEF Shut, AllShut
<1>6. CASE DropTier(r)
  <2>1. /\ req'[r].step = "outlets" /\ down' = down
        /\ \A q \in Requests : req[q].step \notin Holding
    BY <1>1, <1>6 DEF DropTier, Goto, Locked, Holding
  <2>2. Alone' /\ HadRoom'
    BY <1>3, <2>1 DEF Shut, Alone, HadRoom, Holding
  <2>3. ~Shuts'
    BY <1>3, <2>1 DEF Shuts, Holding
  <2> QED BY <1>4, <2>2, <2>3 DEF Shut, AllShut
<1>7. CASE ShutBranches(r)
  <2>1. req[r].step = "outlets" /\ req'[r].step = "record" /\ down'.shut = Existing
    BY <1>1, <1>7 DEF ShutBranches, At, Goto, IInv, TypeOK
  <2>2. Alone' /\ HadRoom'
    BY <1>3, <2>1 DEF Shut, Alone, HadRoom, Holding
  <2> QED BY <1>4, <2>1, <2>2 DEF Shut, AllShut
<1>8. CASE Record(r)
  <2>1. /\ req[r].step = "record" /\ req'[r].step = "finish"
        /\ down'.shut = down.shut /\ down'.late = down.late
    BY <1>1, <1>8 DEF Record, At, Goto, IInv, TypeOK
  <2>2. Alone' /\ HadRoom'
    BY <1>3, <2>1 DEF Shut, Alone, HadRoom, Holding
  <2>3. Shuts
    BY <2>1 DEF Shuts
  <2> QED BY <1>4, <2>1, <2>2, <2>3 DEF Shut, AllShut
<1>9. CASE Abort(r)
  <2>1. req'[r].step = "idle"
    BY <1>1, <1>9 DEF Abort, Idle
  <2>2. Alone' /\ HadRoom'
    BY <1>3, <2>1 DEF Shut, Alone, HadRoom, Holding
  <2>3. CASE req[r].step \in Holding
    <3>1. ~Shuts'
      BY <1>3, <2>1, <2>3 DEF Shut, Alone, Shuts, Holding
    <3> QED BY <1>4, <2>2, <3>1 DEF Shut, AllShut
  <2>4. CASE req[r].step \notin Holding
    <3>1. down' = down /\ (Shuts' => Shuts)
      BY <1>3, <1>9, <2>1, <2>4 DEF Abort, Shuts, Holding
    <3> QED BY <1>4, <2>2, <3>1 DEF Shut, AllShut
  <2> QED BY <2>3, <2>4
<1> QED BY <1>5, <1>6, <1>7, <1>8, <1>9

(* What people decide, and what a reconciliation writes, leaves branches   *)
(* and the downgrade under way alone.                                      *)
LEMMA TierShut ==
  ASSUME IInv, Shut,
         \/ \E r \in Requests : Apply(r) \/ SetGrowth(r) \/ Pay(r)
         \/ \E t \in Tiers, e \in {"never", "running", "past"} : Override(t, e)
         \/ ResetFree \/ Lapse \/ \E i \in Invoices : Upgrade(i)
  PROVE  Shut'
<1> USE DEF Asked
<1>1. req \in [Requests -> Asked] /\ since \in Since
  BY DEF IInv, TypeOK, Since
<1>2. PICK o : o = Overtaken(Reconciling)
  OBVIOUS
<1>3. /\ o \in [Requests -> Asked]
      /\ \A q \in Requests : o[q].step = req[q].step /\ o[q].plan = req[q].plan
  BY <1>1, <1>2, OvertakenType
<1>4. branch' = branch /\ down' = down
  BY DEF Apply, SetGrowth, Pay, Override, ResetFree, Lapse, Upgrade
<1>5. ASSUME NEW q \in Requests
      PROVE  \/ req'[q].step = req[q].step /\ req'[q].plan = req[q].plan
             \/ req'[q].step \in {"idle", "limit", "pay"}
  <2>1. CASE \E t \in Tiers, e \in {"never", "running", "past"} : Override(t, e)
    BY <1>2, <1>3, <2>1 DEF Override
  <2>2. CASE ResetFree
    BY <1>2, <1>3, <2>2 DEF ResetFree
  <2>3. CASE Lapse \/ \E i \in Invoices : Upgrade(i)
    BY <2>3 DEF Lapse, Upgrade
  <2>4. ASSUME NEW r \in Requests, Apply(r) PROVE \/ req'[q].step = req[q].step /\ req'[q].plan = req[q].plan
                                                  \/ req'[q].step \in {"idle", "limit", "pay"}
    BY <1>2, <1>3, <2>4 DEF Apply, Idle
  <2>5. ASSUME NEW r \in Requests, Pay(r) PROVE \/ req'[q].step = req[q].step /\ req'[q].plan = req[q].plan
                                                \/ req'[q].step \in {"idle", "limit", "pay"}
    BY <1>2, <1>3, <2>5 DEF Pay, Idle
  <2>6. ASSUME NEW r \in Requests, SetGrowth(r)
        PROVE  \/ req'[q].step = req[q].step /\ req'[q].plan = req[q].plan
               \/ req'[q].step \in {"idle", "limit", "pay"}
    <3>1. req' = [o EXCEPT ![r] = IF o[r].invoice = NoInvoice THEN Idle ELSE [o[r] EXCEPT !.step = "pay"]]
      BY <1>2, <2>6 DEF SetGrowth
    <3>2. Idle.step = "idle" /\ [o[r] EXCEPT !.step = "pay"].step = "pay"
      BY <1>3 DEF Idle
    <3> QED BY <1>3, <3>1, <3>2
  <2> QED BY <2>1, <2>2, <2>3, <2>4, <2>5, <2>6
<1>6. Alone' /\ HadRoom'
  BY <1>5 DEF Shut, Alone, HadRoom, Holding
<1>7. AllShut'
  <2>1. Shuts' => Shuts
    BY <1>5 DEF Shuts
  <2>2. Existing' = Existing
    BY <1>4 DEF Existing
  <2> QED BY <1>4, <2>1, <2>2 DEF Shut, AllShut
<1>8. DowngradeShutsBranches'
  <2>1. ASSUME NEW r \in Requests, Apply(r) PROVE tier' # "FREE"
    <3>1. req[r].invoice \in Invoices /\ tier' = InvoiceTier[req[r].invoice]
      BY <2>1 DEF Apply, At, IInv, AllSound, Sound, Reconciling
    <3> QED BY <3>1, TierAssumption
  <2>2. CASE \/ \E r \in Requests : SetGrowth(r) \/ Pay(r)
             \/ \E t \in Tiers, e \in {"never", "running", "past"} : Override(t, e)
             \/ ResetFree
    <3>1. Decided("other")
      BY <2>2 DEF SetGrowth, Pay, Override, ResetFree
    <3> QED BY <3>1 DEF Decided, Nothing, DowngradeShutsBranches
  <2>3. CASE Lapse \/ \E i \in Invoices : Upgrade(i)
    BY <1>4, <2>3 DEF Lapse, Upgrade, tenant, history, Shut, DowngradeShutsBranches, Open
  <2> QED BY <2>1, <2>2, <2>3 DEF DowngradeShutsBranches
<1> QED BY <1>6, <1>7, <1>8 DEF Shut

(* A creation, wherever it finds room, is among the branches left out.     *)
LEMMA CreateShut ==
  ASSUME IInv, Shut, NEW r \in Requests, NEW b \in Branches, CreateBranch(r, b)
  PROVE  Shut'
<1> USE DEF Asked
<1>1. /\ req \in [Requests -> Asked] /\ since \in Since /\ down \in Down
      /\ branch \in [Branches -> {"none", "active", "inactive"}]
  BY DEF IInv, TypeOK, Since, Down
<1>2. PICK S, o : o = Overtaken(S) /\ req' = [o EXCEPT ![r] = Idle]
  BY DEF CreateBranch
<1>3. o \in [Requests -> Asked] /\ \A q \in Requests : o[q].step = req[q].step /\ o[q].plan = req[q].plan
  BY <1>1, <1>2, OvertakenType
<1>4. /\ UNCHANGED tier /\ req[r].step = "create" /\ branch' = [branch EXCEPT ![b] = "active"]
      /\ since' = IF req[r].plan # tier THEN Reopened(b) ELSE since
      /\ down' = IF Shuts THEN [down EXCEPT !.late = down.late \cup {b}] ELSE down
  BY DEF CreateBranch, At, tenant
<1>5. \A q \in Requests : \/ req'[q].step = req[q].step /\ req'[q].plan = req[q].plan
                          \/ req'[q].step = "idle"
  BY <1>2, <1>3 DEF Idle
<1>6. Alone' /\ HadRoom' /\ (Shuts' => Shuts)
  BY <1>5 DEF Shut, Alone, HadRoom, Holding, Shuts
<1>7. AllShut'
  <2> SUFFICES ASSUME Shuts' PROVE Existing' \subseteq down'.shut \cup down'.late
    BY DEF AllShut
  <2>1. down'.shut = down.shut /\ down'.late = down.late \cup {b}
    BY <1>1, <1>4, <1>6 DEF Down
  <2>2. Existing' \subseteq Existing \cup {b}
    BY <1>1, <1>4 DEF Existing
  <2> QED BY <1>6, <2>1, <2>2 DEF Shut, AllShut
<1>8. DowngradeShutsBranches'
  <2> SUFFICES ASSUME since'.by = "downgrade", tier' = "FREE" PROVE Open' \subseteq since'.reopened
    BY DEF DowngradeShutsBranches
  <2>1. since.by = "downgrade"
    BY <1>1, <1>4 DEF Reopened, Since
  <2>2. req[r].plan # tier
    BY <1>4 DEF Shut, HadRoom
  <2>3. since'.reopened = since.reopened \cup {b}
    BY <1>1, <1>4, <2>1, <2>2 DEF Reopened, Since
  <2>4. Open' \subseteq Open \cup {b}
    BY <1>1, <1>4 DEF Open
  <2> QED BY <1>4, <2>1, <2>3, <2>4 DEF Shut, DowngradeShutsBranches
<1> QED BY <1>6, <1>7, <1>8 DEF Shut

(* Branches are reactivated one by one, and known.                         *)
LEMMA SetBranchShut ==
  ASSUME IInv, Shut, NEW b \in Branches, NEW value \in {"none", "active", "inactive"}, SetBranch(b, value)
  PROVE  Shut'
<1>1. since \in Since /\ branch \in [Branches -> {"none", "active", "inactive"}]
  BY DEF IInv, TypeOK, Since
<1>2. /\ UNCHANGED <<tier, req, down>> /\ branch' = [branch EXCEPT ![b] = value] /\ branch[b] # "none"
      /\ since' = IF value = "active" THEN Reopened(b) ELSE [since EXCEPT !.reopened = since.reopened \ {b}]
  BY DEF SetBranch, tenant
<1>3. Alone' /\ HadRoom' /\ AllShut'
  <2>1. Existing' \subseteq Existing
    BY <1>1, <1>2 DEF Existing
  <2> QED BY <1>2, <2>1 DEF Shut, Alone, HadRoom, AllShut, Shuts
<1>4. DowngradeShutsBranches'
  <2> SUFFICES ASSUME since'.by = "downgrade", tier' = "FREE" PROVE Open' \subseteq since'.reopened
    BY DEF DowngradeShutsBranches
  <2>1. since.by = "downgrade"
    BY <1>1, <1>2 DEF Reopened, Since
  <2>2. CASE value = "active"
    <3>1. since'.reopened = since.reopened \cup {b} /\ Open' \subseteq Open \cup {b}
      BY <1>1, <1>2, <2>1, <2>2 DEF Reopened, Since, Open
    <3> QED BY <1>2, <2>1, <3>1 DEF Shut, DowngradeShutsBranches
  <2>3. CASE value # "active"
    <3>1. since'.reopened = since.reopened \ {b} /\ Open' \subseteq Open \ {b}
      BY <1>1, <1>2, <2>3 DEF Since, Open
    <3> QED BY <1>2, <2>1, <3>1 DEF Shut, DowngradeShutsBranches
  <2> QED BY <2>2, <2>3
<1> QED BY <1>3, <1>4 DEF Shut

(* A downgrade that commits has shut all but the branches created since.   *)
LEMMA DowngradeShut ==
  ASSUME IInv, Shut, NEW r \in Requests, Downgrade(r)
  PROVE  Shut'
<1> USE DEF Asked
<1>1. req \in [Requests -> Asked] /\ branch \in [Branches -> {"none", "active", "inactive"}]
  BY DEF IInv, TypeOK
<1>2. PICK o : o = Overtaken(Reconciling)
  OBVIOUS
<1>3. o \in [Requests -> Asked] /\ \A q \in Requests : o[q].step = req[q].step /\ o[q].plan = req[q].plan
  BY <1>1, <1>2, OvertakenType
<1>4. /\ req[r].step \in Holding /\ req' = [o EXCEPT ![r] = Idle]
      /\ branch' = [b \in Branches |-> IF b \in down.shut THEN "inactive" ELSE branch[b]]
  BY <1>2 DEF Downgrade, Holding
<1>5. req'[r].step = "idle" /\ \A q \in Requests \ {r} : req'[q].step = req[q].step /\ req'[q].plan = req[q].plan
  BY <1>3, <1>4 DEF Idle
<1>6. Alone' /\ HadRoom' /\ ~Shuts'
  BY <1>4, <1>5 DEF Shut, Alone, HadRoom, Shuts, Holding
<1>7. DowngradeShutsBranches'
  <2>1. CASE At(r, "finish") /\ Paid \subseteq down.noted
    <3>1. since'.reopened = Open \cap down.late
      BY <2>1 DEF Downgrade, Nothing
    <3>2. Existing \subseteq down.shut \cup down.late
      BY <2>1 DEF Shut, AllShut, Shuts, At
    <3>3. Open' \subseteq Open \ down.shut /\ Open \subseteq Existing
      BY <1>1, <1>4 DEF Open, Existing
    <3>4. Open' \subseteq since'.reopened
      BY <3>1, <3>2, <3>3
    <3> QED BY <3>4 DEF DowngradeShutsBranches
  <2>2. CASE ~(At(r, "finish") /\ Paid \subseteq down.noted)
    BY <2>2 DEF Downgrade, Nothing, DowngradeShutsBranches
  <2> QED BY <2>1, <2>2
<1> QED BY <1>6, <1>7 DEF Shut, AllShut

(* downgradeToFree, where FREE allows one outlet as TIER_LIMITS does: the  *)
(* branches that are active afterwards were reactivated, created by a      *)
(* platform admin, or created although the downgrade was under way.        *)
THEOREM SubscriptionDowngradeShuts ==
  ASSUME FreeOutlets = 1
  PROVE  Spec => []DowngradeShutsBranches
<1>1. Init => Shut
  BY DEF Init, Shut, Alone, AllShut, HadRoom, Shuts, Holding, Idle, DowngradeShutsBranches, Nothing
<1>2. IInv /\ Shut /\ [Next]_vars => Shut'
  <2> SUFFICES ASSUME IInv, Shut, [Next]_vars PROVE Shut'
    OBVIOUS
  <2>1. CASE UNCHANGED vars
    BY <2>1 DEF vars, Shut, Alone, AllShut, HadRoom, Shuts, Existing, Open, DowngradeShutsBranches
  <2>2. CASE Next
    BY <2>2, StepsShut, TierShut, CreateShut, SetBranchShut, DowngradeShut DEF Next, Reconcile, DowngradeToFree
  <2> QED BY <2>1, <2>2
<1>3. Shut => DowngradeShutsBranches
  BY DEF Shut
<1> QED BY InitIInv, NextIInv, <1>1, <1>2, <1>3, PTL DEF Spec
=============================================================================
