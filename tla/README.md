# Verification of the UMKM point of sale

TLA+ specifications of the parts of this repository whose correctness depends on
the order in which requests, polls, payments, pages and failures happen, with TLC
configurations that check them on small instances and TLAPS proofs of the main
results for every instance. The reference is always the code, not its
documentation; where the two disagree the disagreement is stated (see
*Findings* and *Divergences*).

## The system

`backend/` is an Express server over PostgreSQL (Prisma) and Redis; `frontend/`
is a React application that cashiers use at the till. A tenant has one MAIN
outlet and branches; each outlet has a row of `outlet_stocks` per product, and
every movement of stock is to be explained by rows of `stock_ledgers`.

### How requests reach the database

Everything below depends on this (`middlewares/tenantMiddleware.ts`,
`lib/prisma.ts`):

| What a handler writes | In a POST, PUT, PATCH or DELETE | In a GET |
| --- | --- | --- |
| `$executeRawWithTenant(cb)` | in the *pinned* transaction of the request (timeout 120 s). It commits when the response finishes **or the client's connection closes**, whatever the status code; it rolls back only when the handler throws past the controller, at the timeout, or when the process stops. | a transaction of its own |
| `prisma.model.operation` | commits at once, on a second connection | commits at once |
| `prisma.$transaction(cb)` | a READ COMMITTED transaction on a second connection | each operation of `cb` commits by itself |

Webhooks and queue workers have no tenant: tenant-scoped operations throw, and
so change nothing. The models assume the database role of the README's
`DATABASE_URL`, which owns the tables: row-level security does not filter its
statements.

READ COMMITTED is what makes most of the models worth having: a check and the
write it decides are separate statements nearly everywhere, few rows are locked
in between, and updates are by id. PostgreSQL evaluates a guarded update again
on the row it has locked, and ends a cycle of waits by rolling one back.

### Inventory

| Component | State | Operations | What makes it hard | What makes it correct |
| --- | --- | --- | --- | --- |
| POS checkout (`transactionCheckoutService`) | stock, transactions, ledger, points | admission by quota, stock check, guarded decrement, record, QRIS charge and its clean-up | checks without locks, a commit tied to the response, an external call in the middle | stock never negative; a sale has its rows; nothing is lost or invented |
| QRIS settlement (`transactionQrisSettlementService`, `transactionStatusService`) | transaction status, stock, ledger | poll: read, ask Midtrans, complete or void line by line | overlapping polls, a status read before an external call, statements that commit one by one | final statuses stay final; goods come back |
| Stock transfers (`transferService`) | transfer status, stock of two outlets, ledger | create, approve, complete, cancel | statuses read without a lock, lines locked in any order | goods are conserved between outlets |
| Purchase orders (`poService`) | PO status, stock, purchase price | create, receive, cancel | status read outside the transaction | received once; what is cancelled is not received |
| Sales returns (`salesReturnService`) | returns, stock, ledger | create | earlier returns read outside the transaction; a sale may still become void | never more back than sold |
| Stock requests and mutations (`stockLedgerService`) | request status, stock, ledger | apply, ask, approve, reject | status read without a lock | one decision, applied once |
| Cashier shifts (`shiftService`) | shifts, cash figures | open, close, sell in a shift | check-then-create; sum-then-close | one open shift a cashier; the closing figure matches the sales |
| Outlets (`outletService`) | active flags | create, deactivate, delete, reactivate | the check for open shifts precedes the write | no open shift at a closed branch |
| Subscription (`subscriptionService`, `...ActivationService`) | tier, expiry, invoices, active branches | upgrade, reconcile, downgrade, override, limits, operator script | tier read, decided on and written in separate transactions | people's decisions stand; an invoice counts once; the plan's limits |
| Staff and accounts (`staffService`, `domain/auth`) | accounts, roles, approval, verification links | register, mail, verify, approve, suspend, dismiss, change role | mail between two transactions, undone by deletion; writes by id | one role; verified accounts stay; a link that works |
| Catalog cache (`lib/cache`, `productService`) | Redis entries | get-or-set, invalidate | invalidation before, after, without, or despite the commit | outdated entries do not last |
| Request scope and pool (`tenantMiddleware`, `lib/prisma`) | 3 connections | look up, pin, borrow, release | a request needs a second connection while it holds one | no leak; requests end |
| Offline queue (`utils/offlineSync`) | localStorage queue | enqueue, synchronise | no idempotency key; read-modify-write over awaits | every sale is recorded, once |
| Pricing, customers, history, reports, platform | - | sums, single-row writes, queries | - | - |

Components interact through the database (the stock row, the transaction row and
the outlet row above all), the HTTP interface (the page polls, retries and
queues), Midtrans (called during the checkout and during polls), and Redis.
`PROJECT.json` lists every component with its modelling status, and every
hazard at the line where it bites.

## Modules

| Module | What it is |
| --- | --- |
| `SaleLifecycle` | What checkout, poll and Midtrans promise together about a transaction: recorded once, settled only after a payment, voided only after a failure, final afterwards. |
| `QrisCheckout` | The checkout request, the QRIS charge, the status poll and the page that polls, for one outlet. Implements `SaleLifecycle`. |
| `StockTransfers` | Transfers between outlets: four operations, line by line, in overlapping transactions. |
| `StockMoves` | How a document moves the stock of one outlet line by line: the base of the next three. |
| `PurchaseOrders`, `StockMutations`, `SalesReturns` | The documents: their statuses, and the requests that work on them. |
| `Inventory` | The three composed on one stock and one ledger. |
| `Shifts` | Shifts, the sales in them, and the branches they are held at. |
| `Subscription` | Tier, invoices, reconciliation, downgrade, and the branches a plan allows. |
| `Accounts` | Staff accounts: registration, mail, approval, roles, suspension. |
| `CatalogCache` | Cache-aside reads against every kind of writer. |
| `RequestPool` | The three connections and the requests that share them. |
| `OfflineQueue` | The pages of a browser and the queue in its local storage. |
| `MCQrisCheckout`, `MCStockTransfers`, `MCInventory`, `MCShifts`, `MCSubscription`, `MCAccounts`, `MCRequestPool` | Instances for TLC. (`CatalogCache` and `OfflineQueue` need only a `.cfg`.) |
| `QrisCheckoutProofs`, `StockTransfersProofs`, `InventoryProofs`, `ShiftsProofs`, `SubscriptionProofs`, `AccountsProofs` | Inductive invariants and theorems about the modules they are named after (`InventoryProofs` also about those `Inventory` composes), checked with TLAPS. |
| `SharedProofs` | The same for `RequestPool`, `CatalogCache` and `OfflineQueue`, which have no variable in common. |
| `Sums` | What a sum over a finite set is (`MapThenSumSet` of the community modules): lemmas the proofs about goods, ledgers and gaps rest on. |

Variables marked *history* in a module record what happened (two requests that
overlapped, a line that was lost). The code has no such state: properties name
with them the exact circumstances in which the code does not keep a promise, so
that the promise can be checked in all others.

Operators under a comment that starts with *Fault:* are deliberate errors; no
specification uses them. With one in place of the definition it follows, TLC
reports the property it belongs to violated (`PROJECT.json`, "mutants"): each
property is able to fail.

### QrisCheckout and the code

`stock`, `txn`, `ledger` and `credited` are committed rows. `held` and `draft`
are what an open request has written in its pinned transaction: no other request
sees them, and a row with `held > 0` is locked. `pc`, `order` and `reply` are the
request's progress and answer; `charge` is the order at Midtrans; `watching` the
sales a page polls; `poll` the status requests that run.

| Action | Code |
| --- | --- |
| `Admit` | `checkTransactionLimit` in `processCheckout`: counts committed transactions on another connection. |
| `CheckStock` | The reads and the unlocked comparison in `executeCheckoutTransaction`. |
| `Reserve` | `decrementOutletStockBulk`: the guarded `UPDATE ... FROM VALUES`. It waits for locked rows; one line applies per row; when fewer rows changed than there are lines it throws, and what changed stays written. |
| `Reject` | What refuses a checkout after the decrement: short payments, unknown customer, closed shift (the last one after the points). |
| `Record` | The transaction, its items, payments, ledger rows and points. |
| `ChargeAccepted`, `ChargeFailed` | `finalizeQrisCheckout`; the clean-up deletes the transaction row only. |
| `Respond`, `Disconnect`, `Abort` | `runTenantRequestScope`: commit at `finish`, commit at `close` wherever the handler is, rollback. |
| `Pay`, `Expire` | Midtrans (external). |
| `StartPoll`, `Ask`, `Complete`, `Void`, `Restock`, `LogReturn` | The GET status request, one action per statement that commits. |
| `Die` | A statement of a poll fails or the process stops; earlier statements stay. |
| `StopWatching` | `handleCancelQris`, or leaving the page. |

### StockTransfers and the code

`stock`, `status`, `plan` and `ledger` are committed rows (`ledger` sums the
ledger rows of a transfer per outlet and product; the rows themselves carry no
transfer). `req` is what each running request does: the operation it chose from
the status it read, its transfer, and the next line to move.

| Action | Code |
| --- | --- |
| `Create` | `createTransfer` up to the branch on `requireStockApproval`: a draft, or goods that leave at once. |
| `Approve`, `Complete`, `Cancel` | The read of the status and the guard on it in `approveTransfer`, `completeTransfer`, `cancelTransfer`; no lock is taken. |
| `Move`, `Refuse` | One round of the loop over the items: `decrementOutletStock` (guarded `updateMany`, throws when it changes nothing) or `incrementOutletStock`, and the ledger row. A locked row makes it wait, but a row whose committed stock is too low is refused at once: PostgreSQL looks for matching rows before it locks them. |
| `Finish` | `stockTransfer.create` or `.update` (by id, whatever the status is by now), and the commit. What the lines wrote becomes visible here. |
| `Victim` | PostgreSQL ends a cycle of waits (external). |
| `Abort` | A role check that fails, the 30 s timeout of the interactive transaction, a lost connection or a crash: rollback. |

Left out: roles (a refusal, which changes nothing), inactive outlets, the ban on
transfers between main outlets and unknown products (plans that are refused
before anything happens), and other writers of `outlet_stocks`, which take the
same row locks.

### Inventory and the code

One request works on one document (`Begin` is its unlocked read and the guard on
the status), then moves the lines of the document in one transaction and commits
it with the new status (`Commit`) or not at all (`Refuse`, `Abort`). Two ways of
moving a line exist in the code, and both are here: `decrementOutletStock` and
`incrementOutletStock` update first, and write the level of the row they have
locked to the ledger (`Put`); `receivePO` and `createSalesReturn` read the row
first (`Look`) and upsert it afterwards (`Put`), with `stockBefore` as it was
read. `latest` is `stockAfter` of a row's latest entry.

| Action | Code |
| --- | --- |
| `CreatePO`, `Receive`, `MarkReceived`, `FinishReceive`, `CancelPO`, `FinishCancelPO` | `poService`. RECEIVED is written first in the transaction and keeps the order's row locked. An order may name no outlet; `receivePO` then writes ledger entries and moves no stock (`Apart`). |
| `AskMutation`, `Adjust`, `ApproveRequest`, `RejectRequest` and their `Finish...` | `stockLedgerService`. Which of the first two happens is decided by `requireStockApproval` and the role. |
| `Return`, `FinishReturn` | `createSalesReturn`: lines compared with what was bought and what was returned, each line by itself, before the transaction. |
| `StartPoll`, `SettleSale`, `VoidSale`, `Restock`, `LogReturn` | The status request of `getTransactionForStatusPolling`: the PENDING it reads before it asks Midtrans, and the statements of `completeQrisSettlement` or `voidQrisTransaction`, which do not look at the status again and commit one by one. |
| `Die` | A statement of a poll fails or the process stops; earlier ones stay. |

The purchase price that `receivePO` writes is here only as the row of `products`
it keeps locked. Refund amounts, other outlets and roles are left out. Midtrans is
the choice, at the start, of which unpaid sales fail (`failed`): its verdict is
final, and `QrisCheckout` has it as it comes about. `returned` is what
`createSalesReturn` reads of earlier returns; `voids`, `torn` and `unpaid` are
history. A poll's `open` is the item whose row is back and whose entry is not
written yet: what moves the row in between makes the entry name an old level, and
a poll that dies there leaves goods that no entry explains.

### Shifts and the code

Every operation has a first statement that checks (`Check...`) and a later one
that writes (`Write...`); `Begin` is the arrival of the request with the outlet
that `authMiddleware` and `tenantMiddleware` let it work at. Cash is the set of
the sales that are counted. A checkout may name a shift; `Downgrade` is the part
of `downgradeToFree` that makes branches inactive.

A consequence that the model shows: a cashier whose branch was deactivated by a
downgrade (which does not look for open shifts) can neither sell nor close the
shift, as no request passes at an inactive outlet. `OpenShiftsAreAtActiveOutlets`
names that case.

### Subscription and the code

`Look`, `ReadHistory`, `Apply` are the three steps of
`reconcileTenantSubscription`, each in a transaction of its own; every creation
of a branch or product runs them first, then `CheckLimit` (`ReadTier`, then the
counts), then `CreateBranch`. A platform admin's creation (`AskAsAdmin`) skips
reconciliation and limit (`bypassLimits`, `outletController.ts:107`), and an
expired plan does not stop it either.
The downgrade of the owner runs in the pinned transaction: `DropTier` (the row of
the tenant is locked from here on), `ShutBranches` (the branches of that moment),
`Record` (the history), and `Downgrade`, its commit when the answer is sent. A
client that goes away commits what is written so far, and `Abort` takes it back;
neither a half downgrade nor one that an invoice was paid meanwhile counts as the
owner's decision (`since.by`). Other writers of the tier wait for the row.
`latest` is the PAID invoice with the latest `paidAt`, `downgraded` the ones a
DOWNGRADE of the history comes after. `Override` is the platform's,
`AskScript`, `SetGrowth`, `Pay` and `ResetFree` are the operator's script,
`SetBranch` stands for `updateOutlet` and `deleteOutlet` (with their checks in
`Shifts`). Dates are abstracted to *never*, *running* and *past*;
`--delete-history` is left out.

What the code does, and the model with it:

* Invoices become PAID only by the operator's script. The notification of a
  payment has no action: `processSubscriptionMidtransWebhook` (line 33) looks up
  the invoice without a tenant, which throws (`lib/prisma.ts:197`), so that lines
  57-100 are not reached, although the README promises "Integrated with Midtrans
  Snap & Webhooks".
* An override from ENTERPRISE to GROWTH is recorded as an UPGRADE, and the next
  reconciliation with a PAID ENTERPRISE invoice undoes it.
* An override to FREE leaves the branches as they are; reactivating a branch is
  not checked against the plan.
* The branches of platform admins count against the plan of the tenant
  afterwards, and may exceed it: `OutletsWithinPlan` leaves them out (`exempt`).
* A branch created between the update of `downgradeToFree` that shuts the
  branches (`subscriptionService.ts:230`) and its commit stays active on the free
  plan.
* An expired tenant cannot ask for an upgrade or a downgrade: both are writes
  that `checkSubscriptionStatus` refuses.

### Accounts and the code

One account per address. `Register`, `Issue`, `Send` and `SendFails` are the
statements of `registerStaff` and `issueEmailVerificationToken` that commit;
`Resend` is the second way into the same code. `Verify` and `GoogleLogin` verify
the address. `Decide` is the read of `approveStaff`, `bulkApproveStaff`,
`rejectStaff` and `deleteStaff`, `Approve` and `Dismiss` their writes by id.
`Update`, `UpdateRoles` and `UpdateDone` are the transaction of `updateStaff`:
the deletion of the roles it sees, and the creation of the new one. The staff
page always sends the name with the role, so that its own edits lock the
account's row; other callers need not. `LookAtStaff` and `Suspend` are the part
of `downgradeToFree` that is about staff.

Worth knowing: the address of a dismissed account is taken for good; a mail that
is not configured counts as sent; the limit of staff is checked by no caller
(`checkStaffLimit`); a registration whose mail fails deletes the row also when
it was rejected meanwhile; an update with an unknown role is refused but has
already committed the name and the outlets. Links run out after 24 hours, here
never. The tenant is assumed to have the role `Kasir`.

### CatalogCache, RequestPool, OfflineQueue and the code

`CatalogCache` abstracts the catalog of an outlet to a version number. `Get`,
`Fetch`, `Set` are `cacheGetOrSet` (the answer does not wait for `Set`), `Expire`
its TTL of 30 s. The four kinds of writers are all the writers of products,
prices and stock, by the order of their commit and their invalidation.

In `RequestPool` a connection is asked for (`waiting`) and lent (`held`) to a
request, for one of two things that last, the pinned transaction of a write
(`pin`) and the transaction a read opens itself (`outer`), or for a statement in
one of its `Lanes`: `Promise.all` runs several of them at a time.

| Action | Code |
| --- | --- |
| `Arrive`, `Looked` | The reads of tenant and outlet; then `runTenantRequestScope` asks for the pinned transaction of a write. |
| `Statements`, `Done` | Operations of models, or transactions of a write's own (`runWithTenantRlsSession`, `executeRawWithTenant`): each on a connection besides the pinned one. |
| `OpenTransaction`, `CloseTransaction` | `prisma.$transaction(cb)` in a GET, as polls have it to settle or to void: it keeps a connection while each operation of `cb` is sent to another one. |
| `Granted` | The pool lends a connection that is free. |
| `Answer` | The end of a request; a pinned transaction commits. |
| `GiveUp`, `Ended` | The timeout of the pool or of `maxWait` where a request waits; the rest of its `Promise.all` still runs to its end. |
| `CutOff` | The client that goes away, or the timeout of a transaction (120 s, 30 s): its connection goes back, and the handler runs on without it. |

The comment in `tenantMiddleware.ts:41` speaks of a pool of 7; the default of
`APP_POOL_LIMIT` is 3.

In `OfflineQueue`, `Ask`, `Sell`, `Answered`, `Refuse` and `Save` are
`executeCheckout` with the server's part; `GoOnline` is the event that starts
`syncOfflineQueue` on the pages that are open; `Send`, `SellSaved`, `Synced` and
`Failed` are one round of its loop, `FinishSync` the write of what has failed over
whatever is in the storage, `Close` a page that is closed or reloaded. A sale is
one element; which outlet, user, shift and prices it is recorded with is left
out (the server takes those of the moment: `api/apiClient.ts:32`), and so is
that nobody polls a QRIS sale that was synchronised. An answer that takes longer
than the page's five minutes is not a network error there, and is not queued.

## Runs

| Run | Configuration | Question | Distinct states |
| --- | --- | --- | --- |
| `checkout_safety` | `MCQrisCheckout.cfg` | Do stock, goods and statuses stay right under every interleaving, and do the statuses implement `SaleLifecycle`? | 1,067,111 |
| `checkout_liveness` | `QrisLiveness.cfg` | Do requests end, do watched sales follow Midtrans, do voided sales get their goods? | 89,731 |
| `acknowledged_sale_lost` | `QrisAcknowledged.cfg` | Is a sale the cashier was told succeeded recorded? (violated) | - |
| `transfers` | `MCStockTransfers.cfg` | Do overlapping transfers keep stock non-negative, do those nobody worked on twice at a time balance and keep their lifecycle, does every request end? | 90,467 |
| `inventory` | `MCInventory.cfg` | Does each document move what its status says, and does the ledger explain the stock? | 2,903,755 |
| `shifts` | `MCShifts.cfg` | One open shift each, figures that count the cash, no open shift at a closed branch? | 730,102 |
| `shift_cash` | `ShiftCash.cfg` | Is the expected cash the float and the cash sales? (violated) | - |
| `request_pool` | `MCRequestPool.cfg` | Does a connection leak, does every request end, and is keeping one connection while waiting for another all that makes a timeout necessary? | 96,496 |
| `subscription` | `MCSubscription.cfg` | Do decisions on the plan stand, does an invoice count once, do the branches fit the plan? | 2,878,010 |
| `catalog_cache` | `MCCatalogCache.cfg` | Why may an entry be outdated, and does it last? | 118,324 |
| `offline_queue` | `MCOfflineQueue.cfg` | Do saved sales survive, are they sent until they are recorded, and recorded once? | 54,078 |
| `accounts` | `MCAccounts.cfg` | One role each, a link that works, verified accounts that stay, the free plan's staff? | 2,745,790 |

### Bounds

* `QrisCheckout`: two products with 2 and 1 units and two checkouts are enough
  for two requests to want the last unit, for a request to wait for another's
  lock, for carts of one line, of two lines and of two lines of one product, and
  for both orders of every pair of commits. Two polls overlap on one sale or
  work on two. `MaxFailures` bounds how often a poll dies half-way: once is
  enough for a torn void, and a second death adds a second torn sale.
  `MonthlyLimit` is 2 (no checkout refused by quota) or 1 (the second one races
  with the first).
* `StockTransfers`: two requests are what an overlap on one transfer needs, two
  transfers what competition for a row and a cycle of waits need; two plans with
  the same products in opposite orders produce the cycle. The source has 2 and 1
  units, so that two plans may both find enough and only one get it.
* `Inventory`: an order of three lines that names one product twice, a mutation
  that takes more than there is at first, and a sale of one product, paid or not,
  with returns of it (two that overlap take more than was sold). Two requests
  overlap on one document or on one row, and two polls on the sale: a void that
  is torn, one that is done twice, and movements between an increment and its
  entry. Voids of several items are in `QrisCheckout`.
* `Shifts`: one user who may name every outlet, a branch, two shifts (an open one
  and its successor, or two open ones), one sale, two requests. An overlap takes
  two requests; the properties are about one user or one outlet at a time.
* `Subscription`: `GrowthOutlets` is 2 instead of the code's 3, so that two
  branches reach the limits of both plans; two invoices of different tiers, two
  requests (a downgrade and a creation, by the owner or a platform admin, or two
  creations).
* `Accounts`: one address that registers and one that is registered, two roles,
  `FreeStaff` 1 instead of 2, `MaxLinks` 2 (an old link and a new one), and
  changes of role for one account (`Movers`).
* `CatalogCache`: two readers, two writers, `MaxVersion` 3 commits: an entry that
  is outdated by one, by two, and by a commit during the DEL of another.
* `RequestPool`: the default of 3 connections, a write and two reads that can
  keep them all, two statements at a time (`Lanes`), `MaxStatements` 2 rounds: a
  transaction and what runs inside it.
* `OfflineQueue`: two sales (one in the queue while the other is saved) and two
  pages; `recorded` counts to 2, "more than once".

The sets are the only other bounds: requests are sent again without end, except
in `QrisCheckout`, where each sale is asked for once. Runs of `QrisCheckout`,
`StockTransfers` and `Inventory` end, when all is decided, and so do not check
deadlock; nor does `shift_cash`, which looks for one state.

### Fairness

No specification makes a person act: nobody is bound to send a request, to pay,
to let an order expire, to close a page or to fail.

* `QrisCheckout`: a statement of a running handler is eventually executed
  (`ServerStep`, `PollStep`, weakly fair); the 120 s timeout ends a request that
  waits for Midtrans (`Abort` while *charging*, weakly fair, and nowhere else: a
  request that waits for a locked row must get it from the others); a page that watches a sale starts
  polls every three seconds (`StartPoll` of a watched sale, strongly fair,
  because other polls may be running in between).
* `StockTransfers`: a statement that can run is run, and a request that waits for
  a row is not overtaken for ever (PostgreSQL queues the waiters): strong
  fairness of `Work`; cycles of waits are found (`Victim`, weakly fair). The 30 s
  timeout is not used: it would make the property hold for any locking.
* `RequestPool`: handlers go on; the pool serves its waiters in turn (strong
  fairness of `Granted`); and when nobody can go on (`Stuck`: every connection is
  kept for a request that waits for one more) the timeouts happen. That timeouts
  are needed nowhere else is `OnlyHoldAndWaitBlocks`, which is checked under the
  same fairness.
* `CatalogCache`: requests go on, Redis answers or fails, entries expire. The
  writers stop because of `MaxVersion`: `StalenessEnds` says what remains then.
* `OfflineQueue`: the pages go on, as each request ends by an answer, a refusal or
  an error (`PagesFair`). Nothing makes the server accept a sale:
  `processCheckout` refuses some for good (stock, quota, an expired plan), and
  the queue keeps them. `QueueFairSpec` further assumes that the connection is lost
  and found again and again with a page open, and that from some time on no
  synchronisation is cut off. The code needs the first of these:
  nothing but the event `online` starts a synchronisation.

## Findings

| Run | What the documentation says | What the code does |
| --- | --- | --- |
| `acknowledged_sale_lost` | README: transactions guarantee the integrity of sales data | The commit follows the response; a crash in between loses the sale. |
| `shift_cash` | schema.prisma: `cashExpected` is float + cash sales | Only sales that name the shift are added, and the POS page names none. |

### Divergences

Further statements of docs, comments or messages that the code does not keep are
definitions of the modules, under the heading *what ... says and the code does
not do*. Put as an INVARIANT or a PROPERTY into the configuration named, TLC
shows each one violated.

| Definition | Configuration | What is said | What happens |
| --- | --- | --- | --- |
| `RefusalsChangeNothing` | `MCQrisCheckout.cfg` | "ACID Checkout" | A refused or cut-off checkout commits its partial decrement. |
| `LedgerRowsHaveTheirSale` | `MCQrisCheckout.cfg` | "rolls back QRIS transaction when Midtrans charge fails" | Only the transaction row is deleted. |
| `RestockedAtMostOnce` | `MCQrisCheckout.cfg` | a poll voids a PENDING transaction | Two polls void it twice, and the goods come back twice. |
| `QuotaIsStrict` | `MCQrisCheckout.cfg`, `MonthlyLimit = 1` | "strict backend usage limits" | Overlapping checkouts all pass the count. |
| `ExpiredSaleIsReleased` | `QrisLiveness.cfg` | auto-restock on expiry or cancellation | Only a poll voids; when the page stops, nothing does. |
| `FinalTransfersStay` | `MCStockTransfers.cfg` | completed or cancelled transfers cannot be changed (`transferService.ts:353`) | The status is updated by id; an overlapping request overwrites it. |
| `CancelledTransfersMovedNothing` | `MCStockTransfers.cfg` | a draft is cancelled at once, as no stock was moved (`:312`) | An approval in between has shipped the goods. |
| `SynchronisedWhenOnline` | `MCOfflineQueue.cfg`, `QueueWorkingSpec` | a saved sale will be synchronised when online | What was saved, or failed, while online waits for the next event. |

The conditions in the properties that hold (`contested`, `crossed`, `met`,
`since.loose`, `full`, `both`, `hasty`, `dead`, `unsafe`, `doubtful`, `torn`,
`excused`) name the other circumstances in which a promise is broken, almost
always two overlapping requests; without the condition TLC shows how.

## What is proved

Every safety invariant and every action property that a run checks is a theorem,
for all values of the constants that satisfy the named assumptions. An invariant
a run checks is seldom inductive; each proof module defines the inductive one,
proves that the initial condition implies it, that every action keeps it (one
lemma per part, one step per action), and derives the theorems. Each was checked
by TLC on the instance of the run before it was proved.

The assumptions are about inputs (carts, plans and orders are lists of lines with
positive quantities, the initial stock is not negative, names of nothing are not
names of something) and about bounds. Where a theorem is about a sum or counts,
the set it is over is finite: `FiniteAssumption` (sales and polls of
`QrisCheckout`, outlets and transfers of `StockTransfers`),
`DocumentsAssumption` and `PollsAssumption` (`StockMoves`), `LimitsAssumption`
(branches of `Subscription`), `StaffAssumption` (addresses) and
`RequestsAssumption` (`RequestPool`).

**Checkout** (`QrisCheckoutProofs`; all products, sales, polls, carts and initial
stocks): `TypeCorrect`, `StockSafe` (`StockNeverNegative`), `GoodsSafe`
(`LiveSaleHasItsGoods`), `Refinement` (`KeepsLifecycle`, the implementation of
`SaleLifecycle`), `ReturnsSafe` (`ReturnsMatchVoids`) and `GapsSafe`
(`StockGapsHaveCauses`). `IInv` adds:

* `LocksExclude`: what an open request holds is in stock, and two requests never
  hold from the same row. Without it a commit could drive stock below zero.
* `RequestsInOrder`: a request's writes follow its program counter; the draft is
  recorded only with the whole cart held, and a transaction is visible only when
  its request is over. Without it a commit could record a sale without its rows.
* `PollsKnow` and `VoidMeansFailure`: what a poll read stays true while it acts,
  because Midtrans' verdict is final: a sale a poll is voiding is never one that
  was paid. This is why unconditional updates by overlapping polls keep the
  lifecycle although they are not guarded. It needs that Midtrans does not
  change a final verdict.

The last two theorems follow from `Accounting`, which says that a sale with a row
has all its rows (`AllWritten`), that each void but those still at work gave a
cart back at most once (`ReturnsCounted`), and how far stock and ledger are apart
while polls have put goods back that they have not logged (`GapsKnown`): not
below that without a checkout that was cut off, not above it without a poll that
died.

**Transfers** (`StockTransfersProofs`; all outlets, plans of any length,
requests): `TransfersTypeCorrect` and `TransfersStockSafe` from `IInv`, which
adds `RowsAreExclusive` (no two requests hold a row), `ShipmentsCovered` (what a
request has decremented stays covered by the committed stock until it commits),
`RequestsOnTheirWay` and `TransfersPlanned`. `TransfersBalance`
(`UncontestedTransfersBalance`) and `TransfersLifecycle` (`UncontestedLifecycle`)
follow from `BalanceInv`, which adds `ReadsHold`: on an uncontested transfer one
request works, and the status it read is still the status. This is exactly what
fails when requests overlap. `MovedRow` and `FinishBalance` carry the argument;
`LoadOfLine` is where a plan that lists no product twice is needed.
`TransfersConserve` (`ConservedUnlessContested`) adds the outlets and the goods
on their way together: in `FinishGoods` the shelf of one outlet and the road of
one transfer change by opposite amounts, which is `ReadsHold` again.

**Stock movements** (`InventoryProofs`; all documents, lines, products and
requests): `InventoryInvariant`, and from it `InventoryTypes`, `NeverNegative`
(`StockNeverNegative`), `AppliedOnce` (`AppliedAsDecided`), `LatestNamesStock`
(`LatestEntryIsStock`), `BackOncePerVoid` (`GoodsBackOncePerVoid`),
`LedgerExplains` (`LedgerExplainsStock`) and the action property
`DecisionsAreFinal` (`DecisionsStand`). `IInv` adds four parts:

* `Rows`: who holds a row has not taken more than there is, and knows its level
  unless somebody moved the row between the read and the write, which `crossed`
  records. This is what the unlocked read of `receivePO` and `createSalesReturn`
  can spoil, and the guarded update of the others cannot. A poll that has put
  goods back and not logged them knows the level in the same way (`BacksKnown`).
* `Papers`: the status a request found stands while it works alone; a sale's
  entries are its returns and what each void has logged so far (`SaleEntries`: a
  void that is still at work is one short, `Owing`); and a return that works
  alone takes no more than what remains.
* `PollsSound`: which sales a poll settles or voids is Midtrans' verdict, so
  that overlapping polls agree although none looks at the status again.
* `Explained`: stock is the initial stock, the sum of the entries, and what polls
  have put back and not logged yet (`Surplus`); it is more only where a poll has
  died in between (`torn`).

What the lines of a document move together is a sum over them (`Total`);
`TotalOnce`, `TotalUnnamed` and the lemma that adds a line are where documents
that name a product twice are told from those that do not.

**Shifts** (`ShiftsProofs`; any users, branches, shifts, sales and requests):
`ShiftsTypeCorrect`, `ShiftsOneOpenShift`, `ShiftsCountTheirCash`,
`ShiftsAreAtActiveOutlets` and the action property `ShiftsClosedStand`. `IInv`
adds for each request that is about to write what it found, or that the finding
was spoiled by an overlap that `met` has recorded (`AllSound`), and for two
requests at once that their overlap was recorded (`AllApart`).

**Subscription** (`SubscriptionProofs`; any branches, invoices and requests):
type correctness, `DowngradeStands`, `InvoiceAppliedOnce`, `OutletsWithinPlan`,
and, for a plan where FREE has the main outlet only, `DowngradeShutsBranches`.
`IInv` adds what each step of a reconciliation and of a limit knows as long as
nobody has overtaken it (`AllSound`), that the best tier is at least the tier
(`Rises`), and that the branches a downgrade has shut are still there at its
commit (`ShutExist`). The last theorem adds that one downgrade runs at a time
(`Alone`, by the lock of the tenant's row), that until its commit every branch is
one it shuts or one created since (`AllShut`), and that no creation to come was
measured against the free plan (`HadRoom`).

**Accounts** (`AccountsProofs`; any addresses, roles, requests and links):
`AccountsTypeCorrect`, `AccountsOneRole` (`OneRole`), `AccountsLatestLink`
(`LatestLinkWorks`), `AccountsFreeStaff` (`FreeStaffAfterDowngrade`) and the
action property `AccountsVerifiedStay` (`VerifiedAccountsStay`). `AccountsIInv`
says that nobody works on an account that is not there, but for the registration
that may delete it (`Away`); that the stored link is the newest and delivered or
being mailed (`Linked`); that who is about to write a role has seen the one there
is, and is alone (`Roled`); that an account verified while its registration still
mails is a hasty one (`Slow`); and that a downgrade that has looked leaves few
enough (`Spared`).

**What is shared** (`SharedProofs`):

* `RequestPool` (any number of requests, any limit): `PoolTypeCorrect`,
  `PoolNoLeak` (`NoLeak`), `PoolWithinLimit`. `NoLeak` needs `Proper`: only
  writes pin and only reads keep a transaction of their own, and who asks for a
  connection to keep has nothing else under way, so that none is lent to a
  request that has failed meanwhile. The limit needs that the set of connections
  in use is finite.
* `CatalogCache` (any readers, writers, bound): `CacheTypeCorrect` and
  `CacheStaleForAReason`, from `HandsExcused`: what a reader is about to store is
  the committed catalog or excused.
* `OfflineQueue` (any sales, any pages): `QueueTypeCorrect`, `QueueSalesSurvive`
  (`SavedSalesSurvive`) and `QueueRecordedOnce` (`RecordedOnce`). `QueueIInv`
  adds that the queue and what a page still has to send or to write back name no
  sale twice (`QueuedOnce`, `SentOnce`), that a sale that is not recorded is in
  the queue and with every page that will overwrite it (`Kept`), and that a sale
  that is recorded is with one page at most, which is about to drop it (`Fresh`).

**Sums.** The library's induction theorems take an operator as a parameter, which
the provers cannot instantiate. The lemmas of `Sums` are proved by contradiction
instead: of the finite sets for which one fails there is a smallest
(`SmallestSet`, from the well-foundedness of strict inclusion), and taking an
element out of that one refutes it. `SumUnfolds` gets the recursion from the
definition of `MapThenSumSet`; `SumTakeOut` says that the order does not matter,
and `SumUpdate`, that the sum changes by what one value changes, is what the
proofs of actions use.

Only model-checked:

* liveness: `EveryRequestEnds` of three modules, `WatchedSaleIsDecided`,
  `VoidReturnsTheGoods`, `StalenessEnds`, `QueuedSalesAreSent` and
  `OnlyHoldAndWaitBlocks`. They rest on fairness and so on ENABLED, which TLAPS does not
  do;
* the two runs that find a violation, and the definitions under *Divergences*.

Definitions that hold and are in no run, all of them proved:
`ConservedUnlessContested` (`StockTransfers`), `DecisionsStand` and `TypeOK`
(`Inventory`), `WithinLimit` (`RequestPool`), the `TypeOK` of `RequestPool`,
`Shifts` and `Accounts`, `CacheTypeOK` and `QueueTypeOK`.

## Plan

Done: the checkout, transfers, the other movements of stock, shifts,
subscription, accounts, the cache, the pool, the offline queue, and proofs of
what the runs check about each, liveness excepted. To follow:

1. An abstract transfer lifecycle with the goods each status stands for, that
   uncontested transfers implement, as `SaleLifecycle` is for sales.
2. Stronger statements about requests that do overlap: by how much a contested
   transfer can be off.
3. `Outlets`: the choice of a free branch code against concurrent creations, and
   the repair of the hierarchy of outlets (`repairOutletHierarchyBatch`), which is
   to leave nothing for `detectIssues` to find.

## Not modelled

Wording, formatting, logging, sessions and tokens, image upload, reports and the
user interface are left out: they keep no state the properties above depend on;
the interface is most of the lines of the repository. Controllers, routes and
schemas parse, authorise and format around the services that are modelled.
Pricing is sums on decimals without state; page and server both use a tax of
11 % (neither uses the tenant's own rate). Customers are single-row writes
besides the points a checkout adds. History, analytics, breakdowns and the
platform's reports only read. The transaction backfill and the seed are scripts
that run once. Serialization failures do not occur at READ COMMITTED; in
`QrisCheckout` deadlock victims are part of `Abort`.
