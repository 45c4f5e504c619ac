---------------------------- MODULE OfflineQueue ----------------------------
(***************************************************************************)
(* The POS pages of one browser, and the queue of sales in its local       *)
(* storage.  A checkout that ends with a network error is queued, and the  *)
(* cart is cleared; whether the server has recorded the sale is not known. *)
(* When the browser comes back online, each page that is open sends the    *)
(* queue it reads then, sale by sale, and at the end stores what failed in *)
(* its place.  Nothing tells the server that it sees a sale again.         *)
(***************************************************************************)
EXTENDS Naturals, Sequences, SequencesExt

CONSTANTS
  Sales,
  Syncs     \* pages that may synchronise at a time, and a page's reruns

VARIABLES
  online,     \* navigator.onLine
  queue,      \* the sales in local storage
  checkout,   \* [Sales -> "cart" | "asked" | "recorded" | "done" | "saved"]
  sync,       \* [Syncs -> [step, left, kept]]
  recorded,   \* [Sales -> 0..2]: how often the server has; 2 is "more than once"
  unsafe,     \* history: sales saved, or synchronised, while others synchronised
  doubtful    \* history: sales recorded without the answer being noted

queueVars == <<online, queue, checkout, sync, recorded, unsafe, doubtful>>

-----------------------------------------------------------------------------
Asleep == [step |-> "idle", left |-> <<>>, kept |-> <<>>]
Awake  == {p \in Syncs : sync[p].step # "idle"}

Record(s) == recorded' = [recorded EXCEPT ![s] = IF @ < 2 THEN @ + 1 ELSE @]

QueueInit ==
  /\ online \in BOOLEAN /\ queue = <<>>
  /\ checkout = [s \in Sales |-> "cart"]
  /\ sync = [p \in Syncs |-> Asleep]
  /\ recorded = [s \in Sales |-> 0]
  /\ unsafe = {} /\ doubtful = {}

-----------------------------------------------------------------------------
(* executeCheckout.                                                        *)
Ask(s) ==
  /\ checkout[s] = "cart"
  /\ checkout' = [checkout EXCEPT ![s] = "asked"]
  /\ UNCHANGED <<online, queue, sync, recorded, unsafe, doubtful>>

(* The server records the sale, and then its answer arrives.               *)
Sell(s) ==
  /\ checkout[s] = "asked"
  /\ checkout' = [checkout EXCEPT ![s] = "recorded"]
  /\ Record(s)
  /\ UNCHANGED <<online, queue, sync, unsafe, doubtful>>

Answered(s) ==
  /\ checkout[s] = "recorded"
  /\ checkout' = [checkout EXCEPT ![s] = "done"]
  /\ UNCHANGED <<online, queue, sync, recorded, unsafe, doubtful>>

(* The server refuses, or the request ends with an error that is not a     *)
(* network error (a timeout, a gateway), whatever the server has recorded: *)
(* the cashier keeps the cart.                                             *)
Refuse(s) ==
  /\ checkout[s] \in {"asked", "recorded"}
  /\ checkout' = [checkout EXCEPT ![s] = "cart"]
  /\ doubtful' = IF checkout[s] = "recorded" THEN doubtful \cup {s} ELSE doubtful
  /\ UNCHANGED <<online, queue, sync, recorded, unsafe>>

(* A network error, before or after the server has recorded the sale.      *)
(* enqueueOfflineTransaction, unless the storage is full (which is logged  *)
(* only); the cashier is told that the sale is saved, and the cart is      *)
(* cleared.                                                                *)
Save(s, stored) ==
  /\ checkout[s] \in {"asked", "recorded"}
  /\ checkout' = [checkout EXCEPT ![s] = "saved"]
  /\ queue' = IF stored THEN Append(queue, s) ELSE queue
  /\ unsafe' = IF stored /\ Awake = {} THEN unsafe ELSE unsafe \cup {s}
  /\ doubtful' = IF checkout[s] = "recorded" THEN doubtful \cup {s} ELSE doubtful
  /\ UNCHANGED <<online, sync, recorded>>

-----------------------------------------------------------------------------
GoOffline ==
  /\ online /\ online' = FALSE
  /\ UNCHANGED <<queue, checkout, sync, recorded, unsafe, doubtful>>

(* The event 'online': the open pages (ps) read the queue.  A page that is *)
(* still busy with an earlier event starts another run.                    *)
GoOnline(ps) ==
  /\ ~online /\ online' = TRUE
  /\ ps \cap Awake = {}
  /\ sync' = [p \in Syncs |-> IF p \in ps /\ queue # <<>> THEN [Asleep EXCEPT !.step = "next", !.left = queue]
                                                          ELSE sync[p]]
  /\ LET others == UNION {ToSet(sync[p].left) \cup ToSet(sync[p].kept) : p \in Awake}
         alone == ps = {} \/ queue = <<>> \/ (Awake = {} /\ \E p \in Syncs : ps = {p}) IN
     unsafe' = IF alone THEN unsafe ELSE unsafe \cup ToSet(queue) \cup others
  /\ UNCHANGED <<queue, checkout, recorded, doubtful>>

PageGoto(p, step) == sync' = [sync EXCEPT ![p].step = step]

(* syncOfflineQueue, one sale after the other.                             *)
Send(p) ==
  /\ sync[p].step = "next" /\ sync[p].left # <<>>
  /\ PageGoto(p, "asked")
  /\ UNCHANGED <<online, queue, checkout, recorded, unsafe, doubtful>>

SellSaved(p) ==
  /\ sync[p].step = "asked"
  /\ PageGoto(p, "recorded")
  /\ Record(Head(sync[p].left))
  /\ UNCHANGED <<online, queue, checkout, unsafe, doubtful>>

(* The answer: the sale is not kept.                                       *)
Synced(p) ==
  /\ sync[p].step = "recorded"
  /\ sync' = [sync EXCEPT ![p] = [step |-> "next", left |-> Tail(@.left), kept |-> @.kept]]
  /\ UNCHANGED <<online, queue, checkout, recorded, unsafe, doubtful>>

(* Fault: a sale that fails is not kept.                                   *)
FailedForGood(p) ==
  LET s == Head(sync[p].left) IN
  /\ sync[p].step \in {"asked", "recorded"}
  /\ sync' = [sync EXCEPT ![p] = [step |-> "next", left |-> Tail(@.left), kept |-> @.kept]]
  /\ doubtful' = IF sync[p].step = "recorded" THEN doubtful \cup {s} ELSE doubtful
  /\ UNCHANGED <<online, queue, checkout, recorded, unsafe>>

(* Fault: the loop ends at the first sale that fails.                      *)
FailedForAll(p) ==
  LET s == Head(sync[p].left) IN
  /\ sync[p].step \in {"asked", "recorded"}
  /\ sync' = [sync EXCEPT ![p] = [step |-> "next", left |-> <<>>, kept |-> @.kept \o @.left]]
  /\ doubtful' = IF sync[p].step = "recorded" THEN doubtful \cup {s} ELSE doubtful
  /\ UNCHANGED <<online, queue, checkout, recorded, unsafe>>

(* A refusal, or any other error, before or after the server recorded it:  *)
(* the sale is kept, and the loop goes on.                                 *)
Failed(p) ==
  LET s == Head(sync[p].left) IN
  /\ sync[p].step \in {"asked", "recorded"}
  /\ sync' = [sync EXCEPT ![p] = [step |-> "next", left |-> Tail(@.left), kept |-> Append(@.kept, s)]]
  /\ doubtful' = IF sync[p].step = "recorded" THEN doubtful \cup {s} ELSE doubtful
  /\ UNCHANGED <<online, queue, checkout, recorded, unsafe>>

(* Fault: when some have failed, the queue is left as it was.              *)
FinishWhenEmpty(p) ==
  /\ sync[p].step = "next" /\ sync[p].left = <<>>
  /\ queue' = IF sync[p].kept = <<>> THEN <<>> ELSE queue
  /\ sync' = [sync EXCEPT ![p] = Asleep]
  /\ UNCHANGED <<online, checkout, recorded, unsafe, doubtful>>

(* What failed replaces the queue.                                         *)
FinishSync(p) ==
  /\ sync[p].step = "next" /\ sync[p].left = <<>>
  /\ queue' = sync[p].kept
  /\ sync' = [sync EXCEPT ![p] = Asleep]
  /\ UNCHANGED <<online, checkout, recorded, unsafe, doubtful>>

(* The page is closed or reloaded: the queue still has what was sent.      *)
Close(p) ==
  /\ p \in Awake
  /\ sync' = [sync EXCEPT ![p] = Asleep]
  /\ doubtful' = doubtful \cup {s \in ToSet(queue) : recorded[s] > 0}
  /\ UNCHANGED <<online, queue, checkout, recorded, unsafe>>

-----------------------------------------------------------------------------
PageStep(p) == Send(p) \/ Synced(p) \/ Failed(p) \/ FinishSync(p)

QueueNext ==
  \/ \E s \in Sales : Ask(s) \/ Sell(s) \/ Answered(s) \/ Refuse(s) \/ \E stored \in BOOLEAN : Save(s, stored)
  \/ GoOffline \/ \E ps \in SUBSET Syncs : GoOnline(ps)
  \/ \E p \in Syncs : SellSaved(p) \/ PageStep(p) \/ Close(p)

QueueSpec == QueueInit /\ [][QueueNext]_queueVars

(* A page that is not closed goes on: each of its requests ends, by an     *)
(* answer, a refusal, an error or apiClient's timeout.  Nothing says that  *)
(* the server ever accepts a sale.                                         *)
PagesFair == \A p \in Syncs : WF_queueVars(PageStep(p))

QueueWorkingSpec == QueueSpec /\ PagesFair

(* Besides, the browser keeps losing and finding its connection, some page *)
(* is open again and again when it finds it, and not every synchronisation *)
(* is cut off: from some time on, none is.                                 *)
QueueFairSpec ==
  /\ QueueWorkingSpec
  /\ WF_queueVars(GoOffline) /\ SF_queueVars(\E ps \in SUBSET Syncs \ {{}} : GoOnline(ps))
  /\ <>[][\A p \in Syncs : ~Close(p)]_queueVars

-----------------------------------------------------------------------------
QueueTypeOK ==
  /\ online \in BOOLEAN
  /\ queue \in Seq(Sales)
  /\ checkout \in [Sales -> {"cart", "asked", "recorded", "done", "saved"}]
  /\ sync \in [Syncs -> [step : {"idle", "next", "asked", "recorded"}, left : Seq(Sales), kept : Seq(Sales)]]
  /\ \A p \in Syncs : sync[p].step \in {"asked", "recorded"} => sync[p].left # <<>>
  /\ recorded \in [Sales -> 0..2]
  /\ unsafe \subseteq Sales /\ doubtful \subseteq Sales

(* A sale the cashier was told is saved is recorded or still queued,       *)
(* unless the storage was full, or it was saved during a synchronisation   *)
(* or queued while two overlapped: what a page writes at the end replaces  *)
(* what others have written since it started.                              *)
SavedSalesSurvive ==
  \A s \in Sales \ unsafe :
    checkout[s] = "saved" => recorded[s] > 0 \/ s \in ToSet(queue)

(* A sale is recorded at most once, unless an answer was lost, a page that *)
(* was synchronising closed, or two synchronised at a time.                *)
RecordedOnce == \A s \in Sales \ (unsafe \cup doubtful) : recorded[s] <= 1

Asked(s) == \E p \in Syncs : sync[p].step = "asked" /\ Head(sync[p].left) = s

(* A queued sale is sent in the end, and again as long as it is refused,   *)
(* however often others are refused before it: until it is recorded, or    *)
(* overwritten as above.  A server that refuses it always keeps it queued. *)
QueuedSalesAreSent ==
  \A s \in Sales : s \in ToSet(queue) ~> Asked(s) \/ recorded[s] > 0 \/ s \in unsafe

-----------------------------------------------------------------------------
(* What a message says and the code does not do.                           *)

(* usePosCheckout.ts:261, the sale "akan disinkronkan saat online" (will   *)
(* be synchronised when online): a queued sale does not stay queued while  *)
(* the browser is online.                                                  *)
SynchronisedWhenOnline ==
  \A s \in Sales : s \in ToSet(queue) /\ online ~> s \notin ToSet(queue) \/ ~online
=============================================================================
