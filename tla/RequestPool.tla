----------------------------- MODULE RequestPool -----------------------------
(***************************************************************************)
(* The connections of the application's pool (APP_POOL_LIMIT) and the      *)
(* requests that share them.  Every request first reads its tenant, on a   *)
(* connection that it gives back.  A write request then keeps one          *)
(* connection pinned until it has answered, and runs its statements on     *)
(* other models, and its own transactions, on further ones.  A read        *)
(* request borrows a connection for each statement; where its handler      *)
(* opens a transaction, that keeps one while each statement inside it is   *)
(* sent to another.  Promise.all runs several statements at a time.        *)
(*                                                                         *)
(* A request that waits for a connection gives up after a while            *)
(* (pool_timeout, maxWait).  A pinned connection is also lost when the     *)
(* client goes away, and like that of a transaction when it has lasted too *)
(* long; the handler runs on without it.                                   *)
(***************************************************************************)
EXTENDS Naturals, FiniteSets

CONSTANTS
  Requests,
  Writes,         \* the requests that pin a connection
  Lanes,          \* places for statements that one request runs at a time
  PoolLimit,      \* APP_POOL_LIMIT
  MaxStatements   \* bound: rounds of statements, and transactions, of a request

Lasting  == {"pin", "outer"}
Kinds == Lasting \cup Lanes

ASSUME RequestsAssumption == IsFiniteSet(Requests) /\ Writes \subseteq Requests
ASSUME LanesAssumption == Lanes # {} /\ Lanes \cap Lasting = {}
ASSUME LimitAssumption == PoolLimit \in Nat \ {0} /\ MaxStatements \in Nat

VARIABLES
  phase,     \* [Requests -> Phases]
  left,      \* [Requests -> Nat]: what the handler has still to run
  waiting,   \* connections asked for: <<request, kind>>
  held       \* connections in use: <<request, kind>>

vars == <<phase, left, waiting, held>>

-----------------------------------------------------------------------------
(* In "look" the tenant is read; "over": the request has failed, and other *)
(* statements of the same Promise.all are still on their way.              *)
Phases == {"idle", "look", "work", "over"}

Free     == Cardinality(held) < PoolLimit
Waits(r) == \E k \in Kinds : <<r, k>> \in waiting
Runs(r)  == \E l \in Lanes : <<r, l>> \in held

Goto(r, there) == phase' = [phase EXCEPT ![r] = there]
Await(r, kinds)  == waiting' = waiting \cup {<<r, k>> : k \in kinds}

(* The handler has the control: nothing it has asked for is under way.     *)
Rests(r) == phase[r] = "work" /\ ~Waits(r) /\ ~Runs(r)

Init ==
  /\ phase = [r \in Requests |-> "idle"]
  /\ left = [r \in Requests |-> 0]
  /\ waiting = {} /\ held = {}

(* A request arrives; its handler will run n rounds of statements outside  *)
(* the pinned transaction.  checkSubscriptionStatus and tenantMiddleware:  *)
(* the tenant and its outlet are read before anything is pinned.           *)
Arrive(r, n) ==
  /\ phase[r] = "idle"
  /\ Goto(r, "look")
  /\ left' = [left EXCEPT ![r] = n]
  /\ Await(r, {CHOOSE l \in Lanes : TRUE})
  /\ UNCHANGED held

(* The pool lends a connection to r, which has waited for it.              *)
Granted(r) ==
  \E k \in Kinds :
    /\ <<r, k>> \in waiting /\ Free
    /\ waiting' = waiting \ {<<r, k>>}
    /\ held' = held \cup {<<r, k>>}
    /\ UNCHANGED <<phase, left>>

(* A statement, or a write's own transaction, ends: its connection goes    *)
(* back.                                                                   *)
Done(r) ==
  \E l \in Lanes :
    /\ <<r, l>> \in held
    /\ held' = held \ {<<r, l>>}
    /\ UNCHANGED <<phase, left, waiting>>

(* The tenant is known: runTenantRequestScope asks for the transaction     *)
(* that lasts as long as a write request.                                  *)
Looked(r) ==
  /\ phase[r] = "look" /\ ~Waits(r) /\ ~Runs(r)
  /\ Goto(r, "work")
  /\ Await(r, IF r \in Writes THEN {"pin"} ELSE {})
  /\ UNCHANGED <<left, held>>

(* Statements through the model client, or transactions of a write's own,  *)
(* one or several at a time: each on another connection than the pinned    *)
(* one, or than that of the read's transaction around them.                *)
Statements(r, lanes) ==
  /\ Rests(r) /\ left[r] > 0 /\ lanes # {}
  /\ left' = [left EXCEPT ![r] = @ - 1]
  /\ Await(r, lanes)
  /\ UNCHANGED <<phase, held>>

(* A read opens a transaction of its own, as a status poll does to settle  *)
(* or to void.                                                             *)
OpenTransaction(r) ==
  /\ Rests(r) /\ left[r] > 0 /\ r \notin Writes /\ <<r, "outer">> \notin held
  /\ left' = [left EXCEPT ![r] = @ - 1]
  /\ Await(r, {"outer"})
  /\ UNCHANGED <<phase, held>>

CloseTransaction(r) ==
  /\ Rests(r) /\ <<r, "outer">> \in held
  /\ held' = held \ {<<r, "outer">>}
  /\ UNCHANGED <<phase, left, waiting>>

(* Fault: the pinned transaction does not end with the answer.             *)
AnswerPinned(r) ==
  /\ Rests(r) /\ left[r] = 0 /\ <<r, "outer">> \notin held
  /\ Goto(r, "idle")
  /\ UNCHANGED <<left, waiting, held>>

(* The answer is sent ('finish'): the pinned transaction commits.          *)
Answer(r) ==
  /\ Rests(r) /\ left[r] = 0 /\ <<r, "outer">> \notin held
  /\ Goto(r, "idle")
  /\ held' = held \ {<<r, "pin">>}
  /\ UNCHANGED <<left, waiting>>

(* r fails where it waits for k: the transaction around it is rolled back, *)
(* the controller answers with an error, and the pinned one ends.  Other   *)
(* statements of r go on.                                                  *)
Fail(r, k) ==
  LET rest == waiting \ {<<r, k>>} IN
  /\ waiting' = rest
  /\ held' = held \ {<<r, "pin">>, <<r, "outer">>}
  /\ Goto(r, IF Runs(r) \/ \E j \in Kinds : <<r, j>> \in rest THEN "over" ELSE "idle")
  /\ left' = [left EXCEPT ![r] = 0]

(* Fault: a failed handler leaves its transaction open.                    *)
GiveUpOpen(r) ==
  \E k \in Kinds :
    /\ <<r, k>> \in waiting /\ ~Free
    /\ waiting' = waiting \ {<<r, k>>}
    /\ held' = held \ {<<r, "pin">>}
    /\ Goto(r, IF Runs(r) \/ \E j \in Kinds \ {k} : <<r, j>> \in waiting THEN "over" ELSE "idle")
    /\ left' = [left EXCEPT ![r] = 0]

(* Fault: there is no timeout for a second connection.                     *)
GiveUpFirst(r) ==
  \E k \in Kinds :
    /\ <<r, k>> \in waiting /\ ~Free
    /\ \A j \in Lasting : <<r, j>> \notin held
    /\ Fail(r, k)

(* The wait for a connection was too long.                                 *)
GiveUp(r) == \E k \in Kinds : <<r, k>> \in waiting /\ ~Free /\ Fail(r, k)

(* The last statement of a failed request has ended.                       *)
Ended(r) ==
  /\ phase[r] = "over" /\ ~Waits(r) /\ ~Runs(r)
  /\ Goto(r, "idle")
  /\ UNCHANGED <<left, waiting, held>>

(* The client closes the connection ('close'), or the transaction's        *)
(* timeout (120 s of a pinned one, 30 s of a poll's) is over.              *)
CutOff(r) ==
  \E k \in Lasting :
    /\ <<r, k>> \in held
    /\ held' = held \ {<<r, k>>}
    /\ UNCHANGED <<phase, left, waiting>>

-----------------------------------------------------------------------------
Handler(r) ==
  \/ Done(r) \/ Looked(r) \/ \E lanes \in SUBSET Lanes : Statements(r, lanes)
  \/ OpenTransaction(r) \/ CloseTransaction(r) \/ Answer(r) \/ Ended(r)

Next ==
  \E r \in Requests :
    \/ \E n \in 0..MaxStatements : Arrive(r, n)
    \/ Granted(r) \/ Handler(r) \/ GiveUp(r) \/ CutOff(r)

Spec == Init /\ [][Next]_vars

-----------------------------------------------------------------------------
TypeOK ==
  /\ phase \in [Requests -> Phases]
  /\ left \in [Requests -> Nat]
  /\ waiting \subseteq Requests \X Kinds
  /\ held \subseteq Requests \X Kinds

(* The pool never has more connections in use than its limit.              *)
WithinLimit == Cardinality(held) <= PoolLimit

(* No connection leaks: a request that is gone has none and waits for      *)
(* none, one that has failed keeps no transaction, and only a write at     *)
(* work has a connection pinned, only a read at work one for its own       *)
(* transaction.                                                            *)
NoLeak ==
  \A r \in Requests :
    /\ phase[r] = "idle" => ~Waits(r) /\ ~Runs(r)
    /\ <<r, "pin">> \in held => r \in Writes /\ phase[r] = "work"
    /\ <<r, "outer">> \in held => r \notin Writes /\ phase[r] = "work"

(* Nobody can go on: every connection is pinned, or keeps a transaction    *)
(* open, for a request that waits for one more and runs nothing.           *)
Stuck == ~Free /\ \A c \in held : c[2] \in Lasting /\ Waits(c[1])

(* Handlers run on; the pool serves waiting requests in turn; and when     *)
(* nobody can go on, the waits time out.  Timeouts at any other moment may *)
(* happen and need not; nobody is bound to send a request or to go away.   *)
FairSpec ==
  Spec /\ \A r \in Requests :
            WF_vars(Handler(r)) /\ SF_vars(Granted(r)) /\ WF_vars(Stuck /\ GiveUp(r))

(* Every request ends, although requests that keep all the connections     *)
(* (write requests, polls that settle or void) wait for one more each:     *)
(* their timeouts release them.                                            *)
EveryRequestEnds == \A r \in Requests : phase[r] # "idle" ~> phase[r] = "idle"

(* Only holding one connection while waiting for another makes a timeout   *)
(* necessary: every other wait ends by itself.                             *)
OnlyHoldAndWaitBlocks == \A r \in Requests : Waits(r) ~> ~Waits(r) \/ Stuck
=============================================================================
