---------------------------- MODULE SharedProofs ----------------------------
(***************************************************************************)
(* Theorems about what requests and pages share: the pool of connections   *)
(* (RequestPool), the catalog in Redis (CatalogCache) and the queue of     *)
(* sales in a browser (OfflineQueue), for any numbers of requests,         *)
(* connections, readers, writers, sales and pages.  The three have no      *)
(* variable in common, and each has its own invariant.                     *)
(***************************************************************************)
EXTENDS RequestPool, CatalogCache, OfflineQueue, FiniteSetTheorems, TLAPS

-----------------------------------------------------------------------------
(* What holds of each request: one that is gone has nothing, only writes   *)
(* pin and only reads keep a transaction of their own, and who asks for a  *)
(* connection to keep has nothing else under way.                          *)
Proper(r) ==
  /\ phase[r] = "idle" => ~Waits(r) /\ ~Runs(r)
  /\ <<r, "pin">> \in held => r \in Writes /\ phase[r] = "work"
  /\ <<r, "outer">> \in held => r \notin Writes /\ phase[r] = "work"
  /\ \A k \in Lasting : <<r, k>> \in waiting =>
       /\ phase[r] = "work" /\ ~Runs(r)
       /\ k = IF r \in Writes THEN "pin" ELSE "outer"
       /\ \A j \in Kinds \ {k} : <<r, j>> \notin waiting

IInv == TypeOK /\ \A r \in Requests : Proper(r)

Step(r) ==
  \/ \E n \in 0..MaxStatements : Arrive(r, n)
  \/ Granted(r) \/ Handler(r) \/ GiveUp(r) \/ CutOff(r)

(* A step of r concerns r alone.                                           *)
Apart(r) ==
  \A q \in Requests \ {r} :
    /\ phase'[q] = phase[q]
    /\ \A k \in Kinds : (<<q, k>> \in held' <=> <<q, k>> \in held)
                     /\ (<<q, k>> \in waiting' <=> <<q, k>> \in waiting)

-----------------------------------------------------------------------------
(* Nobody has a connection at first.                                       *)
LEMMA InitIInv == Init => IInv
  BY DEF Init, IInv, TypeOK, Phases, Proper, Waits, Runs

(* What holds of the others holds after a step of r.                       *)
LEMMA OthersProper ==
  ASSUME IInv, NEW r \in Requests, Apart(r), TypeOK', Proper(r)'
  PROVE  IInv'
<1> SUFFICES ASSUME NEW q \in Requests \ {r} PROVE Proper(q)'
  BY DEF IInv
<1>1. (Waits(q)' <=> Waits(q)) /\ (Runs(q)' <=> Runs(q)) /\ phase'[q] = phase[q]
  BY DEF Apart, Waits, Runs, Kinds
<1> QED BY <1>1 DEF IInv, Proper, Apart, Kinds, Lasting

(* A step of a request's handler, or of the pool.                          *)
LEMMA StepIInv ==
  ASSUME IInv, NEW r \in Requests, Step(r)
  PROVE  IInv'
<1> USE LanesAssumption
<1>0. /\ phase \in [Requests -> Phases] /\ left \in [Requests -> Nat]
      /\ waiting \subseteq Requests \X Kinds /\ held \subseteq Requests \X Kinds
      /\ Proper(r)
  BY DEF IInv, TypeOK
<1>1. CASE \E n \in 0..MaxStatements : Arrive(r, n)
  <2> PICK n \in 0..MaxStatements : Arrive(r, n)
    BY <1>1
  <2> DEFINE l == CHOOSE x \in Lanes : TRUE
  <2>1. l \in Lanes /\ l \notin Lasting
    OBVIOUS
  <2> HIDE DEF l
  <2>2. /\ phase[r] = "idle" /\ phase' = [phase EXCEPT ![r] = "look"] /\ left' = [left EXCEPT ![r] = n]
        /\ waiting' = waiting \cup {<<r, l>>} /\ held' = held
    BY DEF Arrive, Goto, Await, l
  <2>3. TypeOK'
    <3>1. phase' \in [Requests -> Phases] /\ left' \in [Requests -> Nat]
      BY <1>0, <2>2, LimitAssumption DEF Phases
    <3>2. <<r, l>> \in Requests \X Kinds
      BY <2>1 DEF Kinds
    <3>3. waiting' \subseteq Requests \X Kinds
      BY <1>0, <2>2, <3>2
    <3> QED BY <1>0, <2>2, <3>1, <3>3 DEF TypeOK
  <2>4. Apart(r)
    BY <1>0, <2>2 DEF Apart
  <2>5. Proper(r)'
    BY <1>0, <2>1, <2>2 DEF Proper, Waits, Runs, Kinds, Lasting
  <2> QED BY <2>3, <2>4, <2>5, OthersProper
<1>2. CASE Granted(r)
  <2> PICK k \in Kinds : /\ <<r, k>> \in waiting
                         /\ waiting' = waiting \ {<<r, k>>} /\ held' = held \cup {<<r, k>>}
                         /\ UNCHANGED <<phase, left>>
    BY <1>2 DEF Granted
  <2>1. TypeOK' /\ Apart(r)
    BY <1>0 DEF TypeOK, Apart
  <2>2. phase[r] # "idle"
    BY <1>0 DEF Proper, Waits
  <2>4. CASE k \in Lanes
    <3>1. \A j \in Lasting : <<r, j>> \notin waiting
      BY <1>0, <2>4 DEF Proper, Kinds, Lasting
    <3>2. Proper(r)'
      BY <1>0, <2>2, <2>4, <3>1 DEF Proper, Waits, Runs, Kinds, Lasting
    <3> QED BY <2>1, <3>2, OthersProper
  <2>5. CASE k \in Lasting
    <3>1. Proper(r)'
      BY <1>0, <2>2, <2>5 DEF Proper, Waits, Runs, Kinds, Lasting
    <3> QED BY <2>1, <3>1, OthersProper
  <2> QED BY <2>4, <2>5 DEF Kinds
<1>3. CASE Done(r)
  <2> PICK l \in Lanes : <<r, l>> \in held /\ held' = held \ {<<r, l>>} /\ UNCHANGED <<phase, left, waiting>>
    BY <1>3 DEF Done
  <2>1. TypeOK' /\ Apart(r)
    BY <1>0 DEF TypeOK, Apart
  <2>2. Proper(r)'
    BY <1>0 DEF Proper, Waits, Runs, Kinds, Lasting
  <2> QED BY <2>1, <2>2, OthersProper
<1>4. CASE Looked(r)
  <2> DEFINE new == {<<r, k>> : k \in IF r \in Writes THEN {"pin"} ELSE {}}
  <2>1. \A c : c \in new <=> r \in Writes /\ c = <<r, "pin">>
    OBVIOUS
  <2> HIDE DEF new
  <2>2. /\ phase[r] = "look" /\ ~Waits(r) /\ ~Runs(r) /\ phase' = [phase EXCEPT ![r] = "work"]
        /\ waiting' = waiting \cup new /\ UNCHANGED <<left, held>>
    BY <1>4 DEF Looked, Goto, Await, new
  <2>3. TypeOK'
    <3>1. phase' \in [Requests -> Phases]
      BY <1>0, <2>2 DEF Phases
    <3>2. <<r, "pin">> \in Requests \X Kinds
      BY DEF Kinds, Lasting
    <3>3. waiting' \subseteq Requests \X Kinds
      BY <1>0, <2>1, <2>2, <3>2
    <3> QED BY <1>0, <2>2, <3>1, <3>3 DEF TypeOK
  <2>5. Apart(r)
    BY <1>0, <2>1, <2>2 DEF Apart
  <2>4. Proper(r)'
    BY <1>0, <2>1, <2>2 DEF Proper, Waits, Runs, Kinds, Lasting
  <2> QED BY <2>3, <2>4, <2>5, OthersProper
<1>5. CASE \E lanes \in SUBSET Lanes : Statements(r, lanes)
  <2> PICK lanes \in SUBSET Lanes : Statements(r, lanes)
    BY <1>5
  <2> DEFINE new == {<<r, k>> : k \in lanes}
  <2>1. \A c : c \in new <=> \E k \in lanes : c = <<r, k>>
    OBVIOUS
  <2> HIDE DEF new
  <2>2. /\ phase[r] = "work" /\ ~Waits(r) /\ ~Runs(r) /\ left[r] > 0
        /\ left' = [left EXCEPT ![r] = left[r] - 1]
        /\ waiting' = waiting \cup new /\ UNCHANGED <<phase, held>>
    BY DEF Statements, Rests, Await, new
  <2>3. TypeOK'
    <3>1. left[r] \in Nat
      BY <1>0
    <3>2. left' \in [Requests -> Nat]
      BY <1>0, <2>2, <3>1
    <3>3. new \subseteq Requests \X Kinds
      BY <2>1 DEF Kinds
    <3>4. waiting' \subseteq Requests \X Kinds
      BY <1>0, <2>2, <3>3
    <3> QED BY <1>0, <2>2, <3>2, <3>4 DEF TypeOK
  <2>5. Apart(r)
    BY <1>0, <2>1, <2>2 DEF Apart
  <2>4. Proper(r)'
    BY <1>0, <2>1, <2>2 DEF Proper, Waits, Runs, Kinds, Lasting
  <2> QED BY <2>3, <2>4, <2>5, OthersProper
<1>6. CASE OpenTransaction(r)
  <2>1. /\ phase[r] = "work" /\ ~Waits(r) /\ ~Runs(r) /\ left[r] > 0 /\ r \notin Writes
        /\ left' = [left EXCEPT ![r] = left[r] - 1]
        /\ waiting' = waiting \cup {<<r, "outer">>} /\ UNCHANGED <<phase, held>>
    BY <1>6 DEF OpenTransaction, Rests, Await
  <2>2. TypeOK'
    <3>1. left[r] \in Nat
      BY <1>0
    <3>2. left' \in [Requests -> Nat]
      BY <1>0, <2>1, <3>1
    <3>3. <<r, "outer">> \in Requests \X Kinds
      BY DEF Kinds, Lasting
    <3>4. waiting' \subseteq Requests \X Kinds
      BY <1>0, <2>1, <3>3
    <3> QED BY <1>0, <2>1, <3>2, <3>4 DEF TypeOK
  <2>4. Apart(r)
    BY <1>0, <2>1 DEF Apart
  <2>3. Proper(r)'
    BY <1>0, <2>1 DEF Proper, Waits, Runs, Kinds, Lasting
  <2> QED BY <2>2, <2>3, <2>4, OthersProper
<1>7. CASE CloseTransaction(r) \/ CutOff(r)
  <2>1. /\ UNCHANGED <<phase, left, waiting>> /\ held' \subseteq held
        /\ \A c \in held \ held' : c \in {<<r, "pin">>, <<r, "outer">>}
    BY <1>7 DEF CloseTransaction, CutOff, Lasting
  <2>2. TypeOK'
    BY <1>0, <2>1 DEF TypeOK
  <2>3. Apart(r)
    BY <1>0, <2>1 DEF Apart
  <2>4. Runs(r)' <=> Runs(r)
    <3>1. \A l \in Lanes : <<r, l>> \notin {<<r, "pin">>, <<r, "outer">>}
      BY DEF Lasting
    <3>2. \A l \in Lanes : <<r, l>> \in held' <=> <<r, l>> \in held
      BY <2>1, <3>1
    <3> QED BY <3>2 DEF Runs
  <2>5. Proper(r)'
    BY <1>0, <2>1, <2>4 DEF Proper, Waits
  <2> QED BY <2>2, <2>3, <2>5, OthersProper
<1>8. CASE Answer(r)
  <2>1. /\ phase[r] = "work" /\ ~Waits(r) /\ ~Runs(r) /\ <<r, "outer">> \notin held
        /\ phase' = [phase EXCEPT ![r] = "idle"]
        /\ held' = held \ {<<r, "pin">>} /\ UNCHANGED <<left, waiting>>
    BY <1>8 DEF Answer, Rests, Goto
  <2>2. TypeOK' /\ Apart(r)
    BY <1>0, <2>1 DEF TypeOK, Phases, Apart
  <2>3. Proper(r)'
    BY <1>0, <2>1 DEF Proper, Waits, Runs, Kinds, Lasting
  <2> QED BY <2>2, <2>3, OthersProper
<1>9. CASE GiveUp(r)
  <2> PICK k \in Kinds : <<r, k>> \in waiting /\ Fail(r, k)
    BY <1>9 DEF GiveUp
  <2> DEFINE more  == Runs(r) \/ \E j \in Kinds : <<r, j>> \in waiting \ {<<r, k>>}
             there == IF more THEN "over" ELSE "idle"
  <2>1. /\ waiting' = waiting \ {<<r, k>>} /\ held' = held \ {<<r, "pin">>, <<r, "outer">>}
        /\ phase' = [phase EXCEPT ![r] = there] /\ left' = [left EXCEPT ![r] = 0]
    BY DEF Fail, Goto
  <2>2. there \in Phases /\ (there = "idle" => ~more)
    BY DEF Phases
  <2>3. Runs(r)' <=> Runs(r)
    BY <2>1 DEF Runs, Lasting
  <2>4. there = "idle" => ~Waits(r)' /\ ~Runs(r)'
    BY <2>1, <2>2, <2>3 DEF Waits
  <2> HIDE DEF there
  <2>5. TypeOK' /\ Apart(r)
    BY <1>0, <2>1, <2>2 DEF TypeOK, Apart
  <2>6. \A j \in Lasting : <<r, j>> \notin waiting'
    BY <1>0, <2>1 DEF Proper, Kinds
  <2>7. Proper(r)'
    BY <1>0, <2>1, <2>4, <2>6 DEF Proper
  <2> QED BY <2>5, <2>7, OthersProper
<1>10. CASE Ended(r)
  <2>1. /\ phase[r] = "over" /\ ~Waits(r) /\ ~Runs(r)
        /\ phase' = [phase EXCEPT ![r] = "idle"] /\ UNCHANGED <<left, waiting, held>>
    BY <1>10 DEF Ended, Goto
  <2>2. TypeOK' /\ Apart(r)
    BY <1>0, <2>1 DEF TypeOK, Phases, Apart
  <2>3. Proper(r)'
    BY <1>0, <2>1 DEF Proper, Waits, Runs, Kinds, Lasting
  <2> QED BY <2>2, <2>3, OthersProper
<1> QED
  BY <1>1, <1>2, <1>3, <1>4, <1>5, <1>6, <1>7, <1>8, <1>9, <1>10 DEF Step, Handler

(* Borrowing, releasing and everything in between keep the invariant.      *)
LEMMA NextIInv == IInv /\ [Next]_vars => IInv'
<1> SUFFICES ASSUME IInv, [Next]_vars PROVE IInv'
  OBVIOUS
<1>1. CASE UNCHANGED vars
  BY <1>1 DEF vars, IInv, TypeOK, Proper, Waits, Runs
<1>2. CASE Next
  <2> PICK r \in Requests : Step(r)
    BY <1>2 DEF Next, Step
  <2> QED BY StepIInv
<1> QED BY <1>1, <1>2

(* Every variable keeps its type.                                          *)
THEOREM PoolTypeCorrect == Spec => []TypeOK
<1>1. IInv => TypeOK
  BY DEF IInv
<1> QED BY InitIInv, NextIInv, <1>1, PTL DEF Spec

(* For any number of requests and connections: whatever is timed out,      *)
(* refused or cut off, no connection stays behind (runTenantRequestScope,  *)
(* executeRawWithTenant, prisma.$transaction).                             *)
THEOREM PoolNoLeak == Spec => []NoLeak
<1>1. IInv => NoLeak
  BY DEF IInv, NoLeak, Proper
<1> QED BY InitIInv, NextIInv, <1>1, PTL DEF Spec

-----------------------------------------------------------------------------
Counted == IsFiniteSet(held) /\ WithinLimit

(* What is free can be lent.                                               *)
LEMMA LendOne ==
  ASSUME NEW c, Counted, Free, held' = held \cup {c}
  PROVE  Counted'
<1>1. /\ IsFiniteSet(held \cup {c})
      /\ Cardinality(held \cup {c}) \in {Cardinality(held), Cardinality(held) + 1}
  BY FS_AddElement DEF Counted
<1>2. Cardinality(held) \in Nat
  BY FS_CardinalityType DEF Counted
<1> QED BY <1>1, <1>2, LimitAssumption DEF Counted, WithinLimit, Free

(* Giving back never exceeds the limit.                                    *)
LEMMA GiveBack ==
  ASSUME Counted, held' \subseteq held
  PROVE  Counted'
<1>1. IsFiniteSet(held') /\ Cardinality(held') <= Cardinality(held)
  BY FS_Subset DEF Counted
<1>2. Cardinality(held) \in Nat /\ Cardinality(held') \in Nat
  BY <1>1, FS_CardinalityType DEF Counted
<1> QED BY <1>1, <1>2, LimitAssumption DEF Counted, WithinLimit

(* The pool never lends more connections than APP_POOL_LIMIT.              *)
THEOREM PoolWithinLimit == Spec => []WithinLimit
<1>1. Init => Counted
  BY FS_EmptySet, LimitAssumption DEF Init, Counted, WithinLimit
<1>2. Counted /\ [Next]_vars => Counted'
  <2> SUFFICES ASSUME Counted, [Next]_vars PROVE Counted'
    OBVIOUS
  <2>1. CASE UNCHANGED vars
    BY <2>1, GiveBack DEF vars
  <2>2. CASE Next
    <3> PICK r \in Requests : Step(r)
      BY <2>2 DEF Next, Step
    <3>1. CASE Granted(r)
      <4>1. Free /\ \E c : held' = held \cup {c}
        BY <3>1 DEF Granted
      <4> QED BY <4>1, LendOne
    <3>2. CASE ~Granted(r)
      <4>1. held' \subseteq held
        BY <3>2 DEF Step, Arrive, Handler, Done, Looked, Statements, OpenTransaction, CloseTransaction,
                    Answer, Ended, GiveUp, Fail, CutOff
      <4> QED BY <4>1, GiveBack
    <3> QED BY <3>1, <3>2
  <2> QED BY <2>1, <2>2
<1>3. Counted => WithinLimit
  BY DEF Counted
<1> QED BY <1>1, <1>2, <1>3, PTL DEF Spec

-----------------------------------------------------------------------------
(* CatalogCache.  The entry becomes what some reader has in its hands, so  *)
(* the invariant speaks of the hands too: a reader that is about to store  *)
(* has the committed catalog, or one that a commit has excused since.      *)
HandsExcused ==
  \A r \in Readers :
    reader[r].step = "set" =>
      reader[r].value \in 0..MaxVersion /\ reader[r].value \in {db} \cup excused

CacheIInv == CacheTypeOK /\ HandsExcused /\ StaleForAReason

-----------------------------------------------------------------------------
(* At first nothing is stored, and nobody has anything in hand.            *)
LEMMA CacheIInvInit == CacheInit => CacheIInv
  BY BoundAssumption
     DEF CacheInit, CacheIInv, CacheTypeOK, HandsExcused, StaleForAReason, Absent, Reading, Writing, Operations

(* A reader stores only what it has in hand.                               *)
LEMMA CacheIInvRead ==
  ASSUME CacheIInv, NEW r \in Readers, Read(r)
  PROVE  CacheIInv'
<1>1. CASE Get(r)
  BY <1>1 DEF Get, CacheIInv, CacheTypeOK, HandsExcused, StaleForAReason, Reading
<1>2. CASE Fetch(r)
  BY <1>2, BoundAssumption DEF Fetch, CacheIInv, CacheTypeOK, HandsExcused, StaleForAReason, Absent
<1>3. CASE Set(r)
  <2>1. /\ reader' = [reader EXCEPT ![r] = Reading] /\ reader[r].step = "set"
        /\ cache' = reader[r].value /\ UNCHANGED <<db, writer, sent, excused>>
    BY <1>3 DEF Set
  <2>2. cache' \in 0..MaxVersion /\ cache' \in {db} \cup excused
    BY <2>1 DEF CacheIInv, HandsExcused
  <2>3. CacheTypeOK' /\ HandsExcused'
    BY <2>1, <2>2, BoundAssumption DEF CacheIInv, CacheTypeOK, HandsExcused, Absent, Reading
  <2>4. StaleForAReason'
    BY <2>1, <2>2 DEF StaleForAReason
  <2> QED BY <2>3, <2>4 DEF CacheIInv
<1>4. CASE SetFails(r)
  BY <1>4, BoundAssumption DEF SetFails, CacheIInv, CacheTypeOK, HandsExcused, StaleForAReason, Absent, Reading
<1> QED BY <1>1, <1>2, <1>3, <1>4 DEF Read

(* A commit makes everything on its way to the cache outdated, and excuses *)
(* it; an edit answers for the entry itself with the DEL it still owes.    *)
LEMMA CacheIInvCommit ==
  ASSUME CacheIInv, NEW w \in Writers, Commit(w)
  PROVE  CacheIInv'
<1> DEFINE more == InFlight \cup (IF writer[w].op = "edit" THEN {} ELSE {cache} \ {Absent})
<1>1. /\ db' = db + 1 /\ db < MaxVersion /\ excused' = excused \cup more
      /\ writer' = [writer EXCEPT ![w] = IF writer[w].op = "edit" THEN [writer[w] EXCEPT !.step = "del"] ELSE Writing]
      /\ UNCHANGED <<cache, reader, sent>>
  BY DEF Commit
<1>2. more \subseteq 0..MaxVersion
  BY BoundAssumption DEF CacheIInv, CacheTypeOK, HandsExcused, InFlight, Absent
<1>3. writer' \in [Writers -> [op : Operations, step : {"idle", "commit", "del"}]]
  BY <1>1 DEF CacheIInv, CacheTypeOK, Writing, Operations
<1>4. CacheTypeOK'
  BY <1>1, <1>2, <1>3, BoundAssumption DEF CacheIInv, CacheTypeOK
<1>5. HandsExcused'
  <2> SUFFICES ASSUME NEW r \in Readers, reader[r].step = "set"
               PROVE  reader[r].value \in 0..MaxVersion /\ reader[r].value \in excused'
    BY <1>1 DEF HandsExcused
  <2>1. reader[r].value \in InFlight
    BY DEF InFlight
  <2> QED BY <1>1, <2>1 DEF CacheIInv, HandsExcused
<1>6. StaleForAReason'
  <2>1. CASE writer[w].op = "edit"
    <3>1. writer'[w].op = "edit" /\ writer'[w].step = "del"
      BY <1>1, <2>1 DEF CacheIInv, CacheTypeOK
    <3> QED BY <3>1 DEF StaleForAReason
  <2>2. CASE writer[w].op # "edit"
    <3>1. cache = Absent \/ cache \in excused'
      BY <1>1, <2>2
    <3> QED BY <1>1, <3>1 DEF StaleForAReason
  <2> QED BY <2>1, <2>2
<1> QED BY <1>4, <1>5, <1>6 DEF CacheIInv

(* A commit excuses every entry and hand it makes outdated.                *)
LEMMA CacheIInvWrite ==
  ASSUME CacheIInv, NEW w \in Writers, Write(w) \/ \E op \in Operations : Begin(w, op)
  PROVE  CacheIInv'
<1>1. CASE \E op \in Operations : Begin(w, op)
  <2> PICK op \in Operations : Begin(w, op)
    BY <1>1
  <2>1. /\ writer[w].step = "idle" /\ UNCHANGED <<db, cache, reader, sent, excused>>
        /\ writer' = [writer EXCEPT ![w] = [op |-> op, step |-> IF op \in {"edit", "move"} THEN "commit" ELSE "del"]]
    BY DEF Begin, Writing
  <2>2. CacheTypeOK' /\ HandsExcused'
    BY <2>1 DEF CacheIInv, CacheTypeOK, HandsExcused, Operations
  <2>3. StaleForAReason'
    BY <2>1 DEF CacheIInv, CacheTypeOK, StaleForAReason
  <2> QED BY <2>2, <2>3 DEF CacheIInv
<1>2. CASE Invalidate(w)
  <2>1. /\ writer[w].step = "del" /\ UNCHANGED <<db, reader, excused>>
        /\ writer' = [writer EXCEPT ![w] = IF writer[w].op = "edit" THEN Writing ELSE [writer[w] EXCEPT !.step = "commit"]]
        /\ cache' = IF writer[w].op = "sell" THEN cache ELSE Absent
    BY <1>2 DEF Invalidate
  <2>2. CacheTypeOK' /\ HandsExcused'
    BY <1>2, <2>1, BoundAssumption DEF Invalidate, CacheIInv, CacheTypeOK, HandsExcused, Absent, Operations, Writing
  <2>3. StaleForAReason'
    BY <2>1 DEF CacheIInv, CacheTypeOK, StaleForAReason
  <2> QED BY <2>2, <2>3 DEF CacheIInv
<1>3. CASE InvalidateFails(w)
  <2>1. /\ writer[w].step = "del" /\ UNCHANGED <<db, reader, cache, sent>>
        /\ writer' = [writer EXCEPT ![w] = IF writer[w].op = "edit" THEN Writing ELSE [writer[w] EXCEPT !.step = "commit"]]
        /\ excused' = excused \cup ({cache} \ {Absent})
    BY <1>3 DEF InvalidateFails
  <2>2. CacheTypeOK' /\ HandsExcused'
    BY <2>1, BoundAssumption DEF CacheIInv, CacheTypeOK, HandsExcused, Absent, Operations, Writing
  <2>3. StaleForAReason'
    BY <2>1 DEF StaleForAReason
  <2> QED BY <2>2, <2>3 DEF CacheIInv
<1>4. CASE Deliver(w)
  BY <1>4, BoundAssumption DEF Deliver, CacheIInv, CacheTypeOK, HandsExcused, StaleForAReason, Absent
<1>5. CASE Lose(w)
  BY <1>5 DEF Lose, CacheIInv, CacheTypeOK, HandsExcused, StaleForAReason
<1> QED BY <1>1, <1>2, <1>3, <1>4, <1>5, CacheIInvCommit DEF Write

(* So does every other step: entries expire, calls fail.                   *)
LEMMA CacheIInvNext == CacheIInv /\ [CacheNext]_cacheVars => CacheIInv'
<1> SUFFICES ASSUME CacheIInv, [CacheNext]_cacheVars PROVE CacheIInv'
  OBVIOUS
<1>1. CASE UNCHANGED cacheVars
  BY <1>1 DEF cacheVars, CacheIInv, CacheTypeOK, HandsExcused, StaleForAReason
<1>2. CASE Expire
  BY <1>2, BoundAssumption DEF Expire, CacheIInv, CacheTypeOK, HandsExcused, StaleForAReason, Absent
<1> QED BY <1>1, <1>2, CacheIInvRead, CacheIInvWrite DEF CacheNext

(* Versions stay within the bound, and the cache has one of them or none.  *)
THEOREM CacheTypeCorrect == CacheSpec => []CacheTypeOK
<1>1. CacheIInv => CacheTypeOK
  BY DEF CacheIInv
<1> QED BY CacheIInvInit, CacheIInvNext, <1>1, PTL DEF CacheSpec

(* cacheGetOrSet and the invalidations: an outdated entry has one of the   *)
(* causes that are named, whatever the order of commits, DELs and reads.   *)
THEOREM CacheStaleForAReason == CacheSpec => []StaleForAReason
<1>1. CacheIInv => StaleForAReason
  BY DEF CacheIInv
<1> QED BY CacheIInvInit, CacheIInvNext, <1>1, PTL DEF CacheSpec

-----------------------------------------------------------------------------
(* OfflineQueue.  What a page writes at its end replaces the queue, so the *)
(* invariant speaks of what pages have in hand: nothing is there twice, a  *)
(* sale that is not recorded is with every page that will write, and one   *)
(* that is recorded is with none but the page that has just sent it.       *)

Once(q) == \A i, j \in DOMAIN q : q[i] = q[j] => i = j

(* The sales a page has not sent, or has sent in vain.                     *)
Has(p) == ToSet(sync[p].left) \cup ToSet(sync[p].kept)

Saved == {s \in Sales : checkout[s] = "saved"}

(* Nothing is queued, or on a page's way, twice, nor before it was saved.  *)
QueuedOnce == Once(queue) /\ ToSet(queue) \subseteq Saved

SentOnce(p) ==
  /\ Once(sync[p].left) /\ Once(sync[p].kept)
  /\ ToSet(sync[p].left) \cap ToSet(sync[p].kept) = {}
  /\ Has(p) \subseteq Saved
  /\ sync[p].step = "idle" => Has(p) = {}
  /\ sync[p].step = "recorded" => recorded[Head(sync[p].left)] > 0

(* What is not recorded is queued, and every page that will write the      *)
(* queue has it.                                                           *)
Kept(s) ==
  checkout[s] = "saved" /\ recorded[s] = 0 => s \in ToSet(queue) /\ \A p \in Awake : s \in Has(p)

Unsent(s) == checkout[s] \in {"cart", "asked"} => recorded[s] = 0 \/ s \in doubtful

(* What is recorded is not queued, but while the page that has sent it is  *)
(* still busy; and no other page is.                                       *)
Fresh(s) ==
  /\ recorded[s] <= 1
  /\ s \in ToSet(queue) /\ Awake = {} => recorded[s] = 0
  /\ \A p \in Syncs : s \in Has(p) =>
       /\ Awake = {p}
       /\ recorded[s] = 0 \/ (sync[p].step = "recorded" /\ s = Head(sync[p].left))

QueueIInv ==
  /\ QueueTypeOK /\ QueuedOnce
  /\ \A p \in Syncs : SentOnce(p)
  /\ \A s \in Sales : Unsent(s)
  /\ \A s \in Sales \ unsafe : Kept(s)
  /\ \A s \in Sales \ (unsafe \cup doubtful) : Fresh(s)

(* The first of a sequence without repetitions, and the rest.              *)
LEMMA Popped ==
  ASSUME NEW q \in Seq(Sales), q # <<>>, Once(q)
  PROVE  /\ Head(q) \in Sales /\ Tail(q) \in Seq(Sales) /\ Once(Tail(q))
         /\ Head(q) \notin ToSet(Tail(q)) /\ ToSet(q) = ToSet(Tail(q)) \cup {Head(q)}
<1>1. /\ Len(q) \in Nat \ {0} /\ DOMAIN q = 1..Len(q) /\ Head(q) = q[1]
      /\ Tail(q) \in Seq(Sales) /\ DOMAIN Tail(q) = 1..(Len(q) - 1)
      /\ \A i \in 1..(Len(q) - 1) : Tail(q)[i] = q[i + 1]
  OBVIOUS
<1>2. \A i \in 1..(Len(q) - 1) : i + 1 \in 1..Len(q) /\ i + 1 # 1
  BY <1>1
<1>3. \A i \in 1..Len(q) : i = 1 \/ (i - 1 \in 1..(Len(q) - 1) /\ (i - 1) + 1 = i)
  BY <1>1
<1>4. 1 \in 1..Len(q)
  BY <1>1
<1>5. Head(q) \in Sales
  BY <1>1, <1>4
<1>6. Once(Tail(q))
  <2> SUFFICES ASSUME NEW i \in 1..(Len(q) - 1), NEW j \in 1..(Len(q) - 1), Tail(q)[i] = Tail(q)[j]
               PROVE  i = j
    BY <1>1 DEF Once
  <2>1. i + 1 = j + 1
    BY <1>1, <1>2 DEF Once
  <2> QED
    BY <2>1
<1>7. Head(q) \notin ToSet(Tail(q))
  BY <1>1, <1>2, <1>4 DEF Once, ToSet
<1>8. ToSet(q) = ToSet(Tail(q)) \cup {Head(q)}
  <2>1. ASSUME NEW x \in ToSet(q) PROVE x \in ToSet(Tail(q)) \cup {Head(q)}
    <3>1. PICK i \in 1..Len(q) : x = q[i]
      BY <1>1 DEF ToSet
    <3>2. CASE i = 1
      BY <1>1, <3>1, <3>2
    <3>3. CASE i # 1
      <4>1. i - 1 \in 1..(Len(q) - 1) /\ Tail(q)[i - 1] = x
        BY <1>1, <1>3, <3>1, <3>3
      <4> QED
        BY <1>1, <4>1 DEF ToSet
    <3> QED
      BY <3>2, <3>3
  <2>2. ASSUME NEW x \in ToSet(Tail(q)) \cup {Head(q)} PROVE x \in ToSet(q)
    BY <1>1, <1>2, <1>4, <2>2 DEF ToSet
  <2> QED
    BY <2>1, <2>2
<1> QED
  BY <1>1, <1>5, <1>6, <1>7, <1>8

(* One more at the end of a sequence.                                      *)
LEMMA Pushed ==
  ASSUME NEW q \in Seq(Sales), NEW s \in Sales
  PROVE  /\ Append(q, s) \in Seq(Sales) /\ ToSet(Append(q, s)) = ToSet(q) \cup {s}
         /\ Once(q) /\ s \notin ToSet(q) => Once(Append(q, s))
<1>1. /\ Len(q) \in Nat /\ DOMAIN q = 1..Len(q) /\ Append(q, s) \in Seq(Sales)
      /\ DOMAIN Append(q, s) = 1..(Len(q) + 1) /\ Append(q, s)[Len(q) + 1] = s
      /\ \A i \in 1..Len(q) : Append(q, s)[i] = q[i]
  OBVIOUS
<1>2. \A i \in 1..(Len(q) + 1) : i = Len(q) + 1 \/ i \in 1..Len(q)
  BY <1>1
<1>3. Len(q) + 1 \in 1..(Len(q) + 1) /\ \A i \in 1..Len(q) : i \in 1..(Len(q) + 1)
  BY <1>1
<1>4. ToSet(Append(q, s)) = ToSet(q) \cup {s}
  <2>1. ASSUME NEW x \in ToSet(Append(q, s)) PROVE x \in ToSet(q) \cup {s}
    BY <1>1, <1>2, <2>1 DEF ToSet
  <2>2. ASSUME NEW x \in ToSet(q) \cup {s} PROVE x \in ToSet(Append(q, s))
    BY <1>1, <1>3, <2>2 DEF ToSet
  <2> QED
    BY <2>1, <2>2
<1>5. ASSUME Once(q), s \notin ToSet(q) PROVE Once(Append(q, s))
  <2> SUFFICES ASSUME NEW i \in 1..(Len(q) + 1), NEW j \in 1..(Len(q) + 1), Append(q, s)[i] = Append(q, s)[j]
               PROVE  i = j
    BY <1>1 DEF Once
  <2>1. CASE i \in 1..Len(q) /\ j \in 1..Len(q)
    BY <1>1, <1>5, <2>1 DEF Once
  <2>2. ASSUME NEW n \in 1..Len(q) PROVE Append(q, s)[n] # s
    BY <1>1, <1>5, <2>2 DEF ToSet
  <2> QED
    BY <1>1, <1>2, <2>1, <2>2
<1> QED
  BY <1>1, <1>4, <1>5

(* The invariant holds at the start.                                       *)
LEMMA QueueIInvInit == QueueInit => QueueIInv
<1> SUFFICES ASSUME QueueInit PROVE QueueIInv
  OBVIOUS
<1>1. ToSet(<<>>) = {} /\ Once(<<>>) /\ <<>> \in Seq(Sales)
  BY DEF ToSet, Once
<1>2. \A p \in Syncs : Has(p) = {} /\ sync[p].step = "idle" /\ sync[p].left = <<>> /\ sync[p].kept = <<>>
  BY <1>1 DEF QueueInit, Has, Asleep
<1>3. QueueTypeOK
  BY <1>1 DEF QueueInit, QueueTypeOK, Asleep
<1>4. QueuedOnce /\ \A p \in Syncs : SentOnce(p)
  BY <1>1, <1>2 DEF QueueInit, QueuedOnce, SentOnce
<1>5. \A s \in Sales : Unsent(s) /\ Kept(s) /\ Fresh(s)
  BY <1>1, <1>2 DEF QueueInit, Unsent, Kept, Fresh
<1> QED
  BY <1>3, <1>4, <1>5 DEF QueueIInv

(* The steps of a checkout before it is saved.                             *)
LEMMA CheckoutQueue ==
  ASSUME QueueIInv, NEW s \in Sales, Ask(s) \/ Sell(s) \/ Answered(s) \/ Refuse(s)
  PROVE  QueueIInv'
<1>1. /\ UNCHANGED <<online, queue, sync, unsafe>>
      /\ doubtful' \subseteq doubtful \cup {s} /\ doubtful \subseteq doubtful'
      /\ checkout' \in [Sales -> {"cart", "asked", "recorded", "done", "saved"}]
      /\ \A t \in Sales \ {s} : checkout'[t] = checkout[t] /\ recorded'[t] = recorded[t]
      /\ checkout[s] # "saved" /\ checkout'[s] # "saved"
      /\ recorded' \in [Sales -> 0..2] /\ (\A t \in Sales : recorded'[t] >= recorded[t])
      /\ recorded'[s] = recorded[s] \/ s \in doubtful \/ (recorded[s] = 0 /\ recorded'[s] = 1)
      /\ checkout'[s] \in {"cart", "asked"} => recorded'[s] = 0 \/ s \in doubtful'
  <2>1. /\ checkout \in [Sales -> {"cart", "asked", "recorded", "done", "saved"}]
        /\ recorded \in [Sales -> 0..2]
        /\ checkout[s] \in {"cart", "asked"} => recorded[s] = 0 \/ s \in doubtful
    BY DEF QueueIInv, QueueTypeOK, Unsent
  <2>2. CASE Sell(s)
    BY <2>1, <2>2 DEF Sell, Record
  <2>3. CASE Ask(s) \/ Answered(s)
    BY <2>1, <2>3 DEF Ask, Answered
  <2>4. CASE Refuse(s)
    BY <2>1, <2>4 DEF Refuse
  <2> QED
    BY <2>2, <2>3, <2>4
<1>2. Awake' = Awake /\ (\A p \in Syncs : Has(p)' = Has(p)) /\ Saved' = Saved
  BY <1>1 DEF Awake, Has, Saved
<1>3. QueueTypeOK'
  BY <1>1 DEF QueueIInv, QueueTypeOK
<1>4. QueuedOnce'
  BY <1>1, <1>2 DEF QueueIInv, QueuedOnce
<1>5. ASSUME NEW p \in Syncs PROVE SentOnce(p)'
  <2>1. sync[p].step = "recorded" => Head(sync[p].left) \in Sales
    BY Popped DEF QueueIInv, QueueTypeOK, SentOnce
  <2>2. recorded \in [Sales -> 0..2]
    BY DEF QueueIInv, QueueTypeOK
  <2>3. sync[p].step = "recorded" => recorded'[Head(sync[p].left)] > 0
    BY <1>1, <2>1, <2>2 DEF QueueIInv, SentOnce
  <2> QED
    BY <1>1, <1>2, <2>3 DEF QueueIInv, SentOnce
<1>6. \A t \in Sales : Unsent(t)'
  BY <1>1 DEF QueueIInv, Unsent
<1>7. ASSUME NEW t \in Sales \ unsafe PROVE Kept(t)'
  <2>1. Kept(t) /\ Awake \subseteq Syncs
    BY DEF QueueIInv, Awake
  <2>2. checkout'[t] = "saved" => t # s
    BY <1>1
  <2> QED
    BY <1>1, <1>2, <2>1, <2>2 DEF Kept
<1>8. ASSUME NEW t \in Sales \ (unsafe \cup doubtful') PROVE Fresh(t)'
  <2>0. t \notin doubtful
    BY <1>1, <1>8
  <2>1. CASE t # s
    BY <1>1, <1>2, <2>0, <2>1 DEF QueueIInv, Fresh
  <2>2. CASE t = s
    <3>1. s \notin ToSet(queue) /\ \A p \in Syncs : s \notin Has(p)
      BY <1>1 DEF QueueIInv, QueuedOnce, SentOnce, Saved
    <3>2. recorded'[s] <= 1
      BY <1>1, <2>0, <2>2 DEF QueueIInv, Fresh
    <3> QED
      BY <1>1, <1>2, <2>2, <3>1, <3>2 DEF Fresh
  <2> QED
    BY <2>1, <2>2
<1> QED
  BY <1>1, <1>3, <1>4, <1>5, <1>6, <1>7, <1>8 DEF QueueIInv

(* A sale is saved at the end of the queue, or lost.                       *)
LEMMA SaveQueue ==
  ASSUME QueueIInv, NEW s \in Sales, NEW stored \in BOOLEAN, Save(s, stored)
  PROVE  QueueIInv'
<1>1. /\ UNCHANGED <<online, sync, recorded>>
      /\ checkout' = [checkout EXCEPT ![s] = "saved"] /\ checkout[s] \in {"asked", "recorded"}
      /\ queue' = IF stored THEN Append(queue, s) ELSE queue
      /\ unsafe' = IF stored /\ Awake = {} THEN unsafe ELSE unsafe \cup {s}
      /\ doubtful' = IF checkout[s] = "recorded" THEN doubtful \cup {s} ELSE doubtful
  BY DEF Save
<1>2. Awake' = Awake /\ \A p \in Syncs : Has(p)' = Has(p)
  BY <1>1 DEF Awake, Has
<1>3. /\ queue \in Seq(Sales) /\ Once(queue) /\ ToSet(queue) \subseteq Saved
      /\ checkout \in [Sales -> {"cart", "asked", "recorded", "done", "saved"}]
      /\ recorded \in [Sales -> 0..2] /\ unsafe \subseteq Sales /\ doubtful \subseteq Sales
  BY DEF QueueIInv, QueueTypeOK, QueuedOnce
<1>4. Saved' = Saved \cup {s} /\ s \notin Saved
  BY <1>1, <1>3 DEF Saved
<1>5. queue' \in Seq(Sales) /\ Once(queue') /\ ToSet(queue') \subseteq ToSet(queue) \cup {s}
      /\ ToSet(queue) \subseteq ToSet(queue') /\ (stored => s \in ToSet(queue'))
  BY <1>1, <1>3, <1>4, Pushed
<1>6. QueueTypeOK'
  BY <1>1, <1>5 DEF QueueIInv, QueueTypeOK
<1>7. QueuedOnce'
  BY <1>3, <1>4, <1>5 DEF QueuedOnce
<1>8. \A p \in Syncs : SentOnce(p)'
  BY <1>1, <1>2, <1>4 DEF QueueIInv, SentOnce
<1>9. \A t \in Sales : Unsent(t)'
  BY <1>1, <1>3 DEF QueueIInv, Unsent
<1>10. ASSUME NEW t \in Sales \ unsafe' PROVE Kept(t)'
  <2>1. t \notin unsafe /\ Kept(t) /\ Awake \subseteq Syncs
    BY <1>1 DEF QueueIInv, Awake
  <2>2. CASE t = s
    BY <1>1, <1>2, <1>5, <2>2 DEF Kept
  <2>3. CASE t # s
    BY <1>1, <1>2, <1>3, <1>5, <2>1, <2>3 DEF Kept
  <2> QED
    BY <2>2, <2>3
<1>11. ASSUME NEW t \in Sales \ (unsafe' \cup doubtful') PROVE Fresh(t)'
  <2>1. CASE t = s
    <3>1. recorded[s] = 0
      BY <1>1, <1>11, <2>1 DEF QueueIInv, Unsent
    <3>2. \A p \in Syncs : s \notin Has(p)
      BY <1>4 DEF QueueIInv, SentOnce
    <3> QED
      BY <1>1, <1>2, <2>1, <3>1, <3>2 DEF Fresh
  <2>2. CASE t # s
    BY <1>1, <1>2, <1>5, <1>11, <2>2 DEF QueueIInv, Fresh
  <2> QED
    BY <2>1, <2>2
<1> QED
  BY <1>6, <1>7, <1>8, <1>9, <1>10, <1>11 DEF QueueIInv

(* What one page does to its own list.                                     *)
LEMMA PageQueue ==
  ASSUME QueueIInv, NEW p \in Syncs, NEW new,
         sync' = [sync EXCEPT ![p] = new],
         new \in [step : {"idle", "next", "asked", "recorded"}, left : Seq(Sales), kept : Seq(Sales)]
  PROVE  /\ sync' \in [Syncs -> [step : {"idle", "next", "asked", "recorded"}, left : Seq(Sales), kept : Seq(Sales)]]
         /\ sync'[p] = new /\ Has(p)' = ToSet(new.left) \cup ToSet(new.kept)
         /\ \A q \in Syncs \ {p} : sync'[q] = sync[q] /\ Has(q)' = Has(q)
         /\ Awake' = IF new.step = "idle" THEN Awake \ {p} ELSE Awake \cup {p}
<1>1. sync \in [Syncs -> [step : {"idle", "next", "asked", "recorded"}, left : Seq(Sales), kept : Seq(Sales)]]
  BY DEF QueueIInv, QueueTypeOK
<1>2. sync'[p] = new /\ \A q \in Syncs \ {p} : sync'[q] = sync[q]
  BY <1>1
<1> QED
  BY <1>1, <1>2 DEF Has, Awake

(* A page asks the server for a sale, and the server records it.           *)
LEMMA SendQueue ==
  ASSUME QueueIInv, NEW p \in Syncs, Send(p) \/ SellSaved(p)
  PROVE  QueueIInv'
<1> DEFINE old == sync[p]
           h == Head(old.left)
           new == [old EXCEPT !.step = IF old.step = "next" THEN "asked" ELSE "recorded"]
<1>1. /\ UNCHANGED <<online, queue, checkout, unsafe, doubtful>>
      /\ sync' = [sync EXCEPT ![p] = new]
      /\ old.step \in {"next", "asked"} /\ old.left # <<>>
      /\ old.step = "next" => recorded' = recorded
      /\ old.step = "asked" => Record(h)
  BY DEF Send, SellSaved, PageGoto, QueueIInv, QueueTypeOK
<1>2. old \in [step : {"idle", "next", "asked", "recorded"}, left : Seq(Sales), kept : Seq(Sales)]
      /\ recorded \in [Sales -> 0..2]
  BY DEF QueueIInv, QueueTypeOK
<1>3. /\ new \in [step : {"idle", "next", "asked", "recorded"}, left : Seq(Sales), kept : Seq(Sales)]
      /\ new.left = old.left /\ new.kept = old.kept
      /\ new.step = IF old.step = "next" THEN "asked" ELSE "recorded"
  BY <1>2
<1>4. h \in Sales /\ h \in ToSet(old.left) /\ h \in Has(p) /\ p \in Awake
  BY <1>1, <1>2, Popped DEF QueueIInv, SentOnce, Has, Awake
<1> HIDE DEF old, h, new
<1>5. /\ sync' \in [Syncs -> [step : {"idle", "next", "asked", "recorded"}, left : Seq(Sales), kept : Seq(Sales)]]
      /\ sync'[p] = new
      /\ \A q \in Syncs \ {p} : sync'[q] = sync[q] /\ Has(q)' = Has(q)
      /\ Awake' = Awake
  <2>1. sync' = [sync EXCEPT ![p] = new] /\ new.step # "idle" /\ Awake \cup {p} = Awake
    BY <1>1, <1>3, <1>4
  <2> QED
    BY <1>3, <2>1, PageQueue
<1>6. Has(p)' = Has(p)
  BY <1>3, <1>5 DEF Has, old
<1>7. /\ recorded' \in [Sales -> 0..2] /\ \A t \in Sales : recorded'[t] >= recorded[t]
      /\ \A t \in Sales : recorded'[t] = recorded[t] \/ (t = h /\ old.step = "asked")
      /\ old.step = "asked" => recorded'[h] > 0 /\ (recorded[h] = 0 => recorded'[h] = 1)
  BY <1>1, <1>2, <1>4 DEF Record
<1>8. Saved' = Saved
  BY <1>1 DEF Saved
<1>9. QueueTypeOK'
  BY <1>1, <1>3, <1>5, <1>7 DEF QueueIInv, QueueTypeOK
<1>10. QueuedOnce'
  BY <1>1, <1>8 DEF QueueIInv, QueuedOnce
<1>11. ASSUME NEW q \in Syncs PROVE SentOnce(q)'
  <2>1. CASE q = p
    BY <1>1, <1>3, <1>5, <1>6, <1>7, <1>8, <2>1 DEF QueueIInv, SentOnce, old, h
  <2>2. CASE q # p
    <3>1. sync[q].step = "recorded" => Head(sync[q].left) \in Sales
      BY Popped DEF QueueIInv, QueueTypeOK, SentOnce
    <3>2. sync[q].step = "recorded" => recorded'[Head(sync[q].left)] > 0
      BY <1>2, <1>7, <3>1 DEF QueueIInv, SentOnce
    <3> QED
      BY <1>5, <1>8, <2>2, <3>2 DEF QueueIInv, SentOnce
  <2> QED
    BY <2>1, <2>2
<1>12. h \in Saved
  BY <1>4 DEF QueueIInv, SentOnce
<1>13. \A t \in Sales : Unsent(t)'
  BY <1>1, <1>7, <1>12 DEF QueueIInv, Unsent, Saved
<1>14. ASSUME NEW t \in Sales \ unsafe PROVE Kept(t)'
  <2>1. recorded'[t] = 0 => recorded[t] = 0
    BY <1>2, <1>7
  <2> QED
    BY <1>1, <1>5, <1>6, <2>1 DEF QueueIInv, Kept, Awake
<1>15. ASSUME NEW t \in Sales \ (unsafe \cup doubtful) PROVE Fresh(t)'
  <2>1. CASE t = h /\ old.step = "asked"
    <3>1. recorded[t] = 0 /\ Awake = {p} /\ \A q \in Syncs \ {p} : t \notin Has(q)
      BY <1>4, <2>1 DEF QueueIInv, Fresh, old
    <3>2. recorded'[t] = 1
      BY <1>7, <2>1, <3>1
    <3> QED
      BY <1>3, <1>5, <1>6, <2>1, <3>1, <3>2 DEF Fresh, old, h
  <2>2. CASE ~(t = h /\ old.step = "asked")
    <3>1. recorded'[t] = recorded[t]
      BY <1>7, <2>2
    <3>2. t \in Has(p) => recorded[t] = 0
      BY <1>1 DEF QueueIInv, Fresh, old
    <3> QED
      BY <1>1, <1>5, <1>6, <3>1, <3>2 DEF QueueIInv, Fresh
  <2> QED
    BY <2>1, <2>2
<1> QED
  BY <1>1, <1>9, <1>10, <1>11, <1>13, <1>14, <1>15 DEF QueueIInv

(* The answer to a page: the sale is off its list, or kept for the queue.  *)
LEMMA AnsweredQueue ==
  ASSUME QueueIInv, NEW p \in Syncs, Synced(p) \/ Failed(p)
  PROVE  QueueIInv'
<1> DEFINE old == sync[p]
           h == Head(old.left)
           t == Tail(old.left)
           k == IF Synced(p) THEN old.kept ELSE Append(old.kept, h)
           new == [step |-> "next", left |-> t, kept |-> k]
<1>1. /\ old \in [step : {"idle", "next", "asked", "recorded"}, left : Seq(Sales), kept : Seq(Sales)]
      /\ old.step \in {"asked", "recorded"} /\ old.left # <<>>
      /\ SentOnce(p)
  BY DEF Synced, Failed, QueueIInv, QueueTypeOK
<1>2. /\ h \in Sales /\ t \in Seq(Sales) /\ Once(t) /\ h \notin ToSet(t)
      /\ ToSet(old.left) = ToSet(t) \cup {h}
  BY <1>1, Popped DEF SentOnce
<1>3. /\ UNCHANGED <<online, queue, checkout, recorded, unsafe>>
      /\ sync' = [sync EXCEPT ![p] = new]
      /\ doubtful \subseteq doubtful' /\ doubtful' \subseteq Sales
      /\ ~Synced(p) /\ old.step = "recorded" => h \in doubtful'
      /\ Synced(p) => old.step = "recorded"
  <2>1. doubtful \subseteq Sales /\ sync \in [Syncs -> [step : {"idle", "next", "asked", "recorded"}, left : Seq(Sales), kept : Seq(Sales)]]
    BY DEF QueueIInv, QueueTypeOK
  <2>2. CASE Synced(p)
    BY <2>1, <2>2 DEF Synced
  <2>3. CASE ~Synced(p)
    <3>1. Failed(p) /\ k = Append(old.kept, h)
      BY <2>3
    <3> QED
      BY <1>2, <2>1, <2>3, <3>1 DEF Failed
  <2> QED
    BY <2>2, <2>3
<1>4. old.kept \in Seq(Sales) /\ Once(old.kept) /\ h \notin ToSet(old.kept)
      /\ ToSet(t) \cap ToSet(old.kept) = {}
  BY <1>1, <1>2 DEF SentOnce
<1>5. /\ k \in Seq(Sales) /\ Once(k) /\ ToSet(t) \cap ToSet(k) = {}
      /\ ToSet(k) = IF Synced(p) THEN ToSet(old.kept) ELSE ToSet(old.kept) \cup {h}
  <2> HIDE DEF h, t
  <2>1. CASE Synced(p)
    BY <1>4, <2>1
  <2>2. CASE ~Synced(p)
    <3>1. k = Append(old.kept, h)
      BY <2>2
    <3>2. k \in Seq(Sales) /\ Once(k) /\ ToSet(k) = ToSet(old.kept) \cup {h}
      BY <1>2, <1>4, <3>1, Pushed
    <3> QED
      BY <1>2, <1>4, <2>2, <3>2
  <2> QED
    BY <2>1, <2>2
<1> HIDE DEF h, t, k
<1>6. /\ new \in [step : {"idle", "next", "asked", "recorded"}, left : Seq(Sales), kept : Seq(Sales)]
      /\ new.step = "next" /\ new.left = t /\ new.kept = k
  BY <1>2, <1>5
<1>7. p \in Awake
  BY <1>1 DEF Awake
<1> HIDE DEF new
<1>8. /\ sync' \in [Syncs -> [step : {"idle", "next", "asked", "recorded"}, left : Seq(Sales), kept : Seq(Sales)]]
      /\ sync'[p] = new /\ Has(p)' = ToSet(t) \cup ToSet(k)
      /\ \A q \in Syncs \ {p} : sync'[q] = sync[q] /\ Has(q)' = Has(q)
      /\ Awake' = Awake
  <2>1. sync' = [sync EXCEPT ![p] = new] /\ new.step # "idle" /\ Awake \cup {p} = Awake
    BY <1>3, <1>6, <1>7
  <2> QED
    BY <1>6, <2>1, PageQueue
<1>9. Has(p)' = IF Synced(p) THEN Has(p) \ {h} ELSE Has(p)
  BY <1>2, <1>4, <1>5, <1>8 DEF Has
<1>10. Saved' = Saved
  BY <1>3 DEF Saved
<1>11. QueueTypeOK'
  BY <1>3, <1>6, <1>8 DEF QueueIInv, QueueTypeOK
<1>12. QueuedOnce'
  BY <1>3, <1>10 DEF QueueIInv, QueuedOnce
<1>13. ASSUME NEW q \in Syncs PROVE SentOnce(q)'
  <2>1. CASE q = p
    <3>1. Has(p)' \subseteq Saved
      BY <1>1, <1>9 DEF SentOnce
    <3> QED
      BY <1>2, <1>5, <1>6, <1>8, <1>10, <2>1, <3>1 DEF SentOnce
  <2>2. CASE q # p
    BY <1>3, <1>8, <1>10, <2>2 DEF QueueIInv, SentOnce
  <2> QED
    BY <2>1, <2>2
<1>14. \A x \in Sales : Unsent(x)'
  BY <1>3 DEF QueueIInv, Unsent
<1>15. Synced(p) => recorded[h] > 0
  BY <1>1, <1>3 DEF SentOnce, h
<1>16. ASSUME NEW x \in Sales \ unsafe PROVE Kept(x)'
  BY <1>3, <1>8, <1>9, <1>15 DEF QueueIInv, Kept, Awake
<1>17. ASSUME NEW x \in Sales \ (unsafe \cup doubtful') PROVE Fresh(x)'
  <2>1. Fresh(x)
    BY <1>3 DEF QueueIInv
  <2>2. x \in Has(p)' => recorded[x] = 0
    <3>1. CASE x = h
      BY <1>3, <1>9, <2>1, <3>1, <1>1 DEF Fresh, h
    <3>2. CASE x # h
      BY <1>9, <2>1, <3>2 DEF Fresh, h
    <3> QED
      BY <3>1, <3>2
  <2>3. Has(p)' \subseteq Has(p)
    BY <1>9
  <2> QED
    BY <1>3, <1>8, <2>1, <2>2, <2>3 DEF Fresh
<1> QED
  BY <1>3, <1>11, <1>12, <1>13, <1>14, <1>16, <1>17 DEF QueueIInv

(* A page ends, and writes what it kept; or it is closed before.           *)
LEMMA EndQueue ==
  ASSUME QueueIInv, NEW p \in Syncs, FinishSync(p) \/ Close(p)
  PROVE  QueueIInv'
<1>1. /\ UNCHANGED <<online, checkout, recorded, unsafe>>
      /\ sync' = [sync EXCEPT ![p] = Asleep] /\ p \in Awake
      /\ \/ queue' = sync[p].kept /\ sync[p].step = "next" /\ sync[p].left = <<>> /\ doubtful' = doubtful
         \/ queue' = queue /\ doubtful' = doubtful \cup {s \in ToSet(queue) : recorded[s] > 0}
  BY DEF FinishSync, Close, Awake
<1>2. ToSet(<<>>) = {} /\ Once(<<>>) /\ <<>> \in Seq(Sales)
  BY DEF ToSet, Once
<1>3. Asleep \in [step : {"idle", "next", "asked", "recorded"}, left : Seq(Sales), kept : Seq(Sales)]
      /\ Asleep.step = "idle" /\ Asleep.left = <<>> /\ Asleep.kept = <<>>
  BY <1>2 DEF Asleep
<1>4. /\ sync' \in [Syncs -> [step : {"idle", "next", "asked", "recorded"}, left : Seq(Sales), kept : Seq(Sales)]]
      /\ sync'[p] = Asleep /\ Has(p)' = {}
      /\ \A q \in Syncs \ {p} : sync'[q] = sync[q] /\ Has(q)' = Has(q)
      /\ Awake' = Awake \ {p}
  BY <1>1, <1>2, <1>3, PageQueue
<1>5. SentOnce(p) /\ sync[p].kept \in Seq(Sales) /\ Saved' = Saved /\ queue \in Seq(Sales)
      /\ recorded \in [Sales -> 0..2] /\ QueuedOnce
  BY <1>1 DEF QueueIInv, QueueTypeOK, Saved
<1>6. queue' \in Seq(Sales) /\ QueuedOnce'
  BY <1>1, <1>5 DEF SentOnce, QueuedOnce, Has
<1>7. QueueTypeOK'
  <2>1. ToSet(queue) \subseteq Sales
    BY <1>5 DEF QueuedOnce, Saved
  <2>2. doubtful' \subseteq Sales
    BY <1>1, <2>1 DEF QueueIInv, QueueTypeOK
  <2> QED
    BY <1>1, <1>3, <1>4, <1>6, <2>2 DEF QueueIInv, QueueTypeOK
<1>8. ASSUME NEW q \in Syncs PROVE SentOnce(q)'
  <2>1. CASE q = p
    BY <1>2, <1>3, <1>4, <1>5, <2>1 DEF SentOnce
  <2>2. CASE q # p
    BY <1>1, <1>4, <1>5, <2>2 DEF QueueIInv, SentOnce
  <2> QED
    BY <2>1, <2>2
<1>9. \A x \in Sales : Unsent(x)'
  BY <1>1 DEF QueueIInv, Unsent
<1>10. ASSUME NEW x \in Sales \ unsafe PROVE Kept(x)'
  <2>1. Kept(x)
    BY DEF QueueIInv
  <2>2. CASE queue' = queue
    BY <1>1, <1>4, <2>1, <2>2 DEF Kept, Awake
  <2>3. CASE queue' = sync[p].kept /\ sync[p].left = <<>>
    <3>1. Has(p) = ToSet(queue')
      BY <1>2, <2>3 DEF Has
    <3> QED
      BY <1>1, <1>4, <2>1, <3>1 DEF Kept, Awake
  <2> QED
    BY <1>1, <2>2, <2>3
<1>11. ASSUME NEW x \in Sales \ (unsafe \cup doubtful') PROVE Fresh(x)'
  <2>1. Fresh(x)
    BY <1>1, <1>11 DEF QueueIInv
  <2>2. ASSUME NEW q \in Syncs PROVE x \notin Has(q)' \/ (x \in Has(q) /\ q # p /\ sync'[q] = sync[q])
    BY <1>4
  <2>3. \A q \in Syncs \ {p} : x \notin Has(q)
    BY <1>1, <2>1 DEF Fresh
  <2>4. \A q \in Syncs : x \notin Has(q)'
    BY <2>2, <2>3
  <2>5. x \in ToSet(queue') => recorded[x] = 0
    <3>1. CASE queue' = queue /\ doubtful' = doubtful \cup {s \in ToSet(queue) : recorded[s] > 0}
      BY <1>5, <1>11, <3>1
    <3>2. CASE queue' = sync[p].kept /\ sync[p].step = "next"
      <4>1. x \in ToSet(queue') => x \in Has(p)
        BY <3>2 DEF Has
      <4> QED
        BY <2>1, <3>2, <4>1 DEF Fresh
    <3> QED
      BY <1>1, <3>1, <3>2
  <2> QED
    BY <1>1, <2>1, <2>4, <2>5 DEF Fresh
<1> QED
  BY <1>1, <1>6, <1>7, <1>8, <1>9, <1>10, <1>11 DEF QueueIInv

(* Pages that were idle read the queue.                                    *)
LEMMA OnlineQueue ==
  ASSUME QueueIInv, NEW ps \in SUBSET Syncs, GoOnline(ps)
  PROVE  QueueIInv'
<1> DEFINE new == [Asleep EXCEPT !.step = "next", !.left = queue]
           others == UNION {ToSet(sync[p].left) \cup ToSet(sync[p].kept) : p \in Awake}
           woken == IF queue = <<>> THEN {} ELSE ps
           alone == ps = {} \/ queue = <<>> \/ (Awake = {} /\ \E p \in Syncs : ps = {p})
<1>1. /\ UNCHANGED <<queue, checkout, recorded, doubtful>> /\ online' = TRUE
      /\ ps \cap Awake = {}
      /\ sync' = [p \in Syncs |-> IF p \in woken THEN new ELSE sync[p]]
      /\ unsafe' = IF alone THEN unsafe ELSE unsafe \cup ToSet(queue) \cup others
  BY DEF GoOnline
<1>2. ToSet(<<>>) = {} /\ Once(<<>>) /\ <<>> \in Seq(Sales) /\ queue \in Seq(Sales)
  BY DEF ToSet, Once, QueueIInv, QueueTypeOK
<1>3. /\ new \in [step : {"idle", "next", "asked", "recorded"}, left : Seq(Sales), kept : Seq(Sales)]
      /\ new.step = "next" /\ new.left = queue /\ new.kept = <<>>
  BY <1>2 DEF Asleep
<1> HIDE DEF new
<1>4. /\ \A p \in Syncs \ woken : sync'[p] = sync[p] /\ Has(p)' = Has(p)
      /\ \A p \in woken : sync'[p] = new /\ Has(p)' = ToSet(queue)
  BY <1>1, <1>2, <1>3 DEF Has
<1>5. Awake' = Awake \cup woken /\ Saved' = Saved /\ woken \cap Awake = {}
  BY <1>1, <1>3, <1>4 DEF Awake, Saved
<1>6. \A p \in Awake : Has(p) \subseteq others
  BY DEF Has
<1>7. ToSet(queue) \subseteq Sales /\ others \subseteq Sales
  BY DEF QueueIInv, QueuedOnce, SentOnce, Saved, Has, Awake
<1> HIDE DEF others, woken
<1>8. QueueTypeOK'
  <2>1. sync' \in [Syncs -> [step : {"idle", "next", "asked", "recorded"}, left : Seq(Sales), kept : Seq(Sales)]]
    BY <1>1, <1>3 DEF QueueIInv, QueueTypeOK
  <2>2. unsafe' \subseteq Sales
    BY <1>1, <1>7 DEF QueueIInv, QueueTypeOK
  <2>3. \A p \in Syncs : sync'[p].step \in {"asked", "recorded"} => sync'[p].left # <<>>
    BY <1>3, <1>4 DEF QueueIInv, QueueTypeOK
  <2> QED
    BY <1>1, <2>1, <2>2, <2>3 DEF QueueIInv, QueueTypeOK
<1>9. QueuedOnce'
  BY <1>1, <1>5 DEF QueueIInv, QueuedOnce
<1>10. ASSUME NEW p \in Syncs PROVE SentOnce(p)'
  <2>1. CASE p \in woken
    BY <1>2, <1>3, <1>4, <1>5, <2>1 DEF QueueIInv, QueuedOnce, SentOnce
  <2>2. CASE p \notin woken
    BY <1>1, <1>4, <1>5, <2>2 DEF QueueIInv, SentOnce
  <2> QED
    BY <2>1, <2>2
<1>11. \A x \in Sales : Unsent(x)'
  BY <1>1 DEF QueueIInv, Unsent
<1>12. ASSUME NEW x \in Sales \ unsafe' PROVE Kept(x)'
  BY <1>1, <1>4, <1>5 DEF QueueIInv, Kept, Awake
<1>13. ASSUME NEW x \in Sales \ (unsafe' \cup doubtful) PROVE Fresh(x)'
  <2>1. Fresh(x)
    BY <1>1 DEF QueueIInv
  <2>2. CASE woken = {}
    BY <1>1, <1>4, <1>5, <2>1, <2>2 DEF Fresh
  <2>3. CASE woken # {} /\ alone
    <3>1. PICK p \in Syncs : woken = {p} /\ Awake = {}
      BY <2>3 DEF woken
    <3>2. Awake' = {p}
      BY <1>5, <3>1
    <3>3. \A q \in Syncs \ {p} : x \notin Has(q)'
      BY <1>4, <2>1, <3>1 DEF Fresh
    <3>4. x \in Has(p)' => recorded[x] = 0
      BY <1>4, <2>1, <3>1 DEF Fresh
    <3> QED
      BY <1>1, <2>1, <3>2, <3>3, <3>4 DEF Fresh
  <2>4. CASE woken # {} /\ ~alone
    <3>1. x \notin ToSet(queue) /\ x \notin others
      BY <1>1, <2>4
    <3>2. \A q \in Syncs \ Awake : x \notin Has(q)
      BY DEF QueueIInv, SentOnce, Awake
    <3>3. \A q \in Syncs : x \notin Has(q)'
      BY <1>4, <1>6, <3>1, <3>2
    <3> QED
      BY <1>1, <2>1, <3>1, <3>3 DEF Fresh
  <2> QED
    BY <2>2, <2>3, <2>4
<1> QED
  BY <1>1, <1>8, <1>9, <1>10, <1>11, <1>12, <1>13 DEF QueueIInv

(* Every step keeps the invariant.                                         *)
LEMMA QueueIInvNext == QueueIInv /\ [QueueNext]_queueVars => QueueIInv'
<1> SUFFICES ASSUME QueueIInv, [QueueNext]_queueVars PROVE QueueIInv'
  OBVIOUS
<1>1. ASSUME UNCHANGED <<queue, checkout, sync, recorded, unsafe, doubtful>>, online' \in BOOLEAN
      PROVE  QueueIInv'
  <2>1. Awake' = Awake /\ Saved' = Saved /\ \A p \in Syncs : Has(p)' = Has(p)
    BY <1>1 DEF Awake, Saved, Has
  <2>2. QueueTypeOK' /\ QueuedOnce'
    BY <1>1, <2>1 DEF QueueIInv, QueueTypeOK, QueuedOnce
  <2>3. \A p \in Syncs : SentOnce(p)'
    BY <1>1, <2>1 DEF QueueIInv, SentOnce
  <2>4. \A s \in Sales : Unsent(s)'
    BY <1>1 DEF QueueIInv, Unsent
  <2>5. \A s \in Sales \ unsafe : Kept(s)'
    BY <1>1, <2>1 DEF QueueIInv, Kept, Awake
  <2>6. \A s \in Sales \ (unsafe \cup doubtful) : Fresh(s)'
    BY <1>1, <2>1 DEF QueueIInv, Fresh
  <2> QED
    BY <1>1, <2>2, <2>3, <2>4, <2>5, <2>6 DEF QueueIInv
<1>2. CASE UNCHANGED queueVars
  BY <1>1, <1>2 DEF queueVars, QueueIInv, QueueTypeOK
<1>3. CASE GoOffline
  BY <1>1, <1>3 DEF GoOffline
<1> QED
  BY <1>2, <1>3, CheckoutQueue, SaveQueue, SendQueue, AnsweredQueue, EndQueue, OnlineQueue
     DEF QueueNext, PageStep

(* Every variable keeps its type.                                          *)
THEOREM QueueTypeCorrect == QueueSpec => []QueueTypeOK
<1>1. QueueIInv => QueueTypeOK
  BY DEF QueueIInv
<1> QED
  BY QueueIInvInit, QueueIInvNext, <1>1, PTL DEF QueueSpec

(* A sale the cashier was told is saved is recorded or still queued,       *)
(* however pages fail and close, but for the overlaps that are named.      *)
THEOREM QueueSalesSurvive == QueueSpec => []SavedSalesSurvive
<1>1. QueueIInv => SavedSalesSurvive
  BY DEF QueueIInv, QueueTypeOK, SavedSalesSurvive, Kept
<1> QED
  BY QueueIInvInit, QueueIInvNext, <1>1, PTL DEF QueueSpec

(* A sale is recorded at most once, as long as answers arrive, pages stay  *)
(* open and synchronise one at a time.                                     *)
THEOREM QueueRecordedOnce == QueueSpec => []RecordedOnce
<1>1. QueueIInv => RecordedOnce
  BY DEF QueueIInv, RecordedOnce, Fresh
<1> QED
  BY QueueIInvInit, QueueIInvNext, <1>1, PTL DEF QueueSpec
=============================================================================
