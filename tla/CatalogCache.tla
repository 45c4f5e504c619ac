---------------------------- MODULE CatalogCache ----------------------------
(***************************************************************************)
(* The catalog of an outlet as the POS pages see it: read through a cache  *)
(* (cacheGetOrSet), which the writers of products, prices and stock        *)
(* invalidate, each at its own moment:                                     *)
(*   "edit"    updateProduct, deleteProduct, price overrides, setMinStock: *)
(*             commit, then invalidate;                                    *)
(*   "create"  createProduct: invalidate, then commit;                     *)
(*   "sell"    checkout: send the invalidation without waiting for it, and *)
(*             commit when the request has answered;                       *)
(*   "move"    transfers, purchase orders, returns, mutations, voids:      *)
(*             commit only.                                                *)
(* A catalog is abstracted to a version number: writers commit one after   *)
(* the other, and version n + 1 is made of version n.                      *)
(***************************************************************************)
EXTENDS Naturals, FiniteSets

CONSTANTS
  Readers, Writers,
  MaxVersion     \* bound: number of commits

ASSUME BoundAssumption == MaxVersion \in Nat

VARIABLES
  db,        \* the committed catalog
  cache,     \* the entry in Redis, or Absent
  reader,    \* [Readers -> [step, value]]: requests, and their unfinished set
  writer,    \* [Writers -> [op, step]]
  sent,      \* invalidations sent and not yet done: DELs on their way
  excused    \* history: versions that may be in the cache although outdated

cacheVars == <<db, cache, reader, writer, sent, excused>>

-----------------------------------------------------------------------------
Absent == MaxVersion + 1
Operations == {"edit", "create", "sell", "move"}
Reading    == [step |-> "idle", value |-> Absent]
Writing    == [op |-> "edit", step |-> "idle"]

(* What readers hold and have not yet stored, with the entry itself: all   *)
(* that can still be the entry when no one reads the database again.       *)
InFlight == {reader[r].value : r \in {r \in Readers : reader[r].step = "set"}}

CacheInit ==
  /\ db = 0 /\ cache = Absent
  /\ reader = [r \in Readers |-> Reading]
  /\ writer = [w \in Writers |-> Writing]
  /\ sent = {} /\ excused = {}

(* getPosCatalogProducts: a hit is answered at once.                       *)
Get(r) ==
  /\ reader[r] = Reading /\ cache = Absent
  /\ reader' = [reader EXCEPT ![r].step = "fetch"]
  /\ UNCHANGED <<db, cache, writer, sent, excused>>

(* fetchPosCatalogFromDb.                                                  *)
Fetch(r) ==
  /\ reader[r].step = "fetch"
  /\ reader' = [reader EXCEPT ![r] = [step |-> "set", value |-> db]]
  /\ UNCHANGED <<db, cache, writer, sent, excused>>

(* cacheSet, which the answer does not wait for.                           *)
Set(r) ==
  /\ reader[r].step = "set"
  /\ cache' = reader[r].value
  /\ reader' = [reader EXCEPT ![r] = Reading]
  /\ UNCHANGED <<db, writer, sent, excused>>

(* Redis does not answer, or fails: the error is logged and forgotten.     *)
SetFails(r) ==
  /\ reader[r].step = "set"
  /\ reader' = [reader EXCEPT ![r] = Reading]
  /\ UNCHANGED <<db, cache, writer, sent, excused>>

(* Fault: entries are stored for ever.                                     *)
ExpireNever == FALSE /\ UNCHANGED cacheVars

(* CACHE_TTL: 30 s.                                                        *)
Expire ==
  /\ cache # Absent
  /\ cache' = Absent
  /\ UNCHANGED <<db, reader, writer, sent, excused>>

-----------------------------------------------------------------------------
Begin(w, op) ==
  /\ writer[w] = Writing /\ db < MaxVersion
  /\ writer' = [writer EXCEPT ![w] = [op |-> op, step |-> IF op \in {"edit", "move"} THEN "commit" ELSE "del"]]
  /\ UNCHANGED <<db, cache, reader, sent, excused>>

(* The catalog changes.  What was in the cache or on its way there stays   *)
(* outdated: for good after a "move" or when the DEL came first, else      *)
(* until the DEL; but a read that is on its way may come after the DEL.    *)
Commit(w) ==
  /\ writer[w].step = "commit" /\ db < MaxVersion
  /\ db' = db + 1
  /\ excused' = excused \cup InFlight \cup (IF writer[w].op = "edit" THEN {} ELSE {cache} \ {Absent})
  /\ writer' = [writer EXCEPT ![w] = IF @.op = "edit" THEN [@ EXCEPT !.step = "del"] ELSE Writing]
  /\ UNCHANGED <<cache, reader, sent>>

(* Fault: updates and deletions forget the cache.                          *)
InvalidateCreatedOnly(w) ==
  /\ writer[w].step = "del"
  /\ cache' = IF writer[w].op = "create" THEN Absent ELSE cache
  /\ writer' = [writer EXCEPT ![w] = IF @.op = "edit" THEN Writing ELSE [@ EXCEPT !.step = "commit"]]
  /\ sent' = IF writer[w].op = "sell" THEN sent \cup {w} ELSE sent
  /\ UNCHANGED <<db, reader, excused>>

(* invalidatePosCatalogForTenant and ...ForOutlet, awaited but in a sale.  *)
Invalidate(w) ==
  /\ writer[w].step = "del"
  /\ cache' = IF writer[w].op = "sell" THEN cache ELSE Absent
  /\ writer' = [writer EXCEPT ![w] = IF @.op = "edit" THEN Writing ELSE [@ EXCEPT !.step = "commit"]]
  /\ sent' = IF writer[w].op = "sell" THEN sent \cup {w} ELSE sent
  /\ UNCHANGED <<db, reader, excused>>

(* cacheDel swallows errors, too.                                          *)
InvalidateFails(w) ==
  /\ writer[w].step = "del" /\ writer[w].op # "sell"
  /\ writer' = [writer EXCEPT ![w] = IF @.op = "edit" THEN Writing ELSE [@ EXCEPT !.step = "commit"]]
  /\ excused' = excused \cup ({cache} \ {Absent})
  /\ UNCHANGED <<db, cache, reader, sent>>

(* The DEL of a sale is done, before or after its commit.                  *)
Deliver(w) ==
  /\ w \in sent
  /\ cache' = Absent
  /\ sent' = sent \ {w}
  /\ UNCHANGED <<db, reader, writer, excused>>

Lose(w) ==
  /\ w \in sent
  /\ sent' = sent \ {w}
  /\ UNCHANGED <<db, cache, reader, writer, excused>>

-----------------------------------------------------------------------------
Read(r)  == Get(r) \/ Fetch(r) \/ Set(r) \/ SetFails(r)
Write(w) == Commit(w) \/ Invalidate(w) \/ InvalidateFails(w) \/ Deliver(w) \/ Lose(w)

CacheNext ==
  \/ \E r \in Readers : Read(r)
  \/ \E w \in Writers : Write(w) \/ \E op \in Operations : Begin(w, op)
  \/ Expire

CacheSpec == CacheInit /\ [][CacheNext]_cacheVars

(* Requests run on, Redis answers or fails, and entries expire.            *)
CacheFairSpec ==
  CacheSpec /\ WF_cacheVars(Expire)
       /\ (\A r \in Readers : WF_cacheVars(Fetch(r)) /\ WF_cacheVars(Set(r) \/ SetFails(r)))
       /\ (\A w \in Writers : WF_cacheVars(Write(w)))

-----------------------------------------------------------------------------
CacheTypeOK ==
  /\ db \in 0..MaxVersion /\ cache \in 0..Absent
  /\ reader \in [Readers -> [step : {"idle", "fetch", "set"}, value : 0..Absent]]
  /\ writer \in [Writers -> [op : Operations, step : {"idle", "commit", "del"}]]
  /\ sent \subseteq Writers
  /\ excused \subseteq 0..MaxVersion

(* The entry is the committed catalog, unless an edit is about to delete   *)
(* it, or it was outdated when it got there or survived a commit: stored   *)
(* by a reader that had fetched it before the commit, fetched between the  *)
(* DEL and the commit, left by a change that does not invalidate, or by a  *)
(* DEL that failed.                                                        *)
StaleForAReason ==
  \/ cache \in {db, Absent} \cup excused
  \/ \E w \in Writers : writer[w].op = "edit" /\ writer[w].step = "del"

(* Outdated entries do not last: once the writers have stopped, the cache  *)
(* has, in the end, the committed catalog or none.                         *)
StalenessEnds == <>[](cache \in {db, Absent})
=============================================================================
