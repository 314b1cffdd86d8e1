-------------------------------- MODULE Catalog --------------------------------
(***************************************************************************)
(* The catalog of the demo workspace: products and their images, CSV imports, *)
(* stock adjustments as far as they hang on products, and the two resets that *)
(* delete every row and seed the fixture again, with identifiers that are     *)
(* always the same.                                                          *)
(*                                                                         *)
(* A statement is a step.  One that has to wait for a row is two: Wait fixes   *)
(* the rows it is after, the statement itself finds what has become of them. *)
(***************************************************************************)
EXTENDS Tables, Sequences

CONSTANTS
  FixtureSku, PreviewSku, \* skus of the seeded product and of the seeded import run
  CsvSkus,                \* skus of the file a user imports
  Free,                   \* lock not held
  MaxRequests             \* bound: requests

ASSUME CatalogAssumption ==
  /\ TableNames = {"records", "runs", "audit", "movements", "balances", "products"}
  /\ FixtureSku \notin CsvSkus \cup {PreviewSku} /\ IsFiniteSet(CsvSkus)
  /\ Free \notin Workers /\ MaxRequests \in Nat

VARIABLES
  files,     \* stored image files, by the request that uploaded them
  lost,      \* history: files of a commit whose answer was lost
  due,       \* next_demo_reset_at has passed
  resetLock, \* advisory lock demo-reset:<organization>
  requests   \* number of requests so far

vars == <<db, tx, files, lost, due, resetLock, requests>>

\* Identifiers are numbers: 0 is the fixture's, others are those of the request
\* that made the row.  0 is also no image.
NoRun == -1
Product(sku, id, born, by, image) ==
  [key |-> sku, id |-> id, born |-> born, by |-> by, image |-> image]
ProductId(p) == <<p.key, p.id>>
Run(key, born, status, skus) == [key |-> key, born |-> born, status |-> status, skus |-> skus]

FixtureId == <<FixtureSku, 0>>
Fixture(born) ==
  [records   |-> {},
   runs      |-> {Run(0, born, "PREVIEW", {PreviewSku})},
   audit     |-> {[key |-> 0, born |-> born]},
   movements |-> {[key |-> 0, born |-> born, product |-> FixtureId]},
   balances  |-> {[key |-> FixtureId, born |-> born, onHand |-> 1]},
   products  |-> {Product(FixtureSku, 0, born, NoRun, 0)}]

Idle == [pc |-> "idle",   \* next statement, or what comes after the transaction
         request |-> 0,
         run |-> NoRun,   \* import run to commit
         rest |-> {},     \* skus still to insert
         product |-> <<FixtureSku, 0>>,
         image |-> 0,     \* file to put into the row
         old |-> 0,       \* file the row had when it was read
         step |-> 0,      \* tables deleted by a reset
         waiting |-> FALSE, seen |-> {}, del |-> None, ins |-> None]

Init ==
  /\ db = Fixture(0)
  /\ tx = [w \in Workers |-> Idle]
  /\ files = {} /\ lost = {}
  /\ due = FALSE /\ resetLock = Free /\ requests = 0

-----------------------------------------------------------------------------
(* Steps that all transactions share.                                       *)

Arrive(w) == tx[w].pc = "idle" /\ requests < MaxRequests /\ requests' = requests + 1
Begin(w, fields) == tx' = [tx EXCEPT ![w] = fields]
Becomes(w, record) == tx' = [tx EXCEPT ![w] = record]
Release(w) == resetLock' = IF resetLock = w THEN Free ELSE resetLock

\* An error, a deadlock, a timeout or the end of the process: nothing is kept.
RollBack(w) == Becomes(w, Idle) /\ Release(w) /\ UNCHANGED <<db, files, lost, due, requests>>
Crash(w) == tx[w].pc # "idle" /\ RollBack(w)

Commit(w) ==
  /\ tx[w].pc = "commit"
  /\ db' = Committed(w)
  /\ due' = (due /\ tx[w].step = 0)
  /\ Becomes(w, Idle) /\ Release(w)
  /\ UNCHANGED <<files, lost, requests>>

Unchanged == UNCHANGED <<db, files, lost, due, resetLock, requests>>
Goes(w, pc, record) == Becomes(w, [record EXCEPT !.pc = pc]) /\ Unchanged

-----------------------------------------------------------------------------
(* The statements that may have to wait for a row.                          *)

\* The function stockpilot_reset_demo_data, less the tables left out.
Deleted == <<"records", "runs", "audit", "movements", "balances", "products">>

Table(w) == CASE tx[w].pc = "delete" -> Deleted[tx[w].step + 1]
              [] tx[w].pc = "mark"   -> "runs"
              [] tx[w].pc = "lock"   -> "balances"
              [] OTHER               -> "products"
Where(w, r) == CASE tx[w].pc = "delete" -> TRUE
                 [] tx[w].pc = "mark"   -> r.key = tx[w].run
                 [] tx[w].pc = "lock"   -> r.key = tx[w].product
                 [] OTHER               -> ProductId(r) = tx[w].product
Target(w) == Seen(w, {r \in Visible(w, Table(w)) : Where(w, r)})

\* A row that refers to a product keeps it from being deleted until the end of
\* the transaction that inserts it, but not from being updated.
RefersTo(rows, p) ==
  \/ \E m \in rows.movements : m.product = ProductId(p)
  \/ \E b \in rows.balances : b.key = ProductId(p)
Resets(v) == tx[v].pc \in {"delete", "seed"} \/ tx[v].step > 0
Referred(w, p) == \E v \in Workers \ {w} : ~Resets(v) /\ RefersTo(tx[v].ins, p)
Removed(w, p) ==
  \E v \in Workers \ {w} : Resets(v) /\ \E x \in tx[v].del.products : SameRow(x, p)

\* What the statement finds: what has become of the rows, if they still match.
Found(w) == {r \in Versions(w, Table(w), Target(w)) : Where(w, r)}

Blocked(w) ==
  \E r \in Found(w) :
    CASE tx[w].pc \in {"ensure", "write"} -> Removed(w, r)
      [] tx[w].pc = "delete" /\ Table(w) = "products" ->
           Replaced(w, "products", r) \/ Referred(w, r)
      [] OTHER -> Replaced(w, Table(w), r)

Wait(w) ==
  /\ tx[w].pc \in {"delete", "mark", "lock", "ensure", "write", "image"}
  /\ ~tx[w].waiting /\ Blocked(w)
  /\ Becomes(w, [tx[w] EXCEPT !.waiting = TRUE, !.seen = Target(w)])
  /\ Unchanged

Granted(w, pc) == tx[w].pc = pc /\ ~Blocked(w)

-----------------------------------------------------------------------------
(* Products and imports.                                                    *)

RequestCreate(w, sku) ==
  /\ Arrive(w)
  /\ Becomes(w, [Idle EXCEPT !.pc = "create", !.request = requests + 1, !.rest = {sku}])
  /\ UNCHANGED <<db, files, lost, due, resetLock>>

\* preview: rows with a sku that exists are refused, the others stored.
RequestPreview(w) ==
  LET known == {p.key : p \in db.products}
      run == Run(requests + 1, requests + 1, "PREVIEW", CsvSkus \ known)
  IN /\ Arrive(w)
     /\ Becomes(w, Put([Idle EXCEPT !.pc = "commit", !.request = requests + 1], "runs", {}, {run}))
     /\ UNCHANGED <<db, files, lost, due, resetLock>>

\* The run is read without a lock; one that is committed is refused.
RequestImport(w, run) ==
  /\ Arrive(w) /\ run.status = "PREVIEW"
  /\ Becomes(w, [Idle EXCEPT !.pc = IF run.skus = {} THEN "mark" ELSE "create",
                             !.request = requests + 1, !.run = run.key, !.rest = run.skus])
  /\ UNCHANGED <<db, files, lost, due, resetLock>>

InsertProduct(w, sku) ==
  LET x == tx[w]
      rest == x.rest \ {sku}
      next == CASE rest # {} -> "create" [] rest = {} /\ x.run = NoRun -> "commit" [] OTHER -> "mark"
  IN /\ x.pc = "create" /\ sku \in x.rest
     /\ ~Contested(w, "products", sku)
     /\ IF WithKey(w, "products", sku) = {}
        THEN Goes(w, next, [Put(x, "products", {}, {Product(sku, x.request, x.request, x.run, 0)})
                              EXCEPT !.rest = rest])
        ELSE RollBack(w)

\* executeIdempotent stores the response of a command with its rows.
Answered(x) == Put(x, "records", {}, {[key |-> x.request, born |-> x.request]})

\* An update of a run that is gone is an error.
RunGoneUnnoticed(w) == FALSE
RunGone(w) == Found(w) = {}
MarkCommitted(w) ==
  /\ Granted(w, "mark")
  /\ IF RunGone(w) THEN RollBack(w)
     ELSE Goes(w, "commit", Answered(Put(tx[w], "runs", Found(w),
                                         {[r EXCEPT !.status = "COMMITTED"] : r \in Found(w)})))

-----------------------------------------------------------------------------
(* A stock adjustment, by one.                                              *)

RequestAdjust(w, p) ==
  /\ Arrive(w)
  /\ Becomes(w, [Idle EXCEPT !.pc = "ensure", !.request = requests + 1, !.product = ProductId(p)])
  /\ UNCHANGED <<db, files, lost, due, resetLock>>

\* lockInventoryBalance: the row is made if there is none, then locked.
EnsureBalance(w) ==
  LET x == tx[w] IN
  /\ x.pc = "ensure"
  /\ IF WithKey(w, "balances", x.product) # {}
     THEN Goes(w, "lock", [x EXCEPT !.waiting = FALSE, !.seen = {}])
     ELSE /\ ~Blocked(w) /\ ~Contested(w, "balances", x.product)
          /\ IF Found(w) = {} THEN RollBack(w)
             ELSE Goes(w, "lock", Put(x, "balances", {},
                                      {[key |-> x.product, born |-> x.request, onHand |-> 0]}))

LockBalance(w) ==
  /\ Granted(w, "lock")
  /\ IF Found(w) = {} THEN RollBack(w)
     ELSE Goes(w, "write", Put(tx[w], "balances", Found(w), Found(w)))

WriteStock(w) ==
  LET x == tx[w]
      old == WithKey(w, "balances", x.product)
      new == {[b EXCEPT !.onHand = @ + 1] : b \in old}
      movement == [key |-> x.request, born |-> x.request, product |-> x.product]
  IN /\ Granted(w, "write")
     /\ IF Found(w) = {} THEN RollBack(w)
        ELSE Goes(w, "commit", Answered(Put(Put(x, "balances", old, new),
                                            "movements", {}, {movement})))

-----------------------------------------------------------------------------
(* Resets.                                                                  *)

BecomeDue == ~due /\ due' = TRUE /\ UNCHANGED <<db, tx, files, lost, resetLock, requests>>

RequestReset(w) ==
  /\ Arrive(w)
  /\ Becomes(w, [Idle EXCEPT !.pc = "delete", !.request = requests + 1])
  /\ UNCHANGED <<db, files, lost, due, resetLock>>

\* A demo login that finds the reset due, and checks again once it has the lock.
RequestAutomatic(w) ==
  /\ Arrive(w) /\ due
  /\ Becomes(w, [Idle EXCEPT !.pc = "recheck", !.request = requests + 1])
  /\ UNCHANGED <<db, files, lost, due, resetLock>>
Recheck(w) ==
  /\ tx[w].pc = "recheck" /\ resetLock = Free
  /\ IF due THEN /\ resetLock' = w /\ Becomes(w, [tx[w] EXCEPT !.pc = "delete"])
             ELSE /\ Becomes(w, Idle) /\ UNCHANGED resetLock
  /\ UNCHANGED <<db, files, lost, due, requests>>

\* Movements restrict the deletion of their product.  (Balances cascade, but
\* there is none without a movement.)
Unrestricted(w, products) == FALSE
Restricted(w, products) ==
  \E p \in products, m \in Visible(w, "movements") : m.product = ProductId(p)

DeleteTable(w) ==
  LET x == tx[w] IN
  /\ Granted(w, "delete")
  /\ IF Table(w) = "products" /\ Restricted(w, Found(w)) THEN RollBack(w)
     ELSE Goes(w, IF x.step + 1 = Len(Deleted) THEN "seed" ELSE "delete",
               [Put(x, Table(w), Found(w), {}) EXCEPT !.step = x.step + 1])

\* seedDemoFixture creates its rows under fixed ids.
FreshIds(w) == FALSE
Clashes(w) ==
  \E t \in TableNames : \E r \in Fixture(tx[w].request)[t] : WithKey(w, t, r.key) # {}
Seed(w) ==
  LET x == tx[w]
      rows == Fixture(x.request)
  IN /\ x.pc = "seed"
     /\ \A t \in TableNames : \A r \in rows[t] : ~Contested(w, t, r.key)
     /\ IF Clashes(w) THEN RollBack(w)
        ELSE Goes(w, "commit", LET seeded == [x EXCEPT !.ins = [t \in TableNames |-> @[t] \cup rows[t]]]
                               IN IF resetLock = w THEN seeded ELSE Answered(seeded))

-----------------------------------------------------------------------------
(* Product images: a row and a stored file.                                 *)

RequestUpload(w, p) ==
  /\ Arrive(w)
  /\ Becomes(w, [Idle EXCEPT !.pc = "store", !.request = requests + 1,
                             !.product = ProductId(p), !.old = p.image])
  /\ UNCHANGED <<db, files, lost, due, resetLock>>

StoreFile(w) ==
  /\ tx[w].pc = "store"
  /\ files' = files \cup {tx[w].request}
  /\ Becomes(w, [tx[w] EXCEPT !.pc = "image", !.image = tx[w].request])
  /\ UNCHANGED <<db, lost, due, resetLock, requests>>

RequestDeleteImage(w, p) ==
  /\ Arrive(w) /\ p.image # 0
  /\ Becomes(w, [Idle EXCEPT !.pc = "image", !.request = requests + 1,
                             !.product = ProductId(p), !.old = p.image])
  /\ UNCHANGED <<db, files, lost, due, resetLock>>

\* What the transaction leaves to do: destroy the replaced file, or the new one.
Over(x, pc) == [Idle EXCEPT !.pc = pc, !.image = x.image, !.old = x.old]
Afterwards(x) == IF x.old = 0 THEN Idle ELSE Over(x, "cleanup")
Undone(x) == IF x.image = 0 THEN Idle ELSE Over(x, "undo")

SetImage(w) ==
  /\ Granted(w, "image")
  /\ IF Found(w) = {} THEN Becomes(w, Undone(tx[w])) /\ Unchanged
     ELSE Goes(w, "publish", Put(tx[w], "products", Found(w),
                                      {[p EXCEPT !.image = tx[w].image] : p \in Found(w)}))

CommitImage(w) ==
  /\ tx[w].pc = "publish"
  /\ \/ db' = Committed(w) /\ Becomes(w, Afterwards(tx[w])) /\ UNCHANGED lost
     \/ UNCHANGED <<db, lost>> /\ Becomes(w, Undone(tx[w]))
     \/ \* carried out, but reported as failed
        db' = Committed(w) /\ Becomes(w, Undone(tx[w])) /\ lost' = lost \cup {tx[w].image}
  /\ UNCHANGED <<files, due, resetLock, requests>>

\* The file a finished request destroys; when that fails, or the process ends
\* before, the file stays (Crash).
AlwaysOld(x) == x.old
Unwanted(x) == IF x.pc = "cleanup" THEN x.old ELSE x.image
DestroyFile(w) ==
  /\ tx[w].pc \in {"cleanup", "undo"}
  /\ files' = files \ {Unwanted(tx[w])}
  /\ Becomes(w, Idle)
  /\ UNCHANGED <<db, lost, due, resetLock, requests>>

-----------------------------------------------------------------------------
Request(w) ==
  \/ \E sku \in CsvSkus \cup {PreviewSku, FixtureSku} : RequestCreate(w, sku)
  \/ \E run \in db.runs : RequestImport(w, run)
  \/ \E p \in db.products : RequestAdjust(w, p) \/ RequestUpload(w, p) \/ RequestDeleteImage(w, p)
  \/ RequestPreview(w) \/ RequestReset(w) \/ RequestAutomatic(w)

Step(w) ==
  \/ Wait(w) \/ Commit(w) \/ Crash(w)
  \/ \E sku \in tx[w].rest : InsertProduct(w, sku)
  \/ MarkCommitted(w) \/ EnsureBalance(w) \/ LockBalance(w) \/ WriteStock(w)
  \/ Recheck(w) \/ DeleteTable(w) \/ Seed(w)
  \/ StoreFile(w) \/ SetImage(w) \/ CommitImage(w) \/ DestroyFile(w)

Next == BecomeDue \/ \E w \in Workers : Request(w) \/ Step(w)
Spec == Init /\ [][Next]_vars

-----------------------------------------------------------------------------
(* Properties.                                                              *)

\* Two resets that overlap, whichever locks they took, never leave a mixture:
\* every fixture row is there once, and all were seeded by the same reset.
FixtureWhole ==
  \E born \in 0 .. MaxRequests : \A t \in TableNames : \A f \in Fixture(born)[t] :
    {r.born : r \in {r \in db[t] : r.key = f.key}} = {born}

\* A reset under way when stock moves loses neither half of the movement.
LedgerStands ==
  \A b \in db.balances :
    b.onHand = Cardinality({m \in db.movements : m.product = b.key})

\* An import that left a product is committed, and left all the products of its
\* run: not half of them, and none for a run that a reset has taken back.
ImportedWhole ==
  \A p \in db.products : p.by # NoRun =>
    \E run \in db.runs :
      /\ run.key = p.by /\ run.status = "COMMITTED"
      /\ \A sku \in run.skus : \E q \in db.products : q.key = sku /\ q.by = run.key

\* Neither is done by halves.
WholeOrNotAtAll == FixtureWhole /\ ImportedWhole

\* A product refers to a file that is stored, unless the commit of the row was
\* carried out and reported as failed.
ImageStored == \A p \in db.products : p.image \in {0} \cup files \cup lost
=============================================================================
